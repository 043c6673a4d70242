------------------------------ MODULE ChaosProofs ------------------------------
(***************************************************************************)
(* What clients observe is linearizable, whatever the faults, the number   *)
(* of clients and servers, and the workload.                               *)
(***************************************************************************)
EXTENDS Chaos, CheckerProofs

(***************************************************************************)
(* An order that explains operations.  place[o] is the entry of the log    *)
(* that o wrote, or the last one of the store that it read.                *)
(***************************************************************************)

Kind == {"Read", "Write"}

Placed(S, place) ==
    /\ \A o \in S : place[o] \in Nat /\ o.complete \in Nat /\ o.invoke \in Nat
    /\ \A o \in S : o.kind \in Kind /\ o.invoke < o.complete
    /\ \A a, b \in S : a.complete = b.complete => a = b
    /\ \A a, b \in S : IsWrite(a) /\ IsWrite(b) /\ place[a] = place[b] => a = b
    /\ \A a, b \in S : Before(a, b) => place[a] <= place[b]
    /\ \A a, b \in S : Before(a, b) /\ IsWrite(b) => place[a] < place[b]
    /\ \A o \in S : IsWrite(o) => place[o] # 0
    /\ \A o \in S : IsRead(o) /\ place[o] = 0 => o.value = None
    /\ \A o \in S : IsRead(o) /\ place[o] # 0 =>
          \E w \in S : IsWrite(w) /\ place[w] = place[o] /\ w.value = o.value

\* a goes before b: by place, the write of a place first, then by completion.
Ahead(a, b, place) ==
    \/ place[a] < place[b]
    \/ place[a] = place[b] /\ IsWrite(a) /\ IsRead(b)
    \/ place[a] = place[b] /\ IsRead(a) /\ IsRead(b) /\ a.complete < b.complete

LEMMA AheadIsOrder ==
    ASSUME NEW S, NEW place, Placed(S, place)
    PROVE  Ranked(S, {xy \in S \X S : Ahead(xy[1], xy[2], place)})
<1> DEFINE R == {xy \in S \X S : Ahead(xy[1], xy[2], place)}
<1>1. ASSUME NEW x \in S, NEW y \in S PROVE <<x, y>> \in R <=> Ahead(x, y, place)
  OBVIOUS
<1>2. ASSUME NEW x \in S PROVE place[x] \in Nat /\ x.complete \in Nat /\ (IsRead(x) <=> ~IsWrite(x))
  BY DEF Placed, IsRead, IsWrite, Kind
<1> HIDE DEF R
<1>3. ASSUME NEW x \in S, NEW y \in S, x # y PROVE <<x, y>> \in R \/ <<y, x>> \in R
  <2>1. x.complete # y.complete
    BY <1>3 DEF Placed
  <2>2. IsWrite(x) /\ IsWrite(y) => place[x] # place[y]
    BY <1>3 DEF Placed
  <2> QED
    BY <1>1, <1>2, <2>1, <2>2 DEF Ahead
<1>4. ASSUME NEW x \in S, NEW y \in S, NEW z \in S, <<x, y>> \in R, <<y, z>> \in R
      PROVE  <<x, z>> \in R
  <2>1. Ahead(x, y, place) /\ Ahead(y, z, place)
    BY <1>1, <1>4
  <2> QED
    BY <1>1, <1>2, <2>1 DEF Ahead
<1>5. ASSUME NEW x \in S PROVE <<x, x>> \notin R
  BY <1>1, <1>2 DEF Ahead
<1>6. Ranked(S, R)
  BY <1>3, <1>4, <1>5 DEF Ranked
<1> QED
  BY <1>6 DEF R

LEMMA PlacesExplain ==
    ASSUME NEW S, IsFiniteSet(S), NEW place, Placed(S, place)
    PROVE  \E order \in SetToSeqs(S) : KeepsTime(order) /\ ReadsLastWrite(order)
<1> DEFINE R == {xy \in S \X S : Ahead(xy[1], xy[2], place)}
           n == Cardinality(S)
<1>1. n \in Nat
  BY FS_CardinalityType
<1>2. Ranked(S, R)
  BY AheadIsOrder
<1>3. ASSUME NEW x, NEW y, <<x, y>> \in R PROVE x \in S /\ y \in S /\ Ahead(x, y, place)
  BY <1>3
<1> HIDE DEF R
<1>4. PICK order \in SetToSeqs(S) :
         /\ DOMAIN order = 1 .. n
         /\ \A j, k \in DOMAIN order : j < k => <<order[j], order[k]>> \in R
         /\ \A x \in S : \E j \in DOMAIN order : order[j] = x
  BY <1>2, OrderedEnumeration
<1>5. \A j \in 1 .. n : order[j] \in S
  BY DEF SetToSeqs
<1>6. \A x \in S : place[x] \in Nat /\ x.complete \in Nat /\ x.invoke \in Nat
                   /\ x.invoke < x.complete /\ (IsRead(x) <=> ~IsWrite(x))
  BY DEF Placed, IsRead, IsWrite, Kind
<1>7. ASSUME NEW j \in DOMAIN order, NEW k \in DOMAIN order, j < k
      PROVE  ~Before(order[k], order[j])
  <2> SUFFICES ASSUME Before(order[k], order[j]) PROVE FALSE
    OBVIOUS
  <2>1. PICK a \in S : a = order[k]
    BY <1>4, <1>5
  <2>2. PICK b \in S : b = order[j]
    BY <1>4, <1>5
  <2>3. Ahead(b, a, place)
    BY <1>3, <1>4, <1>7, <2>1, <2>2
  <2>4. Before(a, b)
    BY <2>1, <2>2
  <2>5. place[a] <= place[b] /\ (IsWrite(b) => place[a] < place[b])
    BY <2>4 DEF Placed
  <2>6. a.complete < b.invoke
    BY <2>4 DEF Before
  <2> QED
    BY <1>6, <2>3, <2>5, <2>6 DEF Ahead
<1>8. ASSUME NEW k \in DOMAIN order, IsRead(order[k])
      PROVE  LET writes == {j \in 1 .. (k - 1) : IsWrite(order[j])}
             IN  order[k].value = IF writes = {} THEN None ELSE order[Max(writes)].value
  <2> DEFINE writes == {j \in 1 .. (k - 1) : IsWrite(order[j])}
  <2>1. PICK r \in S : r = order[k]
    BY <1>4, <1>5
  <2>2. IsRead(r)
    BY <1>8, <2>1
  <2>3. k \in 1 .. n /\ k \in Nat
    BY <1>1, <1>4
  <2>4. ASSUME NEW j \in writes
        PROVE  /\ j \in 1 .. n /\ j \in Nat /\ order[j] \in S /\ IsWrite(order[j])
               /\ place[order[j]] <= place[r]
    <3>1. j \in 1 .. n /\ j < k /\ IsWrite(order[j])
      BY <1>1, <2>3
    <3>2. Ahead(order[j], r, place)
      BY <1>3, <1>4, <2>1, <3>1
    <3>3. order[j] \in S
      BY <1>5, <3>1
    <3> QED
      BY <1>6, <2>2, <3>1, <3>2, <3>3 DEF Ahead
  <2>5. CASE place[r] = 0
    <3>1. writes = {}
      <4> SUFFICES ASSUME NEW j \in writes PROVE FALSE
        OBVIOUS
      <4>1. order[j] \in S /\ IsWrite(order[j]) /\ place[order[j]] <= place[r]
        BY <2>4
      <4>2. place[order[j]] # 0
        BY <4>1 DEF Placed
      <4> QED
        BY <1>6, <2>5, <4>1, <4>2
    <3>2. r.value = None
      BY <2>2, <2>5 DEF Placed
    <3> QED
      BY <2>1, <3>1, <3>2
  <2>6. CASE place[r] # 0
    <3>1. PICK w \in S : IsWrite(w) /\ place[w] = place[r] /\ w.value = r.value
      BY <2>2, <2>6 DEF Placed
    <3>2. PICK m \in DOMAIN order : order[m] = w
      BY <1>4
    <3>3. m < k
      <4>1. m # k
        BY <1>6, <2>1, <2>2, <3>1, <3>2
      <4>2. ASSUME k < m PROVE FALSE
        <5>1. Ahead(r, w, place)
          BY <1>3, <1>4, <2>1, <3>2, <4>2
        <5> QED
          BY <1>6, <2>2, <3>1, <5>1 DEF Ahead
      <4> QED
        BY <1>1, <1>4, <4>1, <4>2
    <3>4. m \in writes
      BY <1>1, <1>4, <2>3, <3>1, <3>2, <3>3
    <3>5. ASSUME NEW j \in writes PROVE m >= j
      <4>1. j \in 1 .. n /\ j \in Nat /\ order[j] \in S /\ IsWrite(order[j])
            /\ place[order[j]] <= place[r]
        BY <2>4
      <4> SUFFICES ASSUME m < j PROVE FALSE
        BY <1>1, <1>4, <4>1
      <4>2. PICK v \in S : v = order[j]
        BY <4>1
      <4>3. Ahead(w, v, place)
        BY <1>3, <1>4, <3>2, <4>1, <4>2
      <4>4. place[v] = place[w] /\ IsWrite(v)
        BY <1>6, <3>1, <4>1, <4>2, <4>3 DEF Ahead
      <4> QED
        BY <1>6, <3>1, <4>3, <4>4 DEF Ahead
    <3>6. Max(writes) \in writes /\ \A j \in writes : Max(writes) >= j
      BY <3>4, <3>5, Zenon DEF Max
    <3>7. Max(writes) = m
      <4>1. Max(writes) \in Nat /\ m \in Nat
        BY <2>4, <3>4, <3>6
      <4>2. Max(writes) >= m /\ m >= Max(writes)
        BY <3>4, <3>5, <3>6
      <4> QED
        BY <4>1, <4>2
    <3> QED
      BY <2>1, <3>1, <3>2, <3>4, <3>7
  <2> QED
    BY <2>5, <2>6
<1> QED
  BY <1>7, <1>8, Zenon DEF KeepsTime, ReadsLastWrite

(***************************************************************************)
(* What holds between the parts of the state.  Besides them there are the  *)
(* number of entries that were committed by time t, times[t], what kind of *)
(* operation an id i stands for, kinds[i], and when it was begun,          *)
(* starts[i].                                                              *)
(***************************************************************************)

Ids == Client \X Nat

Written(c, op) == [client |-> c, op |-> op, command |-> SetCommand(Key, ValueOf(c, op))]
Entry == {Written(c, op) : c \in Client, op \in Nat}
Proposal == [client : Client, op : Nat, try : Nat, term : Nat]
Command == [client : Client, op : Nat, try : Nat, kind : Kind]
Waiting == [client : Client, op : Nat \ {0}, try : Nat, kind : Kind,
            stage : {"append", "replicate", "confirm"}, index : Nat, acks : SUBSET Node]
ClientState == [at : {"rest", "send", "wait"}, op : Nat, kind : Kind, target : Nat,
                retries : Nat, invoke : Nat]

\* The write that the store of the first j entries shows.
LastWrite(l, j) == IF j = 0 THEN None ELSE ValueOf(l[j].client, l[j].op)

Ops(cl) == [c \in Client |-> cl[c].op]
Pending(cl) == {c \in Client : cl[c].at # "rest"}

TimesOK(times, now, k) ==
    /\ times \in [Nat -> Nat] /\ now \in Nat /\ k \in Nat
    /\ \A t \in 0 .. now : times[t] <= k
    /\ \A s, t \in 0 .. now : s <= t => times[s] <= times[t]

\* ops[c] operations of c have begun.
StartsOK(kinds, starts, ops, now) ==
    /\ kinds \in [Ids -> Kind] /\ starts \in [Ids -> Nat] /\ ops \in [Client -> Nat]
    /\ \A c \in Client : \A o \in 1 .. ops[c] : starts[<<c, o>>] <= now

\* id is that of an operation that has begun.
Begun(id, ops) == id \in Ids /\ id[2] \in 1 .. ops[id[1]]

ClientsOK(cl, kinds, starts) ==
    /\ cl \in [Client -> ClientState]
    /\ \A c \in Client : cl[c].at # "rest" =>
          /\ cl[c].op # 0
          /\ cl[c].kind = kinds[<<c, cl[c].op>>] /\ cl[c].invoke = starts[<<c, cl[c].op>>]

\* A result that a client may report: the write is in the part of the log that was
\* committed when it completed, the read saw a state between its ends.
Explained(o, times, l) ==
    /\ o.kind = "Write" /\ o.result = "Ok" =>
          \E j \in 1 .. times[o.complete] : <<l[j].client, l[j].op>> = o.id
    /\ o.kind = "Read" /\ o.result = "Ok" =>
          \E j \in times[o.invoke] .. times[o.complete] : o.value = LastWrite(l, j)

RecordOK(o, kinds, starts, ops, pending, now) ==
    /\ o \in Operation({o.id}, {o.key}, {o.value})
    /\ Begun(o.id, ops) /\ (o.id[2] = ops[o.id[1]] => o.id[1] \notin pending)
    /\ o.key = Key /\ o.kind = kinds[o.id] /\ o.invoke = starts[o.id]
    /\ o.complete \in Nat /\ o.invoke < o.complete /\ o.complete <= now
    /\ o.result \in {"Ok", "Error"}
    /\ o.kind = "Write" => o.value = ValueOf(o.id[1], o.id[2])

RecordsOK(h, kinds, starts, ops, pending, now) ==
    /\ IsFiniteSet(h)
    /\ \A o \in h : RecordOK(o, kinds, starts, ops, pending, now)
    /\ \A o, p \in h : o.id = p.id => o = p
    /\ \A o, p \in h : o.complete = p.complete => o = p
    /\ \A id \in Ids : Begun(id, ops) =>
          \/ \E o \in h : o.id = id
          \/ id[2] = ops[id[1]] /\ id[1] \in pending

ResultsOK(h, times, l) == \A o \in h : Explained(o, times, l)

\* Every entry is a write that began when fewer entries than its place were
\* committed.
LogOK(l, kinds, starts, ops, times) ==
    /\ l \in Seq(Entry)
    /\ \A j \in 1 .. Len(l) :
          /\ Begun(<<l[j].client, l[j].op>>, ops)
          /\ kinds[<<l[j].client, l[j].op>>] = "Write"
          /\ times[starts[<<l[j].client, l[j].op>>]] < j

CommandOK(cmd, kinds, ops) ==
    Begun(<<cmd.client, cmd.op>>, ops) /\ kinds[<<cmd.client, cmd.op>>] = cmd.kind

QueuesOK(q, kinds, ops) ==
    /\ q \in [Node -> Seq(Command)]
    /\ \A n \in Node : \A j \in 1 .. Len(q[n]) : CommandOK(q[n][j], kinds, ops)

\* Every entry that a server has further in its log is a write that has begun.
AppendedOK(further, kinds, ops) ==
    /\ further \in Seq(Proposal)
    /\ \A j \in 1 .. Len(further) :
          LET id == <<further[j].client, further[j].op>>
          IN  Begun(id, ops) /\ kinds[id] = "Write"

\* What a server's loop works on: a write knows its entry once that is committed.
WorkOK(w, kinds, ops, l) ==
    w.op # 0 =>
        /\ CommandOK(w, kinds, ops)
        /\ w.kind = "Write" /\ w.index # 0 =>
              w.index <= Len(l) /\ l[w.index].client = w.client /\ l[w.index].op = w.op

LoopsOK(b, kinds, ops, l) ==
    /\ b \in [Node -> {NoCommand} \cup Waiting]
    /\ \A n \in Node : WorkOK(b[n], kinds, ops, l)

\* A read that is to be answered sees what was committed when it began.
ReadsOK(reads, kinds, starts, ops, times) ==
    \A p \in reads :
        LET id == <<p.client, p.op>>
        IN  /\ Begun(id, ops) /\ kinds[id] = "Read"
            /\ p.index \in Nat /\ times[starts[id]] <= p.index

\* The side of the clients.
BooksOK(times, kinds, starts, cl, h, now, l) ==
    /\ TimesOK(times, now, Len(l)) /\ StartsOK(kinds, starts, Ops(cl), now)
    /\ ClientsOK(cl, kinds, starts)
    /\ RecordsOK(h, kinds, starts, Ops(cl), Pending(cl), now)
    /\ ResultsOK(h, times, l)
    /\ LogOK(l, kinds, starts, Ops(cl), times)

\* The side of the servers.
ServersOK(times, kinds, starts, ops, l, further, q, b, reads) ==
    /\ AppendedOK(further, kinds, ops)
    /\ QueuesOK(q, kinds, ops) /\ LoopsOK(b, kinds, ops, l)
    /\ ReadsOK(reads, kinds, starts, ops, times)

Kept(times, kinds, starts, cl, h, now, l, further, q, b, reads) ==
    /\ BooksOK(times, kinds, starts, cl, h, now, l)
    /\ ServersOK(times, kinds, starts, Ops(cl), l, further, q, b, reads)

\* The reads that are to be answered: those whose index is confirmed, and those
\* that can still be confirmed, for a majority is left that has not heard of a
\* later term.
Majorities == {Q \in SUBSET Node : Cardinality(Q) >= Majority}
Superseded(n, heard) == \E Q \in Majorities : \A q \in Q : term[q] > term[n] /\ q \notin heard
Confirms(n) == Works(n, "Read", "confirm") /\ state[n] = "Leader"
Confirming == {n \in Node : Confirms(n) /\ ~Superseded(n, busy[n].acks)}
ReadOf(p) == [client |-> p.client, op |-> p.op, index |-> p.index]
Reads == {ReadOf(g) : g \in gets} \cup {ReadOf(busy[n]) : n \in Confirming}

KeptInv ==
    \E times, kinds, starts :
        Kept(times, kinds, starts, client, history, clock, log, appended, queue, busy, Reads)

(***************************************************************************)
(* The records and the log explain each other.                             *)
(***************************************************************************)

\* An entry holds the value of its operation.
LEMMA EntryParts ==
    ASSUME NEW l \in Seq(Entry), NEW j \in 1 .. Len(l)
    PROVE  /\ l[j].client \in Client /\ l[j].op \in Nat
           /\ l[j] = Written(l[j].client, l[j].op)
<1>1. l[j] \in Entry
  OBVIOUS
<1>2. PICK c \in Client, op \in Nat : l[j] = Written(c, op)
  BY <1>1 DEF Entry
<1> QED
  BY <1>2 DEF Written

LEMMA BooksExplain ==
    ASSUME NEW times, NEW kinds, NEW starts, NEW cl, NEW h, NEW now, NEW l,
           BooksOK(times, kinds, starts, cl, h, now, l),
           Pending(cl) = {},
           \A i, j \in 1 .. Len(l) : l[i].client = l[j].client /\ l[i].op = l[j].op => i = j
    PROVE  IsLinearizable(h)
<1> DEFINE Wrote(j) == <<l[j].client, l[j].op>>
           taken == {o \in IndeterminateWrites(h) : \E j \in 1 .. Len(l) : Wrote(j) = o.id}
           S == SuccessfulOps(h) \cup taken
           place == [o \in S |-> IF IsWrite(o) THEN CHOOSE j \in 1 .. Len(l) : Wrote(j) = o.id
                                 ELSE CHOOSE j \in times[o.invoke] .. times[o.complete] :
                                         o.value = LastWrite(l, j)]
<1>1. /\ TimesOK(times, now, Len(l)) /\ StartsOK(kinds, starts, Ops(cl), now)
      /\ RecordsOK(h, kinds, starts, Ops(cl), Pending(cl), now) /\ ResultsOK(h, times, l)
      /\ LogOK(l, kinds, starts, Ops(cl), times)
  BY DEF BooksOK
<1>2. Len(l) \in Nat /\ l \in Seq(Entry) /\ Len(l) <= Len(l) /\ now \in Nat
  BY <1>1 DEF TimesOK, LogOK
<1>3. ASSUME NEW o \in h
      PROVE  /\ o.kind \in Kind /\ o.invoke \in Nat /\ o.complete \in Nat
             /\ o.invoke < o.complete /\ o.complete <= now
             /\ o.result \in {"Ok", "Error"} /\ o.key = Key /\ o.invoke = starts[o.id]
             /\ o.kind = "Write" => o.value = ValueOf(o.id[1], o.id[2])
  <2>1. RecordOK(o, kinds, starts, Ops(cl), Pending(cl), now)
    BY <1>1 DEF RecordsOK
  <2>2. o.id \in Ids
    BY <2>1 DEF RecordOK, Begun
  <2>3. kinds[o.id] \in Kind /\ starts[o.id] \in Nat
    BY <1>1, <2>2 DEF StartsOK
  <2> QED
    BY <2>1, <2>3 DEF RecordOK
<1>4. ASSUME NEW s \in 0 .. now, NEW t \in 0 .. now, s <= t
      PROVE  times[s] \in Nat /\ times[t] \in Nat /\ times[s] <= times[t] /\ times[t] <= Len(l)
  <2>1. s \in Nat /\ t \in Nat
    BY <1>2
  <2> QED
    BY <1>1, <1>4, <2>1 DEF TimesOK
<1>5. ASSUME NEW j \in 1 .. Len(l)
      PROVE  /\ j \in Nat /\ j # 0 /\ j \in 1 .. Len(l)
             /\ Wrote(j) \in Ids /\ times[starts[Wrote(j)]] < j
             /\ kinds[Wrote(j)] = "Write" /\ Begun(Wrote(j), Ops(cl))
  <2>1. j \in Nat /\ j # 0 /\ j \in 1 .. Len(l)
    BY <1>2
  <2> QED
    BY <1>1, <2>1 DEF LogOK, Begun
<1>6. ASSUME NEW i \in 1 .. Len(l), NEW j \in 1 .. Len(l), Wrote(i) = Wrote(j) PROVE i = j
  BY <1>6
<1> HIDE DEF Wrote
<1>7. ASSUME NEW o \in S PROVE o \in h
  BY DEF SuccessfulOps, IndeterminateWrites
\* The place of a write, and of a read.
<1>8. ASSUME NEW o \in S, IsWrite(o)
      PROVE  /\ place[o] \in 1 .. Len(l) /\ Wrote(place[o]) = o.id
             /\ o.result # "Error" => place[o] <= times[o.complete]
  <2>1. o \in h /\ o.kind = "Write"
    BY <1>7, <1>8 DEF IsWrite
  <2>2. o.complete \in 0 .. now
    BY <1>2, <1>3, <2>1
  <2>3. times[o.complete] \in Nat /\ times[o.complete] <= Len(l)
    BY <1>4, <2>2, <1>2, <1>3, <2>1
  <2>4. o.result = "Ok" => \E j \in 1 .. times[o.complete] : Wrote(j) = o.id
    BY <1>1, <2>1 DEF ResultsOK, Explained, Wrote
  <2>5. o.result # "Ok" => \E j \in 1 .. Len(l) : Wrote(j) = o.id
    BY <1>3, <2>1 DEF SuccessfulOps
  <2>6. \E j \in 1 .. Len(l) : Wrote(j) = o.id
    BY <1>2, <2>3, <2>4, <2>5
  <2>7. place[o] = CHOOSE j \in 1 .. Len(l) : Wrote(j) = o.id
    BY <1>8
  <2>8. place[o] \in 1 .. Len(l) /\ Wrote(place[o]) = o.id
    BY <2>6, <2>7
  <2> HIDE DEF place
  <2>9. ASSUME o.result # "Error" PROVE place[o] <= times[o.complete]
    <3>1. PICK j \in 1 .. times[o.complete] : Wrote(j) = o.id
      BY <1>3, <2>1, <2>4, <2>9
    <3>2. j \in 1 .. Len(l) /\ j \in Nat
      BY <1>2, <2>3
    <3>3. place[o] = j
      BY <1>6, <2>8, <3>1, <3>2
    <3> QED
      BY <2>3, <3>3
  <2> QED
    BY <2>8, <2>9
<1>9. ASSUME NEW o \in S, IsRead(o)
      PROVE  /\ place[o] \in times[o.invoke] .. times[o.complete]
             /\ o.value = LastWrite(l, place[o])
  <2>1. o \in h /\ o.kind = "Read" /\ ~IsWrite(o)
    BY <1>7, <1>9 DEF IsRead, IsWrite
  <2>2. o.result = "Ok"
    BY <1>3, <2>1 DEF SuccessfulOps, IndeterminateWrites
  <2>3. \E j \in times[o.invoke] .. times[o.complete] : o.value = LastWrite(l, j)
    BY <1>1, <2>1, <2>2 DEF ResultsOK, Explained
  <2>4. place[o] = CHOOSE j \in times[o.invoke] .. times[o.complete] : o.value = LastWrite(l, j)
    BY <2>1
  <2> QED
    BY <2>3, <2>4
<1> HIDE DEF place, S
<1>10. ASSUME NEW o \in S
       PROVE  /\ o \in h /\ (IsWrite(o) \/ IsRead(o))
              /\ place[o] \in Nat /\ place[o] <= Len(l)
              /\ times[o.invoke] <= place[o]
              /\ IsWrite(o) => times[o.invoke] < place[o] /\ place[o] # 0
              /\ o.result # "Error" => place[o] <= times[o.complete]
              /\ times[o.invoke] \in Nat /\ times[o.complete] \in Nat
  <2>1. o \in h
    BY <1>7
  <2>2. IsWrite(o) \/ IsRead(o)
    BY <1>3, <2>1 DEF IsWrite, IsRead, Kind
  <2>3. o.invoke \in 0 .. now /\ o.complete \in 0 .. now /\ o.invoke <= o.complete
    BY <1>2, <1>3, <2>1
  <2>4. /\ times[o.invoke] \in Nat /\ times[o.complete] \in Nat
        /\ times[o.invoke] <= times[o.complete] /\ times[o.complete] <= Len(l)
    BY <1>4, <2>3
  <2>5. CASE IsWrite(o)
    <3>1. place[o] \in 1 .. Len(l) /\ Wrote(place[o]) = o.id
      BY <1>8, <2>5
    <3>2. times[starts[Wrote(place[o])]] < place[o] /\ place[o] \in Nat /\ place[o] # 0
      BY <1>5, <3>1
    <3>3. times[o.invoke] < place[o]
      BY <1>3, <2>1, <3>1, <3>2
    <3> QED
      BY <1>2, <1>8, <2>1, <2>2, <2>4, <2>5, <3>1, <3>2, <3>3
  <2>6. CASE IsRead(o) /\ ~IsWrite(o)
    <3>1. place[o] \in times[o.invoke] .. times[o.complete]
      BY <1>9, <2>6
    <3> QED
      BY <1>2, <2>1, <2>2, <2>4, <2>6, <3>1
  <2> QED
    BY <2>2, <2>5, <2>6
<1>11. ASSUME NEW a \in S, NEW b \in S, Before(a, b)
       PROVE  place[a] <= place[b] /\ (IsWrite(b) => place[a] < place[b])
  <2>1. a \in h /\ b \in h /\ a.result # "Error" /\ a.complete < b.invoke
    BY <1>7, <1>11 DEF Before
  <2>2. a.complete \in 0 .. now /\ b.invoke \in 0 .. now /\ a.complete <= b.invoke
    BY <1>2, <1>3, <2>1
  <2>3. times[a.complete] <= times[b.invoke]
    BY <1>4, <2>2
  <2>4. place[a] \in Nat /\ place[a] <= times[a.complete] /\ times[a.complete] \in Nat
    BY <1>10, <2>1
  <2>5. /\ place[b] \in Nat /\ times[b.invoke] \in Nat /\ times[b.invoke] <= place[b]
        /\ IsWrite(b) => times[b.invoke] < place[b]
    BY <1>10
  <2> QED
    BY <2>3, <2>4, <2>5
<1>12. ASSUME NEW a \in S, NEW b \in S, IsWrite(a), IsWrite(b), place[a] = place[b]
       PROVE  a = b
  <2>1. a.id = b.id /\ a \in h /\ b \in h
    BY <1>7, <1>8, <1>12
  <2> QED
    BY <1>1, <2>1 DEF RecordsOK
\* Every entry that is committed was written by one of the operations.
<1>13. ASSUME NEW o \in S, IsRead(o), place[o] # 0
       PROVE  \E w \in S : IsWrite(w) /\ place[w] = place[o] /\ w.value = o.value
  <2>1. PICK j \in 1 .. Len(l) : j = place[o]
    BY <1>2, <1>10, <1>13
  <2>2. Wrote(j) \in Ids /\ kinds[Wrote(j)] = "Write" /\ Begun(Wrote(j), Ops(cl)) /\ j # 0
    BY <1>5
  <2>3. PICK w \in h : w.id = Wrote(j)
    BY <1>1, <2>2 DEF RecordsOK
  <2>4. RecordOK(w, kinds, starts, Ops(cl), Pending(cl), now)
    BY <1>1 DEF RecordsOK
  <2>5. w.kind = "Write" /\ w.value = ValueOf(w.id[1], w.id[2])
    BY <2>2, <2>3, <2>4 DEF RecordOK
  <2>6. IsWrite(w) /\ w.result \in {"Ok", "Error"}
    BY <2>4, <2>5 DEF IsWrite, RecordOK
  <2>7. w \in S
    BY <2>3, <2>6 DEF S, SuccessfulOps, IndeterminateWrites
  <2>8. place[w] = j
    BY <1>6, <1>8, <2>3, <2>6, <2>7
  <2>9. o.value = LastWrite(l, j)
    BY <1>9, <1>13, <2>1
  <2>10. w.value = o.value
    <3>1. w.id[1] = l[j].client /\ w.id[2] = l[j].op
      BY <2>3 DEF Wrote
    <3> QED
      BY <2>2, <2>5, <2>9, <3>1 DEF LastWrite
  <2> QED
    BY <2>1, <2>6, <2>7, <2>8, <2>10
<1>14. ASSUME NEW o \in S, IsRead(o), place[o] = 0 PROVE o.value = None
  BY <1>9, <1>14 DEF LastWrite
<1>15. Placed(S, place)
  <2>1. \A o \in S : place[o] \in Nat /\ o.complete \in Nat /\ o.invoke \in Nat
    BY <1>3, <1>10
  <2>2. \A o \in S : o.kind \in Kind /\ o.invoke < o.complete
    BY <1>3, <1>7
  <2>3. \A a, b \in S : a.complete = b.complete => a = b
    BY <1>1, <1>7 DEF RecordsOK
  <2>4. \A o \in S : IsWrite(o) => place[o] # 0
    BY <1>10
  <2> QED
    BY <1>11, <1>12, <1>13, <1>14, <2>1, <2>2, <2>3, <2>4 DEF Placed
<1>16. IsFiniteSet(S)
  <2>1. S \in SUBSET h /\ IsFiniteSet(h)
    BY <1>1, <1>7 DEF RecordsOK
  <2> QED
    BY <2>1, FS_Subset
<1>17. \E order \in SetToSeqs(S) : KeepsTime(order) /\ ReadsLastWrite(order)
  BY <1>15, <1>16, PlacesExplain
<1>18. ASSUME NEW key \in UniqueKeys(h) PROVE OpsForKey(h, key) = h
  BY <1>3 DEF UniqueKeys, OpsForKey
<1>19. taken \in SUBSET IndeterminateWrites(h)
  OBVIOUS
<1> HIDE DEF taken
<1>20. S = SuccessfulOps(h) \cup taken
  BY DEF S
<1> QED
  BY <1>17, <1>18, <1>19, <1>20 DEF IsLinearizable

(***************************************************************************)
(* Steps of the clock and of the clients.                                  *)
(***************************************************************************)

\* A begun operation began by now.
LEMMA BegunBefore ==
    ASSUME NEW kinds, NEW starts, NEW ops, NEW now \in Nat, StartsOK(kinds, starts, ops, now),
           NEW id, Begun(id, ops)
    PROVE  /\ id = <<id[1], id[2]>> /\ id[1] \in Client /\ id[2] \in Nat /\ id[2] # 0
           /\ ops[id[1]] \in Nat /\ id[2] <= ops[id[1]]
           /\ starts[id] \in Nat /\ starts[id] <= now /\ kinds[id] \in Kind
<1>1. PICK c \in Client, o \in Nat : id = <<c, o>>
  BY DEF Begun, Ids
<1>2. o \in 1 .. ops[c] /\ ops[c] \in Nat /\ id \in Ids
  BY <1>1 DEF Begun, Ids, StartsOK
<1> QED
  BY <1>1, <1>2 DEF StartsOK

LEMMA TimesParts ==
    ASSUME NEW times, NEW now, NEW k, TimesOK(times, now, k)
    PROVE  /\ times \in [Nat -> Nat] /\ now \in Nat /\ k \in Nat
           /\ \A t \in 0 .. now : t \in Nat /\ times[t] \in Nat /\ times[t] <= k
<1>1. times \in [Nat -> Nat] /\ now \in Nat /\ k \in Nat /\ \A t \in 0 .. now : times[t] <= k
  BY DEF TimesOK
<1>2. ASSUME NEW t \in 0 .. now PROVE t \in Nat
  BY <1>1
<1> QED
  BY <1>1, <1>2

\* The clock ticks: nothing else changes, and what has been committed by then is
\* what is committed now.
LEMMA ClockTicks ==
    ASSUME NEW times, NEW kinds, NEW starts, NEW cl, NEW h, NEW now, NEW l, NEW further, NEW q, NEW b, NEW reads,
           Kept(times, kinds, starts, cl, h, now, l, further, q, b, reads)
    PROVE  /\ now \in Nat /\ \A o \in h : o.complete # now + 1
           /\ \E t : /\ t[now + 1] = Len(l) /\ \A s \in Nat : s <= now => t[s] = times[s]
                     /\ Kept(t, kinds, starts, cl, h, now + 1, l, further, q, b, reads)
<1>1. /\ TimesOK(times, now, Len(l)) /\ StartsOK(kinds, starts, Ops(cl), now)
      /\ ClientsOK(cl, kinds, starts)
      /\ RecordsOK(h, kinds, starts, Ops(cl), Pending(cl), now) /\ ResultsOK(h, times, l)
      /\ LogOK(l, kinds, starts, Ops(cl), times)
      /\ AppendedOK(further, kinds, Ops(cl)) /\ QueuesOK(q, kinds, Ops(cl))
      /\ LoopsOK(b, kinds, Ops(cl), l) /\ ReadsOK(reads, kinds, starts, Ops(cl), times)
  BY DEF Kept, BooksOK, ServersOK
<1>2. now \in Nat /\ Len(l) \in Nat /\ now + 1 \in Nat
  BY <1>1 DEF TimesOK
<1>3. ASSUME NEW o \in h
      PROVE  /\ o.complete \in Nat /\ o.complete <= now /\ o.invoke \in Nat /\ o.invoke <= now
             /\ o.complete <= now + 1 /\ RecordOK(o, kinds, starts, Ops(cl), Pending(cl), now)
  <2>1. RecordOK(o, kinds, starts, Ops(cl), Pending(cl), now)
    BY <1>1 DEF RecordsOK
  <2>2. o.complete \in Nat /\ o.complete <= now /\ o.invoke = starts[o.id] /\ Begun(o.id, Ops(cl))
    BY <2>1 DEF RecordOK
  <2>3. starts[o.id] \in Nat /\ starts[o.id] <= now
    BY <1>1, <1>2, <2>2, BegunBefore
  <2> QED
    BY <1>2, <2>1, <2>2, <2>3
<1>4. PICK t : t = [times EXCEPT ![now + 1] = Len(l)]
  OBVIOUS
<1>5. /\ t \in [Nat -> Nat] /\ t[now + 1] = Len(l)
      /\ \A s \in Nat : s <= now => t[s] = times[s]
  <2>1. times \in [Nat -> Nat]
    BY <1>1, TimesParts
  <2>2. PICK k \in Nat : k = Len(l)
    BY <1>2
  <2>3. t = [times EXCEPT ![now + 1] = k]
    BY <1>4, <2>2
  <2>4. t \in [Nat -> Nat] /\ t[now + 1] = k /\ \A s \in Nat : s # now + 1 => t[s] = times[s]
    BY <1>2, <2>1, <2>3
  <2>5. \A s \in Nat : s <= now => s # now + 1
    BY <1>2
  <2> QED
    BY <2>2, <2>4, <2>5
<1>6. TimesOK(t, now + 1, Len(l))
  <2>1. ASSUME NEW s \in 0 .. (now + 1) PROVE t[s] <= Len(l)
    <3>1. s = now + 1 \/ s \in 0 .. now
      BY <1>2
    <3>2. ASSUME s \in 0 .. now PROVE times[s] <= Len(l) /\ s \in Nat /\ s <= now
      BY <1>1, <1>2, <3>2, TimesParts
    <3>3. CASE s = now + 1
      BY <1>2, <1>5, <3>3
    <3>4. CASE s \in 0 .. now
      BY <1>5, <3>2, <3>4
    <3> QED
      BY <3>1, <3>3, <3>4
  <2>2. ASSUME NEW s \in 0 .. (now + 1), NEW r \in 0 .. (now + 1), s <= r PROVE t[s] <= t[r]
    <3>1. CASE r = now + 1
      BY <1>5, <2>1, <3>1
    <3>2. CASE r # now + 1
      <4>1. s \in 0 .. now /\ r \in 0 .. now
        BY <1>2, <2>2, <3>2
      <4> QED
        BY <1>1, <1>5, <2>2, <4>1 DEF TimesOK
    <3> QED
      BY <3>1, <3>2
  <2> QED
    BY <1>2, <1>5, <2>1, <2>2 DEF TimesOK
<1>7. StartsOK(kinds, starts, Ops(cl), now + 1)
  <2>1. ASSUME NEW c \in Client, NEW o \in 1 .. Ops(cl)[c] PROVE starts[<<c, o>>] <= now + 1
    <3>1. starts[<<c, o>>] <= now /\ Ops(cl)[c] \in Nat
      BY <1>1 DEF StartsOK
    <3>2. starts[<<c, o>>] \in Nat
      <4>1. <<c, o>> \in Ids
        BY <3>1 DEF Ids
      <4> QED
        BY <1>1, <4>1 DEF StartsOK
    <3> QED
      BY <1>2, <3>1, <3>2
  <2> QED
    BY <1>1, <2>1 DEF StartsOK
<1>8. RecordsOK(h, kinds, starts, Ops(cl), Pending(cl), now + 1)
  <2>1. \A o \in h : RecordOK(o, kinds, starts, Ops(cl), Pending(cl), now + 1)
    BY <1>3 DEF RecordOK
  <2> QED
    BY <1>1, <2>1 DEF RecordsOK
<1>9. ResultsOK(h, t, l)
  <2>1. ASSUME NEW o \in h PROVE t[o.complete] = times[o.complete] /\ t[o.invoke] = times[o.invoke]
    BY <1>3, <1>5
  <2> QED
    BY <1>1, <2>1 DEF ResultsOK, Explained
<1>10. ASSUME NEW id, Begun(id, Ops(cl)) PROVE t[starts[id]] = times[starts[id]]
  BY <1>1, <1>2, <1>5, <1>10, BegunBefore
<1>11. LogOK(l, kinds, starts, Ops(cl), t)
  BY <1>1, <1>10 DEF LogOK
<1>12. ReadsOK(reads, kinds, starts, Ops(cl), t)
  BY <1>1, <1>10 DEF ReadsOK
<1>13. Kept(t, kinds, starts, cl, h, now + 1, l, further, q, b, reads)
  BY <1>1, <1>6, <1>7, <1>8, <1>9, <1>11, <1>12 DEF Kept, BooksOK, ServersOK
<1>14. \A o \in h : o.complete # now + 1
  BY <1>2, <1>3
<1> QED
  BY <1>2, <1>5, <1>13, <1>14

\* A client begins its next operation.
LEMMA InvokeKeeps ==
    ASSUME NEW times, NEW kinds, NEW starts, NEW cl, NEW h, NEW now, NEW l, NEW further, NEW q, NEW b, NEW reads,
           Kept(times, kinds, starts, cl, h, now, l, further, q, b, reads),
           NEW c \in Client, cl[c].at = "rest", NEW kind \in Kind,
           NEW d, d = [cl EXCEPT ![c] = [Resting EXCEPT !.at = "send", !.op = cl[c].op + 1,
                                                        !.kind = kind, !.invoke = now + 1]]
    PROVE  \E t, m, s : Kept(t, m, s, d, h, now + 1, l, further, q, b, reads)
<1>1. PICK t : t[now + 1] = Len(l) /\ Kept(t, kinds, starts, cl, h, now + 1, l, further, q, b, reads)
  BY ClockTicks
<1>2. now \in Nat
  BY ClockTicks
<1>3. /\ TimesOK(t, now + 1, Len(l)) /\ StartsOK(kinds, starts, Ops(cl), now + 1)
      /\ ClientsOK(cl, kinds, starts)
      /\ RecordsOK(h, kinds, starts, Ops(cl), Pending(cl), now + 1) /\ ResultsOK(h, t, l)
      /\ LogOK(l, kinds, starts, Ops(cl), t)
      /\ AppendedOK(further, kinds, Ops(cl)) /\ QueuesOK(q, kinds, Ops(cl))
      /\ LoopsOK(b, kinds, Ops(cl), l) /\ ReadsOK(reads, kinds, starts, Ops(cl), t)
  BY <1>1 DEF Kept, BooksOK, ServersOK
<1>4. /\ cl \in [Client -> ClientState] /\ cl[c].op \in Nat
      /\ Ops(cl) \in [Client -> Nat] /\ \A a \in Client : Ops(cl)[a] = cl[a].op
  BY <1>3 DEF ClientsOK, ClientState, Ops
<1> DEFINE id == <<c, cl[c].op + 1>>
<1>5. PICK m : m = [kinds EXCEPT ![id] = kind]
  OBVIOUS
<1>6. PICK s : s = [starts EXCEPT ![id] = now + 1]
  OBVIOUS
<1>7. id \in Ids
  BY <1>4 DEF Ids
<1>8. /\ m \in [Ids -> Kind] /\ s \in [Ids -> Nat] /\ m[id] = kind /\ s[id] = now + 1
      /\ \A i \in Ids : i # id => m[i] = kinds[i] /\ s[i] = starts[i]
  BY <1>2, <1>3, <1>5, <1>6, <1>7 DEF StartsOK
<1>9. /\ d \in [Client -> ClientState]
      /\ d[c].at = "send" /\ d[c].op = cl[c].op + 1 /\ d[c].kind = kind /\ d[c].invoke = now + 1
      /\ \A a \in Client : a # c => d[a] = cl[a]
  <2>1. PICK op \in Nat : op = cl[c].op + 1
    BY <1>4
  <2>2. PICK time \in Nat : time = now + 1
    BY <1>2
  <2>3. PICK r : r = [Resting EXCEPT !.at = "send", !.op = op, !.kind = kind, !.invoke = time]
    OBVIOUS
  <2>4. Resting \in ClientState
    BY DEF Resting, ClientState, Kind
  <2>5. /\ r \in ClientState /\ r.at = "send"
        /\ r.op = op /\ r.kind = kind /\ r.invoke = time
    BY <2>3, <2>4 DEF ClientState
  <2>6. d = [cl EXCEPT ![c] = r]
    BY <2>1, <2>2, <2>3
  <2> QED
    BY <1>4, <2>1, <2>2, <2>5, <2>6
<1>10. /\ Ops(d) \in [Client -> Nat] /\ Ops(d)[c] = cl[c].op + 1 /\ Ops(cl)[c] = cl[c].op
       /\ \A a \in Client : a # c => Ops(d)[a] = Ops(cl)[a]
  BY <1>4, <1>9 DEF Ops
<1>11. Pending(d) = Pending(cl) \cup {c} /\ c \notin Pending(cl)
  BY <1>9 DEF Pending
<1> HIDE DEF id
<1>12. ASSUME NEW i, Begun(i, Ops(cl))
       PROVE  /\ i \in Ids /\ i # id /\ m[i] = kinds[i] /\ s[i] = starts[i] /\ Begun(i, Ops(d))
              /\ i[2] = Ops(d)[i[1]] => i[1] # c /\ i[2] = Ops(cl)[i[1]]
  <2>1. /\ i = <<i[1], i[2]>> /\ i[1] \in Client /\ i[2] \in Nat /\ i[2] # 0
        /\ Ops(cl)[i[1]] \in Nat /\ i[2] <= Ops(cl)[i[1]]
    BY <1>2, <1>3, <1>12, BegunBefore
  <2>2. i \in Ids
    BY <1>12 DEF Begun
  <2>3. i # id
    <3> SUFFICES ASSUME i = id PROVE FALSE
      OBVIOUS
    <3>1. i[1] = c /\ i[2] = cl[c].op + 1
      BY DEF id
    <3> QED
      BY <1>4, <1>10, <2>1, <3>1
  <2>4. i[2] <= Ops(d)[i[1]] /\ Ops(d)[i[1]] \in Nat
    <3>1. CASE i[1] = c
      BY <1>4, <1>10, <2>1, <3>1
    <3>2. CASE i[1] # c
      BY <1>4, <1>10, <2>1, <3>2
    <3> QED
      BY <3>1, <3>2
  <2>5. Begun(i, Ops(d))
    BY <2>1, <2>2, <2>4 DEF Begun
  <2>6. i[2] = Ops(d)[i[1]] => i[1] # c /\ i[2] = Ops(cl)[i[1]]
    <3>1. CASE i[1] = c
      BY <1>4, <1>10, <2>1, <3>1
    <3>2. CASE i[1] # c
      BY <1>4, <1>10, <2>1, <3>2
    <3> QED
      BY <3>1, <3>2
  <2> QED
    BY <1>8, <2>2, <2>3, <2>5, <2>6
<1>13. ASSUME NEW i, Begun(i, Ops(d)) PROVE i = id \/ Begun(i, Ops(cl))
  <2>1. PICK a \in Client, o \in Nat : i = <<a, o>>
    BY <1>13 DEF Begun, Ids
  <2>2. o \in 1 .. Ops(d)[a] /\ i \in Ids
    BY <1>13, <2>1 DEF Begun
  <2>3. a # c => o \in 1 .. Ops(cl)[a]
    BY <1>10, <2>2
  <2>4. a = c => o = cl[c].op + 1 \/ o \in 1 .. Ops(cl)[a]
    BY <1>4, <1>10, <2>2
  <2> QED
    BY <2>1, <2>2, <2>3, <2>4 DEF Begun, id
<1>14. Begun(id, Ops(d)) /\ id[1] = c /\ id[2] = Ops(d)[c]
  <2>1. id[1] = c /\ id[2] = cl[c].op + 1
    BY DEF id
  <2>2. cl[c].op + 1 \in 1 .. (cl[c].op + 1)
    BY <1>4
  <2> QED
    BY <1>7, <1>10, <2>1, <2>2 DEF Begun
<1>15. StartsOK(m, s, Ops(d), now + 1)
  <2>1. ASSUME NEW a \in Client, NEW o \in 1 .. Ops(d)[a] PROVE s[<<a, o>>] <= now + 1
    <3>1. o \in Nat /\ Ops(d)[a] \in Nat
      <4>1. Ops(d)[a] \in Nat
        BY <1>10
      <4> QED
        BY <4>1
    <3>2. Begun(<<a, o>>, Ops(d))
      BY <3>1 DEF Begun, Ids
    <3>3. CASE <<a, o>> = id
      BY <1>2, <1>8, <3>3
    <3>4. CASE Begun(<<a, o>>, Ops(cl))
      <4>1. starts[<<a, o>>] <= now + 1
        BY <1>2, <1>3, <3>4, BegunBefore
      <4> QED
        BY <1>12, <3>4, <4>1
    <3> QED
      BY <1>13, <3>2, <3>3, <3>4
  <2> QED
    BY <1>8, <1>10, <2>1 DEF StartsOK
<1>16. ClientsOK(d, m, s)
  <2>1. ASSUME NEW a \in Client, d[a].at # "rest"
        PROVE  /\ d[a].op # 0
               /\ d[a].kind = m[<<a, d[a].op>>] /\ d[a].invoke = s[<<a, d[a].op>>]
    <3>1. CASE a = c
      BY <1>4, <1>8, <1>9, <3>1 DEF id
    <3>2. CASE a # c
      <4>1. d[a] = cl[a]
        BY <1>9, <3>2
      <4>2. /\ cl[a].op # 0 /\ cl[a].op \in Nat
            /\ cl[a].kind = kinds[<<a, cl[a].op>>] /\ cl[a].invoke = starts[<<a, cl[a].op>>]
        BY <1>3, <2>1, <4>1 DEF ClientsOK, ClientState
      <4>3. <<a, cl[a].op>> \in Ids /\ <<a, cl[a].op>> # id
        BY <3>2, <4>2 DEF Ids, id
      <4> QED
        BY <1>8, <4>1, <4>2, <4>3
    <3> QED
      BY <3>1, <3>2
  <2> QED
    BY <1>9, <2>1 DEF ClientsOK
<1>17. RecordsOK(h, m, s, Ops(d), Pending(d), now + 1)
  <2>1. ASSUME NEW o \in h PROVE RecordOK(o, m, s, Ops(d), Pending(d), now + 1)
    <3>1. RecordOK(o, kinds, starts, Ops(cl), Pending(cl), now + 1)
      BY <1>3 DEF RecordsOK
    <3>2. Begun(o.id, Ops(cl))
      BY <3>1 DEF RecordOK
    <3>3. /\ Begun(o.id, Ops(d)) /\ m[o.id] = kinds[o.id] /\ s[o.id] = starts[o.id]
          /\ o.id[2] = Ops(d)[o.id[1]] => o.id[1] # c /\ o.id[2] = Ops(cl)[o.id[1]]
      BY <1>12, <3>2
    <3> QED
      BY <1>11, <3>1, <3>3 DEF RecordOK
  <2>2. ASSUME NEW i \in Ids, Begun(i, Ops(d))
        PROVE  \/ \E o \in h : o.id = i
               \/ i[2] = Ops(d)[i[1]] /\ i[1] \in Pending(d)
    <3>1. CASE i = id
      BY <1>11, <1>14, <3>1
    <3>2. CASE Begun(i, Ops(cl))
      <4>1. \/ \E o \in h : o.id = i
            \/ i[2] = Ops(cl)[i[1]] /\ i[1] \in Pending(cl)
        BY <1>3, <3>2 DEF RecordsOK
      <4>2. ASSUME i[1] \in Pending(cl) PROVE i[1] \in Client /\ i[1] # c
        BY <1>11, <4>2 DEF Pending
      <4>3. ASSUME i[2] = Ops(cl)[i[1]], i[1] \in Pending(cl)
            PROVE  i[2] = Ops(d)[i[1]] /\ i[1] \in Pending(d)
        <5>1. Ops(d)[i[1]] = Ops(cl)[i[1]]
          BY <1>10, <4>2, <4>3
        <5> QED
          BY <1>11, <4>3, <5>1
      <4> QED
        BY <4>1, <4>3
    <3> QED
      BY <1>13, <2>2, <3>1, <3>2
  <2> QED
    BY <1>3, <2>1, <2>2 DEF RecordsOK
<1>18. LogOK(l, m, s, Ops(d), t)
  BY <1>3, <1>12 DEF LogOK
<1>19. ASSUME NEW cmd, CommandOK(cmd, kinds, Ops(cl)) PROVE CommandOK(cmd, m, Ops(d))
  BY <1>12, <1>19 DEF CommandOK
<1>20. QueuesOK(q, m, Ops(d))
  BY <1>3, <1>19 DEF QueuesOK
<1>21. LoopsOK(b, m, Ops(d), l)
  <2>1. ASSUME NEW n \in Node PROVE WorkOK(b[n], m, Ops(d), l)
    <3>1. WorkOK(b[n], kinds, Ops(cl), l)
      BY <1>3 DEF LoopsOK
    <3> QED
      BY <1>19, <3>1 DEF WorkOK
  <2> QED
    BY <1>3, <2>1 DEF LoopsOK
<1>22. AppendedOK(further, m, Ops(d))
  BY <1>3, <1>12 DEF AppendedOK
<1>23. ReadsOK(reads, m, s, Ops(d), t)
  BY <1>3, <1>12 DEF ReadsOK
<1>24. Kept(t, m, s, d, h, now + 1, l, further, q, b, reads)
  BY <1>3, <1>15, <1>16, <1>17, <1>18, <1>20, <1>21, <1>22, <1>23 DEF Kept, BooksOK, ServersOK
<1> QED
  BY <1>24

\* A client sends its request, or waits, or tries the next target.
LEMMA MoveKeeps ==
    ASSUME NEW times, NEW kinds, NEW starts, NEW cl, NEW h, NEW now, NEW l, NEW further, NEW q, NEW b, NEW reads,
           Kept(times, kinds, starts, cl, h, now, l, further, q, b, reads),
           NEW c \in Client, cl[c].at # "rest",
           NEW d, d \in [Client -> ClientState], \A a \in Client : a # c => d[a] = cl[a],
           d[c].at # "rest", d[c].op = cl[c].op, d[c].kind = cl[c].kind,
           d[c].invoke = cl[c].invoke
    PROVE  Kept(times, kinds, starts, d, h, now, l, further, q, b, reads)
<1>1. ClientsOK(cl, kinds, starts)
  BY DEF Kept, BooksOK
<1>2. Ops(d) = Ops(cl)
  <2>1. \A a \in Client : d[a].op = cl[a].op
    OBVIOUS
  <2> QED
    BY <2>1 DEF Ops
<1>3. Pending(d) = Pending(cl)
  <2>1. \A a \in Client : d[a].at # "rest" <=> cl[a].at # "rest"
    OBVIOUS
  <2> QED
    BY <2>1 DEF Pending
<1>4. ClientsOK(d, kinds, starts)
  <2>1. ASSUME NEW a \in Client, d[a].at # "rest"
        PROVE  /\ d[a].op # 0 /\ d[a].kind = kinds[<<a, d[a].op>>]
               /\ d[a].invoke = starts[<<a, d[a].op>>]
    BY <1>1, <2>1 DEF ClientsOK
  <2> QED
    BY <2>1 DEF ClientsOK
<1> QED
  BY <1>2, <1>3, <1>4, Zenon DEF Kept, BooksOK

\* What an operation may report, when the committed entries are l.
MayReport(times, starts, c, op, kind, result, value, l) ==
    /\ result = "Ok" /\ kind = "Write" => \E j \in 1 .. Len(l) : l[j].client = c /\ l[j].op = op
    /\ result = "Ok" /\ kind = "Read" =>
          \E j \in times[starts[<<c, op>>]] .. Len(l) : value = LastWrite(l, j)

\* c rests, and its operation is recorded.
Rested(cl, c) == [cl EXCEPT ![c] = [Resting EXCEPT !.op = cl[c].op]]
Recorded(h, cl, c, now, result, value) == h \cup
    {[id |-> <<c, cl[c].op>>, key |-> Key, kind |-> cl[c].kind,
      value |-> IF cl[c].kind = "Write" THEN ValueOf(c, cl[c].op) ELSE value,
      invoke |-> cl[c].invoke, complete |-> now, result |-> result]}

\* A client's operation ends: it is recorded, with a result that the log explains.
LEMMA CompleteKeeps ==
    ASSUME NEW times, NEW kinds, NEW starts, NEW cl, NEW h, NEW now, NEW l, NEW further, NEW q, NEW b, NEW reads,
           Kept(times, kinds, starts, cl, h, now, l, further, q, b, reads),
           NEW c \in Client, cl[c].at # "rest", NEW result \in {"Ok", "Error"}, NEW value,
           MayReport(times, starts, c, cl[c].op, cl[c].kind, result, value, l),
           NEW d, d = Rested(cl, c), NEW g, g = Recorded(h, cl, c, now + 1, result, value)
    PROVE  \E t : Kept(t, kinds, starts, d, g, now + 1, l, further, q, b, reads)
<1>1. now \in Nat /\ \A o \in h : o.complete # now + 1
  BY ClockTicks
<1>2. PICK t : /\ t[now + 1] = Len(l) /\ \A s \in Nat : s <= now => t[s] = times[s]
               /\ Kept(t, kinds, starts, cl, h, now + 1, l, further, q, b, reads)
  BY ClockTicks
<1>3. /\ TimesOK(t, now + 1, Len(l)) /\ StartsOK(kinds, starts, Ops(cl), now + 1)
      /\ ClientsOK(cl, kinds, starts)
      /\ RecordsOK(h, kinds, starts, Ops(cl), Pending(cl), now + 1) /\ ResultsOK(h, t, l)
      /\ LogOK(l, kinds, starts, Ops(cl), t)
      /\ ServersOK(t, kinds, starts, Ops(cl), l, further, q, b, reads)
  BY <1>2 DEF Kept, BooksOK
<1>4. StartsOK(kinds, starts, Ops(cl), now)
  BY DEF Kept, BooksOK
<1>5. /\ cl \in [Client -> ClientState] /\ cl[c].op \in Nat /\ cl[c].op # 0 /\ cl[c].kind \in Kind
      /\ cl[c].kind = kinds[<<c, cl[c].op>>] /\ cl[c].invoke = starts[<<c, cl[c].op>>]
      /\ Ops(cl)[c] = cl[c].op
  BY <1>3 DEF ClientsOK, ClientState, Ops
<1>6. Begun(<<c, cl[c].op>>, Ops(cl))
  BY <1>5 DEF Begun, Ids
<1>7. /\ starts[<<c, cl[c].op>>] \in Nat /\ starts[<<c, cl[c].op>>] <= now
      /\ t[starts[<<c, cl[c].op>>]] = times[starts[<<c, cl[c].op>>]]
  BY <1>1, <1>2, <1>4, <1>6, BegunBefore
<1>8. /\ d \in [Client -> ClientState] /\ d[c].at = "rest" /\ d[c].op = cl[c].op
      /\ \A a \in Client : a # c => d[a] = cl[a]
  <2>1. PICK op \in Nat : op = cl[c].op
    BY <1>5
  <2>2. PICK r : r = [Resting EXCEPT !.op = op]
    OBVIOUS
  <2>3. Resting \in ClientState /\ Resting.at = "rest"
    BY DEF Resting, ClientState, Kind
  <2>4. r \in ClientState /\ r.at = "rest" /\ r.op = op
    BY <2>2, <2>3 DEF ClientState
  <2>5. d = [cl EXCEPT ![c] = r]
    BY <2>1, <2>2 DEF Rested
  <2> QED
    BY <1>5, <2>1, <2>4, <2>5
<1>9. Ops(d) = Ops(cl)
  <2>1. \A a \in Client : d[a].op = cl[a].op
    BY <1>8
  <2> QED
    BY <2>1 DEF Ops
<1>10. /\ Pending(d) \subseteq Pending(cl) /\ c \in Pending(cl) /\ c \notin Pending(d)
       /\ \A a \in Pending(cl) : a # c => a \in Pending(d)
  BY <1>8 DEF Pending
<1>11. ClientsOK(d, kinds, starts)
  BY <1>3, <1>8 DEF ClientsOK
<1>12. PICK n : n = [id |-> <<c, cl[c].op>>, key |-> Key, kind |-> cl[c].kind,
                     value |-> IF cl[c].kind = "Write" THEN ValueOf(c, cl[c].op) ELSE value,
                     invoke |-> cl[c].invoke, complete |-> now + 1, result |-> result]
  OBVIOUS
<1>13. /\ n.id = <<c, cl[c].op>> /\ n.key = Key /\ n.kind = cl[c].kind
       /\ n.kind = "Write" => n.value = ValueOf(c, cl[c].op)
       /\ n.kind = "Read" => n.value = value
       /\ n.invoke = starts[n.id] /\ n.complete = now + 1 /\ n.result = result
  BY <1>5, <1>12
<1>14. g = h \cup {n}
  BY <1>12 DEF Recorded
<1>15. ASSUME NEW o \in h PROVE o.id # n.id /\ o.complete # n.complete
  <2>1. RecordOK(o, kinds, starts, Ops(cl), Pending(cl), now + 1)
    BY <1>3 DEF RecordsOK
  <2>2. o.id # <<c, cl[c].op>>
    BY <1>5, <1>10, <2>1 DEF RecordOK
  <2> QED
    BY <1>1, <1>13, <2>2
<1>16. RecordOK(n, kinds, starts, Ops(d), Pending(d), now + 1)
  <2>1. n.id[1] = c /\ n.id[2] = cl[c].op /\ n.kind = kinds[n.id] /\ Begun(n.id, Ops(d))
    BY <1>5, <1>6, <1>9, <1>13
  <2>2. n.complete \in Nat /\ n.invoke < n.complete /\ n.complete <= now + 1
    BY <1>1, <1>7, <1>13
  <2>3. n \in Operation({n.id}, {n.key}, {n.value})
    <3>1. PICK v : v = IF cl[c].kind = "Write" THEN ValueOf(c, cl[c].op) ELSE value
      OBVIOUS
    <3>2. n = [id |-> <<c, cl[c].op>>, key |-> Key, kind |-> cl[c].kind, value |-> v,
               invoke |-> cl[c].invoke, complete |-> now + 1, result |-> result]
      BY <1>12, <3>1
    <3>3. cl[c].invoke \in Nat /\ now + 1 \in Nat /\ cl[c].kind \in {"Read", "Write"}
      BY <1>1, <1>5, <1>7 DEF Kind
    <3> QED
      BY <3>2, <3>3 DEF Operation
  <2> QED
    BY <1>10, <1>13, <2>1, <2>2, <2>3 DEF RecordOK
<1>17. RecordsOK(g, kinds, starts, Ops(d), Pending(d), now + 1)
  <2>1. IsFiniteSet(g)
    BY <1>3, <1>14, FS_AddElement DEF RecordsOK
  <2>2. ASSUME NEW o \in h PROVE RecordOK(o, kinds, starts, Ops(d), Pending(d), now + 1)
    <3>1. RecordOK(o, kinds, starts, Ops(cl), Pending(cl), now + 1)
      BY <1>3 DEF RecordsOK
    <3>2. o.id[1] \notin Pending(cl) => o.id[1] \notin Pending(d)
      BY <1>10
    <3>3. RecordOK(o, kinds, starts, Ops(d), Pending(cl), now + 1)
      BY <1>9, <3>1
    <3> QED
      BY <3>2, <3>3, Zenon DEF RecordOK
  <2>3. \A o, p \in g : o.id = p.id => o = p
    BY <1>3, <1>14, <1>15 DEF RecordsOK
  <2>4. \A o, p \in g : o.complete = p.complete => o = p
    BY <1>3, <1>14, <1>15 DEF RecordsOK
  <2>5. ASSUME NEW i \in Ids, Begun(i, Ops(d))
        PROVE  \/ \E o \in g : o.id = i
               \/ i[2] = Ops(d)[i[1]] /\ i[1] \in Pending(d)
    <3>1. CASE \E o \in h : o.id = i
      BY <1>14, <3>1
    <3>2. CASE i[2] = Ops(cl)[i[1]] /\ i[1] \in Pending(cl)
      <4>1. CASE i[1] = c
        <5>1. i = <<c, cl[c].op>>
          BY <1>5, <3>2, <4>1 DEF Ids
        <5> QED
          BY <1>13, <1>14, <5>1
      <4>2. CASE i[1] # c
        BY <1>9, <1>10, <3>2, <4>2
      <4> QED
        BY <4>1, <4>2
    <3> QED
      BY <1>3, <1>9, <2>5, <3>1, <3>2 DEF RecordsOK
  <2> QED
    BY <1>14, <1>16, <2>1, <2>2, <2>3, <2>4, <2>5 DEF RecordsOK
<1>18. ResultsOK(g, t, l)
  <2>1. Explained(n, t, l)
    <3>1. ASSUME n.kind = "Write", n.result = "Ok"
          PROVE  \E j \in 1 .. t[n.complete] : <<l[j].client, l[j].op>> = n.id
      BY <1>2, <1>13, <3>1 DEF MayReport
    <3>2. ASSUME n.kind = "Read", n.result = "Ok"
          PROVE  \E j \in t[n.invoke] .. t[n.complete] : n.value = LastWrite(l, j)
      <4>1. PICK j \in times[starts[<<c, cl[c].op>>]] .. Len(l) : value = LastWrite(l, j)
        BY <1>13, <3>2 DEF MayReport
      <4>2. n.value = value /\ t[n.complete] = Len(l) /\ t[n.invoke] = times[starts[<<c, cl[c].op>>]]
        BY <1>2, <1>7, <1>13, <3>2
      <4> QED
        BY <4>1, <4>2
    <3> QED
      BY <3>1, <3>2 DEF Explained
  <2> QED
    BY <1>3, <1>14, <2>1 DEF ResultsOK
<1>19. Kept(t, kinds, starts, d, g, now + 1, l, further, q, b, reads)
  BY <1>3, <1>9, <1>11, <1>17, <1>18 DEF Kept, BooksOK
<1> QED
  BY <1>19

(***************************************************************************)
(* Steps of the servers.                                                   *)
(***************************************************************************)

\* The first command of a channel that is not empty is taken from it.
LEMMA TakenFromQueue ==
    ASSUME NEW q, NEW kinds, NEW ops, QueuesOK(q, kinds, ops), NEW n \in Node, q[n] # <<>>
    PROVE  /\ Head(q[n]) \in Command /\ CommandOK(Head(q[n]), kinds, ops)
           /\ QueuesOK([q EXCEPT ![n] = Tail(@)], kinds, ops)
<1>1. q \in [Node -> Seq(Command)] /\ q[n] \in Seq(Command)
  BY DEF QueuesOK
<1>2. Len(q[n]) \in Nat /\ Len(q[n]) # 0 /\ Head(q[n]) = q[n][1]
  BY <1>1
<1>3. Head(q[n]) \in Command /\ CommandOK(Head(q[n]), kinds, ops)
  BY <1>1, <1>2 DEF QueuesOK
<1>4. PICK r : r = Tail(q[n])
  OBVIOUS
<1>5. r \in Seq(Command) /\ Len(r) = Len(q[n]) - 1 /\ \A j \in 1 .. Len(r) : r[j] = q[n][j + 1]
  BY <1>1, <1>2, <1>4
<1>6. ASSUME NEW j \in 1 .. Len(r) PROVE CommandOK(r[j], kinds, ops)
  <2>1. j + 1 \in 1 .. Len(q[n]) /\ r[j] = q[n][j + 1]
    BY <1>2, <1>5
  <2> QED
    BY <2>1 DEF QueuesOK
<1>7. PICK p : p = [q EXCEPT ![n] = r]
  OBVIOUS
<1>8. p \in [Node -> Seq(Command)] /\ p[n] = r /\ \A m \in Node : m # n => p[m] = q[m]
  BY <1>1, <1>5, <1>7
<1>9. QueuesOK(p, kinds, ops)
  <2>1. ASSUME NEW m \in Node, NEW j \in 1 .. Len(p[m]) PROVE CommandOK(p[m][j], kinds, ops)
    <3>1. CASE m = n
      BY <1>6, <1>8, <3>1
    <3>2. CASE m # n
      BY <1>8, <3>2 DEF QueuesOK
    <3> QED
      BY <3>1, <3>2
  <2> QED
    BY <1>8, <2>1 DEF QueuesOK
<1> QED
  BY <1>3, <1>4, <1>7, <1>9

\* A command is put into a channel.
LEMMA PutInQueue ==
    ASSUME NEW q, NEW kinds, NEW ops, QueuesOK(q, kinds, ops), NEW n,
           NEW cmd \in Command, CommandOK(cmd, kinds, ops)
    PROVE  QueuesOK([q EXCEPT ![n] = Append(@, cmd)], kinds, ops)
<1>1. q \in [Node -> Seq(Command)]
  BY DEF QueuesOK
<1>2. PICK r : r = Append(q[n], cmd)
  OBVIOUS
<1>3. PICK p : p = [q EXCEPT ![n] = r]
  OBVIOUS
<1>4. \A m \in Node : (m # n => p[m] = q[m]) /\ (m = n => p[m] = r)
  BY <1>1, <1>3
<1>5. ASSUME NEW m \in Node
      PROVE  p[m] \in Seq(Command) /\ \A j \in 1 .. Len(p[m]) : CommandOK(p[m][j], kinds, ops)
  <2>1. q[m] \in Seq(Command) /\ \A j \in 1 .. Len(q[m]) : CommandOK(q[m][j], kinds, ops)
    BY DEF QueuesOK
  <2>2. CASE m = n
    <3>1. p[m] = Append(q[m], cmd)
      BY <1>2, <1>4, <2>2
    <3>2. p[m] \in Seq(Command) /\ Len(p[m]) = Len(q[m]) + 1 /\ p[m][Len(q[m]) + 1] = cmd
          /\ \A j \in 1 .. Len(q[m]) : p[m][j] = q[m][j]
      BY <2>1, <3>1
    <3>3. ASSUME NEW j \in 1 .. Len(p[m]) PROVE CommandOK(p[m][j], kinds, ops)
      <4>1. j \in 1 .. Len(q[m]) \/ j = Len(q[m]) + 1
        BY <2>1, <3>2
      <4> QED
        BY <2>1, <3>2, <4>1
    <3> QED
      BY <3>2, <3>3
  <2>3. CASE m # n
    BY <1>4, <2>1, <2>3
  <2> QED
    BY <2>2, <2>3
<1>6. p \in [Node -> Seq(Command)]
  <2>1. DOMAIN p = Node /\ p = [m \in Node |-> p[m]]
    BY <1>1, <1>3
  <2> QED
    BY <1>5, <2>1
<1> QED
  BY <1>2, <1>3, <1>5, <1>6 DEF QueuesOK

\* The loop of one server turns to other work.
LEMMA WorkChanges ==
    ASSUME NEW b, NEW kinds, NEW starts, NEW ops, NEW times, NEW l,
           LoopsOK(b, kinds, ops, l), NEW n \in Node,
           NEW w \in {NoCommand} \cup Waiting, WorkOK(w, kinds, ops, l)
    PROVE  LoopsOK([b EXCEPT ![n] = w], kinds, ops, l)
<1>1. PICK d : d = [b EXCEPT ![n] = w]
  OBVIOUS
<1>2. d \in [Node -> {NoCommand} \cup Waiting] /\ d[n] = w /\ \A m \in Node : m # n => d[m] = b[m]
  BY <1>1 DEF LoopsOK
<1>3. ASSUME NEW m \in Node PROVE WorkOK(d[m], kinds, ops, l)
  BY <1>2 DEF LoopsOK
<1> QED
  BY <1>1, <1>2, <1>3 DEF LoopsOK

LEMMA NoWork ==
    ASSUME NEW kinds, NEW starts, NEW ops, NEW times, NEW l
    PROVE  NoCommand \in {NoCommand} \cup Waiting /\ WorkOK(NoCommand, kinds, ops, l)
BY DEF NoCommand, WorkOK

\* m starts with l.
Extends(m, l) == \A j \in 1 .. Len(l) : m[j] = l[j]

\* More is committed: what is recorded is still explained.
LEMMA ResultsStay ==
    ASSUME NEW times, NEW kinds, NEW starts, NEW cl, NEW h, NEW now, NEW l,
           BooksOK(times, kinds, starts, cl, h, now, l),
           NEW m, Extends(m, l)
    PROVE  ResultsOK(h, times, m)
<1>0. \A j \in 1 .. Len(l) : m[j] = l[j]
  BY DEF Extends
<1>1. /\ TimesOK(times, now, Len(l)) /\ StartsOK(kinds, starts, Ops(cl), now)
      /\ RecordsOK(h, kinds, starts, Ops(cl), Pending(cl), now) /\ ResultsOK(h, times, l)
  BY DEF BooksOK
<1>2. SUFFICES ASSUME NEW o \in h PROVE Explained(o, times, m)
  BY DEF ResultsOK
<1>3. RecordOK(o, kinds, starts, Ops(cl), Pending(cl), now) /\ Explained(o, times, l)
  BY <1>1 DEF RecordsOK, ResultsOK
<1>4. now \in Nat /\ Len(l) \in Nat
  BY <1>1 DEF TimesOK
<1>5. starts[o.id] \in Nat
  BY <1>1, <1>3, <1>4, BegunBefore DEF RecordOK
<1>6. o.invoke \in Nat /\ o.complete \in 0 .. now
  BY <1>3, <1>4, <1>5 DEF RecordOK
<1>7. times[o.invoke] \in Nat /\ times[o.complete] \in Nat /\ times[o.complete] <= Len(l)
  <2>1. times \in [Nat -> Nat] /\ \A t \in 0 .. now : times[t] <= Len(l)
    BY <1>1, TimesParts
  <2>2. o.complete \in Nat
    BY <1>4, <1>6
  <2> QED
    BY <1>6, <2>1, <2>2
<1>8. ASSUME o.kind = "Write", o.result = "Ok"
      PROVE  \E j \in 1 .. times[o.complete] : <<m[j].client, m[j].op>> = o.id
  <2>1. PICK j \in 1 .. times[o.complete] : <<l[j].client, l[j].op>> = o.id
    BY <1>3, <1>8 DEF Explained
  <2>2. j \in 1 .. Len(l)
    BY <1>4, <1>7
  <2> QED
    BY <1>0, <2>1, <2>2
<1>9. ASSUME o.kind = "Read", o.result = "Ok"
      PROVE  \E j \in times[o.invoke] .. times[o.complete] : o.value = LastWrite(m, j)
  <2>1. PICK j \in times[o.invoke] .. times[o.complete] : o.value = LastWrite(l, j)
    BY <1>3, <1>9 DEF Explained
  <2>2. j = 0 \/ j \in 1 .. Len(l)
    BY <1>4, <1>7
  <2>3. LastWrite(m, j) = LastWrite(l, j)
    BY <1>0, <2>2 DEF LastWrite
  <2> QED
    BY <2>1, <2>3
<1> QED
  BY <1>8, <1>9 DEF Explained

\* Another entry follows those that a server has.
LEMMA AppendKeeps ==
    ASSUME NEW further, NEW kinds, NEW ops, AppendedOK(further, kinds, ops),
           NEW e \in Proposal, Begun(<<e.client, e.op>>, ops), kinds[<<e.client, e.op>>] = "Write"
    PROVE  AppendedOK(Append(further, e), kinds, ops)
<1>1. PICK r : r = Append(further, e)
  OBVIOUS
<1>2. further \in Seq(Proposal)
  BY DEF AppendedOK
<1>3. /\ r \in Seq(Proposal) /\ Len(r) = Len(further) + 1 /\ r[Len(further) + 1] = e
      /\ \A j \in 1 .. Len(further) : r[j] = further[j]
  BY <1>1, <1>2
<1>4. ASSUME NEW j \in 1 .. Len(r) PROVE j \in 1 .. Len(further) \/ j = Len(further) + 1
  BY <1>2, <1>3
<1>5. AppendedOK(r, kinds, ops)
  BY <1>3, <1>4 DEF AppendedOK
<1> QED
  BY <1>1, <1>5

\* One of them is taken out.
LEMMA RemoveKeeps ==
    ASSUME NEW further, NEW kinds, NEW ops, AppendedOK(further, kinds, ops),
           NEW j \in 1 .. Len(further)
    PROVE  AppendedOK(RemoveAt(further, j), kinds, ops)
<1>1. further \in Seq(Proposal) /\ Len(further) \in Nat /\ j \in Nat /\ j >= 1
  BY DEF AppendedOK
<1>2. PICK r : r = RemoveAt(further, j)
  OBVIOUS
<1>3. PICK s : s = SubSeq(further, 1, j - 1)
  OBVIOUS
<1>4. PICK u : u = SubSeq(further, j + 1, Len(further))
  OBVIOUS
<1>5. s \in Seq(Proposal) /\ Len(s) = j - 1 /\ \A i \in 1 .. (j - 1) : s[i] = further[i]
  BY <1>1, <1>3
<1>6. /\ u \in Seq(Proposal) /\ Len(u) = Len(further) - j
      /\ \A i \in 1 .. (Len(further) - j) : u[i] = further[i + j]
  BY <1>1, <1>4
<1>7. r = s \o u
  BY <1>2, <1>3, <1>4 DEF RemoveAt
<1>8. r \in Seq(Proposal) /\ Len(r) = Len(further) - 1
  BY <1>1, <1>5, <1>6, <1>7
<1>9. ASSUME NEW i \in 1 .. Len(r) PROVE \E x \in 1 .. Len(further) : r[i] = further[x]
  <2>1. CASE i < j
    <3>1. i \in 1 .. (j - 1) /\ i \in 1 .. Len(further)
      BY <1>1, <1>8, <2>1
    <3>2. r[i] = s[i]
      BY <1>1, <1>5, <1>6, <1>7, <3>1
    <3> QED
      BY <1>5, <3>1, <3>2
  <2>2. CASE i >= j
    <3>1. /\ i - (j - 1) \in 1 .. (Len(further) - j) /\ i + 1 \in 1 .. Len(further)
          /\ (i - (j - 1)) + j = i + 1
      BY <1>1, <1>8, <2>2
    <3>2. r[i] = u[i - (j - 1)]
      BY <1>1, <1>5, <1>6, <1>7, <1>8, <2>2
    <3> QED
      BY <1>6, <3>1, <3>2
  <2> QED
    BY <1>1, <2>1, <2>2
<1>10. AppendedOK(r, kinds, ops)
  BY <1>8, <1>9 DEF AppendedOK
<1> QED
  BY <1>2, <1>10

\* A write is committed; the loop that works on it, if there is one, knows.
LEMMA CommitKeeps ==
    ASSUME NEW times, NEW kinds, NEW starts, NEW cl, NEW h, NEW now, NEW l, NEW further, NEW q,
           NEW b, NEW reads, Kept(times, kinds, starts, cl, h, now, l, further, q, b, reads),
           NEW j \in 1 .. Len(further), NEW m, m = Append(l, LogEntry(further[j])),
           NEW d,
           \/ d = b
           \/ \E n \in Node : /\ b[n].op # 0 /\ b[n].client = further[j].client
                              /\ b[n].op = further[j].op
                              /\ d = [b EXCEPT ![n].index = Len(m)]
    PROVE  Kept(times, kinds, starts, cl, h, now, m, RemoveAt(further, j), q, d, reads)
<1>1. /\ TimesOK(times, now, Len(l)) /\ StartsOK(kinds, starts, Ops(cl), now)
      /\ ClientsOK(cl, kinds, starts)
      /\ RecordsOK(h, kinds, starts, Ops(cl), Pending(cl), now)
      /\ LogOK(l, kinds, starts, Ops(cl), times)
      /\ AppendedOK(further, kinds, Ops(cl)) /\ QueuesOK(q, kinds, Ops(cl))
      /\ LoopsOK(b, kinds, Ops(cl), l) /\ ReadsOK(reads, kinds, starts, Ops(cl), times)
  BY DEF Kept, BooksOK, ServersOK
<1>2. l \in Seq(Entry) /\ Len(l) \in Nat /\ now \in Nat
  BY <1>1 DEF LogOK, TimesOK
<1>3. PICK c \in Client, op \in Nat : c = further[j].client /\ op = further[j].op
  <2>1. further \in Seq(Proposal)
    BY <1>1 DEF AppendedOK
  <2>2. further[j] \in Proposal
    BY <2>1
  <2> QED
    BY <2>2 DEF Proposal
<1>4. Begun(<<c, op>>, Ops(cl)) /\ kinds[<<c, op>>] = "Write"
  BY <1>1, <1>3 DEF AppendedOK
<1>5. PICK e \in Entry : e = LogEntry(further[j]) /\ e.client = c /\ e.op = op
  <2>1. LogEntry(further[j]) = Written(c, op)
    BY <1>3 DEF LogEntry, Written
  <2>2. Written(c, op) \in Entry /\ Written(c, op).client = c /\ Written(c, op).op = op
    BY DEF Entry, Written
  <2> QED
    BY <2>1, <2>2
<1>6. /\ m \in Seq(Entry) /\ Len(m) = Len(l) + 1 /\ m[Len(l) + 1] = e
      /\ \A i \in 1 .. Len(l) : m[i] = l[i]
  BY <1>2, <1>5
<1>7. times[starts[<<c, op>>]] < Len(l) + 1
  <2>1. PICK s \in 0 .. now : s = starts[<<c, op>>]
    BY <1>1, <1>2, <1>4, BegunBefore
  <2>2. times[s] <= Len(l) /\ times[s] \in Nat
    BY <1>1, <1>2 DEF TimesOK
  <2> QED
    BY <1>2, <2>1, <2>2
<1>8. TimesOK(times, now, Len(m))
  <2>1. ASSUME NEW t \in 0 .. now PROVE times[t] <= Len(m)
    <3>1. times[t] \in Nat /\ times[t] <= Len(l)
      BY <1>1, TimesParts
    <3> QED
      BY <1>2, <1>6, <3>1
  <2>2. Len(m) \in Nat
    BY <1>2, <1>6
  <2>3. /\ times \in [Nat -> Nat] /\ now \in Nat
        /\ \A s, t \in 0 .. now : s <= t => times[s] <= times[t]
    BY <1>1 DEF TimesOK
  <2> QED
    BY <2>1, <2>2, <2>3 DEF TimesOK
<1>9. LogOK(m, kinds, starts, Ops(cl), times)
  <2>1. ASSUME NEW i \in 1 .. Len(m)
        PROVE  /\ Begun(<<m[i].client, m[i].op>>, Ops(cl))
               /\ kinds[<<m[i].client, m[i].op>>] = "Write"
               /\ times[starts[<<m[i].client, m[i].op>>]] < i
    <3>1. CASE i = Len(l) + 1
      BY <1>4, <1>5, <1>6, <1>7, <3>1
    <3>2. CASE i # Len(l) + 1
      <4>1. i \in 1 .. Len(l)
        BY <1>2, <1>6, <3>2
      <4> QED
        BY <1>1, <1>6, <4>1 DEF LogOK
    <3> QED
      BY <3>1, <3>2
  <2> QED
    BY <1>6, <2>1 DEF LogOK
<1>10. ResultsOK(h, times, m)
  <2>1. BooksOK(times, kinds, starts, cl, h, now, l)
    BY DEF Kept
  <2>2. Extends(m, l)
    BY <1>6 DEF Extends
  <2> QED
    BY <2>1, <2>2, ResultsStay
<1>11. LoopsOK(b, kinds, Ops(cl), m)
  <2>1. ASSUME NEW a \in Node PROVE WorkOK(b[a], kinds, Ops(cl), m)
    <3>1. WorkOK(b[a], kinds, Ops(cl), l) /\ b[a] \in {NoCommand} \cup Waiting
      BY <1>1 DEF LoopsOK
    <3>2. ASSUME b[a].op # 0, b[a].kind = "Write", b[a].index # 0
          PROVE  /\ b[a].index <= Len(m)
                 /\ m[b[a].index].client = b[a].client /\ m[b[a].index].op = b[a].op
      <4>1. /\ b[a].index <= Len(l) /\ b[a].index \in Nat
            /\ l[b[a].index].client = b[a].client /\ l[b[a].index].op = b[a].op
        BY <3>1, <3>2 DEF WorkOK, Waiting, NoCommand
      <4>2. b[a].index \in 1 .. Len(l)
        BY <1>2, <3>2, <4>1
      <4> QED
        BY <1>2, <1>6, <4>1, <4>2
    <3> QED
      BY <3>1, <3>2 DEF WorkOK
  <2> QED
    BY <1>1, <2>1 DEF LoopsOK
<1>12. LoopsOK(d, kinds, Ops(cl), m)
  <2>1. CASE d = b
    BY <1>11, <2>1
  <2>2. CASE d # b
    <3>1. PICK n \in Node : /\ b[n].op # 0 /\ b[n].client = c /\ b[n].op = op
                            /\ d = [b EXCEPT ![n].index = Len(m)]
      BY <1>3, <2>2
    <3>2. b[n] \in Waiting /\ WorkOK(b[n], kinds, Ops(cl), m)
      BY <1>11, <3>1 DEF LoopsOK, NoCommand
    <3>3. PICK w : w = [b[n] EXCEPT !.index = Len(m)]
      OBVIOUS
    <3>4. /\ w \in Waiting /\ w.client = b[n].client /\ w.op = b[n].op /\ w.kind = b[n].kind
          /\ w.index = Len(m)
      <4>1. Len(m) \in Nat
        BY <1>2, <1>6
      <4> QED
        BY <3>2, <3>3, <4>1 DEF Waiting
    <3>5. WorkOK(w, kinds, Ops(cl), m)
      BY <1>2, <1>5, <1>6, <3>1, <3>2, <3>4 DEF WorkOK, CommandOK
    <3>6. LoopsOK([b EXCEPT ![n] = w], kinds, Ops(cl), m)
      BY <1>11, <3>4, <3>5, WorkChanges
    <3>7. d = [b EXCEPT ![n] = w]
      BY <3>1, <3>3
    <3> QED
      BY <3>6, <3>7
  <2> QED
    BY <2>1, <2>2
<1>13. AppendedOK(RemoveAt(further, j), kinds, Ops(cl))
  BY <1>1, RemoveKeeps
<1> QED
  BY <1>1, <1>8, <1>9, <1>10, <1>12, <1>13 DEF Kept, BooksOK, ServersOK

\* What is left of the reads is as it was.
LEMMA ReadsLeft ==
    ASSUME NEW times, NEW kinds, NEW starts, NEW cl, NEW h, NEW now, NEW l, NEW further, NEW q,
           NEW b, NEW reads, Kept(times, kinds, starts, cl, h, now, l, further, q, b, reads),
           NEW left \in SUBSET reads
    PROVE  Kept(times, kinds, starts, cl, h, now, l, further, q, b, left)
<1>1. ReadsOK(reads, kinds, starts, Ops(cl), times)
  BY DEF Kept, ServersOK
<1>2. ReadsOK(left, kinds, starts, Ops(cl), times)
  BY <1>1 DEF ReadsOK
<1> QED
  BY <1>2, Zenon DEF Kept, ServersOK

\* A loop turns to other work.
LEMMA TurnKeeps ==
    ASSUME NEW times, NEW kinds, NEW starts, NEW cl, NEW h, NEW now, NEW l, NEW further, NEW q,
           NEW b, NEW reads, Kept(times, kinds, starts, cl, h, now, l, further, q, b, reads),
           NEW n \in Node, NEW w \in {NoCommand} \cup Waiting, WorkOK(w, kinds, Ops(cl), l),
           NEW d, d = [b EXCEPT ![n] = w]
    PROVE  Kept(times, kinds, starts, cl, h, now, l, further, q, d, reads)
<1>1. LoopsOK(b, kinds, Ops(cl), l)
  BY DEF Kept, ServersOK
<1>2. LoopsOK(d, kinds, Ops(cl), l)
  BY <1>1, WorkChanges
<1> QED
  BY <1>2, Zenon DEF Kept, ServersOK

LEMMA RestKeeps ==
    ASSUME NEW times, NEW kinds, NEW starts, NEW cl, NEW h, NEW now, NEW l, NEW further, NEW q,
           NEW b, NEW reads, Kept(times, kinds, starts, cl, h, now, l, further, q, b, reads),
           NEW n \in Node, NEW d, d = [b EXCEPT ![n] = NoCommand]
    PROVE  Kept(times, kinds, starts, cl, h, now, l, further, q, d, reads)
BY NoWork, TurnKeeps

\* The process of a server is gone with what it had to do.
LEMMA KillKeeps ==
    ASSUME NEW times, NEW kinds, NEW starts, NEW cl, NEW h, NEW now, NEW l, NEW further, NEW q,
           NEW b, NEW reads, Kept(times, kinds, starts, cl, h, now, l, further, q, b, reads),
           NEW n \in Node
    PROVE  Kept(times, kinds, starts, cl, h, now, l, further, [q EXCEPT ![n] = <<>>],
                [b EXCEPT ![n] = NoCommand], reads)
<1>1. QueuesOK(q, kinds, Ops(cl)) /\ LoopsOK(b, kinds, Ops(cl), l)
  BY DEF Kept, ServersOK
<1>2. LoopsOK([b EXCEPT ![n] = NoCommand], kinds, Ops(cl), l)
  BY <1>1, NoWork, WorkChanges
<1>3. PICK p : p = [q EXCEPT ![n] = <<>>]
  OBVIOUS
<1>4. QueuesOK(p, kinds, Ops(cl))
  <2>1. q \in [Node -> Seq(Command)] /\ <<>> \in Seq(Command) /\ Len(<<>>) = 0
    BY <1>1 DEF QueuesOK
  <2>2. p \in [Node -> Seq(Command)] /\ p[n] = <<>> /\ \A m \in Node : m # n => p[m] = q[m]
    BY <1>3, <2>1
  <2>3. ASSUME NEW m \in Node, NEW j \in 1 .. Len(p[m]) PROVE CommandOK(p[m][j], kinds, Ops(cl))
    <3>1. m # n
      BY <2>1, <2>2
    <3> QED
      BY <1>1, <2>2, <3>1 DEF QueuesOK
  <2> QED
    BY <2>2, <2>3 DEF QueuesOK
<1> QED
  BY <1>2, <1>3, <1>4 DEF Kept, ServersOK

(***************************************************************************)
(* The store.                                                              *)
(***************************************************************************)

\* r is s with the word v after it.
Adds(r, s, v, S) ==
    r \in Seq(S) /\ Len(r) = Len(s) + 1 /\ r[Len(s) + 1] = v /\ \A k \in 1 .. Len(s) : r[k] = s[k]

LEMMA WordAdded ==
    ASSUME NEW S, NEW s, s \in Seq(S), NEW v, v \in S, NEW u, u = <<v>>
    PROVE  Adds(s \o u, s, v, S)
<1>1. u \in Seq(S) /\ Len(u) = 1 /\ u[1] = v
  OBVIOUS
<1>2. PICK r : r = s \o u
  OBVIOUS
<1>3. r \in Seq(S) /\ Len(r) = Len(s) + 1 /\ \A k \in 1 .. Len(s) : r[k] = s[k]
  BY <1>1, <1>2
<1>4. PICK n : n = Len(s) + 1
  OBVIOUS
<1>5. n \in 1 .. (Len(s) + Len(u)) /\ ~(n <= Len(s)) /\ n - Len(s) = 1
  BY <1>1, <1>4
<1>6. r[n] = u[1]
  BY <1>1, <1>2, <1>5
<1> QED
  BY <1>1, <1>2, <1>3, <1>4, <1>6 DEF Adds

LEMMA ThreeWords ==
    ASSUME NEW a, NEW w, NEW v, NEW r, r = (<<a>> \o <<w>>) \o <<v>>
    PROVE  Len(r) = 3 /\ DOMAIN r = 1 .. 3 /\ r[1] = a /\ r[2] = w /\ r[3] = v
<1>1. PICK S : a \in S /\ w \in S /\ v \in S
  <2>1. a \in {a, w, v} /\ w \in {a, w, v} /\ v \in {a, w, v}
    OBVIOUS
  <2> QED
    BY <2>1
<1>2. PICK p : p = <<a>>
  OBVIOUS
<1>3. PICK q : q = <<w>>
  OBVIOUS
<1>4. PICK u : u = <<v>>
  OBVIOUS
<1>5. p \in Seq(S) /\ Len(p) = 1 /\ p[1] = a
  BY <1>1, <1>2
<1>6. PICK s : s = p \o q
  OBVIOUS
<1>7. Adds(s, p, w, S)
  BY <1>1, <1>3, <1>5, <1>6, WordAdded
<1>8. s \in Seq(S) /\ Len(s) = 2 /\ s[2] = w /\ s[1] = a
  BY <1>5, <1>7 DEF Adds
<1>9. Adds(s \o u, s, v, S)
  BY <1>1, <1>4, <1>8, WordAdded
<1>10. r = s \o u
  BY <1>2, <1>3, <1>4, <1>6
<1>11. Adds(r, s, v, S)
  BY <1>9, <1>10
<1>12. r \in Seq(S) /\ Len(r) = 3 /\ r[3] = v
  BY <1>8, <1>11 DEF Adds
<1>13. \A k \in 1 .. 2 : r[k] = s[k]
  BY <1>8, <1>11 DEF Adds
<1>14. r[1] = a /\ r[2] = w
  <2>1. 1 \in 1 .. 2 /\ 2 \in 1 .. 2
    OBVIOUS
  <2>2. r[1] = s[1] /\ r[2] = s[2]
    BY <1>13, <2>1
  <2> QED
    BY <1>8, <2>2
<1>15. DOMAIN r = 1 .. Len(r)
  BY <1>12
<1> QED
  BY <1>12, <1>14, <1>15

\* What the state machine reads out of a SET command of the workload is what the
\* handler wrote into it.
LEMMA SetApplied ==
    ASSUME NEW c, NEW op, NEW s
    PROVE  Apply(s, SetCommand(Key, ValueOf(c, op))).store = Insert(s, Key, ValueOf(c, op))
<1>1. PICK word : Key = <<word>>
  BY WorkloadAssumption
<1>2. PICK v : v = <<c, op>>
  OBVIOUS
<1>3. ValueOf(c, op) = <<v>>
  BY <1>2 DEF ValueOf
<1>4. PICK command : command = SetCommand(Key, ValueOf(c, op))
  OBVIOUS
<1>5. command = (<<"SET">> \o <<word>>) \o <<v>>
  BY <1>1, <1>3, <1>4 DEF SetCommand
<1>6. /\ Len(command) = 3 /\ DOMAIN command = 1 .. 3
      /\ command[1] = "SET" /\ command[2] = word /\ command[3] = v
  BY <1>5, ThreeWords
<1>7. PICK parts : parts = SplitN(command)
  OBVIOUS
<1>8. parts = [k \in 1 .. 3 |-> <<command[k]>>]
  BY <1>6, <1>7 DEF SplitN
<1>9. parts \in Seq({<<command[1]>>, <<command[2]>>, <<command[3]>>}) /\ Len(parts) = 3
  BY <1>8
<1>10. parts[1] = <<"SET">> /\ parts[2] = Key /\ parts[3] = ValueOf(c, op)
  BY <1>1, <1>3, <1>6, <1>8
<1>11. IsSet(parts)
  BY <1>9, <1>10 DEF IsSet
<1>12. command # NoopCommand
  BY <1>6 DEF NoopCommand
<1>13. Apply(s, command) = [store |-> Insert(s, parts[2], parts[3]), err |-> FALSE]
  BY <1>7, <1>11, <1>12 DEF Apply
<1> QED
  BY <1>4, <1>10, <1>13

\* The store after k entries is the one before the last of them, with that applied.
LEMMA StoreBuilt ==
    ASSUME Len(log) \in Nat
    PROVE  /\ StoreAt(0) = EmptyStore
           /\ \A k \in 1 .. Len(log) :
                 StoreAt(k) = Apply(StoreAt(k - 1), log[k].command).store
<1> DEFINE Body(f, k) == IF k = 0 THEN EmptyStore ELSE Apply(f[k - 1], log[k].command).store
           K == CHOOSE f : f = [k \in 0 .. Len(log) |-> Body(f, k)]
           Done(m, f) == f = [k \in 0 .. m |-> Body(f, k)]
           D == {m \in Nat : \E f : Done(m, f)}
<1>1. ASSUME NEW k PROVE StoreAt(k) = K[k]
  BY Zenon DEF StoreAt
<1>2. 0 \in D
  <2> DEFINE f == [k \in 0 .. 0 |-> EmptyStore]
  <2>1. f = [k \in 0 .. 0 |-> Body(f, k)]
    OBVIOUS
  <2> QED
    BY <2>1
<1>3. ASSUME NEW m \in Nat, m \in D PROVE m + 1 \in D
  <2>1. PICK f : Done(m, f)
    BY <1>3
  <2> DEFINE g == [k \in 0 .. (m + 1) |->
                      IF k = m + 1 THEN Apply(f[m], log[m + 1].command).store ELSE f[k]]
  <2>2. ASSUME NEW k \in 0 .. (m + 1) PROVE g[k] = Body(g, k)
    <3>1. CASE k = m + 1
      <4>1. k # 0 /\ k - 1 = m /\ k - 1 \in 0 .. (m + 1) /\ k - 1 # m + 1
        BY <3>1
      <4> QED
        BY <3>1, <4>1
    <3>2. CASE k # m + 1
      <4>1. k \in 0 .. m /\ (k # 0 => k - 1 \in 0 .. (m + 1) /\ k - 1 # m + 1)
        BY <3>2
      <4>2. f[k] = Body(f, k)
        BY <2>1, <4>1
      <4> QED
        BY <3>2, <4>1, <4>2
    <3> QED
      BY <3>1, <3>2
  <2>3. Done(m + 1, g)
    <3>1. g = [k \in 0 .. (m + 1) |-> g[k]]
      OBVIOUS
    <3> HIDE DEF g
    <3> QED
      BY <2>2, <3>1
  <2> HIDE DEF g, Done
  <2> QED
    BY <2>3
<1>4. Len(log) \in D
  <2> HIDE DEF D
  <2> QED
    BY <1>2, <1>3, NumbersInduction
<1>5. K = [k \in 0 .. Len(log) |-> Body(K, k)]
  <2>1. \E f : f = [k \in 0 .. Len(log) |-> Body(f, k)]
    BY <1>4
  <2> QED
    BY <2>1, Zenon
<1> HIDE DEF K
<1>6. K[0] = EmptyStore
  <2>1. 0 \in 0 .. Len(log)
    OBVIOUS
  <2> QED
    BY <1>5, <2>1
<1>7. ASSUME NEW k \in 1 .. Len(log) PROVE K[k] = Apply(K[k - 1], log[k].command).store
  <2>1. k \in 0 .. Len(log) /\ k # 0
    OBVIOUS
  <2> QED
    BY <1>5, <2>1
<1> QED
  BY <1>1, <1>6, <1>7

\* Each entry sets the key to its value, so the last one shows.
LEMMA StoreShows ==
    ASSUME log \in Seq(Entry)
    PROVE  /\ \A k \in 1 .. Len(log) :
                 StoreAt(k) = Insert(StoreAt(k - 1), Key, ValueOf(log[k].client, log[k].op))
           /\ \A k \in 0 .. Len(log) : Get(StoreAt(k), Key, None) = LastWrite(log, k)
<1>1. Len(log) \in Nat
  OBVIOUS
<1>2. ASSUME NEW k \in 1 .. Len(log)
      PROVE  StoreAt(k) = Insert(StoreAt(k - 1), Key, ValueOf(log[k].client, log[k].op))
  <2>1. log[k] = Written(log[k].client, log[k].op)
    BY EntryParts
  <2>2. log[k].command = SetCommand(Key, ValueOf(log[k].client, log[k].op))
    BY <2>1 DEF Written
  <2> QED
    BY <1>1, <2>2, StoreBuilt, SetApplied
<1>3. ASSUME NEW k \in 0 .. Len(log) PROVE Get(StoreAt(k), Key, None) = LastWrite(log, k)
  <2>1. CASE k = 0
    <3>1. StoreAt(k) = <<>> /\ DOMAIN <<>> = {}
      BY <1>1, <2>1, StoreBuilt DEF EmptyStore
    <3> QED
      BY <2>1, <3>1 DEF Get, LastWrite
  <2>2. CASE k # 0
    <3>1. StoreAt(k) = Insert(StoreAt(k - 1), Key, ValueOf(log[k].client, log[k].op))
      BY <1>1, <1>2, <2>2
    <3> QED
      BY <2>2, <3>1 DEF Get, Insert, LastWrite
  <2> QED
    BY <2>1, <2>2
<1> QED
  BY <1>2, <1>3

(***************************************************************************)
(* The cluster.  A leader that is settled has counted all that is          *)
(* committed, or a majority has heard of a later term.                     *)
(***************************************************************************)

ClusterTypes ==
    /\ term \in [Node -> Nat] /\ known \in [Node -> Nat]
    /\ state \in [Node -> {"Follower", "Candidate", "Leader"}]
    /\ \A n \in settled : n \in Node /\ state[n] = "Leader"
    /\ \A n \in Node : state[n] = "Candidate" => busy[n] = NoCommand

\* The servers of Q have voted for n, or have gone on to later terms.
Backed(n, Q) ==
    \A q \in Q : \/ q = n \/ term[q] > term[n]
                 \/ term[q] = term[n] /\ state[q] = "Follower"

LeadersBacked == \A n \in Node : state[n] = "Leader" => \E Q \in Majorities : Backed(n, Q)

OneLeader ==
    \A m, n \in Node :
        state[m] = "Leader" /\ state[n] = "Leader" /\ term[m] = term[n] => m = n

SettledKnow == \A n \in settled : known[n] = Len(log) \/ Superseded(n, {})

ClusterInv == ClusterTypes /\ LeadersBacked /\ OneLeader /\ SettledKnow

\* No term falls, and no server stands or leads again in a term that it followed.
TermsGrow ==
    /\ term' \in [Node -> Nat] /\ \A q \in Node : term'[q] >= term[q]
    /\ state' \in [Node -> {"Follower", "Candidate", "Leader"}]
    /\ \A q \in Node : term'[q] = term[q] /\ state[q] = "Follower" => state'[q] = "Follower"

LeadersMove ==
    /\ TermsGrow
    /\ \A q \in Node : state'[q] = "Leader" => state[q] = "Leader" /\ term'[q] = term[q]

Elected(n) ==
    /\ TermsGrow
    /\ \A q \in Node : q # n /\ state'[q] = "Leader" => state[q] = "Leader" /\ term'[q] = term[q]

LEMMA NothingMoves ==
    ASSUME ClusterTypes, UNCHANGED <<term, state>>
    PROVE  LeadersMove
BY DEF ClusterTypes, LeadersMove, TermsGrow

LEMMA FollowMoves ==
    ASSUME ClusterTypes, NEW n \in Node, state[n] = "Leader", NEW S, NEW Q \in SUBSET S,
           \A q \in Q : Accepts(q, n), Follow(S, Q, n)
    PROVE  LeadersMove /\ \A q \in Node : q \in Q => term'[q] = term[n]
<1>1. /\ \A q \in Node : term'[q] = IF q \in Q THEN term[n] ELSE term[q]
      /\ \A q \in Node : state'[q] = IF q \in S \ {n} THEN "Follower" ELSE state[q]
      /\ DOMAIN term' = Node /\ DOMAIN state' = Node
      /\ term' = [q \in Node |-> term'[q]] /\ state' = [q \in Node |-> state'[q]]
  BY DEF Follow
<1>2. \A q \in Node : term[q] \in Nat /\ state[q] \in {"Follower", "Candidate", "Leader"}
  BY DEF ClusterTypes
<1>3. \A q \in Q : term[q] <= term[n]
  BY DEF Accepts
<1>4. TermsGrow
  <2>1. /\ \A q \in Node : term'[q] \in Nat /\ state'[q] \in {"Follower", "Candidate", "Leader"}
        /\ \A q \in Node : term'[q] >= term[q]
        /\ \A q \in Node : state[q] = "Follower" => state'[q] = "Follower"
    BY <1>1, <1>2, <1>3
  <2> QED
    BY <1>1, <2>1 DEF TermsGrow
<1> QED
  BY <1>1, <1>4 DEF LeadersMove

LEMMA CommitMoves ==
    ASSUME ClusterTypes, NEW n \in Node, NEW Q \in Quorums(n), Commit(n, Q)
    PROVE  LeadersMove /\ \A q \in Node : q \in Q => term'[q] = term[n]
<1>1. PICK S : S = Q \cup {q \in Node : state[q] = "Candidate"}
  OBVIOUS
<1>2. state[n] = "Leader" /\ (\A q \in Q : Accepts(q, n)) /\ Follow(S, Q, n) /\ Q \in SUBSET S
  BY <1>1 DEF Commit
<1> QED
  BY <1>2, FollowMoves

LEMMA ConfirmedByMoves ==
    ASSUME ClusterTypes, NEW n \in Node, NEW p \in Node, ConfirmedBy(n, p)
    PROVE  LeadersMove
<1>1. state[n] = "Leader" /\ Accepts(p, n) /\ Follow({p}, {p}, n)
  BY DEF ConfirmedBy
<1>2. \A q \in {p} : Accepts(q, n)
  BY <1>1
<1> QED
  BY <1>1, <1>2, FollowMoves

LEMMA StandMoves ==
    ASSUME ClusterTypes, NEW n \in Node, Stand(n)
    PROVE  LeadersMove
<1>1. /\ term' = [term EXCEPT ![n] = @ + 1] /\ state' = [state EXCEPT ![n] = "Candidate"]
  BY DEF Stand
<1>2. TermsGrow
  BY <1>1 DEF ClusterTypes, TermsGrow
<1> QED
  BY <1>1, <1>2 DEF ClusterTypes, LeadersMove

LEMMA HearMoves ==
    ASSUME ClusterTypes, NEW n \in Node, NEW p \in Node, Hear(p, n)
    PROVE  LeadersMove
<1>1. /\ term' = [term EXCEPT ![p] = term[n]] /\ state' = [state EXCEPT ![p] = "Follower"]
      /\ term[n] > term[p]
  BY DEF Hear
<1>2. TermsGrow
  BY <1>1 DEF ClusterTypes, TermsGrow
<1> QED
  BY <1>1, <1>2 DEF ClusterTypes, LeadersMove

LEMMA KillMoves ==
    ASSUME ClusterTypes, NEW n, Kill(n)
    PROVE  LeadersMove
<1>1. term' = term /\ state' = [state EXCEPT ![n] = "Follower"]
  BY DEF Kill
<1>2. \A q \in Node : state'[q] = IF q = n THEN "Follower" ELSE state[q]
  BY <1>1 DEF ClusterTypes
<1>3. state' \in [Node -> {"Follower", "Candidate", "Leader"}]
  BY <1>1 DEF ClusterTypes
<1> QED
  BY <1>1, <1>2, <1>3 DEF ClusterTypes, TermsGrow, LeadersMove

LEMMA ElectMoves ==
    ASSUME ClusterTypes, NEW n \in Node, NEW Q \in Quorums(n), Elect(n, Q)
    PROVE  /\ Elected(n) /\ term'[n] = term[n] /\ state'[n] = "Leader"
           /\ \A q \in Node : q \in Q /\ q # n => state'[q] = "Follower" /\ term'[q] = term[n]
           /\ \A q \in Node : state'[q] = "Candidate" => state[q] = "Candidate"
<1>1. n \in Q /\ state[n] = "Candidate" /\ \A q \in Q : q # n => term[q] < term[n]
  BY DEF Elect, Quorums
<1>2. /\ \A q \in Node : term'[q] = IF q \in Q THEN term[n] ELSE term[q]
      /\ \A q \in Node : state'[q] = IF q = n THEN "Leader"
                                     ELSE IF q \in Q THEN "Follower" ELSE state[q]
      /\ term' = [q \in Node |-> term'[q]] /\ state' = [q \in Node |-> state'[q]]
  BY DEF Elect
<1>3. \A q \in Node : term[q] \in Nat /\ state[q] \in {"Follower", "Candidate", "Leader"}
  BY DEF ClusterTypes
<1>4. TermsGrow
  <2>1. /\ \A q \in Node : term'[q] \in Nat /\ state'[q] \in {"Follower", "Candidate", "Leader"}
        /\ \A q \in Node : term'[q] >= term[q]
        /\ \A q \in Node : state[q] = "Follower" => state'[q] = "Follower"
    BY <1>1, <1>2, <1>3
  <2> QED
    BY <1>2, <2>1 DEF TermsGrow
<1> QED
  BY <1>1, <1>2, <1>4 DEF Elected

\* A leader keeps those that are behind it, and what deposes it.
LEMMA BackedStays ==
    ASSUME ClusterTypes, TermsGrow, NEW n \in Node, term'[n] = term[n], NEW Q \in Majorities,
           Backed(n, Q)
    PROVE  Backed(n, Q)'
<1>1. \A q \in Q : /\ q \in Node /\ term[q] \in Nat /\ term'[q] \in Nat /\ term'[q] >= term[q]
                   /\ term'[q] = term[q] /\ state[q] = "Follower" => state'[q] = "Follower"
  BY DEF Majorities, TermsGrow, ClusterTypes
<1>2. term[n] \in Nat
  BY DEF ClusterTypes
<1> QED
  BY <1>1, <1>2 DEF Backed

LEMMA SupersededStays ==
    ASSUME ClusterTypes, TermsGrow, NEW n \in Node, term'[n] = term[n], Superseded(n, {})
    PROVE  Superseded(n, {})'
<1>1. PICK Q \in Majorities : \A q \in Q : term[q] > term[n]
  BY DEF Superseded
<1>2. \A q \in Q : q \in Node /\ term[q] \in Nat /\ term'[q] \in Nat /\ term'[q] >= term[q]
  BY DEF Majorities, TermsGrow, ClusterTypes
<1>3. term[n] \in Nat
  BY DEF ClusterTypes
<1> QED
  BY <1>1, <1>2, <1>3 DEF Superseded

\* Leaders of different terms have a voter in common, the later leader's.
LEMMA BackedMeets ==
    ASSUME NEW Q \in Majorities, NEW P \in Majorities
    PROVE  \E q \in P : q \in Q
BY WorkloadAssumption, MajoritiesMeet DEF Majorities, Majority

\* Steps after which only those lead that did.
LEMMA ClusterMoves ==
    ASSUME ClusterInv, LeadersMove, \A m \in settled' : m \in settled /\ state'[m] = "Leader",
           known' = known, log' = log,
           \A q \in Node : state'[q] = "Candidate" => busy'[q] = NoCommand
    PROVE  ClusterInv'
<1>1. ClusterTypes /\ LeadersBacked /\ OneLeader /\ SettledKnow /\ TermsGrow
  BY DEF ClusterInv, LeadersMove
<1>2. ClusterTypes'
  BY <1>1 DEF ClusterTypes, TermsGrow
<1>3. LeadersBacked'
  <2> SUFFICES ASSUME NEW n \in Node, state'[n] = "Leader" PROVE \E Q \in Majorities : Backed(n, Q)'
    BY DEF LeadersBacked, Majorities, Majority
  <2>1. state[n] = "Leader" /\ term'[n] = term[n]
    BY DEF LeadersMove
  <2>2. PICK Q \in Majorities : Backed(n, Q)
    BY <1>1, <2>1 DEF LeadersBacked
  <2> QED
    BY <1>1, <2>1, <2>2, BackedStays
<1>4. OneLeader'
  BY <1>1 DEF OneLeader, LeadersMove
<1>5. SettledKnow'
  <2> SUFFICES ASSUME NEW n \in settled' PROVE known'[n] = Len(log') \/ Superseded(n, {})'
    BY DEF SettledKnow
  <2>1. n \in settled /\ n \in Node /\ term'[n] = term[n]
    BY <1>1 DEF ClusterTypes, LeadersMove
  <2> QED
    BY <1>1, <2>1, SupersededStays DEF SettledKnow
<1> QED
  BY <1>2, <1>3, <1>4, <1>5 DEF ClusterInv

LEMMA ClusterRests ==
    ASSUME ClusterInv, UNCHANGED <<term, state, settled, known, log>>,
           \A q \in Node : state[q] = "Candidate" => busy'[q] = NoCommand
    PROVE  ClusterInv'
<1>1. LeadersMove
  BY NothingMoves DEF ClusterInv
<1>2. \A m \in settled' : m \in settled /\ state'[m] = "Leader"
  BY DEF ClusterInv, ClusterTypes
<1> QED
  BY <1>1, <1>2, ClusterMoves

\* The winner of an election is the first leader of its term.
LEMMA ClusterElect ==
    ASSUME ClusterInv, NEW n \in Node, NEW Q \in Quorums(n), Elect(n, Q)
    PROVE  ClusterInv'
<1>1. ClusterTypes /\ LeadersBacked /\ OneLeader /\ SettledKnow
  BY DEF ClusterInv
<1>2. /\ Elected(n) /\ TermsGrow /\ term'[n] = term[n] /\ state'[n] = "Leader"
      /\ \A q \in Node : q \in Q /\ q # n => state'[q] = "Follower" /\ term'[q] = term[n]
      /\ \A q \in Node : state'[q] = "Candidate" => state[q] = "Candidate"
  BY <1>1, ElectMoves DEF Elected
<1>3. /\ UNCHANGED <<known, log, busy>> /\ settled' = settled \ Q
      /\ state[n] = "Candidate" /\ \A q \in Q : q # n => term[q] < term[n]
  BY DEF Elect, logVars
<1>4. Q \in Majorities /\ Q \subseteq Node /\ n \in Q
  BY DEF Quorums, Reached, Majorities
<1>5. ASSUME NEW m \in Node, state'[m] = "Leader", m # n
      PROVE  /\ state[m] = "Leader" /\ term'[m] = term[m] /\ m \notin Q
             /\ term[m] # term[n]
  <2>1. state[m] = "Leader" /\ term'[m] = term[m] /\ m \notin Q
    BY <1>2, <1>5 DEF Elected
  <2>2. PICK V \in Majorities : Backed(m, V)
    BY <1>1, <2>1 DEF LeadersBacked
  <2>3. PICK q \in Q : q \in V
    BY <1>4, <2>2, BackedMeets
  <2>4. q \in Node /\ q # m /\ term[q] \in Nat /\ term[m] \in Nat /\ term[n] \in Nat
    BY <1>1, <1>4, <2>1, <2>3 DEF ClusterTypes
  <2>5. \/ term[q] > term[m]
        \/ term[q] = term[m] /\ state[q] = "Follower"
    BY <2>2, <2>3, <2>4 DEF Backed
  <2> QED
    BY <1>3, <2>1, <2>4, <2>5
<1>6. ClusterTypes'
  <2>1. \A m \in settled' : m \in Node /\ state'[m] = "Leader"
    <3> SUFFICES ASSUME NEW m \in settled' PROVE m \in Node /\ state'[m] = "Leader"
      OBVIOUS
    <3>1. m \in settled /\ m \notin Q /\ m \in Node /\ state[m] = "Leader"
      BY <1>1, <1>3 DEF ClusterTypes
    <3>2. state'[m] = state[m]
      BY <1>4, <3>1 DEF Elect
    <3> QED
      BY <3>1, <3>2
  <2> QED
    BY <1>1, <1>2, <1>3, <2>1 DEF ClusterTypes, TermsGrow
<1>7. LeadersBacked'
  <2> SUFFICES ASSUME NEW m \in Node, state'[m] = "Leader"
               PROVE  \E V \in Majorities : Backed(m, V)'
    BY DEF LeadersBacked, Majorities, Majority
  <2>1. CASE m = n
    BY <1>2, <1>4, <2>1 DEF Backed
  <2>2. CASE m # n
    <3>1. PICK V \in Majorities : Backed(m, V)
      BY <1>1, <1>5, <2>2 DEF LeadersBacked
    <3> QED
      BY <1>1, <1>2, <1>5, <2>2, <3>1, BackedStays
  <2> QED
    BY <2>1, <2>2
<1>8. OneLeader'
  <2> SUFFICES ASSUME NEW l \in Node, NEW m \in Node, state'[l] = "Leader", state'[m] = "Leader",
                      term'[l] = term'[m], l # m
               PROVE  FALSE
    BY DEF OneLeader
  <2>1. CASE l = n \/ m = n
    BY <1>2, <1>5, <2>1
  <2>2. CASE l # n /\ m # n
    BY <1>1, <1>5, <2>2 DEF OneLeader
  <2> QED
    BY <2>1, <2>2
<1>9. SettledKnow'
  <2> SUFFICES ASSUME NEW m \in settled' PROVE known'[m] = Len(log') \/ Superseded(m, {})'
    BY DEF SettledKnow
  <2>1. m \in settled /\ m \in Node /\ m # n /\ state'[m] = "Leader"
    BY <1>3, <1>4, <1>6 DEF ClusterTypes
  <2>2. term'[m] = term[m]
    BY <1>5, <2>1
  <2> QED
    BY <1>1, <1>2, <1>3, <2>1, <2>2, SupersededStays DEF SettledKnow
<1> QED
  BY <1>6, <1>7, <1>8, <1>9 DEF ClusterInv

\* A majority that takes an entry of a leader's leaves none to any other but the
\* leaders that it supersedes.
LEMMA ClusterCommit ==
    ASSUME ClusterInv, NEW n \in Node, NEW Q \in Quorums(n), Commit(n, Q), Len(log') \in Nat,
           busy \in [Node -> {NoCommand} \cup Waiting]
    PROVE  ClusterInv'
<1>1. ClusterTypes /\ LeadersBacked /\ OneLeader /\ SettledKnow
  BY DEF ClusterInv
<1>2. LeadersMove /\ TermsGrow /\ \A q \in Node : q \in Q => term'[q] = term[n]
  BY <1>1, CommitMoves DEF LeadersMove
<1>3. /\ state[n] = "Leader" /\ \A q \in Q : term[q] <= term[n]
      /\ known' = [known EXCEPT ![n] = Len(log')]
      /\ settled' = (settled \ Q) \cup {n} \/ settled' = settled \ (Q \ {n})
      /\ \A q \in Node : state'[q] = "Candidate" => FALSE
      /\ state'[n] = "Leader"
  BY DEF Commit, Accepts, Follow
<1>4. Q \in Majorities /\ Q \subseteq Node /\ n \in Q
  BY DEF Quorums, Reached, Majorities
<1>5. term'[n] = term[n] /\ term[n] \in Nat
  BY <1>1, <1>2, <1>3 DEF LeadersMove, ClusterTypes
<1>6. ASSUME NEW m \in settled', m # n
      PROVE  m \in settled /\ m \in Node /\ m \notin Q /\ state'[m] = "Leader"
  <2>1. m \in settled /\ m \notin Q /\ m \in Node /\ state[m] = "Leader"
    BY <1>1, <1>3, <1>6 DEF ClusterTypes
  <2>2. state'[m] = state[m]
    BY <1>6, <2>1 DEF Commit, Follow
  <2> QED
    BY <2>1, <2>2
<1>7. known' \in [Node -> Nat] /\ known'[n] = Len(log') /\ \A m \in Node : m # n => known'[m] = known[m]
  BY <1>1, <1>3 DEF ClusterTypes
<1>8. ClusterTypes'
  BY <1>2, <1>3, <1>6, <1>7 DEF ClusterTypes, TermsGrow
<1>9. LeadersBacked'
  <2> SUFFICES ASSUME NEW m \in Node, state'[m] = "Leader" PROVE \E V \in Majorities : Backed(m, V)'
    BY DEF LeadersBacked, Majorities, Majority
  <2>1. state[m] = "Leader" /\ term'[m] = term[m]
    BY <1>2 DEF LeadersMove
  <2>2. PICK V \in Majorities : Backed(m, V)
    BY <1>1, <2>1 DEF LeadersBacked
  <2> QED
    BY <1>1, <1>2, <2>1, <2>2, BackedStays
<1>10. OneLeader'
  BY <1>1, <1>2 DEF OneLeader, LeadersMove
<1>11. SettledKnow'
  <2> SUFFICES ASSUME NEW m \in settled' PROVE known'[m] = Len(log') \/ Superseded(m, {})'
    BY DEF SettledKnow
  <2>1. CASE m = n
    BY <1>7, <2>1
  <2>2. CASE m # n
    <3>1. /\ m \in Node /\ state'[m] = "Leader" /\ state[m] = "Leader" /\ term'[m] = term[m]
          /\ term[m] \in Nat
      BY <1>1, <1>2, <1>6, <2>2 DEF LeadersMove, ClusterTypes
    <3>2. PICK V \in Majorities : Backed(m, V)
      BY <1>1, <3>1 DEF LeadersBacked
    <3>3. PICK q \in Q : q \in V
      BY <1>4, <3>2, BackedMeets
    <3>4. q \in Node /\ q # m /\ term[q] \in Nat /\ term[q] <= term[n]
      BY <1>1, <1>3, <1>4, <1>6, <2>2, <3>3 DEF ClusterTypes
    <3>5. term[q] >= term[m]
      BY <3>1, <3>2, <3>3, <3>4 DEF Backed
    <3>6. term[m] # term[n]
      BY <1>1, <1>3, <2>2, <3>1 DEF OneLeader
    <3>7. term[n] > term[m]
      BY <1>5, <3>1, <3>4, <3>5, <3>6
    <3>8. \A p \in Q : term'[p] > term'[m]
      BY <1>2, <1>4, <3>1, <3>7
    <3> QED
      BY <1>4, <3>8 DEF Superseded
  <2> QED
    BY <2>1, <2>2
<1> QED
  BY <1>8, <1>9, <1>10, <1>11 DEF ClusterInv

(***************************************************************************)
(* The reads that are to be answered.                                      *)
(***************************************************************************)

LEMMA ReadsSame ==
    ASSUME UNCHANGED <<term, state, busy, gets>>
    PROVE  Reads' = Reads
BY DEF Reads, Confirming, Confirms, Works, Superseded, Majorities, Majority, ReadOf

\* A read is one of before, unless it is new or its leader cannot confirm it.
LEMMA ReadsStay ==
    ASSUME term \in [Node -> Nat], term' \in [Node -> Nat], \A q \in Node : term'[q] >= term[q],
           NEW added,
           \A g \in gets' : g \in gets \/ ReadOf(g) \in Reads \cup added,
           \A n \in Node : Confirms(n)' /\ ~Superseded(n, busy[n].acks)' =>
              \/ ReadOf(busy'[n]) \in added
              \/ /\ Confirms(n) /\ term'[n] = term[n] /\ ReadOf(busy'[n]) = ReadOf(busy[n])
                 /\ \A p \in busy'[n].acks : p \in busy[n].acks \/ term[p] <= term[n]
    PROVE  Reads' \subseteq Reads \cup added
<1> SUFFICES ASSUME NEW r \in Reads' PROVE r \in Reads \cup added
  OBVIOUS
<1>1. \/ \E g \in gets' : r = ReadOf(g)
      \/ \E n \in Node : Confirms(n)' /\ ~Superseded(n, busy[n].acks)' /\ r = ReadOf(busy'[n])
  BY DEF Reads, Confirming, ReadOf
<1>2. CASE \E g \in gets' : r = ReadOf(g)
  BY <1>2 DEF Reads
<1>3. ASSUME NEW n \in Node, Confirms(n)', ~Superseded(n, busy[n].acks)', r = ReadOf(busy'[n])
      PROVE  r \in Reads \cup added
  <2> SUFFICES ASSUME Confirms(n), term'[n] = term[n], ReadOf(busy'[n]) = ReadOf(busy[n]),
                      \A p \in busy'[n].acks : p \in busy[n].acks \/ term[p] <= term[n]
               PROVE  r \in Reads
    BY <1>3
  <2>1. ~Superseded(n, busy[n].acks)
    <3> SUFFICES ASSUME NEW Q \in Majorities,
                        \A q \in Q : term[q] > term[n] /\ q \notin busy[n].acks
                 PROVE  Superseded(n, busy[n].acks)'
      BY <1>3 DEF Superseded
    <3>1. \A q \in Q : q \in Node /\ term[q] \in Nat /\ term'[q] \in Nat /\ term'[q] >= term[q]
      BY DEF Majorities
    <3>2. term[n] \in Nat
      OBVIOUS
    <3>3. \A q \in Q : term'[q] > term'[n] /\ q \notin busy'[n].acks
      BY <3>1, <3>2
    <3> QED
      BY <3>3 DEF Superseded, Majorities, Majority
  <2> QED
    BY <1>3, <2>1 DEF Reads, Confirming
<1> QED
  BY <1>1, <1>2, <1>3

\* No read is taken.
LEMMA MovesRest ==
    ASSUME ClusterInv, LeadersMove, gets' \subseteq gets,
           \A n \in Node : Confirms(n)' => busy'[n] = busy[n]
    PROVE  Reads' \subseteq Reads
<1>1. term \in [Node -> Nat] /\ term' \in [Node -> Nat] /\ \A q \in Node : term'[q] >= term[q]
  BY DEF ClusterInv, ClusterTypes, LeadersMove, TermsGrow
<1>2. ASSUME NEW n \in Node, Confirms(n)'
      PROVE  /\ Confirms(n) /\ term'[n] = term[n] /\ ReadOf(busy'[n]) = ReadOf(busy[n])
             /\ \A p \in busy'[n].acks : p \in busy[n].acks \/ term[p] <= term[n]
  <2>1. busy'[n] = busy[n] /\ state'[n] = "Leader" /\ Works(n, "Read", "confirm")'
    BY <1>2 DEF Confirms
  <2>2. state[n] = "Leader" /\ term'[n] = term[n]
    BY <2>1 DEF LeadersMove
  <2> QED
    BY <2>1, <2>2 DEF Confirms, Works
<1>3. Reads' \subseteq Reads \cup {}
  BY <1>1, <1>2, ReadsStay
<1> QED
  BY <1>3

LEMMA ReadsRest ==
    ASSUME ClusterInv, UNCHANGED <<term, state, busy>>, gets' \subseteq gets
    PROVE  Reads' \subseteq Reads
<1>1. LeadersMove
  BY NothingMoves DEF ClusterInv
<1> QED
  BY <1>1, MovesRest

\* A loop turns to work that is no read.
LEMMA ReadsLess ==
    ASSUME ClusterInv, UNCHANGED <<term, state, gets>>,
           busy \in [Node -> {NoCommand} \cup Waiting],
           NEW n, NEW w, w.op = 0 \/ w.kind = "Write" \/ w.stage # "confirm",
           busy' = [busy EXCEPT ![n] = w]
    PROVE  Reads' \subseteq Reads
<1>1. LeadersMove
  BY NothingMoves DEF ClusterInv
<1>2. ASSUME NEW m \in Node, Confirms(m)' PROVE busy'[m] = busy[m]
  <2>1. busy'[m] = IF m = n THEN w ELSE busy[m]
    OBVIOUS
  <2> QED
    BY <1>2, <2>1 DEF Confirms, Works
<1> QED
  BY <1>1, <1>2, MovesRest

(***************************************************************************)
(* The actions.                                                            *)
(***************************************************************************)

LEMMA CompleteStep ==
    ASSUME NEW times, NEW kinds, NEW starts, NEW l, NEW further, NEW q, NEW b, NEW reads,
           Kept(times, kinds, starts, client, history, clock, l, further, q, b, reads),
           NEW c \in Client, client[c].at # "rest", NEW result \in {"Ok", "Error"}, NEW value,
           MayReport(times, starts, c, client[c].op, client[c].kind, result, value, l),
           Complete(c, result, value)
    PROVE  \E t : Kept(t, kinds, starts, client', history', clock', l, further, q, b, reads)
<1>1. clock' = clock + 1
  BY DEF Complete
<1>2. client' = Rested(client, c) /\ history' = Recorded(history, client, c, clock + 1, result, value)
  BY <1>1 DEF Complete, Rested, Recorded
<1>3. \E t : Kept(t, kinds, starts, client', history', clock + 1, l, further, q, b, reads)
  BY <1>2, CompleteKeeps
<1> QED
  BY <1>1, <1>3

LEMMA RetryStep ==
    ASSUME NEW times, NEW kinds, NEW starts, NEW l, NEW further, NEW q, NEW b, NEW reads,
           Kept(times, kinds, starts, client, history, clock, l, further, q, b, reads),
           NEW c \in Client, client[c].at # "rest", Retry(c)
    PROVE  \E t : Kept(t, kinds, starts, client', history', clock', l, further, q, b, reads)
<1>1. CASE Complete(c, "Error", None)
  <2>1. MayReport(times, starts, c, client[c].op, client[c].kind, "Error", None, l)
    BY DEF MayReport
  <2> QED
    BY <1>1, <2>1, CompleteStep
<1>2. CASE /\ client' = [client EXCEPT ![c].at = "send", ![c].retries = @ + 1,
                                       ![c].target = (@ % Len(Targets)) + 1]
           /\ UNCHANGED <<history, clock>>
  <2>1. client \in [Client -> ClientState]
    BY DEF Kept, BooksOK, ClientsOK
  <2>2. Len(Targets) \in Nat /\ Len(Targets) > 0
    BY WorkloadAssumption
  <2>3. client[c].retries + 1 \in Nat /\ client[c].target \in Nat
    BY <2>1 DEF ClientState
  <2>4. (client[c].target % Len(Targets)) + 1 \in Nat
    BY <2>2, <2>3
  <2>5. PICK d : d = client'
    OBVIOUS
  <2>6. /\ d \in [Client -> ClientState] /\ \A a \in Client : a # c => d[a] = client[a]
        /\ d[c].at # "rest" /\ d[c].op = client[c].op /\ d[c].kind = client[c].kind
        /\ d[c].invoke = client[c].invoke
    <3>1. PICK r : r = [client[c] EXCEPT !.at = "send", !.retries = client[c].retries + 1,
                                         !.target = (client[c].target % Len(Targets)) + 1]
      OBVIOUS
    <3>2. client[c] \in ClientState
      BY <2>1
    <3>3. /\ r \in ClientState /\ r.at = "send" /\ r.op = client[c].op
          /\ r.kind = client[c].kind /\ r.invoke = client[c].invoke
      BY <2>3, <2>4, <3>1, <3>2 DEF ClientState
    <3>4. d = [client EXCEPT ![c] = r]
      BY <1>2, <2>1, <2>5, <3>1
    <3> QED
      BY <2>1, <3>3, <3>4
  <2>7. Kept(times, kinds, starts, d, history, clock, l, further, q, b, reads)
    BY <2>6, MoveKeeps
  <2> QED
    BY <1>2, <2>5, <2>7
<1> QED
  BY <1>1, <1>2 DEF Retry

Outcome == {"Ok", "NotLeader", "NotCommitted", "ReadTimeout", "InvalidCommand"}

LEMMA AnswerStep ==
    ASSUME NEW times, NEW kinds, NEW starts, NEW l, NEW further, NEW q, NEW b, NEW reads,
           Kept(times, kinds, starts, client, history, clock, l, further, q, b, reads),
           NEW n, NEW cmd, Begun(<<cmd.client, cmd.op>>, Ops(client)),
           NEW kind, kind = kinds[<<cmd.client, cmd.op>>], NEW result \in Outcome, NEW value,
           MayReport(times, starts, cmd.client, cmd.op, kind, result, value, l),
           Answer(n, cmd, result, value)
    PROVE  \E t : Kept(t, kinds, starts, client', history', clock', l, further, q, b, reads)
<1>1. ClientsOK(client, kinds, starts) /\ cmd.client \in Client
  BY DEF Kept, BooksOK, Begun, Ids
<1>2. CASE UNCHANGED <<client, history, clock>>
  BY <1>2
<1>3. CASE /\ client[cmd.client].at = "wait" /\ client[cmd.client].op = cmd.op
           /\ IF Status(result) = 200 THEN Complete(cmd.client, "Ok", value)
              ELSE IF Status(result) = 503 THEN Retry(cmd.client)
              ELSE Complete(cmd.client, "Error", None)
  <2> DEFINE c == cmd.client
  <2>1. c \in Client /\ client[c].at # "rest" /\ client[c].op = cmd.op
    BY <1>1, <1>3
  <2>2. client[c].kind = kind
    BY <1>1, <2>1 DEF ClientsOK
  <2>3. result = "Ok" <=> Status(result) = 200
    BY DEF Status, Outcome
  <2> HIDE DEF c
  <2>4. CASE Complete(c, "Ok", value) /\ result = "Ok"
    <3>1. MayReport(times, starts, c, client[c].op, client[c].kind, "Ok", value, l)
      BY <2>1, <2>2, <2>4 DEF c
    <3> QED
      BY <2>1, <2>4, <3>1, CompleteStep
  <2>5. CASE Retry(c)
    BY <2>1, <2>5, RetryStep
  <2>6. CASE Complete(c, "Error", None)
    <3>1. MayReport(times, starts, c, client[c].op, client[c].kind, "Error", None, l)
      BY DEF MayReport
    <3> QED
      BY <2>1, <2>6, <3>1, CompleteStep
  <2> QED
    BY <1>3, <2>3, <2>4, <2>5, <2>6 DEF c
<1> QED
  BY <1>2, <1>3 DEF Answer

\* A step that records an answer leaves the rest as it is.
LEMMA KeptNext ==
    ASSUME NEW times, NEW kinds, NEW starts,
           Kept(times, kinds, starts, client', history', clock', log', appended', queue', busy', Reads')
    PROVE  KeptInv'
<1>1. TimesOK(times, clock, Len(log))'
  BY DEF Kept, BooksOK, TimesOK
<1>2. StartsOK(kinds, starts, Ops(client), clock)'
  BY DEF Kept, BooksOK, StartsOK, Ops
<1>3. ClientsOK(client, kinds, starts)'
  BY DEF Kept, BooksOK, ClientsOK
<1>4. RecordsOK(history, kinds, starts, Ops(client), Pending(client), clock)'
  BY DEF Kept, BooksOK, RecordsOK, RecordOK, Begun, Ops, Pending, IsFiniteSet, Operation
<1>5. ResultsOK(history, times, log)'
  BY DEF Kept, BooksOK, ResultsOK, Explained, LastWrite
<1>6. LogOK(log, kinds, starts, Ops(client), times)'
  BY DEF Kept, BooksOK, LogOK, Begun, Ops
<1>7. AppendedOK(appended, kinds, Ops(client))'
  BY DEF Kept, ServersOK, AppendedOK, Begun, Ops
<1>8. QueuesOK(queue, kinds, Ops(client))'
  BY DEF Kept, ServersOK, QueuesOK, CommandOK, Begun, Ops
<1>9. LoopsOK(busy, kinds, Ops(client), log)'
  BY DEF Kept, ServersOK, LoopsOK, WorkOK, CommandOK, Begun, Ops
<1>10. ReadsOK(Reads, kinds, starts, Ops(client), times)'
  BY DEF Kept, ServersOK, ReadsOK, Begun, Ops
<1>11. Kept(times, kinds, starts, client, history, clock, log, appended, queue, busy, Reads)'
  BY <1>1, <1>2, <1>3, <1>4, <1>5, <1>6, <1>7, <1>8, <1>9, <1>10 DEF Kept, BooksOK, ServersOK
<1> QED
  BY <1>11, Zenon DEF KeptInv

\* The reads that are to be answered are among those of before.
LEMMA KeptFewer ==
    ASSUME NEW times, NEW kinds, NEW starts, Reads' \subseteq Reads,
           Kept(times, kinds, starts, client', history', clock', log', appended', queue', busy', Reads)
    PROVE  KeptInv'
<1>1. Kept(times, kinds, starts, client', history', clock', log', appended', queue', busy', Reads')
  BY ReadsLeft
<1> QED
  BY <1>1, KeptNext

LEMMA InvokeStep ==
    ASSUME NEW times, NEW kinds, NEW starts,
           Kept(times, kinds, starts, client, history, clock, log, appended, queue, busy, Reads),
           NEW c \in Client, NEW kind \in Kind, Invoke(c, kind)
    PROVE  KeptInv'
<1>1. UNCHANGED <<history, log, appended, queue, busy>> /\ Reads' = Reads /\ clock' = clock + 1
  BY ReadsSame DEF Invoke, serverVars, clusterVars, leaderVars, logVars
<1>2. client' = [client EXCEPT ![c] = [Resting EXCEPT !.at = "send", !.op = client[c].op + 1,
                                                      !.kind = kind, !.invoke = clock + 1]]
      /\ client[c].at = "rest"
  BY <1>1 DEF Invoke
<1>3. PICK t, m, s :
         Kept(t, m, s, client', history, clock + 1, log, appended, queue, busy, Reads)
  BY <1>2, InvokeKeeps
<1> QED
  BY <1>1, <1>3, KeptNext

LEMMA ReachStep ==
    ASSUME NEW times, NEW kinds, NEW starts,
           Kept(times, kinds, starts, client, history, clock, log, appended, queue, busy, Reads),
           NEW c \in Client, Reach(c)
    PROVE  KeptInv'
<1>1. /\ UNCHANGED <<history, clock, log, appended, busy>> /\ Reads' = Reads
      /\ client[c].at = "send"
  BY ReadsSame DEF Reach, clusterVars, leaderVars, logVars
<1>2. /\ ClientsOK(client, kinds, starts) /\ StartsOK(kinds, starts, Ops(client), clock)
      /\ QueuesOK(queue, kinds, Ops(client))
  BY DEF Kept, BooksOK, ServersOK
<1>3. PICK d : d = client'
  OBVIOUS
<1>4. /\ client \in [Client -> ClientState] /\ client[c] \in ClientState
      /\ client[c].op # 0 /\ client[c].kind = kinds[<<c, client[c].op>>]
  BY <1>1, <1>2 DEF ClientsOK
<1>5. /\ d \in [Client -> ClientState] /\ \A a \in Client : a # c => d[a] = client[a]
      /\ d[c].at # "rest" /\ d[c].op = client[c].op /\ d[c].kind = client[c].kind
      /\ d[c].invoke = client[c].invoke
  BY <1>3, <1>4 DEF Reach, ClientState
<1>6. Kept(times, kinds, starts, d, history, clock, log, appended, queue, busy, Reads)
  BY <1>1, <1>5, MoveKeeps
<1>7. PICK cmd : cmd = [client |-> c, op |-> client[c].op, try |-> client[c].retries,
                        kind |-> client[c].kind]
  OBVIOUS
<1>8. cmd \in Command /\ cmd.client = c /\ cmd.op = client[c].op /\ cmd.kind = client[c].kind
  BY <1>4, <1>7 DEF Command, ClientState
<1>9. Ops(d) = Ops(client)
  <2>1. \A a \in Client : d[a].op = client[a].op
    BY <1>5
  <2> QED
    BY <2>1 DEF Ops
<1>10. CommandOK(cmd, kinds, Ops(d))
  <2>1. Begun(<<c, client[c].op>>, Ops(client))
    <3>1. Ops(client)[c] = client[c].op /\ client[c].op \in Nat
      BY <1>4 DEF Ops, ClientState
    <3> QED
      BY <1>4, <3>1 DEF Begun, Ids
  <2> QED
    BY <1>4, <1>8, <1>9, <2>1 DEF CommandOK
<1>11. queue' = [queue EXCEPT ![Target(c)] = Append(@, cmd)]
  BY <1>7 DEF Reach
<1>12. QueuesOK(queue', kinds, Ops(d))
  BY <1>2, <1>8, <1>9, <1>10, <1>11, PutInQueue
<1>13. Kept(times, kinds, starts, d, history, clock, log, appended, queue', busy, Reads)
  BY <1>6, <1>12 DEF Kept, ServersOK
<1> QED
  BY <1>1, <1>3, <1>13, KeptNext

LEMMA SendAgainStep ==
    ASSUME NEW times, NEW kinds, NEW starts,
           Kept(times, kinds, starts, client, history, clock, log, appended, queue, busy, Reads),
           NEW c \in Client, Refused(c) \/ Broken(c)
    PROVE  KeptInv'
<1>1. /\ UNCHANGED <<log, appended, queue, busy>> /\ Reads' = Reads
      /\ client[c].at # "rest" /\ Retry(c)
  BY ReadsSame DEF Refused, Broken, serverVars, clusterVars, leaderVars, logVars
<1>2. PICK t : Kept(t, kinds, starts, client', history', clock', log, appended, queue, busy, Reads)
  BY <1>1, RetryStep
<1> QED
  BY <1>1, <1>2, KeptNext

LEMMA TimeOutStep ==
    ASSUME ClusterInv, NEW times, NEW kinds, NEW starts,
           Kept(times, kinds, starts, client, history, clock, log, appended, queue, busy, Reads),
           NEW c \in Client, TimeOut(c)
    PROVE  KeptInv'
<1>1. /\ UNCHANGED <<log, appended, queue, busy, term, state>> /\ client[c].at # "rest"
      /\ Complete(c, "Error", None) /\ gets' \subseteq gets
  BY DEF TimeOut, clusterVars, leaderVars, logVars
<1>2. MayReport(times, starts, c, client[c].op, client[c].kind, "Error", None, log)
  BY DEF MayReport
<1>3. PICK t : Kept(t, kinds, starts, client', history', clock', log, appended, queue, busy, Reads)
  BY <1>1, <1>2, CompleteStep
<1>4. Reads' \subseteq Reads
  BY <1>1, ReadsRest
<1> QED
  BY <1>1, <1>3, <1>4, KeptFewer

\* The next command is taken out of the channel.
LEMMA NextCommandStep ==
    ASSUME NEW times, NEW kinds, NEW starts,
           Kept(times, kinds, starts, client, history, clock, log, appended, queue, busy, Reads),
           NEW n \in Node, NextCommand(n)
    PROVE  /\ Head(queue[n]) \in Command /\ CommandOK(Head(queue[n]), kinds, Ops(client))
           /\ Kept(times, kinds, starts, client, history, clock, log, appended, queue', busy, Reads)
<1>1. queue' = [queue EXCEPT ![n] = Tail(@)] /\ queue[n] # <<>>
  BY DEF NextCommand
<1>2. QueuesOK(queue, kinds, Ops(client))
  BY DEF Kept, ServersOK
<1>3. /\ Head(queue[n]) \in Command /\ CommandOK(Head(queue[n]), kinds, Ops(client))
      /\ QueuesOK(queue', kinds, Ops(client))
  BY <1>1, <1>2, TakenFromQueue
<1> QED
  BY <1>3 DEF Kept, ServersOK

\* A command is answered with an error as soon as it is taken.
LEMMA ErrorStep ==
    ASSUME NEW times, NEW kinds, NEW starts,
           Kept(times, kinds, starts, client, history, clock, log, appended, queue, busy, Reads),
           NEW n \in Node, NextCommand(n), UNCHANGED <<appended, busy>>,
           NEW result \in {"NotLeader", "InvalidCommand"},
           Answer(n, Head(queue[n]), result, None)
    PROVE  KeptInv'
<1>1. PICK cmd : cmd = Head(queue[n])
  OBVIOUS
<1>2. /\ CommandOK(cmd, kinds, Ops(client))
      /\ Kept(times, kinds, starts, client, history, clock, log, appended, queue', busy, Reads)
  BY <1>1, NextCommandStep
<1>3. result \in Outcome /\ MayReport(times, starts, cmd.client, cmd.op, cmd.kind, result, None, log)
  BY DEF MayReport, Outcome
<1>4. PICK t : Kept(t, kinds, starts, client', history', clock', log, appended, queue', busy, Reads)
  BY <1>1, <1>2, <1>3, AnswerStep DEF CommandOK
<1>5. log' = log /\ Reads' = Reads
  BY ReadsSame DEF NextCommand, leaderVars
<1> QED
  BY <1>4, <1>5, KeptNext

LEMMA RefuseStep ==
    ASSUME NEW times, NEW kinds, NEW starts,
           Kept(times, kinds, starts, client, history, clock, log, appended, queue, busy, Reads),
           NEW n \in Node, Refuse(n)
    PROVE  KeptInv'
BY ErrorStep DEF Refuse

LEMMA TakeSubmitStep ==
    ASSUME ClusterInv, NEW times, NEW kinds, NEW starts,
           Kept(times, kinds, starts, client, history, clock, log, appended, queue, busy, Reads),
           NEW n \in Node, TakeSubmit(n)
    PROVE  KeptInv'
<1>1. PICK cmd : cmd = Head(queue[n])
  OBVIOUS
<1>2. /\ cmd \in Command /\ CommandOK(cmd, kinds, Ops(client))
      /\ Kept(times, kinds, starts, client, history, clock, log, appended, queue', busy, Reads)
      /\ NextCommand(n) /\ cmd.kind = "Write"
  BY <1>1, NextCommandStep DEF TakeSubmit
<1>3. CASE Answer(n, cmd, "InvalidCommand", None) /\ UNCHANGED <<appended, busy>>
  BY <1>1, <1>2, <1>3, ErrorStep
<1>4. CASE /\ appended' = Append(appended, EntryOf(cmd, term[n]))
           /\ busy' = [busy EXCEPT ![n] = WorkOn(cmd, "append", 0, {})]
           /\ UNCHANGED <<client, history, clock>>
  <2>1. /\ StartsOK(kinds, starts, Ops(client), clock) /\ clock \in Nat
        /\ AppendedOK(appended, kinds, Ops(client)) /\ LoopsOK(busy, kinds, Ops(client), log)
    BY DEF Kept, BooksOK, ServersOK, TimesOK
  <2>2. cmd.op # 0
    <3>1. PICK id : id = <<cmd.client, cmd.op>>
      OBVIOUS
    <3>2. Begun(id, Ops(client)) /\ id[2] = cmd.op
      BY <1>2, <3>1 DEF CommandOK
    <3> QED
      BY <2>1, <3>2, BegunBefore
  <2>3. PICK w : w = WorkOn(cmd, "append", 0, {})
    OBVIOUS
  <2>4. /\ w \in Waiting /\ w.client = cmd.client /\ w.op = cmd.op /\ w.kind = cmd.kind
        /\ w.index = 0 /\ w.stage = "append"
    BY <1>2, <2>2, <2>3 DEF WorkOn, Waiting, Command
  <2>5. WorkOK(w, kinds, Ops(client), log)
    BY <1>2, <2>4 DEF WorkOK, CommandOK
  <2>6. Kept(times, kinds, starts, client, history, clock, log, appended, queue',
             [busy EXCEPT ![n] = w], Reads)
    BY <1>2, <2>4, <2>5, TurnKeeps
  <2>7. PICK e : e = EntryOf(cmd, term[n])
    OBVIOUS
  <2>8. term[n] \in Nat
    BY DEF ClusterInv, ClusterTypes
  <2>9. e \in Proposal /\ e.client = cmd.client /\ e.op = cmd.op
    BY <1>2, <2>7, <2>8 DEF EntryOf, Proposal, Command
  <2>10. AppendedOK(Append(appended, e), kinds, Ops(client))
    BY <1>2, <2>1, <2>9, AppendKeeps DEF CommandOK
  <2>11. Kept(times, kinds, starts, client, history, clock, log, Append(appended, e), queue',
              [busy EXCEPT ![n] = w], Reads)
    BY <2>6, <2>10, Zenon DEF Kept, ServersOK
  <2>12. UNCHANGED <<log, term, state, gets>> /\ busy' = [busy EXCEPT ![n] = w]
    BY <1>2, <1>4, <2>3 DEF NextCommand, leaderVars
  <2>13. Reads' \subseteq Reads
    BY <2>1, <2>4, <2>12, ReadsLess DEF LoopsOK
  <2> QED
    BY <1>4, <2>7, <2>11, <2>12, <2>13, KeptFewer
<1> QED
  BY <1>1, <1>3, <1>4, Zenon DEF TakeSubmit

\* A read that a settled leader takes sees all that is committed by then, or its
\* leader cannot confirm it any more.
LEMMA TakeReadStep ==
    ASSUME ClusterInv, ReadsSettled', NEW times, NEW kinds, NEW starts,
           Kept(times, kinds, starts, client, history, clock, log, appended, queue, busy, Reads),
           NEW n \in Node, TakeRead(n)
    PROVE  KeptInv'
<1>1. PICK cmd : cmd = Head(queue[n])
  OBVIOUS
<1>2. /\ cmd \in Command /\ CommandOK(cmd, kinds, Ops(client))
      /\ Kept(times, kinds, starts, client, history, clock, log, appended, queue', busy, Reads)
      /\ NextCommand(n) /\ cmd.kind = "Read" /\ state[n] = "Leader"
      /\ UNCHANGED <<appended, client, history, clock, log, term, state, settled, known, gets>>
  BY <1>1, NextCommandStep DEF TakeRead, NextCommand, leaderVars
<1>3. PICK index \in ReadIndexes(n) :
         busy' = [busy EXCEPT ![n] = WorkOn(cmd, "confirm", index, {n})]
  BY <1>1 DEF TakeRead
<1>4. PICK w : w = WorkOn(cmd, "confirm", index, {n})
  OBVIOUS
<1>5. /\ TimesOK(times, clock, Len(log)) /\ StartsOK(kinds, starts, Ops(client), clock)
      /\ LoopsOK(busy, kinds, Ops(client), log)
      /\ ReadsOK(Reads, kinds, starts, Ops(client), times)
  BY DEF Kept, BooksOK, ServersOK
<1>6. /\ w.client = cmd.client /\ w.op = cmd.op /\ w.kind = "Read" /\ w.try = cmd.try
      /\ w.index = index /\ w.stage = "confirm" /\ w.acks = {n}
  BY <1>2, <1>4 DEF WorkOn
<1>7. busy'[n] = w /\ \A m \in Node : m # n => busy'[m] = busy[m]
  BY <1>3, <1>4, <1>5 DEF LoopsOK
<1>8. PICK id : id = <<cmd.client, cmd.op>>
  OBVIOUS
<1>9. Begun(id, Ops(client)) /\ kinds[id] = "Read" /\ id[2] = cmd.op
  BY <1>2, <1>8 DEF CommandOK
<1>10. /\ id[2] # 0 /\ starts[id] \in Nat /\ starts[id] <= clock /\ clock \in Nat
       /\ Len(log) \in Nat
  BY <1>5, <1>9, BegunBefore DEF TimesOK
<1>11. times[starts[id]] <= Len(log)
  BY <1>5, <1>10 DEF TimesOK
<1>12. n \in settled
  BY <1>2, <1>6, <1>7, <1>9, <1>10 DEF ReadsSettled, Works
<1>13. index = known[n] /\ index \in Nat
  BY <1>3, <1>12 DEF ReadIndexes, ClusterInv, ClusterTypes
<1>14. w \in Waiting /\ WorkOK(w, kinds, Ops(client), log)
  <2>1. CommandOK(w, kinds, Ops(client))
    BY <1>2, <1>6 DEF CommandOK
  <2>2. w \in Waiting
    BY <1>2, <1>4, <1>9, <1>10, <1>13 DEF WorkOn, Waiting, Command
  <2> QED
    BY <1>6, <2>1, <2>2 DEF WorkOK
<1>15. Kept(times, kinds, starts, client, history, clock, log, appended, queue', busy', Reads)
  BY <1>2, <1>3, <1>4, <1>14, TurnKeeps
<1> DEFINE added == IF index = Len(log) THEN {ReadOf(w)} ELSE {}
<1>16. ASSUME index # Len(log) PROVE Superseded(n, busy[n].acks)'
  <2>1. PICK Q \in Majorities : \A q \in Q : term[q] > term[n]
    BY <1>12, <1>13, <1>16 DEF ClusterInv, SettledKnow, Superseded
  <2>2. term[n] \in Nat /\ n \notin Q
    BY <2>1 DEF ClusterInv, ClusterTypes
  <2>3. \A q \in Q : term'[q] > term'[n] /\ q \notin busy'[n].acks
    BY <1>2, <1>6, <1>7, <2>1, <2>2
  <2> QED
    BY <2>1, <2>3 DEF Superseded
<1>17. Reads' \subseteq Reads \cup added
  <2>1. \A m \in Node : Confirms(m)' /\ ~Superseded(m, busy[m].acks)' =>
           \/ ReadOf(busy'[m]) \in added
           \/ /\ Confirms(m) /\ term'[m] = term[m] /\ ReadOf(busy'[m]) = ReadOf(busy[m])
              /\ \A p \in busy'[m].acks : p \in busy[m].acks \/ term[p] <= term[m]
    <3>1. ASSUME NEW m \in Node, Confirms(m)', m # n
          PROVE  /\ Confirms(m) /\ term'[m] = term[m] /\ ReadOf(busy'[m]) = ReadOf(busy[m])
                 /\ \A p \in busy'[m].acks : p \in busy[m].acks \/ term[p] <= term[m]
      BY <1>2, <1>7, <3>1 DEF Confirms, Works
    <3> QED
      BY <1>7, <1>16, <3>1
  <2>2. term \in [Node -> Nat] /\ term' \in [Node -> Nat] /\ \A q \in Node : term'[q] >= term[q]
    BY <1>2 DEF ClusterInv, ClusterTypes
  <2> HIDE DEF added
  <2> QED
    BY <1>2, <2>1, <2>2, ReadsStay
<1>18. ReadsOK(added, kinds, starts, Ops(client), times)
  <2>1. ASSUME NEW p \in added
        PROVE  p.client = cmd.client /\ p.op = cmd.op /\ p.index = Len(log)
    BY <1>6 DEF ReadOf
  <2> HIDE DEF added
  <2> QED
    BY <1>8, <1>9, <1>10, <1>11, <2>1 DEF ReadsOK
<1>19. ReadsOK(Reads', kinds, starts, Ops(client), times)
  BY <1>5, <1>17, <1>18 DEF ReadsOK
<1>20. Kept(times, kinds, starts, client, history, clock, log, appended, queue', busy', Reads')
  BY <1>15, <1>19, Zenon DEF Kept, ServersOK
<1> QED
  BY <1>2, <1>20, KeptNext

LEMMA ReplicateStep ==
    ASSUME ClusterInv, NEW times, NEW kinds, NEW starts,
           Kept(times, kinds, starts, client, history, clock, log, appended, queue, busy, Reads),
           NEW n \in Node, Replicate(n)
    PROVE  KeptInv'
<1>1. /\ UNCHANGED <<log, appended, queue, gets, client, history, clock, term, state>>
      /\ busy[n].op # 0 /\ busy' = [busy EXCEPT ![n].stage = "replicate"]
  BY DEF Replicate, Works, clusterVars, leaderVars, logVars
<1>2. LoopsOK(busy, kinds, Ops(client), log)
  BY DEF Kept, ServersOK
<1>3. busy[n] \in Waiting /\ WorkOK(busy[n], kinds, Ops(client), log)
  BY <1>1, <1>2 DEF LoopsOK, NoCommand
<1>4. PICK w : w = [busy[n] EXCEPT !.stage = "replicate"]
  OBVIOUS
<1>5. /\ w \in Waiting /\ w.client = busy[n].client /\ w.op = busy[n].op
      /\ w.kind = busy[n].kind /\ w.index = busy[n].index /\ w.stage = "replicate"
  BY <1>3, <1>4 DEF Waiting
<1>6. WorkOK(w, kinds, Ops(client), log)
  BY <1>3, <1>5 DEF WorkOK, CommandOK
<1>7. busy' = [busy EXCEPT ![n] = w]
  BY <1>1, <1>4
<1>8. Kept(times, kinds, starts, client, history, clock, log, appended, queue, busy', Reads)
  BY <1>5, <1>6, <1>7, TurnKeeps
<1>9. Reads' \subseteq Reads
  BY <1>1, <1>2, <1>5, <1>7, ReadsLess DEF LoopsOK
<1> QED
  BY <1>1, <1>8, <1>9, KeptFewer

LEMMA CommitStep ==
    ASSUME ClusterInv, NEW times, NEW kinds, NEW starts,
           Kept(times, kinds, starts, client, history, clock, log, appended, queue, busy, Reads),
           NEW n \in Node, NEW Q \in Quorums(n), Commit(n, Q)
    PROVE  KeptInv'
<1>1. UNCHANGED <<queue, gets, client, history, clock>>
  BY DEF Commit
<1>2. LeadersMove
  BY CommitMoves DEF ClusterInv
<1>3. CASE UNCHANGED <<log, appended, busy>>
  <2>1. Reads' \subseteq Reads
    BY <1>1, <1>2, <1>3, MovesRest
  <2> QED
    BY <1>1, <1>3, <2>1, KeptFewer
<1>4. CASE \E j \in DOMAIN appended :
              /\ log' = Append(log, LogEntry(appended[j]))
              /\ appended' = RemoveAt(appended, j)
              /\ busy' = IF IsOwn(n, appended[j]) THEN [busy EXCEPT ![n].index = Len(log')]
                         ELSE busy
  <2>1. AppendedOK(appended, kinds, Ops(client)) /\ LoopsOK(busy, kinds, Ops(client), log)
    BY DEF Kept, ServersOK
  <2>2. PICK j \in 1 .. Len(appended) :
              /\ log' = Append(log, LogEntry(appended[j]))
              /\ appended' = RemoveAt(appended, j)
              /\ busy' = IF IsOwn(n, appended[j]) THEN [busy EXCEPT ![n].index = Len(log')]
                         ELSE busy
    BY <1>4, <2>1 DEF AppendedOK
  <2>3. \/ busy' = busy
        \/ /\ busy[n].op # 0 /\ busy[n].kind = "Write" /\ busy[n].client = appended[j].client
           /\ busy[n].op = appended[j].op /\ busy' = [busy EXCEPT ![n].index = Len(log')]
    BY <2>2 DEF IsOwn, Works
  <2>4. Kept(times, kinds, starts, client, history, clock, log', appended', queue, busy', Reads)
    BY <2>2, <2>3, CommitKeeps
  <2>5. ASSUME NEW m \in Node, Confirms(m)'
        PROVE  busy'[m] = busy[m]
    <3>1. CASE busy' = busy
      BY <3>1
    <3>2. CASE busy' # busy
      <4>1. busy'[n].kind = "Write" /\ \A a \in Node : a # n => busy'[a] = busy[a]
        <5>1. busy[n] \in Waiting
          BY <2>1, <2>3, <3>2 DEF LoopsOK, NoCommand
        <5> QED
          BY <2>1, <2>3, <3>2, <5>1 DEF LoopsOK, Waiting
      <4>2. m # n
        BY <2>5, <4>1 DEF Confirms, Works
      <4> QED
        BY <4>1, <4>2
    <3> QED
      BY <3>1, <3>2
  <2>6. Reads' \subseteq Reads
    BY <1>1, <1>2, <2>5, MovesRest
  <2> QED
    BY <1>1, <2>4, <2>6, KeptFewer
<1> QED
  BY <1>3, <1>4, Zenon DEF Commit

LEMMA FinishSubmitStep ==
    ASSUME ClusterInv, NEW times, NEW kinds, NEW starts,
           Kept(times, kinds, starts, client, history, clock, log, appended, queue, busy, Reads),
           NEW n \in Node, FinishSubmit(n)
    PROVE  KeptInv'
<1>1. /\ UNCHANGED <<log, appended, queue, gets, term, state>>
      /\ busy' = [busy EXCEPT ![n] = NoCommand]
      /\ busy[n].op # 0 /\ busy[n].kind = "Write"
  BY DEF FinishSubmit, Works, clusterVars, leaderVars, logVars
<1>2. LoopsOK(busy, kinds, Ops(client), log) /\ Len(log) \in Nat
  BY DEF Kept, BooksOK, ServersOK, TimesOK
<1>3. PICK w : w = busy[n]
  OBVIOUS
<1>4. /\ WorkOK(w, kinds, Ops(client), log) /\ w.op # 0 /\ w.kind = "Write"
      /\ w \in Waiting
  BY <1>1, <1>2, <1>3 DEF LoopsOK, NoCommand
<1>5. CommandOK(w, kinds, Ops(client))
  BY <1>4 DEF WorkOK
<1>6. PICK result \in {"Ok", "NotCommitted"} :
         Answer(n, w, result, None) /\ (result = "Ok" => w.index # 0)
  BY <1>3 DEF FinishSubmit
<1>7. result \in Outcome
  BY <1>6 DEF Outcome
<1>8. MayReport(times, starts, w.client, w.op, w.kind, result, None, log)
  <2>1. ASSUME result = "Ok"
        PROVE  \E j \in 1 .. Len(log) : log[j].client = w.client /\ log[j].op = w.op
    <3>1. /\ w.index # 0 /\ w.index \in Nat /\ w.index <= Len(log)
          /\ log[w.index].client = w.client /\ log[w.index].op = w.op
      BY <1>4, <1>6, <2>1 DEF WorkOK, Waiting
    <3>2. w.index \in 1 .. Len(log)
      BY <1>2, <3>1
    <3> QED
      BY <3>1, <3>2
  <2> QED
    BY <1>4, <2>1 DEF MayReport
<1>9. PICK t : Kept(t, kinds, starts, client', history', clock', log, appended, queue, busy, Reads)
  BY <1>5, <1>6, <1>7, <1>8, AnswerStep DEF CommandOK
<1>10. Kept(t, kinds, starts, client', history', clock', log, appended, queue, busy', Reads)
  BY <1>1, <1>9, RestKeeps
<1>11. Reads' \subseteq Reads
  BY <1>1, <1>2, ReadsLess DEF LoopsOK, NoCommand
<1> QED
  BY <1>1, <1>10, <1>11, KeptFewer

\* A majority that confirms a read leaves no majority that has heard of a later term.
LEMMA FinishReadIndexStep ==
    ASSUME ClusterInv, NEW times, NEW kinds, NEW starts,
           Kept(times, kinds, starts, client, history, clock, log, appended, queue, busy, Reads),
           NEW n \in Node, FinishReadIndex(n)
    PROVE  KeptInv'
<1>1. /\ UNCHANGED <<log, appended, queue, client, history, clock, term, state>>
      /\ busy' = [busy EXCEPT ![n] = NoCommand] /\ Confirms(n)
      /\ gets' = gets \cup {[client |-> busy[n].client, op |-> busy[n].op, node |-> n,
                             index |-> busy[n].index]}
  BY DEF FinishReadIndex, IsConfirmed, Confirms, clusterVars, leaderVars, logVars
<1>2. LoopsOK(busy, kinds, Ops(client), log)
  BY DEF Kept, ServersOK
<1>3. busy[n] \in Waiting
  BY <1>1, <1>2 DEF LoopsOK, NoCommand, Confirms, Works
<1>4. ~Superseded(n, busy[n].acks)
  <2> SUFFICES ASSUME NEW Q \in Majorities, \A q \in Q : q \notin busy[n].acks PROVE FALSE
    BY DEF Superseded
  <2>1. /\ busy[n].acks \subseteq Node /\ Cardinality(busy[n].acks) >= Majority
        /\ Q \subseteq Node /\ Cardinality(Q) >= Majority
    BY <1>3 DEF FinishReadIndex, IsConfirmed, Waiting, Majorities
  <2>2. \E q \in Q : q \in busy[n].acks
    BY <2>1, WorkloadAssumption, MajoritiesMeet DEF Majority
  <2> QED
    BY <2>2
<1>5. ReadOf(busy[n]) \in Reads
  BY <1>1, <1>4 DEF Reads, Confirming
<1>6. Kept(times, kinds, starts, client, history, clock, log, appended, queue, busy', Reads)
  BY <1>1, RestKeeps
<1>7. Reads' \subseteq Reads
  <2>1. \A g \in gets' : g \in gets \/ ReadOf(g) \in Reads \cup {}
    BY <1>1, <1>5 DEF ReadOf
  <2>2. \A m \in Node : Confirms(m)' =>
           /\ Confirms(m) /\ term'[m] = term[m] /\ ReadOf(busy'[m]) = ReadOf(busy[m])
           /\ \A p \in busy'[m].acks : p \in busy[m].acks \/ term[p] <= term[m]
    <3>1. busy'[n].op = 0 /\ \A m \in Node : m # n => busy'[m] = busy[m]
      BY <1>1, <1>2 DEF LoopsOK, NoCommand
    <3> QED
      BY <1>1, <3>1 DEF Confirms, Works
  <2>3. term \in [Node -> Nat] /\ term' \in [Node -> Nat] /\ \A q \in Node : term'[q] >= term[q]
    BY <1>1 DEF ClusterInv, ClusterTypes
  <2>4. Reads' \subseteq Reads \cup {}
    BY <2>1, <2>2, <2>3, ReadsStay
  <2> QED
    BY <2>4
<1> QED
  BY <1>1, <1>6, <1>7, KeptFewer

LEMMA RefuseReadStep ==
    ASSUME ClusterInv, NEW times, NEW kinds, NEW starts,
           Kept(times, kinds, starts, client, history, clock, log, appended, queue, busy, Reads),
           NEW n \in Node, RefuseRead(n)
    PROVE  KeptInv'
<1>1. /\ UNCHANGED <<log, appended, queue, gets, term, state>>
      /\ busy' = [busy EXCEPT ![n] = NoCommand] /\ busy[n].op # 0
  BY DEF RefuseRead, Works, clusterVars, leaderVars, logVars
<1>2. LoopsOK(busy, kinds, Ops(client), log)
  BY DEF Kept, ServersOK
<1>3. CommandOK(busy[n], kinds, Ops(client))
  BY <1>1, <1>2 DEF LoopsOK, WorkOK
<1>4. PICK result \in {"NotLeader", "ReadTimeout"} : Answer(n, busy[n], result, None)
  BY DEF RefuseRead
<1>5. /\ MayReport(times, starts, busy[n].client, busy[n].op, busy[n].kind, result, None, log)
      /\ result \in Outcome
  BY <1>4 DEF MayReport, Outcome
<1>6. PICK t : Kept(t, kinds, starts, client', history', clock', log, appended, queue, busy, Reads)
  BY <1>3, <1>4, <1>5, AnswerStep DEF CommandOK
<1>7. Kept(t, kinds, starts, client', history', clock', log, appended, queue, busy', Reads)
  BY <1>1, <1>6, RestKeeps
<1>8. Reads' \subseteq Reads
  BY <1>1, <1>2, ReadsLess DEF LoopsOK, NoCommand
<1> QED
  BY <1>1, <1>7, <1>8, KeptFewer

LEMMA KvGetStep ==
    ASSUME ClusterInv, NEW times, NEW kinds, NEW starts,
           Kept(times, kinds, starts, client, history, clock, log, appended, queue, busy, Reads),
           NEW g \in gets, KvGet(g)
    PROVE  KeptInv'
<1>1. UNCHANGED <<log, appended, queue, busy, term, state>> /\ gets' \subseteq gets
  BY DEF KvGet, clusterVars, leaderVars, logVars
<1>2. /\ LogOK(log, kinds, starts, Ops(client), times) /\ TimesOK(times, clock, Len(log))
      /\ StartsOK(kinds, starts, Ops(client), clock)
      /\ ReadsOK(Reads, kinds, starts, Ops(client), times)
  BY DEF Kept, BooksOK, ServersOK
<1>3. PICK id : id = <<g.client, g.op>>
  OBVIOUS
<1>4. Begun(id, Ops(client)) /\ kinds[id] = "Read" /\ g.index \in Nat /\ times[starts[id]] <= g.index
  <2>1. PICK p \in Reads : p = ReadOf(g)
    BY DEF Reads
  <2>2. p.client = g.client /\ p.op = g.op /\ p.index = g.index
    BY <2>1 DEF ReadOf
  <2> QED
    BY <1>2, <1>3, <2>2 DEF ReadsOK
<1>5. PICK k \in g.index .. Len(log) : Answer(g.node, g, "Ok", Get(StoreAt(k), Key, None))
  BY DEF KvGet
<1>6. PICK value : value = Get(StoreAt(k), Key, None)
  OBVIOUS
<1>7. log \in Seq(Entry) /\ Len(log) \in Nat /\ k \in 0 .. Len(log) /\ clock \in Nat
  <2>1. log \in Seq(Entry) /\ Len(log) \in Nat /\ clock \in Nat
    BY <1>2 DEF LogOK, TimesOK
  <2> QED
    BY <1>4, <2>1
<1>8. value = LastWrite(log, k)
  BY <1>6, <1>7, StoreShows
<1>9. times[starts[id]] \in Nat
  BY <1>2, <1>4, <1>7, BegunBefore DEF TimesOK
<1>10. k \in times[starts[id]] .. Len(log)
  BY <1>4, <1>7, <1>9
<1>11. MayReport(times, starts, g.client, g.op, "Read", "Ok", value, log)
  BY <1>3, <1>8, <1>10 DEF MayReport
<1>12. "Ok" \in Outcome /\ Answer(g.node, g, "Ok", value)
  BY <1>5, <1>6 DEF Outcome
<1>13. PICK t : Kept(t, kinds, starts, client', history', clock', log, appended, queue, busy, Reads)
  BY <1>3, <1>4, <1>11, <1>12, AnswerStep
<1>14. Reads' \subseteq Reads
  BY <1>1, ReadsRest
<1> QED
  BY <1>1, <1>13, <1>14, KeptFewer

\* A peer that answers a leader has not heard of a later term.
LEMMA ConfirmedByStep ==
    ASSUME ClusterInv, NEW times, NEW kinds, NEW starts,
           Kept(times, kinds, starts, client, history, clock, log, appended, queue, busy, Reads),
           NEW n \in Node, NEW p \in Node, ConfirmedBy(n, p)
    PROVE  KeptInv'
<1>1. /\ UNCHANGED <<log, appended, queue, gets, client, history, clock>>
      /\ busy' = [busy EXCEPT ![n].acks = @ \cup {p}] /\ term[p] <= term[n]
      /\ busy[n].op # 0 /\ busy[n].kind = "Read"
  BY DEF ConfirmedBy, Works, Accepts, logVars
<1>2. LoopsOK(busy, kinds, Ops(client), log)
  BY DEF Kept, ServersOK
<1>3. busy[n] \in Waiting /\ WorkOK(busy[n], kinds, Ops(client), log)
  BY <1>1, <1>2 DEF LoopsOK, NoCommand
<1>4. PICK w : w = [busy[n] EXCEPT !.acks = @ \cup {p}]
  OBVIOUS
<1>5. /\ w \in Waiting /\ w.client = busy[n].client /\ w.op = busy[n].op /\ w.kind = busy[n].kind
      /\ w.index = busy[n].index /\ w.stage = busy[n].stage /\ w.acks = busy[n].acks \cup {p}
  BY <1>3, <1>4 DEF Waiting
<1>6. WorkOK(w, kinds, Ops(client), log)
  BY <1>3, <1>5 DEF WorkOK, CommandOK
<1>7. /\ busy' = [busy EXCEPT ![n] = w] /\ busy'[n] = w
      /\ \A m \in Node : m # n => busy'[m] = busy[m]
  BY <1>1, <1>2, <1>4 DEF LoopsOK
<1>8. Kept(times, kinds, starts, client, history, clock, log, appended, queue, busy', Reads)
  BY <1>5, <1>6, <1>7, TurnKeeps
<1>9. LeadersMove
  BY ConfirmedByMoves DEF ClusterInv
<1>10. ASSUME NEW m \in Node, Confirms(m)'
       PROVE  /\ Confirms(m) /\ term'[m] = term[m] /\ ReadOf(busy'[m]) = ReadOf(busy[m])
              /\ \A q \in busy'[m].acks : q \in busy[m].acks \/ term[q] <= term[m]
  <2>1. state[m] = "Leader" /\ term'[m] = term[m]
    BY <1>9, <1>10 DEF LeadersMove, Confirms
  <2>2. CASE m = n
    BY <1>1, <1>5, <1>7, <1>10, <2>1, <2>2 DEF Confirms, Works, ReadOf
  <2>3. CASE m # n
    BY <1>7, <1>10, <2>1, <2>3 DEF Confirms, Works
  <2> QED
    BY <2>2, <2>3
<1>11. Reads' \subseteq Reads \cup {}
  <2>1. /\ term \in [Node -> Nat] /\ term' \in [Node -> Nat]
        /\ \A q \in Node : term'[q] >= term[q]
    BY <1>9 DEF LeadersMove, TermsGrow, ClusterInv, ClusterTypes
  <2> QED
    BY <1>1, <1>10, <2>1, ReadsStay
<1> QED
  BY <1>1, <1>8, <1>11, KeptFewer

\* Elections, and servers that hear of them.
LEMMA LeaderStep ==
    ASSUME ClusterInv, NEW times, NEW kinds, NEW starts,
           Kept(times, kinds, starts, client, history, clock, log, appended, queue, busy, Reads),
           UNCHANGED <<log, appended, queue, busy, gets, client, history, clock>>,
           NEW n, LeadersMove \/ (Elected(n) /\ busy[n] = NoCommand)
    PROVE  KeptInv'
<1>1. CASE LeadersMove
  <2>1. Reads' \subseteq Reads
    BY <1>1, MovesRest
  <2> QED
    BY <2>1, KeptFewer
<1>2. CASE Elected(n) /\ busy[n] = NoCommand
  <2>1. ASSUME NEW m \in Node, Confirms(m)'
        PROVE  /\ Confirms(m) /\ term'[m] = term[m] /\ ReadOf(busy'[m]) = ReadOf(busy[m])
               /\ \A q \in busy'[m].acks : q \in busy[m].acks \/ term[q] <= term[m]
    <3>1. m # n
      BY <1>2, <2>1 DEF Confirms, Works, NoCommand
    <3> QED
      BY <1>2, <2>1, <3>1 DEF Confirms, Works, Elected
  <2>2. term \in [Node -> Nat] /\ term' \in [Node -> Nat] /\ \A q \in Node : term'[q] >= term[q]
    BY <1>2 DEF Elected, TermsGrow, ClusterInv, ClusterTypes
  <2>3. Reads' \subseteq Reads \cup {}
    BY <2>1, <2>2, ReadsStay
  <2> QED
    BY <2>3, KeptFewer
<1> QED
  BY <1>1, <1>2

LEMMA KillStep ==
    ASSUME ClusterInv, NEW times, NEW kinds, NEW starts,
           Kept(times, kinds, starts, client, history, clock, log, appended, queue, busy, Reads),
           NEW n, Kill(n)
    PROVE  KeptInv'
<1>1. /\ UNCHANGED <<log, appended, client, history, clock, term>> /\ gets' \subseteq gets
      /\ queue' = [queue EXCEPT ![n] = <<>>] /\ busy' = [busy EXCEPT ![n] = NoCommand]
      /\ state' = [state EXCEPT ![n] = "Follower"]
  BY DEF Kill, logVars
<1>2. /\ queue = [a \in Node |-> queue[a]] /\ busy = [a \in Node |-> busy[a]]
      /\ state = [a \in Node |-> state[a]]
  BY DEF Kept, ServersOK, QueuesOK, LoopsOK, ClusterInv, ClusterTypes
<1>3. LeadersMove
  BY KillMoves DEF ClusterInv
<1>4. Reads' \subseteq Reads
  <2>1. \A m \in Node : Confirms(m)' => busy'[m] = busy[m]
    BY <1>1, <1>2 DEF Confirms, Works, NoCommand
  <2> QED
    BY <1>1, <1>3, <2>1, MovesRest
<1>5. CASE n \in Node
  <2>1. Kept(times, kinds, starts, client, history, clock, log, appended,
             [queue EXCEPT ![n] = <<>>], [busy EXCEPT ![n] = NoCommand], Reads)
    BY <1>5, KillKeeps
  <2> QED
    BY <1>1, <1>4, <2>1, KeptFewer
<1>6. CASE n \notin Node
  <2>1. queue' = queue /\ busy' = busy
    BY <1>1, <1>2, <1>6
  <2> QED
    BY <1>1, <1>4, <2>1, KeptFewer
<1> QED
  BY <1>5, <1>6

\* The invariant: it holds at the start, and every step keeps it.
LEMMA ClusterInitially ==
    Init => ClusterInv
<1> SUFFICES ASSUME Init PROVE ClusterInv
  OBVIOUS
<1>1. /\ term = [n \in Node |-> 1] /\ known = [n \in Node |-> 0] /\ settled = {}
      /\ state = [n \in Node |-> IF n = Targets[1] THEN "Leader" ELSE "Follower"]
      /\ busy = [n \in Node |-> NoCommand]
  BY DEF Init
<1>2. ClusterTypes
  BY <1>1 DEF ClusterTypes
<1>3. Node \in Majorities
  <2>1. Targets[1] \in Node
    BY WorkloadAssumption
  <2>2. Cardinality(Node) \in Nat /\ Cardinality(Node) # 0
    BY <2>1, WorkloadAssumption, FS_CardinalityType, FS_EmptySet
  <2> QED
    BY <2>2 DEF Majorities, Majority
<1>4. LeadersBacked
  BY <1>1, <1>3 DEF LeadersBacked, Backed
<1>5. OneLeader
  BY <1>1 DEF OneLeader
<1> QED
  BY <1>1, <1>2, <1>4, <1>5 DEF ClusterInv, SettledKnow

LEMMA ClusterAlways ==
    KeptInv /\ ClusterInv /\ [Next]_vars /\ KeptInv' => ClusterInv'
<1> SUFFICES ASSUME KeptInv, ClusterInv, [Next]_vars, KeptInv' PROVE ClusterInv'
  OBVIOUS
<1>1. busy \in [Node -> {NoCommand} \cup Waiting] /\ Len(log') \in Nat
  BY DEF KeptInv, Kept, BooksOK, TimesOK, ServersOK, LoopsOK
<1>2. \A q \in Node : state[q] = "Candidate" => busy[q] = NoCommand
  BY DEF ClusterInv, ClusterTypes
<1>3. ASSUME UNCHANGED <<leaderVars, log, busy>> PROVE ClusterInv'
  BY <1>2, <1>3, ClusterRests DEF leaderVars
<1>4. CASE \E c \in Client : (\E kind \in {"Read", "Write"} : Invoke(c, kind)) \/ ClientStep(c)
  BY <1>3, <1>4 DEF Invoke, ClientStep, Reach, Refused, Broken, TimeOut, serverVars, clusterVars,
                    logVars
<1>5. CASE \E g \in gets : KvGet(g)
  BY <1>3, <1>5 DEF KvGet, clusterVars, logVars
<1>6. CASE NetworkFault
  BY <1>3, <1>6 DEF NetworkFault, serverVars, clusterVars, logVars
<1>7. CASE UNCHANGED vars
  BY <1>3, <1>7 DEF vars, leaderVars
<1>8. ASSUME NEW n \in Faulty, Kill(n) PROVE ClusterInv'
  <2>1. /\ UNCHANGED <<known, log>> /\ settled' = settled \ {n}
        /\ busy' = [busy EXCEPT ![n] = NoCommand] /\ state' = [state EXCEPT ![n] = "Follower"]
    BY <1>8 DEF Kill, logVars
  <2>2. LeadersMove
    BY <1>8, KillMoves DEF ClusterInv
  <2>3. \A q \in Node : /\ state'[q] = IF q = n THEN "Follower" ELSE state[q]
                        /\ busy'[q] = IF q = n THEN NoCommand ELSE busy[q]
    BY <1>1, <2>1 DEF ClusterInv, ClusterTypes
  <2>4. \A m \in settled' : m \in settled /\ state'[m] = "Leader"
    BY <2>1, <2>3 DEF ClusterInv, ClusterTypes
  <2> QED
    BY <1>2, <2>1, <2>2, <2>3, <2>4, ClusterMoves
<1>9. ASSUME NEW n \in Node, ServerStep(n) PROVE ClusterInv'
  <2>1. ASSUME UNCHANGED <<leaderVars, log>>, NEW w, busy' = [busy EXCEPT ![n] = w],
               state[n] # "Candidate" \/ w = NoCommand
        PROVE  ClusterInv'
    <3>1. \A q \in Node : state[q] = "Candidate" => busy'[q] = NoCommand
      BY <1>1, <1>2, <2>1
    <3> QED
      BY <2>1, <3>1, ClusterRests DEF leaderVars
  <2>2. CASE Refuse(n)
    BY <1>3, <2>2 DEF Refuse, NextCommand
  <2>3. CASE TakeSubmit(n)
    <3>1. UNCHANGED <<leaderVars, log>> /\ state[n] = "Leader"
      BY <2>3 DEF TakeSubmit, NextCommand
    <3>2. UNCHANGED busy \/ \E w : busy' = [busy EXCEPT ![n] = w]
      BY <2>3 DEF TakeSubmit
    <3> QED
      BY <1>3, <2>1, <3>1, <3>2
  <2>4. CASE TakeRead(n)
    <3>1. UNCHANGED <<leaderVars, log>> /\ state[n] = "Leader"
      BY <2>4 DEF TakeRead, NextCommand
    <3>2. \E w : busy' = [busy EXCEPT ![n] = w]
      BY <2>4 DEF TakeRead
    <3> QED
      BY <2>1, <3>1, <3>2
  <2>5. CASE Replicate(n)
    <3>1. /\ UNCHANGED <<leaderVars, log>> /\ busy[n].op # 0
          /\ busy' = [busy EXCEPT ![n] = [busy[n] EXCEPT !.stage = "replicate"]]
      BY <2>5 DEF Replicate, Works, clusterVars, logVars
    <3>2. state[n] # "Candidate"
      BY <1>2, <3>1 DEF NoCommand
    <3> QED
      BY <2>1, <3>1, <3>2
  <2>6. CASE FinishSubmit(n) \/ FinishReadIndex(n) \/ RefuseRead(n)
    <3>1. UNCHANGED <<leaderVars, log>> /\ busy' = [busy EXCEPT ![n] = NoCommand]
      BY <2>6 DEF FinishSubmit, FinishReadIndex, RefuseRead, clusterVars, logVars
    <3> QED
      BY <2>1, <3>1
  <2>7. CASE Stand(n)
    <3>1. /\ UNCHANGED <<known, log, settled, busy>> /\ state[n] # "Leader" /\ busy[n] = NoCommand
          /\ state' = [state EXCEPT ![n] = "Candidate"]
      BY <2>7 DEF Stand, logVars
    <3>2. LeadersMove
      BY <2>7, StandMoves DEF ClusterInv
    <3>3. \A m \in settled' : m \in settled /\ state'[m] = "Leader"
      BY <3>1 DEF ClusterInv, ClusterTypes
    <3>4. \A q \in Node : state'[q] = "Candidate" => busy'[q] = NoCommand
      BY <1>2, <3>1 DEF ClusterInv, ClusterTypes
    <3> QED
      BY <3>1, <3>2, <3>3, <3>4, ClusterMoves
  <2>8. ASSUME NEW p \in Node, ConfirmedBy(n, p) PROVE ClusterInv'
    <3>1. /\ UNCHANGED <<known, log>> /\ settled' = settled \ {p} /\ state[n] = "Leader"
          /\ busy' = [busy EXCEPT ![n].acks = @ \cup {p}] /\ p \notin busy[n].acks
          /\ Follow({p}, {p}, n)
      BY <2>8 DEF ConfirmedBy, logVars
    <3>2. LeadersMove
      BY <2>8, ConfirmedByMoves DEF ClusterInv
    <3>3. \A q \in Node : state'[q] = IF q = p /\ q # n THEN "Follower" ELSE state[q]
      BY <3>1 DEF Follow
    <3>4. \A m \in settled' : m \in settled /\ state'[m] = "Leader"
      BY <3>1, <3>3 DEF ClusterInv, ClusterTypes
    <3>5. \A q \in Node : q # n => busy'[q] = busy[q]
      BY <1>1, <3>1
    <3> QED
      BY <1>2, <3>1, <3>2, <3>3, <3>4, <3>5, ClusterMoves
  <2>9. ASSUME NEW p \in Node, Hear(n, p) PROVE ClusterInv'
    <3>1. /\ UNCHANGED <<known, log, busy>> /\ settled' = settled \ {n}
          /\ state' = [state EXCEPT ![n] = "Follower"]
      BY <2>9 DEF Hear, logVars
    <3>2. LeadersMove
      BY <2>9, HearMoves DEF ClusterInv
    <3>3. \A q \in Node : state'[q] = IF q = n THEN "Follower" ELSE state[q]
      BY <3>1 DEF ClusterInv, ClusterTypes
    <3>4. \A m \in settled' : m \in settled /\ state'[m] = "Leader"
      BY <3>1, <3>3 DEF ClusterInv, ClusterTypes
    <3> QED
      BY <1>2, <3>1, <3>2, <3>3, <3>4, ClusterMoves
  <2>10. ASSUME NEW Q \in Quorums(n), Commit(n, Q) \/ Elect(n, Q) PROVE ClusterInv'
    BY <1>1, <2>10, ClusterCommit, ClusterElect
  <2> QED
    BY <1>9, <2>2, <2>3, <2>4, <2>5, <2>6, <2>7, <2>8, <2>9, <2>10 DEF ServerStep
<1> QED
  BY <1>4, <1>5, <1>6, <1>7, <1>8, <1>9 DEF Next

LEMMA KeptInitially ==
    Init => KeptInv
<1> SUFFICES ASSUME Init PROVE KeptInv
  OBVIOUS
<1> DEFINE times == [t \in Nat |-> 0]
           kinds == [id \in Ids |-> "Read"]
           starts == [id \in Ids |-> 0]
<1>1. /\ log = <<>> /\ appended = <<>> /\ history = {} /\ clock = 0 /\ gets = {}
      /\ queue = [n \in Node |-> <<>>] /\ busy = [n \in Node |-> NoCommand]
      /\ client = [c \in Client |-> Resting]
  BY DEF Init
<1>2. Resting \in ClientState /\ Resting.at = "rest" /\ Resting.op = 0
  BY DEF Resting, ClientState, Kind
<1>3. Pending(client) = {} /\ Ops(client) = [c \in Client |-> 0]
  BY <1>1, <1>2 DEF Pending, Ops
<1>4. \A id : ~Begun(id, Ops(client))
  <2>1. ASSUME NEW id, Begun(id, Ops(client)) PROVE FALSE
    <3>1. id[1] \in Client /\ id[2] \in 1 .. Ops(client)[id[1]]
      BY <2>1 DEF Begun, Ids
    <3> QED
      BY <1>3, <3>1
  <2> QED
    BY <2>1
<1>5. TimesOK(times, clock, Len(log))
  BY <1>1 DEF TimesOK
<1>6. StartsOK(kinds, starts, Ops(client), clock)
  <2>1. \A c \in Client : 1 .. Ops(client)[c] = {}
    BY <1>3
  <2>2. Ops(client) \in [Client -> Nat]
    BY <1>3
  <2> QED
    BY <2>1, <2>2 DEF StartsOK, Kind
<1>7. ClientsOK(client, kinds, starts)
  BY <1>1, <1>2 DEF ClientsOK
<1>8. RecordsOK(history, kinds, starts, Ops(client), Pending(client), clock)
  <2>1. IsFiniteSet({})
    BY FS_EmptySet
  <2> QED
    BY <1>1, <1>4, <2>1 DEF RecordsOK
<1>9. ResultsOK(history, times, log)
  BY <1>1 DEF ResultsOK
<1>10. LogOK(log, kinds, starts, Ops(client), times)
  <2>1. log \in Seq(Entry) /\ Len(log) = 0
    BY <1>1
  <2> QED
    BY <2>1 DEF LogOK
<1>11. AppendedOK(appended, kinds, Ops(client))
  <2>1. appended \in Seq(Proposal) /\ Len(appended) = 0
    BY <1>1
  <2> QED
    BY <2>1 DEF AppendedOK
<1>12. QueuesOK(queue, kinds, Ops(client))
  <2>1. <<>> \in Seq(Command) /\ Len(<<>>) = 0
    OBVIOUS
  <2>2. queue \in [Node -> Seq(Command)] /\ \A n \in Node : queue[n] = <<>>
    BY <1>1, <2>1
  <2> QED
    BY <2>1, <2>2 DEF QueuesOK
<1>13. LoopsOK(busy, kinds, Ops(client), log)
  BY <1>1, NoWork DEF LoopsOK
<1>14. ReadsOK(Reads, kinds, starts, Ops(client), times)
  <2>1. Confirming = {}
    BY <1>1 DEF Confirming, Confirms, Works, NoCommand
  <2>2. Reads = {}
    BY <1>1, <2>1 DEF Reads
  <2> QED
    BY <2>2 DEF ReadsOK
<1> HIDE DEF times, kinds, starts
<1>15. Kept(times, kinds, starts, client, history, clock, log, appended, queue, busy, Reads)
  BY <1>5, <1>6, <1>7, <1>8, <1>9, <1>10, <1>11, <1>12, <1>13, <1>14 DEF Kept, BooksOK, ServersOK
<1> QED
  BY <1>15 DEF KeptInv

LEMMA KeptAlways ==
    KeptInv /\ ClusterInv /\ [GuardedNext]_vars => KeptInv'
<1> SUFFICES ASSUME KeptInv, ClusterInv, [GuardedNext]_vars PROVE KeptInv'
  OBVIOUS
<1>1. PICK times, kinds, starts :
         Kept(times, kinds, starts, client, history, clock, log, appended, queue, busy, Reads)
  BY DEF KeptInv
<1>2. ASSUME UNCHANGED <<client, history, clock, log, appended, queue, busy, gets, term, state>>
      PROVE  KeptInv'
  <2>1. Reads' = Reads
    BY <1>2, ReadsSame
  <2> QED
    BY <1>1, <1>2, <2>1, KeptNext
<1>3. CASE UNCHANGED vars
  BY <1>2, <1>3 DEF vars
<1>4. CASE Next /\ ReadsSettled'
  <2>1. CASE \E c \in Client : \E kind \in {"Read", "Write"} : Invoke(c, kind)
    BY <1>1, <2>1, InvokeStep DEF Kind
  <2>2. CASE \E c \in Client : ClientStep(c)
    BY <1>1, <2>2, ReachStep, SendAgainStep, TimeOutStep DEF ClientStep
  <2>3. CASE \E g \in gets : KvGet(g)
    BY <1>1, <2>3, KvGetStep
  <2>4. CASE \E n \in Faulty : Kill(n)
    BY <1>1, <2>4, KillStep
  <2>5. CASE NetworkFault
    BY <1>2, <2>5 DEF NetworkFault, serverVars, clusterVars, leaderVars, logVars
  <2>6. ASSUME NEW n \in Node, ServerStep(n) PROVE KeptInv'
    <3>1. CASE Refuse(n) \/ TakeSubmit(n) \/ TakeRead(n)
      BY <1>1, <1>4, <3>1, RefuseStep, TakeSubmitStep, TakeReadStep
    <3>2. CASE Replicate(n) \/ FinishSubmit(n) \/ FinishReadIndex(n) \/ RefuseRead(n)
      BY <1>1, <3>2, ReplicateStep, FinishSubmitStep, FinishReadIndexStep, RefuseReadStep
    <3>3. CASE Stand(n)
      <4>1. LeadersMove
        BY <3>3, StandMoves DEF ClusterInv
      <4>2. UNCHANGED <<log, appended, queue, busy, gets, client, history, clock>>
        BY <3>3 DEF Stand, logVars
      <4> QED
        BY <1>1, <4>1, <4>2, LeaderStep
    <3>4. ASSUME NEW p \in Node, ConfirmedBy(n, p) PROVE KeptInv'
      BY <1>1, <3>4, ConfirmedByStep
    <3>5. ASSUME NEW p \in Node, Hear(n, p) PROVE KeptInv'
      <4>1. LeadersMove
        BY <3>5, HearMoves DEF ClusterInv
      <4>2. UNCHANGED <<log, appended, queue, busy, gets, client, history, clock>>
        BY <3>5 DEF Hear, logVars
      <4> QED
        BY <1>1, <4>1, <4>2, LeaderStep
    <3>6. ASSUME NEW Q \in Quorums(n), Commit(n, Q) PROVE KeptInv'
      BY <1>1, <3>6, CommitStep
    <3>7. ASSUME NEW Q \in Quorums(n), Elect(n, Q) PROVE KeptInv'
      <4>1. Elected(n)
        BY <3>7, ElectMoves DEF ClusterInv
      <4>2. /\ UNCHANGED <<log, appended, queue, busy, gets, client, history, clock>>
            /\ busy[n] = NoCommand
        BY <3>7 DEF Elect, logVars, ClusterInv, ClusterTypes
      <4> QED
        BY <1>1, <4>1, <4>2, LeaderStep
    <3> QED
      BY <2>6, <3>1, <3>2, <3>3, <3>4, <3>5, <3>6, <3>7 DEF ServerStep
  <2> QED
    BY <1>4, <2>1, <2>2, <2>3, <2>4, <2>5, <2>6 DEF Next
<1> QED
  BY <1>3, <1>4 DEF GuardedNext

LEMMA KeptHolds == GuardedSpec => []KeptInv
<1>1. Init => KeptInv /\ ClusterInv
  BY KeptInitially, ClusterInitially
<1>2. KeptInv /\ ClusterInv /\ [GuardedNext]_vars => KeptInv' /\ ClusterInv'
  BY KeptAlways, ClusterAlways DEF GuardedNext
<1> QED
  BY <1>1, <1>2, PTL DEF GuardedSpec

(***************************************************************************)
(* The theorems.                                                           *)
(***************************************************************************)

\* Every command that the handlers write sets the workload's key, as the state
\* machine reads it, and nothing else.
THEOREM SetsTheKey == GuardedSpec => []SetsItsKey
<1>1. KeptInv => SetsItsKey
  <2> SUFFICES ASSUME KeptInv, NEW k \in DOMAIN log
               PROVE  StoreAt(k) = Insert(StoreAt(k - 1), Key,
                                          ValueOf(log[k].client, log[k].op))
    BY DEF SetsItsKey
  <2>1. log \in Seq(Entry)
    BY DEF KeptInv, Kept, BooksOK, LogOK
  <2>2. k \in 1 .. Len(log)
    BY <2>1
  <2> QED
    BY <2>1, <2>2, StoreShows
<1> QED
  BY <1>1, KeptHolds, PTL

\* Whatever is killed, cut off, deposed, elected, lost, late and tried again, the
\* history of a test is linearizable, unless the cluster committed a write twice,
\* in the executions in which no leader is deposed between append_log_entry and
\* replicate_to_peers and every leader that serves a read has committed an entry
\* of its term.
THEOREM HistoriesAreLinearizable == GuardedSpec => []HistoryIsLinearizable
<1>1. KeptInv => HistoryIsLinearizable
  <2> SUFFICES ASSUME KeptInv, Finished, WrittenOnce PROVE IsLinearizable(history)
    BY DEF HistoryIsLinearizable
  <2>1. PICK times, kinds, starts :
           Kept(times, kinds, starts, client, history, clock, log, appended, queue, busy, Reads)
    BY DEF KeptInv
  <2>2. BooksOK(times, kinds, starts, client, history, clock, log)
    BY <2>1 DEF Kept
  <2>3. Pending(client) = {}
    BY DEF Finished, Pending
  <2>4. \A i, j \in 1 .. Len(log) :
           log[i].client = log[j].client /\ log[i].op = log[j].op => i = j
    <3>1. DOMAIN log = 1 .. Len(log)
      BY <2>2 DEF BooksOK, LogOK
    <3> QED
      BY <3>1 DEF WrittenOnce
  <2> QED
    BY <2>2, <2>3, <2>4, BooksExplain
<1> QED
  BY <1>1, KeptHolds, PTL

\* The checker's verdict on the history of a test is the right one: neither its
\* fast checks nor the cut-offs of its search refuse a history that some order
\* explains, or accept another.
THEOREM CheckerDecides == GuardedSpec => []CheckerIsExact
<1>1. KeptInv => CheckerIsExact
  <2> SUFFICES ASSUME KeptInv PROVE Check(history) <=> IsLinearizable(history)
    BY DEF CheckerIsExact
  <2>1. PICK times, kinds, starts :
           Kept(times, kinds, starts, client, history, clock, log, appended, queue, busy, Reads)
    BY DEF KeptInv
  <2>2. RecordsOK(history, kinds, starts, Ops(client), Pending(client), clock)
    BY <2>1 DEF Kept, BooksOK
  <2> DEFINE names == {o.id : o \in history}
             keys == {o.key : o \in history}
             values == {o.value : o \in history}
  <2>3. ASSUME NEW o \in history
        PROVE  /\ o \in Operation(names, keys, values) /\ o.invoke < o.complete
               /\ IsWrite(o) => o.value # None
    <3>1. RecordOK(o, kinds, starts, Ops(client), Pending(client), clock)
      BY <2>2 DEF RecordsOK
    <3>2. o \in Operation({o.id}, {o.key}, {o.value}) /\ o.invoke < o.complete /\ o.id \in Ids
          /\ (o.kind = "Write" => o.value = ValueOf(o.id[1], o.id[2]))
      BY <3>1 DEF RecordOK, Begun
    <3>3. o.id \in names /\ o.key \in keys /\ o.value \in values
      OBVIOUS
    <3> HIDE DEF names, keys, values
    <3>4. o \in Operation(names, keys, values)
      BY <3>2, <3>3 DEF Operation
    <3>5. ValueOf(o.id[1], o.id[2]) \in Seq(Client \X Nat)
      <4>1. <<o.id[1], o.id[2]>> \in Client \X Nat
        BY <3>2 DEF Ids
      <4> QED
        BY <4>1 DEF ValueOf
    <3>6. IsWrite(o) => o.value # None
      BY <3>2, <3>5, WorkloadAssumption DEF IsWrite
    <3> QED
      BY <3>2, <3>4, <3>6
  <2> HIDE DEF names, keys, values
  <2>4. history \in SUBSET Operation(names, keys, values)
    BY <2>3
  <2>5. WellFormed(history)
    BY <2>2, <2>3 DEF RecordsOK, WellFormed
  <2> QED
    BY <2>4, <2>5, CheckDecides
<1> QED
  BY <1>1, KeptHolds, PTL
=============================================================================
