--------------------------- MODULE RaftCoreProofs ---------------------------
(***************************************************************************)
(* What the operators of RaftCore do to the log, its copy on disk, the     *)
(* commit index and the state machine of a node that takes no snapshots,   *)
(* and to the term and the vote of any node.                               *)
(***************************************************************************)
EXTENDS RaftCore, Lemmas

\* The larger and the smaller of two numbers.
LEMMA MaxOfTwo ==
    ASSUME NEW a \in Nat, NEW b \in Nat
    PROVE  Max({a, b}) = IF a >= b THEN a ELSE b
<1> DEFINE m == IF a >= b THEN a ELSE b
           S == {a, b}
<1>1. m \in S /\ \A y \in S : m >= y
  OBVIOUS
<1>2. ASSUME NEW x \in S, \A y \in S : x >= y PROVE x = m
  BY <1>2
<1> QED
  BY <1>1, <1>2 DEF Max

LEMMA MinOfTwo ==
    ASSUME NEW a \in Nat, NEW b \in Nat
    PROVE  Min({a, b}) = IF a <= b THEN a ELSE b
<1> DEFINE m == IF a <= b THEN a ELSE b
           S == {a, b}
<1>1. m \in S /\ \A y \in S : m <= y
  OBVIOUS
<1>2. ASSUME NEW x \in S, \A y \in S : x <= y PROVE x = m
  BY <1>2
<1> QED
  BY <1>1, <1>2 DEF Min

\* A set of numbers has a smallest one, and a bounded one a largest.
LEMMA MinOfSet ==
    ASSUME NEW S, S \subseteq Nat, S # {}
    PROVE  Min(S) \in S /\ \A y \in S : Min(S) <= y
BY LeastElement DEF Min

LEMMA MaxOfSet ==
    ASSUME NEW b \in Nat, NEW S, S \subseteq 0 .. b, S # {}
    PROVE  Max(S) \in S /\ \A y \in S : Max(S) >= y
<1> DEFINE T == {k \in 0 .. b : b - k \in S}
<1>1. PICK s : s \in S
  OBVIOUS
<1>2. b - s \in T
  <2>1. b - (b - s) = s /\ b - s \in 0 .. b
    BY <1>1
  <2> QED
    BY <1>1, <2>1
<1>3. PICK m \in T : \A k \in T : m <= k
  <2>1. T \subseteq Nat /\ T # {}
    BY <1>2
  <2> HIDE DEF T
  <2> QED
    BY <2>1, LeastElement
<1>4. ASSUME NEW y \in S PROVE b - m >= y
  <2>1. b - (b - y) = y /\ b - y \in 0 .. b
    OBVIOUS
  <2>2. b - y \in T
    BY <2>1
  <2> QED
    BY SMTT(30), <1>3, <2>1, <2>2
<1> QED
  BY <1>3, <1>4 DEF Max

(***************************************************************************)
(* Logs.                                                                   *)
(***************************************************************************)

\* A log that starts with entry 1 and has no gap.
Contiguous(l) ==
    /\ l \in Seq(LogEntry)
    /\ \A k \in DOMAIN l : l[k].index = k

\* The entries of log l whose index is in S are those from index a to index b.
Picked(l, S, a, b) ==
    LET r == EntriesAt(l, S)
        n == IF b <= Len(l) THEN b ELSE Len(l)
    IN  /\ r \in Seq(LogEntry)
        /\ Len(r) = IF n >= a THEN n - a + 1 ELSE 0
        /\ \A j \in 1 .. Len(r) : r[j] = l[a - 1 + j]

\* The entries of a contiguous log whose index lies between a and b.
LEMMA EntriesBetween ==
    ASSUME NEW l, Contiguous(l), NEW S, NEW a \in Nat \ {0}, NEW b \in Nat,
           \A k \in DOMAIN l : k \in S <=> a <= k /\ k <= b
    PROVE  Picked(l, S, a, b)
<1> DEFINE Count(k) == IF k < a THEN 0 ELSE IF b < a THEN 0
                       ELSE IF b <= k THEN b - a + 1 ELSE k - a + 1
           Part(k) == [j \in 1 .. Count(k) |-> l[a - 1 + j]]
           G == [k \in 0 .. Len(l) |-> Part(k)]
           Body(f, k) == IF k = 0 THEN <<>>
                         ELSE IF l[k].index \in S THEN Append(f[k - 1], l[k])
                         ELSE f[k - 1]
           K == CHOOSE f : f = [k \in 0 .. Len(l) |-> Body(f, k)]
<1>1. EntriesAt(l, S) = K[Len(l)]
  BY Zenon DEF EntriesAt
<1>2. l \in Seq(LogEntry) /\ Len(l) \in Nat /\ DOMAIN l = 1 .. Len(l)
  BY DEF Contiguous
<1>3. ASSUME NEW k \in 0 .. Len(l)
      PROVE  Count(k) \in Nat /\ Part(k) \in Seq(LogEntry) /\ Len(Part(k)) = Count(k)
  <2>1. Count(k) \in Nat
    OBVIOUS
  <2>2. ASSUME NEW j \in 1 .. Count(k) PROVE l[a - 1 + j] \in LogEntry
    <3>1. a - 1 + j \in DOMAIN l
      BY <1>2
    <3> QED
      BY <1>2, <3>1
  <2>3. Part(k) \in [1 .. Count(k) -> LogEntry]
    BY <2>2
  <2> HIDE DEF Part, Count
  <2> QED
    BY <2>1, <2>3, FunctionIsSequence
<1>4. ASSUME NEW k \in 1 .. Len(l)
      PROVE  Part(k) = IF l[k].index \in S THEN Append(Part(k - 1), l[k]) ELSE Part(k - 1)
  <2>1. l[k].index = k /\ (k \in S <=> a <= k /\ k <= b)
    BY <1>2 DEF Contiguous
  <2>2. k - 1 \in 0 .. Len(l) /\ k \in 0 .. Len(l)
    BY <1>2
  <2>3. CASE a <= k /\ k <= b
    <3>1. Count(k) = k - a + 1 /\ Count(k - 1) = k - a
      BY <1>2, <2>3
    <3>2. Len(Part(k - 1)) = k - a /\ Part(k - 1) \in Seq(LogEntry)
      BY <1>3, <2>2, <3>1
    <3>3. l[k] \in LogEntry
      BY <1>2
    <3>4. /\ Len(Append(Part(k - 1), l[k])) = k - a + 1
          /\ Append(Part(k - 1), l[k]) \in Seq(LogEntry)
          /\ \A j \in 1 .. (k - a) : Append(Part(k - 1), l[k])[j] = Part(k - 1)[j]
          /\ Append(Part(k - 1), l[k])[k - a + 1] = l[k]
      <4> HIDE DEF Part
      <4> QED
        BY <3>2, <3>3
    <3>5. Part(k) \in Seq(LogEntry) /\ Len(Part(k)) = k - a + 1
      BY <1>3, <2>2, <3>1
    <3>6. ASSUME NEW j \in 1 .. (k - a + 1) PROVE Append(Part(k - 1), l[k])[j] = Part(k)[j]
      <4>1. Part(k)[j] = l[a - 1 + j]
        BY <3>1
      <4>2. CASE j = k - a + 1
        <5>1. a - 1 + j = k
          BY <1>2, <4>2
        <5> QED
          BY <3>4, <4>1, <4>2, <5>1
      <4>3. CASE j # k - a + 1
        <5>1. j \in 1 .. (k - a)
          BY <1>2, <4>3
        <5>2. Part(k - 1)[j] = l[a - 1 + j]
          BY <3>1, <5>1
        <5> QED
          BY <3>4, <4>1, <5>1, <5>2
      <4> QED
        BY <4>2, <4>3
    <3>7. Part(k) = Append(Part(k - 1), l[k])
      <4> HIDE DEF Part
      <4> QED
        BY <3>4, <3>5, <3>6
    <3> QED
      BY <2>1, <2>3, <3>7
  <2>4. CASE ~(a <= k /\ k <= b)
    <3>1. Count(k) = Count(k - 1)
      BY <1>2, <2>4
    <3> QED
      BY <2>1, <2>4, <3>1
  <2> QED
    BY <2>3, <2>4
<1>5. Part(0) = <<>>
  <2>1. Count(0) = 0
    OBVIOUS
  <2>2. Part(0) \in Seq(LogEntry) /\ Len(Part(0)) = 0
    BY <1>2, <1>3, <2>1
  <2> QED
    BY <2>2
<1> HIDE DEF Part, Count
<1>6. G = [k \in 0 .. Len(l) |-> Body(G, k)]
  <2>1. ASSUME NEW k \in 0 .. Len(l) PROVE Part(k) = Body(G, k)
    <3>1. CASE k = 0
      BY <1>5, <3>1
    <3>2. CASE k # 0
      <4>1. k \in 1 .. Len(l) /\ k - 1 \in 0 .. Len(l)
        BY <1>2, <3>2
      <4>2. G[k - 1] = Part(k - 1)
        BY <4>1
      <4> HIDE DEF G
      <4> QED
        BY <1>4, <3>2, <4>1, <4>2
    <3> QED
      BY <3>1, <3>2
  <2> QED
    BY <2>1
<1>7. K = [k \in 0 .. Len(l) |-> Body(K, k)]
  <2> HIDE DEF G
  <2> QED
    BY <1>6, Zenon
<1>8. \A k \in Nat : k \in {j \in Nat : j <= Len(l) => K[j] = Part(j)}
  <2> DEFINE D == {j \in Nat : j <= Len(l) => K[j] = Part(j)}
  <2> HIDE DEF K
  <2>1. 0 \in D
    <3>1. 0 \in 0 .. Len(l)
      BY <1>2
    <3>2. K[0] = Body(K, 0)
      BY <1>7, <3>1
    <3> QED
      BY <1>5, <3>2
  <2>2. ASSUME NEW k \in Nat, k \in D PROVE k + 1 \in D
    <3> SUFFICES ASSUME k + 1 <= Len(l) PROVE K[k + 1] = Part(k + 1)
      OBVIOUS
    <3>1. K[k] = Part(k) /\ k + 1 \in 1 .. Len(l) /\ k + 1 \in 0 .. Len(l)
      BY <1>2, <2>2
    <3>2. K[k + 1] = Body(K, k + 1)
      BY <1>7, <3>1
    <3>3. (k + 1) - 1 = k /\ k + 1 # 0
      OBVIOUS
    <3> QED
      BY <1>4, <3>1, <3>2, <3>3
  <2> HIDE DEF D
  <2>3. \A k \in Nat : k \in D
    BY <2>1, <2>2, NumbersInduction
  <2> QED
    BY <2>3 DEF D
<1>9. EntriesAt(l, S) = Part(Len(l))
  BY <1>1, <1>2, <1>8
<1>10. Part(Len(l)) \in Seq(LogEntry) /\ Len(Part(Len(l))) = Count(Len(l))
  BY <1>2, <1>3
<1>11. Count(Len(l)) = LET n == IF b <= Len(l) THEN b ELSE Len(l)
                       IN  IF n >= a THEN n - a + 1 ELSE 0
  BY <1>2 DEF Count
<1>12. \A j \in 1 .. Len(Part(Len(l))) : Part(Len(l))[j] = l[a - 1 + j]
  BY <1>10 DEF Part
<1> HIDE DEF Part, Count
<1> QED
  BY <1>9, <1>10, <1>11, <1>12 DEF Picked

\* Entry k of an entry list that follows index prev.
Follows(entries, prev) ==
    /\ entries \in Seq(LogEntry)
    /\ \A k \in DOMAIN entries : entries[k].index = prev + k

\* Cutting a contiguous log keeps its beginning.
LEMMA TruncateKeeps ==
    ASSUME NEW l, Contiguous(l), NEW from \in 1 .. Len(l)
    PROVE  /\ Contiguous(SubSeq(l, 1, from - 1)) /\ Len(SubSeq(l, 1, from - 1)) = from - 1
           /\ \A k \in 1 .. (from - 1) : SubSeq(l, 1, from - 1)[k] = l[k]
           /\ TruncateLog(l, from) = SubSeq(l, 1, from - 1)
<1> DEFINE c == SubSeq(l, 1, from - 1)
           t == TruncateLog(l, from)
<1>1. l \in Seq(LogEntry) /\ Len(l) \in Nat
  BY DEF Contiguous
<1>2. c \in Seq(LogEntry) /\ Len(c) = from - 1 /\ \A k \in 1 .. (from - 1) : c[k] = l[k]
  BY <1>1
<1>3. Contiguous(c)
  BY <1>1, <1>2 DEF Contiguous
<1>4. t \in Seq(LogEntry) /\ Len(t) = from - 1 /\ \A j \in 1 .. Len(t) : t[j] = l[j]
  <2> DEFINE S == 0 .. (from - 1)
  <2>1. \A k \in DOMAIN l : k \in S <=> 1 <= k /\ k <= from - 1
    BY <1>1
  <2>2. from - 1 \in Nat /\ 1 \in Nat \ {0} /\ from - 1 <= Len(l)
    BY <1>1
  <2>3. t = EntriesAt(l, S)
    BY DEF TruncateLog
  <2> HIDE DEF t, S
  <2>4. Picked(l, S, 1, from - 1)
    BY <2>1, <2>2, EntriesBetween
  <2> QED
    BY <2>2, <2>3, <2>4 DEF Picked
<1>5. t = c
  <2> HIDE DEF t, c
  <2> QED
    BY <1>2, <1>4
<1> QED
  BY <1>2, <1>3, <1>5

\* Appending the next entry.
LEMMA AppendNext ==
    ASSUME NEW l, Contiguous(l), NEW e \in LogEntry, e.index = Len(l) + 1
    PROVE  /\ Contiguous(Append(l, e)) /\ Len(Append(l, e)) = Len(l) + 1
           /\ \A k \in 1 .. Len(l) : Append(l, e)[k] = l[k]
           /\ Append(l, e)[Len(l) + 1] = e
           /\ AppendLogEntries(l, <<e>>) = Append(l, e)
<1>1. l \in Seq(LogEntry) /\ Len(l) \in Nat
  BY DEF Contiguous
<1>2. /\ Append(l, e) \in Seq(LogEntry) /\ Len(Append(l, e)) = Len(l) + 1
      /\ \A k \in 1 .. Len(l) : Append(l, e)[k] = l[k]
      /\ Append(l, e)[Len(l) + 1] = e
  BY <1>1
<1>3. Contiguous(Append(l, e))
  BY <1>1, <1>2 DEF Contiguous
<1>4. AppendLogEntries(l, <<e>>) = Append(l, e)
  BY <1>1 DEF AppendLogEntries
<1> QED
  BY <1>2, <1>3, <1>4

\* A log and its copy on disk.
Pair(l) == [log |-> l, stored_log |-> l]

\* One round of apply_entries: an entry that is there stays, another one comes to
\* be the last, and disk and memory remain the same.
LEMMA ApplyEntryFollows ==
    ASSUME NEW l, Contiguous(l), NEW e \in LogEntry, e.index \in 1 .. (Len(l) + 1)
    PROVE  IF e.index <= Len(l) /\ l[e.index].term = e.term
           THEN ApplyEntry(Pair(l), 0, e) = Pair(l)
           ELSE \E r : /\ ApplyEntry(Pair(l), 0, e) = Pair(r)
                       /\ Contiguous(r) /\ Len(r) = e.index
                       /\ \A k \in 1 .. (e.index - 1) : r[k] = l[k]
                       /\ r[e.index] = e
<1> DEFINE i == e.index
<1>1. l \in Seq(LogEntry) /\ Len(l) \in Nat /\ i \in Nat /\ i - 0 = i /\ ~(i <= 0)
  BY DEF Contiguous
<1>2. Pair(l).log = l /\ Pair(l).stored_log = l
  BY DEF Pair
<1>3. CASE i <= Len(l) /\ l[i].term = e.term
  BY <1>1, <1>2, <1>3 DEF ApplyEntry
<1>4. CASE i = Len(l) + 1
  <2> DEFINE r == Append(l, e)
  <2>1. ApplyEntry(Pair(l), 0, e) = PersistLogEntry(Pair(l), e)
    BY <1>1, <1>2, <1>4 DEF ApplyEntry
  <2>2. /\ Contiguous(r) /\ Len(r) = i
        /\ \A k \in 1 .. Len(l) : r[k] = l[k]
        /\ r[i] = e /\ AppendLogEntries(l, <<e>>) = r
    BY <1>4, AppendNext
  <2>3. PersistLogEntry(Pair(l), e) = [log |-> r, stored_log |-> AppendLogEntries(l, <<e>>)]
    BY <1>2 DEF PersistLogEntry
  <2> HIDE DEF r
  <2>4. i - 1 = Len(l)
    BY <1>1, <1>4
  <2>5. /\ ApplyEntry(Pair(l), 0, e) = Pair(r)
        /\ Contiguous(r) /\ Len(r) = e.index
        /\ \A k \in 1 .. (e.index - 1) : r[k] = l[k]
        /\ r[e.index] = e
    BY <2>1, <2>2, <2>3, <2>4 DEF Pair
  <2> QED
    BY <1>1, <1>4, <2>5
<1>5. CASE i <= Len(l) /\ l[i].term # e.term
  <2> DEFINE c == SubSeq(l, 1, i - 1)
             r == Append(c, e)
  <2>0. i \in 1 .. Len(l) /\ i - 1 < Len(l)
    BY <1>1, <1>5
  <2>1. ApplyEntry(Pair(l), 0, e) = PersistLogEntry(PersistTruncateLog(Pair(l), i), e)
    BY <1>1, <1>2, <1>5 DEF ApplyEntry
  <2>2. /\ Contiguous(c) /\ Len(c) = i - 1 /\ TruncateLog(l, i) = c
        /\ \A k \in 1 .. (i - 1) : c[k] = l[k]
    BY <2>0, TruncateKeeps
  <2>3. PersistTruncateLog(Pair(l), i) = Pair(c)
    BY <1>2, <2>0, <2>2 DEF PersistTruncateLog, Pair
  <2>4. i = Len(c) + 1
    BY <1>1, <2>2
  <2> HIDE DEF c
  <2>5. /\ Contiguous(r) /\ Len(r) = i /\ AppendLogEntries(c, <<e>>) = r
        /\ \A k \in 1 .. (i - 1) : r[k] = c[k]
        /\ r[i] = e
    <3>1. /\ Contiguous(r) /\ Len(r) = Len(c) + 1 /\ AppendLogEntries(c, <<e>>) = r
          /\ \A k \in 1 .. Len(c) : r[k] = c[k]
          /\ r[Len(c) + 1] = e
      BY <2>2, <2>4, AppendNext
    <3> HIDE DEF r
    <3> QED
      BY <2>2, <2>4, <3>1
  <2>6. PersistLogEntry(Pair(c), e) = [log |-> r, stored_log |-> AppendLogEntries(c, <<e>>)]
    BY DEF PersistLogEntry, Pair
  <2> HIDE DEF r
  <2>7. /\ ApplyEntry(Pair(l), 0, e) = Pair(r)
        /\ Contiguous(r) /\ Len(r) = e.index
        /\ \A k \in 1 .. (e.index - 1) : r[k] = l[k]
        /\ r[e.index] = e
    BY <2>1, <2>2, <2>3, <2>5, <2>6 DEF Pair
  <2> QED
    BY <1>5, <2>7
<1> QED
  BY <1>1, <1>3, <1>4, <1>5

\* The terms of log l and of the entries after prev agree up to index k.
AgreesTo(l, prev, entries, k) ==
    /\ k <= Len(l)
    /\ \A j \in (prev + 1) .. k : l[j].term = entries[j - prev].term

\* What apply_entries makes of log l with the entries after prev, up to index last.
Repaired(l, prev, entries, last) ==
    IF AgreesTo(l, prev, entries, last) THEN l
    ELSE [k \in 1 .. last |->
             IF k <= prev \/ AgreesTo(l, prev, entries, k) THEN l[k]
             ELSE entries[k - prev]]

\* Nothing is repaired before the first entry, and then one entry at a time.
LEMMA RepairedStep ==
    ASSUME NEW l, Contiguous(l), NEW prev \in 0 .. Len(l), NEW entries, Follows(entries, prev),
           NEW k \in 1 .. Len(entries),
           Contiguous(Repaired(l, prev, entries, prev + k - 1)),
           Len(Repaired(l, prev, entries, prev + k - 1)) >= prev + k - 1
    PROVE  /\ ApplyEntry(Pair(Repaired(l, prev, entries, prev + k - 1)), 0, entries[k]) =
                  Pair(Repaired(l, prev, entries, prev + k))
           /\ Contiguous(Repaired(l, prev, entries, prev + k))
           /\ Len(Repaired(l, prev, entries, prev + k)) >= prev + k
<1> DEFINE q == prev + k - 1
           e == entries[k]
           A(j) == AgreesTo(l, prev, entries, j)
           before == Repaired(l, prev, entries, q)
           after == Repaired(l, prev, entries, prev + k)
           part == [j \in 1 .. (prev + k) |-> IF j <= prev \/ A(j) THEN l[j] ELSE entries[j - prev]]
<1>1. /\ l \in Seq(LogEntry) /\ Len(l) \in Nat /\ prev \in Nat /\ prev <= Len(l)
      /\ k \in Nat /\ k >= 1 /\ q \in Nat /\ q + 1 = prev + k
  BY DEF Contiguous
<1>2. e \in LogEntry /\ e.index = prev + k /\ k \in DOMAIN entries
  BY DEF Follows
<1>3. \A j \in prev .. q : A(q) => A(j)
  BY <1>1 DEF AgreesTo
<1>4. A(prev + k) <=> A(q) /\ prev + k <= Len(l) /\ l[prev + k].term = e.term
  <2>1. (prev + 1) .. (prev + k) = ((prev + 1) .. q) \cup {prev + k}
    BY <1>1
  <2>2. (prev + k) - prev = k
    BY <1>1
  <2> QED
    BY <1>1, <2>1, <2>2 DEF AgreesTo
<1>5. Contiguous(before) /\ Len(before) >= q
  OBVIOUS
<1>6. Len(before) \in Nat /\ e.index \in 1 .. (Len(before) + 1)
  BY <1>1, <1>2, <1>5 DEF Contiguous
<1>7. A(q) => before = l
  BY DEF Repaired
<1>8. ~A(q) => /\ Len(before) = q
               /\ before = [j \in 1 .. q |-> IF j <= prev \/ A(j) THEN l[j] ELSE entries[j - prev]]
  <2> SUFFICES ASSUME ~A(q) PROVE before = [j \in 1 .. q |-> IF j <= prev \/ A(j) THEN l[j] ELSE entries[j - prev]]
                                 /\ Len(before) = q
    OBVIOUS
  <2>1. before = [j \in 1 .. q |-> IF j <= prev \/ A(j) THEN l[j] ELSE entries[j - prev]]
    BY DEF Repaired
  <2>2. DOMAIN before = 1 .. q /\ before \in Seq(LogEntry)
    BY <1>5, <2>1 DEF Contiguous
  <2> HIDE DEF before
  <2> QED
    BY <1>1, <2>1, <2>2
<1> HIDE DEF before, A
<1>9. CASE A(prev + k)
  <2>1. before = l /\ e.index <= Len(before) /\ before[e.index].term = e.term
    BY <1>2, <1>4, <1>7, <1>9
  <2>2. after = l
    BY <1>9 DEF Repaired, A
  <2>3. ApplyEntry(Pair(before), 0, e) = Pair(before)
    BY <1>2, <1>5, <1>6, <2>1, ApplyEntryFollows
  <2>4. Len(after) >= prev + k
    BY <1>2, <2>1, <2>2
  <2> QED
    BY <2>1, <2>2, <2>3, <2>4 DEF before
<1>10. CASE ~A(prev + k)
  <2>1. ~(e.index <= Len(before) /\ before[e.index].term = e.term)
    <3>1. CASE A(q)
      BY <1>2, <1>4, <1>7, <1>10, <3>1
    <3>2. CASE ~A(q)
      BY <1>1, <1>2, <1>8, <3>2
    <3> QED
      BY <3>1, <3>2
  <2>2. PICK r : /\ ApplyEntry(Pair(before), 0, e) = Pair(r)
                 /\ Contiguous(r) /\ Len(r) = e.index
                 /\ \A j \in 1 .. (e.index - 1) : r[j] = before[j]
                 /\ r[e.index] = e
    <3> HIDE DEF e
    <3> QED
      BY SMTT(30), <1>2, <1>5, <1>6, <2>1, ApplyEntryFollows
  <2>3. after = part
    BY <1>10 DEF Repaired, A
  <2>4. ASSUME NEW j \in 1 .. (prev + k) PROVE part[j] = r[j]
    <3>1. CASE j = prev + k
      <4>1. ~(j <= prev) /\ ~A(j) /\ j - prev = k
        BY <1>1, <1>10, <3>1
      <4> QED
        BY <1>2, <2>2, <3>1, <4>1
    <3>2. CASE j # prev + k
      <4>1. j \in 1 .. q /\ j \in 1 .. (e.index - 1) /\ r[j] = before[j]
        BY <1>1, <1>2, <2>2, <3>2
      <4>2. CASE A(q)
        <5>1. j <= prev \/ A(j)
          BY <1>1, <1>3, <4>1, <4>2
        <5> QED
          BY <1>7, <4>1, <4>2, <5>1
      <4>3. CASE ~A(q)
        BY <1>8, <4>1, <4>3
      <4> QED
        BY <4>2, <4>3
    <3> QED
      BY <3>1, <3>2
  <2>5. part = r
    <3>1. r \in Seq(LogEntry) /\ DOMAIN r = 1 .. (prev + k)
      BY <1>2, <2>2 DEF Contiguous
    <3>2. DOMAIN part = 1 .. (prev + k) /\ part = [j \in 1 .. (prev + k) |-> part[j]]
      OBVIOUS
    <3>3. r = [j \in 1 .. (prev + k) |-> r[j]]
      BY <3>1
    <3> HIDE DEF part
    <3> QED
      BY <2>4, <3>2, <3>3
  <2> HIDE DEF part
  <2>6. after = r /\ Contiguous(r) /\ Len(r) = prev + k
    BY <1>2, <2>2, <2>3, <2>5
  <2>7. Len(r) >= prev + k
    BY <1>1, <2>6
  <2> QED
    BY <2>2, <2>6, <2>7 DEF before
<1> QED
  BY <1>9, <1>10

\* The loop of apply_entries repairs the log in memory and on disk.
LEMMA ReplayRepairs ==
    ASSUME NEW l, Contiguous(l), NEW prev \in 0 .. Len(l), NEW entries, Follows(entries, prev)
    PROVE  LET r == Repaired(l, prev, entries, prev + Len(entries))
           IN  /\ ReplayEntries(Pair(l), 0, entries) = Pair(r)
               /\ Contiguous(r) /\ Len(r) >= prev + Len(entries)
<1> DEFINE Part(k) == Repaired(l, prev, entries, prev + k)
           N == Len(entries)
           G == [k \in 0 .. N |-> Pair(Part(k))]
           Body(f, k) == IF k = 0 THEN Pair(l) ELSE ApplyEntry(f[k - 1], 0, entries[k])
           K == CHOOSE f : f = [k \in 0 .. N |-> Body(f, k)]
<1>1. ReplayEntries(Pair(l), 0, entries) = K[N]
  BY Zenon DEF ReplayEntries
<1>2. N \in Nat /\ prev \in Nat /\ Len(l) \in Nat /\ prev <= Len(l)
  BY DEF Follows, Contiguous
<1>3. Part(0) = l
  BY <1>2 DEF Repaired, AgreesTo
<1> DEFINE D == {k \in Nat : k <= N => Contiguous(Part(k)) /\ Len(Part(k)) >= prev + k}
<1>4. ASSUME NEW k \in 1 .. N, k - 1 \in D
      PROVE  /\ ApplyEntry(Pair(Part(k - 1)), 0, entries[k]) = Pair(Part(k))
             /\ k \in D
  <2>1. prev + (k - 1) = prev + k - 1 /\ k - 1 <= N /\ k \in Nat
    BY <1>2
  <2>2. Contiguous(Part(k - 1)) /\ Len(Part(k - 1)) >= prev + k - 1
    BY <1>4, <2>1
  <2> QED
    BY <2>1, <2>2, RepairedStep
<1>5. \A k \in Nat : k \in D
  <2>1. 0 \in D
    BY <1>2, <1>3
  <2>2. ASSUME NEW k \in Nat, k \in D PROVE k + 1 \in D
    <3>1. CASE k + 1 <= N
      <4>1. k + 1 \in 1 .. N /\ (k + 1) - 1 \in D
        BY <1>2, <2>2, <3>1
      <4> HIDE DEF D
      <4> QED
        BY <1>4, <4>1
    <3>2. CASE ~(k + 1 <= N)
      BY <3>2
    <3> QED
      BY <3>1, <3>2
  <2> HIDE DEF D
  <2> QED
    BY <2>1, <2>2, NumbersInduction
<1>6. ASSUME NEW k \in 1 .. N
      PROVE  ApplyEntry(Pair(Part(k - 1)), 0, entries[k]) = Pair(Part(k))
  <2>1. k - 1 \in Nat
    BY <1>2
  <2> HIDE DEF D, Part
  <2> QED
    BY <1>4, <1>5, <2>1
<1>7. Contiguous(Part(N)) /\ Len(Part(N)) >= prev + N
  BY <1>2, <1>5
<1> HIDE DEF Part, D
<1>8. G = [k \in 0 .. N |-> Body(G, k)]
  <2>1. ASSUME NEW k \in 0 .. N PROVE Pair(Part(k)) = Body(G, k)
    <3>1. CASE k = 0
      BY <1>3, <3>1
    <3>2. CASE k # 0
      <4>1. k \in 1 .. N /\ k - 1 \in 0 .. N
        BY <1>2, <3>2
      <4>2. G[k - 1] = Pair(Part(k - 1))
        BY <4>1
      <4> HIDE DEF G
      <4> QED
        BY <1>6, <3>2, <4>1, <4>2
    <3> QED
      BY <3>1, <3>2
  <2> QED
    BY <2>1
<1>9. K = [k \in 0 .. N |-> Body(K, k)]
  <2> HIDE DEF G
  <2> QED
    BY <1>8, Zenon
<1> DEFINE E == {j \in Nat : j <= N => K[j] = Pair(Part(j))}
<1>10. \A k \in Nat : k \in E
  <2> HIDE DEF K, N
  <2>1. 0 \in E
    <3>1. K[0] = Body(K, 0)
      BY <1>2, <1>9
    <3> QED
      BY <1>3, <3>1
  <2>2. ASSUME NEW k \in Nat, k \in E PROVE k + 1 \in E
    <3> SUFFICES ASSUME k + 1 <= N PROVE K[k + 1] = Pair(Part(k + 1))
      OBVIOUS
    <3>1. K[k] = Pair(Part(k)) /\ k + 1 \in 1 .. N /\ k + 1 \in 0 .. N
      BY <1>2, <2>2
    <3>2. K[k + 1] = Body(K, k + 1)
      BY <1>9, <3>1
    <3>3. (k + 1) - 1 = k /\ k + 1 # 0
      OBVIOUS
    <3> QED
      BY <1>6, <3>1, <3>2, <3>3
  <2> HIDE DEF E
  <2> QED
    BY <2>1, <2>2, NumbersInduction
<1>11. ReplayEntries(Pair(l), 0, entries) = Pair(Part(N))
  <2> HIDE DEF K
  <2> QED
    BY <1>1, <1>2, <1>10
<1> QED
  BY <1>7, <1>11 DEF Part

(***************************************************************************)
(* Nodes.                                                                  *)
(***************************************************************************)

\* A node that has never taken a snapshot: its log is contiguous and all of it
\* is on disk, and its state machine has been given last_applied commands.
LogOK(n, i) ==
    /\ DOMAIN n = CoreFields
    /\ n.current_term \in Nat /\ n.stored_term \in Nat
    /\ Contiguous(n.log) /\ n.stored_log = n.log
    /\ n.snapshot_last_index = 0 /\ n.snapshot_last_term = 0
    /\ n.stored_snapshot = NoSnapshot
    /\ n.commit_index \in Nat /\ n.last_applied \in Nat
    /\ n.sm \in Seq(Command \cup {Noop}) /\ Len(n.sm) = n.last_applied
    /\ n.next_index \in [Peers(i) -> Nat \ {0}]
    /\ n.match_index \in [Peers(i) -> Nat]

\* The log, what is applied of it and what is known of the peers are the same.
Kept(n, m) ==
    /\ DOMAIN m = CoreFields
    /\ m.log = n.log /\ m.stored_log = n.stored_log
    /\ m.snapshot_last_index = n.snapshot_last_index
    /\ m.snapshot_last_term = n.snapshot_last_term
    /\ m.stored_snapshot = n.stored_snapshot
    /\ m.commit_index = n.commit_index /\ m.last_applied = n.last_applied /\ m.sm = n.sm
    /\ m.next_index = n.next_index /\ m.match_index = n.match_index

LEMMA KeptOK ==
    ASSUME NEW i, NEW n, LogOK(n, i), NEW m, Kept(n, m),
           m.current_term \in Nat, m.stored_term \in Nat
    PROVE  LogOK(m, i)
BY DEF Kept, LogOK

\* Looking at the log.
LEMMA LogFacts ==
    ASSUME NEW i, NEW n, LogOK(n, i)
    PROVE  /\ n.log \in Seq(LogEntry) /\ Len(n.log) \in Nat
           /\ LastLogIndex(n) = Len(n.log)
           /\ LastLogTerm(n) = IF n.log = <<>> THEN 0 ELSE n.log[Len(n.log)].term
           /\ \A k \in Nat : HasLogEntry(n, k) <=> k \in DOMAIN n.log
           /\ \A k \in Nat : GetLogEntry(n, k) = n.log[k]
<1>1. n.log \in Seq(LogEntry) /\ Len(n.log) \in Nat /\ n.snapshot_last_index = 0
      /\ n.snapshot_last_term = 0 /\ \A k \in DOMAIN n.log : n.log[k].index = k
  BY DEF LogOK, Contiguous
<1>2. LastLogIndex(n) = Len(n.log)
  <2>1. CASE n.log = <<>>
    BY <1>1, <2>1 DEF LastLogIndex
  <2>2. CASE n.log # <<>>
    <3>1. Len(n.log) \in DOMAIN n.log
      BY <1>1, <2>2
    <3> QED
      BY <1>1, <2>2, <3>1 DEF LastLogIndex
  <2> QED
    BY <2>1, <2>2
<1>3. \A k \in Nat : k - 0 = k
  OBVIOUS
<1> QED
  BY <1>1, <1>2, <1>3 DEF LastLogTerm, HasLogEntry, GetLogEntry

\* Seeing a term leaves the log alone.
LEMMA ObserveTermKept ==
    ASSUME NEW i, NEW n, LogOK(n, i), NEW t \in Nat
    PROVE  /\ Kept(n, ObserveTerm(n, t)) /\ LogOK(ObserveTerm(n, t), i)
           /\ t <= n.current_term => ObserveTerm(n, t) = n
           /\ t > n.current_term => /\ ObserveTerm(n, t).current_term = t
                                    /\ ObserveTerm(n, t).state = "Follower"
<1>1. /\ Kept(n, ObserveTerm(n, t))
      /\ ObserveTerm(n, t).current_term \in Nat /\ ObserveTerm(n, t).stored_term \in Nat
  BY DEF Kept, LogOK, CoreFields, ObserveTerm, UpdateTerm, SetTerm, SetVotedFor
<1>2. LogOK(ObserveTerm(n, t), i)
  BY <1>1, KeptOK
<1>3. /\ t <= n.current_term => ObserveTerm(n, t) = n
      /\ t > n.current_term => /\ ObserveTerm(n, t).current_term = t
                               /\ ObserveTerm(n, t).state = "Follower"
  BY DEF LogOK, CoreFields, ObserveTerm, UpdateTerm, SetTerm, SetVotedFor
<1> QED
  BY <1>1, <1>2, <1>3

\* A node that comes up has the log it has on disk and has applied none of it.
LEMMA NewOK ==
    ASSUME NEW i, NEW term \in Nat, NEW voted_for, NEW log, Contiguous(log)
    PROVE  LogOK(New(i, term, voted_for, log, NoSnapshot), i)
<1>1. NoSnapshot.last_included_index = 0 /\ NoSnapshot.last_included_term = 0
      /\ NoSnapshot.data = <<>>
  BY DEF NoSnapshot
<1>2. <<>> \in Seq(Command \cup {Noop}) /\ Len(<<>>) = 0
  OBVIOUS
<1>3. /\ [p \in Peers(i) |-> 1] \in [Peers(i) -> Nat \ {0}]
      /\ [p \in Peers(i) |-> 0] \in [Peers(i) -> Nat]
  OBVIOUS
<1> QED
  BY <1>1, <1>2, <1>3 DEF New, LogOK, CoreFields

\* Nothing but the commit index, and what is applied, may be different.
SameButApplied(n, m) ==
    /\ DOMAIN m = CoreFields
    /\ m.current_term = n.current_term /\ m.voted_for = n.voted_for
    /\ m.stored_term = n.stored_term /\ m.stored_voted_for = n.stored_voted_for
    /\ m.state = n.state /\ m.votes_received = n.votes_received
    /\ m.log = n.log /\ m.stored_log = n.stored_log
    /\ m.snapshot_last_index = n.snapshot_last_index
    /\ m.snapshot_last_term = n.snapshot_last_term
    /\ m.stored_snapshot = n.stored_snapshot
    /\ m.next_index = n.next_index /\ m.match_index = n.match_index

\* In m the commit index is commit, and the state machine has been given the log's
\* commands up to last, after what it had been given in n.
AppliedUpTo(n, m, commit, last) ==
    /\ m.commit_index = commit /\ m.last_applied = last
    /\ \A k \in 1 .. n.last_applied : m.sm[k] = n.sm[k]
    /\ \A k \in (n.last_applied + 1) .. last : m.sm[k] = n.log[k].command

\* Two sequences, one after the other.
LEMMA Joined ==
    ASSUME NEW S, NEW s \in Seq(S), NEW t \in Seq(S)
    PROVE  /\ s \o t \in Seq(S) /\ Len(s \o t) = Len(s) + Len(t)
           /\ \A k \in 1 .. Len(s) : (s \o t)[k] = s[k]
           /\ \A k \in (Len(s) + 1) .. (Len(s) + Len(t)) : (s \o t)[k] = t[k - Len(s)]
OBVIOUS

\* What is applied when the log reaches as far as the commit index: no panic.
LEMMA ApplyAll ==
    ASSUME SnapshotThreshold = 0,
           NEW i, NEW n, LogOK(n, i), n.commit_index <= Len(n.log),
           NEW r, r = ApplyCommittedEntries(n)
    PROVE  LET last == IF n.last_applied >= n.commit_index THEN n.last_applied
                       ELSE n.commit_index
           IN  /\ r.panicked = FALSE
               /\ r.applied = (n.last_applied + 1) .. last
               /\ LogOK(r.core, i) /\ SameButApplied(n, r.core)
               /\ AppliedUpTo(n, r.core, n.commit_index, last)
<1> DEFINE missing == {k \in (n.last_applied + 1) .. n.commit_index : ~HasLogEntry(n, k)}
           last == IF n.last_applied >= n.commit_index THEN n.last_applied
                   ELSE n.commit_index
           applied == (n.last_applied + 1) .. last
           output == [k \in 1 .. Cardinality(applied) |->
                         GetLogEntry(n, n.last_applied + k).command]
           m == [n EXCEPT !.last_applied = last, !.sm = @ \o output]
<1>1. /\ n.last_applied \in Nat /\ n.commit_index \in Nat /\ n.log \in Seq(LogEntry)
      /\ Len(n.log) \in Nat /\ last \in Nat
      /\ n.sm \in Seq(Command \cup {Noop}) /\ Len(n.sm) = n.last_applied
  BY LogFacts DEF LogOK
<1>2. missing = {}
  BY <1>1, LogFacts
<1>3. Max({n.last_applied, n.commit_index}) = last
  BY <1>1, MaxOfTwo
<1>4. Cardinality(applied) = last - n.last_applied
  <2>1. n.last_applied + 1 \in Int /\ last \in Int
    BY <1>1
  <2>2. Cardinality(applied) = IF n.last_applied + 1 > last THEN 0 ELSE last - (n.last_applied + 1) + 1
    BY <2>1, FS_Interval
  <2> QED
    BY <1>1, <2>2
<1>5. ASSUME NEW k \in 1 .. (last - n.last_applied)
      PROVE  /\ GetLogEntry(n, n.last_applied + k) = n.log[n.last_applied + k]
             /\ n.log[n.last_applied + k].command \in Command \cup {Noop}
  <2>1. n.last_applied + k \in Nat /\ n.last_applied + k \in DOMAIN n.log
    BY <1>1
  <2>2. n.log[n.last_applied + k] \in LogEntry
    BY <1>1, <2>1
  <2> QED
    BY <2>1, <2>2, LogFacts DEF LogEntry
<1>6. output \in Seq(Command \cup {Noop}) /\ Len(output) = last - n.last_applied
  <2>1. last - n.last_applied \in Nat
    BY <1>1
  <2>2. output \in [1 .. (last - n.last_applied) -> Command \cup {Noop}]
    BY <1>4, <1>5
  <2> HIDE DEF output, last
  <2> QED
    BY <2>1, <2>2, FunctionIsSequence
<1>7. r = [core |-> m, applied |-> applied, panicked |-> FALSE]
  <2> DEFINE miss == {k \in (n.last_applied + 1) .. n.commit_index : ~HasLogEntry(n, k)}
             l == IF miss # {} THEN Min(miss) - 1 ELSE Max({n.last_applied, n.commit_index})
             ap == (n.last_applied + 1) .. l
             out == [k \in 1 .. Cardinality(ap) |-> GetLogEntry(n, n.last_applied + k).command]
             nm == [n EXCEPT !.last_applied = l, !.sm = @ \o out]
  <2>1. r = IF miss # {}
            THEN [core |-> [nm EXCEPT !.last_applied = @ + 1], applied |-> ap, panicked |-> TRUE]
            ELSE [core |-> IF /\ SnapshotThreshold > 0
                              /\ nm.last_applied - nm.snapshot_last_index >= SnapshotThreshold
                           THEN TakeSnapshot(nm) ELSE nm,
                  applied |-> ap, panicked |-> FALSE]
    BY Zenon DEF ApplyCommittedEntries
  <2>2. miss = {}
    BY <1>2
  <2>3. l = last
    BY <1>3, <2>2
  <2>4. ap = applied /\ out = output /\ nm = m
    BY <2>3
  <2>5. ~(SnapshotThreshold > 0)
    OBVIOUS
  <2> HIDE DEF miss, l, ap, out, nm, applied, m, last
  <2> QED
    BY <2>1, <2>2, <2>4, <2>5
<1> DEFINE sm == n.sm \o output
<1>8. /\ sm \in Seq(Command \cup {Noop}) /\ Len(sm) = last
      /\ \A k \in 1 .. n.last_applied : sm[k] = n.sm[k]
      /\ \A k \in (n.last_applied + 1) .. last : sm[k] = output[k - n.last_applied]
  <2> HIDE DEF output, last
  <2>1. /\ sm \in Seq(Command \cup {Noop}) /\ Len(sm) = Len(n.sm) + Len(output)
        /\ \A k \in 1 .. Len(n.sm) : sm[k] = n.sm[k]
        /\ \A k \in (Len(n.sm) + 1) .. (Len(n.sm) + Len(output)) : sm[k] = output[k - Len(n.sm)]
    BY ZenonT(40), <1>1, <1>6, Joined
  <2>2. n.last_applied + (last - n.last_applied) = last
    BY <1>1
  <2> HIDE DEF sm
  <2> QED
    BY <1>1, <1>6, <2>1, <2>2
<1>9. ASSUME NEW k \in (n.last_applied + 1) .. last PROVE sm[k] = n.log[k].command
  <2>1. /\ k - n.last_applied \in 1 .. (last - n.last_applied)
        /\ n.last_applied + (k - n.last_applied) = k
    BY <1>1
  <2>2. output[k - n.last_applied] = n.log[k].command
    <3>1. output[k - n.last_applied] = GetLogEntry(n, n.last_applied + (k - n.last_applied)).command
      BY <1>4, <2>1
    <3> HIDE DEF output, last
    <3> QED
      BY <1>5, <2>1, <3>1
  <2> HIDE DEF output, sm, last
  <2> QED
    BY <1>8, <2>2
<1>10. m = [n EXCEPT !.last_applied = last, !.sm = sm] /\ m.sm = sm
  BY DEF LogOK, CoreFields
<1> HIDE DEF sm, last, applied
<1>11. LogOK(m, i)
  <2>1. DOMAIN m = CoreFields /\ last \in Nat
    BY <1>1 DEF LogOK, CoreFields
  <2>2. /\ m.current_term = n.current_term /\ m.stored_term = n.stored_term
        /\ m.log = n.log /\ m.stored_log = n.stored_log
        /\ m.snapshot_last_index = n.snapshot_last_index
        /\ m.snapshot_last_term = n.snapshot_last_term
        /\ m.stored_snapshot = n.stored_snapshot
        /\ m.commit_index = n.commit_index /\ m.last_applied = last
        /\ m.next_index = n.next_index /\ m.match_index = n.match_index
    BY DEF LogOK, CoreFields
  <2> HIDE DEF m
  <2> QED
    BY <1>8, <1>10, <2>1, <2>2 DEF LogOK
<1>12. SameButApplied(n, m) /\ m.commit_index = n.commit_index /\ m.last_applied = last
  BY DEF LogOK, CoreFields, SameButApplied
<1> HIDE DEF m
<1>13. /\ r.panicked = FALSE /\ r.applied = applied /\ r.core = m
  BY <1>7
<1>14. AppliedUpTo(n, m, n.commit_index, last)
  BY <1>8, <1>9, <1>10, <1>12 DEF AppliedUpTo
<1> QED
  BY <1>11, <1>12, <1>13, <1>14 DEF last, applied

(***************************************************************************)
(* Handlers.                                                               *)
(***************************************************************************)

\* An AppendEntries request: its entries follow prev_log_index.
AppendOK(req) ==
    /\ req.term \in Nat /\ req.prev_log_index \in Nat /\ req.leader_commit \in Nat
    /\ Follows(req.entries, req.prev_log_index)

\* A hint that comes with a term comes with an index, and indices are numbers.
HintOK(resp) ==
    /\ resp.conflict_term # Nil => resp.conflict_index \in Nat
    /\ resp.conflict_index # Nil => resp.conflict_index \in Nat

\* The log of n has the entry before those of the request.
Consistent(n, req) ==
    \/ req.prev_log_index = 0
    \/ /\ req.prev_log_index \in DOMAIN n.log
       /\ n.log[req.prev_log_index].term = req.prev_log_term

\* What handle_append_entries looks for.
LEMMA AcceptsConsistent ==
    ASSUME NEW i, NEW n, LogOK(n, i), NEW req, AppendOK(req)
    PROVE  AcceptsPrev(n, req) <=> Consistent(n, req)
<1> DEFINE prev == req.prev_log_index
<1>1. /\ prev \in Nat /\ n.log \in Seq(LogEntry) /\ Len(n.log) \in Nat
      /\ LastLogIndex(n) = Len(n.log)
      /\ HasLogEntry(n, prev) <=> prev \in DOMAIN n.log
      /\ GetLogEntry(n, prev) = n.log[prev]
      /\ n.snapshot_last_index = 0
  BY LogFacts DEF AppendOK, LogOK
<1>2. prev \in DOMAIN n.log => prev <= Len(n.log)
  BY <1>1
<1> QED
  BY <1>1, <1>2 DEF AcceptsPrev, Consistent

\* The scan for the first index of a term ends at an index.
LEMMA FirstIndexIsIndex ==
    ASSUME NEW i, NEW n, LogOK(n, i), NEW term, NEW from \in Nat \ {0}
    PROVE  FindFirstIndexForTerm(n, term, from) \in 1 .. from
<1> DEFINE S == {k \in (n.snapshot_last_index + 1) .. from :
                    \A m \in k .. (from - 1) :
                        HasLogEntry(n, m) /\ GetLogEntry(n, m).term = term}
<1>1. n.snapshot_last_index + 1 = 1
  BY DEF LogOK
<1>2. S \subseteq 1 .. from /\ from \in S
  BY <1>1
<1>3. S \subseteq Nat /\ S # {} /\ FindFirstIndexForTerm(n, term, from) = Min(S)
  BY <1>2 DEF FindFirstIndexForTerm
<1> HIDE DEF S
<1> QED
  BY <1>2, <1>3, MinOfSet

\* The scan for the last index of a term ends at an index or fails.
LEMMA LastIndexIsIndex ==
    ASSUME NEW i, NEW n, LogOK(n, i), NEW term
    PROVE  FindLastIndexForTerm(n, term) # Nil => FindLastIndexForTerm(n, term) \in DOMAIN n.log
<1> DEFINE S == {k \in DOMAIN n.log : n.log[k].term <= term}
<1>1. /\ n.log \in Seq(LogEntry) /\ Len(n.log) \in Nat /\ n.snapshot_last_index = 0
      /\ \A k \in DOMAIN n.log : n.log[k].index = k
  BY LogFacts DEF LogOK, Contiguous
<1>2. S \subseteq 0 .. Len(n.log) /\ S \subseteq DOMAIN n.log
  BY <1>1
<1>3. S # {} => Max(S) \in S
  <2> HIDE DEF S
  <2> QED
    BY <1>1, <1>2, MaxOfSet
<1>4. FindLastIndexForTerm(n, term) \in {n.log[Max(S)].index, Nil}
      /\ (FindLastIndexForTerm(n, term) # Nil => S # {})
  BY <1>1 DEF FindLastIndexForTerm
<1> HIDE DEF S
<1> QED
  BY <1>1, <1>2, <1>3, <1>4

\* The hint of a rejection is well-formed.
LEMMA ConflictHintOK ==
    ASSUME NEW i, NEW n, LogOK(n, i), NEW req, AppendOK(req)
    PROVE  HintOK(ConflictHint(n, req))
<1> DEFINE prev == req.prev_log_index
           h == ConflictHint(n, req)
<1>1. /\ prev \in Nat /\ Len(n.log) \in Nat /\ LastLogIndex(n) = Len(n.log)
      /\ HasLogEntry(n, prev) <=> prev \in DOMAIN n.log
      /\ n.log \in Seq(LogEntry) /\ n.snapshot_last_index = 0
  BY LogFacts DEF AppendOK, LogOK
<1>2. CASE prev > LastLogIndex(n)
  <2>1. h = [conflict_term |-> Nil, conflict_index |-> LastLogIndex(n) + 1]
    BY <1>2 DEF ConflictHint
  <2> HIDE DEF h
  <2> QED
    BY <1>1, <2>1 DEF HintOK, h
<1>3. CASE ~(prev > LastLogIndex(n)) /\ prev = n.snapshot_last_index
  <2>1. h = [conflict_term |-> n.snapshot_last_term, conflict_index |-> n.snapshot_last_index]
    BY <1>3 DEF ConflictHint
  <2> HIDE DEF h
  <2> QED
    BY <1>1, <2>1 DEF HintOK, h
<1>4. CASE ~(prev > LastLogIndex(n)) /\ prev # n.snapshot_last_index
  <2> DEFINE term == GetLogEntry(n, prev).term
             first == FindFirstIndexForTerm(n, term, prev)
  <2>1. prev \in Nat \ {0} /\ HasLogEntry(n, prev)
    BY <1>1, <1>4
  <2>2. h = [conflict_term |-> term, conflict_index |-> first]
    BY <1>4, <2>1 DEF ConflictHint
  <2>3. first \in Nat
    BY <2>1, FirstIndexIsIndex
  <2> HIDE DEF h, first
  <2> QED
    BY <2>2, <2>3 DEF HintOK, h
<1> QED
  BY <1>2, <1>3, <1>4

\* Node n with another commit index.
Committing(n, commit) == [n EXCEPT !.commit_index = commit]

\* A new commit index that the log reaches, and applying up to it.
LEMMA CommitThenApply ==
    ASSUME SnapshotThreshold = 0,
           NEW i, NEW n, LogOK(n, i), NEW commit \in Nat, commit <= Len(n.log)
    PROVE  LET r == ApplyCommittedEntries(Committing(n, commit))
               last == IF n.last_applied >= commit THEN n.last_applied ELSE commit
           IN  /\ r.panicked = FALSE
               /\ r.applied = (n.last_applied + 1) .. last
               /\ LogOK(r.core, i) /\ SameButApplied(n, r.core)
               /\ AppliedUpTo(n, r.core, commit, last)
<1> DEFINE m == Committing(n, commit)
           r == ApplyCommittedEntries(m)
           last == IF n.last_applied >= commit THEN n.last_applied ELSE commit
<1>1. /\ SameButApplied(n, m) /\ m.commit_index = commit
      /\ m.last_applied = n.last_applied /\ m.sm = n.sm
  <2>1. DOMAIN n = CoreFields
    BY DEF LogOK
  <2> QED
    BY <2>1 DEF SameButApplied, CoreFields, Committing
<1> HIDE DEF m
<1>2. LogOK(m, i) /\ m.commit_index <= Len(m.log)
  BY <1>1 DEF LogOK, SameButApplied
<1>3. LET end == IF m.last_applied >= m.commit_index THEN m.last_applied ELSE m.commit_index
      IN  /\ r.panicked = FALSE
          /\ r.applied = (m.last_applied + 1) .. end
          /\ LogOK(r.core, i) /\ SameButApplied(m, r.core)
          /\ AppliedUpTo(m, r.core, m.commit_index, end)
  BY <1>2, ApplyAll
<1> HIDE DEF r
<1>4. /\ r.panicked = FALSE /\ r.applied = (n.last_applied + 1) .. last
      /\ LogOK(r.core, i) /\ SameButApplied(m, r.core)
      /\ AppliedUpTo(m, r.core, commit, last)
  BY <1>1, <1>3
<1> HIDE DEF last
<1>5. SameButApplied(n, r.core) /\ AppliedUpTo(n, r.core, commit, last)
  BY <1>1, <1>4 DEF SameButApplied, AppliedUpTo
<1> QED
  BY <1>4, <1>5 DEF last, r, m

\* A follower's commit index follows the leader's as far as its log goes, and
\* everything up to it is applied.
LEMMA AdvanceFollowerCommitOK ==
    ASSUME SnapshotThreshold = 0,
           NEW i, NEW n, LogOK(n, i), NEW leader_commit \in Nat
    PROVE  LET r == AdvanceFollowerCommit(n, leader_commit)
               commit == IF leader_commit <= n.commit_index THEN n.commit_index
                         ELSE IF leader_commit <= Len(n.log) THEN leader_commit ELSE Len(n.log)
               last == IF leader_commit <= n.commit_index \/ n.last_applied >= commit
                       THEN n.last_applied ELSE commit
           IN  /\ r.panicked = FALSE
               /\ LogOK(r.core, i) /\ SameButApplied(n, r.core)
               /\ AppliedUpTo(n, r.core, commit, last)
<1> DEFINE r == AdvanceFollowerCommit(n, leader_commit)
           commit == IF leader_commit <= n.commit_index THEN n.commit_index
                     ELSE IF leader_commit <= Len(n.log) THEN leader_commit ELSE Len(n.log)
           last == IF leader_commit <= n.commit_index \/ n.last_applied >= commit
                   THEN n.last_applied ELSE commit
<1>1. /\ n.commit_index \in Nat /\ n.last_applied \in Nat /\ Len(n.log) \in Nat
      /\ LastLogIndex(n) = Len(n.log) /\ DOMAIN n = CoreFields
  BY LogFacts DEF LogOK
<1>2. CASE leader_commit <= n.commit_index
  <2>1. r.panicked = FALSE /\ r.core = n
    BY <1>1, <1>2 DEF AdvanceFollowerCommit
  <2>2. SameButApplied(n, n) /\ AppliedUpTo(n, n, n.commit_index, n.last_applied)
    BY <1>1 DEF SameButApplied, AppliedUpTo
  <2>3. commit = n.commit_index /\ last = n.last_applied
    BY <1>2
  <2> HIDE DEF r, commit, last
  <2> QED
    BY <2>1, <2>2, <2>3 DEF r, commit, last
<1>3. CASE ~(leader_commit <= n.commit_index)
  <2>1. leader_commit > n.commit_index /\ Min({leader_commit, LastLogIndex(n)}) = commit
    BY <1>1, <1>3, MinOfTwo
  <2>2. r = ApplyCommittedEntries(Committing(n, commit))
    BY <2>1 DEF AdvanceFollowerCommit, Committing
  <2>3. commit \in Nat /\ commit <= Len(n.log)
    BY <1>1, <1>3
  <2>4. last = IF n.last_applied >= commit THEN n.last_applied ELSE commit
    BY <1>3
  <2> HIDE DEF commit, last, r
  <2>5. /\ r.panicked = FALSE
        /\ LogOK(r.core, i) /\ SameButApplied(n, r.core)
        /\ AppliedUpTo(n, r.core, commit, last)
    <3> DEFINE a == ApplyCommittedEntries(Committing(n, commit))
    <3>1. /\ a.panicked = FALSE
          /\ LogOK(a.core, i) /\ SameButApplied(n, a.core)
          /\ AppliedUpTo(n, a.core, commit,
                 IF n.last_applied >= commit THEN n.last_applied ELSE commit)
      BY <2>3, CommitThenApply
    <3>2. r = a
      BY <2>2
    <3> HIDE DEF a
    <3> QED
      BY <2>4, <3>1, <3>2
  <2> QED
    BY <2>5 DEF r, commit, last
<1> QED
  BY <1>2, <1>3

\* apply_entries repairs the log and leaves the rest of the node alone.
LEMMA ApplyEntriesRepairs ==
    ASSUME NEW i, NEW n, LogOK(n, i), NEW req, AppendOK(req), Consistent(n, req)
    PROVE  LET m == ApplyEntries(n, req.entries)
               last == req.prev_log_index + Len(req.entries)
           IN  /\ LogOK(m, i)
               /\ m.log = Repaired(n.log, req.prev_log_index, req.entries, last)
               /\ Len(m.log) >= last
               /\ m.current_term = n.current_term /\ m.state = n.state
               /\ m.commit_index = n.commit_index
               /\ m.last_applied = n.last_applied /\ m.sm = n.sm
               /\ m.next_index = n.next_index /\ m.match_index = n.match_index
<1> DEFINE prev == req.prev_log_index
           last == prev + Len(req.entries)
           r == Repaired(n.log, prev, req.entries, last)
           l == ReplayEntries([log |-> n.log, stored_log |-> n.stored_log],
                              n.snapshot_last_index, req.entries)
           m == ApplyEntries(n, req.entries)
<1>1. /\ Contiguous(n.log) /\ n.log \in Seq(LogEntry) /\ Len(n.log) \in Nat /\ prev \in Nat
      /\ Follows(req.entries, prev)
      /\ n.snapshot_last_index = 0 /\ n.stored_log = n.log /\ DOMAIN n = CoreFields
  BY LogFacts DEF LogOK, AppendOK
<1>2. prev \in 0 .. Len(n.log)
  BY <1>1 DEF Consistent
<1>3. ReplayEntries(Pair(n.log), 0, req.entries) = Pair(r) /\ Contiguous(r) /\ Len(r) >= last
  BY <1>1, <1>2, ReplayRepairs
<1>4. l = Pair(r)
  BY <1>1, <1>3 DEF Pair
<1>5. m = [n EXCEPT !.log = l.log, !.stored_log = l.stored_log]
  BY Zenon DEF ApplyEntries
<1> HIDE DEF l, r, m
<1>6. m = [n EXCEPT !.log = r, !.stored_log = r]
  BY <1>4, <1>5 DEF Pair
<1>7. /\ DOMAIN m = CoreFields /\ m.log = r /\ m.stored_log = r
      /\ m.current_term = n.current_term /\ m.stored_term = n.stored_term /\ m.state = n.state
      /\ m.snapshot_last_index = n.snapshot_last_index
      /\ m.snapshot_last_term = n.snapshot_last_term /\ m.stored_snapshot = n.stored_snapshot
      /\ m.commit_index = n.commit_index
      /\ m.last_applied = n.last_applied /\ m.sm = n.sm
      /\ m.next_index = n.next_index /\ m.match_index = n.match_index
  BY <1>1, <1>6 DEF CoreFields
<1>8. LogOK(m, i)
  BY <1>3, <1>7 DEF LogOK
<1>9. m.log = Repaired(n.log, prev, req.entries, last) /\ Len(m.log) >= last
  BY <1>3, <1>7 DEF r
<1> QED
  BY <1>7, <1>8, <1>9 DEF m

\* m is n after an AppendEntries that passed the consistency check.
Accepted(n, m, req) ==
    LET last == req.prev_log_index + Len(req.entries)
    IN  /\ m.current_term = req.term /\ m.state = "Follower"
        /\ m.log = Repaired(n.log, req.prev_log_index, req.entries, last)
        /\ Len(m.log) >= last
        /\ m.commit_index = IF req.leader_commit <= n.commit_index THEN n.commit_index
                            ELSE IF req.leader_commit <= Len(m.log) THEN req.leader_commit
                            ELSE Len(m.log)
        /\ m.last_applied = IF \/ req.leader_commit <= n.commit_index
                               \/ n.last_applied >= m.commit_index
                            THEN n.last_applied ELSE m.commit_index
        /\ \A k \in 1 .. n.last_applied : m.sm[k] = n.sm[k]
        /\ \A k \in (n.last_applied + 1) .. m.last_applied : m.sm[k] = m.log[k].command
        /\ m.next_index = n.next_index /\ m.match_index = n.match_index

\* handle_append_entries never panics.  It succeeds on requests of its term or a
\* later one that are consistent with its log, and repairs the log with them.
LEMMA HandleAppendEntriesOK ==
    ASSUME SnapshotThreshold = 0,
           NEW i, NEW n, LogOK(n, i), NEW req, AppendOK(req)
    PROVE  LET r == HandleAppendEntries(n, req)
           IN  /\ r.panicked = FALSE
               /\ r.resp.success \in BOOLEAN /\ HintOK(r.resp)
               /\ LogOK(r.core, i)
               /\ r.core.current_term =
                     IF req.term >= n.current_term THEN req.term ELSE n.current_term
               /\ r.core.state \in {n.state, "Follower"}
               /\ r.core.state = n.state \/ req.term >= n.current_term
               /\ IF r.resp.success
                  THEN /\ req.term >= n.current_term /\ Consistent(n, req)
                       /\ Accepted(n, r.core, req)
                  ELSE /\ Kept(n, r.core)
                       /\ req.term >= n.current_term => r.core.state = "Follower"
<1> DEFINE o == ObserveTerm(n, req.term)
           f == [o EXCEPT !.state = "Follower", !.current_leader = req.leader_id]
           a == ApplyEntries(f, req.entries)
           hint == ConflictHint(f, req)
           done == AdvanceFollowerCommit(a, req.leader_commit)
           Reply(success, term, index) ==
               [term |-> o.current_term, success |-> success,
                conflict_term |-> term, conflict_index |-> index]
           r == HandleAppendEntries(n, req)
           commit == IF req.leader_commit <= a.commit_index THEN a.commit_index
                     ELSE IF req.leader_commit <= Len(a.log) THEN req.leader_commit
                     ELSE Len(a.log)
           last == IF req.leader_commit <= a.commit_index \/ a.last_applied >= commit
                   THEN a.last_applied ELSE commit
<1>1. /\ n.current_term \in Nat /\ req.term \in Nat /\ req.leader_commit \in Nat
  BY DEF LogOK, AppendOK
<1>2. /\ Kept(n, o) /\ LogOK(o, i)
      /\ o.current_term = IF req.term >= n.current_term THEN req.term ELSE n.current_term
      /\ o.state \in {n.state, "Follower"}
      /\ o.state = n.state \/ req.term >= n.current_term
  <2>1. CASE req.term > n.current_term
    BY <1>1, <2>1, ObserveTermKept
  <2>2. CASE ~(req.term > n.current_term)
    <3>1. req.term <= n.current_term
      BY <1>1, <2>2
    <3>2. /\ Kept(n, o) /\ LogOK(o, i) /\ o = n
      BY <1>1, <3>1, ObserveTermKept
    <3> QED
      BY <1>1, <3>1, <3>2
  <2> QED
    BY <2>1, <2>2
<1>3. r = IF req.term < o.current_term
          THEN [core |-> o, resp |-> Reply(FALSE, Nil, Nil), panicked |-> FALSE]
          ELSE IF AcceptsPrev(f, req)
          THEN [core |-> done.core, resp |-> Reply(TRUE, Nil, Nil), panicked |-> done.panicked]
          ELSE [core |-> f, panicked |-> FALSE,
                resp |-> Reply(FALSE, hint.conflict_term, hint.conflict_index)]
  BY Zenon DEF HandleAppendEntries
<1> HIDE DEF o, r
<1>4. /\ Kept(n, f) /\ f.current_term = o.current_term /\ f.stored_term = o.stored_term
      /\ f.state = "Follower"
  BY <1>2 DEF Kept, LogOK, CoreFields
<1> HIDE DEF f
<1>5. LogOK(f, i)
  BY <1>2, <1>4, KeptOK DEF LogOK
<1>6. AcceptsPrev(f, req) <=> Consistent(n, req)
  BY <1>4, <1>5, AcceptsConsistent DEF Consistent, Kept
<1>7. HintOK(hint)
  BY <1>5, ConflictHintOK
<1> HIDE DEF hint
<1>9. CASE req.term < o.current_term
  <2>1. r.core = o /\ r.resp = Reply(FALSE, Nil, Nil) /\ r.panicked = FALSE
    BY <1>3, <1>9
  <2>2. HintOK(r.resp) /\ r.resp.success = FALSE
    BY <2>1 DEF HintOK
  <2>3. ~(req.term >= n.current_term)
    BY <1>1, <1>2, <1>9
  <2> QED
    BY <1>2, <2>1, <2>2, <2>3 DEF r
<1>10. CASE ~(req.term < o.current_term) /\ ~Consistent(n, req)
  <2>1. r.core = f /\ r.resp = Reply(FALSE, hint.conflict_term, hint.conflict_index)
        /\ r.panicked = FALSE
    BY <1>3, <1>6, <1>10
  <2>2. HintOK(r.resp) /\ r.resp.success = FALSE
    BY <1>7, <2>1 DEF HintOK
  <2>3. req.term >= n.current_term
    BY <1>1, <1>2, <1>10
  <2> QED
    BY <1>2, <1>4, <1>5, <2>1, <2>2, <2>3 DEF r
<1>11. CASE ~(req.term < o.current_term) /\ Consistent(n, req)
  <2>1. r.core = done.core /\ r.resp = Reply(TRUE, Nil, Nil) /\ r.panicked = done.panicked
    BY <1>3, <1>6, <1>11
  <2>2. HintOK(r.resp) /\ r.resp.success = TRUE
    BY <2>1 DEF HintOK
  <2>3. req.term >= n.current_term /\ o.current_term = req.term
    BY <1>1, <1>2, <1>11
  <2>4. Consistent(f, req)
    BY <1>4, <1>11 DEF Consistent, Kept
  <2>5. /\ LogOK(a, i)
        /\ a.log = Repaired(f.log, req.prev_log_index, req.entries,
                            req.prev_log_index + Len(req.entries))
        /\ Len(a.log) >= req.prev_log_index + Len(req.entries)
        /\ a.current_term = f.current_term /\ a.state = f.state
        /\ a.commit_index = f.commit_index
        /\ a.last_applied = f.last_applied /\ a.sm = f.sm
        /\ a.next_index = f.next_index /\ a.match_index = f.match_index
    BY <1>5, <2>4, ApplyEntriesRepairs
  <2> HIDE DEF a
  <2>6. /\ done.panicked = FALSE
        /\ LogOK(done.core, i) /\ SameButApplied(a, done.core)
        /\ AppliedUpTo(a, done.core, commit, last)
    BY <1>1, <2>5, AdvanceFollowerCommitOK
  <2> HIDE DEF done, commit, last
  <2>7. /\ done.core.current_term = req.term /\ done.core.state = "Follower"
        /\ done.core.log = a.log
        /\ done.core.next_index = n.next_index /\ done.core.match_index = n.match_index
    BY <1>4, <2>3, <2>5, <2>6 DEF SameButApplied, Kept
  <2>8. /\ a.log = Repaired(n.log, req.prev_log_index, req.entries,
                            req.prev_log_index + Len(req.entries))
        /\ a.commit_index = n.commit_index
        /\ a.last_applied = n.last_applied /\ a.sm = n.sm
    BY <1>4, <2>5 DEF Kept
  <2>9. /\ done.core.commit_index = commit /\ done.core.last_applied = last
        /\ \A k \in 1 .. n.last_applied : done.core.sm[k] = n.sm[k]
        /\ \A k \in (n.last_applied + 1) .. last : done.core.sm[k] = a.log[k].command
    BY <2>6, <2>8 DEF AppliedUpTo
  <2>10. /\ commit = IF req.leader_commit <= n.commit_index THEN n.commit_index
                     ELSE IF req.leader_commit <= Len(a.log) THEN req.leader_commit
                     ELSE Len(a.log)
         /\ last = IF req.leader_commit <= n.commit_index \/ n.last_applied >= commit
                   THEN n.last_applied ELSE commit
    BY <2>8 DEF commit, last
  <2>11. Accepted(n, done.core, req)
    BY <2>5, <2>7, <2>8, <2>9, <2>10 DEF Accepted
  <2> QED
    BY <1>11, <2>1, <2>2, <2>3, <2>6, <2>7, <2>11 DEF r
<1> QED
  BY <1>9, <1>10, <1>11

\* handle_request_vote, granted or not, leaves the log alone, and what it grants
\* goes to a candidate whose log is up to date.
LEMMA HandleRequestVoteKept ==
    ASSUME NEW i, NEW n, LogOK(n, i), NEW req, req.term \in Nat
    PROVE  LET r == HandleRequestVote(n, req)
           IN  /\ Kept(n, r.core) /\ LogOK(r.core, i)
               /\ r.panicked = FALSE
               /\ r.core.current_term =
                     IF req.term >= n.current_term THEN req.term ELSE n.current_term
               /\ \/ r.core.state = "Follower"
                  \/ r.core.state = n.state /\ r.core.current_term = n.current_term
               /\ r.resp.vote_granted =>
                     /\ req.term >= n.current_term
                     /\ IsLogUpToDate(n, req.last_log_term, req.last_log_index)
<1> DEFINE m == ObserveTerm(n, req.term)
           granted == /\ req.term >= n.current_term
                      /\ m.voted_for \in {Nil, req.candidate_id}
                      /\ IsLogUpToDate(m, req.last_log_term, req.last_log_index)
           given == SetVotedFor(m, req.candidate_id)
           r == HandleRequestVote(n, req)
<1>1. n.current_term \in Nat
  BY DEF LogOK
<1>2. /\ Kept(n, m) /\ LogOK(m, i)
      /\ m.current_term = IF req.term >= n.current_term THEN req.term ELSE n.current_term
      /\ m.state = "Follower" \/ (m.state = n.state /\ m.current_term = n.current_term)
  <2>1. CASE req.term > n.current_term
    BY <1>1, <2>1, ObserveTermKept
  <2>2. CASE ~(req.term > n.current_term)
    <3>1. req.term <= n.current_term
      BY <1>1, <2>2
    <3>2. /\ Kept(n, m) /\ LogOK(m, i) /\ m = n
      BY <1>1, <3>1, ObserveTermKept
    <3> QED
      BY <1>1, <3>1, <3>2
  <2> QED
    BY <2>1, <2>2
<1>3. /\ r.core = IF granted THEN given ELSE m
      /\ r.panicked = FALSE
      /\ r.resp.vote_granted = granted
  BY DEF HandleRequestVote
<1> HIDE DEF m
<1>4. /\ Kept(n, given) /\ given.current_term = m.current_term
      /\ given.stored_term = m.stored_term /\ given.state = m.state
  BY <1>2 DEF Kept, CoreFields, SetVotedFor
<1>5. m.current_term \in Nat /\ m.stored_term \in Nat
  BY <1>2 DEF LogOK
<1> HIDE DEF given
<1>6. LogOK(given, i)
  BY <1>4, <1>5, KeptOK
<1>7. IsLogUpToDate(m, req.last_log_term, req.last_log_index)
         <=> IsLogUpToDate(n, req.last_log_term, req.last_log_index)
  <2>1. LastLogTerm(m) = LastLogTerm(n) /\ LastLogIndex(m) = LastLogIndex(n)
    BY <1>2 DEF Kept, LastLogTerm, LastLogIndex
  <2> QED
    BY <2>1 DEF IsLogUpToDate
<1> HIDE DEF r
<1>8. r.resp.vote_granted =>
          /\ req.term >= n.current_term
          /\ IsLogUpToDate(n, req.last_log_term, req.last_log_index)
  BY <1>3, <1>7
<1>9. r.core \in {given, m}
  BY <1>3
<1> HIDE DEF granted
<1>10. /\ Kept(n, r.core) /\ LogOK(r.core, i)
       /\ r.core.current_term =
             IF req.term >= n.current_term THEN req.term ELSE n.current_term
       /\ \/ r.core.state = "Follower"
          \/ r.core.state = n.state /\ r.core.current_term = n.current_term
  BY <1>2, <1>4, <1>6, <1>9
<1> QED
  BY <1>3, <1>8, <1>10 DEF r

\* start_election leaves the log alone.
LEMMA StartElectionKept ==
    ASSUME NEW i, NEW n, LogOK(n, i)
    PROVE  LET m == StartElection(n, i)
           IN  /\ Kept(n, m) /\ LogOK(m, i)
               /\ m.current_term = n.current_term + 1 /\ m.state = "Candidate"
<1> DEFINE m == StartElection(n, i)
<1>1. /\ Kept(n, m) /\ m.current_term = n.current_term + 1 /\ m.stored_term = n.current_term + 1
      /\ m.state = "Candidate"
  BY DEF LogOK, Kept, CoreFields, StartElection, SetTerm, SetVotedFor
<1>2. n.current_term + 1 \in Nat
  BY DEF LogOK
<1> HIDE DEF m
<1>3. LogOK(m, i)
  BY <1>1, <1>2, KeptOK
<1> QED
  BY <1>1, <1>3 DEF m

\* A leader appends an entry of its own term to the end of its log.
LEMMA AppendOwnEntryOK ==
    ASSUME NEW i, NEW n, LogOK(n, i), NEW command \in Command \cup {Noop}
    PROVE  LET m == AppendOwnEntry(n, command)
           IN  /\ LogOK(m, i)
               /\ m.log \in Seq(LogEntry) /\ Len(m.log) = Len(n.log) + 1
               /\ m.log = Append(n.log, m.log[Len(m.log)])
               /\ m.log[Len(m.log)].term = n.current_term
               /\ m.log[Len(m.log)].command = command
               /\ m.current_term = n.current_term /\ m.state = n.state
               /\ m.votes_received = n.votes_received
               /\ m.commit_index = n.commit_index
               /\ m.last_applied = n.last_applied /\ m.sm = n.sm
               /\ m.next_index = n.next_index /\ m.match_index = n.match_index
<1> DEFINE e == [term |-> n.current_term, index |-> LastLogIndex(n) + 1, command |-> command]
           r == Append(n.log, e)
           m == AppendOwnEntry(n, command)
<1>1. /\ Contiguous(n.log) /\ n.log \in Seq(LogEntry) /\ Len(n.log) \in Nat
      /\ LastLogIndex(n) = Len(n.log) /\ n.stored_log = n.log /\ DOMAIN n = CoreFields
      /\ n.current_term \in Nat
  BY LogFacts DEF LogOK
<1>2. /\ e \in LogEntry /\ e.index = Len(n.log) + 1
      /\ e.term = n.current_term /\ e.command = command
  BY <1>1 DEF LogEntry
<1>3. m = [n EXCEPT !.log = Append(n.log, e), !.stored_log = AppendLogEntries(n.stored_log, <<e>>)]
  BY DEF AppendOwnEntry, PersistLogEntry
<1> HIDE DEF e, m
<1>4. /\ Contiguous(r) /\ Len(r) = Len(n.log) + 1 /\ r[Len(n.log) + 1] = e
      /\ AppendLogEntries(n.log, <<e>>) = r
  BY <1>1, <1>2, AppendNext
<1>5. m = [n EXCEPT !.log = r, !.stored_log = r]
  BY <1>1, <1>3, <1>4
<1>6. r = Append(n.log, r[Len(r)])
  BY <1>4
<1> HIDE DEF r
<1>7. /\ DOMAIN m = CoreFields /\ m.log = r /\ m.stored_log = r
      /\ m.current_term = n.current_term /\ m.stored_term = n.stored_term /\ m.state = n.state
      /\ m.votes_received = n.votes_received
      /\ m.snapshot_last_index = n.snapshot_last_index
      /\ m.snapshot_last_term = n.snapshot_last_term /\ m.stored_snapshot = n.stored_snapshot
      /\ m.commit_index = n.commit_index
      /\ m.last_applied = n.last_applied /\ m.sm = n.sm
      /\ m.next_index = n.next_index /\ m.match_index = n.match_index
  BY <1>1, <1>5 DEF CoreFields
<1>8. LogOK(m, i)
  BY <1>4, <1>7 DEF LogOK
<1>9. /\ m.log \in Seq(LogEntry) /\ Len(m.log) = Len(n.log) + 1
      /\ m.log[Len(m.log)] = e
  BY <1>4, <1>7 DEF Contiguous
<1>10. m.log = Append(n.log, m.log[Len(m.log)])
  BY <1>6, <1>7
<1> QED
  BY <1>2, <1>7, <1>8, <1>9, <1>10 DEF m

\* m is node i after it has won the election of its term as n.
Won(n, m, i) ==
    /\ m.log \in Seq(LogEntry) /\ Len(m.log) = Len(n.log) + 1
    /\ m.log = Append(n.log, m.log[Len(m.log)])
    /\ m.log[Len(m.log)].term = n.current_term
    /\ m.current_term = n.current_term /\ m.state = "Leader"
    /\ m.commit_index = n.commit_index
    /\ m.last_applied = n.last_applied /\ m.sm = n.sm
    /\ m.next_index = [p \in Peers(i) |-> Len(n.log) + 1]
    /\ m.match_index = [p \in Peers(i) |-> 0]

\* A winner starts its term with a no-op, and knows nothing of its peers' logs.
LEMMA BecomeLeaderOK ==
    ASSUME NEW i, NEW n, LogOK(n, i)
    PROVE  LogOK(BecomeLeader(n, i), i) /\ Won(n, BecomeLeader(n, i), i)
<1> DEFINE next == [p \in Peers(i) |-> LastLogIndex(n) + 1]
           match == [p \in Peers(i) |-> 0]
           l == [n EXCEPT !.state = "Leader", !.current_leader = i,
                          !.next_index = next, !.match_index = match]
<1>1. LastLogIndex(n) = Len(n.log) /\ Len(n.log) \in Nat
  BY LogFacts
<1>2. BecomeLeader(n, i) = AppendOwnEntry(l, Noop)
  BY DEF BecomeLeader
<1>3. next \in [Peers(i) -> Nat \ {0}] /\ match \in [Peers(i) -> Nat]
  BY <1>1
<1>4. next = [p \in Peers(i) |-> Len(n.log) + 1]
  BY <1>1
<1> HIDE DEF next, match
<1>5. /\ DOMAIN l = CoreFields /\ l.log = n.log /\ l.stored_log = n.stored_log
      /\ l.current_term = n.current_term /\ l.stored_term = n.stored_term /\ l.state = "Leader"
      /\ l.votes_received = n.votes_received
      /\ l.snapshot_last_index = n.snapshot_last_index
      /\ l.snapshot_last_term = n.snapshot_last_term /\ l.stored_snapshot = n.stored_snapshot
      /\ l.commit_index = n.commit_index
      /\ l.last_applied = n.last_applied /\ l.sm = n.sm
      /\ l.next_index = next /\ l.match_index = match
  BY DEF LogOK, CoreFields
<1> HIDE DEF l
<1>6. LogOK(l, i)
  BY <1>3, <1>5 DEF LogOK
<1> DEFINE m == AppendOwnEntry(l, Noop)
<1>7. /\ LogOK(m, i)
      /\ m.log \in Seq(LogEntry) /\ Len(m.log) = Len(l.log) + 1
      /\ m.log = Append(l.log, m.log[Len(m.log)])
      /\ m.log[Len(m.log)].term = l.current_term
      /\ m.current_term = l.current_term /\ m.state = l.state
      /\ m.votes_received = l.votes_received
      /\ m.commit_index = l.commit_index
      /\ m.last_applied = l.last_applied /\ m.sm = l.sm
      /\ m.next_index = l.next_index /\ m.match_index = l.match_index
  BY <1>6, AppendOwnEntryOK
<1> HIDE DEF m
<1> QED
  BY <1>2, <1>4, <1>5, <1>7 DEF match, m, Won

\* Counting a vote leaves the log alone, unless it wins the election.
LEMMA HandleRequestVoteResultOK ==
    ASSUME NEW i, NEW n, LogOK(n, i), NEW peer, NEW resp, resp.term \in Nat
    PROVE  LET r == HandleRequestVoteResult(n, i, peer, resp)
               m == r.core
           IN  /\ LogOK(m, i) /\ r.elected \in BOOLEAN
               /\ r.elected => n.state = "Candidate" /\ Won(n, m, i)
               /\ ~r.elected =>
                     /\ Kept(n, m)
                     /\ \/ m.current_term = n.current_term /\ m.state = n.state
                        \/ m.current_term > n.current_term /\ m.state = "Follower"
<1> DEFINE o == ObserveTerm(n, resp.term)
           counted == [o EXCEPT !.votes_received =
                          IF resp.vote_granted THEN @ \cup {peer} ELSE @]
           r == HandleRequestVoteResult(n, i, peer, resp)
<1>1. n.current_term \in Nat
  BY DEF LogOK
<1>2. /\ Kept(n, o) /\ LogOK(o, i)
      /\ \/ o = n
         \/ o.current_term > n.current_term /\ o.state = "Follower"
  <2>1. CASE resp.term > n.current_term
    BY <1>1, <2>1, ObserveTermKept
  <2>2. CASE ~(resp.term > n.current_term)
    <3>1. resp.term <= n.current_term
      BY <1>1, <2>2
    <3> QED
      BY <3>1, ObserveTermKept
  <2> QED
    BY <2>1, <2>2
<1>3. r = IF o.state # "Candidate"
          THEN [core |-> o, elected |-> FALSE]
          ELSE IF Cardinality(counted.votes_received) >= Majority
          THEN [core |-> BecomeLeader(counted, i), elected |-> TRUE]
          ELSE [core |-> counted, elected |-> FALSE]
  BY Zenon DEF HandleRequestVoteResult
<1> HIDE DEF o, r
<1>4. /\ Kept(o, counted) /\ counted.current_term = o.current_term
      /\ counted.stored_term = o.stored_term /\ counted.state = o.state
  BY <1>2 DEF Kept, CoreFields
<1> HIDE DEF counted
<1>5. LogOK(counted, i)
  <2>1. o.current_term \in Nat /\ o.stored_term \in Nat
    BY <1>2 DEF LogOK
  <2> QED
    BY <1>2, <1>4, <2>1, KeptOK
<1>6. CASE r = [core |-> o, elected |-> FALSE]
  BY <1>2, <1>6 DEF r
<1>7. CASE o.state = "Candidate" /\ r = [core |-> counted, elected |-> FALSE]
  <2>1. Kept(n, counted)
    BY <1>2, <1>4 DEF Kept
  <2>2. counted.current_term = n.current_term /\ counted.state = n.state
    BY <1>2, <1>4, <1>7
  <2> QED
    BY <1>5, <1>7, <2>1, <2>2 DEF r
<1>8. CASE o.state = "Candidate" /\ r = [core |-> BecomeLeader(counted, i), elected |-> TRUE]
  <2>1. LogOK(BecomeLeader(counted, i), i) /\ Won(counted, BecomeLeader(counted, i), i)
    BY <1>5, BecomeLeaderOK
  <2>2. /\ counted.log = n.log /\ counted.current_term = n.current_term
        /\ counted.commit_index = n.commit_index
        /\ counted.last_applied = n.last_applied /\ counted.sm = n.sm
        /\ n.state = "Candidate"
    BY <1>2, <1>4, <1>8 DEF Kept
  <2>3. Won(n, BecomeLeader(counted, i), i)
    BY <2>1, <2>2 DEF Won
  <2>4. r.core = BecomeLeader(counted, i) /\ r.elected = TRUE
    BY <1>8
  <2> QED
    BY <2>1, <2>2, <2>3, <2>4 DEF r
<1> QED
  BY <1>3, <1>6, <1>7, <1>8

\* m is leader n after an answer from a peer about the entries up to index last.
Tracked(n, m, peer, last, success) ==
    /\ m.log = n.log /\ m.current_term = n.current_term /\ m.state = n.state
    /\ \/ m.match_index = n.match_index
       \/ /\ success /\ last > n.match_index[peer]
          /\ m.match_index = [n.match_index EXCEPT ![peer] = last]
    /\ \A p \in DOMAIN n.next_index :
          m.next_index[p] <= n.next_index[p] \/ (success /\ m.next_index[p] = last + 1)
    /\ \/ /\ m.commit_index = n.commit_index
          /\ m.last_applied = n.last_applied /\ m.sm = n.sm
       \/ /\ m.commit_index = last /\ last > n.commit_index
          /\ last \in DOMAIN n.log /\ n.log[last].term = n.current_term
          /\ Cardinality({p \in DOMAIN m.match_index : m.match_index[p] >= last}) + 1 >= Majority
          /\ m.last_applied = IF n.last_applied >= last THEN n.last_applied ELSE last
          /\ \A k \in 1 .. n.last_applied : m.sm[k] = n.sm[k]
          /\ \A k \in (n.last_applied + 1) .. m.last_applied : m.sm[k] = n.log[k].command

\* Where a rejection makes the leader go on is an index, and not a later one.
LEMMA BackOff ==
    ASSUME NEW i, NEW n, LogOK(n, i), NEW peer \in Peers(i), NEW resp, HintOK(resp)
    PROVE  /\ NextIndexAfterReject(n, peer, resp) \in Nat \ {0}
           /\ NextIndexAfterReject(n, peer, resp) <= n.next_index[peer]
<1> DEFINE back == Max({n.next_index[peer] - 1, 1})
           last == FindLastIndexForTerm(n, resp.conflict_term)
           hinted == IF resp.conflict_term # Nil
                     THEN IF last # Nil THEN last + 1 ELSE resp.conflict_index
                     ELSE IF resp.conflict_index # Nil THEN resp.conflict_index
                     ELSE back
           top == Max({hinted, 1})
<1>1. n.next_index[peer] \in Nat \ {0}
  BY DEF LogOK
<1>2. back \in Nat \ {0} /\ back <= n.next_index[peer]
  <2>1. n.next_index[peer] - 1 \in Nat /\ 1 \in Nat
    BY <1>1
  <2>2. back = IF n.next_index[peer] - 1 >= 1 THEN n.next_index[peer] - 1 ELSE 1
    BY <2>1, MaxOfTwo
  <2> QED
    BY <1>1, <2>2
<1>3. last # Nil => last \in Nat
  <2>1. n.log \in Seq(LogEntry)
    BY LogFacts
  <2>2. DOMAIN n.log \subseteq Nat
    BY <2>1
  <2>3. last # Nil => last \in DOMAIN n.log
    BY LastIndexIsIndex
  <2> HIDE DEF last
  <2> QED
    BY <2>2, <2>3
<1>4. hinted \in Nat
  <2> HIDE DEF back, last
  <2> QED
    BY <1>2, <1>3 DEF HintOK
<1>5. NextIndexAfterReject(n, peer, resp) = Min({top, back})
  BY Zenon DEF NextIndexAfterReject
<1> HIDE DEF hinted, back
<1>6. top = IF hinted >= 1 THEN hinted ELSE 1
  BY <1>4, MaxOfTwo
<1>7. top \in Nat \ {0}
  BY <1>4, <1>6
<1> HIDE DEF top
<1>8. Min({top, back}) = IF top <= back THEN top ELSE back
  BY <1>2, <1>7, MinOfTwo
<1> QED
  BY <1>1, <1>2, <1>5, <1>7, <1>8

\* What is known of a peer after its answer.
LEMMA TrackReplicationOK ==
    ASSUME NEW i, NEW n, LogOK(n, i), NEW peer \in Peers(i), NEW last \in Nat,
           NEW resp, HintOK(resp), resp.success \in BOOLEAN
    PROVE  LET m == TrackReplication(n, peer, last, resp)
           IN  /\ LogOK(m, i)
               /\ Tracked(n, m, peer, last, resp.success)
               /\ m.commit_index = n.commit_index
               /\ m.last_applied = n.last_applied /\ m.sm = n.sm
<1> DEFINE m == TrackReplication(n, peer, last, resp)
<1>1. /\ n.next_index \in [Peers(i) -> Nat \ {0}] /\ n.match_index \in [Peers(i) -> Nat]
      /\ DOMAIN n = CoreFields
  BY DEF LogOK
<1>2. ASSUME NEW next, next \in [Peers(i) -> Nat \ {0}],
             NEW match, match \in [Peers(i) -> Nat],
             NEW k, DOMAIN k = CoreFields,
             k.next_index = next, k.match_index = match,
             k.current_term = n.current_term, k.stored_term = n.stored_term,
             k.log = n.log, k.stored_log = n.stored_log,
             k.snapshot_last_index = n.snapshot_last_index,
             k.snapshot_last_term = n.snapshot_last_term,
             k.stored_snapshot = n.stored_snapshot, k.commit_index = n.commit_index,
             k.last_applied = n.last_applied, k.sm = n.sm
      PROVE  LogOK(k, i)
  BY <1>2 DEF LogOK
<1>3. CASE ~resp.success
  <2> DEFINE b == NextIndexAfterReject(n, peer, resp)
             next == [n.next_index EXCEPT ![peer] = b]
  <2>1. b \in Nat \ {0} /\ b <= n.next_index[peer]
    BY BackOff
  <2>2. m = [n EXCEPT !.next_index[peer] = b]
    BY <1>3 DEF TrackReplication
  <2> HIDE DEF b, m
  <2>3. next \in [Peers(i) -> Nat \ {0}]
    BY <1>1, <2>1
  <2>4. \A p \in DOMAIN n.next_index : next[p] <= n.next_index[p]
    BY <1>1, <2>1
  <2>5. /\ DOMAIN m = CoreFields /\ m.next_index = next /\ m.match_index = n.match_index
        /\ m.current_term = n.current_term /\ m.stored_term = n.stored_term /\ m.state = n.state
        /\ m.log = n.log /\ m.stored_log = n.stored_log
        /\ m.snapshot_last_index = n.snapshot_last_index
        /\ m.snapshot_last_term = n.snapshot_last_term
        /\ m.stored_snapshot = n.stored_snapshot /\ m.commit_index = n.commit_index
        /\ m.last_applied = n.last_applied /\ m.sm = n.sm
    BY <1>1, <2>2 DEF CoreFields
  <2> HIDE DEF next
  <2>6. LogOK(m, i)
    BY <1>1, <2>3, <2>5 DEF LogOK
  <2>7. Tracked(n, m, peer, last, resp.success)
    BY <2>4, <2>5 DEF Tracked
  <2> QED
    BY <2>5, <2>6, <2>7 DEF m
<1>4. CASE resp.success /\ last > 0
  <2> DEFINE old == n.match_index[peer]
             new == Max({old, last})
             next == [n.next_index EXCEPT ![peer] = last + 1]
             match == [n.match_index EXCEPT ![peer] = new]
  <2>1. m = [n EXCEPT !.match_index[peer] = new, !.next_index[peer] = last + 1]
    BY <1>4 DEF TrackReplication
  <2>2. old \in Nat
    BY <1>1
  <2>3. new = IF old >= last THEN old ELSE last
    BY <2>2, MaxOfTwo
  <2> HIDE DEF new, m
  <2>4. next \in [Peers(i) -> Nat \ {0}] /\ match \in [Peers(i) -> Nat]
    BY <1>1, <2>2, <2>3
  <2>5. \A p \in DOMAIN n.next_index : next[p] <= n.next_index[p] \/ next[p] = last + 1
    BY <1>1
  <2>6. \/ match = n.match_index
        \/ last > old /\ match = [n.match_index EXCEPT ![peer] = last]
    BY <1>1, <2>2, <2>3
  <2>7. /\ DOMAIN m = CoreFields /\ m.next_index = next /\ m.match_index = match
        /\ m.current_term = n.current_term /\ m.stored_term = n.stored_term /\ m.state = n.state
        /\ m.log = n.log /\ m.stored_log = n.stored_log
        /\ m.snapshot_last_index = n.snapshot_last_index
        /\ m.snapshot_last_term = n.snapshot_last_term
        /\ m.stored_snapshot = n.stored_snapshot /\ m.commit_index = n.commit_index
        /\ m.last_applied = n.last_applied /\ m.sm = n.sm
    BY <1>1, <2>1 DEF CoreFields
  <2> HIDE DEF next, match
  <2>8. LogOK(m, i)
    BY <2>4, <2>7 DEF LogOK
  <2>9. Tracked(n, m, peer, last, resp.success)
    BY <1>4, <2>5, <2>6, <2>7 DEF Tracked
  <2> QED
    BY <2>7, <2>8, <2>9 DEF m
<1>5. CASE resp.success /\ ~(last > 0)
  <2>1. m = n
    BY <1>5 DEF TrackReplication
  <2>2. \A p \in DOMAIN n.next_index : n.next_index[p] <= n.next_index[p]
    BY <1>1
  <2>3. Tracked(n, n, peer, last, resp.success)
    BY <2>2 DEF Tracked
  <2> QED
    BY <2>1, <2>3
<1> QED
  BY <1>3, <1>4, <1>5

\* What handle_append_entries_result makes of node n with the answer of a peer: no
\* panic, and what a leader commits is an entry of its log that a majority has.
ResultTaken(n, i, peer, last, resp) ==
    LET r == HandleAppendEntriesResult(n, peer, last, resp)
        m == r.core
    IN  /\ r.panicked = FALSE
        /\ LogOK(m, i)
        /\ IF m.state = "Leader"
           THEN /\ n.state = "Leader" /\ Tracked(n, m, peer, last, resp.success)
                /\ r.applied = (n.last_applied + 1) .. m.last_applied
           ELSE /\ Kept(n, m) /\ r.applied = {}
                /\ \/ m.current_term = n.current_term /\ m.state = n.state
                   \/ m.current_term > n.current_term /\ m.state = "Follower"

LEMMA HandleAppendEntriesResultOK ==
    ASSUME SnapshotThreshold = 0,
           NEW i, NEW n, LogOK(n, i), NEW peer \in Peers(i), NEW last \in Nat,
           NEW resp, HintOK(resp), resp.success \in BOOLEAN, resp.term \in Nat
    PROVE  ResultTaken(n, i, peer, last, resp)
<1> SUFFICES LET r == HandleAppendEntriesResult(n, peer, last, resp)
                 m == r.core
             IN  /\ r.panicked = FALSE
                 /\ LogOK(m, i)
                 /\ IF m.state = "Leader"
                    THEN /\ n.state = "Leader" /\ Tracked(n, m, peer, last, resp.success)
                         /\ r.applied = (n.last_applied + 1) .. m.last_applied
                    ELSE /\ Kept(n, m) /\ r.applied = {}
                         /\ \/ m.current_term = n.current_term /\ m.state = n.state
                            \/ m.current_term > n.current_term /\ m.state = "Follower"
  BY Zenon DEF ResultTaken
<1> DEFINE o == ObserveTerm(n, resp.term)
           t == TrackReplication(o, peer, last, resp)
           r == HandleAppendEntriesResult(n, peer, last, resp)
<1>1. n.current_term \in Nat /\ n.last_applied \in Nat
  BY DEF LogOK
<1>2. /\ Kept(n, o) /\ LogOK(o, i)
      /\ \/ o = n
         \/ o.current_term > n.current_term /\ o.state = "Follower"
  <2>1. CASE resp.term > n.current_term
    BY <1>1, <2>1, ObserveTermKept
  <2>2. CASE ~(resp.term > n.current_term)
    <3>1. resp.term <= n.current_term
      BY <1>1, <2>2
    <3> QED
      BY <3>1, ObserveTermKept
  <2> QED
    BY <2>1, <2>2
<1>3. r = IF o.state # "Leader"
          THEN [core |-> o, applied |-> {}, panicked |-> FALSE]
          ELSE IF CanCommit(t, last)
          THEN ApplyCommittedEntries(Committing(t, last))
          ELSE [core |-> t, applied |-> {}, panicked |-> FALSE]
  BY Zenon DEF HandleAppendEntriesResult, Committing
<1> HIDE DEF o, r
<1>4. CASE o.state # "Leader"
  <2>1. r.core = o /\ r.applied = {} /\ r.panicked = FALSE
    BY <1>3, <1>4
  <2>2. \/ o.current_term = n.current_term /\ o.state = n.state
        \/ o.current_term > n.current_term /\ o.state = "Follower"
    BY <1>2
  <2> QED
    BY <1>2, <1>4, <2>1, <2>2 DEF r
<1>5. CASE o.state = "Leader"
  <2>1. o = n
    BY <1>2, <1>5
  <2>2. /\ LogOK(t, i) /\ Tracked(n, t, peer, last, resp.success)
        /\ t.commit_index = n.commit_index
        /\ t.last_applied = n.last_applied /\ t.sm = n.sm
    BY <2>1, TrackReplicationOK
  <2> HIDE DEF t
  <2>3. t.log = n.log /\ t.current_term = n.current_term /\ t.state = "Leader"
    BY <1>5, <2>1, <2>2 DEF Tracked
  <2>4. CASE ~CanCommit(t, last)
    <3>1. r.core = t /\ r.applied = {} /\ r.panicked = FALSE
      BY <1>3, <1>5, <2>4
    <3>2. (n.last_applied + 1) .. t.last_applied = {}
      BY <1>1, <2>2
    <3> QED
      BY <1>5, <2>1, <2>2, <2>3, <3>1, <3>2 DEF r
  <2>5. CASE CanCommit(t, last)
    <3>1. /\ last > t.commit_index
          /\ last \in DOMAIN t.log /\ t.log[last].term = t.current_term
          /\ Cardinality({p \in DOMAIN t.match_index : t.match_index[p] >= last}) + 1 >= Majority
      BY <2>2, <2>5, LogFacts DEF CanCommit
    <3>2. last <= Len(t.log)
      <4>1. t.log \in Seq(LogEntry)
        BY <2>2, LogFacts
      <4> QED
        BY <3>1, <4>1
    <3> DEFINE a == ApplyCommittedEntries(Committing(t, last))
               end == IF t.last_applied >= last THEN t.last_applied ELSE last
    <3>3. /\ a.panicked = FALSE
          /\ a.applied = (t.last_applied + 1) .. end
          /\ LogOK(a.core, i) /\ SameButApplied(t, a.core)
          /\ AppliedUpTo(t, a.core, last, end)
      BY <2>2, <3>2, CommitThenApply
    <3>4. r = a
      BY <1>3, <1>5, <2>5
    <3> HIDE DEF a
    <3>5. /\ a.core.log = n.log /\ a.core.current_term = n.current_term /\ a.core.state = "Leader"
          /\ a.core.match_index = t.match_index /\ a.core.next_index = t.next_index
      BY <2>3, <3>3 DEF SameButApplied
    <3>6. /\ a.core.commit_index = last /\ a.core.last_applied = end
          /\ \A k \in 1 .. n.last_applied : a.core.sm[k] = n.sm[k]
          /\ \A k \in (n.last_applied + 1) .. end : a.core.sm[k] = n.log[k].command
      BY <2>2, <2>3, <3>3 DEF AppliedUpTo
    <3>7. end = IF n.last_applied >= last THEN n.last_applied ELSE last
      BY <2>2
    <3> HIDE DEF end
    <3>8. Tracked(n, a.core, peer, last, resp.success)
      BY <1>5, <2>1, <2>2, <2>3, <3>1, <3>5, <3>6, <3>7 DEF Tracked
    <3>9. a.applied = (n.last_applied + 1) .. a.core.last_applied
      BY <2>2, <3>3, <3>6
    <3> QED
      BY <1>5, <2>1, <3>3, <3>4, <3>5, <3>8, <3>9 DEF r
  <2> QED
    BY <2>4, <2>5
<1> QED
  BY <1>4, <1>5

(***************************************************************************)
(* The fields that elections use, with and without snapshots.              *)
(***************************************************************************)

\* The fields elections use are the same in n and m.
SameVote(n, m) ==
    /\ DOMAIN m = CoreFields
    /\ m.current_term = n.current_term /\ m.voted_for = n.voted_for
    /\ m.stored_term = n.stored_term /\ m.stored_voted_for = n.stored_voted_for
    /\ m.state = n.state /\ m.votes_received = n.votes_received

\* ApplyEntries changes the logs only.
LEMMA ApplyEntriesSame ==
    ASSUME NEW n, DOMAIN n = CoreFields, NEW entries
    PROVE  SameVote(n, ApplyEntries(n, entries))
BY DEF SameVote, ApplyEntries, CoreFields

\* AppendOwnEntry changes the logs only.
LEMMA AppendOwnEntrySame ==
    ASSUME NEW n, DOMAIN n = CoreFields, NEW command
    PROVE  SameVote(n, AppendOwnEntry(n, command))
BY DEF SameVote, AppendOwnEntry, CoreFields

\* Applying entries, with the snapshot it may take, leaves elections alone.
LEMMA ApplyCommittedEntriesSame ==
    ASSUME NEW n, DOMAIN n = CoreFields
    PROVE  SameVote(n, ApplyCommittedEntries(n).core)
<1>1. ASSUME NEW m, DOMAIN m = CoreFields
      PROVE  SameVote(m, TakeSnapshot(m))
  BY <1>1 DEF SameVote, TakeSnapshot, CoreFields
<1>2. ASSUME NEW a, NEW s
      PROVE  SameVote(n, [n EXCEPT !.last_applied = a, !.sm = s])
  BY DEF SameVote, CoreFields
<1>3. ASSUME NEW m, SameVote(n, m), NEW a
      PROVE  SameVote(n, [m EXCEPT !.last_applied = a])
  BY <1>3 DEF SameVote, CoreFields
<1> DEFINE missing == {k \in (n.last_applied + 1) .. n.commit_index : ~HasLogEntry(n, k)}
           last == IF missing # {} THEN Min(missing) - 1
                   ELSE Max({n.last_applied, n.commit_index})
           applied == (n.last_applied + 1) .. last
           output == [k \in 1 .. Cardinality(applied) |->
                         GetLogEntry(n, n.last_applied + k).command]
           m == [n EXCEPT !.last_applied = last, !.sm = @ \o output]
<1>4. ApplyCommittedEntries(n).core
        \in {m, TakeSnapshot(m), [m EXCEPT !.last_applied = @ + 1]}
  <2> DEFINE panic == [core |-> [m EXCEPT !.last_applied = @ + 1],
                       applied |-> applied, panicked |-> TRUE]
             big == SnapshotThreshold > 0
                    /\ m.last_applied - m.snapshot_last_index >= SnapshotThreshold
             done == [core |-> IF big THEN TakeSnapshot(m) ELSE m,
                      applied |-> applied, panicked |-> FALSE]
  <2>1. ApplyCommittedEntries(n) = IF missing # {} THEN panic ELSE done
    BY Zenon DEF ApplyCommittedEntries
  <2> HIDE DEF m, big, missing, applied
  <2> QED
    BY <2>1
<1>5. SameVote(n, m)
  BY <1>2
<1> HIDE DEF m
<1>6. SameVote(n, TakeSnapshot(m))
  BY <1>1, <1>5 DEF SameVote
<1>7. SameVote(n, [m EXCEPT !.last_applied = @ + 1])
  BY <1>3, <1>5
<1> QED
  BY <1>4, <1>5, <1>6, <1>7

\* SameVote composes with itself.
LEMMA SameVoteTrans ==
    ASSUME NEW n, NEW m, NEW k, SameVote(n, m), SameVote(m, k)
    PROVE  SameVote(n, k)
BY DEF SameVote

\* A follower's commit, with what it applies, leaves elections alone.
LEMMA AdvanceFollowerCommitSame ==
    ASSUME NEW n, DOMAIN n = CoreFields, NEW leader_commit
    PROVE  SameVote(n, AdvanceFollowerCommit(n, leader_commit).core)
<1> DEFINE m == [n EXCEPT !.commit_index = Min({leader_commit, LastLogIndex(n)})]
<1>1. SameVote(n, n) /\ SameVote(n, m) /\ DOMAIN m = CoreFields
  BY DEF SameVote, CoreFields
<1>2. SameVote(m, ApplyCommittedEntries(m).core)
  BY <1>1, ApplyCommittedEntriesSame
<1>3. SameVote(n, ApplyCommittedEntries(m).core)
  BY <1>1, <1>2, SameVoteTrans
<1>4. AdvanceFollowerCommit(n, leader_commit).core \in {n, ApplyCommittedEntries(m).core}
  BY DEF AdvanceFollowerCommit
<1> QED
  BY <1>1, <1>3, <1>4
=============================================================================
