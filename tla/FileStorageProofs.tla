-------------------------- MODULE FileStorageProofs --------------------------
(***************************************************************************)
(* A vote that was answered stays on disk, wherever the process is killed, *)
(* and the votes of a node that is killed and started again are ballots:   *)
(* the term is written before the vote, both before anything else of the   *)
(* handler, and all of them before the answer.                             *)
(***************************************************************************)
EXTENDS FileStorage, RaftCoreProofs

(***************************************************************************)
(* Writes.                                                                 *)
(***************************************************************************)

FileOps == {"create", "part", "write"}
LogOps == {"entry", "checksum", "feed", "truncate", "compact"}

\* A write that leaves the term and the vote alone.
Elsewhere(w) ==
    \/ w.file = "snapshot" /\ w.op \in FileOps
    \/ w.file = "log" /\ w.op \in LogOps

IsSeq(s) == \E S : s \in Seq(S)

\* Writes of other files.
Aside(s) == IsSeq(s) /\ \A k \in 1 .. Len(s) : Elsewhere(s[k])

\* Writes of the term of n up to index a, of its vote up to index b, and of other
\* files from there on.  The last write of a file is what n says; a vote may be
\* cleared before.
VotesFirst(s, a, b, n) ==
    /\ IsSeq(s)
    /\ a \in 0 .. b /\ b \in 0 .. Len(s)
    /\ \A k \in 1 .. a :
          /\ s[k].file = "term" /\ s[k].op \in FileOps
          /\ s[k].op = "write" => s[k].data = n.current_term
    /\ \A k \in (a + 1) .. b :
          /\ s[k].file = "voted_for" /\ s[k].op \in FileOps
          /\ s[k].op = "write" => s[k].data \in {Nil, n.voted_for}
    /\ a > 0 => s[a].op = "write"
    /\ b > a => s[b].op = "write" /\ s[b].data = n.voted_for
    /\ \A k \in (b + 1) .. Len(s) : Elsewhere(s[k])

\* They are all for the vote that n has.
OneVote(s, b, n) == \A k \in 1 .. b : s[k].op = "write" => s[k].data = n.voted_for

LEMMA SeqsJoin ==
    ASSUME NEW s, IsSeq(s), NEW r, IsSeq(r)
    PROVE  /\ IsSeq(s \o r) /\ Len(s) \in Nat /\ Len(r) \in Nat
           /\ Len(s \o r) = Len(s) + Len(r)
           /\ \A k \in 1 .. Len(s) : (s \o r)[k] = s[k]
           /\ \A k \in (Len(s) + 1) .. (Len(s) + Len(r)) : (s \o r)[k] = r[k - Len(s)]
<1>1. PICK S : s \in Seq(S)
  BY DEF IsSeq
<1>2. PICK R : r \in Seq(R)
  BY DEF IsSeq
<1>3. PICK T : T = S \cup R
  OBVIOUS
<1>4. s \in Seq(T) /\ r \in Seq(T)
  BY <1>1, <1>2, <1>3
<1> QED
  BY <1>4, Joined DEF IsSeq

LEMMA AsidesJoin ==
    ASSUME NEW s, Aside(s), NEW r, Aside(r)
    PROVE  Aside(s \o r)
<1>1. /\ IsSeq(s \o r) /\ Len(s) \in Nat /\ Len(r) \in Nat
      /\ Len(s \o r) = Len(s) + Len(r)
      /\ \A k \in 1 .. Len(s) : (s \o r)[k] = s[k]
      /\ \A k \in (Len(s) + 1) .. (Len(s) + Len(r)) : (s \o r)[k] = r[k - Len(s)]
  BY SeqsJoin DEF Aside
<1>2. ASSUME NEW k \in 1 .. Len(s \o r) PROVE Elsewhere((s \o r)[k])
  <2>1. CASE k <= Len(s)
    BY <1>1, <2>1 DEF Aside
  <2>2. CASE ~(k <= Len(s))
    <3>1. k \in (Len(s) + 1) .. (Len(s) + Len(r)) /\ k - Len(s) \in 1 .. Len(r)
      BY <1>1, <2>2
    <3> QED
      BY <1>1, <3>1 DEF Aside
  <2> QED
    BY <2>1, <2>2
<1> QED
  BY <1>1, <1>2 DEF Aside

LEMMA AsideLast ==
    ASSUME NEW s, NEW a, NEW b, NEW n, VotesFirst(s, a, b, n), NEW r, Aside(r)
    PROVE  VotesFirst(s \o r, a, b, n) /\ (OneVote(s, b, n) => OneVote(s \o r, b, n))
<1>1. /\ IsSeq(s \o r) /\ Len(s) \in Nat /\ Len(r) \in Nat
      /\ Len(s \o r) = Len(s) + Len(r)
      /\ \A k \in 1 .. Len(s) : (s \o r)[k] = s[k]
      /\ \A k \in (Len(s) + 1) .. (Len(s) + Len(r)) : (s \o r)[k] = r[k - Len(s)]
  BY SeqsJoin DEF Aside, VotesFirst
<1>2. a \in 0 .. b /\ b \in 0 .. Len(s)
  BY DEF VotesFirst
<1>3. \A k \in 1 .. b : (s \o r)[k] = s[k]
  BY <1>1, <1>2
<1>4. ASSUME NEW k \in (b + 1) .. Len(s \o r) PROVE Elsewhere((s \o r)[k])
  <2>1. CASE k <= Len(s)
    BY <1>1, <1>2, <2>1 DEF VotesFirst
  <2>2. CASE ~(k <= Len(s))
    <3>1. k \in (Len(s) + 1) .. (Len(s) + Len(r)) /\ k - Len(s) \in 1 .. Len(r)
      BY <1>1, <1>2, <2>2
    <3> QED
      BY <1>1, <3>1 DEF Aside
  <2> QED
    BY <1>1, <1>2, <2>1, <2>2
<1> QED
  BY <1>1, <1>2, <1>3, <1>4 DEF VotesFirst, OneVote

(***************************************************************************)
(* What the handlers write.                                                *)
(***************************************************************************)

LEMMA NothingWritten == Aside(<<>>) /\ \A n : VotesFirst(<<>>, 0, 0, n) /\ OneVote(<<>>, 0, n)
<1>1. IsSeq(<<>>) /\ Len(<<>>) = 0
  <2>1. <<>> \in Seq({})
    OBVIOUS
  <2> QED
    BY <2>1 DEF IsSeq
<1> QED
  BY <1>1 DEF Aside, VotesFirst, OneVote

\* save_term and its like, in system calls.
LEMMA FileWritten ==
    ASSUME NEW file, NEW data, NEW s, s = WriteWithChecksum(file, data)
    PROVE  /\ IsSeq(s) /\ Len(s) = 3
           /\ \A k \in 1 .. 3 : s[k].file = file /\ s[k].op \in FileOps
           /\ \A k \in 1 .. 3 : s[k].op = "write" => s[k].data = data
           /\ s[3].op = "write"
<1>1. s = <<Write(file, "create", Nil), Write(file, "part", Nil), Write(file, "write", data)>>
  BY DEF WriteWithChecksum
<1>2. IsSeq(s) /\ Len(s) = 3
  <2> DEFINE S == {Write(file, "create", Nil), Write(file, "part", Nil),
                   Write(file, "write", data)}
  <2>1. s \in Seq(S)
    BY <1>1
  <2> QED
    BY <1>1, <2>1 DEF IsSeq
<1>3. /\ s[1] = Write(file, "create", Nil) /\ s[2] = Write(file, "part", Nil)
      /\ s[3] = Write(file, "write", data)
  BY <1>1
<1>4. \A k \in 1 .. 3 : k = 1 \/ k = 2 \/ k = 3
  OBVIOUS
<1> QED
  BY <1>2, <1>3, <1>4 DEF Write, FileOps

LEMMA TermFirst ==
    ASSUME NEW n
    PROVE  VotesFirst(SaveTerm(n.current_term), 3, 3, n) /\ Len(SaveTerm(n.current_term)) = 3
<1>1. PICK s : s = WriteWithChecksum("term", n.current_term)
  OBVIOUS
<1>2. /\ IsSeq(s) /\ Len(s) = 3
      /\ \A k \in 1 .. 3 : s[k].file = "term" /\ s[k].op \in FileOps
      /\ \A k \in 1 .. 3 : s[k].op = "write" => s[k].data = n.current_term
      /\ s[3].op = "write"
  BY <1>1, FileWritten
<1>3. VotesFirst(s, 3, 3, n)
  BY <1>2 DEF VotesFirst
<1> QED
  BY <1>1, <1>2, <1>3 DEF SaveTerm

\* The vote follows writes of the term and of an earlier vote.
LEMMA VoteLast ==
    ASSUME NEW m, NEW n, m.current_term = n.current_term,
           m.voted_for \in {Nil, n.voted_for},
           NEW s, NEW a, VotesFirst(s, a, Len(s), m),
           NEW r, r = s \o SaveVotedFor(n.voted_for)
    PROVE  /\ VotesFirst(r, a, Len(s) + 3, n)
           /\ s = <<>> => OneVote(r, 3, n)
           /\ Len(r) = Len(s) + 3
<1>1. PICK x : x = WriteWithChecksum("voted_for", n.voted_for)
  OBVIOUS
<1>2. /\ IsSeq(x) /\ Len(x) = 3
      /\ \A k \in 1 .. 3 : x[k].file = "voted_for" /\ x[k].op \in FileOps
      /\ \A k \in 1 .. 3 : x[k].op = "write" => x[k].data = n.voted_for
      /\ x[3].op = "write"
  BY <1>1, FileWritten
<1>3. r = s \o x
  BY <1>1 DEF SaveVotedFor
<1>4. /\ IsSeq(r) /\ Len(s) \in Nat /\ Len(r) = Len(s) + 3
      /\ \A k \in 1 .. Len(s) : r[k] = s[k]
      /\ \A k \in (Len(s) + 1) .. (Len(s) + 3) : r[k] = x[k - Len(s)]
  <2>1. IsSeq(s)
    BY DEF VotesFirst
  <2>2. /\ IsSeq(s \o x) /\ Len(s) \in Nat /\ Len(s \o x) = Len(s) + Len(x)
        /\ \A k \in 1 .. Len(s) : (s \o x)[k] = s[k]
        /\ \A k \in (Len(s) + 1) .. (Len(s) + Len(x)) : (s \o x)[k] = x[k - Len(s)]
    BY <1>2, <2>1, SeqsJoin, ZenonT(40)
  <2> QED
    BY <1>2, <1>3, <2>2
<1>5. a \in 0 .. Len(s)
  BY DEF VotesFirst
<1>6. \A k \in 1 .. a : r[k] = s[k]
  BY <1>4, <1>5
<1>7. ASSUME NEW k \in (a + 1) .. (Len(s) + 3)
      PROVE  /\ r[k].file = "voted_for" /\ r[k].op \in FileOps
             /\ r[k].op = "write" => r[k].data \in {Nil, n.voted_for}
  <2>1. CASE k <= Len(s)
    BY <1>4, <1>5, <2>1 DEF VotesFirst
  <2>2. CASE ~(k <= Len(s))
    <3>1. k \in (Len(s) + 1) .. (Len(s) + 3) /\ k - Len(s) \in 1 .. 3
      BY <1>4, <1>5, <2>2
    <3> QED
      BY <1>2, <1>4, <3>1
  <2> QED
    BY <2>1, <2>2
<1>8. r[Len(s) + 3] = x[3]
  BY <1>4
<1>9. s = <<>> => OneVote(r, 3, n)
  <2> SUFFICES ASSUME s = <<>>, NEW k \in 1 .. 3
               PROVE  r[k].op = "write" => r[k].data = n.voted_for
    BY DEF OneVote
  <2>1. Len(s) = 0
    OBVIOUS
  <2>2. k \in (Len(s) + 1) .. (Len(s) + 3) /\ k - Len(s) = k
    BY <2>1
  <2>3. r[k] = x[k]
    BY <1>4, <2>2
  <2> QED
    BY <1>2, <2>3
<1>10. \A k \in (Len(s) + 3 + 1) .. Len(r) : FALSE
  BY <1>4
<1>11. a \in 0 .. (Len(s) + 3) /\ Len(s) + 3 \in 0 .. Len(r)
  BY <1>4, <1>5
<1> QED
  BY <1>2, <1>4, <1>6, <1>7, <1>8, <1>9, <1>10, <1>11 DEF VotesFirst

LEMMA EntryAside == \A e : Aside(AppendEntry(e))
<1> SUFFICES ASSUME NEW e, NEW s, s = AppendEntry(e) PROVE Aside(s)
  OBVIOUS
<1>1. s = <<Write("log", "entry", e), Write("log", "checksum", e), Write("log", "feed", e)>>
  BY DEF AppendEntry
<1>2. IsSeq(s) /\ Len(s) = 3
  <2> DEFINE S == {Write("log", "entry", e), Write("log", "checksum", e), Write("log", "feed", e)}
  <2>1. s \in Seq(S)
    BY <1>1
  <2> QED
    BY <1>1, <2>1 DEF IsSeq
<1>3. /\ s[1] = Write("log", "entry", e) /\ s[2] = Write("log", "checksum", e)
      /\ s[3] = Write("log", "feed", e)
  BY <1>1
<1>4. \A k \in 1 .. 3 : k = 1 \/ k = 2 \/ k = 3
  OBVIOUS
<1> QED
  BY <1>2, <1>3, <1>4 DEF Write, LogOps, Elsewhere, Aside

LEMMA RewriteAside == \A op \in {"truncate", "compact"} : \A index : Aside(RewriteLog(op, index))
<1> SUFFICES ASSUME NEW op \in {"truncate", "compact"}, NEW index,
                    NEW s, s = RewriteLog(op, index)
             PROVE Aside(s)
  OBVIOUS
<1>1. s = <<Write("log", op, index)>>
  BY DEF RewriteLog
<1>2. IsSeq(s) /\ Len(s) = 1
  <2>1. s \in Seq({Write("log", op, index)})
    BY <1>1
  <2> QED
    BY <1>1, <2>1 DEF IsSeq
<1> QED
  BY <1>1, <1>2 DEF Write, LogOps, Elsewhere, Aside

LEMMA SnapshotAside == \A s : Aside(SaveSnapshot(s))
<1> SUFFICES ASSUME NEW d, NEW s, s = SaveSnapshot(d) PROVE Aside(s)
  OBVIOUS
<1>1. s = WriteWithChecksum("snapshot", d)
  BY DEF SaveSnapshot
<1>2. IsSeq(s) /\ Len(s) = 3 /\ \A k \in 1 .. 3 : s[k].file = "snapshot" /\ s[k].op \in FileOps
  BY <1>1, FileWritten
<1> QED
  BY <1>2 DEF Aside, Elsewhere

\* take_snapshot and handle_install_snapshot write the snapshot and the log.
LEMMA SnapshotWritesAside == \A n, m : Aside(SnapshotWrites(n, m))
<1> SUFFICES ASSUME NEW n, NEW m PROVE Aside(SnapshotWrites(n, m))
  OBVIOUS
<1>1. /\ Aside(SaveSnapshot(m.stored_snapshot))
      /\ Aside(RewriteLog("compact", m.snapshot_last_index + 1))
  BY SnapshotAside, RewriteAside
<1>2. Aside(SaveSnapshot(m.stored_snapshot) \o RewriteLog("compact", m.snapshot_last_index + 1))
  BY <1>1, AsidesJoin
<1> QED
  BY <1>2, NothingWritten DEF SnapshotWrites

\* One entry.
LEMMA EntryWritesAside == \A l, offset, entry : Aside(EntryWrites(l, offset, entry))
<1> SUFFICES ASSUME NEW l, NEW offset, NEW entry PROVE Aside(EntryWrites(l, offset, entry))
  OBVIOUS
<1> DEFINE cut == IF entry.index - 1 < Len(l.log) THEN RewriteLog("truncate", entry.index)
                  ELSE <<>>
<1>1. Aside(cut) /\ Aside(AppendEntry(entry))
  BY EntryAside, RewriteAside, NothingWritten
<1>2. Aside(cut \o AppendEntry(entry))
  <2> HIDE DEF cut
  <2> QED
    BY <1>1, AsidesJoin
<1> QED
  BY <1>1, <1>2, NothingWritten DEF EntryWrites

\* All entries of a request: the writes for k of them exist for every k.
LEMMA EntriesWritesBuilt ==
    ASSUME NEW n, NEW entries, Len(entries) \in Nat
    PROVE  \E K :
              /\ K[0] = <<>> /\ EntriesWrites(n, entries) = K[Len(entries)]
              /\ \A k \in 1 .. Len(entries) :
                    K[k] = K[k - 1] \o
                           EntryWrites(ReplayEntries([log |-> n.log, stored_log |-> n.stored_log],
                                                     n.snapshot_last_index,
                                                     SubSeq(entries, 1, k - 1)),
                                       n.snapshot_last_index, entries[k])
<1> DEFINE start == [log |-> n.log, stored_log |-> n.stored_log]
           One(k) == EntryWrites(ReplayEntries(start, n.snapshot_last_index,
                                               SubSeq(entries, 1, k - 1)),
                                 n.snapshot_last_index, entries[k])
           Body(f, k) == IF k = 0 THEN <<>> ELSE f[k - 1] \o One(k)
           K == CHOOSE f : f = [k \in 0 .. Len(entries) |-> Body(f, k)]
           Done(m, f) == f = [k \in 0 .. m |-> Body(f, k)]
           D == {m \in Nat : \E f : Done(m, f)}
<1>1. EntriesWrites(n, entries) = K[Len(entries)]
  BY Zenon DEF EntriesWrites
<1> HIDE DEF One
<1>2. 0 \in D
  <2> DEFINE f == [k \in 0 .. 0 |-> <<>>]
  <2>1. f = [k \in 0 .. 0 |-> Body(f, k)]
    OBVIOUS
  <2> QED
    BY <2>1
<1>3. ASSUME NEW m \in Nat, m \in D PROVE m + 1 \in D
  <2>1. PICK f : Done(m, f)
    BY <1>3
  <2> DEFINE g == [k \in 0 .. (m + 1) |-> IF k = m + 1 THEN f[m] \o One(k) ELSE f[k]]
  <2>2. ASSUME NEW k \in 0 .. (m + 1) PROVE g[k] = Body(g, k)
    <3>1. CASE k = m + 1
      <4>1. k # 0 /\ k - 1 = m /\ k - 1 \in 0 .. (m + 1) /\ k - 1 # m + 1
        BY <3>1
      <4> QED
        BY <3>1, <4>1
    <3>2. CASE k # m + 1
      <4>1. k \in 0 .. m /\ (k # 0 => k - 1 \in 0 .. (m + 1) /\ k - 1 # m + 1)
        BY <3>2
      <4>2. f[k] = Body(f, k)
        BY <2>1, <4>1
      <4> QED
        BY <3>2, <4>1, <4>2
    <3> QED
      BY <3>1, <3>2
  <2>3. Done(m + 1, g)
    <3>1. g = [k \in 0 .. (m + 1) |-> g[k]]
      OBVIOUS
    <3> HIDE DEF g
    <3> QED
      BY <2>2, <3>1
  <2> HIDE DEF g, Done
  <2> QED
    BY <2>3
<1>4. Len(entries) \in D
  <2> HIDE DEF D
  <2> QED
    BY <1>2, <1>3, NumbersInduction
<1>5. K = [k \in 0 .. Len(entries) |-> Body(K, k)]
  <2>1. \E f : f = [k \in 0 .. Len(entries) |-> Body(f, k)]
    BY <1>4
  <2> HIDE DEF Body
  <2> QED
    BY <2>1, Zenon
<1> HIDE DEF K
<1>6. K[0] = <<>>
  BY <1>5
<1>7. ASSUME NEW k \in 1 .. Len(entries) PROVE K[k] = K[k - 1] \o One(k)
  <2>1. k \in 0 .. Len(entries) /\ k # 0
    OBVIOUS
  <2> QED
    BY <1>5, <2>1
<1> QED
  BY <1>1, <1>6, <1>7 DEF One

LEMMA EntriesWritesAside ==
    ASSUME NEW n, NEW entries, Len(entries) \in Nat
    PROVE  Aside(EntriesWrites(n, entries))
<1> DEFINE One(k) == EntryWrites(ReplayEntries([log |-> n.log, stored_log |-> n.stored_log],
                                               n.snapshot_last_index,
                                               SubSeq(entries, 1, k - 1)),
                                 n.snapshot_last_index, entries[k])
<1>1. PICK K : /\ K[0] = <<>> /\ EntriesWrites(n, entries) = K[Len(entries)]
               /\ \A k \in 1 .. Len(entries) : K[k] = K[k - 1] \o One(k)
  BY EntriesWritesBuilt
<1>2. ASSUME NEW k PROVE Aside(One(k))
  BY EntryWritesAside
<1> HIDE DEF One
<1> DEFINE A == {k \in Nat : k <= Len(entries) => Aside(K[k])}
<1>3. 0 \in A
  BY <1>1, NothingWritten
<1>4. ASSUME NEW k \in Nat, k \in A PROVE k + 1 \in A
  <2> SUFFICES ASSUME k + 1 <= Len(entries) PROVE Aside(K[k + 1])
    OBVIOUS
  <2>1. Aside(K[k])
    BY <1>4
  <2>2. K[k + 1] = K[k] \o One(k + 1)
    <3>1. k + 1 \in 1 .. Len(entries) /\ (k + 1) - 1 = k
      OBVIOUS
    <3> QED
      BY <1>1, <3>1
  <2> QED
    BY <1>2, <2>1, <2>2, AsidesJoin
<1>5. \A k \in Nat : k \in A
  <2> HIDE DEF A
  <2> QED
    BY <1>3, <1>4, NumbersInduction
<1> QED
  BY <1>1, <1>5

(***************************************************************************)
(* What a handler does to the term and the vote, in memory and on disk.    *)
(***************************************************************************)

\* A node as far as elections see it.
BallotOK(n) ==
    DOMAIN n = CoreFields /\ n.current_term \in Nat /\ n.voted_for \in Server \cup {Nil}

SameBallot(n, m) ==
    DOMAIN m = DOMAIN n /\ m.current_term = n.current_term /\ m.voted_for = n.voted_for

\* m is n after a handler that writes s: the term and the vote are new, or the vote
\* is given in the term that n has, or both are kept.
Turn(n, m, s) ==
    /\ BallotOK(m)
    /\ \E a, b :
          /\ VotesFirst(s, a, b, m)
          /\ \/ m.current_term > n.current_term /\ a > 0 /\ b > a
             \/ m.current_term = n.current_term /\ a = 0 /\ b = 0 /\ m.voted_for = n.voted_for
             \/ /\ m.current_term = n.current_term /\ a = 0 /\ b > 0
                /\ n.voted_for \in {Nil, m.voted_for} /\ OneVote(s, b, m)

\* update_term.
LEMMA TermTurn ==
    ASSUME NEW n, BallotOK(n), NEW t \in Nat
    PROVE  /\ Turn(n, ObserveTerm(n, t), TermWrites(n, t))
           /\ t > n.current_term =>
                 /\ ObserveTerm(n, t).current_term = t /\ ObserveTerm(n, t).voted_for = Nil
                 /\ VotesFirst(TermWrites(n, t), 3, 6, ObserveTerm(n, t))
                 /\ Len(TermWrites(n, t)) = 6
           /\ t <= n.current_term => ObserveTerm(n, t) = n /\ TermWrites(n, t) = <<>>
<1>1. CASE t > n.current_term
  <2>1. PICK m : m = ObserveTerm(n, t)
    OBVIOUS
  <2>2. BallotOK(m) /\ m.current_term = t /\ m.voted_for = Nil
    BY <1>1, <2>1 DEF BallotOK, CoreFields, ObserveTerm, UpdateTerm, SetTerm, SetVotedFor
  <2>3. PICK s : s = SaveTerm(t)
    OBVIOUS
  <2>4. VotesFirst(s, 3, Len(s), m) /\ Len(s) = 3
    <3>1. VotesFirst(SaveTerm(m.current_term), 3, 3, m) /\ Len(SaveTerm(m.current_term)) = 3
      BY TermFirst
    <3> QED
      BY <2>2, <2>3, <3>1
  <2>5. PICK r : r = s \o SaveVotedFor(m.voted_for)
    OBVIOUS
  <2>6. VotesFirst(r, 3, Len(s) + 3, m) /\ Len(r) = Len(s) + 3
    <3>1. PICK k : k = m
      OBVIOUS
    <3>2. k.current_term = m.current_term /\ k.voted_for = m.voted_for
      BY <3>1
    <3>3. VotesFirst(s, 3, Len(s), m)
      BY <2>4
    <3>4. r = s \o SaveVotedFor(k.voted_for)
      BY <2>5, <3>2
    <3>5. VotesFirst(r, 3, Len(s) + 3, k)
      BY <3>2, <3>3, <3>4, VoteLast
    <3>6. Len(r) = Len(s) + 3
      BY <3>2, <3>3, <3>4, VoteLast
    <3> QED
      BY <3>1, <3>5, <3>6
  <2>7. VotesFirst(r, 3, 6, m) /\ Len(r) = 6
    BY <2>4, <2>6
  <2>8. r = TermWrites(n, t)
    BY <1>1, <2>2, <2>3, <2>5 DEF TermWrites
  <2>9. Turn(n, m, r)
    BY <1>1, <2>2, <2>7 DEF Turn
  <2> QED
    BY <1>1, <2>1, <2>2, <2>7, <2>8, <2>9 DEF BallotOK
<1>2. CASE ~(t > n.current_term)
  <2>1. ObserveTerm(n, t) = n /\ TermWrites(n, t) = <<>>
    BY <1>2 DEF ObserveTerm, TermWrites
  <2>2. VotesFirst(<<>>, 0, 0, n)
    BY NothingWritten
  <2>3. Turn(n, n, <<>>)
    BY <2>2 DEF Turn
  <2> QED
    BY <1>2, <2>1, <2>3 DEF BallotOK
<1> QED
  BY <1>1, <1>2

\* What a handler writes after the term and the vote.
LEMMA TurnAside ==
    ASSUME NEW n, NEW m, NEW s, Turn(n, m, s), NEW k, SameBallot(m, k), NEW r, Aside(r)
    PROVE  Turn(n, k, s \o r)
<1>1. PICK a, b :
          /\ VotesFirst(s, a, b, m)
          /\ \/ m.current_term > n.current_term /\ a > 0 /\ b > a
             \/ m.current_term = n.current_term /\ a = 0 /\ b = 0 /\ m.voted_for = n.voted_for
             \/ /\ m.current_term = n.current_term /\ a = 0 /\ b > 0
                /\ n.voted_for \in {Nil, m.voted_for} /\ OneVote(s, b, m)
  BY DEF Turn
<1>2. VotesFirst(s, a, b, k) /\ (OneVote(s, b, m) => OneVote(s, b, k))
  BY <1>1 DEF VotesFirst, OneVote, SameBallot
<1>3. VotesFirst(s \o r, a, b, k) /\ (OneVote(s, b, k) => OneVote(s \o r, b, k))
  BY <1>2, AsideLast
<1>4. BallotOK(k) /\ k.current_term = m.current_term /\ k.voted_for = m.voted_for
  BY DEF Turn, BallotOK, SameBallot
<1> QED
  BY <1>1, <1>2, <1>3, <1>4 DEF Turn

\* handle_request_vote.
LEMMA RequestVoteTurn ==
    ASSUME NEW n, BallotOK(n), NEW req, req.term \in Nat, req.candidate_id \in Server,
           NEW s, s = TermWrites(n, req.term) \o
                      (IF HandleRequestVote(n, req).resp.vote_granted
                       THEN SaveVotedFor(req.candidate_id) ELSE <<>>)
    PROVE  /\ Turn(n, HandleRequestVote(n, req).core, s)
           /\ HandleRequestVote(n, req).resp.vote_granted =>
                 /\ HandleRequestVote(n, req).core.current_term = req.term
                 /\ HandleRequestVote(n, req).core.voted_for = req.candidate_id
<1>1. PICK m : m = ObserveTerm(n, req.term)
  OBVIOUS
<1>2. PICK w : w = TermWrites(n, req.term)
  OBVIOUS
<1>3. /\ Turn(n, m, w)
      /\ req.term > n.current_term =>
            /\ m.current_term = req.term /\ m.voted_for = Nil
            /\ VotesFirst(w, 3, 6, m) /\ Len(w) = 6
      /\ req.term <= n.current_term => m = n /\ w = <<>>
  BY <1>1, <1>2, TermTurn
<1>4. BallotOK(m)
  BY <1>3 DEF Turn
<1>5. CASE ~HandleRequestVote(n, req).resp.vote_granted
  <2>1. HandleRequestVote(n, req).core = m
    BY <1>1, <1>5 DEF HandleRequestVote
  <2>2. s = w \o <<>>
    BY <1>2, <1>5
  <2>3. SameBallot(m, m)
    BY DEF SameBallot
  <2> QED
    BY <1>3, <1>5, <2>1, <2>2, <2>3, NothingWritten, TurnAside
<1>6. CASE HandleRequestVote(n, req).resp.vote_granted
  <2>1. PICK k : k = SetVotedFor(m, req.candidate_id)
    OBVIOUS
  <2>2. /\ HandleRequestVote(n, req).core = k
        /\ req.term >= n.current_term /\ m.voted_for \in {Nil, req.candidate_id}
    BY <1>1, <1>6, <2>1 DEF HandleRequestVote
  <2>3. /\ BallotOK(k) /\ k.current_term = m.current_term
        /\ k.voted_for = req.candidate_id
    BY <1>4, <2>1 DEF BallotOK, CoreFields, SetVotedFor
  <2>4. s = w \o SaveVotedFor(k.voted_for)
    BY <1>2, <1>6, <2>3
  <2>5. CASE req.term > n.current_term
    <3>1. VotesFirst(w, 3, Len(w), m) /\ Len(w) = 6
      BY <1>3, <2>5
    <3>2. VotesFirst(s, 3, Len(w) + 3, k)
      BY <2>2, <2>3, <2>4, <3>1, VoteLast
    <3>3. VotesFirst(s, 3, 9, k)
      BY <3>1, <3>2
    <3>4. k.current_term = req.term
      BY <1>3, <2>3, <2>5
    <3>5. Turn(n, k, s)
      BY <2>3, <2>5, <3>3, <3>4 DEF Turn
    <3> QED
      BY <2>2, <2>3, <3>4, <3>5
  <2>6. CASE ~(req.term > n.current_term)
    <3>1. req.term = n.current_term /\ m = n /\ w = <<>>
      BY <1>3, <2>2, <2>6 DEF BallotOK
    <3>2. Len(w) = 0 /\ VotesFirst(w, 0, Len(w), m)
      <4>1. VotesFirst(<<>>, 0, 0, m)
        BY NothingWritten
      <4>2. Len(w) = 0
        BY <3>1
      <4> QED
        BY <3>1, <4>1, <4>2
    <3>3. VotesFirst(s, 0, Len(w) + 3, k) /\ OneVote(s, 3, k)
      <4>1. m.current_term = k.current_term /\ m.voted_for \in {Nil, k.voted_for}
        BY <2>2, <2>3
      <4>2. VotesFirst(w, 0, Len(w), m)
        BY <3>2
      <4>3. w = <<>>
        BY <3>1
      <4> QED
        BY <2>4, <4>1, <4>2, <4>3, VoteLast, Zenon
    <3>4. VotesFirst(s, 0, 3, k)
      BY <3>2, <3>3
    <3>5. Turn(n, k, s)
      BY <2>2, <2>3, <3>1, <3>3, <3>4 DEF Turn
    <3> QED
      BY <2>2, <2>3, <3>1, <3>5
  <2> QED
    BY <2>5, <2>6
<1> QED
  BY <1>5, <1>6

\* handle_append_entries.
LEMMA AppendEntriesTurn ==
    ASSUME NEW n, BallotOK(n), NEW req, req.term \in Nat, Len(req.entries) \in Nat,
           NEW s, s = TermWrites(n, req.term) \o
                      (IF HandleAppendEntries(n, req).resp.success
                       THEN EntriesWrites(n, req.entries) ELSE <<>>) \o
                      SnapshotWrites(n, HandleAppendEntries(n, req).core)
    PROVE  Turn(n, HandleAppendEntries(n, req).core, s)
<1> DEFINE m == ObserveTerm(n, req.term)
           f == [m EXCEPT !.state = "Follower", !.current_leader = req.leader_id]
           done == AdvanceFollowerCommit(ApplyEntries(f, req.entries), req.leader_commit)
           k == HandleAppendEntries(n, req).core
           e == IF HandleAppendEntries(n, req).resp.success
                THEN EntriesWrites(n, req.entries) ELSE <<>>
<1>1. Turn(n, m, TermWrites(n, req.term))
  BY TermTurn
<1>2. BallotOK(m)
  BY <1>1 DEF Turn
<1>3. DOMAIN f = CoreFields /\ SameBallot(m, f)
  BY <1>2 DEF BallotOK, SameBallot, CoreFields
<1>4. SameBallot(m, done.core)
  <2> HIDE DEF f, m
  <2>1. SameVote(f, ApplyEntries(f, req.entries))
    BY <1>3, ApplyEntriesSame
  <2>2. SameVote(ApplyEntries(f, req.entries), done.core)
    <3>1. DOMAIN ApplyEntries(f, req.entries) = CoreFields
      BY <2>1 DEF SameVote
    <3> QED
      BY <3>1, AdvanceFollowerCommitSame
  <2> HIDE DEF done
  <2> QED
    BY <1>3, <2>1, <2>2 DEF SameVote, SameBallot
<1>5. k \in {m, f, done.core}
  <2>1. PICK g : g = f
    OBVIOUS
  <2>2. PICK o : o = m
    OBVIOUS
  <2>3. PICK d : d = done
    OBVIOUS
  <2>4. k \in {o, g, d.core}
    <3>1. d = AdvanceFollowerCommit(ApplyEntries(g, req.entries), req.leader_commit)
      BY <2>1, <2>3
    <3> QED
      BY <2>1, <2>2, <3>1 DEF HandleAppendEntries
  <2> QED
    BY <2>1, <2>2, <2>3, <2>4
<1>6. SameBallot(m, k)
  <2>1. SameBallot(m, m)
    BY DEF SameBallot
  <2> HIDE DEF m, f, done, k
  <2> QED
    BY <1>3, <1>4, <1>5, <2>1
<1>7. Aside(e)
  BY EntriesWritesAside, NothingWritten
<1>8. SameBallot(k, k) /\ Aside(SnapshotWrites(n, k))
  BY SnapshotWritesAside DEF SameBallot
<1>9. s = (TermWrites(n, req.term) \o e) \o SnapshotWrites(n, k)
  OBVIOUS
<1> HIDE DEF m, k, e
<1>10. Turn(n, k, TermWrites(n, req.term) \o e)
  BY <1>1, <1>6, <1>7, TurnAside
<1>11. Turn(n, k, (TermWrites(n, req.term) \o e) \o SnapshotWrites(n, k))
  BY <1>8, <1>10, TurnAside
<1> QED
  BY <1>9, <1>11 DEF k

\* handle_install_snapshot.
LEMMA InstallSnapshotTurn ==
    ASSUME NEW n, BallotOK(n), NEW req, req.term \in Nat,
           NEW s, s = TermWrites(n, req.term) \o
                      SnapshotWrites(n, HandleInstallSnapshot(n, req).core)
    PROVE  Turn(n, HandleInstallSnapshot(n, req).core, s)
<1>1. PICK m : m = ObserveTerm(n, req.term)
  OBVIOUS
<1>2. PICK k : k = HandleInstallSnapshot(n, req).core
  OBVIOUS
<1>3. /\ Turn(n, m, TermWrites(n, req.term))
      /\ req.term <= n.current_term => m = n
  BY <1>1, TermTurn
<1>4. BallotOK(m)
  BY <1>3 DEF Turn
<1>5. SameBallot(m, k)
  <2>1. CASE req.term < n.current_term
    <3>1. k = n /\ m = n
      BY <1>2, <1>3, <2>1 DEF HandleInstallSnapshot, BallotOK
    <3> QED
      BY <3>1 DEF SameBallot
  <2>2. CASE ~(req.term < n.current_term)
    BY <1>1, <1>2, <1>4, <2>2 DEF HandleInstallSnapshot, BallotOK, SameBallot, CoreFields
  <2> QED
    BY <2>1, <2>2
<1>6. Aside(SnapshotWrites(n, k))
  BY SnapshotWritesAside
<1>7. Turn(n, k, TermWrites(n, req.term) \o SnapshotWrites(n, k))
  BY <1>3, <1>5, <1>6, TurnAside
<1> QED
  BY <1>2, <1>7

\* start_election.
LEMMA StartElectionTurn ==
    ASSUME NEW n, BallotOK(n), NEW i \in Server, NEW m, m = StartElection(n, i),
           NEW s, s = SaveTerm(m.current_term) \o SaveVotedFor(i)
    PROVE  /\ Turn(n, m, s)
           /\ m.current_term = n.current_term + 1 /\ m.voted_for = i
<1>1. /\ BallotOK(m) /\ m.current_term = n.current_term + 1 /\ m.voted_for = i
  BY DEF BallotOK, CoreFields, StartElection, SetTerm, SetVotedFor
<1>2. PICK w : w = SaveTerm(m.current_term)
  OBVIOUS
<1>3. VotesFirst(w, 3, Len(w), m) /\ Len(w) = 3
  BY <1>2, TermFirst
<1>4. s = w \o SaveVotedFor(m.voted_for)
  BY <1>1, <1>2
<1>5. VotesFirst(s, 3, Len(w) + 3, m)
  BY <1>3, <1>4, VoteLast
<1>6. VotesFirst(s, 3, 6, m)
  BY <1>3, <1>5
<1>7. m.current_term > n.current_term
  BY <1>1 DEF BallotOK
<1> QED
  BY <1>1, <1>6, <1>7 DEF Turn

(***************************************************************************)
(* The files of the term and of the vote, while a handler writes them.     *)
(***************************************************************************)

\* A load of the file returns a value a handler meant it to hold.
Valued(file) == file.is \in {"absent", "whole"}

FileOK(file, S) == file \in {Absent, Emptied, Torn} \/ \E x \in S : file = Whole(x)

DiskOK(d) ==
    /\ DOMAIN d = {"term", "voted_for", "snapshot", "log"}
    /\ FileOK(d.term, Nat) /\ FileOK(d.voted_for, Server \cup {Nil})

VotesOK(cast) == \A v \in cast : v.voter = Self /\ v.term \in Nat /\ v.candidate \in Server

\* A start from d could not give another vote in the term of v, were a torn file
\* left to be written.
Binds(d, v) ==
    Valued(d.term) =>
        \/ LoadTerm(d) > v.term
        \/ LoadTerm(d) = v.term /\ (Valued(d.voted_for) => LoadVotedFor(d) = v.candidate)

\* The node keeps to the votes it has answered.
Honours(n, cast) ==
    \A v \in cast : \/ v.term < n.current_term
                    \/ v.term = n.current_term /\ n.voted_for = v.candidate

\* The writes s bring d to the term and the vote of n, the term first.  If they
\* write the term or another vote before that of n, the term is a new one.
Settles(d, s, n, cast) ==
    \E a, b :
        /\ VotesFirst(s, a, b, n)
        /\ a > 0 \/ ~OneVote(s, b, n) => \A v \in cast : v.term < n.current_term
        /\ a = 0 => Valued(d.term) /\ LoadTerm(d) = n.current_term
        /\ a = b => Valued(d.voted_for) /\ LoadVotedFor(d) = n.voted_for

\* A write of another file.
LEMMA PerformElsewhere ==
    ASSUME NEW d, DiskOK(d), NEW w, Elsewhere(w), NEW e, e = Perform(d, w)
    PROVE  DiskOK(e) /\ e.term = d.term /\ e.voted_for = d.voted_for
<1>1. CASE w.file = "snapshot" /\ w.op \in FileOps
  <2>1. PICK x : e = [d EXCEPT !["snapshot"] = x]
    BY <1>1 DEF Perform, FileOps
  <2> QED
    BY <2>1 DEF DiskOK
<1>2. CASE w.file = "log" /\ w.op \in LogOps
  <2>1. e = d \/ \E x : e = [d EXCEPT !.log = x]
    BY <1>2 DEF Perform, LogOps
  <2> QED
    BY <2>1 DEF DiskOK
<1> QED
  BY <1>1, <1>2 DEF Elsewhere

\* A write of the term or of the vote.
LEMMA PerformFile ==
    ASSUME NEW d, DiskOK(d), NEW w, w.file \in {"term", "voted_for"}, w.op \in FileOps,
           NEW e, e = Perform(d, w)
    PROVE  /\ DOMAIN e = DOMAIN d
           /\ w.file = "term" => e.voted_for = d.voted_for
           /\ w.file = "voted_for" => e.term = d.term
           /\ w.op = "write" => e[w.file] = Whole(w.data)
           /\ w.op # "write" => e[w.file] \in {Emptied, Torn}
<1>1. \/ w.op = "create" /\ e = [d EXCEPT ![w.file] = Emptied]
      \/ w.op = "part" /\ e = [d EXCEPT ![w.file] = Torn]
      \/ w.op = "write" /\ e = [d EXCEPT ![w.file] = Whole(w.data)]
  BY DEF Perform, FileOps
<1>2. w.file \in DOMAIN d
  BY DEF DiskOK
<1>3. PICK x : e = [d EXCEPT ![w.file] = x] /\ (w.op = "write" => x = Whole(w.data))
                /\ (w.op # "write" => x \in {Emptied, Torn})
  BY <1>1
<1> QED
  BY <1>2, <1>3 DEF DiskOK

\* What a load makes of each state of a file.
LEMMA FileValues ==
    /\ Valued(Absent) /\ ~Valued(Emptied) /\ ~Valued(Torn)
    /\ \A x : Valued(Whole(x))
    /\ \A d, x : d.term = Whole(x) => LoadTerm(d) = x
    /\ \A d, x : d.voted_for = Whole(x) => LoadVotedFor(d) = x
    /\ \A d : d.term = Absent => LoadTerm(d) = 0
    /\ \A d : d.voted_for = Absent => LoadVotedFor(d) = Nil
BY DEF Valued, Absent, Emptied, Torn, Whole, LoadTerm, LoadVotedFor, ReadWithChecksum

LEMMA TailSequence ==
    ASSUME NEW s, IsSeq(s), s # <<>>
    PROVE  /\ IsSeq(Tail(s)) /\ Len(s) \in Nat /\ Len(s) > 0 /\ Len(Tail(s)) = Len(s) - 1
           /\ Head(s) = s[1]
           /\ \A k \in 1 .. (Len(s) - 1) : Tail(s)[k] = s[k + 1]
<1>1. PICK S : s \in Seq(S)
  BY DEF IsSeq
<1>2. Tail(s) \in Seq(S) /\ Len(s) \in Nat /\ Len(s) > 0 /\ Len(Tail(s)) = Len(s) - 1
  BY <1>1
<1>3. Head(s) = s[1] /\ \A k \in 1 .. (Len(s) - 1) : Tail(s)[k] = s[k + 1]
  BY <1>1
<1> QED
  BY <1>2, <1>3 DEF IsSeq

\* What is left to write after one write.
LEMMA VotesFirstTail ==
    ASSUME NEW s, s # <<>>, NEW a, NEW b, NEW n, VotesFirst(s, a, b, n),
           NEW p, p = (IF a = 0 THEN 0 ELSE a - 1), NEW q, q = (IF b = 0 THEN 0 ELSE b - 1)
    PROVE  VotesFirst(Tail(s), p, q, n) /\ (OneVote(s, b, n) => OneVote(Tail(s), q, n))
<1>1. /\ IsSeq(Tail(s)) /\ Len(s) \in Nat /\ Len(s) > 0 /\ Len(Tail(s)) = Len(s) - 1
      /\ \A k \in 1 .. (Len(s) - 1) : Tail(s)[k] = s[k + 1]
  BY TailSequence DEF VotesFirst
<1>2. a \in Nat /\ b \in Nat /\ a <= b /\ b <= Len(s)
  BY <1>1 DEF VotesFirst
<1>3. p \in 0 .. q /\ q \in 0 .. Len(Tail(s))
  BY <1>1, <1>2
<1>4. ASSUME NEW k \in 1 .. p
      PROVE  /\ Tail(s)[k].file = "term" /\ Tail(s)[k].op \in FileOps
             /\ Tail(s)[k].op = "write" => Tail(s)[k].data = n.current_term
  <2>1. k + 1 \in 1 .. a /\ Tail(s)[k] = s[k + 1]
    BY <1>1, <1>2
  <2> QED
    BY <2>1 DEF VotesFirst
<1>5. ASSUME NEW k \in (p + 1) .. q
      PROVE  /\ Tail(s)[k].file = "voted_for" /\ Tail(s)[k].op \in FileOps
             /\ Tail(s)[k].op = "write" => Tail(s)[k].data \in {Nil, n.voted_for}
  <2>1. k + 1 \in (a + 1) .. b /\ Tail(s)[k] = s[k + 1]
    BY <1>1, <1>2
  <2> QED
    BY <2>1 DEF VotesFirst
<1>6. p > 0 => Tail(s)[p].op = "write"
  <2> SUFFICES ASSUME p > 0 PROVE Tail(s)[p].op = "write"
    OBVIOUS
  <2>1. a > 0 /\ p + 1 = a /\ Tail(s)[p] = s[p + 1]
    BY <1>1, <1>2
  <2> QED
    BY <2>1 DEF VotesFirst
<1>7. q > p => Tail(s)[q].op = "write" /\ Tail(s)[q].data = n.voted_for
  <2> SUFFICES ASSUME q > p PROVE Tail(s)[q].op = "write" /\ Tail(s)[q].data = n.voted_for
    OBVIOUS
  <2>1. b > a /\ q + 1 = b /\ Tail(s)[q] = s[q + 1]
    BY <1>1, <1>2
  <2> QED
    BY <2>1 DEF VotesFirst
<1>8. ASSUME NEW k \in (q + 1) .. Len(Tail(s)) PROVE Elsewhere(Tail(s)[k])
  <2>1. k + 1 \in (b + 1) .. Len(s) /\ Tail(s)[k] = s[k + 1]
    BY <1>1, <1>2
  <2> QED
    BY <2>1 DEF VotesFirst
<1>9. OneVote(s, b, n) => OneVote(Tail(s), q, n)
  <2> SUFFICES ASSUME OneVote(s, b, n), NEW k \in 1 .. q
               PROVE  Tail(s)[k].op = "write" => Tail(s)[k].data = n.voted_for
    BY DEF OneVote
  <2>1. k + 1 \in 1 .. b /\ Tail(s)[k] = s[k + 1]
    BY <1>1, <1>2
  <2> QED
    BY <2>1 DEF OneVote
<1> QED
  BY <1>1, <1>3, <1>4, <1>5, <1>6, <1>7, <1>8, <1>9 DEF VotesFirst

\* One system call.
LEMMA CallSettles ==
    ASSUME NEW d, DiskOK(d), NEW cast, VotesOK(cast), \A v \in cast : Binds(d, v),
           NEW n, BallotOK(n), Honours(n, cast),
           NEW s, s # <<>>, Settles(d, s, n, cast),
           NEW e, e = Perform(d, Head(s))
    PROVE  DiskOK(e) /\ (\A v \in cast : Binds(e, v)) /\ Settles(e, Tail(s), n, cast)
<1>1. PICK a, b :
        /\ VotesFirst(s, a, b, n)
        /\ a > 0 \/ ~OneVote(s, b, n) => \A v \in cast : v.term < n.current_term
        /\ a = 0 => Valued(d.term) /\ LoadTerm(d) = n.current_term
        /\ a = b => Valued(d.voted_for) /\ LoadVotedFor(d) = n.voted_for
  BY DEF Settles
<1>2. PICK w : w = s[1]
  OBVIOUS
<1>3. e = Perform(d, w) /\ Len(s) \in Nat /\ Len(s) > 0
  BY <1>1, <1>2, TailSequence DEF VotesFirst
<1>4. a \in Nat /\ b \in Nat /\ a <= b /\ b <= Len(s)
  BY <1>1, <1>3 DEF VotesFirst
<1>5. PICK p : p = (IF a = 0 THEN 0 ELSE a - 1)
  OBVIOUS
<1>6. PICK q : q = (IF b = 0 THEN 0 ELSE b - 1)
  OBVIOUS
<1>7. VotesFirst(Tail(s), p, q, n) /\ (OneVote(s, b, n) => OneVote(Tail(s), q, n))
  BY <1>1, <1>5, <1>6, VotesFirstTail
<1>8. p > 0 \/ ~OneVote(Tail(s), q, n) => \A v \in cast : v.term < n.current_term
  BY <1>1, <1>4, <1>5, <1>7
<1>9. CASE a > 0
  <2>1. /\ w.file = "term" /\ w.op \in FileOps
        /\ w.op = "write" => w.data = n.current_term
        /\ a = 1 => w.op = "write"
    BY <1>1, <1>2, <1>4, <1>9 DEF VotesFirst
  <2>2. /\ DOMAIN e = DOMAIN d /\ e.voted_for = d.voted_for
        /\ w.op = "write" => e.term = Whole(n.current_term)
        /\ w.op # "write" => e.term \in {Emptied, Torn}
    BY <1>3, <2>1, PerformFile
  <2>3. DiskOK(e)
    BY <2>2 DEF DiskOK, FileOK, BallotOK
  <2>4. LoadVotedFor(e) = LoadVotedFor(d)
    BY <2>2 DEF LoadVotedFor
  <2>5. /\ w.op = "write" => Valued(e.term) /\ LoadTerm(e) = n.current_term
        /\ w.op # "write" => ~Valued(e.term)
    BY <2>2, FileValues
  <2>6. ASSUME NEW v \in cast PROVE Binds(e, v)
    <3>1. v.term < n.current_term /\ v.term \in Nat /\ n.current_term \in Nat
      BY <1>1, <1>9 DEF VotesOK, BallotOK
    <3>2. n.current_term > v.term
      BY <3>1
    <3> QED
      BY <2>5, <3>2 DEF Binds
  <2>7. p = 0 => Valued(e.term) /\ LoadTerm(e) = n.current_term
    <3>1. p = 0 => a = 1
      BY <1>4, <1>5, <1>9
    <3> QED
      BY <2>1, <2>5, <3>1
  <2>8. p = q => Valued(e.voted_for) /\ LoadVotedFor(e) = n.voted_for
    <3>1. p = q => a = b
      BY <1>4, <1>5, <1>6, <1>9
    <3> QED
      BY <1>1, <2>2, <2>4, <3>1
  <2> QED
    BY <1>7, <1>8, <2>3, <2>6, <2>7, <2>8 DEF Settles
<1>10. CASE a = 0 /\ b > 0
  <2>1. /\ w.file = "voted_for" /\ w.op \in FileOps
        /\ b = 1 => w.op = "write" /\ w.data = n.voted_for
        /\ w.op = "write" => w.data \in {Nil, n.voted_for}
        /\ OneVote(s, b, n) /\ w.op = "write" => w.data = n.voted_for
    BY <1>1, <1>2, <1>4, <1>10 DEF VotesFirst, OneVote
  <2>2. /\ DOMAIN e = DOMAIN d /\ e.term = d.term
        /\ w.op = "write" => e.voted_for = Whole(w.data)
        /\ w.op # "write" => e.voted_for \in {Emptied, Torn}
    BY <1>3, <2>1, PerformFile
  <2>3. LoadTerm(e) = LoadTerm(d)
    BY <2>2 DEF LoadTerm
  <2>4. Valued(e.term) /\ LoadTerm(e) = n.current_term
    BY <1>1, <1>10, <2>2, <2>3
  <2>5. /\ w.op = "write" => Valued(e.voted_for) /\ LoadVotedFor(e) = w.data
        /\ w.op # "write" => ~Valued(e.voted_for)
    BY <2>2, FileValues
  <2>6. DiskOK(e)
    <3>1. w.op = "write" => w.data \in Server \cup {Nil}
      BY <2>1 DEF BallotOK
    <3> QED
      BY <2>2, <3>1 DEF DiskOK, FileOK
  <2>7. ASSUME NEW v \in cast PROVE Binds(e, v)
    <3>1. v.term \in Nat /\ n.current_term \in Nat
      BY DEF VotesOK, BallotOK
    <3>2. CASE v.term < n.current_term
      <4>1. n.current_term > v.term
        BY <3>1, <3>2
      <4> QED
        BY <2>4, <4>1 DEF Binds
    <3>3. CASE ~(v.term < n.current_term)
      <4>1. v.term = n.current_term /\ n.voted_for = v.candidate
        BY <3>3 DEF Honours
      <4>2. OneVote(s, b, n)
        BY <1>1, <3>3
      <4>3. Valued(e.voted_for) => LoadVotedFor(e) = v.candidate
        BY <2>1, <2>5, <4>1, <4>2
      <4> QED
        BY <2>4, <4>1, <4>3 DEF Binds
    <3> QED
      BY <3>2, <3>3
  <2>8. p = q => Valued(e.voted_for) /\ LoadVotedFor(e) = n.voted_for
    <3>1. p = q => b = 1
      BY <1>4, <1>5, <1>6, <1>10
    <3> QED
      BY <2>1, <2>5, <3>1
  <2> QED
    BY <1>7, <1>8, <2>4, <2>6, <2>7, <2>8 DEF Settles
<1>11. CASE a = 0 /\ b = 0
  <2>1. Elsewhere(w)
    BY <1>1, <1>2, <1>3, <1>11 DEF VotesFirst
  <2>2. DiskOK(e) /\ e.term = d.term /\ e.voted_for = d.voted_for
    BY <1>3, <2>1, PerformElsewhere
  <2>3. LoadTerm(e) = LoadTerm(d) /\ LoadVotedFor(e) = LoadVotedFor(d)
    BY <2>2 DEF LoadTerm, LoadVotedFor
  <2>4. \A v \in cast : Binds(e, v)
    BY <2>2, <2>3 DEF Binds
  <2>5. p = 0 /\ q = 0
    BY <1>5, <1>6, <1>11
  <2>6. /\ p = 0 => Valued(e.term) /\ LoadTerm(e) = n.current_term
        /\ p = q => Valued(e.voted_for) /\ LoadVotedFor(e) = n.voted_for
    BY <1>1, <1>11, <2>2, <2>3
  <2> QED
    BY <1>7, <1>8, <2>2, <2>4, <2>6 DEF Settles
<1> QED
  BY <1>4, <1>9, <1>10, <1>11

\* When nothing is left to write, the disk says what memory does.
LEMMA Drained ==
    ASSUME NEW d, NEW n, NEW cast, Settles(d, <<>>, n, cast)
    PROVE  /\ Valued(d.term) /\ LoadTerm(d) = n.current_term
           /\ Valued(d.voted_for) /\ LoadVotedFor(d) = n.voted_for
<1>1. PICK a, b :
        /\ VotesFirst(<<>>, a, b, n)
        /\ a = 0 => Valued(d.term) /\ LoadTerm(d) = n.current_term
        /\ a = b => Valued(d.voted_for) /\ LoadVotedFor(d) = n.voted_for
  BY DEF Settles
<1>2. a = 0 /\ b = 0
  <2>1. Len(<<>>) = 0
    OBVIOUS
  <2> QED
    BY <1>1, <2>1 DEF VotesFirst
<1> QED
  BY <1>1, <1>2

\* A handler starts when the last one has written everything.
LEMMA HandlerSettles ==
    ASSUME NEW d, NEW cast, VotesOK(cast), NEW n, BallotOK(n), Honours(n, cast),
           Settles(d, <<>>, n, cast), NEW m, NEW s, Turn(n, m, s)
    PROVE  BallotOK(m) /\ Honours(m, cast) /\ Settles(d, s, m, cast)
<1>1. /\ Valued(d.term) /\ LoadTerm(d) = n.current_term
      /\ Valued(d.voted_for) /\ LoadVotedFor(d) = n.voted_for
  BY Drained
<1>2. PICK a, b :
          /\ VotesFirst(s, a, b, m)
          /\ \/ m.current_term > n.current_term /\ a > 0 /\ b > a
             \/ m.current_term = n.current_term /\ a = 0 /\ b = 0 /\ m.voted_for = n.voted_for
             \/ /\ m.current_term = n.current_term /\ a = 0 /\ b > 0
                /\ n.voted_for \in {Nil, m.voted_for} /\ OneVote(s, b, m)
  BY DEF Turn
<1>3. BallotOK(m)
  BY DEF Turn
<1>4. a \in Int /\ b \in Int
  BY <1>2 DEF VotesFirst
<1>5. CASE m.current_term > n.current_term /\ a > 0 /\ b > a
  <2>1. \A v \in cast : v.term < m.current_term
    BY <1>3, <1>5 DEF VotesOK, BallotOK, Honours
  <2>2. a # 0 /\ a # b
    BY <1>4, <1>5
  <2> QED
    BY <1>2, <1>3, <2>1, <2>2 DEF Honours, Settles
<1>6. CASE m.current_term = n.current_term /\ a = 0 /\ b = 0 /\ m.voted_for = n.voted_for
  <2>1. OneVote(s, b, m)
    BY <1>6 DEF OneVote
  <2> QED
    BY <1>1, <1>2, <1>3, <1>6, <2>1 DEF Honours, Settles
<1>7. CASE /\ m.current_term = n.current_term /\ a = 0 /\ b > 0
           /\ n.voted_for \in {Nil, m.voted_for} /\ OneVote(s, b, m)
  <2>1. Honours(m, cast)
    <3>1. Nil \notin Server
      BY ServerAssumption
    <3> QED
      BY <1>7, <3>1 DEF Honours, VotesOK
  <2>2. a # b /\ ~(a > 0)
    BY <1>4, <1>7
  <2> QED
    BY <1>1, <1>2, <1>3, <1>7, <2>1, <2>2 DEF Settles
<1> QED
  BY <1>2, <1>5, <1>6, <1>7

(***************************************************************************)
(* The invariant.                                                          *)
(***************************************************************************)

\* The vote a handler is about to answer is the one the node has.
Answers(answer, n) ==
    answer.is = "vote" =>
        answer.term = n.current_term /\ answer.candidate = n.voted_for /\ n.voted_for \in Server

Running(n, s, answer) ==
    /\ BallotOK(n) /\ Honours(n, votes)
    /\ Settles(disk, s, n, votes)
    /\ Answers(answer, n)

Stopped ==
    pending = <<>> /\ reply = NoReply /\ disk.term # Emptied /\ disk.voted_for # Emptied

Settled ==
    /\ DiskOK(disk) /\ VotesOK(votes)
    /\ \A v \in votes : Binds(disk, v)
    /\ up => Running(core, pending, reply)
    /\ ~up => Stopped

\* Until a crash leaves a file empty.
StorageInv == "empty" \notin hit => Settled

LEMMA StorageInit == Init => StorageInv
<1> SUFFICES ASSUME Init PROVE Settled
  BY DEF StorageInv
<1>1. DiskOK(disk)
  BY DEF Init, DiskOK, FileOK
<1>2. /\ Valued(disk.term) /\ LoadTerm(disk) = 0
      /\ Valued(disk.voted_for) /\ LoadVotedFor(disk) = Nil
  BY FileValues DEF Init
<1>3. BallotOK(core) /\ core.current_term = 0 /\ core.voted_for = Nil
  BY DEF Init, New, BallotOK, CoreFields
<1>4. Settles(disk, pending, core, votes)
  <2>1. VotesFirst(pending, 0, 0, core)
    BY NothingWritten DEF Init
  <2> QED
    BY <1>2, <1>3, <2>1 DEF Init, Settles
<1>5. Running(core, pending, reply)
  BY <1>3, <1>4 DEF Init, Running, Honours, Answers, NoReply
<1> QED
  BY <1>1, <1>5 DEF Init, Settled, VotesOK

\* Any handler.
LEMMA HandleHolds ==
    ASSUME StorageInv, NEW n, NEW s, NEW answer, Handle(n, s, answer),
           BallotOK(core) => Turn(core, n, s),
           BallotOK(core) => Answers(answer, n)
    PROVE  StorageInv'
<1> SUFFICES ASSUME "empty" \notin hit' PROVE Settled'
  BY DEF StorageInv
<1>1. /\ up /\ pending = <<>> /\ core' = n /\ pending' = s /\ reply' = answer
      /\ up' = up /\ disk' = disk /\ votes' = votes /\ hit' = hit
  BY DEF Handle
<1>2. Settled
  BY <1>1 DEF StorageInv
<1>3. /\ BallotOK(core) /\ Honours(core, votes) /\ Settles(disk, <<>>, core, votes)
      /\ VotesOK(votes)
  BY <1>1, <1>2 DEF Settled, Running
<1>4. Turn(core, n, s) /\ Answers(answer, n)
  BY <1>3
<1>5. BallotOK(n) /\ Honours(n, votes) /\ Settles(disk, s, n, votes)
  BY <1>3, <1>4, HandlerSettles
<1>6. Running(n, s, answer)
  BY <1>4, <1>5 DEF Running
<1>7. Running(core, pending, reply)'
  BY <1>1, <1>6 DEF Running
<1> QED
  BY <1>1, <1>2, <1>7 DEF Settled

LEMMA RequestVoteHolds == StorageInv /\ RequestVote => StorageInv'
<1> SUFFICES ASSUME StorageInv, RequestVote PROVE StorageInv'
  OBVIOUS
<1>1. PICK t \in 1 .. MaxTerm, c \in Peers(Self) : \E end \in LogEnds(t) :
        LET req == [term |-> t, candidate_id |-> c,
                    last_log_index |-> end.index, last_log_term |-> end.term]
            r == HandleRequestVote(core, req)
            given == r.resp.vote_granted
        IN  Handle(r.core,
                   TermWrites(core, t) \o (IF given THEN SaveVotedFor(c) ELSE <<>>),
                   IF given THEN [is |-> "vote", term |-> t, candidate |-> c] ELSE NoReply)
  BY DEF RequestVote
<1>2. PICK end \in LogEnds(t) :
        LET req == [term |-> t, candidate_id |-> c,
                    last_log_index |-> end.index, last_log_term |-> end.term]
            r == HandleRequestVote(core, req)
            given == r.resp.vote_granted
        IN  Handle(r.core,
                   TermWrites(core, t) \o (IF given THEN SaveVotedFor(c) ELSE <<>>),
                   IF given THEN [is |-> "vote", term |-> t, candidate |-> c] ELSE NoReply)
  BY <1>1
<1>3. PICK req : req = [term |-> t, candidate_id |-> c,
                        last_log_index |-> end.index, last_log_term |-> end.term]
  OBVIOUS
<1>4. PICK n : n = HandleRequestVote(core, req).core
  OBVIOUS
<1>5. PICK given : given = HandleRequestVote(core, req).resp.vote_granted
  OBVIOUS
<1>6. PICK s : s = TermWrites(core, t) \o (IF given THEN SaveVotedFor(c) ELSE <<>>)
  OBVIOUS
<1>7. PICK answer : answer = IF given THEN [is |-> "vote", term |-> t, candidate |-> c]
                             ELSE NoReply
  OBVIOUS
<1>8. Handle(n, s, answer)
  BY <1>2, <1>3, <1>4, <1>5, <1>6, <1>7
<1>9. req.term = t /\ req.candidate_id = c /\ t \in Nat /\ c \in Server
  BY <1>3 DEF Peers
<1>10. ASSUME BallotOK(core)
      PROVE  /\ Turn(core, n, s)
             /\ given => n.current_term = t /\ n.voted_for = c
  <2>1. s = TermWrites(core, req.term) \o
            (IF HandleRequestVote(core, req).resp.vote_granted
             THEN SaveVotedFor(req.candidate_id) ELSE <<>>)
    BY <1>5, <1>6, <1>9
  <2>2. /\ Turn(core, HandleRequestVote(core, req).core, s)
        /\ HandleRequestVote(core, req).resp.vote_granted =>
              /\ HandleRequestVote(core, req).core.current_term = req.term
              /\ HandleRequestVote(core, req).core.voted_for = req.candidate_id
    BY <1>9, <1>10, <2>1, RequestVoteTurn
  <2> QED
    BY <1>4, <1>5, <1>9, <2>2
<1>11. BallotOK(core) => Answers(answer, n)
  BY <1>7, <1>9, <1>10 DEF Answers, NoReply
<1> QED
  BY <1>8, <1>10, <1>11, HandleHolds

LEMMA AppendEntriesHolds == StorageInv /\ AppendEntries => StorageInv'
<1> SUFFICES ASSUME StorageInv, AppendEntries PROVE StorageInv'
  OBVIOUS
<1> DEFINE Request(t, last, prev, commit) ==
             [term |-> t, leader_id |-> Leader[t], prev_log_index |-> prev,
              prev_log_term |-> IF prev = 0 THEN 0 ELSE LeaderLog[t][prev].term,
              entries |-> SubSeq(LeaderLog[t], prev + 1, last),
              leader_commit |-> commit]
           Starts(t, req, last) ==
             LET r == HandleAppendEntries(core, req)
                 accepted == r.resp.success
             IN  Handle(r.core,
                        TermWrites(core, t) \o
                        (IF accepted THEN EntriesWrites(core, req.entries) ELSE <<>>) \o
                        SnapshotWrites(core, r.core),
                        IF accepted /\ ~r.panicked
                        THEN [is |-> "ack", term |-> t, upTo |-> last] ELSE NoReply)
<1>1. PICK t \in DOMAIN LeaderLog : \E last \in FirstOwn(t) .. Len(LeaderLog[t]) :
        \E prev \in 0 .. last, commit \in 0 .. Min({last, LeaderCommit[t]}) :
          Starts(t, Request(t, last, prev, commit), last)
  BY Zenon DEF AppendEntries
<1>2. PICK last \in FirstOwn(t) .. Len(LeaderLog[t]) :
        \E prev \in 0 .. last, commit \in 0 .. Min({last, LeaderCommit[t]}) :
          Starts(t, Request(t, last, prev, commit), last)
  BY <1>1
<1>3. PICK prev \in 0 .. last, commit \in 0 .. Min({last, LeaderCommit[t]}) :
          Starts(t, Request(t, last, prev, commit), last)
  BY <1>2
<1>4. PICK req : req = Request(t, last, prev, commit)
  OBVIOUS
<1>5. Starts(t, req, last)
  BY <1>3, <1>4
<1>6. req.term = t /\ req.term \in Nat /\ Len(req.entries) \in Nat
  <2>1. t \in Nat /\ LeaderLog[t] \in Seq(LogEntry)
    BY LeadersAssumption
  <2>2. last \in Int /\ prev \in Int /\ last <= Len(LeaderLog[t]) /\ prev >= 0
    BY <2>1
  <2>3. SubSeq(LeaderLog[t], prev + 1, last) \in Seq(LogEntry)
    BY <2>1, <2>2
  <2>4. req.term = t /\ req.entries = SubSeq(LeaderLog[t], prev + 1, last)
    BY <1>4
  <2> QED
    BY <2>1, <2>3, <2>4
<1> HIDE DEF Request
<1>7. PICK n : n = HandleAppendEntries(core, req).core
  OBVIOUS
<1>8. PICK s : s = TermWrites(core, req.term) \o
                   (IF HandleAppendEntries(core, req).resp.success
                    THEN EntriesWrites(core, req.entries) ELSE <<>>) \o
                   SnapshotWrites(core, n)
  OBVIOUS
<1>9. PICK answer : answer = IF /\ HandleAppendEntries(core, req).resp.success
                                /\ ~HandleAppendEntries(core, req).panicked
                             THEN [is |-> "ack", term |-> req.term, upTo |-> last] ELSE NoReply
  OBVIOUS
<1>10. Handle(n, s, answer)
  BY <1>5, <1>6, <1>7, <1>8, <1>9
<1>11. BallotOK(core) => Turn(core, n, s)
  BY <1>6, <1>7, <1>8, AppendEntriesTurn
<1>12. Answers(answer, n)
  BY <1>9 DEF Answers, NoReply
<1> QED
  BY <1>10, <1>11, <1>12, HandleHolds

LEMMA InstallSnapshotHolds == StorageInv /\ InstallSnapshot => StorageInv'
<1> SUFFICES ASSUME StorageInv, InstallSnapshot PROVE StorageInv'
  OBVIOUS
<1> DEFINE Request(t, k) ==
             [term |-> t, leader_id |-> Leader[t], last_included_index |-> k,
              last_included_term |-> LeaderLog[t][k].term,
              data |-> [m \in 1 .. k |-> LeaderLog[t][m].command]]
           Starts(req, k) ==
             LET r == HandleInstallSnapshot(core, req)
             IN  Handle(r.core, TermWrites(core, req.term) \o SnapshotWrites(core, r.core),
                        IF r.resp.success
                        THEN [is |-> "ack", term |-> req.term, upTo |-> k] ELSE NoReply)
<1>1. PICK t \in DOMAIN LeaderLog : \E k \in SnapshotThreshold .. LeaderCommit[t] :
        Starts(Request(t, k), k)
  BY DEF InstallSnapshot
<1>2. PICK k \in SnapshotThreshold .. LeaderCommit[t] : Starts(Request(t, k), k)
  BY <1>1
<1>3. PICK req : req = Request(t, k)
  OBVIOUS
<1>4. Starts(req, k)
  BY <1>2, <1>3
<1>5. req.term \in Nat
  BY <1>3, LeadersAssumption
<1> HIDE DEF Request
<1>6. PICK n : n = HandleInstallSnapshot(core, req).core
  OBVIOUS
<1>7. PICK s : s = TermWrites(core, req.term) \o SnapshotWrites(core, n)
  OBVIOUS
<1>8. PICK answer : answer = IF HandleInstallSnapshot(core, req).resp.success
                             THEN [is |-> "ack", term |-> req.term, upTo |-> k] ELSE NoReply
  OBVIOUS
<1>9. Handle(n, s, answer)
  BY <1>4, <1>6, <1>7, <1>8
<1>10. BallotOK(core) => Turn(core, n, s)
  BY <1>5, <1>6, <1>7, InstallSnapshotTurn
<1>11. Answers(answer, n)
  BY <1>8 DEF Answers, NoReply
<1> QED
  BY <1>9, <1>10, <1>11, HandleHolds

LEMMA ElectionTimeoutHolds == StorageInv /\ ElectionTimeout => StorageInv'
<1> SUFFICES ASSUME StorageInv, ElectionTimeout PROVE StorageInv'
  OBVIOUS
<1>1. PICK n : n = StartElection(core, Self)
  OBVIOUS
<1>2. PICK s : s = SaveTerm(n.current_term) \o SaveVotedFor(Self)
  OBVIOUS
<1>3. PICK answer : answer = [is |-> "vote", term |-> n.current_term, candidate |-> Self]
  OBVIOUS
<1>4. Handle(n, s, answer)
  BY <1>1, <1>2, <1>3 DEF ElectionTimeout
<1>5. BallotOK(core) => Turn(core, n, s) /\ n.voted_for = Self
  BY <1>1, <1>2, SelfAssumption, StartElectionTurn
<1>6. BallotOK(core) => Answers(answer, n)
  BY <1>3, <1>5, SelfAssumption DEF Answers
<1> QED
  BY <1>4, <1>5, <1>6, HandleHolds

LEMMA SystemCallHolds == StorageInv /\ SystemCall => StorageInv'
<1> SUFFICES ASSUME StorageInv, SystemCall, "empty" \notin hit' PROVE Settled'
  BY DEF StorageInv
<1>1. /\ up /\ pending # <<>> /\ disk' = Perform(disk, Head(pending)) /\ pending' = Tail(pending)
      /\ up' = up /\ core' = core /\ reply' = reply /\ votes' = votes /\ hit' = hit
  BY DEF SystemCall
<1>2. Settled
  BY <1>1 DEF StorageInv
<1>3. /\ DiskOK(disk) /\ VotesOK(votes) /\ \A v \in votes : Binds(disk, v)
      /\ BallotOK(core) /\ Honours(core, votes) /\ Settles(disk, pending, core, votes)
      /\ Answers(reply, core)
  BY <1>1, <1>2 DEF Settled, Running
<1>4. PICK e : e = Perform(disk, Head(pending))
  OBVIOUS
<1>5. DiskOK(e) /\ (\A v \in votes : Binds(e, v)) /\ Settles(e, Tail(pending), core, votes)
  BY <1>1, <1>3, <1>4, CallSettles
<1>6. disk' = e
  BY <1>1, <1>4
<1>7. Running(core, pending, reply)'
  BY <1>1, <1>3, <1>5, <1>6 DEF Running
<1> QED
  BY <1>1, <1>3, <1>5, <1>6, <1>7 DEF Settled

LEMMA SendReplyHolds == StorageInv /\ SendReply => StorageInv'
<1> SUFFICES ASSUME StorageInv, SendReply, "empty" \notin hit' PROVE Settled'
  BY DEF StorageInv
<1>1. /\ up /\ pending = <<>> /\ reply' = NoReply
      /\ up' = up /\ core' = core /\ disk' = disk /\ pending' = pending /\ hit' = hit
      /\ votes' = votes \cup (IF reply.is # "vote" THEN {}
                              ELSE {[voter |-> Self, term |-> reply.term,
                                     candidate |-> reply.candidate,
                                     sound |-> "empty" \notin hit]})
  BY DEF SendReply, Replies
<1>2. Settled
  BY <1>1 DEF StorageInv
<1>3. /\ DiskOK(disk) /\ VotesOK(votes) /\ \A v \in votes : Binds(disk, v)
      /\ BallotOK(core) /\ Honours(core, votes) /\ Settles(disk, <<>>, core, votes)
      /\ Answers(reply, core)
  BY <1>1, <1>2 DEF Settled, Running
<1>4. /\ Valued(disk.term) /\ LoadTerm(disk) = core.current_term
      /\ Valued(disk.voted_for) /\ LoadVotedFor(disk) = core.voted_for
  BY <1>3, Drained
<1>5. ASSUME NEW v \in votes'
      PROVE  /\ v.voter = Self /\ v.term \in Nat /\ v.candidate \in Server
             /\ Binds(disk, v)
             /\ \/ v.term < core.current_term
                \/ v.term = core.current_term /\ core.voted_for = v.candidate
  <2>1. CASE v \in votes
    BY <1>3, <2>1 DEF VotesOK, Honours
  <2>2. CASE v \notin votes
    <3>1. /\ v.voter = Self /\ v.term = core.current_term /\ v.candidate = core.voted_for
          /\ core.voted_for \in Server
      BY <1>1, <1>3, <2>2 DEF Answers
    <3> QED
      BY <1>3, <1>4, <3>1 DEF Binds, BallotOK
  <2> QED
    BY <2>1, <2>2
<1>6. VotesOK(votes') /\ Honours(core, votes') /\ \A v \in votes' : Binds(disk, v)
  BY <1>5 DEF VotesOK, Honours
<1>7. Settles(disk, <<>>, core, votes')
  <2>1. VotesFirst(<<>>, 0, 0, core) /\ OneVote(<<>>, 0, core)
    BY NothingWritten
  <2> QED
    BY <1>4, <2>1 DEF Settles
<1>8. Running(core, pending, reply)'
  BY <1>1, <1>3, <1>6, <1>7 DEF Running, Answers, NoReply
<1> QED
  BY <1>1, <1>3, <1>6, <1>8 DEF Settled

LEMMA CrashHolds == StorageInv /\ Crash => StorageInv'
<1> SUFFICES ASSUME StorageInv, Crash, "empty" \notin hit' PROVE Settled'
  BY DEF StorageInv
<1>1. /\ up' = FALSE /\ pending' = <<>> /\ reply' = NoReply
      /\ disk' = disk /\ votes' = votes /\ hit' = hit \cup Windows
  BY DEF Crash
<1>2. Settled
  BY <1>1 DEF StorageInv
<1>3. disk.term # Emptied /\ disk.voted_for # Emptied
  BY <1>1 DEF Windows
<1> QED
  BY <1>1, <1>2, <1>3 DEF Settled, Stopped

\* A file that holds no value is empty or torn; a start refuses a torn one.
LEMMA LoadedValues ==
    ASSUME NEW d, DiskOK(d), Loads(d), d.term # Emptied, d.voted_for # Emptied
    PROVE  /\ Valued(d.term) /\ LoadTerm(d) \in Nat
           /\ Valued(d.voted_for) /\ LoadVotedFor(d) \in Server \cup {Nil}
<1>1. d.term # Torn /\ d.voted_for # Torn
  BY DEF Loads, Readable, Torn
<1>2. /\ d.term = Absent \/ \E x \in Nat : d.term = Whole(x)
      /\ d.voted_for = Absent \/ \E x \in Server \cup {Nil} : d.voted_for = Whole(x)
  BY <1>1 DEF DiskOK, FileOK
<1>3. Valued(d.term) /\ LoadTerm(d) \in Nat
  BY <1>2, FileValues
<1>4. Valued(d.voted_for) /\ LoadVotedFor(d) \in Server \cup {Nil}
  BY <1>2, FileValues
<1> QED
  BY <1>3, <1>4

LEMMA RestartHolds == StorageInv /\ Restart => StorageInv'
<1> SUFFICES ASSUME StorageInv, Restart, "empty" \notin hit' PROVE Settled'
  BY DEF StorageInv
<1>1. /\ ~up /\ Loads(disk) /\ up' = TRUE
      /\ disk' = disk /\ pending' = pending /\ reply' = reply /\ votes' = votes /\ hit' = hit
  BY DEF Restart
<1>2. PICK n : n = New(Self, LoadTerm(disk), LoadVotedFor(disk), LoadLog(disk), LoadSnapshot(disk))
  OBVIOUS
<1>3. core' = n
  BY <1>2 DEF Restart
<1>4. DiskOK(disk) /\ VotesOK(votes) /\ (\A v \in votes : Binds(disk, v)) /\ Stopped
  BY <1>1 DEF StorageInv, Settled
<1>5. /\ Valued(disk.term) /\ LoadTerm(disk) \in Nat
      /\ Valued(disk.voted_for) /\ LoadVotedFor(disk) \in Server \cup {Nil}
  BY <1>1, <1>4, LoadedValues DEF Stopped
<1>6. /\ BallotOK(n) /\ n.current_term = LoadTerm(disk)
      /\ n.voted_for = LoadVotedFor(disk)
  BY <1>2, <1>5 DEF New, BallotOK, CoreFields
<1>7. ASSUME NEW v \in votes
      PROVE  \/ v.term < n.current_term
             \/ v.term = n.current_term /\ n.voted_for = v.candidate
  BY <1>4, <1>5, <1>6 DEF Binds, VotesOK
<1>8. Settles(disk, <<>>, n, votes)
  <2>1. VotesFirst(<<>>, 0, 0, n) /\ OneVote(<<>>, 0, n)
    BY NothingWritten
  <2> QED
    BY <1>5, <1>6, <2>1 DEF Settles
<1>9. Running(core, pending, reply)'
  BY <1>1, <1>3, <1>4, <1>6, <1>7, <1>8 DEF Running, Honours, Answers, Stopped, NoReply
<1> QED
  BY <1>1, <1>4, <1>9 DEF Settled

LEMMA StorageStutters == StorageInv /\ UNCHANGED vars => StorageInv'
<1> SUFFICES ASSUME StorageInv, UNCHANGED vars PROVE StorageInv'
  OBVIOUS
<1>1. /\ up' = up /\ core' = core /\ disk' = disk /\ pending' = pending
      /\ reply' = reply /\ votes' = votes /\ hit' = hit
  BY DEF vars
<1>2. Running(core, pending, reply)' = Running(core, pending, reply)
  BY <1>1 DEF Running
<1>3. Stopped' = Stopped
  BY <1>1 DEF Stopped
<1> QED
  BY <1>1, <1>2, <1>3 DEF StorageInv, Settled

\* Every step of the node, its disk and the process keeps the invariant.
THEOREM StorageHolds == Spec => []StorageInv
<1>1. StorageInv /\ [Next]_vars => StorageInv'
  BY RequestVoteHolds, AppendEntriesHolds, InstallSnapshotHolds, ElectionTimeoutHolds,
     SystemCallHolds, SendReplyHolds, CrashHolds, RestartHolds, StorageStutters, Zenon
     DEF Next
<1> QED
  BY <1>1, StorageInit, PTL DEF Spec

(***************************************************************************)
(* What it promises.                                                       *)
(***************************************************************************)

\* A vote that was answered binds every later start of the node, whichever system
\* call of save_term, save_voted_for or a later handler a crash interrupts.
THEOREM AnsweredVotesSurvive == Spec => []VotesSurvive
<1>1. StorageInv => VotesSurvive
  <2> SUFFICES ASSUME StorageInv, Loads(disk), "empty" \notin hit \cup Windows, NEW v \in votes
               PROVE  \/ LoadTerm(disk) > v.term
                      \/ LoadTerm(disk) = v.term /\ LoadVotedFor(disk) = v.candidate
    BY DEF VotesSurvive, VotesBind
  <2>1. DiskOK(disk) /\ Binds(disk, v)
    BY DEF StorageInv, Settled
  <2>2. disk.term # Emptied /\ disk.voted_for # Emptied
    BY DEF Windows
  <2>3. Valued(disk.term) /\ Valued(disk.voted_for)
    BY <2>1, <2>2, LoadedValues
  <2> QED
    BY <2>1, <2>3 DEF Binds
<1> QED
  BY <1>1, StorageHolds, PTL

\* An answered vote is a ballot: it agrees with every vote the node has answered in
\* that term.
LEMMA ReplyIsBallot ==
    ASSUME StorageInv, SendReply
    PROVE  [B!BallotsNext]_B!ballotVars
<1>1. /\ up /\ hit' = hit
      /\ votes' = votes \cup (IF reply.is # "vote" THEN {}
                              ELSE {[voter |-> Self, term |-> reply.term,
                                     candidate |-> reply.candidate,
                                     sound |-> "empty" \notin hit]})
  BY DEF SendReply, Replies
<1>2. CASE reply.is # "vote" \/ "empty" \in hit
  <2>1. ASSUME NEW v \in votes', v \notin votes PROVE ~v.sound
    <3>1. "empty" \in hit
      BY <1>1, <1>2, <2>1
    <3>2. v = [voter |-> Self, term |-> reply.term, candidate |-> reply.candidate,
               sound |-> "empty" \notin hit]
      BY <1>1, <2>1
    <3>3. v.sound = ("empty" \notin hit)
      BY <3>2, Zenon
    <3> QED
      BY <3>1, <3>3, Zenon
  <2>2. {w \in votes' : w.sound} = {w \in votes : w.sound}
    BY <1>1, <2>1
  <2>3. SoundVotes' = SoundVotes
    BY <2>2 DEF SoundVotes
  <2> QED
    BY <2>3 DEF B!ballotVars
<1>3. CASE reply.is = "vote" /\ "empty" \notin hit
  <2>1. PICK x : x = [voter |-> Self, term |-> reply.term, candidate |-> reply.candidate]
    OBVIOUS
  <2>2. SoundVotes' = SoundVotes \cup {x}
    <3>1. PICK y : y = [voter |-> Self, term |-> reply.term, candidate |-> reply.candidate,
                        sound |-> "empty" \notin hit]
      OBVIOUS
    <3>2. votes' = votes \cup {y}
      BY <1>1, <1>3, <3>1
    <3>3. y.sound
      <4>1. y.sound = ("empty" \notin hit)
        BY <3>1, Zenon
      <4> QED
        BY <1>3, <4>1, Zenon
    <3>4. {w \in votes' : w.sound} = {w \in votes : w.sound} \cup {y}
      BY <3>2, <3>3
    <3>5. x = [voter |-> y.voter, term |-> y.term, candidate |-> y.candidate]
      BY <2>1, <3>1
    <3> QED
      BY <3>4, <3>5 DEF SoundVotes
  <2>3. Running(core, pending, reply) /\ VotesOK(votes)
    BY <1>1, <1>3 DEF StorageInv, Settled
  <2>4. /\ x.voter = Self /\ x.term = core.current_term /\ x.candidate = core.voted_for
        /\ core.current_term \in Nat /\ core.voted_for \in Server
    BY <1>3, <2>1, <2>3 DEF Running, Answers, BallotOK
  <2>5. x \in B!Vote
    BY <2>1, <2>4, SelfAssumption DEF B!Vote
  <2>6. ASSUME NEW w \in SoundVotes, w.voter = x.voter, w.term = x.term
        PROVE  w.candidate = x.candidate
    <3>1. PICK v \in votes :
            w = [voter |-> v.voter, term |-> v.term, candidate |-> v.candidate]
      BY DEF SoundVotes
    <3>2. v.term = core.current_term /\ w.candidate = v.candidate
      BY <2>4, <2>6, <3>1
    <3>3. core.voted_for = v.candidate
      BY <2>3, <2>4, <3>2 DEF Running, Honours
    <3> QED
      BY <2>4, <3>2, <3>3
  <2>7. B!CastVote(x) /\ x \in SoundVotes'
    BY <2>2, <2>5, <2>6 DEF B!CastVote
  <2> QED
    BY <2>7 DEF B!BallotsNext
<1> QED
  BY <1>2, <1>3

\* No other step answers a vote.
LEMMA VotesStay ==
    ASSUME [Next]_vars, ~SendReply
    PROVE  votes' = votes
<1>1. CASE RequestVote \/ ElectionTimeout
  BY <1>1 DEF RequestVote, ElectionTimeout, Handle
<1>2. CASE AppendEntries
  <2>1. ASSUME NEW n, NEW s, NEW answer, Handle(n, s, answer) PROVE votes' = votes
    BY <2>1 DEF Handle
  <2> QED
    BY <1>2, <2>1 DEF AppendEntries
<1>3. CASE InstallSnapshot
  BY <1>3 DEF InstallSnapshot, Handle
<1>4. CASE SystemCall \/ Crash \/ Restart \/ UNCHANGED vars
  BY <1>4 DEF SystemCall, Crash, Restart, vars
<1> QED
  BY <1>1, <1>2, <1>3, <1>4 DEF Next

\* The node's votes, through crashes and partial writes, are those of the abstract
\* module of elections.
THEOREM DiskIsBallots == Spec => DiskImplementsBallots
<1>1. Init => B!BallotsInit
  BY DEF Init, B!BallotsInit, SoundVotes
<1>2. StorageInv /\ [Next]_vars => [B!BallotsNext]_B!ballotVars
  <2> SUFFICES ASSUME StorageInv, [Next]_vars PROVE [B!BallotsNext]_B!ballotVars
    OBVIOUS
  <2>1. CASE SendReply
    BY <2>1, ReplyIsBallot
  <2>2. CASE ~SendReply
    <3>1. votes' = votes
      BY <2>2, VotesStay
    <3>2. SoundVotes' = SoundVotes
      BY <3>1 DEF SoundVotes
    <3> QED
      BY <3>2 DEF B!ballotVars
  <2> QED
    BY <2>1, <2>2
<1> QED
  BY <1>1, <1>2, StorageHolds, PTL DEF Spec, DiskImplementsBallots, B!BallotsSpec

(***************************************************************************)
(* The log file, without snapshots.                                        *)
(***************************************************************************)

\* l has the first k entries of the leader of t.
Has(l, t, k) ==
    /\ t \in DOMAIN LeaderLog /\ k \in 0 .. Len(LeaderLog[t]) /\ k <= Len(l)
    /\ \A j \in 1 .. k : l[j] = LeaderLog[t][j]

\* Each entry came from a leader, with all that is before it.
FromLeaders(l) == Contiguous(l) /\ \A k \in DOMAIN l : \E t \in DOMAIN LeaderLog : Has(l, t, k)

\* The entries that have been acknowledged to leaders and are there to stay.
KeepsAcked(l, given) ==
    \A a \in given : Lasting(a) => a.index \in DOMAIN l /\ l[a.index] = LeaderLog[a.term][a.index]

\* The log file shows l; only its last line may be incomplete.
Shows(d, l, last) ==
    /\ IsSeq(d.log) /\ Len(d.log) = Len(l)
    /\ \A k \in 1 .. Len(l) : d.log[k] = Line(l[k], IF k = Len(l) THEN last ELSE "line")

Glued(d) ==
    /\ IsSeq(d.log) /\ d.log # <<>>
    /\ \E entry : d.log[Len(d.log)] = Line(entry, "glued")

\* A disk on which nothing is lost, unless a line is glued to another after a crash
\* that left its line feed out.
Sound(d, given, crashed) ==
    /\ DOMAIN d = {"term", "voted_for", "snapshot", "log"} /\ d.snapshot = Absent
    /\ \/ crashed # {} /\ Glued(d)
       \/ \E l : \E last \in {"torn", "whole", "line"} :
             Shows(d, l, last) /\ FromLeaders(l) /\ KeepsAcked(l, given)

\* What a handler that leaves the log l in memory leaves on disk.
Ends(d, l, crashed) ==
    \/ Shows(d, l, "line")
    \/ crashed # {} /\ (Glued(d) \/ Shows(d, l, "whole"))

\* The entries of l that are in the log file up to their line feed.
Complete(l, last) == IF last = "line" \/ l = <<>> THEN l ELSE SubSeq(l, 1, Len(l) - 1)

\* What a MemoryStorage has after the same calls, those under way apart.
Mirrors(m, d) ==
    /\ m = [term |-> m.term, voted_for |-> m.voted_for, log |-> m.log, snapshot |-> LoadSnapshot(d)]
    /\ Valued(d.term) => m.term = LoadTerm(d)
    /\ Valued(d.voted_for) => m.voted_for = LoadVotedFor(d)
    /\ \E l \in Seq(LogEntry) : \E last \in {"torn", "whole", "line"} :
          Shows(d, l, last) /\ m.log = Complete(l, last)

\* The system call w leads from d to e, and a MemoryStorage follows until a crash.
Calls(d, w, e, crashed) ==
    /\ e = Perform(d, w)
    /\ crashed = {} => \A m : Mirrors(m, d) => Mirrors(Mirror(m, w), e)

\* The system calls s lead from d to e, and every disk on the way is sound.
Path(d, s, e, given, crashed) ==
    \E ds :
        /\ ds[1] = d /\ ds[Len(s) + 1] = e
        /\ \A k \in 1 .. Len(s) : Calls(ds[k], s[k], ds[k + 1], crashed)
        /\ \A k \in 1 .. (Len(s) + 1) : Sound(ds[k], given, crashed)

LEMMA PathNone ==
    ASSUME NEW d, NEW given, NEW crashed
    PROVE  \A e : Path(d, <<>>, e, given, crashed) <=> e = d /\ Sound(d, given, crashed)
<1>1. Len(<<>>) = 0 /\ 0 + 1 = 1
  OBVIOUS
<1>2. ASSUME NEW e, Path(d, <<>>, e, given, crashed) PROVE e = d /\ Sound(d, given, crashed)
  <2>1. PICK ds : /\ ds[1] = d /\ ds[Len(<<>>) + 1] = e
                  /\ \A k \in 1 .. (Len(<<>>) + 1) : Sound(ds[k], given, crashed)
    BY <1>2 DEF Path
  <2> QED
    BY <1>1, <2>1
<1>3. ASSUME Sound(d, given, crashed) PROVE Path(d, <<>>, d, given, crashed)
  <2> DEFINE ds == [k \in 1 .. 1 |-> d]
  <2>1. ds[1] = d /\ ds[Len(<<>>) + 1] = d
    BY <1>1
  <2>2. \A k \in 1 .. Len(<<>>) : Calls(ds[k], <<>>[k], ds[k + 1], crashed)
    BY <1>1
  <2>3. \A k \in 1 .. (Len(<<>>) + 1) : Sound(ds[k], given, crashed)
    BY <1>1, <1>3
  <2> HIDE DEF ds
  <2> QED
    BY <2>1, <2>2, <2>3 DEF Path
<1> QED
  BY <1>2, <1>3

LEMMA PathTail ==
    ASSUME NEW d, NEW s, IsSeq(s), s # <<>>, NEW e, NEW given, NEW crashed,
           Path(d, s, e, given, crashed)
    PROVE  /\ Sound(d, given, crashed)
           /\ Path(Perform(d, Head(s)), Tail(s), e, given, crashed)
           /\ Calls(d, Head(s), Perform(d, Head(s)), crashed)
<1>1. /\ IsSeq(Tail(s)) /\ Len(s) \in Nat /\ Len(s) > 0 /\ Len(Tail(s)) = Len(s) - 1
      /\ Head(s) = s[1]
      /\ \A k \in 1 .. (Len(s) - 1) : Tail(s)[k] = s[k + 1]
  BY TailSequence
<1>2. PICK ds :
        /\ ds[1] = d /\ ds[Len(s) + 1] = e
        /\ \A k \in 1 .. Len(s) : Calls(ds[k], s[k], ds[k + 1], crashed)
        /\ \A k \in 1 .. (Len(s) + 1) : Sound(ds[k], given, crashed)
  BY DEF Path
<1> DEFINE es == [k \in 1 .. Len(s) |-> ds[k + 1]]
<1>3. es[1] = Perform(d, Head(s)) /\ es[Len(Tail(s)) + 1] = e
  <2>1. 1 \in 1 .. Len(s) /\ Len(s) \in 1 .. Len(s) /\ Len(Tail(s)) + 1 = Len(s)
    BY <1>1
  <2>2. es[1] = ds[1 + 1] /\ es[Len(s)] = ds[Len(s) + 1]
    BY <2>1
  <2> HIDE DEF es
  <2>3. ds[1 + 1] = Perform(ds[1], s[1])
    BY <1>2, <2>1 DEF Calls
  <2> QED
    BY <1>1, <1>2, <2>1, <2>2, <2>3
<1>4. ASSUME NEW k \in 1 .. Len(Tail(s)) PROVE Calls(es[k], Tail(s)[k], es[k + 1], crashed)
  <2>1. k \in 1 .. Len(s) /\ k + 1 \in 1 .. Len(s) /\ k \in 1 .. (Len(s) - 1)
    BY <1>1
  <2>2. es[k] = ds[k + 1] /\ es[k + 1] = ds[(k + 1) + 1] /\ Tail(s)[k] = s[k + 1]
    BY <1>1, <2>1
  <2> HIDE DEF es
  <2> QED
    BY <1>2, <2>1, <2>2
<1>5. ASSUME NEW k \in 1 .. (Len(Tail(s)) + 1) PROVE Sound(es[k], given, crashed)
  <2>1. k \in 1 .. Len(s) /\ k + 1 \in 1 .. (Len(s) + 1)
    BY <1>1
  <2> QED
    BY <1>2, <2>1
<1>6. 1 \in 1 .. (Len(s) + 1)
  BY <1>1
<1> HIDE DEF es
<1>7. Path(Perform(d, Head(s)), Tail(s), e, given, crashed)
  BY <1>3, <1>4, <1>5 DEF Path
<1>8. Calls(d, Head(s), Perform(d, Head(s)), crashed)
  <2>1. 1 \in 1 .. Len(s)
    BY <1>1
  <2>2. Calls(d, Head(s), ds[1 + 1], crashed)
    BY <1>1, <1>2, <2>1
  <2> QED
    BY <2>2 DEF Calls
<1> QED
  BY <1>2, <1>6, <1>7, <1>8

LEMMA PathJoin ==
    ASSUME NEW d, NEW s, IsSeq(s), NEW e, NEW given, NEW crashed,
           Path(d, s, e, given, crashed),
           NEW r, IsSeq(r), NEW f, Path(e, r, f, given, crashed)
    PROVE  Path(d, s \o r, f, given, crashed)
<1>1. /\ IsSeq(s \o r) /\ Len(s) \in Nat /\ Len(r) \in Nat
      /\ Len(s \o r) = Len(s) + Len(r)
      /\ \A k \in 1 .. Len(s) : (s \o r)[k] = s[k]
      /\ \A k \in (Len(s) + 1) .. (Len(s) + Len(r)) : (s \o r)[k] = r[k - Len(s)]
  BY SeqsJoin, ZenonT(40)
<1>2. PICK ds :
        /\ ds[1] = d /\ ds[Len(s) + 1] = e
        /\ \A k \in 1 .. Len(s) : Calls(ds[k], s[k], ds[k + 1], crashed)
        /\ \A k \in 1 .. (Len(s) + 1) : Sound(ds[k], given, crashed)
  BY DEF Path
<1>3. PICK es :
        /\ es[1] = e /\ es[Len(r) + 1] = f
        /\ \A k \in 1 .. Len(r) : Calls(es[k], r[k], es[k + 1], crashed)
        /\ \A k \in 1 .. (Len(r) + 1) : Sound(es[k], given, crashed)
  BY DEF Path
<1>4. PICK n : n = Len(s)
  OBVIOUS
<1>5. PICK m : m = Len(r)
  OBVIOUS
<1> DEFINE fs == [k \in 1 .. (n + m + 1) |-> IF k <= n THEN ds[k] ELSE es[k - n]]
<1>6. n \in Nat /\ m \in Nat /\ Len(s \o r) = n + m
  BY <1>1, <1>4, <1>5
<1>7. ASSUME NEW k \in 1 .. (n + 1) PROVE fs[k] = ds[k]
  <2>1. CASE k <= n
    BY <1>6, <2>1
  <2>2. CASE ~(k <= n)
    <3>1. k = n + 1 /\ k - n = 1 /\ k \in 1 .. (n + m + 1)
      BY <1>6, <2>2
    <3>2. fs[k] = es[1]
      BY <2>2, <3>1
    <3> QED
      BY <1>2, <1>3, <1>4, <3>1, <3>2
  <2> QED
    BY <2>1, <2>2
<1>8. ASSUME NEW k \in (n + 1) .. (n + m + 1) PROVE fs[k] = es[k - n]
  BY <1>6
<1> HIDE DEF fs
<1>9. fs[1] = d /\ fs[Len(s \o r) + 1] = f
  <2>1. 1 \in 1 .. (n + 1) /\ n + m + 1 \in (n + 1) .. (n + m + 1) /\ (n + m + 1) - n = m + 1
    BY <1>6
  <2> QED
    <3>1. fs[1] = ds[1] /\ fs[n + m + 1] = es[m + 1]
      BY <1>7, <1>8, <2>1
    <3> QED
      BY <1>2, <1>3, <1>5, <1>6, <3>1
<1>10. ASSUME NEW k \in 1 .. Len(s \o r) PROVE Calls(fs[k], (s \o r)[k], fs[k + 1], crashed)
  <2>1. CASE k <= n
    <3>1. k \in 1 .. Len(s) /\ k \in 1 .. (n + 1) /\ k + 1 \in 1 .. (n + 1)
      BY <1>4, <1>6, <2>1
    <3> QED
      BY <1>1, <1>2, <1>7, <3>1
  <2>2. CASE ~(k <= n)
    <3>1. /\ k \in (n + 1) .. (n + m + 1) /\ k + 1 \in (n + 1) .. (n + m + 1)
          /\ k - n \in 1 .. m /\ (k + 1) - n = (k - n) + 1
          /\ k \in (Len(s) + 1) .. (Len(s) + Len(r)) /\ k - n = k - Len(s)
      BY <1>4, <1>5, <1>6, <2>2
    <3>2. fs[k] = es[k - n] /\ fs[k + 1] = es[(k - n) + 1] /\ (s \o r)[k] = r[k - n]
      BY <1>1, <1>8, <3>1
    <3> QED
      BY <1>3, <1>5, <3>1, <3>2
  <2> QED
    BY <2>1, <2>2
<1>11. ASSUME NEW k \in 1 .. (Len(s \o r) + 1) PROVE Sound(fs[k], given, crashed)
  <2>1. CASE k <= n
    <3>1. k \in 1 .. (Len(s) + 1) /\ k \in 1 .. (n + 1)
      BY <1>4, <1>6, <2>1
    <3> QED
      BY <1>2, <1>7, <3>1
  <2>2. CASE ~(k <= n)
    <3>1. k \in (n + 1) .. (n + m + 1) /\ k - n \in 1 .. (Len(r) + 1)
      BY <1>5, <1>6, <2>2
    <3> QED
      BY <1>3, <1>8, <3>1
  <2> QED
    BY <2>1, <2>2
<1> QED
  BY <1>9, <1>10, <1>11 DEF Path

\* Three system calls.
LEMMA PathThree ==
    ASSUME NEW s, Len(s) = 3, NEW given, NEW crashed,
           NEW d, Sound(d, given, crashed),
           NEW e, Calls(d, s[1], e, crashed), Sound(e, given, crashed),
           NEW f, Calls(e, s[2], f, crashed), Sound(f, given, crashed),
           NEW g, Calls(f, s[3], g, crashed), Sound(g, given, crashed)
    PROVE  Path(d, s, g, given, crashed)
<1> DEFINE ds == [k \in 1 .. 4 |-> IF k = 1 THEN d ELSE IF k = 2 THEN e ELSE IF k = 3 THEN f ELSE g]
<1>1. ds[1] = d /\ ds[2] = e /\ ds[3] = f /\ ds[4] = g
  OBVIOUS
<1> HIDE DEF ds
<1>2. ds[1] = d /\ ds[Len(s) + 1] = g
  BY <1>1
<1>3. ASSUME NEW k \in 1 .. Len(s) PROVE Calls(ds[k], s[k], ds[k + 1], crashed)
  <2>1. k = 1 \/ k = 2 \/ k = 3
    OBVIOUS
  <2> QED
    BY <1>1, <2>1
<1>4. ASSUME NEW k \in 1 .. (Len(s) + 1) PROVE Sound(ds[k], given, crashed)
  <2>1. k = 1 \/ k = 2 \/ k = 3 \/ k = 4
    OBVIOUS
  <2> QED
    BY <1>1, <2>1
<1> QED
  BY <1>2, <1>3, <1>4 DEF Path

\* Soundness is about the log and the snapshot.
LEMMA SoundSame ==
    ASSUME NEW d, NEW e, DOMAIN e = DOMAIN d, e.log = d.log, e.snapshot = d.snapshot,
           NEW given, NEW crashed
    PROVE  /\ Sound(d, given, crashed) => Sound(e, given, crashed)
           /\ \A l : Ends(d, l, crashed) => Ends(e, l, crashed)
BY DEF Sound, Ends, Shows, Glued

\* A MemoryStorage is given a term or a vote when the file is complete.
LEMMA FileCalls ==
    ASSUME NEW d, DOMAIN d = {"term", "voted_for", "snapshot", "log"}, NEW w,
           w.file \in {"term", "voted_for"}, w.op \in FileOps, NEW e, e = Perform(d, w)
    PROVE  \A crashed : Calls(d, w, e, crashed)
<1> SUFFICES ASSUME NEW m, Mirrors(m, d) PROVE Mirrors(Mirror(m, w), e)
  BY DEF Calls
<1>1. PICK x : /\ e = [d EXCEPT ![w.file] = x]
               /\ w.op = "write" => x = Whole(w.data)
               /\ w.op # "write" => x \in {Emptied, Torn}
  BY DEF Perform, FileOps
<1>2. /\ e.log = d.log /\ e.snapshot = d.snapshot /\ LoadSnapshot(e) = LoadSnapshot(d)
      /\ w.file = "term" => e.voted_for = d.voted_for /\ e.term = x
      /\ w.file = "voted_for" => e.term = d.term /\ e.voted_for = x
  BY <1>1 DEF LoadSnapshot
<1>3. PICK l \in Seq(LogEntry), last \in {"torn", "whole", "line"} :
        Shows(d, l, last) /\ m.log = Complete(l, last)
  BY DEF Mirrors
<1>4. Shows(e, l, last)
  BY <1>2, <1>3 DEF Shows
<1>5. m = [term |-> m.term, voted_for |-> m.voted_for, log |-> m.log,
           snapshot |-> LoadSnapshot(d)]
  BY DEF Mirrors
<1>6. CASE w.op # "write"
  <2>1. Mirror(m, w) = m
    BY <1>6 DEF Mirror, FileOps
  <2>2. ~Valued(x)
    BY <1>1, <1>6, FileValues
  <2> QED
    BY <1>2, <1>3, <1>4, <2>1, <2>2 DEF Mirrors, LoadTerm, LoadVotedFor
<1>7. CASE w.op = "write" /\ w.file = "term"
  <2>1. PICK k : k = MemSaveTerm(m, w.data)
    OBVIOUS
  <2>2. Mirror(m, w) = k
    BY <1>7, <2>1 DEF Mirror
  <2>3. /\ k = [term |-> k.term, voted_for |-> k.voted_for, log |-> k.log,
                snapshot |-> LoadSnapshot(d)]
        /\ k.term = w.data /\ k.voted_for = m.voted_for /\ k.log = m.log
    BY <1>5, <2>1 DEF MemSaveTerm
  <2>4. LoadTerm(e) = w.data
    <3>1. e.term = Whole(w.data)
      BY <1>1, <1>2, <1>7
    <3> QED
      BY <3>1, FileValues
  <2>5. Valued(e.voted_for) => k.voted_for = LoadVotedFor(e)
    BY <1>2, <1>7, <2>3 DEF Mirrors, LoadVotedFor
  <2> QED
    BY <1>2, <1>3, <1>4, <2>2, <2>3, <2>4, <2>5 DEF Mirrors
<1>8. CASE w.op = "write" /\ w.file = "voted_for"
  <2>1. PICK k : k = MemSaveVotedFor(m, w.data)
    OBVIOUS
  <2>2. Mirror(m, w) = k
    BY <1>8, <2>1 DEF Mirror
  <2>3. /\ k = [term |-> k.term, voted_for |-> k.voted_for, log |-> k.log,
                snapshot |-> LoadSnapshot(d)]
        /\ k.term = m.term /\ k.voted_for = w.data /\ k.log = m.log
    BY <1>5, <2>1 DEF MemSaveVotedFor
  <2>4. LoadVotedFor(e) = w.data
    <3>1. e.voted_for = Whole(w.data)
      BY <1>1, <1>2, <1>8
    <3> QED
      BY <3>1, FileValues
  <2>5. Valued(e.term) => k.term = LoadTerm(e)
    BY <1>2, <1>8, <2>3 DEF Mirrors, LoadTerm
  <2> QED
    BY <1>2, <1>3, <1>4, <2>2, <2>3, <2>4, <2>5 DEF Mirrors
<1> QED
  BY <1>6, <1>7, <1>8

\* save_term and save_voted_for leave the log file alone.
LEMMA FilePath ==
    ASSUME NEW d, NEW given, NEW crashed, Sound(d, given, crashed),
           NEW file \in {"term", "voted_for"}, NEW data, NEW s, s = WriteWithChecksum(file, data)
    PROVE  \E e : /\ Path(d, s, e, given, crashed)
                  /\ \A l : Ends(d, l, crashed) => Ends(e, l, crashed)
<1>1. ASSUME NEW c, DOMAIN c = {"term", "voted_for", "snapshot", "log"},
             NEW w, w.file = file, w.op \in FileOps
      PROVE  /\ DOMAIN Perform(c, w) = DOMAIN c
             /\ Perform(c, w).log = c.log /\ Perform(c, w).snapshot = c.snapshot
  <2>1. PICK x : Perform(c, w) = [c EXCEPT ![file] = x]
    BY <1>1 DEF Perform, FileOps
  <2> QED
    BY <1>1, <2>1
<1>2. /\ Len(s) = 3
      /\ \A k \in 1 .. 3 : s[k].file = file /\ s[k].op \in FileOps
  BY FileWritten
<1>3. /\ s[1].file = file /\ s[1].op \in FileOps /\ s[2].file = file /\ s[2].op \in FileOps
      /\ s[3].file = file /\ s[3].op \in FileOps
  BY <1>2
<1>4. PICK e : e = Perform(d, s[1])
  OBVIOUS
<1>5. PICK f : f = Perform(e, s[2])
  OBVIOUS
<1>6. PICK g : g = Perform(f, s[3])
  OBVIOUS
<1>7. DOMAIN d = {"term", "voted_for", "snapshot", "log"}
  BY DEF Sound
<1>8. DOMAIN e = DOMAIN d /\ e.log = d.log /\ e.snapshot = d.snapshot
  BY <1>1, <1>3, <1>4, <1>7
<1>9. DOMAIN f = DOMAIN d /\ f.log = d.log /\ f.snapshot = d.snapshot
  BY <1>1, <1>3, <1>5, <1>7, <1>8
<1>10. DOMAIN g = DOMAIN d /\ g.log = d.log /\ g.snapshot = d.snapshot
  BY <1>1, <1>3, <1>6, <1>7, <1>9
<1>11. /\ Sound(e, given, crashed) /\ Sound(f, given, crashed) /\ Sound(g, given, crashed)
       /\ \A l : Ends(d, l, crashed) => Ends(g, l, crashed)
  BY <1>8, <1>9, <1>10, SoundSame
<1>12. /\ Calls(d, s[1], e, crashed) /\ Calls(e, s[2], f, crashed) /\ Calls(f, s[3], g, crashed)
  BY <1>3, <1>4, <1>5, <1>6, <1>7, <1>8, <1>9, FileCalls
<1>13. Path(d, s, g, given, crashed)
  BY <1>2, <1>11, <1>12, PathThree
<1> QED
  BY <1>11, <1>13

\* What a system call does to the log file.
LEMMA LogCall ==
    ASSUME NEW d, DOMAIN d = {"term", "voted_for", "snapshot", "log"},
           NEW op \in {"entry", "checksum", "feed"}, NEW data,
           NEW w, w = Write("log", op, data), NEW e, e = Perform(d, w)
    PROVE  /\ DOMAIN e = DOMAIN d /\ e.snapshot = d.snapshot
           /\ e.log = AppendTo(d.log, w)
           /\ w.op = op /\ w.data = data
<1>1. w.op = op /\ w.data = data
  BY DEF Write
<1>2. e = [d EXCEPT !.log = AppendTo(@, w)]
  BY <1>1 DEF Perform
<1> QED
  BY <1>1, <1>2

LEMMA LineParts ==
    \A entry, is : /\ Line(entry, is).entry = entry /\ Line(entry, is).is = is
                   /\ \A x : [Line(entry, is) EXCEPT !.is = x] = Line(entry, x)
BY DEF Line

\* A log of complete entries is read as it is.
LEMMA ShowsLoads ==
    ASSUME NEW d, NEW l, l \in Seq(LogEntry), NEW last \in {"whole", "line"}, Shows(d, l, last)
    PROVE  LogLoads(d) /\ LoadLog(d) = l
<1>1. PICK n : n = Len(l)
  OBVIOUS
<1>2. n \in Nat /\ DOMAIN d.log = 1 .. n /\ DOMAIN l = 1 .. n
  BY <1>1 DEF Shows, IsSeq
<1>3. \A j \in 1 .. n : d.log[j].entry = l[j] /\ d.log[j].is \in {"whole", "line"}
  BY <1>1, LineParts DEF Shows
<1>4. LogLoads(d)
  BY <1>2, <1>3 DEF LogLoads
<1>5. LoadLog(d) = [j \in 1 .. n |-> l[j]]
  BY <1>2, <1>3 DEF LoadLog
<1>6. l = [j \in 1 .. n |-> l[j]]
  BY <1>2
<1> QED
  BY <1>4, <1>5, <1>6

\* The first part of an entry is a new line, if the last one ends.
LEMMA EntryAdds ==
    ASSUME NEW d, DOMAIN d = {"term", "voted_for", "snapshot", "log"},
           NEW l, l \in Seq(LogEntry), Shows(d, l, "line"), NEW x \in LogEntry,
           NEW e, e = Perform(d, Write("log", "entry", x))
    PROVE  Shows(e, Append(l, x), "torn")
<1>1. PICK w : w = Write("log", "entry", x)
  OBVIOUS
<1>2. /\ e.log = AppendTo(d.log, w) /\ w.op = "entry" /\ w.data = x
  BY <1>1, LogCall
<1>3. PICK S : d.log \in Seq(S)
  BY DEF Shows, IsSeq
<1>4. PICK T : T = S \cup {Line(x, "torn")}
  OBVIOUS
<1>5. d.log \in Seq(T) /\ Line(x, "torn") \in T /\ Len(d.log) = Len(l) /\ Len(l) \in Nat
  BY <1>3, <1>4 DEF Shows
<1>6. d.log # <<>> => d.log[Len(d.log)].is = "line"
  <2> SUFFICES ASSUME d.log # <<>> PROVE d.log[Len(d.log)].is = "line"
    OBVIOUS
  <2>1. Len(d.log) \in 1 .. Len(l)
    BY <1>5
  <2> QED
    BY <1>5, <2>1, LineParts DEF Shows
<1>7. e.log = Append(d.log, Line(x, "torn"))
  BY <1>2, <1>6 DEF AppendTo
<1>8. /\ e.log \in Seq(T) /\ Len(e.log) = Len(l) + 1
      /\ \A k \in 1 .. Len(l) : e.log[k] = d.log[k]
      /\ e.log[Len(l) + 1] = Line(x, "torn")
  <2>1. PICK line : line = Line(x, "torn")
    OBVIOUS
  <2>2. PICK lines : lines = d.log
    OBVIOUS
  <2>3. lines \in Seq(T) /\ line \in T /\ Len(lines) = Len(l)
    BY <1>5, <2>1, <2>2
  <2>4. /\ Append(lines, line) \in Seq(T) /\ Len(Append(lines, line)) = Len(lines) + 1
        /\ \A k \in 1 .. Len(lines) : Append(lines, line)[k] = lines[k]
        /\ Append(lines, line)[Len(lines) + 1] = line
    BY <2>3
  <2> QED
    BY <1>7, <2>1, <2>2, <2>3, <2>4
<1>9. /\ Len(Append(l, x)) = Len(l) + 1
      /\ \A k \in 1 .. Len(l) : Append(l, x)[k] = l[k]
      /\ Append(l, x)[Len(l) + 1] = x
  BY <1>5
<1>10. ASSUME NEW k \in 1 .. (Len(l) + 1)
       PROVE  e.log[k] = Line(Append(l, x)[k], IF k = Len(l) + 1 THEN "torn" ELSE "line")
  <2>1. CASE k = Len(l) + 1
    BY <1>8, <1>9, <2>1
  <2>2. CASE k # Len(l) + 1
    <3>1. k \in 1 .. Len(l)
      BY <1>5, <2>2
    <3>2. d.log[k] = Line(l[k], "line")
      BY <3>1 DEF Shows
    <3> QED
      BY <1>8, <1>9, <2>2, <3>1, <3>2
  <2> QED
    BY <2>1, <2>2
<1> QED
  BY <1>8, <1>9, <1>10 DEF Shows, IsSeq

\* The checksum and the line feed complete the last line.
LEMMA EntryEnds ==
    ASSUME NEW d, DOMAIN d = {"term", "voted_for", "snapshot", "log"},
           NEW l, l \in Seq(LogEntry), l # <<>>, NEW x,
           NEW op \in {"checksum", "feed"}, NEW last \in {"torn", "whole"}, Shows(d, l, last),
           NEW e, e = Perform(d, Write("log", op, x))
    PROVE  Shows(e, l, IF op = "checksum" THEN "whole" ELSE "line")
<1>1. PICK w : w = Write("log", op, x)
  OBVIOUS
<1>2. /\ e.log = AppendTo(d.log, w) /\ w.op = op
  BY <1>1, LogCall
<1>3. PICK S : d.log \in Seq(S)
  BY DEF Shows, IsSeq
<1>4. PICK n : n = Len(l)
  OBVIOUS
<1>5. n \in Nat /\ n \in 1 .. n /\ Len(d.log) = n /\ DOMAIN d.log = 1 .. n
  BY <1>3, <1>4 DEF Shows
<1>6. d.log[n] = Line(l[n], last)
  BY <1>4, <1>5 DEF Shows
<1>7. PICK is : is = IF op = "checksum" THEN "whole" ELSE "line"
  OBVIOUS
<1>8. e.log = [d.log EXCEPT ![n] = Line(l[n], is)]
  <2>1. d.log[n].is # "glued"
    BY <1>6, LineParts
  <2>2. e.log = [d.log EXCEPT ![n].is = is]
    BY <1>2, <1>5, <1>7, <2>1 DEF AppendTo
  <2>3. [d.log[n] EXCEPT !.is = is] = Line(l[n], is)
    BY <1>6, LineParts
  <2> QED
    BY <2>2, <2>3
<1>9. DOMAIN e.log = 1 .. n /\ e.log[n] = Line(l[n], is) /\ \A k \in 1 .. n : k # n => e.log[k] = d.log[k]
  BY <1>5, <1>8
<1>10. IsSeq(e.log) /\ Len(e.log) = n
  <2>1. e.log = [k \in 1 .. n |-> e.log[k]]
    BY <1>8, <1>9
  <2> DEFINE R == {e.log[k] : k \in 1 .. n}
  <2>2. e.log \in [1 .. n -> R]
    BY <2>1
  <2>3. e.log \in Seq(R) /\ Len(e.log) = n
    BY <1>5, <2>2, FunctionIsSequence
  <2> QED
    BY <2>3 DEF IsSeq
<1>11. ASSUME NEW k \in 1 .. n
       PROVE  e.log[k] = Line(l[k], IF k = n THEN is ELSE "line")
  BY <1>4, <1>9 DEF Shows
<1>12. Shows(e, l, is)
  BY <1>4, <1>10, <1>11 DEF Shows
<1> QED
  BY <1>7, <1>12

\* A log file with two entries in one line does not change any more: what follows
\* goes to the same line, and nothing can be cut from what cannot be read.
LEMMA GluedStays ==
    ASSUME NEW d, DOMAIN d = {"term", "voted_for", "snapshot", "log"}, Glued(d),
           NEW op \in {"entry", "checksum", "feed", "truncate"}, NEW data,
           NEW e, e = Perform(d, Write("log", op, data))
    PROVE  DOMAIN e = DOMAIN d /\ e.snapshot = d.snapshot /\ e.log = d.log
<1>1. PICK w : w = Write("log", op, data)
  OBVIOUS
<1>2. PICK S : d.log \in Seq(S)
  BY DEF Glued, IsSeq
<1>3. PICK n : n = Len(d.log)
  OBVIOUS
<1>4. PICK entry : d.log[n] = Line(entry, "glued")
  BY <1>3 DEF Glued
<1>5. n \in Nat /\ n \in 1 .. n /\ DOMAIN d.log = 1 .. n /\ d.log # <<>>
  BY <1>2, <1>3 DEF Glued
<1>6. d.log[n].is = "glued" /\ [d.log[n] EXCEPT !.is = "glued"] = d.log[n]
  BY <1>4, LineParts
<1>7. CASE op \in {"checksum", "feed"}
  <2>1. e.log = AppendTo(d.log, w) /\ w.op = op /\ DOMAIN e = DOMAIN d /\ e.snapshot = d.snapshot
    BY <1>1, <1>7, LogCall
  <2> QED
    BY <1>3, <1>6, <1>7, <2>1 DEF AppendTo
<1>8. CASE op = "entry"
  <2>1. e.log = AppendTo(d.log, w) /\ w.op = op /\ DOMAIN e = DOMAIN d /\ e.snapshot = d.snapshot
    BY <1>1, <1>8, LogCall
  <2>2. e.log = [d.log EXCEPT ![n].is = "glued"]
    BY <1>3, <1>5, <1>6, <1>8, <2>1 DEF AppendTo
  <2>3. [d.log EXCEPT ![n].is = "glued"] = [d.log EXCEPT ![n] = d.log[n]]
    BY <1>6
  <2>4. [d.log EXCEPT ![n] = d.log[n]] = d.log
    BY <1>2
  <2> QED
    BY <2>1, <2>2, <2>3, <2>4
<1>9. CASE op = "truncate"
  <2>1. ~LogLoads(d)
    BY <1>5, <1>6 DEF LogLoads
  <2>2. w.op = "truncate"
    BY <1>1, <1>9 DEF Write
  <2>3. e = d
    BY <1>1, <2>1, <2>2 DEF Perform
  <2> QED
    BY <2>3
<1> QED
  BY <1>7, <1>8, <1>9

\* An entry after a line without its line feed.
LEMMA EntryGlues ==
    ASSUME NEW d, DOMAIN d = {"term", "voted_for", "snapshot", "log"},
           NEW l, l \in Seq(LogEntry), l # <<>>, Shows(d, l, "whole"), NEW x,
           NEW e, e = Perform(d, Write("log", "entry", x))
    PROVE  Glued(e)
<1>1. PICK w : w = Write("log", "entry", x)
  OBVIOUS
<1>2. /\ e.log = AppendTo(d.log, w) /\ w.op = "entry"
  BY <1>1, LogCall
<1>3. PICK S : d.log \in Seq(S)
  BY DEF Shows, IsSeq
<1>4. PICK n : n = Len(l)
  OBVIOUS
<1>5. n \in Nat /\ n \in 1 .. n /\ Len(d.log) = n /\ DOMAIN d.log = 1 .. n /\ d.log # <<>>
  BY <1>3, <1>4 DEF Shows
<1>6. d.log[n] = Line(l[n], "whole")
  BY <1>4, <1>5 DEF Shows
<1>7. e.log = [d.log EXCEPT ![n] = Line(l[n], "glued")]
  <2>1. d.log[n].is # "line" /\ [d.log[n] EXCEPT !.is = "glued"] = Line(l[n], "glued")
    BY <1>6, LineParts
  <2>2. e.log = [d.log EXCEPT ![n].is = "glued"]
    BY <1>2, <1>5, <2>1 DEF AppendTo
  <2> QED
    BY <2>1, <2>2
<1>8. DOMAIN e.log = 1 .. n /\ e.log[n] = Line(l[n], "glued")
  BY <1>5, <1>7
<1>9. IsSeq(e.log) /\ Len(e.log) = n
  <2>1. e.log = [k \in 1 .. n |-> e.log[k]]
    BY <1>7, <1>8
  <2> DEFINE R == {e.log[k] : k \in 1 .. n}
  <2>2. e.log \in [1 .. n -> R]
    BY <2>1
  <2>3. e.log \in Seq(R) /\ Len(e.log) = n
    BY <1>5, <2>2, FunctionIsSequence
  <2> QED
    BY <2>3 DEF IsSeq
<1>10. e.log # <<>>
  BY <1>5, <1>9
<1> QED
  BY <1>8, <1>9, <1>10 DEF Glued

\* Cutting a log that loads leaves complete lines.
LEMMA CutShows ==
    ASSUME NEW d, DOMAIN d = {"term", "voted_for", "snapshot", "log"},
           NEW l, Contiguous(l), NEW last \in {"whole", "line"}, Shows(d, l, last),
           NEW k \in 1 .. Len(l), NEW e, e = Perform(d, Write("log", "truncate", k))
    PROVE  /\ DOMAIN e = DOMAIN d /\ e.snapshot = d.snapshot
           /\ Shows(e, SubSeq(l, 1, k - 1), "line")
<1>1. PICK w : w = Write("log", "truncate", k)
  OBVIOUS
<1>2. w.op = "truncate" /\ w.data = k
  BY <1>1 DEF Write
<1>3. LogLoads(d) /\ LoadLog(d) = l
  BY ShowsLoads DEF Contiguous
<1>4. PICK r : r = SubSeq(l, 1, k - 1)
  OBVIOUS
<1>5. TruncateLog(l, k) = r /\ Contiguous(r)
  BY <1>4, TruncateKeeps
<1>6. e = [d EXCEPT !.log = AsLines(r)]
  <2>1. TruncateLog(LoadLog(d), w.data) = r
    BY <1>2, <1>3, <1>5
  <2> QED
    BY <1>1, <1>2, <1>3, <2>1 DEF Perform
<1>7. e.log = AsLines(r) /\ DOMAIN e = DOMAIN d /\ e.snapshot = d.snapshot
  BY <1>6
<1>8. Shows(e, r, "line")
  <2>1. PICK m : m = Len(r)
    OBVIOUS
  <2>2. m \in Nat /\ DOMAIN r = 1 .. m
    BY <1>5, <2>1 DEF Contiguous
  <2>3. e.log = [j \in 1 .. m |-> Line(r[j], "line")]
    BY <1>7, <2>2 DEF AsLines
  <2> DEFINE R == {Line(r[j], "line") : j \in 1 .. m}
  <2>4. e.log \in [1 .. m -> R]
    BY <2>3
  <2>5. e.log \in Seq(R) /\ Len(e.log) = m
    BY <2>2, <2>4, FunctionIsSequence
  <2>6. \A j \in 1 .. m : e.log[j] = Line(r[j], "line")
    BY <2>3
  <2> QED
    BY <2>1, <2>5, <2>6 DEF Shows, IsSeq
<1> QED
  BY <1>4, <1>7, <1>8

\* A log in memory that is good, and a disk that a handler left with it.
LEMMA EndsSound ==
    ASSUME NEW d, DOMAIN d = {"term", "voted_for", "snapshot", "log"}, d.snapshot = Absent,
           NEW l, NEW crashed, Ends(d, l, crashed),
           NEW given, FromLeaders(l), KeepsAcked(l, given)
    PROVE  Sound(d, given, crashed)
BY DEF Sound, Ends

LEMMA PathEnds ==
    ASSUME NEW d, NEW s, Len(s) \in Nat, NEW e, NEW given, NEW crashed,
           Path(d, s, e, given, crashed)
    PROVE  Sound(d, given, crashed) /\ Sound(e, given, crashed)
<1>1. PICK ds :
        /\ ds[1] = d /\ ds[Len(s) + 1] = e
        /\ \A k \in 1 .. (Len(s) + 1) : Sound(ds[k], given, crashed)
  BY DEF Path
<1>2. 1 \in 1 .. (Len(s) + 1) /\ Len(s) + 1 \in 1 .. (Len(s) + 1)
  OBVIOUS
<1> QED
  BY <1>1, <1>2

\* One system call.
LEMMA PathOne ==
    ASSUME NEW w, NEW given, NEW crashed, NEW d, Sound(d, given, crashed),
           NEW e, Calls(d, w, e, crashed), Sound(e, given, crashed)
    PROVE  Path(d, <<w>>, e, given, crashed)
<1> DEFINE ds == [k \in 1 .. 2 |-> IF k = 1 THEN d ELSE e]
<1>1. ds[1] = d /\ ds[2] = e
  OBVIOUS
<1>2. Len(<<w>>) = 1 /\ <<w>>[1] = w
  OBVIOUS
<1> HIDE DEF ds
<1>3. ds[1] = d /\ ds[Len(<<w>>) + 1] = e
  BY <1>1, <1>2
<1>4. ASSUME NEW k \in 1 .. Len(<<w>>) PROVE Calls(ds[k], <<w>>[k], ds[k + 1], crashed)
  <2>1. k = 1
    BY <1>2
  <2> QED
    BY <1>1, <1>2, <2>1
<1>5. ASSUME NEW k \in 1 .. (Len(<<w>>) + 1) PROVE Sound(ds[k], given, crashed)
  <2>1. k = 1 \/ k = 2
    BY <1>2
  <2> QED
    BY <1>1, <2>1
<1> QED
  BY <1>3, <1>4, <1>5 DEF Path

\* A file shows one log.
LEMMA ShowsOnce ==
    ASSUME NEW d, NEW l, l \in Seq(LogEntry), NEW last, Shows(d, l, last),
           NEW k, k \in Seq(LogEntry), NEW end, Shows(d, k, end)
    PROVE  l = k /\ (l # <<>> => last = end)
<1>1. PICK n : n = Len(l)
  OBVIOUS
<1>2. n \in Nat /\ Len(l) = n /\ Len(k) = n
  <2>1. Len(d.log) = Len(l) /\ Len(d.log) = Len(k)
    BY DEF Shows
  <2> QED
    BY <1>1, <2>1
<1>3. ASSUME NEW j \in 1 .. n PROVE l[j] = k[j] /\ (j = n => last = end)
  <2>1. PICK is : is = IF j = n THEN last ELSE "line"
    OBVIOUS
  <2>2. PICK to : to = IF j = n THEN end ELSE "line"
    OBVIOUS
  <2>3. d.log[j] = Line(l[j], is) /\ d.log[j] = Line(k[j], to)
    BY <1>2, <2>1, <2>2 DEF Shows
  <2>4. /\ d.log[j].entry = l[j] /\ d.log[j].entry = k[j]
        /\ d.log[j].is = is /\ d.log[j].is = to
    <3>1. Line(l[j], is).entry = l[j] /\ Line(l[j], is).is = is
      BY LineParts
    <3>2. Line(k[j], to).entry = k[j] /\ Line(k[j], to).is = to
      BY LineParts
    <3> QED
      BY <2>3, <3>1, <3>2
  <2>5. l[j] = k[j] /\ is = to
    BY <2>4
  <2>6. ASSUME j = n PROVE last = end
    <3>1. is = last /\ to = end
      BY <2>1, <2>2, <2>6
    <3> QED
      BY <2>5, <3>1
  <2> QED
    BY <2>5, <2>6
<1>4. l = k
  BY <1>2, <1>3
<1>5. l # <<>> => n \in 1 .. n
  BY <1>2
<1> QED
  BY <1>3, <1>4, <1>5

\* A MemoryStorage with the log x beside the disk d has the log y after w.
Relogs(d, w, x, y) ==
    \A m : /\ m = [term |-> m.term, voted_for |-> m.voted_for, log |-> m.log,
                    snapshot |-> LoadSnapshot(d)]
           /\ m.log = x
           => Mirror(m, w) = [m EXCEPT !.log = y]

\* A system call on the log file, and what a MemoryStorage has after it.
LEMMA LogCalls ==
    ASSUME NEW d, DOMAIN d = {"term", "voted_for", "snapshot", "log"},
           NEW w, NEW e, e = Perform(d, w),
           e.term = d.term, e.voted_for = d.voted_for, e.snapshot = d.snapshot,
           NEW l, l \in Seq(LogEntry), NEW last, Shows(d, l, last),
           NEW k, k \in Seq(LogEntry), NEW end \in {"torn", "whole", "line"}, Shows(e, k, end),
           Relogs(d, w, Complete(l, last), Complete(k, end))
    PROVE  \A crashed : Calls(d, w, e, crashed)
<1> SUFFICES ASSUME NEW m, Mirrors(m, d) PROVE Mirrors(Mirror(m, w), e)
  BY DEF Calls
<1>1. PICK l2 \in Seq(LogEntry), last2 \in {"torn", "whole", "line"} :
        Shows(d, l2, last2) /\ m.log = Complete(l2, last2)
  BY DEF Mirrors
<1>2. l = l2 /\ (l # <<>> => last = last2)
  BY <1>1, ShowsOnce
<1>3. m.log = Complete(l, last)
  BY <1>1, <1>2 DEF Complete
<1>4. PICK x : x = Complete(k, end)
  OBVIOUS
<1>5. PICK n : n = Mirror(m, w)
  OBVIOUS
<1>6. m = [term |-> m.term, voted_for |-> m.voted_for, log |-> m.log,
           snapshot |-> LoadSnapshot(d)]
  BY DEF Mirrors
<1>7. n = [m EXCEPT !.log = x]
  BY <1>3, <1>4, <1>5, <1>6 DEF Relogs
<1>8. n = [term |-> m.term, voted_for |-> m.voted_for, log |-> x, snapshot |-> LoadSnapshot(d)]
  BY <1>6, <1>7
<1>9. LoadSnapshot(e) = LoadSnapshot(d) /\ LoadTerm(e) = LoadTerm(d)
      /\ LoadVotedFor(e) = LoadVotedFor(d)
  BY DEF LoadSnapshot, LoadTerm, LoadVotedFor
<1>10. n = [term |-> n.term, voted_for |-> n.voted_for, log |-> n.log, snapshot |-> LoadSnapshot(e)]
  BY <1>8, <1>9
<1>11. Valued(e.term) => n.term = LoadTerm(e)
  BY <1>8, <1>9 DEF Mirrors
<1>12. Valued(e.voted_for) => n.voted_for = LoadVotedFor(e)
  BY <1>8, <1>9 DEF Mirrors
<1>13. n.log = Complete(k, end)
  BY <1>4, <1>8
<1> QED
  BY <1>5, <1>10, <1>11, <1>12, <1>13 DEF Mirrors

\* A system call on the log file leaves the others alone.
LEMMA LogElsewhere ==
    ASSUME NEW d, DOMAIN d = {"term", "voted_for", "snapshot", "log"},
           NEW op \in {"entry", "checksum", "feed", "truncate"}, NEW data,
           NEW e, e = Perform(d, Write("log", op, data))
    PROVE  e.term = d.term /\ e.voted_for = d.voted_for /\ e.snapshot = d.snapshot
<1>1. PICK w : w = Write("log", op, data)
  OBVIOUS
<1>2. w.op = op
  BY <1>1 DEF Write
<1>3. e = d \/ \E x : e = [d EXCEPT !.log = x]
  BY <1>1, <1>2 DEF Perform
<1> QED
  BY <1>3

\* A MemoryStorage is given an entry with its line feed.
LEMMA EntryCalls ==
    ASSUME NEW d, DOMAIN d = {"term", "voted_for", "snapshot", "log"},
           NEW l, l \in Seq(LogEntry), NEW x \in LogEntry, NEW r, r = Append(l, x),
           NEW e, e = Perform(d, Write("log", "entry", x)), DOMAIN e = DOMAIN d,
           NEW f, f = Perform(e, Write("log", "checksum", x)), DOMAIN f = DOMAIN d,
           NEW g, g = Perform(f, Write("log", "feed", x)), DOMAIN g = DOMAIN d,
           Shows(d, l, "line"), Shows(e, r, "torn"), Shows(f, r, "whole"), Shows(g, r, "line"),
           NEW crashed
    PROVE  /\ Calls(d, Write("log", "entry", x), e, crashed)
           /\ Calls(e, Write("log", "checksum", x), f, crashed)
           /\ Calls(f, Write("log", "feed", x), g, crashed)
<1>1. r \in Seq(LogEntry) /\ r # <<>> /\ SubSeq(r, 1, Len(r) - 1) = l
  <2>1. PICK n : n = Len(l)
    OBVIOUS
  <2>2. n \in Nat /\ Len(r) = n + 1 /\ r \in Seq(LogEntry) /\ (n + 1) - 1 = n
    BY <2>1
  <2>3. \A k \in 1 .. n : r[k] = l[k]
    BY <2>1
  <2>4. SubSeq(r, 1, n) \in Seq(LogEntry) /\ Len(SubSeq(r, 1, n)) = n
        /\ \A k \in 1 .. n : SubSeq(r, 1, n)[k] = r[k]
    BY <2>2
  <2>5. SubSeq(r, 1, n) = l
    BY <2>1, <2>2, <2>3, <2>4
  <2> QED
    BY <2>2, <2>5
<1>2. Complete(l, "line") = l /\ Complete(r, "torn") = l /\ Complete(r, "whole") = l
      /\ Complete(r, "line") = r
  BY <1>1 DEF Complete
<1>3. ASSUME NEW op \in {"entry", "checksum"}, NEW w, w = Write("log", op, x),
             NEW m, m = [term |-> m.term, voted_for |-> m.voted_for, log |-> m.log,
                         snapshot |-> m.snapshot], m.log = l
      PROVE  Mirror(m, w) = [m EXCEPT !.log = l]
  <2>1. Mirror(m, w) = m
    BY <1>3 DEF Mirror, Write
  <2>2. m = [m EXCEPT !.log = m.log]
    BY <1>3
  <2> QED
    BY <1>3, <2>1, <2>2
<1>4. ASSUME NEW w, w = Write("log", "feed", x), NEW m, m.log = l
      PROVE  Mirror(m, w) = [m EXCEPT !.log = r]
  <2>1. Mirror(m, w) = MemAppend(m, x)
    BY <1>4 DEF Mirror, Write
  <2> QED
    BY <1>4, <2>1 DEF MemAppend
<1>5. Calls(d, Write("log", "entry", x), e, crashed)
  <2>1. e.term = d.term /\ e.voted_for = d.voted_for /\ e.snapshot = d.snapshot
    BY LogElsewhere
  <2>2. PICK w : w = Write("log", "entry", x)
    OBVIOUS
  <2>3. Relogs(d, w, Complete(l, "line"), Complete(r, "torn"))
    BY <1>2, <1>3, <2>2 DEF Relogs
  <2>4. e = Perform(d, w)
    BY <2>2
  <2>5. Calls(d, w, e, crashed)
    BY <1>1, <2>1, <2>3, <2>4, LogCalls
  <2> QED
    BY <2>2, <2>5
<1>6. Calls(e, Write("log", "checksum", x), f, crashed)
  <2>1. f.term = e.term /\ f.voted_for = e.voted_for /\ f.snapshot = e.snapshot
    BY LogElsewhere
  <2>2. PICK w : w = Write("log", "checksum", x)
    OBVIOUS
  <2>3. Relogs(e, w, Complete(r, "torn"), Complete(r, "whole"))
    BY <1>2, <1>3, <2>2 DEF Relogs
  <2>4. f = Perform(e, w)
    BY <2>2
  <2>5. Calls(e, w, f, crashed)
    BY <1>1, <2>1, <2>3, <2>4, LogCalls
  <2> QED
    BY <2>2, <2>5
<1>7. Calls(f, Write("log", "feed", x), g, crashed)
  <2>1. g.term = f.term /\ g.voted_for = f.voted_for /\ g.snapshot = f.snapshot
    BY LogElsewhere
  <2>2. PICK w : w = Write("log", "feed", x)
    OBVIOUS
  <2>3. Relogs(f, w, Complete(r, "whole"), Complete(r, "line"))
    BY <1>2, <1>4, <2>2 DEF Relogs
  <2>4. g = Perform(f, w)
    BY <2>2
  <2>5. Calls(f, w, g, crashed)
    BY <1>1, <2>1, <2>3, <2>4, LogCalls
  <2> QED
    BY <2>2, <2>5
<1> QED
  BY <1>5, <1>6, <1>7

\* What a MemoryStorage cuts from a log that starts at index 1.
LEMMA CutCalls ==
    ASSUME NEW d, DOMAIN d = {"term", "voted_for", "snapshot", "log"},
           NEW l, l \in Seq(LogEntry), NEW k \in 1 .. Len(l), NEW r, r = SubSeq(l, 1, k - 1),
           NEW e, e = Perform(d, Write("log", "truncate", k)), Shows(d, l, "line"),
           Shows(e, r, "line"), NEW crashed
    PROVE  Calls(d, Write("log", "truncate", k), e, crashed)
<1>1. Complete(l, "line") = l /\ Complete(r, "line") = r /\ r \in Seq(LogEntry)
  BY DEF Complete
<1>2. PICK w : w = Write("log", "truncate", k)
  OBVIOUS
<1>3. ASSUME NEW m, m = [term |-> m.term, voted_for |-> m.voted_for, log |-> m.log,
                         snapshot |-> LoadSnapshot(d)], m.log = Complete(l, "line")
      PROVE  Mirror(m, w) = [m EXCEPT !.log = Complete(r, "line")]
  <2>1. Mirror(m, w) = MemTruncate(m, k)
    BY <1>2 DEF Mirror, Write
  <2>2. k # 0 /\ k - 1 < Len(m.log)
    BY <1>1, <1>3
  <2> QED
    BY <1>1, <1>3, <2>1, <2>2 DEF MemTruncate
<1>4. e.term = d.term /\ e.voted_for = d.voted_for /\ e.snapshot = d.snapshot
  BY LogElsewhere
<1>5. e = Perform(d, w) /\ Shows(d, l, "line") /\ Shows(e, r, "line") /\ r \in Seq(LogEntry)
  BY <1>1, <1>2
<1>6. Relogs(d, w, Complete(l, "line"), Complete(r, "line"))
  BY <1>3 DEF Relogs
<1>7. Calls(d, w, e, crashed)
  BY <1>4, <1>5, <1>6, LogCalls
<1> QED
  BY <1>2, <1>7

\* append_log_entries: every disk on the way has the log with or without the entry,
\* or two entries in one line.
LEMMA AppendPath ==
    ASSUME NEW d, NEW given, NEW crashed, Sound(d, given, crashed),
           NEW l, Ends(d, l, crashed), NEW x \in LogEntry, x.index = Len(l) + 1,
           FromLeaders(l), FromLeaders(Append(l, x)), KeepsAcked(Append(l, x), given)
    PROVE  \E e : Path(d, AppendEntry(x), e, given, crashed) /\ Ends(e, Append(l, x), crashed)
<1>1. DOMAIN d = {"term", "voted_for", "snapshot", "log"} /\ d.snapshot = Absent
  BY DEF Sound
<1>2. PICK e1 : e1 = Perform(d, Write("log", "entry", x))
  OBVIOUS
<1>3. PICK e2 : e2 = Perform(e1, Write("log", "checksum", x))
  OBVIOUS
<1>4. PICK e3 : e3 = Perform(e2, Write("log", "feed", x))
  OBVIOUS
<1>5. PICK s : s = AppendEntry(x)
  OBVIOUS
<1>6. /\ Len(s) = 3 /\ s[1] = Write("log", "entry", x)
      /\ s[2] = Write("log", "checksum", x) /\ s[3] = Write("log", "feed", x)
  BY <1>5 DEF AppendEntry
<1>7. PICK r : r = Append(l, x)
  OBVIOUS
<1>8. l \in Seq(LogEntry) /\ r \in Seq(LogEntry) /\ r # <<>>
  <2>1. l \in Seq(LogEntry)
    BY DEF FromLeaders, Contiguous
  <2> QED
    BY <1>7, <2>1
<1>9. DOMAIN e1 = DOMAIN d /\ e1.snapshot = Absent
  <2>1. DOMAIN e1 = DOMAIN d /\ e1.snapshot = d.snapshot
    BY <1>1, <1>2, LogCall
  <2> QED
    BY <1>1, <2>1
<1>10. DOMAIN e2 = DOMAIN d /\ e2.snapshot = Absent
  <2>1. DOMAIN e2 = DOMAIN e1 /\ e2.snapshot = e1.snapshot
    BY <1>1, <1>3, <1>9, LogCall
  <2> QED
    BY <1>9, <2>1
<1>11. DOMAIN e3 = DOMAIN d /\ e3.snapshot = Absent
  <2>1. DOMAIN e3 = DOMAIN e2 /\ e3.snapshot = e2.snapshot
    BY <1>1, <1>4, <1>10, LogCall
  <2> QED
    BY <1>10, <2>1
<1>12. CASE Shows(d, l, "line")
  <2>1. Shows(e1, r, "torn")
    BY <1>1, <1>2, <1>7, <1>8, <1>12, EntryAdds
  <2>2. Shows(e2, r, "whole")
    <3>1. Shows(e2, r, IF "checksum" = "checksum" THEN "whole" ELSE "line")
      BY <1>1, <1>3, <1>8, <1>9, <2>1, EntryEnds
    <3> QED
      BY <3>1
  <2>3. Shows(e3, r, "line")
    <3>1. Shows(e3, r, IF "feed" = "checksum" THEN "whole" ELSE "line")
      BY <1>1, <1>4, <1>8, <1>10, <2>2, EntryEnds
    <3> QED
      BY <3>1
  <2>4. Sound(e1, given, crashed) /\ Sound(e2, given, crashed) /\ Sound(e3, given, crashed)
    BY <1>1, <1>7, <1>9, <1>10, <1>11, <2>1, <2>2, <2>3 DEF Sound
  <2>5. /\ Calls(d, s[1], e1, crashed) /\ Calls(e1, s[2], e2, crashed)
        /\ Calls(e2, s[3], e3, crashed)
    BY <1>1, <1>2, <1>3, <1>4, <1>6, <1>7, <1>8, <1>9, <1>10, <1>11, <1>12, <2>1, <2>2, <2>3,
       EntryCalls
  <2>6. Path(d, s, e3, given, crashed)
    BY <1>6, <2>4, <2>5, PathThree
  <2> QED
    BY <1>5, <1>7, <2>3, <2>6 DEF Ends
<1>13. ASSUME crashed # {}, Glued(e1)
       PROVE  Path(d, s, e3, given, crashed) /\ Ends(e3, r, crashed)
  <2>1. e2.log = e1.log
    BY <1>1, <1>3, <1>9, <1>13, GluedStays
  <2>2. Glued(e2)
    BY <1>13, <2>1 DEF Glued
  <2>3. e3.log = e2.log
    BY <1>1, <1>4, <1>10, <2>2, GluedStays
  <2>4. Glued(e3)
    BY <2>2, <2>3 DEF Glued
  <2>5. Sound(e1, given, crashed) /\ Sound(e2, given, crashed) /\ Sound(e3, given, crashed)
    BY <1>1, <1>9, <1>10, <1>11, <1>13, <2>2, <2>4 DEF Sound
  <2>6. /\ Calls(d, s[1], e1, crashed) /\ Calls(e1, s[2], e2, crashed)
        /\ Calls(e2, s[3], e3, crashed)
    BY <1>2, <1>3, <1>4, <1>6, <1>13 DEF Calls
  <2>7. Path(d, s, e3, given, crashed)
    BY <1>6, <2>5, <2>6, PathThree
  <2> QED
    BY <1>13, <2>4, <2>7 DEF Ends
<1>14. CASE crashed # {} /\ Glued(d)
  <2>1. e1.log = d.log
    BY <1>1, <1>2, <1>14, GluedStays
  <2>2. Glued(e1)
    BY <1>14, <2>1 DEF Glued
  <2> QED
    BY <1>5, <1>7, <1>13, <1>14, <2>2
<1>15. CASE crashed # {} /\ Shows(d, l, "whole") /\ l # <<>>
  <2>1. Glued(e1)
    BY <1>1, <1>2, <1>8, <1>15, EntryGlues
  <2> QED
    BY <1>5, <1>7, <1>13, <1>15, <2>1
<1>16. CASE Shows(d, l, "whole") /\ l = <<>>
  <2>1. \A k : ~(k \in 1 .. Len(l))
    BY <1>16
  <2>2. Shows(d, l, "line")
    BY <1>16, <2>1 DEF Shows
  <2> QED
    BY <1>12, <2>2
<1> QED
  BY <1>12, <1>14, <1>15, <1>16 DEF Ends

\* truncate_log: the disk has the whole log or what is left of it.
LEMMA CutPath ==
    ASSUME NEW d, NEW given, NEW crashed, Sound(d, given, crashed),
           NEW l, FromLeaders(l), Ends(d, l, crashed), NEW k \in 1 .. Len(l),
           NEW r, r = SubSeq(l, 1, k - 1), FromLeaders(r), KeepsAcked(r, given)
    PROVE  \E e : Path(d, RewriteLog("truncate", k), e, given, crashed) /\ Ends(e, r, crashed)
<1>1. DOMAIN d = {"term", "voted_for", "snapshot", "log"} /\ d.snapshot = Absent
  BY DEF Sound
<1>2. PICK w : w = Write("log", "truncate", k)
  OBVIOUS
<1>3. PICK e : e = Perform(d, w)
  OBVIOUS
<1>4. RewriteLog("truncate", k) = <<w>>
  BY <1>2 DEF RewriteLog
<1>5. ASSUME NEW last \in {"whole", "line"}, Shows(d, l, last), last = "whole" => crashed # {}
      PROVE  Path(d, <<w>>, e, given, crashed) /\ Ends(e, r, crashed)
  <2>1. Contiguous(l)
    BY DEF FromLeaders
  <2>2. DOMAIN e = DOMAIN d /\ e.snapshot = d.snapshot /\ Shows(e, r, "line")
    BY <1>1, <1>2, <1>3, <1>5, <2>1, CutShows
  <2>3. Sound(e, given, crashed)
    BY <1>1, <2>2 DEF Sound
  <2>4. Calls(d, w, e, crashed)
    <3>1. CASE last = "line"
      <4>1. l \in Seq(LogEntry)
        BY <2>1 DEF Contiguous
      <4> QED
        BY <1>1, <1>2, <1>3, <1>5, <2>2, <3>1, <4>1, CutCalls
    <3>2. CASE last = "whole"
      BY <1>3, <1>5, <3>2 DEF Calls
    <3> QED
      BY <3>1, <3>2
  <2>5. Path(d, <<w>>, e, given, crashed)
    BY <2>3, <2>4, PathOne
  <2> QED
    BY <2>2, <2>5 DEF Ends
<1>6. CASE crashed # {} /\ Glued(d)
  <2>1. DOMAIN e = DOMAIN d /\ e.snapshot = d.snapshot /\ e.log = d.log
    BY <1>1, <1>2, <1>3, <1>6, GluedStays
  <2>2. Glued(e)
    BY <1>6, <2>1 DEF Glued
  <2>3. Sound(e, given, crashed)
    BY <1>1, <1>6, <2>1, <2>2 DEF Sound
  <2>4. Calls(d, w, e, crashed)
    BY <1>3, <1>6 DEF Calls
  <2>5. Path(d, <<w>>, e, given, crashed)
    BY <2>3, <2>4, PathOne
  <2> QED
    BY <1>4, <1>6, <2>2, <2>5 DEF Ends
<1> QED
  BY <1>4, <1>5, <1>6 DEF Ends

\* The leaders' logs are logs.
LEMMA LeaderFacts ==
    \A t \in DOMAIN LeaderLog :
        /\ t \in Nat /\ LeaderCommit[t] \in Nat
        /\ LeaderLog[t] \in Seq(LogEntry) /\ Len(LeaderLog[t]) \in Nat
BY LeadersAssumption

\* Leaders' logs match, and what is made of them.
LEMMA LeadersMatch ==
    ASSUME NEW l, FromLeaders(l), NEW u \in DOMAIN LeaderLog,
           NEW k, k \in DOMAIN l, k \in DOMAIN LeaderLog[u], l[k].term = LeaderLog[u][k].term
    PROVE  Has(l, u, k)
<1>1. PICK t \in DOMAIN LeaderLog : Has(l, t, k)
  BY DEF FromLeaders
<1>2. l \in Seq(LogEntry) /\ LeaderLog[t] \in Seq(LogEntry) /\ LeaderLog[u] \in Seq(LogEntry)
  BY LeadersAssumption DEF FromLeaders, Contiguous
<1>3. k \in Nat /\ k >= 1 /\ k <= Len(l) /\ k \in DOMAIN LeaderLog[t] /\ k \in 1 .. k
      /\ k \in 0 .. Len(LeaderLog[u])
  BY <1>1, <1>2 DEF Has
<1>4. \A j \in 1 .. k : l[j] = LeaderLog[t][j]
  BY <1>1 DEF Has
<1>5. LeaderLog[t][k].term = LeaderLog[u][k].term
  BY <1>3, <1>4
<1>6. \A j \in 1 .. k : LeaderLog[t][j] = LeaderLog[u][j]
  BY <1>3, <1>5, LeadersAgreeAssumption
<1> QED
  BY <1>3, <1>4, <1>6 DEF Has

\* The terms of acknowledged entries are those of leaders, up to u.
AckedBy(given, u) ==
    \A a \in given : a.term \in DOMAIN LeaderLog /\ a.term <= u /\ a.index \in Nat

\* A log that keeps what it shares with a later leader keeps the entries that last.
LEMMA KeepsAckedStill ==
    ASSUME NEW l, FromLeaders(l), NEW u \in DOMAIN LeaderLog,
           NEW given, KeepsAcked(l, given), AckedBy(given, u),
           NEW r, IsSeq(r), \A m : Has(l, u, m) => Has(r, u, m)
    PROVE  KeepsAcked(r, given)
<1> SUFFICES ASSUME NEW a \in given, Lasting(a)
             PROVE  a.index \in DOMAIN r /\ r[a.index] = LeaderLog[a.term][a.index]
  BY DEF KeepsAcked
<1>1. a.index \in DOMAIN l /\ l[a.index] = LeaderLog[a.term][a.index]
  BY DEF KeepsAcked
<1>2. a.term \in Nat /\ u \in Nat /\ u >= a.term
  BY LeadersAssumption DEF AckedBy
<1>3. a.index \in DOMAIN LeaderLog[u] /\ LeaderLog[u][a.index] = LeaderLog[a.term][a.index]
  BY <1>2 DEF Lasting
<1>4. Has(l, u, a.index)
  BY <1>1, <1>3, LeadersMatch
<1>5. Has(r, u, a.index)
  BY <1>4
<1>6. l \in Seq(LogEntry)
  BY DEF FromLeaders, Contiguous
<1>7. a.index \in Nat /\ a.index >= 1 /\ a.index \in 1 .. a.index
  BY <1>1, <1>6
<1>8. a.index <= Len(r) /\ r[a.index] = LeaderLog[u][a.index]
  BY <1>5, <1>7 DEF Has
<1>9. DOMAIN r = 1 .. Len(r) /\ Len(r) \in Nat
  BY DEF IsSeq
<1> QED
  BY <1>3, <1>7, <1>8, <1>9

LEMMA HasLess ==
    ASSUME NEW l, NEW t, NEW k \in Nat, Has(l, t, k), Len(l) \in Nat, NEW j \in 0 .. k
    PROVE  Has(l, t, j)
<1>1. LeaderLog[t] \in Seq(LogEntry) /\ Len(LeaderLog[t]) \in Nat
  BY LeadersAssumption DEF Has
<1> QED
  BY <1>1 DEF Has

\* The beginning of one leader's log.
LEMMA FromOneLeader ==
    ASSUME NEW l, Contiguous(l), NEW t, Has(l, t, Len(l))
    PROVE  FromLeaders(l)
<1>1. Len(l) \in Nat /\ DOMAIN l = 1 .. Len(l) /\ t \in DOMAIN LeaderLog
  BY DEF Contiguous, Has
<1>2. \A k \in DOMAIN l : k \in 0 .. Len(l)
  BY <1>1
<1>3. \A k \in DOMAIN l : Has(l, t, k)
  BY <1>1, <1>2, HasLess
<1> QED
  BY <1>1, <1>3 DEF FromLeaders

\* A log cut before the first entry in which it differs from a leader's.
LEMMA CutKeeps ==
    ASSUME NEW l, FromLeaders(l), NEW u \in DOMAIN LeaderLog, NEW k \in DOMAIN LeaderLog[u],
           Has(l, u, k - 1), ~(k <= Len(l) /\ l[k].term = LeaderLog[u][k].term),
           NEW r, Contiguous(r), Len(r) >= k - 1, \A j \in 1 .. (k - 1) : r[j] = l[j]
    PROVE  Has(r, u, k - 1) /\ \A m : Has(l, u, m) => Has(r, u, m)
<1>1. /\ l \in Seq(LogEntry) /\ r \in Seq(LogEntry) /\ LeaderLog[u] \in Seq(LogEntry)
      /\ k \in Nat /\ k >= 1 /\ k <= Len(LeaderLog[u])
      /\ Len(l) \in Nat /\ Len(r) \in Nat /\ Len(LeaderLog[u]) \in Nat
  BY LeadersAssumption DEF FromLeaders, Contiguous
<1>2. Has(r, u, k - 1)
  BY <1>1 DEF Has
<1>3. ASSUME NEW m, Has(l, u, m) PROVE Has(r, u, m)
  <2>1. m \in Nat /\ m <= Len(l) /\ \A j \in 1 .. m : l[j] = LeaderLog[u][j]
    BY <1>1, <1>3 DEF Has
  <2>2. m <= k - 1
    <3>1. CASE k <= m
      BY <1>1, <2>1, <3>1
    <3> QED
      BY <1>1, <2>1, <3>1
  <2>3. m \in 0 .. (k - 1) /\ k - 1 \in Nat
    BY <1>1, <2>1, <2>2
  <2> QED
    BY <1>1, <1>2, <2>3, HasLess
<1> QED
  BY <1>2, <1>3

\* One round of apply_entries brings the log to what the leader has up to there,
\* loses nothing that lasts, and the disk follows.
Mended(l, u, k, r, given) ==
    /\ FromLeaders(r) /\ KeepsAcked(r, given)
    /\ Has(r, u, k) /\ \A m : Has(l, u, m) => Has(r, u, m)

LEMMA RoundPath ==
    ASSUME NEW d, NEW given, NEW crashed, Sound(d, given, crashed),
           NEW l, Ends(d, l, crashed), FromLeaders(l), KeepsAcked(l, given),
           NEW u \in DOMAIN LeaderLog, AckedBy(given, u),
           NEW k \in DOMAIN LeaderLog[u], Has(l, u, k - 1)
    PROVE  \E r : /\ ApplyEntry(Pair(l), 0, LeaderLog[u][k]) = Pair(r)
                  /\ Mended(l, u, k, r, given)
                  /\ \E e : /\ Path(d, EntryWrites(Pair(l), 0, LeaderLog[u][k]), e, given, crashed)
                            /\ Ends(e, r, crashed)
<1>1. PICK entry : entry = LeaderLog[u][k]
  OBVIOUS
<1>2. /\ Contiguous(l) /\ l \in Seq(LogEntry) /\ Len(l) \in Nat /\ DOMAIN l = 1 .. Len(l)
      /\ LeaderLog[u] \in Seq(LogEntry) /\ Len(LeaderLog[u]) \in Nat
  BY LeadersAssumption DEF FromLeaders, Contiguous
<1>3. /\ k \in Nat /\ k >= 1 /\ k - 1 \in Nat /\ k - 0 = k /\ k <= Len(LeaderLog[u])
      /\ k \in 0 .. Len(LeaderLog[u]) /\ k - 1 <= Len(l)
  BY <1>2 DEF Has
<1>4. entry \in LogEntry /\ entry.index = k
  <2>1. entry \in LogEntry
    BY <1>1, <1>2
  <2>2. entry.index = k
    BY <1>1, LeadersAssumption
  <2> QED
    BY <2>1, <2>2
<1>5. ~(k <= 0) /\ Pair(l).log = l
  BY <1>3 DEF Pair
<1>6. CASE k <= Len(l) /\ l[k].term = entry.term
  <2>1. Has(l, u, k)
    BY <1>1, <1>2, <1>3, <1>6, LeadersMatch
  <2>2. ApplyEntry(Pair(l), 0, entry) = Pair(l)
    <3>1. entry.index \in 1 .. (Len(l) + 1)
      BY <1>2, <1>3, <1>4, <1>6
    <3> QED
      BY <1>2, <1>4, <1>6, <3>1, ApplyEntryFollows
  <2>3. EntryWrites(Pair(l), 0, entry) = <<>>
    BY <1>2, <1>3, <1>4, <1>5, <1>6 DEF EntryWrites
  <2>4. Path(d, <<>>, d, given, crashed)
    BY PathNone
  <2> QED
    BY <1>1, <2>1, <2>2, <2>3, <2>4 DEF Mended
<1>7. ASSUME NEW c, Contiguous(c), Len(c) = k - 1, \A j \in 1 .. (k - 1) : c[j] = l[j],
             ~(k <= Len(l) /\ l[k].term = entry.term)
      PROVE  /\ FromLeaders(c) /\ KeepsAcked(c, given)
             /\ PersistLogEntry(Pair(c), entry) = Pair(Append(c, entry))
             /\ Mended(l, u, k, Append(c, entry), given)
  <2>1. Has(c, u, k - 1) /\ \A m : Has(l, u, m) => Has(c, u, m)
    BY <1>1, <1>2, <1>3, <1>7, CutKeeps
  <2>2. FromLeaders(c)
    BY <1>7, <2>1, FromOneLeader
  <2>3. KeepsAcked(c, given)
    <3>1. IsSeq(c)
      BY <1>7 DEF Contiguous, IsSeq
    <3> QED
      BY <2>1, <3>1, KeepsAckedStill
  <2>4. PICK r : r = Append(c, entry)
    OBVIOUS
  <2>5. /\ Contiguous(r) /\ Len(r) = k
        /\ \A j \in 1 .. (k - 1) : r[j] = c[j]
        /\ r[k] = entry /\ AppendLogEntries(c, <<entry>>) = r
    <3>1. entry.index = Len(c) + 1 /\ Len(c) + 1 = k
      BY <1>3, <1>4, <1>7
    <3>2. /\ Contiguous(Append(c, entry)) /\ Len(Append(c, entry)) = Len(c) + 1
          /\ \A j \in 1 .. Len(c) : Append(c, entry)[j] = c[j]
          /\ Append(c, entry)[Len(c) + 1] = entry
          /\ AppendLogEntries(c, <<entry>>) = Append(c, entry)
      BY <1>4, <1>7, <3>1, AppendNext
    <3> QED
      BY <1>7, <2>4, <3>1, <3>2
  <2>6. Has(r, u, k - 1) /\ \A m : Has(l, u, m) => Has(r, u, m)
    <3>1. Len(r) >= k - 1 /\ \A j \in 1 .. (k - 1) : r[j] = l[j]
      BY <1>3, <1>7, <2>5
    <3>2. ~(k <= Len(l) /\ l[k].term = LeaderLog[u][k].term) /\ Contiguous(r)
      BY <1>1, <1>7, <2>5
    <3> QED
      BY <3>1, <3>2, CutKeeps
  <2>7. Has(r, u, k)
    <3>1. \A j \in 1 .. k : j = k \/ j \in 1 .. (k - 1)
      BY <1>3
    <3>2. \A j \in 1 .. k : r[j] = LeaderLog[u][j]
      BY <1>1, <2>5, <2>6, <3>1 DEF Has
    <3> QED
      BY <1>3, <2>5, <3>2 DEF Has
  <2>8. FromLeaders(r)
    BY <2>5, <2>7, FromOneLeader
  <2>9. KeepsAcked(r, given)
    <3>1. IsSeq(r)
      BY <2>5 DEF Contiguous, IsSeq
    <3> QED
      BY <2>6, <3>1, KeepsAckedStill
  <2>10. PersistLogEntry(Pair(c), entry) = Pair(r)
    BY <2>4, <2>5 DEF PersistLogEntry, Pair
  <2> QED
    BY <2>2, <2>3, <2>4, <2>6, <2>7, <2>8, <2>9, <2>10 DEF Mended
<1>8. CASE k > Len(l)
  <2>1. Len(l) = k - 1 /\ ~(k <= Len(l)) /\ \A j \in 1 .. (k - 1) : l[j] = l[j]
    BY <1>2, <1>3, <1>8
  <2>2. /\ PersistLogEntry(Pair(l), entry) = Pair(Append(l, entry))
        /\ Mended(l, u, k, Append(l, entry), given)
    BY <1>2, <1>7, <2>1
  <2>3. ApplyEntry(Pair(l), 0, entry) = Pair(Append(l, entry))
    BY <1>3, <1>4, <1>5, <1>8, <2>2 DEF ApplyEntry
  <2>4. EntryWrites(Pair(l), 0, entry) = AppendEntry(entry)
    BY <1>2, <1>3, <1>4, <1>5, <1>8, <2>1 DEF EntryWrites
  <2>5. PICK e : Path(d, AppendEntry(entry), e, given, crashed) /\ Ends(e, Append(l, entry), crashed)
    <3>1. entry.index = Len(l) + 1
      BY <1>3, <1>4, <2>1
    <3> QED
      BY <1>4, <2>2, <3>1, AppendPath DEF Mended
  <2> QED
    BY <1>1, <2>2, <2>3, <2>4, <2>5
<1>9. CASE k <= Len(l) /\ l[k].term # entry.term
  <2>1. PICK c : c = SubSeq(l, 1, k - 1)
    OBVIOUS
  <2>2. /\ k \in 1 .. Len(l) /\ k - 1 < Len(l) /\ ~(k > Len(l))
        /\ ~(k <= Len(l) /\ l[k].term = entry.term)
    BY <1>2, <1>3, <1>9
  <2>3. /\ Contiguous(c) /\ Len(c) = k - 1 /\ \A j \in 1 .. (k - 1) : c[j] = l[j]
        /\ TruncateLog(l, k) = c
    BY <1>2, <2>1, <2>2, TruncateKeeps
  <2>4. /\ FromLeaders(c) /\ KeepsAcked(c, given)
        /\ PersistLogEntry(Pair(c), entry) = Pair(Append(c, entry))
        /\ Mended(l, u, k, Append(c, entry), given)
    BY <1>7, <2>2, <2>3
  <2>5. PersistTruncateLog(Pair(l), k) = Pair(c)
    BY <2>1, <2>2, <2>3 DEF PersistTruncateLog, Pair
  <2>6. ApplyEntry(Pair(l), 0, entry) = Pair(Append(c, entry))
    BY <1>3, <1>4, <1>5, <1>9, <2>2, <2>4, <2>5 DEF ApplyEntry
  <2>7. EntryWrites(Pair(l), 0, entry) = RewriteLog("truncate", k) \o AppendEntry(entry)
    BY <1>2, <1>3, <1>4, <1>5, <1>9, <2>2 DEF EntryWrites
  <2>8. PICK f : Path(d, RewriteLog("truncate", k), f, given, crashed) /\ Ends(f, c, crashed)
    BY <2>1, <2>2, <2>4, CutPath
  <2>9. IsSeq(RewriteLog("truncate", k)) /\ Len(RewriteLog("truncate", k)) \in Nat
        /\ IsSeq(AppendEntry(entry))
    BY EntryAside, RewriteAside DEF Aside, IsSeq
  <2>10. Sound(f, given, crashed)
    BY <2>8, <2>9, PathEnds
  <2>11. PICK e : Path(f, AppendEntry(entry), e, given, crashed) /\ Ends(e, Append(c, entry), crashed)
    <3>1. entry.index = Len(c) + 1
      BY <1>3, <1>4, <2>3
    <3> QED
      BY <1>4, <2>4, <2>8, <2>10, <3>1, AppendPath DEF Mended
  <2>12. Path(d, EntryWrites(Pair(l), 0, entry), e, given, crashed)
    <3>1. Path(d, RewriteLog("truncate", k) \o AppendEntry(entry), e, given, crashed)
      BY <2>8, <2>9, <2>11, PathJoin
    <3> QED
      BY <2>7, <3>1
  <2> QED
    BY <1>1, <2>4, <2>6, <2>11, <2>12
<1> QED
  BY <1>1, <1>2, <1>3, <1>6, <1>8, <1>9

\* The log after the first j rounds.
LEMMA ReplayPart ==
    ASSUME NEW l, Contiguous(l), NEW prev \in 0 .. Len(l), NEW entries, Follows(entries, prev),
           NEW j \in 0 .. Len(entries)
    PROVE  /\ ReplayEntries(Pair(l), 0, SubSeq(entries, 1, j)) =
                  Pair(Repaired(l, prev, entries, prev + j))
           /\ Contiguous(Repaired(l, prev, entries, prev + j))
           /\ Len(Repaired(l, prev, entries, prev + j)) >= prev + j
<1>1. PICK part : part = SubSeq(entries, 1, j)
  OBVIOUS
<1>2. entries \in Seq(LogEntry) /\ Len(entries) \in Nat /\ j \in Nat /\ prev \in Nat /\ j <= Len(entries)
  BY DEF Follows, Contiguous
<1>3. part \in Seq(LogEntry) /\ Len(part) = j /\ \A k \in 1 .. j : part[k] = entries[k]
  BY <1>1, <1>2
<1>4. Follows(part, prev)
  <2>1. \A k \in 1 .. j : k \in DOMAIN entries
    BY <1>2
  <2>2. DOMAIN part = 1 .. j
    BY <1>3
  <2> QED
    BY <1>3, <2>1, <2>2 DEF Follows
<1>5. \A k \in 0 .. (prev + j) : AgreesTo(l, prev, part, k) <=> AgreesTo(l, prev, entries, k)
  <2> SUFFICES ASSUME NEW k \in 0 .. (prev + j)
               PROVE  AgreesTo(l, prev, part, k) <=> AgreesTo(l, prev, entries, k)
    OBVIOUS
  <2>1. \A i \in (prev + 1) .. k : i - prev \in 1 .. j
    BY <1>2
  <2>2. \A i \in (prev + 1) .. k : part[i - prev] = entries[i - prev]
    BY <1>3, <2>1
  <2> QED
    BY <2>2 DEF AgreesTo
<1>6. Repaired(l, prev, part, prev + j) = Repaired(l, prev, entries, prev + j)
  <2>1. prev + j \in 0 .. (prev + j)
    BY <1>2
  <2>2. ASSUME NEW k \in 1 .. (prev + j)
        PROVE  (IF k <= prev \/ AgreesTo(l, prev, part, k) THEN l[k] ELSE part[k - prev]) =
               (IF k <= prev \/ AgreesTo(l, prev, entries, k) THEN l[k] ELSE entries[k - prev])
    <3>1. k \in 0 .. (prev + j)
      BY <1>2
    <3>2. AgreesTo(l, prev, part, k) <=> AgreesTo(l, prev, entries, k)
      BY <1>5, <3>1
    <3>3. CASE k <= prev
      BY <3>3
    <3>4. CASE ~(k <= prev)
      <4>1. k - prev \in 1 .. j
        BY <1>2, <3>4
      <4>2. part[k - prev] = entries[k - prev]
        BY <1>3, <4>1
      <4> QED
        BY <3>2, <4>2
    <3> QED
      BY <3>3, <3>4
  <2> QED
    BY <1>5, <2>1, <2>2 DEF Repaired
<1>7. /\ ReplayEntries(Pair(l), 0, part) = Pair(Repaired(l, prev, part, prev + Len(part)))
      /\ Contiguous(Repaired(l, prev, part, prev + Len(part)))
      /\ Len(Repaired(l, prev, part, prev + Len(part))) >= prev + Len(part)
  BY <1>4, ReplayRepairs
<1> QED
  BY <1>1, <1>3, <1>6, <1>7

\* The whole loop of apply_entries.
LEMMA EntriesPath ==
    ASSUME NEW d, NEW given, NEW crashed, Sound(d, given, crashed),
           NEW l, Ends(d, l, crashed), FromLeaders(l), KeepsAcked(l, given),
           NEW u \in DOMAIN LeaderLog, AckedBy(given, u),
           NEW prev \in 0 .. Len(l), Has(l, u, prev),
           NEW entries, Follows(entries, prev),
           \A j \in 1 .. Len(entries) :
              prev + j \in DOMAIN LeaderLog[u] /\ entries[j] = LeaderLog[u][prev + j],
           NEW n, n.log = l, n.stored_log = l, n.snapshot_last_index = 0
    PROVE  LET r == Repaired(l, prev, entries, prev + Len(entries))
           IN  /\ Mended(l, u, prev + Len(entries), r, given)
               /\ \E e : /\ Path(d, EntriesWrites(n, entries), e, given, crashed)
                         /\ Ends(e, r, crashed)
<1> DEFINE N == Len(entries)
           Part(j) == Repaired(l, prev, entries, prev + j)
<1>1. N \in Nat /\ prev \in Nat /\ Contiguous(l) /\ Len(l) \in Nat
  BY DEF Follows, FromLeaders, Contiguous
<1>2. PICK K :
        /\ K[0] = <<>> /\ EntriesWrites(n, entries) = K[N]
        /\ \A k \in 1 .. N :
              K[k] = K[k - 1] \o
                     EntryWrites(ReplayEntries([log |-> n.log, stored_log |-> n.stored_log],
                                               n.snapshot_last_index, SubSeq(entries, 1, k - 1)),
                                 n.snapshot_last_index, entries[k])
  <2>1. Len(entries) \in Nat
    BY <1>1
  <2> QED
    BY ONLY <2>1, EntriesWritesBuilt, Zenon
<1>3. [log |-> n.log, stored_log |-> n.stored_log] = Pair(l)
  BY DEF Pair
<1>4. \A j \in 0 .. N : /\ ReplayEntries(Pair(l), 0, SubSeq(entries, 1, j)) = Pair(Part(j))
                        /\ Contiguous(Part(j)) /\ Len(Part(j)) >= prev + j
  BY <1>1, ReplayPart
<1>5. Part(0) = l
  BY <1>1 DEF Repaired, AgreesTo
<1>6. ASSUME NEW k \in 1 .. N
      PROVE  /\ K[k] = K[k - 1] \o EntryWrites(Pair(Part(k - 1)), 0, LeaderLog[u][prev + k])
             /\ ApplyEntry(Pair(Part(k - 1)), 0, LeaderLog[u][prev + k]) = Pair(Part(k))
  <2>1. k - 1 \in 0 .. N /\ prev + (k - 1) = prev + k - 1
    BY <1>1
  <2>2. /\ ReplayEntries(Pair(l), 0, SubSeq(entries, 1, k - 1)) = Pair(Part(k - 1))
        /\ Contiguous(Part(k - 1)) /\ Len(Part(k - 1)) >= prev + k - 1
    BY <1>4, <2>1
  <2>3. entries[k] = LeaderLog[u][prev + k]
    OBVIOUS
  <2>4. ApplyEntry(Pair(Part(k - 1)), 0, entries[k]) = Pair(Part(k))
    BY <1>1, <2>1, <2>2, RepairedStep
  <2> HIDE DEF Part
  <2>5. K[k] = K[k - 1] \o EntryWrites(Pair(Part(k - 1)), 0, entries[k])
    BY <1>2, <1>3, <2>2
  <2> QED
    BY <2>3, <2>4, <2>5
<1> DEFINE Good(j) ==
             /\ IsSeq(K[j])
             /\ FromLeaders(Part(j)) /\ KeepsAcked(Part(j), given)
             /\ Has(Part(j), u, prev + j) /\ \A m : Has(l, u, m) => Has(Part(j), u, m)
             /\ \E e : Path(d, K[j], e, given, crashed) /\ Ends(e, Part(j), crashed)
           D == {j \in Nat : j <= N => Good(j)}
<1>7. Good(0)
  <2>1. K[0] = <<>> /\ IsSeq(<<>>) /\ prev + 0 = prev
    BY <1>1, <1>2 DEF IsSeq
  <2>2. Path(d, <<>>, d, given, crashed)
    BY PathNone
  <2> HIDE DEF Part
  <2> QED
    BY <1>5, <2>1, <2>2
<1>8. ASSUME NEW k \in 1 .. N, Good(k - 1) PROVE Good(k)
  <2>1. PICK f : Path(d, K[k - 1], f, given, crashed) /\ Ends(f, Part(k - 1), crashed)
    BY <1>8
  <2>2. PICK i : i = prev + k
    OBVIOUS
  <2>3. i \in DOMAIN LeaderLog[u] /\ i - 1 = prev + (k - 1) /\ IsSeq(K[k - 1]) /\ Len(K[k - 1]) \in Nat
    BY <1>1, <1>8, <2>2 DEF IsSeq
  <2>4. Sound(f, given, crashed)
    BY <2>1, <2>3, PathEnds
  <2> HIDE DEF Part
  <2>5. PICK r : /\ ApplyEntry(Pair(Part(k - 1)), 0, LeaderLog[u][i]) = Pair(r)
                 /\ Mended(Part(k - 1), u, i, r, given)
                 /\ \E e : /\ Path(f, EntryWrites(Pair(Part(k - 1)), 0, LeaderLog[u][i]), e, given, crashed)
                           /\ Ends(e, r, crashed)
    BY <1>8, <2>1, <2>3, <2>4, RoundPath
  <2>6. r = Part(k)
    <3>1. Pair(r) = Pair(Part(k))
      BY <1>6, <2>2, <2>5
    <3>2. Pair(r).log = r /\ Pair(Part(k)).log = Part(k)
      BY DEF Pair
    <3> QED
      BY <3>1, <3>2
  <2>7. PICK e : /\ Path(f, EntryWrites(Pair(Part(k - 1)), 0, LeaderLog[u][i]), e, given, crashed)
                 /\ Ends(e, r, crashed)
    BY <2>5
  <2>8. IsSeq(EntryWrites(Pair(Part(k - 1)), 0, LeaderLog[u][i]))
    BY EntryWritesAside DEF Aside
  <2>9. Path(d, K[k - 1] \o EntryWrites(Pair(Part(k - 1)), 0, LeaderLog[u][i]), e, given, crashed)
    BY <2>1, <2>3, <2>7, <2>8, PathJoin
  <2>10. K[k] = K[k - 1] \o EntryWrites(Pair(Part(k - 1)), 0, LeaderLog[u][i])
    BY <1>6, <2>2
  <2>11. IsSeq(K[k])
    <3>1. IsSeq(K[k - 1] \o EntryWrites(Pair(Part(k - 1)), 0, LeaderLog[u][i]))
      BY <2>3, <2>8, SeqsJoin, ZenonT(40)
    <3> QED
      BY <2>10, <3>1
  <2>12. /\ FromLeaders(Part(k)) /\ KeepsAcked(Part(k), given) /\ Has(Part(k), u, prev + k)
         /\ \A m : Has(l, u, m) => Has(Part(k), u, m)
    BY <1>8, <2>2, <2>5, <2>6 DEF Mended
  <2>13. Path(d, K[k], e, given, crashed) /\ Ends(e, Part(k), crashed)
    BY <2>6, <2>7, <2>9, <2>10
  <2> QED
    BY <2>11, <2>12, <2>13
<1> HIDE DEF Good
<1>9. \A j \in Nat : j \in D
  <2>1. 0 \in D
    BY <1>7
  <2>2. ASSUME NEW j \in Nat, j \in D PROVE j + 1 \in D
    <3>1. CASE j + 1 <= N
      <4>1. j + 1 \in 1 .. N /\ (j + 1) - 1 = j /\ j <= N
        BY <1>1, <3>1
      <4>2. Good(j)
        BY <2>2, <4>1
      <4> QED
        BY <1>8, <4>1, <4>2
    <3>2. CASE ~(j + 1 <= N)
      BY <3>2
    <3> QED
      BY <3>1, <3>2
  <2> HIDE DEF D
  <2> QED
    BY <2>1, <2>2, NumbersInduction
<1>10. Good(N)
  BY <1>1, <1>9
<1>11. EntriesWrites(n, entries) = K[N]
  BY <1>2
<1> HIDE DEF Part
<1>12. /\ Mended(l, u, prev + N, Part(N), given)
       /\ \E e : Path(d, EntriesWrites(n, entries), e, given, crashed) /\ Ends(e, Part(N), crashed)
  BY <1>10, <1>11 DEF Good, Mended
<1> QED
  BY <1>12 DEF Part

(***************************************************************************)
(* The node and its log file, without snapshots.                           *)
(***************************************************************************)

\* What is committed is in the log of a leader, and what is applied is that.
AppliedOK(n) ==
    \E t \in DOMAIN LeaderLog :
        /\ n.commit_index > 0 => t <= n.current_term
        /\ n.commit_index <= LeaderCommit[t] /\ Has(n.log, t, n.commit_index)
        /\ n.last_applied <= n.commit_index
        /\ \A k \in 1 .. n.last_applied : n.sm[k] = LeaderLog[t][k].command

Book(n, given) ==
    /\ LogOK(n, Self) /\ FromLeaders(n.log) /\ KeepsAcked(n.log, given)
    /\ AckedBy(given, n.current_term) /\ AppliedOK(n)

\* The entries a handler is about to acknowledge.
Owns(answer, n) ==
    answer.is = "ack" =>
        /\ answer.term \in DOMAIN LeaderLog /\ answer.term <= n.current_term
        /\ Has(n.log, answer.term, answer.upTo)

\* The writes to come lead to the log in memory, past sound disks only.
Writing(n, s, answer) ==
    /\ Book(n, acked) /\ Owns(answer, n) /\ IsSeq(s)
    /\ \E e : Path(disk, s, e, acked, hit) /\ Ends(e, n.log, hit)

Down ==
    /\ Sound(disk, acked, {})
    /\ hit = {} => \A k \in DOMAIN disk.log : disk.log[k].is # "whole"

AcksOnDisk ==
    \A a \in acked : /\ a.term \in DOMAIN LeaderLog /\ a.index \in Nat
                     /\ Valued(disk.term) => LoadTerm(disk) >= a.term

Journal ==
    /\ AcksOnDisk
    /\ up => Writing(core, pending, reply)
    /\ ~up => Down

\* Unless a crash leaves a file empty.
JournalInv == hit \subseteq {"unterminated"} => Journal

\* A handler that leaves the log, the state machine and the commit index alone.
LEMMA BookKept ==
    ASSUME NEW n, NEW given, Book(n, given), NEW m, Kept(n, m), LogOK(m, Self),
           m.current_term >= n.current_term
    PROVE  Book(m, given)
<1>1. n.current_term \in Nat /\ m.current_term \in Nat
  BY DEF Book, LogOK
<1>2. /\ m.log = n.log /\ m.commit_index = n.commit_index
      /\ m.last_applied = n.last_applied /\ m.sm = n.sm
  BY DEF Kept
<1>3. AckedBy(given, m.current_term)
  BY <1>1, LeadersAssumption DEF Book, AckedBy
<1>4. AppliedOK(m)
  <2>1. PICK t \in DOMAIN LeaderLog :
          /\ n.commit_index > 0 => t <= n.current_term
          /\ n.commit_index <= LeaderCommit[t] /\ Has(n.log, t, n.commit_index)
          /\ n.last_applied <= n.commit_index
          /\ \A k \in 1 .. n.last_applied : n.sm[k] = LeaderLog[t][k].command
    BY DEF Book, AppliedOK
  <2>2. m.commit_index > 0 => t <= m.current_term
    BY <1>1, <1>2, <2>1, LeadersAssumption
  <2> QED
    BY <1>2, <2>1, <2>2 DEF AppliedOK
<1> QED
  BY <1>2, <1>3, <1>4 DEF Book

\* What a leader of the term commits is what an earlier one has committed, and more.
LEMMA CommitsAgree ==
    ASSUME NEW n, LogOK(n, Self), NEW t \in DOMAIN LeaderLog, NEW u \in DOMAIN LeaderLog, t <= u,
           n.commit_index <= LeaderCommit[t], Has(n.log, t, n.commit_index)
    PROVE  /\ \A k \in 1 .. n.commit_index : LeaderLog[t][k] = LeaderLog[u][k]
           /\ Has(n.log, u, n.commit_index)
           /\ \A l : Has(l, u, n.commit_index) => Has(l, t, n.commit_index)
<1>1. PICK c : c = n.commit_index
  OBVIOUS
<1>2. c \in Nat /\ LeaderCommit[t] \in Nat /\ Len(LeaderLog[t]) \in Nat /\ Len(LeaderLog[u]) \in Nat
  BY <1>1, LeaderFacts DEF LogOK
<1>3. \A k \in 1 .. c : k \in DOMAIN LeaderLog[u] /\ LeaderLog[u][k] = LeaderLog[t][k]
  <2>1. \A k \in 1 .. c : k \in 1 .. LeaderCommit[t]
    BY <1>1, <1>2
  <2> QED
    BY <2>1, LeadersAgreeAssumption
<1>4. c \in 0 .. Len(LeaderLog[u])
  <2>1. CASE c = 0
    BY <1>2, <2>1
  <2>2. CASE c # 0
    <3>1. c \in 1 .. c
      BY <1>2, <2>2
    <3>2. c \in DOMAIN LeaderLog[u] /\ DOMAIN LeaderLog[u] = 1 .. Len(LeaderLog[u])
      BY <1>3, <3>1, LeadersAssumption
    <3> QED
      BY <1>2, <3>2
  <2> QED
    BY <2>1, <2>2
<1> QED
  BY <1>1, <1>3, <1>4 DEF Has

\* The commit index and the state machine after entries of a leader.
LEMMA AppliedAfter ==
    ASSUME NEW n, LogOK(n, Self), AppliedOK(n), NEW m, LogOK(m, Self),
           NEW req, Accepted(n, m, req),
           NEW u \in DOMAIN LeaderLog, req.term = u, n.current_term <= u,
           NEW last \in Nat, Has(m.log, u, last), \A k : Has(n.log, u, k) => Has(m.log, u, k),
           req.leader_commit \in 0 .. last, req.leader_commit <= LeaderCommit[u]
    PROVE  AppliedOK(m)
<1>1. PICK t \in DOMAIN LeaderLog :
        /\ n.commit_index > 0 => t <= n.current_term
        /\ n.commit_index <= LeaderCommit[t] /\ Has(n.log, t, n.commit_index)
        /\ n.last_applied <= n.commit_index
        /\ \A k \in 1 .. n.last_applied : n.sm[k] = LeaderLog[t][k].command
  BY DEF AppliedOK
<1>2. /\ n.commit_index \in Nat /\ n.last_applied \in Nat /\ n.current_term \in Nat
      /\ m.commit_index \in Nat /\ Len(m.log) \in Nat /\ m.log \in Seq(LogEntry)
      /\ t \in Nat /\ u \in Nat
  BY LeaderFacts DEF LogOK, Contiguous
<1>3. n.commit_index > 0 => t <= u
  BY <1>1, <1>2
<1>4. m.current_term = u /\ \A k \in 1 .. n.last_applied : m.sm[k] = n.sm[k]
  BY DEF Accepted
<1>5. CASE req.leader_commit <= n.commit_index
  <2>1. m.commit_index = n.commit_index /\ m.last_applied = n.last_applied
    BY <1>5 DEF Accepted
  <2>2. Has(m.log, t, m.commit_index)
    <3>1. CASE n.commit_index = 0
      BY <1>1, <1>2, <2>1, <3>1 DEF Has
    <3>2. CASE n.commit_index > 0
      <4>1. /\ Has(n.log, u, n.commit_index)
            /\ \A l : Has(l, u, n.commit_index) => Has(l, t, n.commit_index)
        BY <1>1, <1>3, <3>2, CommitsAgree
      <4> QED
        BY <2>1, <4>1
    <3> QED
      BY <1>2, <3>1, <3>2
  <2>3. \A k \in 1 .. m.last_applied : m.sm[k] = LeaderLog[t][k].command
    BY <1>1, <1>4, <2>1
  <2>4. m.commit_index > 0 => t <= m.current_term
    BY <1>3, <1>4, <2>1
  <2> QED
    BY <1>1, <2>1, <2>2, <2>3, <2>4 DEF AppliedOK
<1>6. CASE ~(req.leader_commit <= n.commit_index)
  <2>1. PICK c : c = req.leader_commit
    OBVIOUS
  <2>2. c \in Nat /\ c <= last /\ last <= Len(m.log) /\ c > n.last_applied
    BY <1>1, <1>2, <1>6, <2>1 DEF Has
  <2>3. m.commit_index = c
    BY <1>2, <1>6, <2>1, <2>2 DEF Accepted
  <2>4. m.last_applied = c /\ \A k \in (n.last_applied + 1) .. c : m.sm[k] = m.log[k].command
    BY <1>2, <1>6, <2>1, <2>2, <2>3 DEF Accepted
  <2>5. Has(m.log, u, c)
    BY <1>2, <2>2, HasLess
  <2>6. ASSUME NEW k \in 1 .. c PROVE m.sm[k] = LeaderLog[u][k].command
    <3>1. CASE k <= n.last_applied
      <4>1. k \in 1 .. n.last_applied /\ k \in 1 .. n.commit_index /\ n.commit_index > 0
        BY <1>1, <1>2, <3>1
      <4>2. LeaderLog[t][k] = LeaderLog[u][k]
        BY <1>1, <1>3, <4>1, CommitsAgree
      <4> QED
        BY <1>1, <1>4, <4>1, <4>2
    <3>2. CASE ~(k <= n.last_applied)
      <4>1. k \in (n.last_applied + 1) .. c
        BY <1>2, <2>2, <3>2
      <4>2. m.log[k] = LeaderLog[u][k]
        BY <2>5 DEF Has
      <4> QED
        BY <2>4, <4>1, <4>2
    <3> QED
      BY <3>1, <3>2
  <2> QED
    BY <1>2, <1>4, <2>1, <2>2, <2>3, <2>4, <2>5, <2>6 DEF AppliedOK
<1> QED
  BY <1>5, <1>6

\* System calls that leave the log file alone.
LeavesLog(s) ==
    /\ IsSeq(s)
    /\ \A d, given, crashed :
          Sound(d, given, crashed) =>
              \E e : /\ Path(d, s, e, given, crashed)
                     /\ \A l : Ends(d, l, crashed) => Ends(e, l, crashed)

LEMMA FileLeavesLog ==
    /\ LeavesLog(<<>>)
    /\ \A t : LeavesLog(SaveTerm(t))
    /\ \A v : LeavesLog(SaveVotedFor(v))
<1>1. LeavesLog(<<>>)
  <2>1. IsSeq(<<>>)
    BY NothingWritten DEF Aside
  <2>2. \A d, given, crashed : Sound(d, given, crashed) => Path(d, <<>>, d, given, crashed)
    BY PathNone
  <2> QED
    BY <2>1, <2>2 DEF LeavesLog
<1>2. ASSUME NEW file \in {"term", "voted_for"}, NEW data
      PROVE  LeavesLog(WriteWithChecksum(file, data))
  <2>1. PICK s : s = WriteWithChecksum(file, data)
    OBVIOUS
  <2>2. IsSeq(s)
    BY <2>1, FileWritten
  <2>3. ASSUME NEW d, NEW given, NEW crashed, Sound(d, given, crashed)
        PROVE  \E e : /\ Path(d, s, e, given, crashed)
                      /\ \A l : Ends(d, l, crashed) => Ends(e, l, crashed)
    BY <2>1, <2>3, FilePath
  <2> QED
    BY <2>1, <2>2, <2>3 DEF LeavesLog
<1> QED
  BY <1>1, <1>2 DEF SaveTerm, SaveVotedFor

LEMMA BothLeaveLog ==
    ASSUME NEW s, LeavesLog(s), NEW r, LeavesLog(r)
    PROVE  LeavesLog(s \o r)
<1>1. IsSeq(s) /\ IsSeq(r) /\ Len(s) \in Nat
  BY DEF LeavesLog, IsSeq
<1>2. IsSeq(s \o r)
  BY <1>1, SeqsJoin, ZenonT(40)
<1>3. ASSUME NEW d, NEW given, NEW crashed, Sound(d, given, crashed)
      PROVE  \E e : /\ Path(d, s \o r, e, given, crashed)
                    /\ \A l : Ends(d, l, crashed) => Ends(e, l, crashed)
  <2>1. PICK f : /\ Path(d, s, f, given, crashed)
                 /\ \A l : Ends(d, l, crashed) => Ends(f, l, crashed)
    BY <1>3 DEF LeavesLog
  <2>2. Sound(f, given, crashed)
    BY <1>1, <2>1, PathEnds
  <2>3. PICK e : /\ Path(f, r, e, given, crashed)
                 /\ \A l : Ends(f, l, crashed) => Ends(e, l, crashed)
    BY <2>2 DEF LeavesLog
  <2>4. Path(d, s \o r, e, given, crashed)
    BY <1>1, <2>1, <2>3, PathJoin
  <2> QED
    BY <2>1, <2>3, <2>4
<1> QED
  BY <1>2, <1>3 DEF LeavesLog

LEMMA TermLeavesLog ==
    ASSUME NEW n, NEW t
    PROVE  LeavesLog(TermWrites(n, t))
<1>1. LeavesLog(SaveTerm(t)) /\ LeavesLog(SaveVotedFor(Nil)) /\ LeavesLog(<<>>)
  BY FileLeavesLog
<1>2. LeavesLog(SaveTerm(t) \o SaveVotedFor(Nil))
  BY <1>1, BothLeaveLog
<1> QED
  BY <1>1, <1>2 DEF TermWrites

\* The start of any handler.
LEMMA HandleBooks ==
    ASSUME JournalInv, NEW n, NEW s, NEW answer, Handle(n, s, answer),
           Book(core, acked) /\ Sound(disk, acked, hit) /\ Ends(disk, core.log, hit) =>
               Writing(n, s, answer)
    PROVE  JournalInv'
<1> SUFFICES ASSUME hit' \subseteq {"unterminated"} PROVE Journal'
  BY DEF JournalInv
<1>1. /\ up /\ pending = <<>> /\ core' = n /\ pending' = s /\ reply' = answer
      /\ up' = up /\ disk' = disk /\ acked' = acked /\ hit' = hit
  BY DEF Handle
<1>2. Journal
  BY <1>1 DEF JournalInv
<1>3. Writing(core, <<>>, reply)
  BY <1>1, <1>2 DEF Journal
<1>4. Book(core, acked) /\ Sound(disk, acked, hit) /\ Ends(disk, core.log, hit)
  <2>1. PICK e : Path(disk, <<>>, e, acked, hit) /\ Ends(e, core.log, hit)
    BY <1>3 DEF Writing
  <2>2. e = disk /\ Sound(disk, acked, hit)
    BY <2>1, PathNone
  <2> QED
    BY <1>3, <2>1, <2>2 DEF Writing
<1>5. Writing(n, s, answer)
  BY <1>4
<1>6. Writing(core, pending, reply)'
  BY <1>1, <1>5 DEF Writing
<1> QED
  BY <1>1, <1>2, <1>6 DEF Journal, AcksOnDisk

\* A handler that saves a term or a vote and nothing else.
LEMMA VoteBooks ==
    ASSUME JournalInv, NEW n, NEW s, LeavesLog(s), NEW answer, answer.is # "ack",
           Handle(n, s, answer),
           LogOK(core, Self) =>
               Kept(core, n) /\ LogOK(n, Self) /\ n.current_term >= core.current_term
    PROVE  JournalInv'
<1>1. ASSUME Book(core, acked), Sound(disk, acked, hit), Ends(disk, core.log, hit)
      PROVE  Writing(n, s, answer)
  <2>1. Kept(core, n) /\ LogOK(n, Self) /\ n.current_term >= core.current_term
    BY <1>1 DEF Book
  <2>2. Book(n, acked)
    BY <1>1, <2>1, BookKept
  <2>3. n.log = core.log
    BY <2>1 DEF Kept
  <2>4. IsSeq(s)
    BY DEF LeavesLog
  <2>5. PICK e : Path(disk, s, e, acked, hit) /\ Ends(e, core.log, hit)
    BY <1>1 DEF LeavesLog
  <2> QED
    BY <2>2, <2>3, <2>4, <2>5 DEF Writing, Owns
<1> QED
  BY <1>1, HandleBooks

LEMMA RequestVoteBooks == JournalInv /\ RequestVote => JournalInv'
<1> SUFFICES ASSUME JournalInv, RequestVote PROVE JournalInv'
  OBVIOUS
<1>1. PICK t \in 1 .. MaxTerm, c \in Peers(Self) : \E end \in LogEnds(t) :
        LET req == [term |-> t, candidate_id |-> c,
                    last_log_index |-> end.index, last_log_term |-> end.term]
            r == HandleRequestVote(core, req)
            given == r.resp.vote_granted
        IN  Handle(r.core,
                   TermWrites(core, t) \o (IF given THEN SaveVotedFor(c) ELSE <<>>),
                   IF given THEN [is |-> "vote", term |-> t, candidate |-> c] ELSE NoReply)
  BY DEF RequestVote
<1>2. PICK end \in LogEnds(t) :
        LET req == [term |-> t, candidate_id |-> c,
                    last_log_index |-> end.index, last_log_term |-> end.term]
            r == HandleRequestVote(core, req)
            given == r.resp.vote_granted
        IN  Handle(r.core,
                   TermWrites(core, t) \o (IF given THEN SaveVotedFor(c) ELSE <<>>),
                   IF given THEN [is |-> "vote", term |-> t, candidate |-> c] ELSE NoReply)
  BY <1>1
<1>3. PICK req : req = [term |-> t, candidate_id |-> c,
                        last_log_index |-> end.index, last_log_term |-> end.term]
  OBVIOUS
<1>4. PICK n : n = HandleRequestVote(core, req).core
  OBVIOUS
<1>5. PICK given : given = HandleRequestVote(core, req).resp.vote_granted
  OBVIOUS
<1>6. PICK s : s = TermWrites(core, t) \o (IF given THEN SaveVotedFor(c) ELSE <<>>)
  OBVIOUS
<1>7. PICK answer : answer = IF given THEN [is |-> "vote", term |-> t, candidate |-> c]
                             ELSE NoReply
  OBVIOUS
<1>8. Handle(n, s, answer)
  BY <1>2, <1>3, <1>4, <1>5, <1>6, <1>7
<1>9. answer.is # "ack"
  BY <1>7 DEF NoReply
<1>10. LeavesLog(s)
  <2>1. LeavesLog(TermWrites(core, t)) /\ LeavesLog(SaveVotedFor(c)) /\ LeavesLog(<<>>)
    BY TermLeavesLog, FileLeavesLog
  <2> QED
    BY <1>6, <2>1, BothLeaveLog
<1>11. ASSUME LogOK(core, Self)
       PROVE  Kept(core, n) /\ LogOK(n, Self) /\ n.current_term >= core.current_term
  <2>1. req.term = t /\ t \in Nat
    BY <1>3
  <2>2. /\ Kept(core, n) /\ LogOK(n, Self)
        /\ n.current_term = IF req.term >= core.current_term THEN req.term ELSE core.current_term
    BY <1>4, <1>11, <2>1, HandleRequestVoteKept
  <2> QED
    <3>1. core.current_term \in Nat
      BY <1>11 DEF LogOK
    <3> QED
      BY <2>1, <2>2, <3>1
<1> QED
  BY <1>8, <1>9, <1>10, <1>11, VoteBooks

LEMMA ElectionTimeoutBooks == JournalInv /\ ElectionTimeout => JournalInv'
<1> SUFFICES ASSUME JournalInv, ElectionTimeout PROVE JournalInv'
  OBVIOUS
<1>1. PICK n : n = StartElection(core, Self)
  OBVIOUS
<1>2. PICK s : s = SaveTerm(n.current_term) \o SaveVotedFor(Self)
  OBVIOUS
<1>3. PICK answer : answer = [is |-> "vote", term |-> n.current_term, candidate |-> Self]
  OBVIOUS
<1>4. Handle(n, s, answer) /\ answer.is # "ack"
  BY <1>1, <1>2, <1>3 DEF ElectionTimeout
<1>5. LeavesLog(s)
  BY <1>2, FileLeavesLog, BothLeaveLog
<1>6. ASSUME LogOK(core, Self)
      PROVE  Kept(core, n) /\ LogOK(n, Self) /\ n.current_term >= core.current_term
  <2>1. Kept(core, n) /\ LogOK(n, Self) /\ n.current_term = core.current_term + 1
    BY <1>1, <1>6, StartElectionKept
  <2> QED
    BY <1>6, <2>1 DEF LogOK
<1> QED
  BY <1>4, <1>5, <1>6, VoteBooks

\* What the leader of u sends of its log.
LEMMA SentEntries ==
    ASSUME NEW u \in DOMAIN LeaderLog, NEW last \in Nat, last <= Len(LeaderLog[u]),
           NEW prev \in 0 .. last, NEW entries, entries = SubSeq(LeaderLog[u], prev + 1, last)
    PROVE  /\ Follows(entries, prev) /\ prev + Len(entries) = last
           /\ \A j \in 1 .. Len(entries) :
                 prev + j \in DOMAIN LeaderLog[u] /\ entries[j] = LeaderLog[u][prev + j]
<1>1. PICK l : l = LeaderLog[u]
  OBVIOUS
<1>2. l \in Seq(LogEntry) /\ \A k \in DOMAIN l : l[k].index = k
  BY <1>1, LeadersAssumption
<1>3. /\ entries \in Seq(LogEntry) /\ Len(entries) = last - prev
      /\ \A j \in 1 .. (last - prev) : entries[j] = l[prev + j]
  BY <1>1, <1>2
<1>4. \A j \in 1 .. (last - prev) : prev + j \in DOMAIN l
  BY <1>1, <1>2
<1>5. Follows(entries, prev)
  <2>1. DOMAIN entries = 1 .. (last - prev)
    BY <1>3
  <2> QED
    BY <1>2, <1>3, <1>4, <2>1 DEF Follows
<1> QED
  BY <1>1, <1>3, <1>4, <1>5

\* handle_append_entries: the writes lead to the log it leaves in memory.
LEMMA AppendEntriesWrites ==
    ASSUME SnapshotThreshold = 0,
           NEW n, NEW given, Book(n, given),
           NEW d, NEW crashed, Sound(d, given, crashed), Ends(d, n.log, crashed),
           NEW u \in DOMAIN LeaderLog, NEW last \in Nat, last <= Len(LeaderLog[u]),
           NEW req, req.term = u, req.prev_log_index \in 0 .. last,
           req.prev_log_term = IF req.prev_log_index = 0 THEN 0
                               ELSE LeaderLog[u][req.prev_log_index].term,
           req.entries = SubSeq(LeaderLog[u], req.prev_log_index + 1, last),
           req.leader_commit \in 0 .. last, req.leader_commit <= LeaderCommit[u],
           NEW r, r = HandleAppendEntries(n, req), NEW s,
           s = TermWrites(n, u) \o (IF r.resp.success THEN EntriesWrites(n, req.entries)
                                    ELSE <<>>) \o SnapshotWrites(n, r.core)
    PROVE  /\ Book(r.core, given) /\ IsSeq(s)
           /\ r.resp.success => u <= r.core.current_term /\ Has(r.core.log, u, last)
           /\ \E e : Path(d, s, e, given, crashed) /\ Ends(e, r.core.log, crashed)
<1>1. PICK prev : prev = req.prev_log_index
  OBVIOUS
<1>2. PICK entries : entries = req.entries
  OBVIOUS
<1>3. PICK m : m = r.core
  OBVIOUS
<1>4. PICK l : l = n.log
  OBVIOUS
<1>5. /\ Follows(entries, prev) /\ prev + Len(entries) = last
      /\ \A j \in 1 .. Len(entries) :
            prev + j \in DOMAIN LeaderLog[u] /\ entries[j] = LeaderLog[u][prev + j]
  <2>1. prev \in 0 .. last /\ entries = SubSeq(LeaderLog[u], prev + 1, last)
    BY <1>1, <1>2
  <2>2. u \in DOMAIN LeaderLog /\ last \in Nat /\ last <= Len(LeaderLog[u])
    OBVIOUS
  <2>3. Follows(entries, prev)
    BY <2>1, <2>2, SentEntries
  <2>4. prev + Len(entries) = last
    BY <2>1, <2>2, SentEntries
  <2>5. \A j \in 1 .. Len(entries) :
            prev + j \in DOMAIN LeaderLog[u] /\ entries[j] = LeaderLog[u][prev + j]
    BY <2>1, <2>2, SentEntries
  <2> QED
    BY <2>3, <2>4, <2>5
<1>6. AppendOK(req) /\ u \in Nat /\ prev \in Nat
  <2>1. u \in Nat
    BY LeadersAssumption
  <2> QED
    <3>1. req.term \in Nat /\ req.prev_log_index \in Nat
      BY <1>1, <2>1
    <3>2. Follows(req.entries, req.prev_log_index)
      BY <1>1, <1>2, <1>5
    <3> QED
      BY <1>1, <2>1, <3>1, <3>2 DEF AppendOK
<1>7. LogOK(n, Self) /\ n.current_term \in Nat /\ n.snapshot_last_index = 0
      /\ n.stored_log = l /\ FromLeaders(l) /\ KeepsAcked(l, given) /\ Len(l) \in Nat
      /\ Contiguous(l)
  <2>1. LogOK(n, Self) /\ FromLeaders(l) /\ KeepsAcked(l, given)
    BY <1>4 DEF Book
  <2>2. /\ n.current_term \in Nat /\ n.snapshot_last_index = 0 /\ n.stored_log = l
        /\ Contiguous(l)
    BY <1>4, <2>1 DEF LogOK
  <2>3. Len(l) \in Nat
    BY <2>2 DEF Contiguous
  <2> QED
    BY <2>1, <2>2, <2>3
<1>8. /\ LogOK(m, Self)
      /\ m.current_term = IF u >= n.current_term THEN u ELSE n.current_term
      /\ r.resp.success =>
            u >= n.current_term /\ Consistent(n, req) /\ Accepted(n, m, req)
      /\ ~r.resp.success => Kept(n, m)
  <2>1. /\ LogOK(r.core, Self)
        /\ r.core.current_term =
              IF req.term >= n.current_term THEN req.term ELSE n.current_term
        /\ IF r.resp.success
           THEN req.term >= n.current_term /\ Consistent(n, req) /\ Accepted(n, r.core, req)
           ELSE Kept(n, r.core)
    BY <1>6, <1>7, HandleAppendEntriesOK
  <2> QED
    BY <1>3, <2>1
<1>9. SnapshotWrites(n, m) = <<>>
  <2>1. m.snapshot_last_index = 0
    BY <1>8 DEF LogOK
  <2> QED
    BY <1>7, <2>1 DEF SnapshotWrites
<1>10. PICK f : /\ Path(d, TermWrites(n, u), f, given, crashed)
                /\ Ends(f, l, crashed)
  BY <1>4, TermLeavesLog DEF LeavesLog
<1>11. IsSeq(TermWrites(n, u)) /\ Len(TermWrites(n, u)) \in Nat
  BY TermLeavesLog DEF LeavesLog, IsSeq
<1>12. Sound(f, given, crashed)
  BY <1>10, <1>11, PathEnds
<1>13. ASSUME NEW w, IsSeq(w),
              w = IF r.resp.success THEN EntriesWrites(n, req.entries) ELSE <<>>
       PROVE  IsSeq(s) /\ s = TermWrites(n, u) \o w
  <2>1. PICK x : x = TermWrites(n, u) \o w
    OBVIOUS
  <2>2. IsSeq(x)
    BY <1>11, <1>13, <2>1, SeqsJoin, ZenonT(40)
  <2>3. s = x \o <<>>
    BY <1>3, <1>9, <1>13, <2>1
  <2>4. x \o <<>> = x
    BY <2>2 DEF IsSeq
  <2> QED
    BY <2>1, <2>2, <2>3, <2>4
<1>14. CASE r.resp.success
  <2>1. u >= n.current_term /\ Consistent(n, req) /\ Accepted(n, m, req)
    BY <1>8, <1>14
  <2>2. prev \in 0 .. Len(l) /\ Has(l, u, prev)
    <3>1. CASE prev = 0
      BY <1>7, <3>1, LeadersAssumption DEF Has
    <3>2. CASE prev # 0
      <4>1. prev \in DOMAIN l /\ l[prev].term = LeaderLog[u][prev].term
        BY <1>1, <1>4, <2>1, <3>2 DEF Consistent
      <4>2. prev \in DOMAIN LeaderLog[u]
        BY <1>1, <1>6, <3>2, LeadersAssumption
      <4>3. Has(l, u, prev)
        BY <1>7, <4>1, <4>2, LeadersMatch
      <4> QED
        BY <1>6, <4>3 DEF Has
    <3> QED
      BY <3>1, <3>2
  <2>3. AckedBy(given, u)
    BY <1>6, <1>7, <2>1, LeaderFacts DEF Book, AckedBy
  <2>4. PICK rep : rep = Repaired(l, prev, entries, prev + Len(entries))
    OBVIOUS
  <2>5. /\ Mended(l, u, last, rep, given)
        /\ \E e : Path(f, EntriesWrites(n, entries), e, given, crashed) /\ Ends(e, rep, crashed)
    <3>1. /\ Mended(l, u, prev + Len(entries), rep, given)
          /\ \E e : /\ Path(f, EntriesWrites(n, entries), e, given, crashed)
                    /\ Ends(e, rep, crashed)
      BY <1>4, <1>5, <1>7, <1>10, <1>12, <2>2, <2>3, <2>4, EntriesPath
    <3> QED
      BY <1>5, <3>1
  <2>6. PICK e : Path(f, EntriesWrites(n, entries), e, given, crashed) /\ Ends(e, rep, crashed)
    BY <2>5
  <2>7. m.log = rep /\ m.current_term = u
    BY <1>1, <1>2, <1>4, <2>1, <2>4 DEF Accepted
  <2>8. AppliedOK(m)
    <3>1. Has(m.log, u, last) /\ \A k : Has(n.log, u, k) => Has(m.log, u, k)
      BY <1>4, <2>5, <2>7 DEF Mended
    <3>2. AppliedOK(n)
      BY DEF Book
    <3> QED
      BY <1>7, <1>8, <2>1, <3>1, <3>2, AppliedAfter
  <2>9. Book(m, given)
    BY <1>8, <2>3, <2>5, <2>7, <2>8 DEF Book, Mended
  <2>10. IsSeq(EntriesWrites(n, entries))
    <3>1. Len(req.entries) \in Nat
      BY <1>2, <1>5 DEF Follows
    <3> QED
      BY <1>2, <3>1, EntriesWritesAside DEF Aside
  <2>11. IsSeq(s) /\ s = TermWrites(n, u) \o EntriesWrites(n, entries)
    BY <1>2, <1>13, <1>14, <2>10
  <2>12. Path(d, TermWrites(n, u) \o EntriesWrites(n, entries), e, given, crashed)
    BY <1>10, <1>11, <2>6, <2>10, PathJoin
  <2>13. u <= m.current_term /\ Has(m.log, u, last)
    BY <1>6, <2>5, <2>7 DEF Mended
  <2> QED
    BY <1>3, <2>6, <2>7, <2>9, <2>11, <2>12, <2>13
<1>15. CASE ~r.resp.success
  <2>1. Kept(n, m) /\ m.current_term >= n.current_term
    BY <1>6, <1>7, <1>8, <1>15
  <2>2. Book(m, given) /\ m.log = l
    BY <1>4, <1>8, <2>1, BookKept DEF Kept
  <2>3. IsSeq(<<>>)
    BY NothingWritten DEF Aside
  <2>4. IsSeq(s) /\ s = TermWrites(n, u) \o <<>>
    BY <1>13, <1>15, <2>3
  <2>5. TermWrites(n, u) \o <<>> = TermWrites(n, u)
    BY <1>11 DEF IsSeq
  <2> QED
    BY <1>3, <1>10, <1>15, <2>2, <2>4, <2>5
<1> QED
  BY <1>14, <1>15

LEMMA AppendEntriesBooks ==
    ASSUME SnapshotThreshold = 0, JournalInv, AppendEntries
    PROVE  JournalInv'
<1> DEFINE Request(t, last, prev, commit) ==
             [term |-> t, leader_id |-> Leader[t], prev_log_index |-> prev,
              prev_log_term |-> IF prev = 0 THEN 0 ELSE LeaderLog[t][prev].term,
              entries |-> SubSeq(LeaderLog[t], prev + 1, last),
              leader_commit |-> commit]
           Starts(t, req, last) ==
             LET r == HandleAppendEntries(core, req)
                 accepted == r.resp.success
             IN  Handle(r.core,
                        TermWrites(core, t) \o
                        (IF accepted THEN EntriesWrites(core, req.entries) ELSE <<>>) \o
                        SnapshotWrites(core, r.core),
                        IF accepted /\ ~r.panicked
                        THEN [is |-> "ack", term |-> t, upTo |-> last] ELSE NoReply)
<1>1. PICK t \in DOMAIN LeaderLog : \E last \in FirstOwn(t) .. Len(LeaderLog[t]) :
        \E prev \in 0 .. last, commit \in 0 .. Min({last, LeaderCommit[t]}) :
          Starts(t, Request(t, last, prev, commit), last)
  BY Zenon DEF AppendEntries
<1>2. PICK last \in FirstOwn(t) .. Len(LeaderLog[t]) :
        \E prev \in 0 .. last, commit \in 0 .. Min({last, LeaderCommit[t]}) :
          Starts(t, Request(t, last, prev, commit), last)
  BY <1>1
<1>3. PICK prev \in 0 .. last, commit \in 0 .. Min({last, LeaderCommit[t]}) :
          Starts(t, Request(t, last, prev, commit), last)
  BY <1>2
<1>4. PICK req : req = Request(t, last, prev, commit)
  OBVIOUS
<1>5. Starts(t, req, last)
  BY <1>3, <1>4
<1>6. last \in Nat /\ last <= Len(LeaderLog[t])
  <2>1. Len(LeaderLog[t]) \in Nat
    BY LeadersAssumption
  <2>2. last \in Int /\ prev \in Int /\ prev >= 0 /\ prev <= last /\ last <= Len(LeaderLog[t])
    BY <2>1
  <2> QED
    BY <2>2
<1>7. commit \in 0 .. last /\ commit <= LeaderCommit[t]
  <2>1. LeaderCommit[t] \in Nat
    BY LeadersAssumption
  <2>2. Min({last, LeaderCommit[t]}) = IF last <= LeaderCommit[t] THEN last ELSE LeaderCommit[t]
    BY <1>6, <2>1, MinOfTwo
  <2> QED
    BY <1>6, <2>1, <2>2
<1>8. /\ req.term = t /\ req.prev_log_index = prev
      /\ req.prev_log_term = IF prev = 0 THEN 0 ELSE LeaderLog[t][prev].term
      /\ req.entries = SubSeq(LeaderLog[t], prev + 1, last)
      /\ req.leader_commit = commit
  BY <1>4
<1> HIDE DEF Request
<1>9. PICK r : r = HandleAppendEntries(core, req)
  OBVIOUS
<1>10. PICK s : s = TermWrites(core, t) \o
                    (IF r.resp.success THEN EntriesWrites(core, req.entries) ELSE <<>>) \o
                    SnapshotWrites(core, r.core)
  OBVIOUS
<1>11. PICK answer : answer = IF r.resp.success /\ ~r.panicked
                              THEN [is |-> "ack", term |-> t, upTo |-> last] ELSE NoReply
  OBVIOUS
<1>12. Handle(r.core, s, answer)
  BY <1>5, <1>9, <1>10, <1>11
<1>13. ASSUME Book(core, acked), Sound(disk, acked, hit), Ends(disk, core.log, hit)
       PROVE  Writing(r.core, s, answer)
  <2>1. /\ Book(r.core, acked) /\ IsSeq(s)
        /\ r.resp.success => t <= r.core.current_term /\ Has(r.core.log, t, last)
        /\ \E e : Path(disk, s, e, acked, hit) /\ Ends(e, r.core.log, hit)
    <3>1. /\ req.prev_log_index \in 0 .. last
          /\ req.prev_log_term = IF req.prev_log_index = 0 THEN 0
                                 ELSE LeaderLog[t][req.prev_log_index].term
          /\ req.entries = SubSeq(LeaderLog[t], req.prev_log_index + 1, last)
          /\ req.leader_commit \in 0 .. last /\ req.leader_commit <= LeaderCommit[t]
      BY <1>7, <1>8
    <3>2. SnapshotThreshold = 0 /\ t \in DOMAIN LeaderLog /\ req.term = t
      BY <1>8
    <3> QED
      BY ONLY <1>6, <1>9, <1>10, <1>13, <3>1, <3>2, AppendEntriesWrites, ZenonT(60)
  <2>2. Owns(answer, r.core)
    BY <1>11, <2>1 DEF Owns, NoReply
  <2> QED
    BY <2>1, <2>2 DEF Writing
<1> QED
  BY <1>12, <1>13, HandleBooks

\* A start of a writing's path.
LEMMA TermCall ==
    ASSUME NEW d, DiskOK(d), NEW cast, NEW n, NEW s, s # <<>>, Settles(d, s, n, cast),
           NEW e, e = Perform(d, Head(s))
    PROVE  \/ e.term = d.term
           \/ ~Valued(e.term)
           \/ LoadTerm(e) = n.current_term
<1>1. PICK a, b : VotesFirst(s, a, b, n)
  BY DEF Settles
<1>2. PICK w : w = s[1]
  OBVIOUS
<1>3. e = Perform(d, w) /\ Len(s) \in Nat /\ Len(s) > 0
  BY <1>1, <1>2, TailSequence DEF VotesFirst
<1>4. a \in Int /\ b \in Int /\ 0 <= a /\ a <= b /\ b <= Len(s)
  BY <1>1, <1>3 DEF VotesFirst
<1>5. CASE a > 0
  <2>1. 1 \in 1 .. a
    BY <1>4, <1>5
  <2>2. w.file = "term" /\ w.op \in FileOps /\ (w.op = "write" => w.data = n.current_term)
    BY <1>1, <1>2, <2>1 DEF VotesFirst
  <2>3. /\ w.op = "write" => e.term = Whole(w.data)
        /\ w.op # "write" => e.term \in {Emptied, Torn}
    BY <1>3, <2>2, PerformFile
  <2> QED
    BY <2>2, <2>3, FileValues
<1>6. CASE a = 0 /\ b > 0
  <2>1. 1 \in (a + 1) .. b
    BY <1>4, <1>6
  <2>2. w.file = "voted_for" /\ w.op \in FileOps
    BY <1>1, <1>2, <2>1 DEF VotesFirst
  <2> QED
    BY <1>3, <2>2, PerformFile
<1>7. CASE a = 0 /\ b = 0
  <2>1. 1 \in (b + 1) .. Len(s)
    BY <1>3, <1>7
  <2>2. Elsewhere(w)
    BY <1>1, <1>2, <2>1 DEF VotesFirst
  <2> QED
    BY <1>3, <2>2, PerformElsewhere
<1> QED
  BY <1>4, <1>5, <1>6, <1>7

LEMMA SystemCallBooks ==
    ASSUME StorageInv, JournalInv, SystemCall
    PROVE  JournalInv'
<1> SUFFICES ASSUME hit' \subseteq {"unterminated"} PROVE Journal'
  BY DEF JournalInv
<1>1. /\ up /\ pending # <<>> /\ disk' = Perform(disk, Head(pending)) /\ pending' = Tail(pending)
      /\ up' = up /\ core' = core /\ reply' = reply /\ acked' = acked /\ hit' = hit
  BY DEF SystemCall
<1>2. Journal /\ Settled
  BY <1>1 DEF JournalInv, StorageInv
<1>3. Writing(core, pending, reply)
  BY <1>1, <1>2 DEF Journal
<1>4. PICK d : d = Perform(disk, Head(pending))
  OBVIOUS
<1>5. Writing(core, pending, reply)'
  <2>1. PICK e : Path(disk, pending, e, acked, hit) /\ Ends(e, core.log, hit)
    BY <1>3 DEF Writing
  <2>2. IsSeq(pending)
    BY <1>3 DEF Writing
  <2>3. Path(d, Tail(pending), e, acked, hit)
    BY <1>1, <1>4, <2>1, <2>2, PathTail
  <2>4. IsSeq(Tail(pending))
    BY <1>1, <2>2, TailSequence
  <2>5. disk' = d
    BY <1>1, <1>4
  <2> QED
    BY <1>1, <1>3, <2>1, <2>3, <2>4, <2>5 DEF Writing
<1>6. AcksOnDisk'
  <2>1. DiskOK(disk) /\ Settles(disk, pending, core, votes)
    BY <1>1, <1>2 DEF Settled, Running
  <2>2. d.term = disk.term \/ ~Valued(d.term) \/ LoadTerm(d) = core.current_term
    BY <1>1, <1>4, <2>1, TermCall
  <2>3. AckedBy(acked, core.current_term) /\ core.current_term \in Nat
    BY <1>3 DEF Writing, Book, LogOK
  <2>4. AcksOnDisk
    BY <1>2 DEF Journal
  <2>5. ASSUME NEW a \in acked, Valued(d.term) PROVE LoadTerm(d) >= a.term
    <3>1. CASE d.term = disk.term
      BY <2>4, <2>5, <3>1 DEF AcksOnDisk, LoadTerm
    <3>2. CASE LoadTerm(d) = core.current_term
      <4>1. a.term \in Nat /\ a.term <= core.current_term
        BY <2>3, LeadersAssumption DEF AckedBy
      <4> QED
        BY <2>3, <3>2, <4>1
    <3> QED
      BY <2>2, <2>5, <3>1, <3>2
  <2> QED
    BY <1>1, <1>4, <2>4, <2>5 DEF AcksOnDisk
<1> QED
  BY <1>1, <1>5, <1>6 DEF Journal

LEMMA SendReplyBooks ==
    ASSUME StorageInv, JournalInv, SendReply
    PROVE  JournalInv'
<1> SUFFICES ASSUME hit' \subseteq {"unterminated"} PROVE Journal'
  BY DEF JournalInv
<1>1. /\ up /\ pending = <<>> /\ reply' = NoReply
      /\ up' = up /\ core' = core /\ disk' = disk /\ pending' = pending /\ hit' = hit
      /\ acked' = acked \cup (IF reply.is # "ack" THEN {}
                              ELSE {[term |-> reply.term, index |-> k] : k \in 1 .. reply.upTo})
  BY DEF SendReply, Replies
<1>2. Journal /\ Settled
  BY <1>1 DEF JournalInv, StorageInv
<1>3. /\ Writing(core, <<>>, reply) /\ Settles(disk, <<>>, core, votes)
  BY <1>1, <1>2 DEF Journal, Settled, Running
<1>4. Valued(disk.term) /\ LoadTerm(disk) = core.current_term
  BY <1>3, Drained
<1>5. PICK l : l = core.log
  OBVIOUS
<1>6. /\ LogOK(core, Self) /\ FromLeaders(l) /\ KeepsAcked(l, acked)
      /\ AckedBy(acked, core.current_term) /\ AppliedOK(core) /\ Owns(reply, core)
      /\ core.current_term \in Nat
  BY <1>3, <1>5 DEF Writing, Book, LogOK
<1>7. Sound(disk, acked, hit) /\ Ends(disk, l, hit)
  <2>1. PICK e : Path(disk, <<>>, e, acked, hit) /\ Ends(e, l, hit)
    BY <1>3, <1>5 DEF Writing
  <2> QED
    BY <2>1, PathNone
<1>8. ASSUME NEW a \in acked', a \notin acked
      PROVE  /\ a.term \in DOMAIN LeaderLog /\ a.term <= core.current_term /\ a.index \in Nat
             /\ a.index \in DOMAIN l /\ l[a.index] = LeaderLog[a.term][a.index]
  <2>1. reply.is = "ack"
    BY <1>1, <1>8
  <2>2. PICK k \in 1 .. reply.upTo : a = [term |-> reply.term, index |-> k]
    BY <1>1, <1>8, <2>1
  <2>3. /\ reply.term \in DOMAIN LeaderLog /\ reply.term <= core.current_term
        /\ Has(l, reply.term, reply.upTo)
    BY <1>5, <1>6, <2>1 DEF Owns
  <2>4. reply.upTo \in Nat /\ reply.upTo <= Len(l) /\ l[k] = LeaderLog[reply.term][k]
    <3>1. Len(LeaderLog[reply.term]) \in Nat
      BY <2>3, LeadersAssumption
    <3> QED
      BY <2>3, <3>1 DEF Has
  <2>5. l \in Seq(LogEntry)
    BY <1>6 DEF FromLeaders, Contiguous
  <2>6. k \in Nat /\ k \in DOMAIN l
    BY <2>4, <2>5
  <2> QED
    BY <2>2, <2>3, <2>4, <2>6
<1>9. KeepsAcked(l, acked') /\ AckedBy(acked', core.current_term)
  BY <1>6, <1>8 DEF KeepsAcked, AckedBy
<1>10. Book(core, acked')
  BY <1>5, <1>6, <1>9 DEF Book
<1>11. Sound(disk, acked', hit)
  <2>1. DOMAIN disk = {"term", "voted_for", "snapshot", "log"} /\ disk.snapshot = Absent
    BY <1>7 DEF Sound
  <2> QED
    BY <1>6, <1>7, <1>9, <2>1, EndsSound
<1>12. Path(disk, <<>>, disk, acked', hit)
  BY <1>11, PathNone
<1>13. Writing(core, pending, reply)'
  <2>1. Owns(NoReply, core) /\ IsSeq(<<>>)
    BY NothingWritten DEF Owns, NoReply, Aside
  <2> QED
    BY <1>1, <1>5, <1>7, <1>10, <1>12, <2>1 DEF Writing
<1>14. AcksOnDisk'
  <2>1. ASSUME NEW a \in acked'
        PROVE  a.term \in DOMAIN LeaderLog /\ a.index \in Nat /\ LoadTerm(disk) >= a.term
    <3>1. a.term \in DOMAIN LeaderLog /\ a.term <= core.current_term /\ a.index \in Nat
      BY <1>9 DEF AckedBy
    <3>2. a.term \in Nat
      BY <3>1, LeadersAssumption
    <3> QED
      BY <1>4, <1>6, <3>1, <3>2
  <2> QED
    BY <1>1, <2>1 DEF AcksOnDisk
<1> QED
  BY <1>1, <1>13, <1>14 DEF Journal

LEMMA CrashBooks ==
    ASSUME JournalInv, Crash
    PROVE  JournalInv'
<1> SUFFICES ASSUME hit' \subseteq {"unterminated"} PROVE Journal'
  BY DEF JournalInv
<1>1. /\ up /\ hit = {} /\ up' = FALSE
      /\ disk' = disk /\ acked' = acked /\ hit' = Windows
  BY DEF Crash
<1>2. Journal
  BY <1>1 DEF JournalInv
<1>3. Sound(disk, acked, {})
  <2>1. Writing(core, pending, reply)
    BY <1>1, <1>2 DEF Journal
  <2>2. PICK e : Path(disk, pending, e, acked, {})
    BY <1>1, <2>1 DEF Writing
  <2>3. Len(pending) \in Nat
    BY <2>1 DEF Writing, IsSeq
  <2> QED
    BY <2>2, <2>3, PathEnds
<1>4. Windows = {} => \A k \in DOMAIN disk.log : disk.log[k].is # "whole"
  BY DEF Windows
<1>5. Down'
  BY <1>1, <1>3, <1>4 DEF Down
<1> QED
  BY <1>1, <1>2, <1>5 DEF Journal, AcksOnDisk

\* A log that no crash has left misleading is the log the node goes on with.
LEMMA RestartBooks ==
    ASSUME StorageInv, JournalInv, Restart
    PROVE  JournalInv'
<1> SUFFICES ASSUME hit' \subseteq {"unterminated"} PROVE Journal'
  BY DEF JournalInv
<1>1. /\ ~up /\ Loads(disk) /\ up' = TRUE
      /\ disk' = disk /\ pending' = pending /\ reply' = reply /\ acked' = acked /\ hit' = hit
  BY DEF Restart
<1>2. Journal /\ Settled
  BY <1>1 DEF JournalInv, StorageInv
<1>3. Down /\ AcksOnDisk /\ Stopped /\ DiskOK(disk)
  BY <1>1, <1>2 DEF Journal, Settled
<1>4. /\ DOMAIN disk = {"term", "voted_for", "snapshot", "log"} /\ disk.snapshot = Absent
      /\ \E l : \E last \in {"torn", "whole", "line"} :
            Shows(disk, l, last) /\ FromLeaders(l) /\ KeepsAcked(l, acked)
  BY <1>3 DEF Down, Sound
<1>5. PICK l : \E last \in {"torn", "whole", "line"} :
            Shows(disk, l, last) /\ FromLeaders(l) /\ KeepsAcked(l, acked)
  BY <1>4
<1>6. PICK last \in {"torn", "whole", "line"} :
            Shows(disk, l, last) /\ FromLeaders(l) /\ KeepsAcked(l, acked)
  BY <1>5
<1>7. Contiguous(l) /\ l \in Seq(LogEntry) /\ Len(l) \in Nat
  BY <1>6 DEF FromLeaders, Contiguous
<1>8. l # <<>> => /\ Len(l) \in DOMAIN disk.log /\ disk.log[Len(l)].is = last
  <2> SUFFICES ASSUME l # <<>> PROVE Len(l) \in DOMAIN disk.log /\ disk.log[Len(l)].is = last
    OBVIOUS
  <2>1. Len(l) \in 1 .. Len(l)
    BY <1>7
  <2> QED
    BY <1>6, <2>1, LineParts DEF Shows, IsSeq
<1>9. Ends(disk, l, hit) /\ LoadLog(disk) = l
  <2>1. CASE l = <<>>
    <3>1. \A k : ~(k \in 1 .. Len(l))
      BY <2>1
    <3>2. Shows(disk, l, "line")
      BY <1>6, <3>1 DEF Shows
    <3>3. LoadLog(disk) = l
      BY <1>7, <3>2, ShowsLoads
    <3> QED
      BY <3>2, <3>3 DEF Ends
  <2>2. CASE l # <<>>
    <3>1. last # "torn"
      BY <1>1, <1>8, <2>2 DEF Loads, LogLoads
    <3>2. last = "whole" => hit # {}
      BY <1>3, <1>8, <2>2 DEF Down
    <3>3. LoadLog(disk) = l
      BY <1>6, <1>7, <3>1, ShowsLoads
    <3> QED
      BY <1>6, <3>1, <3>2, <3>3 DEF Ends
  <2> QED
    BY <2>1, <2>2
<1>10. PICK n : n = New(Self, LoadTerm(disk), LoadVotedFor(disk), l, NoSnapshot)
  OBVIOUS
<1>11. core' = n
  <2>1. LoadSnapshot(disk) = NoSnapshot
    BY <1>4 DEF LoadSnapshot, ReadWithChecksum, Absent
  <2> QED
    BY <1>9, <1>10, <2>1 DEF Restart
<1>12. Valued(disk.term) /\ LoadTerm(disk) \in Nat
  BY <1>1, <1>3, LoadedValues DEF Stopped
<1>13. LogOK(n, Self)
  BY <1>7, <1>10, <1>12, NewOK
<1>14. /\ n.log = l /\ n.current_term = LoadTerm(disk)
       /\ n.commit_index = 0 /\ n.last_applied = 0
  BY <1>10 DEF New, NoSnapshot
<1>15. AppliedOK(n)
  <2>1. PICK t : t \in DOMAIN LeaderLog
    BY LeadersAgreeAssumption
  <2>2. LeaderCommit[t] \in Nat /\ Len(LeaderLog[t]) \in Nat
    BY <2>1, LeadersAssumption
  <2>3. Has(l, t, 0) /\ 0 <= LeaderCommit[t]
    BY <1>7, <2>1, <2>2 DEF Has
  <2> QED
    BY <1>14, <2>1, <2>3 DEF AppliedOK
<1>16. AckedBy(acked, n.current_term)
  <2> SUFFICES ASSUME NEW a \in acked
               PROVE  a.term \in DOMAIN LeaderLog /\ a.term <= n.current_term /\ a.index \in Nat
    BY DEF AckedBy
  <2>1. a.term \in DOMAIN LeaderLog /\ a.index \in Nat /\ LoadTerm(disk) >= a.term
    BY <1>3, <1>12 DEF AcksOnDisk
  <2>2. a.term \in Nat
    BY <2>1, LeadersAssumption
  <2> QED
    BY <1>12, <1>14, <2>1, <2>2
<1>17. Book(n, acked)
  BY <1>6, <1>13, <1>14, <1>15, <1>16 DEF Book
<1>18. Path(disk, <<>>, disk, acked, hit)
  <2>1. Sound(disk, acked, hit)
    BY <1>4 DEF Sound
  <2> QED
    BY <2>1, PathNone
<1>19. Writing(core, pending, reply)'
  <2>1. Owns(NoReply, n) /\ IsSeq(<<>>)
    BY NothingWritten DEF Owns, NoReply, Aside
  <2>2. pending' = <<>> /\ reply' = NoReply
    BY <1>1, <1>3 DEF Stopped
  <2> QED
    BY <1>1, <1>9, <1>11, <1>14, <1>17, <1>18, <2>1, <2>2 DEF Writing
<1> QED
  BY <1>1, <1>3, <1>19 DEF Journal, AcksOnDisk

LEMMA JournalInit == Init => JournalInv
<1> SUFFICES ASSUME Init PROVE Journal
  BY DEF JournalInv
<1>1. /\ up = TRUE /\ pending = <<>> /\ reply = NoReply /\ acked = {} /\ hit = {}
      /\ DOMAIN disk = {"term", "voted_for", "snapshot", "log"}
      /\ disk.snapshot = Absent /\ disk.log = <<>>
  BY DEF Init
<1>2. PICK l : l = <<>>
  OBVIOUS
<1>3. Contiguous(l) /\ IsSeq(l) /\ Len(l) = 0 /\ \A k : ~(k \in 1 .. Len(l))
  BY <1>2 DEF Contiguous, IsSeq
<1>4. core = New(Self, 0, Nil, l, NoSnapshot)
  BY <1>2 DEF Init
<1>5. LogOK(core, Self)
  BY <1>3, <1>4, NewOK
<1>6. /\ core.log = l /\ core.current_term = 0
      /\ core.commit_index = 0 /\ core.last_applied = 0
  BY <1>4 DEF New, NoSnapshot
<1>7. AppliedOK(core)
  <2>1. PICK t : t \in DOMAIN LeaderLog
    BY LeadersAgreeAssumption
  <2>2. LeaderCommit[t] \in Nat /\ Len(LeaderLog[t]) \in Nat
    BY <2>1, LeadersAssumption
  <2>3. Has(l, t, 0) /\ 0 <= LeaderCommit[t]
    BY <1>3, <2>1, <2>2 DEF Has
  <2> QED
    BY <1>6, <2>1, <2>3 DEF AppliedOK
<1>8. FromLeaders(l) /\ KeepsAcked(l, acked)
  <2>1. DOMAIN l = {}
    BY <1>2
  <2> QED
    BY <1>1, <1>3, <2>1 DEF FromLeaders, KeepsAcked
<1>9. Book(core, acked)
  BY <1>1, <1>5, <1>6, <1>7, <1>8 DEF Book, AckedBy
<1>10. Shows(disk, l, "line")
  BY <1>1, <1>2, <1>3 DEF Shows
<1>11. Path(disk, <<>>, disk, acked, hit)
  <2>1. Sound(disk, acked, hit)
    BY <1>1, <1>8, <1>10 DEF Sound
  <2> QED
    BY <2>1, PathNone
<1>12. Writing(core, pending, reply)
  BY <1>1, <1>2, <1>3, <1>6, <1>9, <1>10, <1>11 DEF Writing, Owns, NoReply, Ends
<1> QED
  BY <1>1, <1>12 DEF Journal, AcksOnDisk

LEMMA JournalStutters ==
    ASSUME JournalInv, UNCHANGED vars
    PROVE  JournalInv'
<1>1. /\ up' = up /\ core' = core /\ disk' = disk /\ pending' = pending
      /\ reply' = reply /\ acked' = acked /\ hit' = hit
  BY DEF vars
<1>2. Writing(core, pending, reply)' = Writing(core, pending, reply)
  BY <1>1 DEF Writing
<1>3. Down' = Down /\ AcksOnDisk' = AcksOnDisk
  BY <1>1 DEF Down, AcksOnDisk
<1> QED
  BY <1>1, <1>2, <1>3 DEF JournalInv, Journal

\* The log file is on the way to the log in memory, and nothing that was
\* acknowledged to last is lost on the way.
THEOREM JournalHolds == ASSUME SnapshotThreshold = 0 PROVE Spec => [](StorageInv /\ JournalInv)
<1>1. ~InstallSnapshot
  BY DEF InstallSnapshot
<1>2. StorageInv /\ JournalInv /\ [Next]_vars => JournalInv'
  BY <1>1, RequestVoteBooks, AppendEntriesBooks, ElectionTimeoutBooks, SystemCallBooks,
     SendReplyBooks, CrashBooks, RestartBooks, JournalStutters, Zenon
     DEF Next
<1> QED
  BY <1>2, StorageHolds, JournalInit, PTL DEF Spec

\* Between two handlers a start would find what memory holds.
THEOREM DiskFollows == ASSUME SnapshotThreshold = 0 PROVE Spec => []DiskFollowsMemory
<1>1. StorageInv /\ JournalInv => DiskFollowsMemory
  <2> SUFFICES ASSUME StorageInv, JournalInv, up, pending = <<>>, hit = {}
               PROVE  /\ Loads(disk)
                      /\ LoadTerm(disk) = core.current_term /\ LoadVotedFor(disk) = core.voted_for
                      /\ LoadLog(disk) = core.log
                      /\ LoadSnapshot(disk) = core.stored_snapshot
                      /\ LoadSnapshot(disk).last_included_index = core.snapshot_last_index
    BY DEF DiskFollowsMemory
  <2>1. Settles(disk, <<>>, core, votes) /\ Writing(core, <<>>, reply)
    BY DEF StorageInv, Settled, Running, JournalInv, Journal
  <2>2. /\ Valued(disk.term) /\ LoadTerm(disk) = core.current_term
        /\ Valued(disk.voted_for) /\ LoadVotedFor(disk) = core.voted_for
    BY <2>1, Drained
  <2>3. Sound(disk, acked, {}) /\ Ends(disk, core.log, {})
    <3>1. PICK e : Path(disk, <<>>, e, acked, {}) /\ Ends(e, core.log, {})
      BY <2>1 DEF Writing
    <3> QED
      BY <3>1, PathNone
  <2>4. /\ LogOK(core, Self) /\ core.log \in Seq(LogEntry)
        /\ core.stored_snapshot = NoSnapshot /\ core.snapshot_last_index = 0
    BY <2>1 DEF Writing, Book, LogOK, Contiguous
  <2>5. LogLoads(disk) /\ LoadLog(disk) = core.log
    BY <2>3, <2>4, ShowsLoads DEF Ends
  <2>6. disk.snapshot = Absent /\ LoadSnapshot(disk) = NoSnapshot
    BY <2>3 DEF Sound, LoadSnapshot, ReadWithChecksum, Absent
  <2>7. Loads(disk)
    BY <2>2, <2>5, <2>6 DEF Loads, Readable, Valued, Absent
  <2> QED
    BY <2>2, <2>4, <2>5, <2>6, <2>7 DEF NoSnapshot
<1> QED
  BY <1>1, JournalHolds, PTL

\* Whatever system call a crash interrupts, the next start has the acknowledged
\* entries that every later leader has.
THEOREM AcksSurvive == ASSUME SnapshotThreshold = 0 PROVE Spec => []AckedSurvive
<1>1. JournalInv => AckedSurvive
  <2> SUFFICES ASSUME JournalInv, Loads(disk), hit \cup Windows \subseteq {"unterminated"},
                      NEW a \in acked, Lasting(a)
               PROVE  \E k \in DOMAIN disk.log : disk.log[k].entry = LeaderLog[a.term][a.index]
    BY DEF AckedSurvive
  <2>1. Journal
    BY DEF JournalInv
  <2>2. Sound(disk, acked, hit)
    <3>1. CASE up
      <4>1. Writing(core, pending, reply)
        BY <2>1, <3>1 DEF Journal
      <4>2. PICK e : Path(disk, pending, e, acked, hit)
        BY <4>1 DEF Writing
      <4>3. Len(pending) \in Nat
        BY <4>1 DEF Writing, IsSeq
      <4> QED
        BY <4>2, <4>3, PathEnds
    <3>2. CASE ~up
      BY <2>1, <3>2 DEF Journal, Down, Sound
    <3> QED
      BY <3>1, <3>2
  <2>3. ~Glued(disk)
    <3> SUFFICES ASSUME Glued(disk) PROVE FALSE
      OBVIOUS
    <3>1. Len(disk.log) \in DOMAIN disk.log /\ disk.log[Len(disk.log)].is = "glued"
      BY LineParts DEF Glued, IsSeq
    <3> QED
      BY <3>1 DEF Loads, LogLoads
  <2>4. PICK l : \E last \in {"torn", "whole", "line"} : Shows(disk, l, last) /\ KeepsAcked(l, acked)
                                                         /\ FromLeaders(l)
    BY <2>2, <2>3 DEF Sound
  <2>5. PICK last : Shows(disk, l, last) /\ KeepsAcked(l, acked) /\ FromLeaders(l)
    BY <2>4
  <2>6. a.index \in DOMAIN l /\ l[a.index] = LeaderLog[a.term][a.index]
    BY <2>5 DEF KeepsAcked
  <2>7. DOMAIN l = 1 .. Len(l) /\ DOMAIN disk.log = 1 .. Len(l)
    BY <2>5 DEF FromLeaders, Contiguous, Shows, IsSeq
  <2>8. disk.log[a.index].entry = l[a.index]
    BY <2>5, <2>6, <2>7, LineParts DEF Shows
  <2> QED
    BY <2>6, <2>7, <2>8
<1> QED
  BY <1>1, JournalHolds, PTL

\* A node that starts again and again applies the entries of leaders, in order.
THEOREM RestartsApplyTheLog ==
    ASSUME SnapshotThreshold = 0 PROVE Spec => []AppliesTheLogAfterCrashes
<1>1. JournalInv => AppliesTheLogAfterCrashes
  <2> SUFFICES ASSUME JournalInv, hit \subseteq {"unterminated"}, up
               PROVE  /\ core.last_applied = Len(core.sm)
                      /\ \E t \in DOMAIN LeaderLog :
                            \A k \in DOMAIN core.sm :
                                k \in DOMAIN LeaderLog[t] /\ core.sm[k] = LeaderLog[t][k].command
    BY DEF AppliesTheLogAfterCrashes, AppliesTheLog
  <2>1. LogOK(core, Self) /\ AppliedOK(core)
    BY DEF JournalInv, Journal, Writing, Book
  <2>2. /\ core.last_applied = Len(core.sm) /\ DOMAIN core.sm = 1 .. core.last_applied
        /\ core.last_applied \in Nat /\ core.commit_index \in Nat
    BY <2>1 DEF LogOK
  <2>3. PICK t \in DOMAIN LeaderLog :
          /\ core.commit_index <= LeaderCommit[t]
          /\ core.last_applied <= core.commit_index
          /\ \A k \in 1 .. core.last_applied : core.sm[k] = LeaderLog[t][k].command
    BY <2>1 DEF AppliedOK
  <2>4. \A k \in 1 .. core.last_applied : k \in DOMAIN LeaderLog[t]
    <3>1. LeaderCommit[t] \in 0 .. Len(LeaderLog[t]) /\ LeaderLog[t] \in Seq(LogEntry)
      BY LeadersAssumption
    <3> QED
      BY <2>2, <2>3, <3>1
  <2> QED
    BY <2>2, <2>3, <2>4
<1> QED
  BY <1>1, JournalHolds, PTL

\* Before the first crash a MemoryStorage has been given the same calls.
Mirrored == up /\ hit = {} /\ Mirrors(memory, disk)

MirrorInv == crashes \in Nat /\ (crashes = 0 => Mirrored)

LEMMA MirrorInit == Init => MirrorInv
<1> SUFFICES ASSUME Init PROVE Mirrored /\ crashes = 0
  BY DEF MirrorInv
<1>1. /\ up = TRUE /\ hit = {} /\ crashes = 0 /\ memory = NewMemory(Nil, NoSnapshot)
      /\ disk = [term |-> Absent, voted_for |-> Absent, snapshot |-> Absent, log |-> <<>>]
  BY DEF Init
<1>2. LoadTerm(disk) = 0 /\ LoadVotedFor(disk) = Nil /\ LoadSnapshot(disk) = NoSnapshot
  BY <1>1 DEF LoadTerm, LoadVotedFor, LoadSnapshot, ReadWithChecksum, Absent
<1>3. /\ memory.term = 0 /\ memory.voted_for = Nil /\ memory.log = <<>>
      /\ memory = [term |-> memory.term, voted_for |-> memory.voted_for, log |-> memory.log,
                   snapshot |-> NoSnapshot]
  BY <1>1 DEF NewMemory
<1>4. PICK l : l = <<>>
  OBVIOUS
<1>5. l \in Seq(LogEntry) /\ IsSeq(l) /\ Len(l) = 0 /\ \A k : ~(k \in 1 .. Len(l))
  BY <1>4 DEF IsSeq
<1>6. Shows(disk, l, "line") /\ memory.log = Complete(l, "line")
  BY <1>1, <1>3, <1>4, <1>5 DEF Shows, Complete
<1> QED
  BY <1>1, <1>2, <1>3, <1>5, <1>6 DEF Mirrored, Mirrors

LEMMA SystemCallMirrors ==
    ASSUME JournalInv, MirrorInv, SystemCall
    PROVE  MirrorInv'
<1>1. /\ up /\ pending # <<>> /\ disk' = Perform(disk, Head(pending))
      /\ up' = up /\ hit' = hit /\ crashes' = crashes
      /\ memory' = IF crashes = 0 THEN Mirror(memory, Head(pending)) ELSE memory
  BY DEF SystemCall
<1> SUFFICES ASSUME crashes = 0 PROVE Mirrored'
  BY <1>1 DEF MirrorInv
<1>2. hit = {} /\ Mirrors(memory, disk)
  BY DEF MirrorInv, Mirrored
<1>3. Writing(core, pending, reply)
  BY <1>1, <1>2 DEF JournalInv, Journal
<1>4. Calls(disk, Head(pending), Perform(disk, Head(pending)), hit)
  <2>1. IsSeq(pending) /\ \E e : Path(disk, pending, e, acked, hit)
    BY <1>3 DEF Writing
  <2> QED
    BY <1>1, <2>1, PathTail
<1>5. Mirrors(Mirror(memory, Head(pending)), Perform(disk, Head(pending)))
  BY <1>2, <1>4 DEF Calls
<1>6. Mirrors(memory', disk')
  BY <1>1, <1>5
<1>7. Mirrors(memory, disk)'
  BY <1>6 DEF Mirrors, Shows, LoadTerm, LoadVotedFor, LoadSnapshot
<1> QED
  BY <1>1, <1>2, <1>7 DEF Mirrored

\* Every other step leaves disk and MemoryStorage, or is a crash or after one.
LEMMA OthersMirror ==
    ASSUME MirrorInv, UNCHANGED <<up, disk, hit, crashes, memory>> \/ Crash \/ Restart
    PROVE  MirrorInv'
<1>1. CASE UNCHANGED <<up, disk, hit, crashes, memory>>
  <2>1. Mirrors(memory, disk)' = Mirrors(memory, disk)
    BY <1>1
  <2> QED
    BY <1>1, <2>1 DEF MirrorInv, Mirrored
<1>2. CASE Crash
  BY <1>2 DEF Crash, MirrorInv
<1>3. CASE Restart
  BY <1>3 DEF Restart, MirrorInv, Mirrored
<1> QED
  BY <1>1, <1>2, <1>3

LEMMA StepsMirror ==
    ASSUME SnapshotThreshold = 0, JournalInv, MirrorInv, [Next]_vars
    PROVE  MirrorInv'
<1>1. CASE SystemCall
  BY <1>1, SystemCallMirrors
<1>2. CASE Crash \/ Restart
  BY <1>2, OthersMirror
<1>3. CASE RequestVote \/ AppendEntries \/ InstallSnapshot \/ ElectionTimeout
  <2>1. ASSUME NEW n, NEW s, NEW answer, Handle(n, s, answer)
        PROVE  UNCHANGED <<up, disk, hit, crashes, memory>>
    BY <2>1 DEF Handle
  <2>2. UNCHANGED <<up, disk, hit, crashes, memory>>
    <3>1. CASE RequestVote
      BY <2>1, <3>1 DEF RequestVote
    <3>2. CASE AppendEntries
      BY <2>1, <3>2 DEF AppendEntries
    <3>3. CASE InstallSnapshot
      BY <2>1, <3>3 DEF InstallSnapshot
    <3>4. CASE ElectionTimeout
      BY <2>1, <3>4 DEF ElectionTimeout
    <3> QED
      BY <1>3, <3>1, <3>2, <3>3, <3>4
  <2> QED
    BY <2>2, OthersMirror
<1>4. CASE SendReply \/ UNCHANGED vars
  <2>1. UNCHANGED <<up, disk, hit, crashes, memory>>
    BY <1>4 DEF SendReply, vars
  <2> QED
    BY <2>1, OthersMirror
<1> QED
  BY <1>1, <1>2, <1>3, <1>4 DEF Next

\* Until the first crash the disk and a MemoryStorage given the same calls agree
\* between two handlers: the log that is never compacted starts at index 1.
THEOREM MemoryAgrees == ASSUME SnapshotThreshold = 0 PROVE Spec => []MemoryStorageAgrees
<1>1. StorageInv /\ JournalInv /\ MirrorInv => MemoryStorageAgrees
  <2> SUFFICES ASSUME StorageInv, JournalInv, MirrorInv, up, pending = <<>>, crashes = 0
               PROVE  memory = [term |-> LoadTerm(disk), voted_for |-> LoadVotedFor(disk),
                                log |-> LoadLog(disk), snapshot |-> LoadSnapshot(disk)]
    BY DEF MemoryStorageAgrees, StoragesAgree
  <2>1. hit = {} /\ Mirrors(memory, disk)
    BY DEF MirrorInv, Mirrored
  <2>2. Settles(disk, <<>>, core, votes) /\ Writing(core, <<>>, reply)
    BY <2>1 DEF StorageInv, Settled, Running, JournalInv, Journal
  <2>3. Valued(disk.term) /\ Valued(disk.voted_for)
    BY <2>2, Drained
  <2>4. Ends(disk, core.log, {})
    <3>1. PICK e : Path(disk, <<>>, e, acked, {}) /\ Ends(e, core.log, {})
      BY <2>1, <2>2 DEF Writing
    <3> QED
      BY <3>1, PathNone
  <2>5. Shows(disk, core.log, "line") /\ core.log \in Seq(LogEntry)
    BY <2>2, <2>4 DEF Ends, Writing, Book, LogOK, Contiguous
  <2>6. PICK l \in Seq(LogEntry), last \in {"torn", "whole", "line"} :
          Shows(disk, l, last) /\ memory.log = Complete(l, last)
    BY <2>1 DEF Mirrors
  <2>7. core.log = l /\ (core.log # <<>> => "line" = last)
    BY <2>5, <2>6, ShowsOnce
  <2>8. memory.log = core.log
    BY <2>6, <2>7 DEF Complete
  <2>9. LoadLog(disk) = core.log
    BY <2>5, ShowsLoads
  <2> QED
    BY <2>1, <2>3, <2>8, <2>9 DEF Mirrors
<1>2. StorageInv /\ JournalInv /\ MirrorInv /\ [Next]_vars => MirrorInv'
  BY StepsMirror
<1> QED
  BY <1>1, <1>2, JournalHolds, MirrorInit, PTL DEF Spec
=============================================================================
