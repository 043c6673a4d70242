---------------------------- MODULE MemoryStorage ----------------------------
(***************************************************************************)
(* MemoryStorage (src/storage/memory.rs), the Storage of tests: a record   *)
(* of the four fields, and the calls of the trait that change it.  The log *)
(* is cut by position, as if its first entry had index 1.                  *)
(***************************************************************************)
EXTENDS Naturals, Sequences

\* MemoryStorage::new; none is Rust's None, noSnapshot what load_snapshot's None
\* means to RaftCore.
NewMemory(none, noSnapshot) ==
    [term |-> 0, voted_for |-> none, log |-> <<>>, snapshot |-> noSnapshot]

MemSaveTerm(m, t) == [m EXCEPT !.term = t]
MemSaveVotedFor(m, v) == [m EXCEPT !.voted_for = v]
MemSaveSnapshot(m, s) == [m EXCEPT !.snapshot = s]
MemAppend(m, entry) == [m EXCEPT !.log = Append(@, entry)]

\* Mutant: the entry at from_index is kept.
MemTruncateKeeps(m, from_index) == [m EXCEPT !.log = SubSeq(@, 1, from_index)]

MemTruncate(m, from_index) ==
    IF from_index = 0 THEN [m EXCEPT !.log = <<>>]
    ELSE IF from_index - 1 < Len(m.log)
    THEN [m EXCEPT !.log = SubSeq(@, 1, from_index - 1)]
    ELSE m

MemCompact(m, before_index) ==
    IF before_index = 0 THEN [m EXCEPT !.log = <<>>]
    ELSE [m EXCEPT !.log = SubSeq(@, before_index, Len(@))]
=============================================================================
