----------------------------- MODULE MemoryTests -----------------------------
(***************************************************************************)
(* The unit tests of src/storage/memory.rs run on MemoryStorage, as        *)
(* CoreTests does for raft_core.rs.                                        *)
(***************************************************************************)
EXTENDS Naturals, Sequences

Mem == INSTANCE MemoryStorage

Empty == Mem!NewMemory("none", "none")

\* append_log_entries of entries with indices 1 .. and these terms.
Filled(terms) ==
    LET after[k \in 0 .. Len(terms)] ==
            IF k = 0 THEN Empty
            ELSE Mem!MemAppend(after[k - 1], [term |-> terms[k], index |-> k, command |-> k])
    IN  after[Len(terms)]
Indices(m) == [k \in DOMAIN m.log |-> m.log[k].index]

test_memory_storage_term ==
    LET five == Mem!MemSaveTerm(Empty, 5)
    IN  Empty.term = 0 /\ five.term = 5 /\ Mem!MemSaveTerm(five, 10).term = 10

test_memory_storage_voted_for ==
    LET three == Mem!MemSaveVotedFor(Empty, "3")
    IN  /\ Empty.voted_for = "none" /\ three.voted_for = "3"
        /\ Mem!MemSaveVotedFor(three, "none").voted_for = "none"

test_memory_storage_log_append ==
    LET two == Filled(<<1, 1>>)
        more == Mem!MemAppend(two, [term |-> 2, index |-> 3, command |-> 3])
    IN  /\ Empty.log = <<>> /\ Len(two.log) = 2
        /\ two.log[1].command = 1 /\ two.log[2].command = 2 /\ Len(more.log) = 3

test_memory_storage_log_truncate ==
    Indices(Mem!MemTruncate(Filled(<<1, 1, 1, 2>>), 3)) = <<1, 2>>

test_memory_storage_truncate_beyond_log == Len(Mem!MemTruncate(Filled(<<1>>), 10).log) = 1
test_memory_storage_truncate_all == Mem!MemTruncate(Filled(<<1, 1>>), 1).log = <<>>

test_memory_storage_compact_log ==
    Indices(Mem!MemCompact(Filled(<<1, 1, 1, 2>>), 3)) = <<3, 4>>

test_memory_storage_snapshot ==
    LET first == Mem!MemSaveSnapshot(Empty, "snapshot at 10")
    IN  /\ Empty.snapshot = "none" /\ first.snapshot = "snapshot at 10"
        /\ Mem!MemSaveSnapshot(first, "snapshot at 20").snapshot = "snapshot at 20"

ASSUME StorageTests ==
    /\ test_memory_storage_term /\ test_memory_storage_voted_for
    /\ test_memory_storage_log_append /\ test_memory_storage_log_truncate
    /\ test_memory_storage_truncate_beyond_log /\ test_memory_storage_truncate_all
    /\ test_memory_storage_compact_log /\ test_memory_storage_snapshot
=============================================================================
