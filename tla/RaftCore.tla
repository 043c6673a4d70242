------------------------------ MODULE RaftCore ------------------------------
(***************************************************************************)
(* RaftCore (src/core/raft_core.rs): the synchronous, transport-agnostic   *)
(* state machine of one node.  Every method of the Rust type is an         *)
(* operator on the record n of the node's fields; a method that returns a  *)
(* value returns a record whose field core is the new node.                *)
(*                                                                         *)
(* The fields stored_* are what FileStorage holds on disk: the code caches *)
(* them in memory and writes them through.  The state machine is the       *)
(* sequence sm of the commands applied to it, which determines the state   *)
(* of any deterministic state machine; the data of a snapshot is such a    *)
(* sequence.  last_heartbeat is left out: an election timeout may fire at  *)
(* any moment.                                                             *)
(*                                                                         *)
(* A definition marked Mutant is the next unmarked one with a likely bug;   *)
(* only PROJECT.json refers to it, to show that a property can fail.       *)
(***************************************************************************)
EXTENDS Naturals, Sequences, FiniteSets, FiniteSetsExt

CONSTANTS
    Server,             \* the ids of the cluster's nodes
    Command,            \* the commands clients submit
    Nil,                \* Rust's None
    Noop,               \* NOOP_COMMAND, appended by a new leader
    SnapshotThreshold   \* snapshot_threshold; 0 disables snapshots

ASSUME ServerAssumption == IsFiniteSet(Server) /\ Nil \notin Server
ASSUME ThresholdAssumption == SnapshotThreshold \in Nat
ASSUME NoopAssumption == Noop \notin Command

Peers(i) == Server \ {i}

\* Mutant: half of the nodes are enough.
MajorityHalf == Cardinality(Server) \div 2

\* (total_nodes / 2) + 1, as both vote counting and commit counting compute it.
Majority == (Cardinality(Server) \div 2) + 1

LogEntry == [term : Nat, index : Nat, command : Command \cup {Noop}]
NoSnapshot == [last_included_index |-> 0, last_included_term |-> 0, data |-> <<>>]

\* The fields of the struct, and what storage holds.
CoreFields ==
    {"current_term", "voted_for", "log", "snapshot_last_index", "snapshot_last_term",
     "commit_index", "last_applied", "next_index", "match_index", "state",
     "votes_received", "current_leader", "sm",
     "stored_term", "stored_voted_for", "stored_log", "stored_snapshot"}

(***************************************************************************)
(* Persistence helpers.                                                    *)
(***************************************************************************)

SetTerm(n, t) == [n EXCEPT !.current_term = t, !.stored_term = t]

\* Mutant: the vote is not written to disk.
SetVotedForInMemory(n, v) == [n EXCEPT !.voted_for = v]

SetVotedFor(n, v) == [n EXCEPT !.voted_for = v, !.stored_voted_for = v]

UpdateTerm(n, t) == SetVotedFor(SetTerm(n, t), Nil)

\* Mutant: a lower term is adopted too.
ObserveTermAny(n, t) ==
    IF t # n.current_term
    THEN [UpdateTerm(n, t) EXCEPT !.state = "Follower"]
    ELSE n

\* Mutant: the vote is cleared by the current term as well.
ObserveTermAgain(n, t) ==
    IF t >= n.current_term
    THEN [UpdateTerm(n, t) EXCEPT !.state = "Follower"]
    ELSE n

\* "If RPC request or response contains term T > currentTerm": the block that
\* opens handle_request_vote and handle_append_entries and that is the whole of
\* process_request_vote_response and process_append_entries_response.
ObserveTerm(n, t) ==
    IF t > n.current_term
    THEN [UpdateTerm(n, t) EXCEPT !.state = "Follower"]
    ELSE n

\* Mutant: last_applied is not taken from the snapshot.
NewUnapplied(i, term, voted_for, log, snapshot) ==
    [current_term |-> term, voted_for |-> voted_for, log |-> log,
     snapshot_last_index |-> snapshot.last_included_index,
     snapshot_last_term |-> snapshot.last_included_term,
     commit_index |-> snapshot.last_included_index,
     last_applied |-> 0,
     next_index |-> [p \in Peers(i) |-> 1],
     match_index |-> [p \in Peers(i) |-> 0],
     state |-> "Follower", votes_received |-> {}, current_leader |-> Nil,
     sm |-> snapshot.data,
     stored_term |-> term, stored_voted_for |-> voted_for,
     stored_log |-> log, stored_snapshot |-> snapshot]

\* RaftCore::new on what storage holds: a fresh node, or one that restarts.
\* The stored log is loaded as it is.
New(i, term, voted_for, log, snapshot) ==
    [current_term |-> term, voted_for |-> voted_for, log |-> log,
     snapshot_last_index |-> snapshot.last_included_index,
     snapshot_last_term |-> snapshot.last_included_term,
     commit_index |-> snapshot.last_included_index,
     last_applied |-> snapshot.last_included_index,
     next_index |-> [p \in Peers(i) |-> 1],
     match_index |-> [p \in Peers(i) |-> 0],
     state |-> "Follower", votes_received |-> {}, current_leader |-> Nil,
     sm |-> snapshot.data,
     stored_term |-> term, stored_voted_for |-> voted_for,
     stored_log |-> log, stored_snapshot |-> snapshot]

(***************************************************************************)
(* The log.  log[1] is meant to be the entry at snapshot_last_index + 1.   *)
(***************************************************************************)

LastLogIndex(n) ==
    IF n.log = <<>> THEN n.snapshot_last_index ELSE n.log[Len(n.log)].index

LastLogTerm(n) ==
    IF n.log = <<>> THEN n.snapshot_last_term ELSE n.log[Len(n.log)].term

\* get_log_entry returns Some ...
HasLogEntry(n, index) ==
    /\ index > n.snapshot_last_index
    /\ index - n.snapshot_last_index <= Len(n.log)

\* ... and this is what it returns.
GetLogEntry(n, index) == n.log[index - n.snapshot_last_index]

\* The scan goes back from from_index while the previous entry has the term.
FindFirstIndexForTerm(n, term, from_index) ==
    Min({k \in (n.snapshot_last_index + 1) .. from_index :
            \A m \in k .. (from_index - 1) :
                HasLogEntry(n, m) /\ GetLogEntry(n, m).term = term})

\* The scan goes back from the end, stops at the first entry whose term is not
\* above the wanted one, and falls back on the snapshot's last entry.
FindLastIndexForTerm(n, term) ==
    LET notAbove == {k \in DOMAIN n.log : n.log[k].term <= term}
    IN  IF notAbove # {} /\ n.log[Max(notAbove)].term = term
        THEN n.log[Max(notAbove)].index
        ELSE IF n.snapshot_last_term = term /\ n.snapshot_last_index > 0
             THEN n.snapshot_last_index
             ELSE Nil

\* Mutant: the longer log wins, whatever its last term.
IsLogUpToDateByIndex(n, last_log_term, last_log_index) ==
    last_log_index >= LastLogIndex(n)

\* Mutant: no look at the length of logs that end in the same term.
IsLogUpToDateByTerm(n, last_log_term, last_log_index) ==
    last_log_term >= LastLogTerm(n)

IsLogUpToDate(n, last_log_term, last_log_index) ==
    \/ last_log_term > LastLogTerm(n)
    \/ /\ last_log_term = LastLogTerm(n)
       /\ last_log_index >= LastLogIndex(n)

\* Filtering a log by its entries' own index.
EntriesAt(log, indices) ==
    LET kept[k \in 0 .. Len(log)] ==
            IF k = 0 THEN <<>>
            ELSE IF log[k].index \in indices THEN Append(kept[k - 1], log[k])
            ELSE kept[k - 1]
    IN  kept[Len(log)]

Onward(index) == {k \in Nat : k >= index}

\* The log file of FileStorage: what each operation leaves in it.
AppendLogEntries(stored, entries) == stored \o entries
TruncateLog(stored, from_index) == EntriesAt(stored, 0 .. (from_index - 1))
CompactLog(stored, before_index) == EntriesAt(stored, Onward(before_index))

\* The helpers below work on l, a node's pair of logs: log (in memory) and
\* stored_log (on disk).
PersistLogEntry(l, entry) ==
    [log |-> Append(l.log, entry),
     stored_log |-> AppendLogEntries(l.stored_log, <<entry>>)]

\* In memory the log is cut by position, whatever the snapshot's offset; on disk
\* by the entries' own index.
PersistTruncateLog(l, from_index) ==
    IF from_index - 1 < Len(l.log)
    THEN [log |-> SubSeq(l.log, 1, from_index - 1),
          stored_log |-> TruncateLog(l.stored_log, from_index)]
    ELSE l

\* Mutant: a conflicting entry is kept.
ApplyEntryKeeps(l, offset, entry) ==
    IF entry.index > offset /\ entry.index - offset > Len(l.log)
    THEN PersistLogEntry(l, entry)
    ELSE l

\* One round of the loop of apply_entries; offset is snapshot_last_index.
ApplyEntry(l, offset, entry) ==
    IF entry.index <= offset
    THEN l
    ELSE IF entry.index - offset > Len(l.log)
         THEN PersistLogEntry(l, entry)
         ELSE IF l.log[entry.index - offset].term # entry.term
              THEN PersistLogEntry(PersistTruncateLog(l, entry.index), entry)
              ELSE l

\* The whole loop of apply_entries.
ReplayEntries(l, offset, entries) ==
    LET after[k \in 0 .. Len(entries)] ==
            IF k = 0 THEN l ELSE ApplyEntry(after[k - 1], offset, entries[k])
    IN  after[Len(entries)]

ApplyEntries(n, entries) ==
    LET l == ReplayEntries([log |-> n.log, stored_log |-> n.stored_log],
                           n.snapshot_last_index, entries)
    IN  [n EXCEPT !.log = l.log, !.stored_log = l.stored_log]

\* persist_log_entry as the leader calls it, on an entry of its own.
AppendOwnEntry(n, command) ==
    LET l == PersistLogEntry([log |-> n.log, stored_log |-> n.stored_log],
                 [term |-> n.current_term, index |-> LastLogIndex(n) + 1,
                  command |-> command])
    IN  [n EXCEPT !.log = l.log, !.stored_log = l.stored_log]

(***************************************************************************)
(* Applying and snapshotting.                                              *)
(***************************************************************************)

\* Mutant: the log is compacted and no snapshot saved.
TakeSnapshotUnsaved(n) ==
    IF \/ n.last_applied <= n.snapshot_last_index
       \/ ~HasLogEntry(n, n.last_applied)
    THEN n
    ELSE [n EXCEPT !.snapshot_last_index = n.last_applied,
                   !.snapshot_last_term = GetLogEntry(n, n.last_applied).term,
                   !.stored_log = CompactLog(@, n.last_applied + 1),
                   !.log = EntriesAt(@, Onward(n.last_applied + 1))]

\* Save, then compact the log on disk and in memory.
TakeSnapshot(n) ==
    IF \/ n.last_applied <= n.snapshot_last_index
       \/ ~HasLogEntry(n, n.last_applied)
    THEN n
    ELSE LET term == GetLogEntry(n, n.last_applied).term
         IN  [n EXCEPT
                !.stored_snapshot = [last_included_index |-> n.last_applied,
                                     last_included_term |-> term,
                                     data |-> n.sm],
                !.snapshot_last_index = n.last_applied,
                !.snapshot_last_term = term,
                !.stored_log = CompactLog(@, n.last_applied + 1),
                !.log = EntriesAt(@, Onward(n.last_applied + 1))]

\* Every entry up to commit_index is applied.  If the log has no entry for one
\* of them the call panics there, with last_applied already past it, and the
\* caller never gets to reply.  applied is the set of indices applied.
ApplyCommittedEntries(n) ==
    LET missing == {k \in (n.last_applied + 1) .. n.commit_index : ~HasLogEntry(n, k)}
        last == IF missing # {} THEN Min(missing) - 1
                ELSE Max({n.last_applied, n.commit_index})
        applied == (n.last_applied + 1) .. last
        output == [k \in 1 .. Cardinality(applied) |->
                      GetLogEntry(n, n.last_applied + k).command]
        m == [n EXCEPT !.last_applied = last, !.sm = @ \o output]
    IN  IF missing # {}
        THEN [core |-> [m EXCEPT !.last_applied = @ + 1],
              applied |-> applied, panicked |-> TRUE]
        ELSE [core |-> IF /\ SnapshotThreshold > 0
                          /\ m.last_applied - m.snapshot_last_index >= SnapshotThreshold
                       THEN TakeSnapshot(m)
                       ELSE m,
              applied |-> applied, panicked |-> FALSE]

(***************************************************************************)
(* RPC handlers.  resp is the reply; a handler that panics sends none.     *)
(***************************************************************************)

\* Mutant: an earlier vote of the same term is forgotten.
HandleRequestVoteAgain(n, req) ==
    LET m == ObserveTerm(n, req.term)
        granted == /\ req.term >= n.current_term
                   /\ IsLogUpToDate(m, req.last_log_term, req.last_log_index)
    IN  [core |-> IF granted THEN SetVotedFor(m, req.candidate_id) ELSE m,
         resp |-> [term |-> m.current_term, vote_granted |-> granted],
         panicked |-> FALSE]

HandleRequestVote(n, req) ==
    LET m == ObserveTerm(n, req.term)
        granted == /\ req.term >= n.current_term
                   /\ m.voted_for \in {Nil, req.candidate_id}
                   /\ IsLogUpToDate(m, req.last_log_term, req.last_log_index)
    IN  [core |-> IF granted THEN SetVotedFor(m, req.candidate_id) ELSE m,
         resp |-> [term |-> m.current_term, vote_granted |-> granted],
         panicked |-> FALSE]

\* leader_commit is capped by the end of the receiver's log.
AdvanceFollowerCommit(n, leader_commit) ==
    IF leader_commit > n.commit_index
    THEN ApplyCommittedEntries(
             [n EXCEPT !.commit_index = Min({leader_commit, LastLogIndex(n)})])
    ELSE [core |-> n, applied |-> {}, panicked |-> FALSE]

\* Mutant: the term of the previous entry is not compared.
AcceptsPrevIndex(n, req) == req.prev_log_index <= LastLogIndex(n)

\* The consistency check on prev_log_index: TRUE, or the hint of a rejection.
AcceptsPrev(n, req) ==
    \/ req.prev_log_index = 0
    \/ /\ req.prev_log_index <= LastLogIndex(n)
       /\ \/ /\ req.prev_log_index = n.snapshot_last_index
             /\ req.prev_log_term = n.snapshot_last_term
          \/ /\ HasLogEntry(n, req.prev_log_index)
             /\ GetLogEntry(n, req.prev_log_index).term = req.prev_log_term

ConflictHint(n, req) ==
    IF req.prev_log_index > LastLogIndex(n)
    THEN [conflict_term |-> Nil, conflict_index |-> LastLogIndex(n) + 1]
    ELSE IF req.prev_log_index = n.snapshot_last_index
    THEN [conflict_term |-> n.snapshot_last_term,
          conflict_index |-> n.snapshot_last_index]
    ELSE IF HasLogEntry(n, req.prev_log_index)
    THEN LET term == GetLogEntry(n, req.prev_log_index).term
         IN  [conflict_term |-> term,
              conflict_index |-> FindFirstIndexForTerm(n, term, req.prev_log_index)]
    ELSE [conflict_term |-> Nil, conflict_index |-> n.snapshot_last_index + 1]

\* Mutant: a leader of an earlier term is obeyed.
HandleAppendEntriesStale(n, req) ==
    LET m == ObserveTerm(n, req.term)
        f == [m EXCEPT !.state = "Follower", !.current_leader = req.leader_id]
        done == AdvanceFollowerCommit(ApplyEntries(f, req.entries), req.leader_commit)
        Reply(success) == [term |-> m.current_term, success |-> success,
                           conflict_term |-> Nil, conflict_index |-> Nil]
    IN  IF AcceptsPrev(f, req)
        THEN [core |-> done.core, resp |-> Reply(TRUE), panicked |-> done.panicked]
        ELSE [core |-> f, resp |-> Reply(FALSE), panicked |-> FALSE]

HandleAppendEntries(n, req) ==
    LET m == ObserveTerm(n, req.term)
        f == [m EXCEPT !.state = "Follower", !.current_leader = req.leader_id]
        hint == ConflictHint(f, req)
        done == AdvanceFollowerCommit(ApplyEntries(f, req.entries), req.leader_commit)
        Reply(success, term, index) ==
            [term |-> m.current_term, success |-> success,
             conflict_term |-> term, conflict_index |-> index]
    IN  IF req.term < m.current_term
        THEN [core |-> m, resp |-> Reply(FALSE, Nil, Nil), panicked |-> FALSE]
        ELSE IF AcceptsPrev(f, req)
        THEN [core |-> done.core, resp |-> Reply(TRUE, Nil, Nil),
              panicked |-> done.panicked]
        ELSE [core |-> f, panicked |-> FALSE,
              resp |-> Reply(FALSE, hint.conflict_term, hint.conflict_index)]

\* Mutant: the entries the snapshot covers stay in the log.
HandleInstallSnapshotUncompacted(n, req) ==
    LET m == ObserveTerm(n, req.term)
        accepted == /\ req.term >= n.current_term
                    /\ req.last_included_index > m.snapshot_last_index
    IN  [resp |-> [term |-> m.current_term, success |-> accepted], panicked |-> FALSE,
         core |-> IF ~accepted THEN m
                  ELSE [m EXCEPT
                      !.stored_snapshot = [last_included_index |-> req.last_included_index,
                                           last_included_term |-> req.last_included_term,
                                           data |-> req.data],
                      !.sm = req.data,
                      !.snapshot_last_index = req.last_included_index,
                      !.snapshot_last_term = req.last_included_term,
                      !.commit_index = Max({@, req.last_included_index}),
                      !.last_applied = Max({@, req.last_included_index})]]

\* The suffix of the log above the snapshot is kept whatever its terms, and a
\* candidate of the leader's own term stays a candidate.
HandleInstallSnapshot(n, req) ==
    LET m == [ObserveTerm(n, req.term) EXCEPT !.current_leader = req.leader_id]
        Reply(success) == [term |-> m.current_term, success |-> success]
    IN  IF req.term < n.current_term
        THEN [core |-> n, panicked |-> FALSE,
              resp |-> [term |-> n.current_term, success |-> FALSE]]
        ELSE IF req.last_included_index <= m.snapshot_last_index
        THEN [core |-> m, resp |-> Reply(FALSE), panicked |-> FALSE]
        ELSE [resp |-> Reply(TRUE), panicked |-> FALSE,
              core |-> [m EXCEPT
                 !.stored_snapshot = [last_included_index |-> req.last_included_index,
                                      last_included_term |-> req.last_included_term,
                                      data |-> req.data],
                 !.sm = req.data,
                 !.snapshot_last_index = req.last_included_index,
                 !.snapshot_last_term = req.last_included_term,
                 !.log = EntriesAt(@, Onward(req.last_included_index + 1)),
                 !.stored_log = CompactLog(@, req.last_included_index + 1),
                 !.commit_index = Max({@, req.last_included_index}),
                 !.last_applied = Max({@, req.last_included_index})]]

(***************************************************************************)
(* What the node does of its own accord, and the results of its calls.     *)
(***************************************************************************)

StartElection(n, i) ==
    [SetVotedFor(SetTerm(n, n.current_term + 1), i)
        EXCEPT !.state = "Candidate", !.current_leader = Nil, !.votes_received = {i}]

\* next_index is set before the no-op is appended, so that it points at it.
BecomeLeader(n, i) ==
    AppendOwnEntry([n EXCEPT
        !.state = "Leader", !.current_leader = i,
        !.next_index = [p \in Peers(i) |-> LastLogIndex(n) + 1],
        !.match_index = [p \in Peers(i) |-> 0]], Noop)

HandleRequestVoteResult(n, i, peer, resp) ==
    LET m == ObserveTerm(n, resp.term)
        counted == [m EXCEPT !.votes_received =
                        IF resp.vote_granted THEN @ \cup {peer} ELSE @]
    IN  IF m.state # "Candidate"
        THEN [core |-> m, elected |-> FALSE]
        ELSE IF Cardinality(counted.votes_received) >= Majority
        THEN [core |-> BecomeLeader(counted, i), elected |-> TRUE]
        ELSE [core |-> counted, elected |-> FALSE]

\* Mutant: no back-off.
NextIndexAfterRejectStays(n, peer, resp) == n.next_index[peer]

\* Where to back off to after a rejection; never forward, never below 1.
NextIndexAfterReject(n, peer, resp) ==
    LET back == Max({n.next_index[peer] - 1, 1})
        last == FindLastIndexForTerm(n, resp.conflict_term)
        hinted == IF resp.conflict_term # Nil
                  THEN IF last # Nil THEN last + 1 ELSE resp.conflict_index
                  ELSE IF resp.conflict_index # Nil THEN resp.conflict_index
                  ELSE back
    IN  Min({Max({hinted, 1}), back})

TrackReplication(n, peer, entry_index, resp) ==
    IF ~resp.success
    THEN [n EXCEPT !.next_index[peer] = NextIndexAfterReject(n, peer, resp)]
    ELSE IF entry_index > 0
    THEN [n EXCEPT !.match_index[peer] = Max({@, entry_index}),
                   !.next_index[peer] = entry_index + 1]
    ELSE n

\* Whether a majority holds entry_index, an entry of the leader's own term.
CanCommit(n, entry_index) ==
    /\ entry_index > n.commit_index
    /\ HasLogEntry(n, entry_index)
    /\ GetLogEntry(n, entry_index).term = n.current_term
    /\ Cardinality({p \in DOMAIN n.match_index : n.match_index[p] >= entry_index}) + 1
           >= Majority

HandleAppendEntriesResult(n, peer, entry_index, resp) ==
    LET m == ObserveTerm(n, resp.term)
        t == TrackReplication(m, peer, entry_index, resp)
    IN  IF m.state # "Leader"
        THEN [core |-> m, applied |-> {}, panicked |-> FALSE]
        ELSE IF CanCommit(t, entry_index)
        THEN ApplyCommittedEntries([t EXCEPT !.commit_index = entry_index])
        ELSE [core |-> t, applied |-> {}, panicked |-> FALSE]
=============================================================================
