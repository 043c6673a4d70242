# A verification of raft_vibe

TLA+ modules that model the Raft implementation of this repository, TLC runs
that check them on small clusters, and TLAPS proofs that hold for clusters of
every size. Source paths are relative to the repository's root, so
`src/core/raft_core.rs` is the crate's file (`src/src/core/raft_core.rs` in
PROJECT.json, where the repository itself is mounted as `src/`).

## The system

### Parts, their state and their operations

| Part | State | Operations that change it |
|---|---|---|
| `RaftCore` (`core/raft_core.rs`, `core/snapshot.rs`): one node, synchronous | term, vote, log, snapshot point, commit_index, last_applied, role, votes, next_index / match_index; the storage and the state machine it owns | handle_request_vote, handle_append_entries, handle_install_snapshot, start_election, become_leader, append_log_entry, handle_request_vote_result, handle_append_entries_result, apply_committed_entries, take_snapshot, new |
| `RaftNode` (`core/raft_node.rs`): the RPC rounds | the mutex around the core | request_votes, replicate_to_peers, send_heartbeat, confirm_leadership; it also changes the core itself (terms and next_index after InstallSnapshot) |
| `RaftServer` (`core/raft_server.rs`, `core/config.rs`): the event loop | the local variables of its `select!` arms | run (election, heartbeat, submit, read, shutdown), handle_submit, handle_read_index |
| Transports (`transport/http.rs`, `transport/inmemory.rs`) | calls in flight | the client side of the three RPCs; server handlers that lock the core and call it |
| `FileStorage` (`storage/file.rs`), `MemoryStorage` (`storage/memory.rs`: tests only) | files `term`, `voted_for`, `log`, `snapshot` with checksums | save_term, save_voted_for, append_log_entries, truncate_log, compact_log, save_snapshot |
| `KeyValueStore` (`state_machine/kv.rs`) | a map | apply, snapshot, restore |
| Client API (`api/client_http.rs`) | none of its own | SET and DELETE through the event loop's channel; GET: ReadIndex, then the store |
| `bin/server.rs` | none | starts a node from its data directory |
| chaos-test: client and runner (`client.rs`, `runner.rs`, `history.rs`) | the operation under way, the history recorded | read and write with retries over the nodes' addresses, add to the history |
| chaos-test: faults (`docker.rs`) | containers, their network, iptables rules | kill, start, isolate, rejoin, partition one way or both ways, heal |
| chaos-test: checker (`checker.rs`) | none | decide whether a history is linearizable |
| Test doubles (`transport/inmemory.rs`, `testing.rs`) | channels between nodes of one process | as the HTTP transport; start, stop and pump a cluster |

### How the parts interact

A node has one event loop. It does one thing at a time: an election, a round of
heartbeats, a client's write or a client's read, each to its end. Beside it the
HTTP server runs RPC handlers, any number at once. Loop and handlers share the
`RaftCore` under a mutex, which the loop releases at every `await` of a reply
and between the parts of an operation (`start_election` and `request_votes`;
`append_log_entry` and `replicate_to_peers`; the three parts of
`handle_read_index`). Nodes talk by calls only. A call may fail on the way out
or on the way back, and a request may arrive when its caller has stopped
waiting: `request_votes`, `replicate_to_peers` and `confirm_leadership` return
as soon as they have a majority and `send_heartbeat` runs under a timeout.

### What is hard

* what the loop read before it released the mutex is stale when used;
* late requests of an earlier term or round reach a node in a later one;
* a crash between any two critical sections, with only the disk left;
* a change of leader at any point of a write or a read;
* positions in a log that has been compacted, and peers behind the snapshot;
* lost replies: the work was done and the caller does not know;
* an event loop that waits for calls sends no heartbeats;
* a process killed in the middle of a storage call, or between two of a handler;
* a client that gives up or asks again while its first request is still queued.

PROJECT.json lists each of these at the line where it bites, with the
properties that catch it going wrong.

### What makes the parts correct

* elections: one leader per term, whatever crashes and delays come between;
* logs: matching prefixes, committed entries agree, no leader takes an entry back
  in its own term;
* clients: an acknowledged write is on a majority of disks and in the log of
  every later leader, and a GET sees every write acknowledged before it;
* state machines: same commands at the same positions, each exactly once;
* snapshots: the log starts right above the snapshot and has no gap;
* storage: what was answered is on disk whenever the process is killed, and a
  restart gives the state the log describes;
* test clients: histories are linearizable, and the checker says so when and
  only when they are;
* progress: a stable leader brings every node up to date, no loop waits forever.

## The modules

**RaftCore** has one operator per method of the Rust type, on a record of the
node's fields; a method that returns a value returns a record whose field
`core` is the new node. The fields `stored_*` are what `FileStorage` holds.
`set_term`, `persist_log_entry` and their like write memory and disk in one
step, because no other code runs in between; a crash in the middle of a write is
the subject of `FileStorage`. The state machine is the sequence `sm` of the
commands applied so far. Two defects of the code stay in the model because they
are what the code does: `PersistTruncateLog` cuts the in-memory log at position
`from_index - 1` also when a snapshot has shifted positions, and
`AdvanceFollowerCommit` caps the commit index at the end of the whole log.
A lookup that would run into the `panic!` of `apply_committed_entries` makes the
operator return `panicked`, with `last_applied` already raised.

**RaftCluster** composes the nodes. An action is one critical section:

| State | Code |
|---|---|
| `core[i]` | the `Arc<Mutex<RaftCore>>` of node i, its disk included |
| `task[i]` | where the event loop stands, with the locals that live across an await |
| `calls` | the futures of `FuturesUnordered`: sent, replied, or failed by a panic of the handler |
| `orphans` | requests on the wire whose caller has gone |
| `votes`, `elected`, `led`, `submitted`, `acked`, `gets`, `reads`, `spent` | history, for the properties, the proofs and the bounds |

| Action | Code |
|---|---|
| `ElectionTimeout`, `RequestVotes`, `VoteResult` | the election arm of `run`, `request_votes` |
| `SendHeartbeat`, `HeartbeatResult`, `SnapshotResult` | `send_heartbeat` with catch-up entries or InstallSnapshot |
| `Submit`, `ReplicateToPeers`, `ReplicateResult`, `PeerPanicked` | `handle_submit`, `replicate_to_peers` |
| `ReadIndex`, `ConfirmLeadership`, `ConfirmRefused`, `ConfirmResult`, `FinishRead`, `RefuseRead`, `KvGet` | `handle_read_index`, `confirm_leadership`, `handle_kv_get` |
| `Deliver`, `DeliverOrphan` | the HTTP handlers of the three RPCs |
| `CallsFail` | transport errors and the heartbeat timeout |
| `Restart` | a crash and `bin/server.rs` on the same data directory |

A loop takes the replies of a round in any order. A call that fails has no
effect on the core, so that failures are taken last, all at once: any
interleaving of failures and replies leaves the core in the same state.

**Ballots** is what elections promise: one vote per node and term, and a winner
has the votes of a majority. `RaftCluster` implements it with `votes` and
`elected` mapped to themselves (`B == INSTANCE Ballots`), and so do the votes of
`FileStorage`, where the process is killed between any two system calls.

**Replication** is what the rest of Raft promises, without loops, calls and
disks: terms, roles, logs and commit indices of the nodes, requests that are
parts of a leader's log, and answers that count. Its steps are one node's each
(`Stand`, `Observe`, `GiveVote`, `Win`, `Extend`, `Send`, `Accept`, `Advance`,
`Restart`). The variable `led` records for each term who won it, with which voters and the
leader's log then and since; `RaftCluster` keeps it as history (`Follow`), so that the
mapping (`R == INSTANCE Replication`, in RefinementProofs) is made of state
functions. What nodes count as committed, what later leaders have and what
logs agree on are theorems about this module alone.

**FileStorage** looks at one node's disk. The node handles the requests of two
leaders and of candidates with RaftCore's operators; a handler's storage calls,
each split into its system calls, are then made one at a time.

| State | Code |
|---|---|
| `disk` | the files: absent, empty, torn or whole; the log's lines: without checksum, without line feed, complete, or two entries glued together |
| `core`, `pending`, `reply` | the node after the handler, the system calls it has still to make, what it answers when they are made |
| `votes`, `acked`, `hit`, `crashes` | history: what was answered, and the misleading crash points that were hit |
| `memory`, `shifted` | a `MemoryStorage` given the same calls |

| Action | Code |
|---|---|
| `RequestVote`, `AppendEntries`, `InstallSnapshot`, `ElectionTimeout` | the handlers and `start_election`, with the storage calls they make in their order |
| `SystemCall` | `File::create`, the parts of `write_all` and `writeln!`, the rename of `atomic_write` |
| `SendReply` | the handler returns and the HTTP answer leaves |
| `Crash`, `Restart` | the process is killed; `RaftCore::new` on the files, which fails on a bad checksum |

A killed process loses none of the writes it has made, so `sync_all` has no
effect here (it matters when the machine loses power). The leaders' logs are
constants: what they send is what a leader with that log may send, and
RaftCluster checks that such leaders are all there is. The rounds of
`confirm_leadership`, which send no entries, are left to RaftCluster. A node that has glued
two log lines together is not followed further (its next start fails).

**MemoryStorage** is the storage of the tests; it cuts its log by position where
`FileStorage` looks at the entries' indices. `MemoryStorageAgrees` says that the two hold the same
while the log starts at index 1, the only case in which the tests that run on it
say something about servers.

**KvStore** has the state machine and the commands `client_http.rs` writes for
it. A text is the sequence of its words, so that joining with spaces and
`splitn(3, ' ')` are what they are in the code; `Apply`, `Validate`, `Snapshot`
and `Restore` follow. The answers' status codes are here too.

**Checker** is the search of `checker.rs` with its cut-offs, its fast checks and
its optional writes, one level of its recursion after the other (`CallsUpTo`: whether a
call succeeds does not depend on the order in which candidates are tried), next to the definition of linearizability by orders of all
operations (`IsLinearizable`).

**DockerCluster** is the fault injector: what each of its calls does to the
containers that run, the network they are on and the rules in them.

**Chaos** composes KvStore, Checker and DockerCluster into a chaos test.

| State | Code |
|---|---|
| `client[c]` | the loop of `do_read` / `do_write`: target, retries, invocation time |
| `queue[n]` | the bounded command channel of server n |
| `busy[n]` | the command its event loop works on, and how far it is: appended, replicating, confirming a read with the peers that have answered |
| `gets` | GETs whose read index is confirmed and that have still to read the store |
| `term[n]`, `state[n]` | as in RaftCore; a leader that was deposed is one until it hears of it |
| `settled`, `known[n]` | leaders with a committed entry of their term, and their `commit_index` |
| `log`, `last_term`, `appended` | the committed entries of clients, the term of the last one, and the entries that servers have appended and not committed |
| `running`, `attached`, `rules` | DockerCluster |
| `history`, `clock` | the recorded operations and their timestamps |

| Action | Code |
|---|---|
| `Invoke`, `Reach`, `Refused`, `Broken`, `TimeOut` | the clients: the next operation, a request that arrives, a connection that is refused or breaks, the request's timeout (also while it waits for room in the channel) |
| `Refuse`, `TakeSubmit`, `Replicate`, `FinishSubmit` | `handle_submit`; the role is looked at once, in `TakeSubmit` |
| `TakeRead`, `ConfirmedBy`, `FinishReadIndex`, `RefuseRead`, `KvGet` | `handle_read_index` with the leader's own `commit_index`, `confirm_leadership` peer by peer, `handle_kv_get` |
| `Commit` | a majority that follows a leader has its next entry: the no-op, an older entry, or one of its own |
| `Stand`, `Elect`, `Hear` | `start_election`, a majority votes, a server hears of a later term |
| `Kill`, `NetworkFault` | DockerCluster |

The cluster underneath is less than a second Raft. It has the terms, who leads and who has
heard of it, what each leader counts as committed and the confirmation of each read, because
the freshness of reads depends on them. It takes from RaftCluster that logs agree: what one leader
commits, every later leader has and no server replaces (`CommittedEntriesAgree` and
`LeaderCompleteness`, proved there outside of the windows), so that one sequence `log` stands for the
committed part of all logs. Four things are simpler than in RaftCluster: a
call and its answer are one step; the votes of an election and the acknowledgements of an entry
are counted in one step; a voter has not seen the term before; and which
entries of its predecessors a new leader has in its log is left open: any of those that may follow
what is committed, in the order of their terms.

**CoreTests**, **CheckerTests** and **MemoryTests** hold the unit tests of
`raft_core.rs`, of `checker.rs` and `kv.rs`, and of `memory.rs`: each Rust test is
a definition of the same name that makes the same calls on the model's operators
and states the same assertions, collected in `ASSUME`s that TLC evaluates before
the `storage` and `chaos` runs. They tie the operators to what the repository
itself expects of the code, on inputs larger than the runs' (five nodes, logs of
tens of entries). In CheckerTests every history is also held
against `IsLinearizable`. Two tests have no translation:
`test_non_leader_cannot_append_entries` (the check is a guard of `Submit` in
RaftCluster) and `test_restore_invalid_data` (damaged bytes have no model).

**MCRaft** holds the instances for TLC. Most runs start when
`First` has just won term 1 with the vote of `Voter` (`FirstElected`, computed with the
code's own operators); `clients` starts two rounds of heartbeats later, when its
no-op is applied everywhere (`FirstSettled`), and `late_requests` when `Voter` has just
won term 2 with the vote of `Third` while `First` still believes that it leads (`TwoElected`).
Each leader then has a no-op of its own at index 1. The runs before cover the way there.
**MCFileStorage** and **MCChaos** are the instances of FileStorage and Chaos.

The proofs have modules of their own:

| Module | About |
|---|---|
| **Lemmas** | numbers, finite sets and sequences |
| **RaftCoreProofs** | RaftCore's operators: what each does to a well-formed node |
| **RaftClusterProofs** | elections, abstractly and in the cluster, and the shape of logs, requests and replies |
| **FileStorageProofs** | votes and the log file on disk, one system call at a time |
| **ReplicationProofs** | the abstract replication |
| **RefinementProofs** | the cluster implements it, and what follows for logs, state machines, writes and reads |
| **CheckerProofs** | the checker decides linearizability |
| **ChaosProofs** | what test clients see, and what the checker says of it |

### Windows the code leaves open

Some behaviours of the code break its promises. Each is named by a formula of
`RaftCluster` that a passing run conjoins to the next-state relation, so that the
rest of the behaviours can be checked, and shown by a run that expects a violation.

| Formula | Excludes | Shown by | Conjoined in |
|---|---|---|---|
| `TermPersisted` | a crash while a term is held in memory only | `unpersisted_term` | `clients`, `elections`, the theorems about the cluster |
| `SubmitsAsLeader` | a deposition between `append_log_entry` and `replicate_to_peers` | `deposed_leader_replicates` | `clients`, the theorems about `GuardedSpec` |
| `ReadsSettled` | a read served before an entry of the leader's term commits, or while a peer's `next_index` is not above the commit index | `stale_read`, and "empty heartbeats" below | `clients`, the theorems about `GuardedSpec` |
| `SnapshotLogsGrow` | a truncation in a log that has a snapshot | `truncation_offset` | `elections` |

`GuardedNext` conjoins the first three; it is the next-state relation of `clients`, from the
initial state of that run, and of the theorems, from the code's own.

Chaos rests on RaftCluster outside of these windows, and has two of them again where its own steps
go through them. Its `SubmitsAsLeader` excludes that a leader is deposed between
`append_log_entry` and `replicate_to_peers`, where RaftCluster's contract ends. Its `ReadsSettled`
excludes that a leader confirms a read before it has committed an entry of its term.
Its `GuardedNext` conjoins both; it is the next-state relation of `chaos`
and the theorems of ChaosProofs (which need `ReadsSettled` only). Without `ReadsSettled`
`HistoryIsLinearizable` is violated in the way that `stale_read` shows: put `SPECIFICATION Spec` in
`chaos.cfg` to see it. A term that is held in memory only is not in Chaos: a killed server comes
back with its term.

In `FileStorage` the misleading crash points are recorded in `hit` and the
properties say which of them they exclude: `"empty"` (a file that `File::create`
has emptied reads as no value), `"uncompacted"` (between `save_snapshot` and
`compact_log`; `uncompacted_snapshot`) and `"unterminated"` (a log line without its line feed, to which the next
append is glued).

## The runs

Three nodes everywhere: two make a majority, one can be cut off, behind or
down, and any two majorities share exactly one node. Every node is the same
code; `Electable` names those whose timer runs out, so that a run spends its
states on the changes of leadership it is about. Two terms are a leader and its
successor, and votes given in the second term by a node of the first; `late_requests` has
a third term, so that a request of term 1 may arrive two terms later.

| Run | What it explores | What it shows |
|---|---|---|
| `elections` | two candidacies of two nodes in one term or two, compaction after every entry, InstallSnapshot, one crash at any point and a restart from a snapshot, from the initial state | `ElectionSafety`, `ImplementsBallots`, `VoteInv` (votes survive crashes, a candidate counts only votes of its term, grants in flight are votes), `LogContiguous`, `NoPanic`, `NothingTakenBack` |
| `late_requests` | two leaders with diverging logs, an orphaned request of either that may arrive at any later time, and an election in term 3 | `VoteOnce`, `LogMatching`, `CommittedEntriesAgree`, `LeaderAppendOnly` |
| `clients` | a write and a GET, and an election that may depose the leader at any point of them | `ReadsSeeAckedWrites`, `StateMachineSafety`, `AckedIsDurable`, `LeaderCompleteness` |
| `catch_up` | a change of leader and any number of lost calls, under fairness | `EveryoneCatchesUp` |
| `answers` | two writes and a read with compaction after every entry and any number of lost calls, under fairness; handlers of peers behind the snapshot panic | `LoopsReturn`, `AckedIsDurable` |
| `storage` | a node under two leaders, the second of which overwrites an entry of the first, with snapshots of two entries taken or installed, killed twice between any two system calls | `DiskFollowsMemory` (the storage calls add up to what memory holds), `MemoryStorageAgrees`, `VotesSurvive`, `AckedSurvive`, `AppliesTheLogAfterCrashes`, `DiskImplementsBallots`; the tests of CoreTests and CheckerTests |
| `chaos` | a client that writes and one that reads, writes and reads again, two tries each, a channel of one command, and two of these: faults aimed at the first leader, elections, answers that come late | `HistoryIsLinearizable`, `CheckerIsExact`, `SetsItsKey`; the tests of MemoryTests |
| `unpersisted_term` | a read of a deposed leader, then its crash | violates `ElectionSafety` |
| `deposed_leader_replicates` | a write whose leader is deposed at once | violates `AckedIsDurable` |
| `stale_read` | a GET at a new leader | violates `ReadsSeeAckedWrites` |
| `truncation_offset` | conflicting entries above a snapshot | violates `LogContiguous` |
| `uncompacted_snapshot` | a kill between `save_snapshot` and `compact_log` | violates `AppliesTheLog` |

The bounds: `MaxTerm` stops elections, `MaxReads` reads, `MaxRestarts` and
`MaxCrashes` crashes, `MaxOrphans` late requests; calls may fail without bound, and
`Command` holds each command a client may send, once. `elections` is cut short by
`ShortRun`: two candidacies, which are two rivals in a term or a leader and its
successor, and after a crash nothing beyond the commitment of a second entry. A new leader appends a
no-op, so that logs diverge and conflict without any client. In `storage` a crash
that hits a misleading point is the last one, and two crashes let a node lose
its memory, go on and lose it again. In `chaos`, `MaxFaults` bounds the faults together
with the candidacies and with the answers that come late although the network would have let them
pass, `Faulty` names the node they are aimed at (the first leader: the one whose loss
matters), `MaxTerm` the terms: two of these events are a leader cut off and its successor, or a late
answer and a change of leader; four operations are enough for a
write that takes effect after a read has missed it and after another has
replaced it, and for a deposed leader that is asked for what its successor has replaced. Deadlock is not
checked where the bound on terms may leave three followers that wait for an
election (in the code another election would start), nor in `storage`, where a
node whose files fail their checksum does not start again.

### What the violations say

* **unpersisted_term**: `confirm_leadership` and the InstallSnapshot branch of
  `send_heartbeat` set `current_term` and `voted_for` without the storage. A
  node that then votes in that term stores the vote beside the *old* term; after a
  crash it comes back in the old term, meets the term again as a new one and
  votes a second time.
* **deposed_leader_replicates**: `replicate_to_peers` locks the core again and
  does not look at the role. A node deposed in between sends its log under the
  new leader's term, and followers obey it.
* **stale_read**: `handle_read_index` takes `commit_index` before an entry of
  the leader's own term is committed, though the no-op that would settle it is
  in the log.
* **truncation_offset**: `persist_truncate_log` forgets the snapshot's offset;
  the disk, which looks at indices, is right.
* **uncompacted_snapshot**: a process killed after `save_snapshot` and before
  `compact_log` leaves a log that starts below the snapshot. `new` loads both
  as they are, takes the position in that log for the offset from the snapshot,
  and applies a command a second time in the place of a new one.

Further defects that the modules have, because the code has them. Each is seen when a run is changed as said:

* empty heartbeats: `min(leader_commit, last_log_index())` commits a follower's
  own tail when the AppendEntries has no entries, as those of `confirm_leadership`
  have none, where the comment in the code says "index of last new entry". With `MaxReads = 1`
  `late_requests` violates `CommittedEntriesAgree`; the run is without reads for that reason.
* skipped entries: `replicate_to_peers` has no InstallSnapshot branch and sends a
  peer behind the snapshot the entries above it, with `prev_log_term` 0. At `next_index` 1 the
  peer accepts them as the beginning of its log and applies the second
  command as its first: with the invariant `StateMachineSafety` the run `answers` fails after eight
  steps. With a greater commit index the peer's handler panics (`PeerPanicked`). As it stands,
  `answers` shows that the leader's loop returns all the same and that acknowledged
  writes are on a majority of disks.
* repeated snapshots: when the answer to an InstallSnapshot was lost, the follower refuses
  the same snapshot as too old, a refusal does not move `next_index`, and it is sent for ever.
  With `SnapshotThreshold = 2`, `Command = {c1, c2}` and `Electable = {}` the run
  `catch_up` violates `EveryoneCatchesUp`; the run is without compaction for that reason.
* emptied files: a file that `File::create` has emptied reads as no value instead of an
  error, so that a restart there forgets a term or a vote: `storage` violates `VotesBind`,
  which is `VotesSurvive` without the exception.
* positions in MemoryStorage: after a compaction the next one drops entries above the snapshot.
  With `SnapshotThreshold = 1` `storage` violates `StoragesAgree`, which is
  `MemoryStorageAgrees` without the exception.
* retried writes: a write that was answered 503 (`NotCommitted`) may be committed later, by the
  entries of another write. The client has tried again in the meantime, the second copy is committed
  after another client's write, and a read shows the replaced value again. With the
  invariant `TestPasses`, which is what the chaos tests assert, `chaos` fails, also without any fault of a
  container (`Faulty = {}`). `HistoryIsLinearizable` excludes such histories by
  `WrittenOnce`, `CheckerIsExact` does not: the checker reports them.
* a key with a space (`<<"x", "y">>`) violates `SetsItsKey`: the store sets the key
  up to the space, and the rest becomes part of the value. The keys of the chaos tests have
  none, which `WorkloadAssumption` says; take it away to see the violation.
* `partition_one_way` cuts the link in both directions (`IptablesRule`).

### Fairness

The liveness runs assume weak fairness of each node's loop (`LoopStep`) and of
the calls it waits for (`CallStep`, with its enabling condition written out): tokio keeps
scheduling the task, the heartbeat interval keeps ticking, and a call is
answered unless it fails. From some time on no call fails (`NetworkHeals`).
Elections and clients are not fair, and `EveryoneCatchesUp` is conditional on a leader that stays.
No fairness is assumed of deliveries whose caller has gone.

## The proofs

All are checked by TLAPS, for every finite `Server` (in Chaos, for any servers and
clients) and all values of the bounds. The
assumptions on constants are that `Server` is finite, that `Nil` is no server and
`Noop` no client command, that bounds are natural numbers (`BoundsAssumption`), and for
Replication by itself that entries have terms (`EntriesHaveTerms`, which the
refinement shows of the cluster's entries). FileStorage assumes of the other nodes what the
cluster is proved to provide: the leaders' logs are contiguous, of terms up to their own, match
(`LogsAreMatched`), and have what was committed before (`LeadersAreComplete`), in
`LeadersAssumption` and `LeadersAgreeAssumption`. Chaos assumes that clients know some server's
address, that a workload is made of reads and writes, that its key is one word and that the
value of a missing key is none of those written (`WorkloadAssumption`): what `runner.rs`
generates and `Option` guarantees. Of the Raft cluster RaftCluster and its proofs are about
these specifications:

| Specification | Behaviours |
|---|---|
| `Spec` | all that the code does |
| `PersistedSpec` | those in which no node crashes with a term it holds in memory only |
| `GuardedSpec` | those of `PersistedSpec` in which nothing goes through `SubmitsAsLeader` and `ReadsSettled` either |

Each condition is one that a run shows to be needed: without `TermPersisted`
two leaders share a term, without the other two acknowledged writes are lost
and reads are stale. The theorems about logs have the hypothesis
`SnapshotThreshold = 0`, the value with which `apply_committed_entries` takes no
snapshots (a node that is sent one still could install it; that nobody sends one is part of
what is proved). With snapshots they are false: `truncation_offset` and
`uncompacted_snapshot` show how logs lose their order.

### Elections

* `BallotsSafe`: `BallotsSpec => [](OneVoteEach /\ OneWinner)`. The inductive invariant says
  that a vote is given once per node and term and that every winner has a
  majority of votes; votes are never withdrawn, so winners keep theirs
  (`VotersGrow`), and two majorities of one finite set meet (`MajoritiesMeet`).
* `VotesAreKept`: `PersistedSpec => []VoteInv`. `ElectionSafety` is not
  inductive: the proof has to know that the voter remembers a vote of its current
  term (`VotesRemembered`), also on disk if the term is there (`VoteStored`), that
  a candidate's `votes_received` are votes given (`CountedVotesGiven`) and that the grants still in flight were given for the
  term the candidate is in (`GrantsInFlight`). The last needs to know where
  the loop is: a loop that does not wait has no calls, and a candidate that waits for votes has not
  changed its term since it asked.
* `ElectionsAreBallots`: `PersistedSpec => ImplementsBallots`. Each step gives one
  vote, wins one election or stutters.
* `ElectionsAreSafe` and `VotesAreSingle`: `ElectionSafety` and `VoteOnce`, from
  the refinement and `BallotsSafe`.

The argument has three layers. Lemmas about `RaftCore`'s operators say what each does to the
fields elections use: `SameVote` (nothing), `Quiet` (at most step down or move
to a higher term), or give a vote (`HandleRequestVoteGives`). The invariant
splits into a part about nodes and votes (`CoresOK`) and a part about loops and
calls (`LoopsOK`), each preserved by the kind of step that leaves it alone
(`QuietStep`, `TakeStep`, `SendStep`, `DropAllStep`). Then one lemma per action,
each with the invariant and the ballot step as its conclusion, and `StepOK`
combines them.

### Logs

`LogsHold` (`Spec => []LogInv`, no window excluded) gives `LogsContiguous` and
`NothingPanics`. `LogContiguous` and `NoPanic` speak of a node; the invariant needs to
know in addition that what is on disk is what is in memory (a restart brings
back such a log), that `commit_index` never exceeds the log, that the state machine has
exactly `last_applied` commands, and that every request in flight, also one
whose caller has gone, has consecutive entries that start after
`prev_log_index`: `handle_append_entries` relies on its sender there. `RaftCoreProofs` has
one lemma per operator of RaftCore.

### Replication

`ReplicationHolds`, `ReplicationSafe` and `CommittedStays` are about the abstract
module. That later leaders have what is committed is the well-known difficult part of
Raft, and three things make it inductive here:

* *Vouched* logs: an entry of term t, at whatever node or in whatever request, came from the leader
  of t with all that was before it in `led[t].log`. Log matching follows at
  once.
* *Held* entries: node r has once had entry k in its term t. It need not have it now, nor
  need those it voted for: a later leader may have been elected that lacks the entry
  (`Skipped`). To say so in the invariant, rather than that it does not happen,
  keeps `Held` a fact about one node; that nobody skips an entry a *majority* has
  held then follows by induction on the term (`ChosenIsLed`), for which the
  least term of a counterexample is taken.
* *Settled* commit indices: what a node or a request counts as committed is a
  beginning of the log of a leader that had a chosen entry at that index or
  after it, since leaders commit older entries only with one of their own term.

Answers are true in the term in which they were given (`OksHeld`), and so is what a
leader has in `match_index` (`MatchHeld`).

`ClusterReplicates` (`GuardedSpec => R!ReplicationSpec`) is the refinement. A
request in flight is mapped to itself when its sender led its term; a successful reply, with the `mark`
that its caller kept for it, is mapped to an answer. The inductive invariant `ClusterInv`
joins the election invariant, `LogInv` and the abstract invariant of the mapped state, and adds
what ties them: terms that have been won (`ElectionsKnown`), candidates' requests in flight that still describe the candidate's log
(`BallotRequestsOK`: a vote is given to a log that may have been replaced since), marks of calls
that lie within the request (`MarksOK`), and leaders whose `next_index` lies above
`match_index` (`LeadersOK`). The windows enter here: an empty heartbeat
commits what was never compared unless the peers' `next_index` is above the
commit index, and a deposed leader's entries have no leader to vouch for them.

### What follows

The second half of `RefinementProofs` carries the abstract results over and adds what
Replication does not have:

| Theorem | Property | With |
|---|---|---|
| `LogsAreMatched`, `CommitsHold` | `LogMatching`, `CommittedEntriesAgree` | `ClusterInv` |
| `LogsAreApplied`, `StateMachinesAreSafe` | `StateMachineSafety` | `Applied`: the state machine is the committed beginning of the log |
| `NodesGoOn` | `NothingTakenBack` | `Applied` and the form of each step |
| `LeadersOnlyAppend` | `LeaderAppendOnly` | `ClusterInv`, one leader in a term |
| `WritesAreDurable`, `LeadersAreComplete` | `AckedIsDurable`, `LeaderCompleteness` | `SubmitsOK`, `SubmitMarksOK`, `AcksOK` |
| `ReadsAreFresh` | `ReadsSeeAckedWrites` | `CallsApart`, `ReadsOK`, `GetsOK` |

`AcksOK` says that an acknowledged command is below a chosen entry of a leader of that
time or before, at an index that the leader counts as committed; it needs to know that
the index the loop replicates is its client's (`SubmitsOK`) and that the replies it counts are
for that index (`SubmitMarksOK`). `ReadsOK` says that a read in progress has been
promised all that was acknowledged when it began, or else that a majority has
moved to a later term, and that none of it has confirmed the leader to this
read: then the confirmations do not reach a majority, however the
calls in flight end. `CallsApart` (one call per peer) is what makes counting replies counting nodes.

### Storage

`AnsweredVotesSurvive` (`Spec => []VotesSurvive`) and `DiskIsBallots`
(`Spec => DiskImplementsBallots`) are about FileStorage, for any leaders' logs, any
threshold and any number of crashes. The property is about what a start would load;
the invariant (`StorageInv`) has to say what is still to be written: the writes a
handler has left are first those of the term, then those of the vote, then those of other
files (`VotesFirst`), the last write of each file is what the node has in memory, and if the term
or another vote is among them, no vote has been answered in the term of the
node (`Settles`). `Turn` says that of the writes of each handler as a whole; `EntriesWritesAside`, that
the writes of any number of entries leave the term and the vote alone, needs
the existence of the function that collects them. A crash leaves the files as they are,
and a start that does not fail takes its term and vote from them.

`JournalHolds` is the same for the log file, with `SnapshotThreshold = 0`. Its property is what a
whole handler does to the file; the invariant says that from the disk as it is, the writes that
are left lead to a file that shows the log in memory (`Ends`), and that every disk on the way is
`Sound` (`Path`): it shows entries of leaders, each with all that was before it
(`FromLeaders`), it has every acknowledged entry that later leaders have too
(`KeepsAcked`), and only its last line may be incomplete. A line that a crash left without its
line feed is glued to the next one; from then on the file does not change and does not load
(`GluedStays`), which is why `Sound` and `Ends` have that case.
That no cut takes away an acknowledged entry is the heart of it: what a leader's AppendEntries
cuts is in conflict with that leader's log, and an entry that all later leaders have is in
it (`CutKeeps`). `DiskFollows`, `AcksSurvive` and `RestartsApplyTheLog` follow. `Path` also says of each
call what a MemoryStorage has after it, until the first crash (`Calls`, `Mirrors`): `MemoryAgrees`. With
snapshots these four are checked only: the file then begins at an index that
`truncation_offset` and `uncompacted_snapshot` show to be lost in places.

### The checker

`CheckDecides`: a finite history of operations that take time, each with its own id, in which
no value written is that of a missing key, passes `Check` if and only if it
`IsLinearizable`. That is what a chaos test records, and nothing else is assumed of it, so the
verdict does not depend on what the servers did.

* `CallAfter` says what a call of `search` is given: some order of operations has been
  placed, each invoked before those after it complete, its reads fit, the register shows its last write,
  and the frontier is the latest invocation in it. Every call has such an order
  (`CallsHaveOrders`), so an accepted history is explained.
* Conversely the calls follow any order that explains the operations (`CallsFollow`): the next of it is
  a candidate. Its invocation is not after the earliest completion of a required
  operation, since that one comes later in the order; and it completes after the
  frontier, an invocation that came before it.
* `ExtendedStand`: an extended write of unknown outcome completes when or after all
  others, which asks as little of its place as the definition does (`OrdersMatch`).
* The fast checks refuse nothing that an order explains (`FastChecksPass`).

The calls are built by a recursive function; that it exists, by induction on the depth, is
`CallsBuilt`.

### Chaos tests

The theorems are about the `GuardedSpec` of Chaos. `KeptInv` is the inductive invariant. It relates
the clients' books to the log, for which it needs
to remember more than the state has; so it says that *some* history exists (`Kept`): how much was
committed at each tick of the clock (`times`), of what kind each operation is and when it began (`kinds`,
`starts`). Each step extends these witnesses. They tie the parts together:

| Part | Says |
|---|---|
| `ClientsOK`, `RecordsOK` | every operation that has begun is recorded once or is its client's current one, and no two complete at one time |
| `LogOK` | an entry is a write that began when less than its place was committed |
| `WorkOK` | a write a server works on knows its entry once that is committed |
| `AppendedOK`, `QueuesOK` | an entry in some log and a command in a channel are those of an operation that began, also when its client has gone on |
| `Explained` | a write answered Ok was committed when it completed; a read shows a state of the store between its ends |
| `ReadsOK` | the index of every read that can still be answered is no older than the read |

The last part is where leaders come in. A read in a server's loop *can still be answered* (`Confirming`)
when the server believes that it leads and is not `Superseded`: no majority has moved to later terms
before it confirmed the read. `ClusterInv` ties terms to commits: every
leader has a majority of servers that follow it in its term or have gone on to later ones (`LeadersBacked`), no term has two
leaders (`OneLeader`), and a leader that has settled counts all that is committed as committed
unless it is superseded (`SettledKnow`). So a read that begins at a settled leader gets an index that covers
the log (`TakeReadStep`), or its leader is superseded, stays so because terms never fall
(`SupersededStays`), and never collects a majority of confirmations, whatever is killed, cut
off, elected or heard of in between. `ClusterMoves` is the step of every action that changes
terms and roles; `ClusterElect` and `ClusterCommit` are the two that need majorities to meet.

For `HistoriesAreLinearizable` (`GuardedSpec => []HistoryIsLinearizable`) a write is placed where its entry is in the
log and a read at the entry it saw last; with each write committed once these places
order the operations (`PlacesExplain`), ties broken by writes first and then by
completion. Writes of unknown outcome take part if they are committed. `SetsTheKey` (`GuardedSpec => []SetsItsKey`)
is about the commands: what `SetCommand` joins and the state machine splits, and that `StoreAt`, which applies
the log entry by entry, shows the last write. `CheckerDecides` (`GuardedSpec => []CheckerIsExact`)
is `CheckDecides` for the recorded histories.

### Only model-checked

* Liveness (`EveryoneCatchesUp`, `LoopsReturn`): proofs under fairness are out of
  the prover's reach.
* Logs with snapshots: `LogContiguous`, `NoPanic` and `NothingTakenBack` in
  `elections`, `AckedIsDurable` in `answers`. The theorems are about clusters without.
* `DiskFollowsMemory`, `MemoryStorageAgrees`, `AckedSurvive` and `AppliesTheLogAfterCrashes` of
  `FileStorage` with snapshots.
* What the unit tests say of the operators on their inputs. Where a proof needs a recursive
  computation (`EntriesAt`, `ApplyEntries`, `StoreAt`, `CallsUpTo`) its facts are
  shown by induction over a set of numbers (`NumbersInduction`) or by a least
  counterexample, since the induction theorems of the library take an operator and are out of the
  provers' reach.
* That the cluster of Chaos is the one of RaftCluster: that later leaders have what was committed is
  built into `log`, `Commit` and `Elect`. RefinementProofs has theorems about that, but no refinement connects
  the two modules. In particular no property of Chaos is about the loss of an
  acknowledged write; `AckedIsDurable` and `LeaderCompleteness` of RaftCluster are.

## Not modelled

* the shutdown arm, time itself: a timeout may
  fire whenever its arm may run, so the model has every timing of the code;
* I/O errors (`expect` ends the process, which is `Crash`) and the loss of
  writes when the machine loses power;
* the texts of errors, and the tests of `file.rs` that damage files by hand: what they
  expect is `Readable` and `LogLoads`;
* `/client/status` and `/client/leader`, which change nothing, and the leader hint
  in an answer, which the test clients do not follow;
* `inmemory.rs` and `testing.rs`: the in-memory transport's outcomes are special
  cases of RaftCluster's calls (a request in its channel is a call in flight,
  `drain_pending` a lost call, a request left behind by a timeout an orphan);
* delays and loss by `netem`, `wipe_node_storage` (a node that forgets its votes is
  outside of what Raft tolerates), waiting for health, and reporting in chaos-test;
* log lines and argument parsing.

## Plan

Done: RaftCore, RaftCluster, Ballots, Replication, FileStorage, MemoryStorage, KvStore,
Checker, DockerCluster, Chaos, the unit tests as assumptions, the runs above; elections,
votes on disk, the checker, the chaos tests, and without snapshots logs, replication, writes,
reads and log files, proved.

Next, in this order:

1. **Snapshots in depth**: a threshold of 3 and nodes that compact at different
   points, where InstallSnapshot can restore a state machine to an index below
   `last_applied`; the log's shape under `SnapshotLogsGrow`.
2. **One system**: RaftCluster with the clients of Chaos on top, so that the contract of the
   cluster in Chaos becomes a refinement.
