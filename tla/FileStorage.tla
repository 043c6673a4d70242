----------------------------- MODULE FileStorage -----------------------------
(***************************************************************************)
(* FileStorage (src/storage/file.rs) under RaftCore, one system call at a  *)
(* time: node Self handles requests of the other nodes, each handler makes *)
(* its storage calls, each call its writes, and the process may be killed  *)
(* between any two of them and started again on the files it left.         *)
(*                                                                         *)
(* RaftCore's fields stored_* are what the disk holds at the end of a      *)
(* handler; here disk is what it holds now, and pending the writes still   *)
(* to come.  The reply leaves, and the handler's lock is released, when    *)
(* pending is empty.                                                       *)
(*                                                                         *)
(* A killed process loses no write it has made (the operating system has   *)
(* it), so that sync_all does not show here.  The crash points where the   *)
(* files mislead the next start are kept in hit:                           *)
(*   "empty"         a file was truncated by File::create and not written; *)
(*   "uncompacted"   a snapshot was saved and the log not yet compacted;   *)
(*   "unterminated"  a log line was written up to its line feed.           *)
(***************************************************************************)
EXTENDS RaftCore, MemoryStorage

CONSTANTS
    Self,           \* the node whose disk this is
    Leader,         \* Leader[t]: the peer that leads term t
    LeaderLog,      \* LeaderLog[t]: its log at the end of the term
    LeaderCommit,   \* LeaderCommit[t]: how much of it commits while t lasts
    MaxTerm,        \* bound on the terms of candidates
    MaxCrashes      \* bound on the crashes, of which only the last may mislead

ASSUME SelfAssumption == Self \in Server
ASSUME LeadersAssumption ==
    /\ DOMAIN LeaderLog = DOMAIN LeaderCommit /\ DOMAIN LeaderLog = DOMAIN Leader
    /\ DOMAIN LeaderLog \subseteq Nat
    /\ \A t \in DOMAIN LeaderLog :
          /\ Leader[t] \in Peers(Self) /\ LeaderLog[t] \in Seq(LogEntry)
          /\ LeaderCommit[t] \in 0 .. Len(LeaderLog[t])
          /\ \A k \in DOMAIN LeaderLog[t] :
                LeaderLog[t][k].index = k /\ LeaderLog[t][k].term \in 1 .. t
          /\ \E k \in DOMAIN LeaderLog[t] : LeaderLog[t][k].term = t

\* What RaftCluster guarantees of leaders' logs: they match, and a leader has what
\* was committed before it.
ASSUME LeadersAgreeAssumption ==
    /\ DOMAIN LeaderLog # {}
    /\ \A t, u \in DOMAIN LeaderLog : \A k \in DOMAIN LeaderLog[t] \cap DOMAIN LeaderLog[u] :
          LeaderLog[t][k].term = LeaderLog[u][k].term =>
              \A j \in 1 .. k : LeaderLog[t][j] = LeaderLog[u][j]
    /\ \A t, u \in DOMAIN LeaderLog : t <= u =>
          \A k \in 1 .. LeaderCommit[t] :
              k \in DOMAIN LeaderLog[u] /\ LeaderLog[u][k] = LeaderLog[t][k]

VARIABLES
    up,         \* the process runs
    core,       \* its RaftCore
    disk,       \* the files term, voted_for, snapshot and log
    pending,    \* the writes the handler has still to make
    reply,      \* what it will answer then
    votes,      \* the votes that have been answered
    acked,      \* the entries that have been acknowledged, and to which leader
    hit,        \* the crash points that have been hit
    crashes,
    memory,     \* a MemoryStorage given the same calls until the first crash
    shifted     \* it was told to cut a log that does not start at index 1

vars == <<up, core, disk, pending, reply, votes, acked, hit, crashes, memory, shifted>>

(***************************************************************************)
(* Files.  term, voted_for and snapshot hold one checksummed line; the log *)
(* holds one per entry.                                                    *)
(***************************************************************************)

Absent == [is |-> "absent", data |-> Nil]
Emptied == [is |-> "empty", data |-> Nil]
Torn == [is |-> "torn", data |-> Nil]
Whole(data) == [is |-> "whole", data |-> data]

\* A line of the log: "torn" without its checksum, "whole" without its line
\* feed, a "line", or two entries "glued" in one line.
Line(entry, is) == [entry |-> entry, is |-> is]

\* read_with_checksum: what is not Readable is a Corruption error.
Readable(file) == file.is # "torn"
ReadWithChecksum(file, default) == IF file.is = "whole" THEN file.data ELSE default

LoadTerm(d) == ReadWithChecksum(d.term, 0)
LoadVotedFor(d) == ReadWithChecksum(d.voted_for, Nil)
LoadSnapshot(d) == ReadWithChecksum(d.snapshot, NoSnapshot)
LoadLog(d) == [k \in DOMAIN d.log |-> d.log[k].entry]

\* load_log fails on a line that is not an entry and its checksum.
LogLoads(d) == \A k \in DOMAIN d.log : d.log[k].is \in {"whole", "line"}

\* None of the four loads of RaftCore::new fails.
Loads(d) == Readable(d.term) /\ Readable(d.voted_for) /\ Readable(d.snapshot) /\ LogLoads(d)

Write(file, op, data) == [file |-> file, op |-> op, data |-> data]

\* File::create, write_all in one or more parts.
WriteWithChecksum(file, data) ==
    <<Write(file, "create", Nil), Write(file, "part", Nil), Write(file, "write", data)>>

\* Mutant: the vote is only kept in memory.
SaveVotedForNowhere(v) == <<>>

SaveTerm(t) == WriteWithChecksum("term", t)
SaveVotedFor(v) == WriteWithChecksum("voted_for", v)
SaveSnapshot(s) == WriteWithChecksum("snapshot", s)

\* writeln! to a file without a buffer: the entry, its checksum, the line feed.
AppendEntry(e) ==
    <<Write("log", "entry", e), Write("log", "checksum", e), Write("log", "feed", e)>>

\* truncate_log and compact_log read the log and rewrite it by atomic_write: a
\* temporary file no load looks at, and the rename, which is the write here.
RewriteLog(op, index) == <<Write("log", op, index)>>

\* What append mode does to the last line.
AppendTo(lines, w) ==
    IF w.op = "entry"
    THEN IF lines # <<>> /\ lines[Len(lines)].is # "line"
         THEN [lines EXCEPT ![Len(lines)].is = "glued"]
         ELSE Append(lines, Line(w.data, "torn"))
    ELSE IF lines[Len(lines)].is = "glued" THEN lines
    ELSE [lines EXCEPT ![Len(lines)].is = IF w.op = "checksum" THEN "whole" ELSE "line"]

AsLines(entries) == [k \in DOMAIN entries |-> Line(entries[k], "line")]

\* One system call.  A rewrite that cannot read the log fails and leaves it.
Perform(d, w) ==
    CASE w.op = "create" -> [d EXCEPT ![w.file] = Emptied]
      [] w.op = "part" -> [d EXCEPT ![w.file] = Torn]
      [] w.op = "write" -> [d EXCEPT ![w.file] = Whole(w.data)]
      [] w.op \in {"entry", "checksum", "feed"} -> [d EXCEPT !.log = AppendTo(@, w)]
      [] w.op \in {"truncate", "compact"} ->
            IF ~LogLoads(d) THEN d
            ELSE [d EXCEPT !.log = AsLines(IF w.op = "truncate"
                                           THEN TruncateLog(LoadLog(d), w.data)
                                           ELSE CompactLog(LoadLog(d), w.data))]

\* The same call on a MemoryStorage, at its last write.
Mirror(m, w) ==
    CASE w.op = "write" /\ w.file = "term" -> MemSaveTerm(m, w.data)
      [] w.op = "write" /\ w.file = "voted_for" -> MemSaveVotedFor(m, w.data)
      [] w.op = "write" /\ w.file = "snapshot" -> MemSaveSnapshot(m, w.data)
      [] w.op = "feed" -> MemAppend(m, w.data)
      [] w.op = "truncate" -> MemTruncate(m, w.data)
      [] w.op = "compact" -> MemCompact(m, w.data)
      [] w.op \in {"create", "part", "entry", "checksum"} -> m

(***************************************************************************)
(* The storage calls of RaftCore's handlers, in their order.               *)
(***************************************************************************)

\* Mutant: the old vote stays on disk.
TermWritesOnly(n, t) == IF t > n.current_term THEN SaveTerm(t) ELSE <<>>

\* update_term, by every handler that is shown a higher term.
TermWrites(n, t) ==
    IF t > n.current_term THEN SaveTerm(t) \o SaveVotedFor(Nil) ELSE <<>>

\* One round of the loop of apply_entries, on the pair of logs of RaftCore.
EntryWrites(l, offset, entry) ==
    LET position == entry.index - offset
        conflict == position <= Len(l.log) /\ l.log[position].term # entry.term
    IN  IF entry.index <= offset THEN <<>>
        ELSE IF conflict
        THEN (IF entry.index - 1 < Len(l.log) THEN RewriteLog("truncate", entry.index)
              ELSE <<>>) \o AppendEntry(entry)
        ELSE IF position > Len(l.log) THEN AppendEntry(entry)
        ELSE <<>>

\* The whole loop.
EntriesWrites(n, entries) ==
    LET start == [log |-> n.log, stored_log |-> n.stored_log]
        upTo[k \in 0 .. Len(entries)] ==
            IF k = 0 THEN <<>>
            ELSE upTo[k - 1] \o
                 EntryWrites(ReplayEntries(start, n.snapshot_last_index,
                                           SubSeq(entries, 1, k - 1)),
                             n.snapshot_last_index, entries[k])
    IN  upTo[Len(entries)]

\* Mutant: the log is compacted first.
SnapshotWritesReversed(n, m) ==
    IF m.snapshot_last_index = n.snapshot_last_index THEN <<>>
    ELSE RewriteLog("compact", m.snapshot_last_index + 1) \o SaveSnapshot(m.stored_snapshot)

\* Mutant: the log on disk is left as it is.
SnapshotWritesUncompacted(n, m) ==
    IF m.snapshot_last_index = n.snapshot_last_index THEN <<>>
    ELSE SaveSnapshot(m.stored_snapshot)

\* take_snapshot and handle_install_snapshot; m is n after the handler.
SnapshotWrites(n, m) ==
    IF m.snapshot_last_index = n.snapshot_last_index THEN <<>>
    ELSE SaveSnapshot(m.stored_snapshot) \o RewriteLog("compact", m.snapshot_last_index + 1)

(***************************************************************************)
(* The node.                                                               *)
(***************************************************************************)

NoReply == [is |-> "none"]

Init ==
    /\ up = TRUE
    /\ core = New(Self, 0, Nil, <<>>, NoSnapshot)
    /\ disk = [term |-> Absent, voted_for |-> Absent, snapshot |-> Absent, log |-> <<>>]
    /\ pending = <<>> /\ reply = NoReply
    /\ votes = {} /\ acked = {} /\ hit = {} /\ crashes = 0
    /\ memory = NewMemory(Nil, NoSnapshot) /\ shifted = FALSE

\* A handler starts.  A node that runs on a log file no load accepts is not
\* followed further: its next truncate_log or compact_log fails.
Handle(n, writes, answer) ==
    /\ up /\ pending = <<>> /\ reply = NoReply
    /\ LogLoads(disk)
    /\ core' = n /\ pending' = writes /\ reply' = answer
    /\ UNCHANGED <<up, disk, votes, acked, hit, crashes, memory, shifted>>

\* What a candidate's log may end with.
LogEnds(t) ==
    {[term |-> 0, index |-> 0]} \cup
    UNION {{[term |-> LeaderLog[u][k].term, index |-> k] : k \in DOMAIN LeaderLog[u]} :
              u \in DOMAIN LeaderLog \cap 1 .. (t - 1)}

RequestVote ==
    \E t \in 1 .. MaxTerm, c \in Peers(Self) : \E end \in LogEnds(t) :
        LET req == [term |-> t, candidate_id |-> c,
                    last_log_index |-> end.index, last_log_term |-> end.term]
            r == HandleRequestVote(core, req)
            given == r.resp.vote_granted
        IN  Handle(r.core,
                   TermWrites(core, t) \o (IF given THEN SaveVotedFor(c) ELSE <<>>),
                   IF given THEN [is |-> "vote", term |-> t, candidate |-> c] ELSE NoReply)

\* The no-op of become_leader.
FirstOwn(t) == Min({k \in DOMAIN LeaderLog[t] : LeaderLog[t][k].term = t})

\* The leader of term t sends what follows prev in its log, which ends at last,
\* its no-op included; its commit_index is no further.  The rounds of
\* confirm_leadership, which send no entries, are left to RaftCluster.
AppendEntries ==
    \E t \in DOMAIN LeaderLog :
      \E last \in FirstOwn(t) .. Len(LeaderLog[t]) :
        \E prev \in 0 .. last, commit \in 0 .. Min({last, LeaderCommit[t]}) :
          LET req == [term |-> t, leader_id |-> Leader[t], prev_log_index |-> prev,
                      prev_log_term |-> IF prev = 0 THEN 0 ELSE LeaderLog[t][prev].term,
                      entries |-> SubSeq(LeaderLog[t], prev + 1, last),
                      leader_commit |-> commit]
              r == HandleAppendEntries(core, req)
              accepted == r.resp.success
          IN  Handle(r.core,
                     TermWrites(core, t) \o
                     (IF accepted THEN EntriesWrites(core, req.entries) ELSE <<>>) \o
                     SnapshotWrites(core, r.core),
                     IF accepted /\ ~r.panicked
                     THEN [is |-> "ack", term |-> t, upTo |-> last] ELSE NoReply)

\* A leader's own snapshots cover at least the threshold.
InstallSnapshot ==
    /\ SnapshotThreshold > 0
    /\ \E t \in DOMAIN LeaderLog :
      \E k \in SnapshotThreshold .. LeaderCommit[t] :
        LET req == [term |-> t, leader_id |-> Leader[t], last_included_index |-> k,
                    last_included_term |-> LeaderLog[t][k].term,
                    data |-> [m \in 1 .. k |-> LeaderLog[t][m].command]]
            r == HandleInstallSnapshot(core, req)
        IN  Handle(r.core, TermWrites(core, t) \o SnapshotWrites(core, r.core),
                   IF r.resp.success THEN [is |-> "ack", term |-> t, upTo |-> k] ELSE NoReply)

\* start_election: the node's vote for itself is counted at once.
ElectionTimeout ==
    /\ core.current_term < MaxTerm
    /\ LET n == StartElection(core, Self)
       IN  Handle(n, SaveTerm(n.current_term) \o SaveVotedFor(Self),
                  [is |-> "vote", term |-> n.current_term, candidate |-> Self])

SystemCall ==
    /\ up /\ pending # <<>>
    /\ disk' = Perform(disk, Head(pending))
    /\ pending' = Tail(pending)
    /\ memory' = IF crashes = 0 THEN Mirror(memory, Head(pending)) ELSE memory
    /\ shifted' = (shifted \/ /\ Head(pending).op \in {"truncate", "compact"}
                              /\ memory.log # <<>> /\ memory.log[1].index # 1)
    /\ UNCHANGED <<up, core, reply, votes, acked, hit, crashes>>

\* Mutant: the answer does not wait for the disk.
RepliesEarly == up /\ reply # NoReply

\* The handler has returned.
Replies == up /\ reply # NoReply /\ pending = <<>>

SendReply ==
    /\ Replies
    /\ votes' = votes \cup (IF reply.is # "vote" THEN {}
                            ELSE {[voter |-> Self, term |-> reply.term,
                                   candidate |-> reply.candidate,
                                   sound |-> "empty" \notin hit]})
    /\ acked' = acked \cup (IF reply.is # "ack" THEN {}
                            ELSE {[term |-> reply.term, index |-> k] : k \in 1 .. reply.upTo})
    /\ reply' = NoReply
    /\ UNCHANGED <<up, core, disk, pending, hit, crashes, memory, shifted>>

\* The crash points that the disk is at.
Windows ==
    {w \in {"empty", "uncompacted", "unterminated"} :
        \/ w = "empty" /\ \E f \in {"term", "voted_for", "snapshot"} : disk[f] = Emptied
        \/ w = "uncompacted" /\ pending # <<>> /\ Head(pending).op = "compact"
        \/ w = "unterminated" /\ \E k \in DOMAIN disk.log : disk.log[k].is = "whole"}

Crash ==
    /\ up /\ crashes < MaxCrashes /\ hit = {}
    /\ up' = FALSE
    /\ core' = New(Self, 0, Nil, <<>>, NoSnapshot)
    /\ pending' = <<>> /\ reply' = NoReply
    /\ hit' = hit \cup Windows
    /\ crashes' = crashes + 1
    /\ memory' = NewMemory(Nil, NoSnapshot) /\ shifted' = FALSE
    /\ UNCHANGED <<disk, votes, acked>>

\* RaftCore::new expects every load to succeed.
Restart ==
    /\ ~up /\ Loads(disk)
    /\ up' = TRUE
    /\ core' = New(Self, LoadTerm(disk), LoadVotedFor(disk), LoadLog(disk), LoadSnapshot(disk))
    /\ UNCHANGED <<disk, pending, reply, votes, acked, hit, crashes, memory, shifted>>

Next ==
    \/ RequestVote \/ AppendEntries \/ InstallSnapshot \/ ElectionTimeout
    \/ SystemCall \/ SendReply \/ Crash \/ Restart

Spec == Init /\ [][Next]_vars

(***************************************************************************)
(* Properties.                                                             *)
(***************************************************************************)

\* Between two handlers the disk holds what memory does: the storage calls of
\* every handler add up to its change of term, vote, log and snapshot, in every
\* run that starts from files a crash did not leave misleading.
DiskFollowsMemory ==
    up /\ pending = <<>> /\ hit = {} =>
        /\ Loads(disk)
        /\ LoadTerm(disk) = core.current_term /\ LoadVotedFor(disk) = core.voted_for
        /\ LoadLog(disk) = core.log
        /\ LoadSnapshot(disk) = core.stored_snapshot
        /\ LoadSnapshot(disk).last_included_index = core.snapshot_last_index

\* MemoryStorage and FileStorage hold the same after the same calls, as two
\* implementations of the calls that the trait Storage describes.
StoragesAgree ==
    up /\ pending = <<>> /\ crashes = 0 =>
        memory = [term |-> LoadTerm(disk), voted_for |-> LoadVotedFor(disk),
                  log |-> LoadLog(disk), snapshot |-> LoadSnapshot(disk)]

\* They do until a log that does not start at index 1 is cut: tests that run on
\* MemoryStorage see up to there what FileStorage would hold.
MemoryStorageAgrees == ~shifted => StoragesAgree

\* A vote that was answered binds every later start: whatever call a crash
\* interrupts, the disk says that term and that candidate, or a later term, or
\* does not load ...
VotesBind ==
    Loads(disk) =>
        \A v \in votes :
            \/ LoadTerm(disk) > v.term
            \/ LoadTerm(disk) = v.term /\ LoadVotedFor(disk) = v.candidate

\* ... unless a crash in write_with_checksum left a file empty.
VotesSurvive == "empty" \notin hit \cup Windows => VotesBind

\* An entry that every later leader has too.
Lasting(a) ==
    \A t \in DOMAIN LeaderLog :
        t >= a.term => /\ a.index \in DOMAIN LeaderLog[t]
                       /\ LeaderLog[t][a.index] = LeaderLog[a.term][a.index]

\* An acknowledged entry that no later leader overwrites is on disk, in the log
\* or under the snapshot, at every moment after the acknowledgement: rewriting
\* the log and replacing the snapshot never expose a state without it.
AckedSurvive ==
    Loads(disk) /\ hit \cup Windows \subseteq {"unterminated"} =>
        \A a \in acked : Lasting(a) =>
            \/ LoadSnapshot(disk).last_included_index >= a.index
            \/ \E k \in DOMAIN disk.log : disk.log[k].entry = LeaderLog[a.term][a.index]

\* The state machine is what the entries up to last_applied make it, also after
\* any number of restarts from snapshot and log.
AppliesTheLog ==
    up => /\ core.last_applied = Len(core.sm)
          /\ \E t \in DOMAIN LeaderLog :
                \A k \in DOMAIN core.sm :
                    k \in DOMAIN LeaderLog[t] /\ core.sm[k] = LeaderLog[t][k].command

\* That holds unless a crash left a file empty or a log uncompacted.
AppliesTheLogAfterCrashes ==
    hit \subseteq {"unterminated"} => AppliesTheLog

\* The votes given before any file was left empty are ballots of the abstract
\* module: crashes and partial writes never add a second vote to a term.
SoundVotes ==
    {[voter |-> v.voter, term |-> v.term, candidate |-> v.candidate] :
        v \in {w \in votes : w.sound}}

B == INSTANCE Ballots WITH votes <- SoundVotes, elected <- {}

DiskImplementsBallots == B!BallotsSpec
=============================================================================
