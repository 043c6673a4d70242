----------------------------- MODULE RaftCluster -----------------------------
(***************************************************************************)
(* A cluster of RaftServers (src/core/raft_server.rs, raft_node.rs): on    *)
(* every node one event loop that does one thing at a time, RPC handlers   *)
(* that run beside it, and the calls between the nodes.                    *)
(*                                                                         *)
(* The core of a node is shared by its event loop and its RPC handlers     *)
(* under a mutex, so an action is what one critical section does.  The     *)
(* mutex is released between the steps of the loop (start_election, then   *)
(* request_votes; append, then replicate_to_peers; every await of a reply) *)
(* and a handler may run there.                                            *)
(***************************************************************************)
EXTENDS RaftCore

CONSTANTS
    Electable,      \* the nodes whose election timer runs out
    MaxTerm,        \* no election starts beyond this term
    MaxReads,       \* client reads in a behaviour
    MaxRestarts,    \* crashes and restarts in a behaviour
    MaxOrphans      \* requests that outlive their caller, at any time

ASSUME BoundsAssumption ==
    /\ Electable \subseteq Server
    /\ {MaxTerm, MaxReads, MaxRestarts, MaxOrphans} \subseteq Nat

VARIABLES
    core,       \* core[i]: the RaftCore of node i
    task,       \* task[i]: where the event loop of node i stands
    calls,      \* RPCs the event loops are waiting on
    orphans     \* requests on the wire whose caller no longer waits

nodeVars == <<core, task, calls, orphans>>

\* History: what has happened, kept for the properties and to bound the runs.
VARIABLES
    votes,      \* votes given, as [voter, term, candidate]
    elected,    \* elections won, as [term, leader]
    led,        \* led[t]: who won term t, with which voters, and its log then and since
    submitted,  \* commands clients have sent
    acked,      \* commands whose client was told Ok, as [command, term]
    gets,       \* GETs that hold a confirmed read index, as [node, after]
    reads,      \* GETs answered, as [after, saw]
    spent       \* reads and restarts so far

clientVars == <<submitted, acked, gets, reads, spent>>
vars == <<nodeVars, votes, elected, led, clientVars>>

(***************************************************************************)
(* The event loop's program counter and the locals that live across an     *)
(* await: the entry or read index, the command being submitted, the        *)
(* confirmations counted, the writes acknowledged when a read began.       *)
(***************************************************************************)
Idle == [at |-> "idle", index |-> 0, command |-> Nil, acks |-> 0, after |-> {}]

At(i, where) == task[i].at = where

CallsOf(i) == {c \in calls : c.from = i}

\* Mutant: a read waits on when all its calls have failed.
WhenCallsEndWaits(i) == IF At(i, "confirming") THEN task[i] ELSE Idle

\* Where a loop stands when the last of its calls is over.
WhenCallsEnd(i) ==
    IF At(i, "confirming") THEN [task[i] EXCEPT !.at = "confirmed"] ELSE Idle

Init ==
    /\ core = [i \in Server |-> New(i, 0, Nil, <<>>, NoSnapshot)]
    /\ task = [i \in Server |-> Idle]
    /\ calls = {} /\ orphans = {}
    /\ votes = {} /\ elected = {} /\ led = <<>>
    /\ submitted = {} /\ acked = {} /\ gets = {} /\ reads = {}
    /\ spent = [reads |-> 0, restarts |-> 0]

(***************************************************************************)
(* Sending.  reqs is a set of [to, req, mark]; mark is the local the loop  *)
(* keeps beside a future to interpret its result (entry_index,             *)
(* last_entry_index, last_included_index).                                 *)
(***************************************************************************)
Send(i, reqs, where) ==
    /\ calls' = calls \cup {[from |-> i, to |-> r.to, req |-> r.req, mark |-> r.mark,
                             at |-> "sent", resp |-> Nil] : r \in reqs}
    /\ task' = [task EXCEPT ![i] =
                   IF reqs # {} THEN [@ EXCEPT !.at = where]
                   ELSE IF where = "confirming" THEN [@ EXCEPT !.at = "confirmed"]
                   ELSE Idle]
    /\ UNCHANGED orphans

\* The loop stops waiting for the calls in S.  What was sent and not handled
\* may still arrive.
Drop(S) ==
    /\ calls' = calls \ S
    /\ \E late \in SUBSET {[to |-> c.to, req |-> c.req] : c \in {d \in S : d.at = "sent"}} :
          /\ Cardinality(orphans \cup late) <= MaxOrphans
          /\ orphans' = orphans \cup late

\* The loop has taken the result of c and goes on waiting for the others.
Take(c) ==
    /\ calls' = calls \ {c}
    /\ task' = [task EXCEPT ![c.from] = IF CallsOf(c.from) = {c} THEN WhenCallsEnd(c.from) ELSE @]
    /\ UNCHANGED orphans

\* The term that goes with prev_log_index in an AppendEntries.
PrevLogTerm(n, prev) ==
    IF prev = n.snapshot_last_index THEN n.snapshot_last_term
    ELSE IF prev = 0 THEN 0
    ELSE IF HasLogEntry(n, prev) THEN GetLogEntry(n, prev).term
    ELSE 0

AppendEntriesArgs(n, i, peer, entries) ==
    [type |-> "AppendEntries", term |-> n.current_term, leader_id |-> i,
     prev_log_index |-> n.next_index[peer] - 1,
     prev_log_term |-> PrevLogTerm(n, n.next_index[peer] - 1),
     entries |-> entries, leader_commit |-> n.commit_index]

InstallSnapshotArgs(n, i) ==
    [type |-> "InstallSnapshot", term |-> n.current_term, leader_id |-> i,
     last_included_index |-> n.stored_snapshot.last_included_index,
     last_included_term |-> n.stored_snapshot.last_included_term,
     data |-> n.stored_snapshot.data]

RequestVoteArgs(n, i) ==
    [type |-> "RequestVote", term |-> n.current_term, candidate_id |-> i,
     last_log_index |-> LastLogIndex(n), last_log_term |-> LastLogTerm(n)]

(***************************************************************************)
(* Elections.                                                              *)
(***************************************************************************)

\* The election arm of run(), up to start_election.  Only the event loop makes
\* a node leader, so the state it read before is still good.
ElectionTimeout(i) ==
    /\ At(i, "idle")
    /\ core[i].state # "Leader"
    /\ i \in Electable /\ core[i].current_term < MaxTerm
    /\ core' = [core EXCEPT ![i] = StartElection(@, i)]
    /\ task' = [task EXCEPT ![i].at = "elect"]
    /\ votes' = votes \cup {[voter |-> i, term |-> core[i].current_term + 1, candidate |-> i]}
    /\ UNCHANGED <<calls, orphans, elected, led, clientVars>>

\* The arguments are read again from the core, whatever has become of it.
RequestVotes(i) ==
    /\ At(i, "elect")
    /\ Send(i, {[to |-> p, req |-> RequestVoteArgs(core[i], i), mark |-> 0] : p \in Peers(i)},
            "voting")
    /\ UNCHANGED <<core, votes, elected, led, clientVars>>

\* The leader's log is followed as long as it leads.
Follow(i, n) ==
    led' = [t \in DOMAIN led \cup {n.current_term} |->
               IF t = n.current_term
               THEN [leader |-> i, voters |-> n.votes_received, log |-> n.log]
               ELSE led[t]]

\* A winner does not wait for the other answers; its first heartbeat is next.
VoteResult(c) ==
    LET i == c.from
        r == HandleRequestVoteResult(core[i], i, c.to, c.resp)
    IN  /\ c.at = "replied" /\ At(i, "voting")
        /\ core' = [core EXCEPT ![i] = r.core]
        /\ IF r.elected
           THEN /\ elected' = elected \cup {[term |-> r.core.current_term, leader |-> i]}
                /\ Follow(i, r.core)
                /\ task' = [task EXCEPT ![i].at = "beat"]
                /\ Drop(CallsOf(i))
           ELSE /\ Take(c)
                /\ UNCHANGED <<elected, led>>
        /\ UNCHANGED <<votes, clientVars>>

(***************************************************************************)
(* Heartbeats: catch-up entries, or the snapshot where they are compacted. *)
(***************************************************************************)
Heartbeat(n, i, peer) ==
    LET next == n.next_index[peer]
        entries == EntriesAt(n.log, Onward(next))
    IN  IF next <= n.snapshot_last_index
        THEN [to |-> peer, req |-> InstallSnapshotArgs(n, i),
              mark |-> n.stored_snapshot.last_included_index]
        ELSE [to |-> peer, req |-> AppendEntriesArgs(n, i, peer, entries),
              mark |-> IF entries = <<>> THEN 0 ELSE entries[Len(entries)].index]

\* The heartbeat tick of a leader, or the heartbeat that follows an election.
SendHeartbeat(i) ==
    /\ \/ At(i, "idle") /\ core[i].state = "Leader"
       \/ At(i, "beat")
    /\ Send(i, {Heartbeat(core[i], i, p) : p \in
                   IF core[i].state = "Leader" THEN Peers(i) ELSE {}}, "beating")
    /\ UNCHANGED <<core, votes, elected, led, clientVars>>

\* A panic in the loop's own task ends the loop; the handlers live on.
AfterPanic(c, panicked) ==
    IF panicked
    THEN /\ task' = [task EXCEPT ![c.from] = [Idle EXCEPT !.at = "dead"]]
         /\ Drop(CallsOf(c.from))
    ELSE Take(c)

HeartbeatResult(c) ==
    LET i == c.from
        r == HandleAppendEntriesResult(core[i], c.to, c.mark, c.resp)
    IN  /\ c.at = "replied" /\ At(i, "beating") /\ c.req.type = "AppendEntries"
        /\ core' = [core EXCEPT ![i] = r.core]
        /\ AfterPanic(c, r.panicked)
        /\ UNCHANGED <<votes, elected, led, clientVars>>

\* Neither the role nor the term is checked before the indices are set, and a
\* higher term is adopted in memory only.
InstallSnapshotResult(n, peer, last_included_index, resp) ==
    IF resp.success
    THEN [n EXCEPT !.next_index[peer] = last_included_index + 1,
                   !.match_index[peer] = last_included_index]
    ELSE IF resp.term > n.current_term
    THEN [n EXCEPT !.current_term = resp.term, !.state = "Follower", !.voted_for = Nil]
    ELSE n

SnapshotResult(c) ==
    /\ c.at = "replied" /\ At(c.from, "beating") /\ c.req.type = "InstallSnapshot"
    /\ core' = [core EXCEPT ![c.from] = InstallSnapshotResult(@, c.to, c.mark, c.resp)]
    /\ Take(c)
    /\ UNCHANGED <<votes, elected, led, clientVars>>

(***************************************************************************)
(* Client writes.                                                          *)
(***************************************************************************)

\* handle_submit up to the release of the lock.
Submit(i, command) ==
    /\ At(i, "idle") /\ core[i].state = "Leader"
    /\ command \notin submitted
    /\ submitted' = submitted \cup {command}
    /\ core' = [core EXCEPT ![i] = AppendOwnEntry(@, command)]
    /\ Follow(i, core'[i])
    /\ task' = [task EXCEPT ![i] = [Idle EXCEPT !.at = "replicate", !.command = command,
                                                !.index = LastLogIndex(core[i]) + 1]]
    /\ UNCHANGED <<calls, orphans, votes, elected, acked, gets, reads, spent>>

\* The role is not checked again, and a peer that needs compacted entries is
\* sent what is left of the log.
ReplicateToPeers(i) ==
    LET n == core[i]
        Entries(p) == EntriesAt(n.log, n.next_index[p] .. task[i].index)
    IN  /\ At(i, "replicate")
        /\ Send(i, {[to |-> p, req |-> AppendEntriesArgs(n, i, p, Entries(p)),
                     mark |-> task[i].index] : p \in Peers(i)}, "replicating")
        /\ UNCHANGED <<core, votes, elected, led, clientVars>>

\* The peer's handler panicked: the call ends with a transport error.
PeerPanicked(c) ==
    /\ c.at = "failed"
    /\ Take(c)
    /\ UNCHANGED <<core, votes, elected, led, clientVars>>

\* handle_kv_set tells the client of the command that it has succeeded.
AckOf(i, n) == [command |-> task[i].command, term |-> n.current_term]

\* Once the entry is applied the client gets its answer and the loop moves on.
ReplicateResult(c) ==
    LET i == c.from
        r == HandleAppendEntriesResult(core[i], c.to, c.mark, c.resp)
        done == ~r.panicked /\ c.mark \in r.applied
    IN  /\ c.at = "replied" /\ At(i, "replicating")
        /\ core' = [core EXCEPT ![i] = r.core]
        /\ IF done
           THEN /\ acked' = acked \cup {AckOf(i, r.core)}
                /\ task' = [task EXCEPT ![i] = Idle]
                /\ Drop(CallsOf(i))
           ELSE /\ AfterPanic(c, r.panicked)
                /\ UNCHANGED acked
        /\ UNCHANGED <<votes, elected, led, submitted, gets, reads, spent>>

(***************************************************************************)
(* Client reads: ReadIndex, then the GET on the state machine.             *)
(***************************************************************************)

\* Step 1 of handle_read_index.
ReadIndex(i) ==
    /\ At(i, "idle") /\ core[i].state = "Leader"
    /\ spent.reads < MaxReads
    /\ spent' = [spent EXCEPT !.reads = @ + 1]
    /\ task' = [task EXCEPT ![i] = [Idle EXCEPT !.at = "confirm", !.index = core[i].commit_index,
                                                !.after = {a.command : a \in acked}]]
    /\ UNCHANGED <<core, calls, orphans, votes, elected, led, submitted, acked, gets, reads>>

\* confirm_leadership sends empty AppendEntries.
ConfirmLeadership(i) ==
    /\ At(i, "confirm")
    /\ IF core[i].state = "Leader"
       THEN Send(i, {[to |-> p, req |-> AppendEntriesArgs(core[i], i, p, <<>>), mark |-> 0] :
                        p \in Peers(i)}, "confirming")
       ELSE task' = [task EXCEPT ![i] = Idle] /\ UNCHANGED <<calls, orphans>>
    /\ UNCHANGED <<core, votes, elected, led, clientVars>>

\* A higher term ends the read, and is adopted in memory only.
ConfirmRefused(c) ==
    LET i == c.from
    IN  /\ c.at = "replied" /\ At(i, "confirming")
        /\ c.resp.term > core[i].current_term
        /\ core' = [core EXCEPT ![i].current_term = c.resp.term,
                                ![i].state = "Follower", ![i].voted_for = Nil]
        /\ task' = [task EXCEPT ![i] = Idle]
        /\ Drop(CallsOf(i))
        /\ UNCHANGED <<votes, elected, led, clientVars>>

\* The loop stops at majority_needed = (num_peers + 1) / 2 successes.
ConfirmResult(c) ==
    LET i == c.from
        acks == task[i].acks + (IF c.resp.success THEN 1 ELSE 0)
        others == CallsOf(i) \ {c}
        enough == others = {} \/ acks >= (Cardinality(Peers(i)) + 1) \div 2
    IN  /\ c.at = "replied" /\ At(i, "confirming")
        /\ c.resp.term <= core[i].current_term
        /\ task' = [task EXCEPT ![i].acks = acks,
                                ![i].at = IF enough THEN "confirmed" ELSE @]
        /\ Drop(IF enough THEN CallsOf(i) ELSE {c})
        /\ UNCHANGED <<core, votes, elected, led, clientVars>>

\* Mutant: the confirmations are not counted.
ReadIsGoodUnconfirmed(i) ==
    core[i].state = "Leader" /\ core[i].last_applied >= task[i].index

\* The checks that end handle_read_index.
ReadIsGood(i) ==
    /\ core[i].state = "Leader"
    /\ task[i].acks + 1 >= Majority
    /\ core[i].last_applied >= task[i].index

FinishRead(i) ==
    /\ At(i, "confirmed") /\ ReadIsGood(i)
    /\ gets' = gets \cup {[node |-> i, after |-> task[i].after]}
    /\ task' = [task EXCEPT ![i] = Idle]
    /\ UNCHANGED <<core, calls, orphans, votes, elected, led, submitted, acked, reads, spent>>

\* NotLeader or ReadTimeout.
RefuseRead(i) ==
    /\ At(i, "confirmed") /\ ~ReadIsGood(i)
    /\ task' = [task EXCEPT ![i] = Idle]
    /\ UNCHANGED <<core, calls, orphans, votes, elected, led, clientVars>>

\* handle_kv_get reads the store outside the core's mutex, some time later.
KvGet(g) ==
    /\ gets' = gets \ {g}
    /\ reads' = reads \cup {[after |-> g.after, saw |-> core[g.node].sm]}
    /\ UNCHANGED <<nodeVars, votes, elected, led, submitted, acked, spent>>

(***************************************************************************)
(* The RPC handlers, and the network.                                      *)
(***************************************************************************)
RequestTypes == {"RequestVote", "AppendEntries", "InstallSnapshot"}

HandleRequest(n, req) ==
    CASE req.type = "RequestVote" -> HandleRequestVote(n, req)
      [] req.type = "AppendEntries" -> HandleAppendEntries(n, req)
      [] req.type = "InstallSnapshot" -> HandleInstallSnapshot(n, req)

VotesGiven(i, req, resp) ==
    IF req.type = "RequestVote" /\ resp.vote_granted
    THEN {[voter |-> i, term |-> req.term, candidate |-> req.candidate_id]}
    ELSE {}

\* A handler that panics has done part of its work and answers nothing.
Deliver(c) ==
    LET r == HandleRequest(core[c.to], c.req)
    IN  /\ c.at = "sent"
        /\ core' = [core EXCEPT ![c.to] = r.core]
        /\ calls' = (calls \ {c}) \cup
                    {IF r.panicked THEN [c EXCEPT !.at = "failed"]
                     ELSE [c EXCEPT !.at = "replied", !.resp = r.resp]}
        /\ votes' = votes \cup VotesGiven(c.to, c.req, r.resp)
        /\ UNCHANGED <<task, orphans, elected, led, clientVars>>

DeliverOrphan(o) ==
    LET r == HandleRequest(core[o.to], o.req)
    IN  /\ core' = [core EXCEPT ![o.to] = r.core]
        /\ orphans' = orphans \ {o}
        /\ votes' = votes \cup VotesGiven(o.to, o.req, r.resp)
        /\ UNCHANGED <<task, calls, elected, led, clientVars>>

\* A timeout of send_heartbeat as a whole, or the transport errors of the calls
\* that are left: requests or answers are lost or late.  A call that fails before
\* others are answered changes nothing until the last one ends, so that taking
\* the failures last loses no behaviour of the cores.
CallsFail(i) ==
    /\ CallsOf(i) # {}
    /\ Drop(CallsOf(i))
    /\ task' = [task EXCEPT ![i] = WhenCallsEnd(i)]
    /\ UNCHANGED <<core, votes, elected, led, clientVars>>

\* A crash loses what is in memory; the node comes back with what is on disk.
Restart(i) ==
    LET n == core[i]
    IN  /\ spent.restarts < MaxRestarts
        /\ spent' = [spent EXCEPT !.restarts = @ + 1]
        /\ core' = [core EXCEPT ![i] = New(i, n.stored_term, n.stored_voted_for,
                                           n.stored_log, n.stored_snapshot)]
        /\ task' = [task EXCEPT ![i] = Idle]
        /\ Drop(CallsOf(i))
        /\ gets' = {g \in gets : g.node # i}
        /\ UNCHANGED <<votes, elected, led, submitted, acked, reads>>

\* The event loop's own steps, and the results it waits for.
LoopStep(i) ==
    \/ RequestVotes(i) \/ SendHeartbeat(i) \/ ReplicateToPeers(i)
    \/ ConfirmLeadership(i) \/ FinishRead(i) \/ RefuseRead(i)

TakeResult(c) ==
    \/ VoteResult(c) \/ HeartbeatResult(c) \/ SnapshotResult(c)
    \/ ReplicateResult(c) \/ ConfirmRefused(c) \/ ConfirmResult(c)
    \/ PeerPanicked(c)

\* Everything but failures.
Work ==
    \/ \E i \in Server :
          \/ ElectionTimeout(i) \/ LoopStep(i) \/ ReadIndex(i)
          \/ \E command \in Command : Submit(i, command)
    \/ \E c \in calls : Deliver(c) \/ TakeResult(c)
    \/ \E o \in orphans : DeliverOrphan(o)
    \/ \E g \in gets : KvGet(g)

\* Everything but crashes.
Step == Work \/ \E i \in Server : CallsFail(i)

Next == Step \/ \E i \in Server : Restart(i)

Spec == Init /\ [][Next]_vars

(***************************************************************************)
(* What the code does not ensure.  Each of the following conditions names  *)
(* a window that the code leaves open; a specification that conjoins one   *)
(* to Next has the behaviours of the code in which nothing goes through    *)
(* that window.                                                            *)
(***************************************************************************)

\* A term adopted in memory only (SnapshotResult, ConfirmRefused) has reached
\* the disk.
TermPersisted(i) == core[i].stored_term = core[i].current_term

PersistedNext == Step \/ \E i \in Server : TermPersisted(i) /\ Restart(i)

PersistedSpec == Init /\ [][PersistedNext]_vars

\* No leader is deposed between append_log_entry and replicate_to_peers.
SubmitsAsLeader == \A i \in Server : At(i, "replicate") => core[i].state = "Leader"

\* A leader that serves a read has committed an entry of its own term, and the
\* logs of its peers are known to match up to its commit_index.
ReadsSettled ==
    \A i \in Server : At(i, "confirm") /\ core[i].state = "Leader" =>
        LET n == core[i]
        IN  /\ HasLogEntry(n, n.commit_index)
            /\ GetLogEntry(n, n.commit_index).term = n.current_term
            /\ \A p \in Peers(i) : n.next_index[p] > n.commit_index

\* A node that has a snapshot drops no entry above it.
SnapshotLogsGrow ==
    \A i \in Server : core[i].snapshot_last_index > 0 =>
        \A k \in DOMAIN core[i].log :
            core[i].log[k].index > core'[i].snapshot_last_index =>
                \E m \in DOMAIN core'[i].log : core'[i].log[m] = core[i].log[k]

\* What the code does when nothing goes through the windows of persistence, of
\* submission and of reading.
GuardedNext == PersistedNext /\ SubmitsAsLeader' /\ ReadsSettled'

GuardedSpec == Init /\ [][GuardedNext]_vars

(***************************************************************************)
(* Fairness.  The event loop is a task of its own that the runtime keeps   *)
(* scheduling and its heartbeat tick keeps coming; a request that was sent *)
(* is delivered, and its answer taken, unless the call fails.  The second  *)
(* part is WF_vars(CallStep(i)) with its enabling condition, that node i   *)
(* has a call, spelled out: ENABLED of it is costly to evaluate.           *)
(*                                                                         *)
(* NetworkHeals: from some time on no call fails.                          *)
(***************************************************************************)
CallStep(i) == \E c \in CallsOf(i) : Deliver(c) \/ TakeResult(c)

Fairness ==
    \A i \in Server :
        /\ WF_vars(LoopStep(i))
        /\ []<>(CallsOf(i) = {}) \/ []<><<CallStep(i)>>_vars

NetworkHeals == <>[][Work]_vars

(***************************************************************************)
(* Properties.                                                             *)
(***************************************************************************)

\* The shapes of what the election protocol works on: the fields of a node ...
CoreTypeOK(n) ==
    /\ DOMAIN n = CoreFields
    /\ n.current_term \in Nat /\ n.stored_term \in Nat
    /\ n.voted_for \in Server \cup {Nil} /\ n.stored_voted_for \in Server \cup {Nil}
    /\ n.state \in {"Follower", "Candidate", "Leader"}
    /\ n.votes_received \subseteq Server

\* ... whose vote of a term is on disk if the term is ...
VoteStored(n) ==
    /\ n.stored_term <= n.current_term
    /\ n.stored_term = n.current_term => n.stored_voted_for = n.voted_for

CoreOK(n) == CoreTypeOK(n) /\ VoteStored(n)

\* ... a call, and a request without one.
CallTypeOK(c) ==
    /\ DOMAIN c = {"from", "to", "req", "mark", "at", "resp"}
    /\ c.from \in Server /\ c.to \in Server
    /\ c.req.type \in RequestTypes /\ c.req.term \in Nat
    /\ c.at \in {"sent", "replied", "failed"}
    /\ c.at = "replied" => c.resp.term \in Nat
    /\ c.req.type = "RequestVote" => c.req.candidate_id = c.from

OrphanTypeOK(o) ==
    /\ o.to \in Server
    /\ o.req.type \in RequestTypes /\ o.req.term \in Nat
    /\ o.req.type = "RequestVote" => o.req.candidate_id \in Server

TypeOK ==
    /\ DOMAIN core = Server /\ DOMAIN task = Server
    /\ \A i \in Server : CoreOK(core[i]) /\ DOMAIN task[i] = DOMAIN Idle
    /\ \A c \in calls : CallTypeOK(c)
    /\ \A o \in orphans : OrphanTypeOK(o)
    /\ \A v \in votes : v.voter \in Server /\ v.term \in Nat /\ v.candidate \in Server

\* What makes elections safe at every moment, not only when one is won.  Every
\* vote is remembered: its term is not above the voter's, and the voter of the
\* current term still knows whom it voted for ...
VotesRemembered ==
    \A v \in votes :
        /\ v.term <= core[v.voter].current_term
        /\ v.term = core[v.voter].current_term => core[v.voter].voted_for = v.candidate

\* ... a candidate counts only votes given to it in its term ...
CountedVotesGiven ==
    \A i \in Server : core[i].state = "Candidate" =>
        \A p \in core[i].votes_received :
            [voter |-> p, term |-> core[i].current_term, candidate |-> i] \in votes

\* ... and the grants on their way to it are votes for the term it asked in,
\* which is still its term if it is still a candidate.
Resting(i) ==
    task[i].at \notin {"voting", "beating", "replicating", "confirming"}

GrantsInFlight ==
    /\ \A c \in calls :
          /\ c.req.type = "RequestVote" /\ c.at = "replied" =>
                /\ c.resp.vote_granted \in BOOLEAN
                /\ c.resp.vote_granted =>
                      [voter |-> c.to, term |-> c.req.term, candidate |-> c.from] \in votes
          /\ At(c.from, "voting") => c.req.type = "RequestVote"
          /\ At(c.from, "voting") /\ core[c.from].state = "Candidate" =>
                c.req.term = core[c.from].current_term
    /\ \A i \in Server : Resting(i) => CallsOf(i) = {}

VoteInv == TypeOK /\ VotesRemembered /\ CountedVotesGiven /\ GrantsInFlight

B == INSTANCE Ballots

\* The cluster's votes and elections are the ballots of the abstract module.
ImplementsBallots == B!BallotsSpec

\* Nodes are never left with two leaders elected in one term, whatever crashes
\* and delayed requests come between the two elections.
ElectionSafety ==
    \A e, f \in elected : e.term = f.term => e.leader = f.leader

\* A node gives its vote to one candidate in a term, across its crashes.
VoteOnce ==
    \A v, w \in votes :
        v.voter = w.voter /\ v.term = w.term => v.candidate = w.candidate

Entries(i) == {core[i].log[k] : k \in DOMAIN core[i].log}

\* Two logs that agree on the term of one index agree on every index up to it:
\* what the consistency check of handle_append_entries is for.
LogMatching ==
    \A i, j \in Server : \A e \in Entries(i), f \in Entries(j) :
        e.index = f.index /\ e.term = f.term =>
            \A d \in Entries(i), g \in Entries(j) :
                d.index = g.index /\ d.index <= e.index => d = g

\* log[0] is the entry at snapshot_last_index + 1, and no index is missing or
\* there twice: every lookup by position (get_log_entry) relies on it.
LogContiguous ==
    \A i \in Server : \A k \in DOMAIN core[i].log :
        core[i].log[k].index = core[i].snapshot_last_index + k

\* Two nodes that both count an index as committed have the same entry there.
CommittedEntriesAgree ==
    \A i, j \in Server : \A e \in Entries(i), f \in Entries(j) :
        /\ e.index = f.index
        /\ e.index <= core[i].commit_index /\ f.index <= core[j].commit_index
        => e = f

\* No two nodes apply different commands at one position, and what a node has
\* applied is exactly the commands up to last_applied, each of them once.
StateMachineSafety ==
    /\ \A i, j \in Server : \A k \in DOMAIN core[i].sm \cap DOMAIN core[j].sm :
           core[i].sm[k] = core[j].sm[k]
    /\ \A i \in Server : Len(core[i].sm) = core[i].last_applied

\* The commands node i has on disk, compacted or not.
StoredCommands(i) ==
    LET n == core[i]
    IN  {n.stored_snapshot.data[k] : k \in DOMAIN n.stored_snapshot.data}
        \cup {n.stored_log[k].command : k \in DOMAIN n.stored_log}

\* A command whose client was told Ok is on the disks of a majority, so that it
\* outlives any minority of crashes ...
AckedIsDurable ==
    \A a \in acked :
        Cardinality({i \in Server : a.command \in StoredCommands(i)}) >= Majority

\* ... and the leader of that term or of any later one has it.
LeaderCompleteness ==
    \A i \in Server : \A a \in acked :
        core[i].state = "Leader" /\ core[i].current_term >= a.term =>
            a.command \in StoredCommands(i)

\* A GET sees every write acknowledged before it was sent.
ReadsSeeAckedWrites ==
    \A r \in reads : r.after \subseteq {r.saw[k] : k \in DOMAIN r.saw}

\* No handler and no event loop runs into the panics of apply_committed_entries.
NoPanic ==
    /\ \A c \in calls : c.at # "failed"
    /\ \A i \in Server : ~At(i, "dead")

\* Only a crash takes anything back: a node's term never falls, what it counts
\* as committed stays so and what it has applied stays applied.
NothingTakenBack ==
    [][\A i \in Server :
          /\ core'[i].current_term >= core[i].current_term
          /\ spent'.restarts = spent.restarts =>
                /\ core'[i].commit_index >= core[i].commit_index
                /\ SubSeq(core'[i].sm, 1, Len(core[i].sm)) = core[i].sm]_vars

\* Once a leader stays, every node ends up having applied every entry of every
\* log: lost calls are made good by later heartbeats and conflicting logs are
\* repaired.
EveryoneCatchesUp ==
    (\E i \in Server : <>[](core[i].state = "Leader")) =>
        <>[](\A i, j \in Server : core[i].last_applied = LastLogIndex(core[j]))

\* No event loop waits forever: it is back at its select time and again, whatever
\* becomes of the calls and of its leadership.
LoopsReturn == \A i \in Server : []<>At(i, "idle")

\* In the term it leads a node only appends to its log: no late request of an
\* earlier leader takes an entry back, not even by making it step down.
LeaderAppendOnly ==
    [][\A i \in Server :
          /\ core[i].state = "Leader"
          /\ core'[i].current_term = core[i].current_term
          /\ core'[i].snapshot_last_index = core[i].snapshot_last_index
          /\ spent'.restarts = spent.restarts
          => SubSeq(core'[i].log, 1, Len(core[i].log)) = core[i].log]_vars
=============================================================================
