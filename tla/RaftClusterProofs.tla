-------------------------- MODULE RaftClusterProofs --------------------------
(***************************************************************************)
(* Elections are safe, for any finite set of nodes and any bounds: as long *)
(* as a node does not crash with a term it holds in memory only, the       *)
(* cluster implements Ballots.  And without snapshots logs have no gap.    *)
(***************************************************************************)
EXTENDS RaftCluster, RaftCoreProofs

(***************************************************************************)
(* What the operators of RaftCore do to the fields that elections use.     *)
(***************************************************************************)

\* m is n after a step that gives no vote and wins no election: it may have
\* moved to a higher term or stepped down.
Quiet(n, m) ==
    /\ CoreOK(m)
    /\ m.votes_received = n.votes_received
    /\ \/ /\ m.current_term = n.current_term /\ m.voted_for = n.voted_for
          /\ m.state \in {n.state, "Follower"}
       \/ m.current_term > n.current_term /\ m.state = "Follower"

\* Seeing a term is quiet.
LEMMA ObserveTermQuiet ==
    ASSUME NEW n, CoreOK(n), NEW t \in Nat
    PROVE  /\ Quiet(n, ObserveTerm(n, t))
           /\ ObserveTerm(n, t).current_term >= t
           /\ t > n.current_term => /\ ObserveTerm(n, t).current_term = t
                                    /\ ObserveTerm(n, t).voted_for = Nil
                                    /\ ObserveTerm(n, t).state = "Follower"
           /\ t <= n.current_term => ObserveTerm(n, t) = n
BY DEF Quiet, CoreOK, CoreTypeOK, VoteStored, ObserveTerm, UpdateTerm, SetTerm,
       SetVotedFor, CoreFields

\* A quiet change stays quiet when elections are left alone.
LEMMA QuietThenSame ==
    ASSUME NEW n, NEW m, NEW k, Quiet(n, m), SameVote(m, k)
    PROVE  Quiet(n, k)
BY DEF SameVote, Quiet, CoreOK, CoreTypeOK, VoteStored

\* Handling an AppendEntries is quiet.
LEMMA HandleAppendEntriesQuiet ==
    ASSUME NEW n, CoreOK(n), NEW req, req.term \in Nat
    PROVE  /\ Quiet(n, HandleAppendEntries(n, req).core)
           /\ HandleAppendEntries(n, req).resp.term \in Nat
<1> DEFINE m == ObserveTerm(n, req.term)
           f == [m EXCEPT !.state = "Follower", !.current_leader = req.leader_id]
           a == ApplyEntries(f, req.entries)
           done == AdvanceFollowerCommit(a, req.leader_commit).core
<1>1. Quiet(n, m)
  BY ObserveTermQuiet
<1>2. Quiet(n, f) /\ DOMAIN f = CoreFields
  BY <1>1 DEF Quiet, CoreOK, CoreTypeOK, VoteStored, CoreFields
<1>3. SameVote(f, a) /\ DOMAIN a = CoreFields
  BY <1>2, ApplyEntriesSame DEF SameVote
<1>4. SameVote(a, done)
  BY <1>3, AdvanceFollowerCommitSame
<1>5. Quiet(n, done)
  BY <1>2, <1>3, <1>4, QuietThenSame
<1>6. HandleAppendEntries(n, req).core \in {m, f, done}
  BY DEF HandleAppendEntries
<1>7. HandleAppendEntries(n, req).resp.term = m.current_term
  BY DEF HandleAppendEntries
<1>8. m.current_term \in Nat
  BY <1>1 DEF Quiet, CoreOK, CoreTypeOK
<1> HIDE DEF m, f, done
<1> QED
  BY <1>1, <1>2, <1>5, <1>6, <1>7, <1>8

\* Handling an InstallSnapshot is quiet.
LEMMA HandleInstallSnapshotQuiet ==
    ASSUME NEW n, CoreOK(n), NEW req, req.term \in Nat
    PROVE  /\ Quiet(n, HandleInstallSnapshot(n, req).core)
           /\ HandleInstallSnapshot(n, req).resp.term \in Nat
<1> DEFINE m == [ObserveTerm(n, req.term) EXCEPT !.current_leader = req.leader_id]
<1>1. Quiet(n, n) /\ Quiet(n, ObserveTerm(n, req.term))
  BY ObserveTermQuiet DEF Quiet, CoreOK, CoreTypeOK, VoteStored
<1>2. Quiet(n, m)
  BY <1>1 DEF Quiet, CoreOK, CoreTypeOK, VoteStored, CoreFields
<1>3. ASSUME NEW x, NEW y, NEW si, NEW st, NEW l, NEW sl, NEW ci, NEW la
      PROVE  SameVote(m, [m EXCEPT !.stored_snapshot = x, !.sm = y,
                 !.snapshot_last_index = si, !.snapshot_last_term = st,
                 !.log = l, !.stored_log = sl, !.commit_index = ci, !.last_applied = la])
  BY <1>2 DEF SameVote, Quiet, CoreOK, CoreTypeOK, VoteStored, CoreFields
<1>4. \/ HandleInstallSnapshot(n, req).core \in {n, m}
      \/ SameVote(m, HandleInstallSnapshot(n, req).core)
  BY ZenonT(40), <1>3 DEF HandleInstallSnapshot
<1>5. HandleInstallSnapshot(n, req).resp.term \in {n.current_term, m.current_term}
  BY DEF HandleInstallSnapshot
<1> HIDE DEF m
<1>6. Quiet(n, HandleInstallSnapshot(n, req).core)
  BY <1>1, <1>2, <1>4, QuietThenSame
<1>7. n.current_term \in Nat /\ m.current_term \in Nat
  BY <1>2 DEF Quiet, CoreOK, CoreTypeOK, VoteStored
<1> QED
  BY <1>5, <1>6, <1>7

\* Handling a RequestVote either is quiet and refuses, or gives the node's one
\* vote of the request's term.
LEMMA HandleRequestVoteGives ==
    ASSUME NEW n, CoreOK(n), NEW req, req.term \in Nat, req.candidate_id \in Server
    PROVE  LET r == HandleRequestVote(n, req)
           IN  /\ r.resp.term \in Nat /\ r.resp.vote_granted \in BOOLEAN
               /\ ~r.resp.vote_granted => Quiet(n, r.core)
               /\ r.resp.vote_granted =>
                     /\ CoreOK(r.core) /\ r.core.votes_received = n.votes_received
                     /\ r.core.current_term = req.term /\ req.term >= n.current_term
                     /\ r.core.voted_for = req.candidate_id
                     /\ req.term = n.current_term =>
                           /\ n.voted_for \in {Nil, req.candidate_id}
                           /\ r.core.state = n.state
                     /\ req.term > n.current_term => r.core.state = "Follower"
<1> DEFINE m == ObserveTerm(n, req.term)
           granted == /\ req.term >= n.current_term
                      /\ m.voted_for \in {Nil, req.candidate_id}
                      /\ IsLogUpToDate(m, req.last_log_term, req.last_log_index)
           given == SetVotedFor(m, req.candidate_id)
<1>1. Quiet(n, m) /\ m.current_term \in Nat
  BY ObserveTermQuiet DEF Quiet, CoreOK, CoreTypeOK, VoteStored
<1>2. /\ HandleRequestVote(n, req).core = IF granted THEN given ELSE m
      /\ HandleRequestVote(n, req).resp.term = m.current_term
      /\ HandleRequestVote(n, req).resp.vote_granted = granted
  BY DEF HandleRequestVote
<1>3. req.term >= n.current_term =>
        /\ m.current_term = req.term
        /\ req.term = n.current_term => m.voted_for = n.voted_for /\ m.state = n.state
        /\ req.term > n.current_term => m.state = "Follower"
  <2>1. n.current_term \in Nat
    BY DEF CoreOK, CoreTypeOK, VoteStored
  <2>2. CASE req.term > n.current_term
    BY <2>1, <2>2, ObserveTermQuiet
  <2>3. CASE req.term = n.current_term
    BY <2>1, <2>3, ObserveTermQuiet
  <2> QED
    BY <2>1, <2>2, <2>3
<1>4. /\ CoreOK(given) /\ given.votes_received = n.votes_received
      /\ given.current_term = m.current_term /\ given.voted_for = req.candidate_id
      /\ given.state = m.state
  BY <1>1 DEF Quiet, CoreOK, CoreTypeOK, VoteStored, SetVotedFor, CoreFields
<1> HIDE DEF m, granted, given
<1>5. granted \in BOOLEAN /\ (granted => /\ req.term >= n.current_term
                                          /\ m.voted_for \in {Nil, req.candidate_id})
  BY DEF granted
<1> QED
  BY <1>1, <1>2, <1>3, <1>4, <1>5

\* What a handler does to its node, whatever the request: the votes it gives
\* are none, or the node's one vote of the request's term.
LEMMA HandleRequestGives ==
    ASSUME NEW n, CoreOK(n), NEW i \in Server, NEW req,
           req.type \in RequestTypes, req.term \in Nat,
           req.type = "RequestVote" => req.candidate_id \in Server
    PROVE  LET r == HandleRequest(n, req)
               given == VotesGiven(i, req, r.resp)
           IN  /\ r.resp.term \in Nat
               /\ req.type = "RequestVote" =>
                     /\ r.resp.vote_granted \in BOOLEAN
                     /\ r.resp.vote_granted =>
                           given = {[voter |-> i, term |-> req.term,
                                     candidate |-> req.candidate_id]}
               /\ \/ given = {} /\ Quiet(n, r.core)
                  \/ /\ given = {[voter |-> i, term |-> req.term, candidate |-> req.candidate_id]}
                     /\ req.candidate_id \in Server
                     /\ CoreOK(r.core) /\ r.core.votes_received = n.votes_received
                     /\ r.core.current_term = req.term /\ req.term >= n.current_term
                     /\ r.core.voted_for = req.candidate_id
                     /\ req.term = n.current_term =>
                           /\ n.voted_for \in {Nil, req.candidate_id}
                           /\ r.core.state = n.state
                     /\ req.term > n.current_term => r.core.state = "Follower"
<1>1. CASE req.type = "RequestVote"
  <2>1. HandleRequest(n, req) = HandleRequestVote(n, req)
    BY <1>1 DEF HandleRequest
  <2> QED
    BY <1>1, <2>1, HandleRequestVoteGives DEF VotesGiven
<1>2. CASE req.type = "AppendEntries"
  <2>1. HandleRequest(n, req) = HandleAppendEntries(n, req)
    BY <1>2 DEF HandleRequest
  <2> QED
    BY <1>2, <2>1, HandleAppendEntriesQuiet DEF VotesGiven
<1>3. CASE req.type = "InstallSnapshot"
  <2>1. HandleRequest(n, req) = HandleInstallSnapshot(n, req)
    BY <1>3 DEF HandleRequest
  <2> QED
    BY <1>3, <2>1, HandleInstallSnapshotQuiet DEF VotesGiven
<1> QED
  BY <1>1, <1>2, <1>3 DEF RequestTypes

\* Taking the result of an AppendEntries is quiet.
LEMMA HandleAppendEntriesResultQuiet ==
    ASSUME NEW n, CoreOK(n), NEW peer, NEW entry_index, NEW resp, resp.term \in Nat
    PROVE  Quiet(n, HandleAppendEntriesResult(n, peer, entry_index, resp).core)
<1> DEFINE m == ObserveTerm(n, resp.term)
           t == TrackReplication(m, peer, entry_index, resp)
           k == [t EXCEPT !.commit_index = entry_index]
<1>1. Quiet(n, m) /\ DOMAIN m = CoreFields
  BY ObserveTermQuiet DEF Quiet, CoreOK, CoreTypeOK, VoteStored
<1>2. SameVote(m, t)
  <2>1. ASSUME NEW x, NEW y
        PROVE  SameVote(m, m) /\ SameVote(m, [m EXCEPT !.next_index = x])
               /\ SameVote(m, [m EXCEPT !.match_index = y, !.next_index = x])
    BY <1>1 DEF SameVote, CoreFields
  <2> QED
    BY <2>1 DEF TrackReplication
<1>3. SameVote(m, k) /\ DOMAIN k = CoreFields
  BY <1>2 DEF SameVote, CoreFields
<1>4. SameVote(m, ApplyCommittedEntries(k).core)
  BY <1>3, ApplyCommittedEntriesSame, SameVoteTrans
<1>5. HandleAppendEntriesResult(n, peer, entry_index, resp).core
        \in {m, t, ApplyCommittedEntries(k).core}
  BY DEF HandleAppendEntriesResult
<1> HIDE DEF m, t, k
<1> QED
  BY <1>1, <1>2, <1>4, <1>5, QuietThenSame

\* Taking the result of an InstallSnapshot is quiet, in memory.
LEMMA InstallSnapshotResultQuiet ==
    ASSUME NEW n, CoreOK(n), NEW peer, NEW index, NEW resp, resp.term \in Nat
    PROVE  Quiet(n, InstallSnapshotResult(n, peer, index, resp))
<1>1. ASSUME NEW x, NEW y
      PROVE  SameVote(n, [n EXCEPT !.next_index = x, !.match_index = y])
  BY DEF SameVote, CoreOK, CoreTypeOK, VoteStored, CoreFields
<1>2. Quiet(n, n)
  BY DEF Quiet
<1>3. CASE resp.success
  BY <1>1, <1>2, <1>3, QuietThenSame DEF InstallSnapshotResult
<1>4. CASE ~resp.success /\ resp.term > n.current_term
  BY <1>4 DEF InstallSnapshotResult, Quiet, CoreOK, CoreTypeOK, VoteStored, CoreFields
<1>5. CASE ~resp.success /\ ~(resp.term > n.current_term)
  BY <1>2, <1>5 DEF InstallSnapshotResult
<1> QED
  BY <1>3, <1>4, <1>5

\* Taking a vote's result is quiet, or counts the vote, or wins the election.
LEMMA HandleRequestVoteResultCounts ==
    ASSUME NEW n, CoreOK(n), NEW i \in Server, NEW peer \in Server, NEW resp,
           resp.term \in Nat, resp.vote_granted \in BOOLEAN
    PROVE  LET r == HandleRequestVoteResult(n, i, peer, resp)
               counted == n.votes_received \cup IF resp.vote_granted THEN {peer} ELSE {}
           IN  /\ CoreOK(r.core) /\ r.elected \in BOOLEAN
               /\ \/ Quiet(n, r.core) /\ ~r.elected
                  \/ /\ n.state = "Candidate"
                     /\ r.core.current_term = n.current_term /\ r.core.voted_for = n.voted_for
                     /\ r.core.votes_received = counted
                     /\ \/ ~r.elected /\ r.core.state = "Candidate"
                        \/ /\ r.elected /\ r.core.state = "Leader"
                           /\ Cardinality(counted) >= Majority
<1> DEFINE m == ObserveTerm(n, resp.term)
           counted == n.votes_received \cup IF resp.vote_granted THEN {peer} ELSE {}
           c == [m EXCEPT !.votes_received = IF resp.vote_granted THEN @ \cup {peer} ELSE @]
           r == HandleRequestVoteResult(n, i, peer, resp)
<1>1. Quiet(n, m)
  BY ObserveTermQuiet
<1>2. CASE m.state # "Candidate"
  <2>1. r = [core |-> m, elected |-> FALSE]
    BY <1>2 DEF HandleRequestVoteResult
  <2> QED
    BY <1>1, <2>1 DEF Quiet
<1>3. CASE m.state = "Candidate"
  <2>1. n.state = "Candidate" /\ m.current_term = n.current_term /\ m.voted_for = n.voted_for
    BY <1>1, <1>3 DEF Quiet, CoreOK, CoreTypeOK, VoteStored
  <2>2. /\ CoreOK(c) /\ c.votes_received = counted /\ c.state = "Candidate"
        /\ c.current_term = n.current_term /\ c.voted_for = n.voted_for
    BY <1>1, <1>3, <2>1 DEF Quiet, CoreOK, CoreTypeOK, VoteStored, CoreFields
  <2>3. CASE Cardinality(c.votes_received) >= Majority
    <3> DEFINE l == [c EXCEPT !.state = "Leader", !.current_leader = i,
                         !.next_index = [p \in Peers(i) |-> LastLogIndex(c) + 1],
                         !.match_index = [p \in Peers(i) |-> 0]]
    <3>1. r = [core |-> BecomeLeader(c, i), elected |-> TRUE]
      BY <1>3, <2>3 DEF HandleRequestVoteResult
    <3>2. BecomeLeader(c, i) = AppendOwnEntry(l, Noop)
      BY DEF BecomeLeader
    <3>3. /\ CoreOK(l) /\ l.votes_received = counted /\ l.state = "Leader"
          /\ l.current_term = n.current_term /\ l.voted_for = n.voted_for
      BY <2>2 DEF CoreOK, CoreTypeOK, VoteStored, CoreFields
    <3>4. SameVote(l, AppendOwnEntry(l, Noop))
      BY <3>3, AppendOwnEntrySame DEF CoreOK, CoreTypeOK, VoteStored
    <3> HIDE DEF l, c, m, counted
    <3>5. CoreOK(r.core) /\ r.elected = TRUE
      BY <3>1, <3>2, <3>3, <3>4 DEF SameVote, CoreOK, CoreTypeOK, VoteStored
    <3>6. /\ r.core.current_term = n.current_term /\ r.core.voted_for = n.voted_for
          /\ r.core.votes_received = counted /\ r.core.state = "Leader"
      BY <3>1, <3>2, <3>3, <3>4 DEF SameVote
    <3>7. Cardinality(counted) >= Majority
      BY <2>2, <2>3
    <3> HIDE DEF r
    <3>8. /\ CoreOK(r.core) /\ r.elected \in BOOLEAN
          /\ n.state = "Candidate"
          /\ r.core.current_term = n.current_term /\ r.core.voted_for = n.voted_for
          /\ r.core.votes_received = counted
          /\ r.elected /\ r.core.state = "Leader"
          /\ Cardinality(counted) >= Majority
      BY <2>1, <3>5, <3>6, <3>7
    <3> QED
      BY <3>8 DEF r, counted
  <2>4. CASE ~(Cardinality(c.votes_received) >= Majority)
    <3>1. r = [core |-> c, elected |-> FALSE]
      BY <1>3, <2>4 DEF HandleRequestVoteResult
    <3>2. r.core = c /\ r.elected = FALSE
      BY <3>1
    <3> HIDE DEF r, c, m, counted
    <3>3. /\ CoreOK(r.core) /\ r.elected \in BOOLEAN
          /\ n.state = "Candidate"
          /\ r.core.current_term = n.current_term /\ r.core.voted_for = n.voted_for
          /\ r.core.votes_received = counted
          /\ ~r.elected /\ r.core.state = "Candidate"
      BY <2>1, <2>2, <3>2
    <3> QED
      BY <3>3 DEF r, counted
  <2> QED
    BY <2>3, <2>4
<1> QED
  BY <1>2, <1>3

(***************************************************************************)
(* The invariant falls into what it says of the cores and the votes, and   *)
(* of the loops and their calls.                                           *)
(***************************************************************************)
CoresOK ==
    /\ DOMAIN core = Server
    /\ \A i \in Server : CoreOK(core[i])
    /\ \A v \in votes : v.voter \in Server /\ v.term \in Nat /\ v.candidate \in Server
    /\ VotesRemembered
    /\ CountedVotesGiven

LoopsOK ==
    /\ DOMAIN task = Server
    /\ \A i \in Server : DOMAIN task[i] = DOMAIN Idle
    /\ \A c \in calls : CallTypeOK(c)
    /\ \A o \in orphans : OrphanTypeOK(o)
    /\ GrantsInFlight

\* Who is a candidate after a step was one before, in the same term.
CandidatesStay ==
    \A i \in Server : core'[i].state = "Candidate" =>
        core[i].state = "Candidate" /\ core'[i].current_term = core[i].current_term

LEMMA VoteInvParts == (VoteInv <=> CoresOK /\ LoopsOK) /\ (VoteInv <=> CoresOK /\ LoopsOK)'
BY DEF VoteInv, TypeOK, CoresOK, LoopsOK

\* A quiet step of one node keeps what is said of the cores.
LEMMA QuietStep ==
    ASSUME CoresOK, NEW i \in Server, NEW m, Quiet(core[i], m),
           core' = [core EXCEPT ![i] = m], votes' = votes
    PROVE  CoresOK' /\ CandidatesStay
<1>1. /\ DOMAIN core' = Server /\ core'[i] = m
      /\ \A j \in Server : j # i => core'[j] = core[j]
      /\ CoreOK(core[i]) /\ CoreOK(m)
  BY DEF CoresOK, Quiet
<1>2. \A j \in Server : CoreOK(core'[j])
  BY <1>1 DEF CoresOK
<1>3. core[i].current_term \in Nat /\ m.current_term \in Nat
  BY <1>1 DEF CoreOK, CoreTypeOK, VoteStored
<1>4. VotesRemembered'
  <2> SUFFICES ASSUME NEW v \in votes
               PROVE  /\ v.term <= core'[v.voter].current_term
                      /\ v.term = core'[v.voter].current_term =>
                            core'[v.voter].voted_for = v.candidate
    BY DEF VotesRemembered
  <2>1. /\ v.voter \in Server /\ v.term \in Nat
        /\ v.term <= core[v.voter].current_term
        /\ v.term = core[v.voter].current_term => core[v.voter].voted_for = v.candidate
    BY DEF CoresOK, VotesRemembered
  <2>2. CASE v.voter = i
    BY <1>1, <1>3, <2>1, <2>2 DEF Quiet
  <2>3. CASE v.voter # i
    BY <1>1, <2>1, <2>3
  <2> QED
    BY <2>2, <2>3
<1>5. CandidatesStay
  BY <1>1 DEF CandidatesStay, Quiet
<1>6. \A j \in Server : core'[j].votes_received = core[j].votes_received
  BY <1>1 DEF Quiet
<1>7. CountedVotesGiven'
  BY <1>5, <1>6 DEF CandidatesStay, CoresOK, CountedVotesGiven
<1> QED
  BY <1>1, <1>2, <1>4, <1>5, <1>7 DEF CoresOK

\* A step that touches neither cores nor votes.
LEMMA CoresSame ==
    ASSUME CoresOK, UNCHANGED <<core, votes>>
    PROVE  CoresOK' /\ CandidatesStay
BY DEF CoresOK, VotesRemembered, CountedVotesGiven, CandidatesStay

\* A loop that gives up calls, or takes their results, keeps what is said of the
\* loops, if it does not go on resting with calls left.
LEMMA FewerCalls ==
    ASSUME LoopsOK, CandidatesStay, votes \subseteq votes',
           NEW i \in Server, NEW t, DOMAIN t = DOMAIN Idle, task' = [task EXCEPT ![i] = t],
           calls' \subseteq calls,
           orphans' \subseteq orphans \cup {[to |-> c.to, req |-> c.req] : c \in calls},
           t.at = "voting" => task[i].at = "voting",
           t.at \notin {"voting", "beating", "replicating", "confirming"} => CallsOf(i)' = {}
    PROVE  LoopsOK'
<1>1. /\ DOMAIN task' = Server /\ task'[i] = t
      /\ \A j \in Server : j # i => task'[j] = task[j]
      /\ \A j \in Server : DOMAIN task'[j] = DOMAIN Idle
  BY DEF LoopsOK
<1>2. \A c \in calls' : CallTypeOK(c)
  BY DEF LoopsOK
<1>3. \A o \in orphans' : OrphanTypeOK(o)
  BY DEF LoopsOK, OrphanTypeOK, CallTypeOK
<1>4. \A c \in calls' : At(c.from, "voting")' => At(c.from, "voting")
  BY <1>1, <1>2 DEF At, CallTypeOK
<1>5. \A j \in Server : Resting(j)' => CallsOf(j)' = {}
  <2> SUFFICES ASSUME NEW j \in Server, Resting(j)'
               PROVE  CallsOf(j)' = {}
    OBVIOUS
  <2>1. CASE j = i
    BY <1>1, <2>1 DEF Resting
  <2>2. CASE j # i
    <3>1. Resting(j)
      BY <1>1, <2>2 DEF Resting
    <3> QED
      BY <3>1 DEF LoopsOK, GrantsInFlight, CallsOf
  <2> QED
    BY <2>1, <2>2
<1>6. GrantsInFlight'
  <2> SUFFICES ASSUME NEW c \in calls'
               PROVE  /\ c.req.type = "RequestVote" /\ c.at = "replied" =>
                            /\ c.resp.vote_granted \in BOOLEAN
                            /\ c.resp.vote_granted =>
                                  [voter |-> c.to, term |-> c.req.term, candidate |-> c.from] \in votes'
                      /\ At(c.from, "voting")' => c.req.type = "RequestVote"
                      /\ At(c.from, "voting")' /\ core'[c.from].state = "Candidate" =>
                            c.req.term = core'[c.from].current_term
    BY <1>5 DEF GrantsInFlight
  <2> QED
    BY <1>2, <1>4 DEF LoopsOK, GrantsInFlight, CandidatesStay, CallTypeOK
<1> QED
  BY <1>1, <1>2, <1>3, <1>6 DEF LoopsOK

LEMMA IdleFields == DOMAIN Idle = {"at", "index", "command", "acks", "after"} /\ Idle.at = "idle"
BY DEF Idle

\* Dropping calls leaves requests of calls as the new orphans.
LEMMA DropCalls ==
    ASSUME NEW S, S \subseteq calls, Drop(S)
    PROVE  /\ calls' = calls \ S
           /\ orphans' \subseteq orphans \cup {[to |-> c.to, req |-> c.req] : c \in calls}
BY DEF Drop

\* Taking one result.
LEMMA TakeStep ==
    ASSUME LoopsOK, CandidatesStay, votes \subseteq votes', NEW c \in calls, Take(c)
    PROVE  LoopsOK'
<1> DEFINE i == c.from
           t == IF CallsOf(i) = {c} THEN WhenCallsEnd(i) ELSE task[i]
<1>1. i \in Server
  BY DEF LoopsOK, CallTypeOK
<1>2. task' = [task EXCEPT ![i] = t] /\ calls' = calls \ {c} /\ orphans' = orphans
  BY <1>1 DEF Take, LoopsOK
<1>3. CASE CallsOf(i) = {c}
  <2>1. t.at \in {"idle", "confirmed"} /\ DOMAIN t = DOMAIN Idle
    BY <1>1, <1>3, IdleFields DEF WhenCallsEnd, LoopsOK
  <2>2. CallsOf(i)' = {}
    BY <1>2, <1>3 DEF CallsOf
  <2> QED
    BY <1>1, <1>2, <2>1, <2>2, FewerCalls
<1>4. CASE CallsOf(i) # {c}
  <2>1. t = task[i] /\ DOMAIN t = DOMAIN Idle
    BY <1>1, <1>4 DEF LoopsOK
  <2>2. task[i].at \in {"voting", "beating", "replicating", "confirming"}
    BY <1>1 DEF LoopsOK, GrantsInFlight, Resting, CallsOf
  <2> HIDE DEF t
  <2> QED
    BY <1>1, <1>2, <2>1, <2>2, FewerCalls
<1> QED
  BY <1>3, <1>4

\* Giving up all calls.
LEMMA DropAllStep ==
    ASSUME LoopsOK, CandidatesStay, votes \subseteq votes', NEW i \in Server,
           NEW t, DOMAIN t = DOMAIN Idle, t.at # "voting",
           task' = [task EXCEPT ![i] = t], Drop(CallsOf(i))
    PROVE  LoopsOK'
<1>1. CallsOf(i) \subseteq calls
  BY DEF CallsOf
<1>2. /\ calls' = calls \ CallsOf(i)
      /\ orphans' \subseteq orphans \cup {[to |-> c.to, req |-> c.req] : c \in calls}
  BY <1>1, DropCalls
<1>3. CallsOf(i)' = {}
  BY <1>2 DEF CallsOf
<1> QED
  BY <1>2, <1>3, FewerCalls

\* A loop that moves on without calls.
LEMMA RestStep ==
    ASSUME LoopsOK, CandidatesStay, votes \subseteq votes', NEW i \in Server, Resting(i),
           NEW t, DOMAIN t = DOMAIN Idle, t.at # "voting",
           task' = [task EXCEPT ![i] = t], UNCHANGED <<calls, orphans>>
    PROVE  LoopsOK'
<1>1. CallsOf(i)' = {}
  BY DEF LoopsOK, GrantsInFlight, CallsOf
<1> QED
  BY <1>1, FewerCalls

\* Sending the requests of a loop that rests, in its term.
LEMMA SendStep ==
    ASSUME LoopsOK, UNCHANGED <<core, votes>>, NEW i \in Server, Resting(i),
           core[i].current_term \in Nat,
           NEW reqs, NEW where \in {"voting", "beating", "replicating", "confirming"},
           \A r \in reqs : /\ r.to \in Server
                           /\ r.req.type \in RequestTypes
                           /\ r.req.term = core[i].current_term
                           /\ r.req.type = "RequestVote" => r.req.candidate_id = i
                           /\ where = "voting" => r.req.type = "RequestVote",
           Send(i, reqs, where)
    PROVE  LoopsOK'
<1> DEFINE t == IF reqs # {} THEN [task[i] EXCEPT !.at = where]
                ELSE IF where = "confirming" THEN [task[i] EXCEPT !.at = "confirmed"]
                ELSE Idle
           Call(r) == [from |-> i, to |-> r.to, req |-> r.req, mark |-> r.mark,
                       at |-> "sent", resp |-> Nil]
           new == {Call(r) : r \in reqs}
<1>1. /\ task' = [task EXCEPT ![i] = t] /\ calls' = calls \cup new /\ orphans' = orphans
  BY DEF Send, LoopsOK
<1>2. /\ DOMAIN t = DOMAIN Idle
      /\ reqs # {} => t.at = where
      /\ reqs = {} => t.at \in {"confirmed", "idle"}
  BY IdleFields DEF LoopsOK
<1>3. /\ DOMAIN task' = Server /\ task'[i] = t
      /\ \A j \in Server : j # i => task'[j] = task[j]
      /\ \A j \in Server : DOMAIN task'[j] = DOMAIN Idle
  BY <1>1, <1>2 DEF LoopsOK
<1>4. \A c \in new : /\ CallTypeOK(c) /\ c.from = i /\ c.at = "sent"
                     /\ where = "voting" => c.req.type = "RequestVote"
                     /\ c.req.term = core[i].current_term
  BY DEF CallTypeOK
<1>5. CallsOf(i) = {}
  BY DEF LoopsOK, GrantsInFlight
<1>6. \A c \in calls : CallTypeOK(c) /\ c.from # i
  BY <1>5 DEF LoopsOK, CallsOf
<1> HIDE DEF t, new, Call
<1>7. \A c \in calls' : CallTypeOK(c)
  BY <1>1, <1>4, <1>6
<1>8. \A j \in Server : Resting(j)' => CallsOf(j)' = {}
  <2> SUFFICES ASSUME NEW j \in Server, Resting(j)'
               PROVE  CallsOf(j)' = {}
    OBVIOUS
  <2>1. CASE j = i
    <3>1. reqs = {}
      BY <1>2, <1>3, <2>1 DEF Resting
    <3>2. new = {}
      BY <3>1 DEF new
    <3> QED
      BY <1>1, <1>5, <2>1, <3>2 DEF CallsOf
  <2>2. CASE j # i
    <3>1. CallsOf(j) = {}
      BY <1>3, <2>2 DEF Resting, LoopsOK, GrantsInFlight
    <3> QED
      BY <1>1, <1>4, <2>2, <3>1 DEF CallsOf
  <2> QED
    BY <2>1, <2>2
<1>9. ASSUME NEW c \in calls'
      PROVE  /\ c.req.type = "RequestVote" /\ c.at = "replied" =>
                   /\ c.resp.vote_granted \in BOOLEAN
                   /\ c.resp.vote_granted =>
                         [voter |-> c.to, term |-> c.req.term, candidate |-> c.from] \in votes'
             /\ At(c.from, "voting")' => c.req.type = "RequestVote"
             /\ At(c.from, "voting")' /\ core'[c.from].state = "Candidate" =>
                   c.req.term = core'[c.from].current_term
  <2>1. CASE c \in new
    <3>1. task'[i].at = "voting" => where = "voting"
      BY <1>2, <1>3
    <3> QED
      BY <1>4, <2>1, <3>1 DEF At
  <2>2. CASE c \in calls
    <3>1. c.from \in Server /\ c.from # i
      BY <1>6, <2>2 DEF CallTypeOK
    <3> QED
      BY <1>3, <2>2, <3>1 DEF LoopsOK, GrantsInFlight, At
  <2> QED
    BY <1>1, <2>1, <2>2
<1>10. GrantsInFlight'
  BY <1>8, <1>9 DEF GrantsInFlight
<1> QED
  BY <1>1, <1>3, <1>7, <1>10 DEF LoopsOK

(***************************************************************************)
(* One lemma for every action that gives votes or wins elections.  Each    *)
(* shows that the step keeps the invariant and is a step of Ballots.       *)
(***************************************************************************)
BallotStep == [B!BallotsNext]_(B!ballotVars)

LEMMA NoBallot == ASSUME UNCHANGED <<votes, elected>> PROVE BallotStep
BY DEF BallotStep, B!ballotVars

\* A vote that respects the ones before is a step of Ballots.
LEMMA VoteIsBallot ==
    ASSUME NEW v, v \in B!Vote, votes' = votes \cup {v}, elected' = elected,
           \A w \in votes : w.voter = v.voter /\ w.term = v.term => w.candidate = v.candidate
    PROVE  BallotStep
<1>1. B!CastVote(v)
  BY DEF B!CastVote
<1> QED
  BY <1>1 DEF BallotStep, B!BallotsNext

\* A handler gives its node's vote at most once in a term.
LEMMA HandlerStep ==
    ASSUME CoresOK, NEW i \in Server, NEW req,
           req.type \in RequestTypes, req.term \in Nat,
           req.type = "RequestVote" => req.candidate_id \in Server,
           core' = [core EXCEPT ![i] = HandleRequest(core[i], req).core],
           votes' = votes \cup VotesGiven(i, req, HandleRequest(core[i], req).resp),
           elected' = elected
    PROVE  CoresOK' /\ CandidatesStay /\ votes \subseteq votes' /\ BallotStep
<1> DEFINE n == core[i]
           r == HandleRequest(n, req)
           given == VotesGiven(i, req, r.resp)
           v == [voter |-> i, term |-> req.term, candidate |-> req.candidate_id]
<1>1. CoreOK(n) /\ n.current_term \in Nat
  BY DEF CoresOK, CoreOK, CoreTypeOK, VoteStored
<1>2. \/ given = {} /\ Quiet(n, r.core)
      \/ /\ given = {v} /\ req.candidate_id \in Server
         /\ CoreOK(r.core) /\ r.core.votes_received = n.votes_received
         /\ r.core.current_term = req.term /\ req.term >= n.current_term
         /\ r.core.voted_for = req.candidate_id
         /\ req.term = n.current_term =>
               n.voted_for \in {Nil, req.candidate_id} /\ r.core.state = n.state
         /\ req.term > n.current_term => r.core.state = "Follower"
  BY <1>1, HandleRequestGives
<1> HIDE DEF r, given
<1>3. core' = [core EXCEPT ![i] = r.core] /\ votes' = votes \cup given
  BY DEF r, given
<1>4. CASE given = {} /\ Quiet(n, r.core)
  <2>1. votes' = votes
    BY <1>3, <1>4
  <2> QED
    BY <1>3, <1>4, <2>1, QuietStep, NoBallot
<1>5. CASE ~(given = {} /\ Quiet(n, r.core))
  <2>1. /\ given = {v} /\ req.candidate_id \in Server
        /\ CoreOK(r.core) /\ r.core.votes_received = n.votes_received
        /\ r.core.current_term = req.term /\ req.term >= n.current_term
        /\ r.core.voted_for = req.candidate_id
        /\ req.term = n.current_term =>
              n.voted_for \in {Nil, req.candidate_id} /\ r.core.state = n.state
        /\ req.term > n.current_term => r.core.state = "Follower"
    BY <1>2, <1>5
  <2>2. /\ DOMAIN core' = Server /\ core'[i] = r.core
        /\ \A j \in Server : j # i => core'[j] = core[j]
    BY <1>3 DEF CoresOK
  <2>3. \A j \in Server : /\ CoreOK(core'[j])
                          /\ core'[j].votes_received = core[j].votes_received
    BY <2>1, <2>2 DEF CoresOK
  <2>4. ASSUME NEW w \in votes, w.voter = i
        PROVE  /\ w.term <= req.term
               /\ w.term = req.term => w.candidate = req.candidate_id
    <3>1. /\ w.term \in Nat /\ w.candidate \in Server /\ w.term <= n.current_term
          /\ w.term = n.current_term => n.voted_for = w.candidate
      BY <2>4 DEF CoresOK, VotesRemembered
    <3>2. w.term <= req.term
      BY <1>1, <2>1, <3>1
    <3>3. w.term = req.term => w.term = n.current_term /\ req.term = n.current_term
      BY <1>1, <2>1, <3>1
    <3> QED
      BY <2>1, <3>1, <3>2, <3>3, ServerAssumption
  <2>5. votes' = votes \cup {v}
    BY <1>3, <2>1
  <2>6. VotesRemembered'
    <3> SUFFICES ASSUME NEW w \in votes'
                 PROVE  /\ w.term <= core'[w.voter].current_term
                        /\ w.term = core'[w.voter].current_term =>
                              core'[w.voter].voted_for = w.candidate
      BY DEF VotesRemembered
    <3>1. CASE w = v
      BY <2>1, <2>2, <3>1
    <3>2. CASE w \in votes /\ w.voter = i
      BY <2>1, <2>2, <2>4, <3>2
    <3>3. CASE w \in votes /\ w.voter # i
      BY <2>2, <3>3 DEF CoresOK, VotesRemembered
    <3> QED
      BY <2>5, <3>1, <3>2, <3>3
  <2>7. CandidatesStay
    BY <1>1, <2>1, <2>2 DEF CandidatesStay
  <2>8. CountedVotesGiven'
    BY <2>3, <2>5, <2>7 DEF CandidatesStay, CoresOK, CountedVotesGiven
  <2>9. v \in B!Vote
    BY <2>1 DEF B!Vote
  <2>10. BallotStep
    BY <2>4, <2>5, <2>9, VoteIsBallot
  <2>11. \A w \in votes' : w.voter \in Server /\ w.term \in Nat /\ w.candidate \in Server
    BY <2>1, <2>5 DEF CoresOK
  <2> QED
    BY <2>2, <2>3, <2>5, <2>6, <2>7, <2>8, <2>10, <2>11 DEF CoresOK
<1> QED
  BY <1>4, <1>5

\* Delivering a request to its handler, and the answer to its caller.
LEMMA DeliverStep ==
    ASSUME VoteInv, NEW c \in calls, Deliver(c)
    PROVE  VoteInv' /\ BallotStep
<1> USE VoteInvParts
<1> DEFINE r == HandleRequest(core[c.to], c.req)
           d == IF r.panicked THEN [c EXCEPT !.at = "failed"]
                ELSE [c EXCEPT !.at = "replied", !.resp = r.resp]
<1>1. CallTypeOK(c) /\ CoreOK(core[c.to]) /\ c.to \in Server
  BY DEF LoopsOK, CoresOK, CallTypeOK
<1>2. c.req.type = "RequestVote" => c.req.candidate_id \in Server
  BY <1>1 DEF CallTypeOK
<1>3. CoresOK' /\ CandidatesStay /\ votes \subseteq votes' /\ BallotStep
  BY <1>1, <1>2, HandlerStep DEF Deliver, CallTypeOK
<1>4. /\ r.resp.term \in Nat
      /\ c.req.type = "RequestVote" =>
            /\ r.resp.vote_granted \in BOOLEAN
            /\ r.resp.vote_granted =>
                  [voter |-> c.to, term |-> c.req.term, candidate |-> c.from] \in votes'
  BY <1>1, <1>2, HandleRequestGives DEF Deliver, CallTypeOK
<1>5. calls' = (calls \ {c}) \cup {d} /\ task' = task /\ orphans' = orphans
  BY DEF Deliver
<1> HIDE DEF r
<1>6. /\ CallTypeOK(d) /\ d.from = c.from /\ d.to = c.to /\ d.req = c.req
      /\ d.at = "replied" => d.resp = r.resp
  <2>1. CASE r.panicked
    <3>1. d = [c EXCEPT !.at = "failed"]
      BY <2>1
    <3> QED
      BY <1>1, <3>1 DEF CallTypeOK
  <2>2. CASE ~r.panicked
    <3>1. d = [c EXCEPT !.at = "replied", !.resp = r.resp]
      BY <2>2
    <3> HIDE DEF d
    <3> QED
      BY <1>1, <1>4, <3>1 DEF CallTypeOK
  <2> QED
    BY <2>1, <2>2
<1> HIDE DEF d
<1>7. \A x \in calls' : CallTypeOK(x)
  BY <1>5, <1>6 DEF LoopsOK
<1>8. \A j \in Server : Resting(j)' => CallsOf(j)' = {}
  BY <1>5, <1>6 DEF Resting, LoopsOK, GrantsInFlight, CallsOf
<1>9. ASSUME NEW x \in calls'
      PROVE  /\ x.req.type = "RequestVote" /\ x.at = "replied" =>
                   /\ x.resp.vote_granted \in BOOLEAN
                   /\ x.resp.vote_granted =>
                         [voter |-> x.to, term |-> x.req.term, candidate |-> x.from] \in votes'
             /\ At(x.from, "voting")' => x.req.type = "RequestVote"
             /\ At(x.from, "voting")' /\ core'[x.from].state = "Candidate" =>
                   x.req.term = core'[x.from].current_term
  <2>1. \E y \in calls : /\ y.from = x.from /\ y.req = x.req /\ y.from \in Server
                         /\ x = y \/ x = d
    BY <1>1, <1>5, <1>6, <1>7 DEF CallTypeOK, LoopsOK
  <2>2. /\ At(x.from, "voting")' => x.req.type = "RequestVote"
        /\ At(x.from, "voting")' /\ core'[x.from].state = "Candidate" =>
              x.req.term = core'[x.from].current_term
    BY <1>3, <1>5, <2>1 DEF LoopsOK, GrantsInFlight, At, CandidatesStay
  <2>3. CASE x = d
    BY <1>4, <1>6, <2>2, <2>3
  <2>4. CASE x \in calls
    BY <1>3, <2>2, <2>4 DEF LoopsOK, GrantsInFlight
  <2> QED
    BY <1>5, <2>3, <2>4
<1>10. GrantsInFlight'
  BY <1>8, <1>9 DEF GrantsInFlight
<1>11. LoopsOK'
  BY <1>5, <1>7, <1>10 DEF LoopsOK
<1> QED
  BY <1>3, <1>11

\* A step that leaves loops and calls alone.
LEMMA LoopsStay ==
    ASSUME LoopsOK, CandidatesStay, votes \subseteq votes', UNCHANGED <<task, calls>>,
           orphans' \subseteq orphans
    PROVE  LoopsOK'
<1>1. \A j \in Server : Resting(j)' => CallsOf(j)' = {}
  BY DEF LoopsOK, GrantsInFlight, Resting, CallsOf
<1>2. ASSUME NEW c \in calls
      PROVE  /\ c.req.type = "RequestVote" /\ c.at = "replied" =>
                   /\ c.resp.vote_granted \in BOOLEAN
                   /\ c.resp.vote_granted =>
                         [voter |-> c.to, term |-> c.req.term, candidate |-> c.from] \in votes'
             /\ At(c.from, "voting")' => c.req.type = "RequestVote"
             /\ At(c.from, "voting")' /\ core'[c.from].state = "Candidate" =>
                   c.req.term = core'[c.from].current_term
  BY <1>2 DEF LoopsOK, GrantsInFlight, At, CandidatesStay, CallTypeOK
<1>3. GrantsInFlight'
  BY <1>1, <1>2 DEF GrantsInFlight
<1> QED
  BY <1>3 DEF LoopsOK

\* Delivering a request nobody waits for.
LEMMA DeliverOrphanStep ==
    ASSUME VoteInv, NEW o \in orphans, DeliverOrphan(o)
    PROVE  VoteInv' /\ BallotStep
<1> USE VoteInvParts
<1>1. OrphanTypeOK(o)
  BY DEF LoopsOK
<1>2. CoresOK' /\ CandidatesStay /\ votes \subseteq votes' /\ BallotStep
  BY <1>1, HandlerStep DEF DeliverOrphan, OrphanTypeOK
<1>3. LoopsOK'
  BY <1>2, LoopsStay DEF DeliverOrphan
<1> QED
  BY <1>2, <1>3

\* A node that starts an election votes for itself, in a term in which it has
\* not voted before.
LEMMA ElectionTimeoutStep ==
    ASSUME VoteInv, NEW i \in Server, ElectionTimeout(i)
    PROVE  VoteInv' /\ BallotStep
<1> USE VoteInvParts
<1> DEFINE n == core[i]
           m == StartElection(n, i)
           v == [voter |-> i, term |-> n.current_term + 1, candidate |-> i]
<1>1. CoreOK(n) /\ n.current_term \in Nat
  BY DEF CoresOK, CoreOK, CoreTypeOK, VoteStored
<1>2. /\ CoreOK(m) /\ m.current_term = n.current_term + 1 /\ m.voted_for = i
      /\ m.votes_received = {i} /\ m.state = "Candidate"
  BY <1>1 DEF StartElection, SetVotedFor, SetTerm, CoreOK, CoreTypeOK, VoteStored, CoreFields
<1>3. /\ DOMAIN core' = Server /\ core'[i] = m
      /\ \A j \in Server : j # i => core'[j] = core[j]
  BY DEF ElectionTimeout, CoresOK
<1>4. votes' = votes \cup {v} /\ elected' = elected
  BY DEF ElectionTimeout
<1> HIDE DEF m
<1>5. \A w \in votes : w.voter = i => w.term \in Nat /\ w.term <= n.current_term
  BY DEF CoresOK, VotesRemembered
<1>6. BallotStep
  <2>1. v \in B!Vote
    BY <1>1 DEF B!Vote
  <2>2. \A w \in votes : w.voter = i => w.term # n.current_term + 1
    BY <1>1, <1>5
  <2> QED
    BY <1>4, <2>1, <2>2, VoteIsBallot
<1>7. CoresOK'
  <2>1. \A j \in Server : CoreOK(core'[j])
    BY <1>2, <1>3 DEF CoresOK
  <2>2. \A w \in votes' : w.voter \in Server /\ w.term \in Nat /\ w.candidate \in Server
    BY <1>1, <1>4 DEF CoresOK
  <2>3. VotesRemembered'
    <3> SUFFICES ASSUME NEW w \in votes'
                 PROVE  /\ w.term <= core'[w.voter].current_term
                        /\ w.term = core'[w.voter].current_term =>
                              core'[w.voter].voted_for = w.candidate
      BY DEF VotesRemembered
    <3>1. CASE w = v
      BY <1>1, <1>2, <1>3, <3>1
    <3>2. CASE w \in votes /\ w.voter = i
      BY <1>1, <1>2, <1>3, <1>5, <3>2
    <3>3. CASE w \in votes /\ w.voter # i
      BY <1>3, <3>3 DEF CoresOK, VotesRemembered
    <3> QED
      BY <1>4, <3>1, <3>2, <3>3
  <2>4. CountedVotesGiven'
    <3> SUFFICES ASSUME NEW j \in Server, core'[j].state = "Candidate",
                        NEW p \in core'[j].votes_received
                 PROVE  [voter |-> p, term |-> core'[j].current_term, candidate |-> j] \in votes'
      BY DEF CountedVotesGiven
    <3>1. CASE j = i
      BY <1>2, <1>3, <1>4, <3>1
    <3>2. CASE j # i
      BY <1>3, <1>4, <3>2 DEF CoresOK, CountedVotesGiven
    <3> QED
      BY <3>1, <3>2
  <2> QED
    BY <1>3, <2>1, <2>2, <2>3, <2>4 DEF CoresOK
<1>8. LoopsOK'
  <2>1. CallsOf(i) = {}
    BY DEF ElectionTimeout, At, Resting, LoopsOK, GrantsInFlight
  <2>2. \A c \in calls : c.from \in Server /\ c.from # i
    BY <2>1 DEF LoopsOK, CallTypeOK, CallsOf
  <2>3. /\ calls' = calls /\ orphans' = orphans /\ DOMAIN task' = Server
        /\ \A j \in Server : j # i => task'[j] = task[j]
        /\ DOMAIN task'[i] = DOMAIN Idle
    BY DEF ElectionTimeout, LoopsOK
  <2>4. \A j \in Server : Resting(j)' => CallsOf(j)' = {}
    <3> SUFFICES ASSUME NEW j \in Server, Resting(j)'
                 PROVE  CallsOf(j)' = {}
      OBVIOUS
    <3>1. CASE j = i
      BY <2>1, <2>3, <3>1 DEF CallsOf
    <3>2. CASE j # i
      BY <2>3, <3>2 DEF CallsOf, Resting, LoopsOK, GrantsInFlight
    <3> QED
      BY <3>1, <3>2
  <2>5. ASSUME NEW c \in calls
        PROVE  /\ c.req.type = "RequestVote" /\ c.at = "replied" =>
                     /\ c.resp.vote_granted \in BOOLEAN
                     /\ c.resp.vote_granted =>
                           [voter |-> c.to, term |-> c.req.term, candidate |-> c.from] \in votes'
               /\ At(c.from, "voting")' => c.req.type = "RequestVote"
               /\ At(c.from, "voting")' /\ core'[c.from].state = "Candidate" =>
                     c.req.term = core'[c.from].current_term
    <3>1. task'[c.from] = task[c.from] /\ core'[c.from] = core[c.from]
      BY <1>3, <2>2, <2>3
    <3> QED
      BY <1>4, <3>1 DEF LoopsOK, GrantsInFlight, At
  <2>6. GrantsInFlight'
    BY <2>3, <2>4, <2>5 DEF GrantsInFlight
  <2> QED
    BY <2>3, <2>6 DEF LoopsOK
<1> QED
  BY <1>6, <1>7, <1>8

\* The requests a loop sends carry its term, and a vote is asked for itself.
LEMMA SendingStep ==
    ASSUME VoteInv, NEW i \in Server,
           \/ RequestVotes(i) \/ SendHeartbeat(i) \/ ReplicateToPeers(i)
    PROVE  VoteInv' /\ BallotStep
<1> USE VoteInvParts
<1>1. UNCHANGED <<core, votes, elected>>
  BY DEF RequestVotes, SendHeartbeat, ReplicateToPeers
<1>2. CoresOK' /\ BallotStep
  BY <1>1, CoresSame, NoBallot
<1>3. core[i].current_term \in Nat
  BY DEF CoresOK, CoreOK, CoreTypeOK, VoteStored
<1>4. CASE RequestVotes(i)
  <2> DEFINE reqs == {[to |-> p, req |-> RequestVoteArgs(core[i], i), mark |-> 0] :
                         p \in Peers(i)}
  <2>1. Send(i, reqs, "voting") /\ Resting(i)
    BY <1>4 DEF RequestVotes, At, Resting
  <2>2. \A r \in reqs : /\ r.to \in Server /\ r.req.type = "RequestVote"
                        /\ r.req.term = core[i].current_term /\ r.req.candidate_id = i
    BY DEF RequestVoteArgs, Peers
  <2> HIDE DEF reqs
  <2>3. LoopsOK'
    BY <1>1, <1>3, <2>1, <2>2, SendStep DEF RequestTypes
  <2> QED
    BY <1>2, <2>3
<1>5. CASE SendHeartbeat(i)
  <2> DEFINE P == IF core[i].state = "Leader" THEN Peers(i) ELSE {}
             reqs == {Heartbeat(core[i], i, p) : p \in P}
  <2>1. Send(i, reqs, "beating") /\ Resting(i)
    BY <1>5 DEF SendHeartbeat, At, Resting
  <2>2. \A p \in P : /\ Heartbeat(core[i], i, p).to \in Server
                     /\ Heartbeat(core[i], i, p).req.type \in {"AppendEntries", "InstallSnapshot"}
                     /\ Heartbeat(core[i], i, p).req.term = core[i].current_term
    BY DEF Heartbeat, AppendEntriesArgs, InstallSnapshotArgs, Peers
  <2>3. \A r \in reqs : /\ r.to \in Server /\ r.req.type \in {"AppendEntries", "InstallSnapshot"}
                        /\ r.req.term = core[i].current_term
    BY <2>2
  <2> HIDE DEF reqs
  <2>4. LoopsOK'
    BY <1>1, <1>3, <2>1, <2>3, SendStep DEF RequestTypes
  <2> QED
    BY <1>2, <2>4
<1>6. CASE ReplicateToPeers(i)
  <2> DEFINE n == core[i]
             E(p) == EntriesAt(n.log, n.next_index[p] .. task[i].index)
             reqs == {[to |-> p, req |-> AppendEntriesArgs(n, i, p, E(p)),
                       mark |-> task[i].index] : p \in Peers(i)}
  <2>1. Send(i, reqs, "replicating") /\ Resting(i)
    BY <1>6 DEF ReplicateToPeers, At, Resting
  <2> HIDE DEF E
  <2>2. \A r \in reqs : /\ r.to \in Server /\ r.req.type = "AppendEntries"
                        /\ r.req.term = core[i].current_term
    BY DEF AppendEntriesArgs, Peers
  <2> HIDE DEF reqs
  <2>3. LoopsOK'
    BY <1>1, <1>3, <2>1, <2>2, SendStep DEF RequestTypes
  <2> QED
    BY <1>2, <2>3
<1> QED
  BY <1>4, <1>5, <1>6

\* The steps of a read at the loop.
LEMMA ReadStep ==
    ASSUME VoteInv, NEW i \in Server,
           ReadIndex(i) \/ ConfirmLeadership(i) \/ FinishRead(i) \/ RefuseRead(i)
    PROVE  VoteInv' /\ BallotStep
<1> USE VoteInvParts
<1>1. UNCHANGED <<core, votes, elected>>
  BY DEF ReadIndex, ConfirmLeadership, FinishRead, RefuseRead, clientVars
<1>2. CoresOK' /\ CandidatesStay /\ BallotStep
  BY <1>1, CoresSame, NoBallot
<1>3. Resting(i)
  BY DEF ReadIndex, ConfirmLeadership, FinishRead, RefuseRead, At, Resting
<1>4. CASE ConfirmLeadership(i) /\ core[i].state = "Leader"
  <2> DEFINE reqs == {[to |-> p, req |-> AppendEntriesArgs(core[i], i, p, <<>>), mark |-> 0] :
                         p \in Peers(i)}
  <2>1. Send(i, reqs, "confirming")
    BY <1>4 DEF ConfirmLeadership
  <2>2. \A r \in reqs : /\ r.to \in Server /\ r.req.type = "AppendEntries"
                        /\ r.req.term = core[i].current_term
    BY DEF AppendEntriesArgs, Peers
  <2>3. core[i].current_term \in Nat
    BY DEF CoresOK, CoreOK, CoreTypeOK, VoteStored
  <2> HIDE DEF reqs
  <2>4. LoopsOK'
    BY <1>1, <1>3, <2>1, <2>2, <2>3, SendStep DEF RequestTypes
  <2> QED
    BY <1>2, <2>4
<1>5. CASE ~(ConfirmLeadership(i) /\ core[i].state = "Leader")
  <2>1. \/ task' = [task EXCEPT ![i] = Idle]
        \/ task' = [task EXCEPT ![i] = [Idle EXCEPT !.at = "confirm",
                       !.index = core[i].commit_index, !.after = {a.command : a \in acked}]]
    BY <1>5 DEF ReadIndex, ConfirmLeadership, FinishRead, RefuseRead
  <2>2. UNCHANGED <<calls, orphans>>
    BY <1>5 DEF ReadIndex, ConfirmLeadership, FinishRead, RefuseRead
  <2>3. PICK t : task' = [task EXCEPT ![i] = t] /\ DOMAIN t = DOMAIN Idle /\ t.at # "voting"
    <3> DEFINE u == [Idle EXCEPT !.at = "confirm", !.index = core[i].commit_index,
                                 !.after = {a.command : a \in acked}]
    <3>1. DOMAIN u = DOMAIN Idle /\ u.at = "confirm"
      BY IdleFields
    <3>2. task' = [task EXCEPT ![i] = Idle] \/ task' = [task EXCEPT ![i] = u]
      BY <2>1
    <3> HIDE DEF u
    <3> QED
      BY <3>1, <3>2, IdleFields
  <2>4. LoopsOK'
    BY <1>1, <1>2, <1>3, <2>2, <2>3, RestStep
  <2> QED
    BY <1>2, <2>4
<1> QED
  BY <1>4, <1>5

\* A command is appended to the log and nothing else.
LEMMA SubmitStep ==
    ASSUME VoteInv, NEW i \in Server, NEW command, Submit(i, command)
    PROVE  VoteInv' /\ BallotStep
<1> USE VoteInvParts
<1> DEFINE m == AppendOwnEntry(core[i], command)
           t == [Idle EXCEPT !.at = "replicate", !.command = command,
                             !.index = LastLogIndex(core[i]) + 1]
<1>1. /\ core' = [core EXCEPT ![i] = m] /\ task' = [task EXCEPT ![i] = t]
      /\ UNCHANGED <<calls, orphans, votes, elected>> /\ Resting(i)
  BY DEF Submit, At, Resting
<1>2. CoreOK(core[i])
  BY DEF CoresOK
<1>3. Quiet(core[i], core[i]) /\ DOMAIN core[i] = CoreFields
  BY <1>2 DEF Quiet, CoreOK, CoreTypeOK, VoteStored
<1>4. SameVote(core[i], m)
  BY <1>3, AppendOwnEntrySame
<1>5. Quiet(core[i], m)
  BY <1>3, <1>4, QuietThenSame
<1>6. DOMAIN t = DOMAIN Idle /\ t.at # "voting"
  BY IdleFields DEF Idle
<1> HIDE DEF m, t
<1>7. CoresOK' /\ CandidatesStay
  BY <1>1, <1>5, QuietStep
<1>8. LoopsOK'
  BY <1>1, <1>6, <1>7, RestStep
<1> QED
  BY <1>1, <1>7, <1>8, NoBallot

\* A vote's result: the vote is counted, and with a majority the election won.
LEMMA VoteResultStep ==
    ASSUME VoteInv, NEW c \in calls, VoteResult(c)
    PROVE  VoteInv' /\ BallotStep
<1> USE VoteInvParts
<1> DEFINE i == c.from
           n == core[i]
           r == HandleRequestVoteResult(n, i, c.to, c.resp)
           counted == n.votes_received \cup IF c.resp.vote_granted THEN {c.to} ELSE {}
<1>1. /\ i \in Server /\ c.to \in Server /\ c.resp.term \in Nat
      /\ c.resp.vote_granted \in BOOLEAN
      /\ c.resp.vote_granted => [voter |-> c.to, term |-> c.req.term, candidate |-> i] \in votes
      /\ n.state = "Candidate" => c.req.term = n.current_term
  BY DEF VoteResult, LoopsOK, CallTypeOK, GrantsInFlight
<1>2. CoreOK(n) /\ n.current_term \in Nat
  BY <1>1 DEF CoresOK, CoreOK, CoreTypeOK, VoteStored
<1>3. /\ CoreOK(r.core) /\ r.elected \in BOOLEAN
      /\ \/ Quiet(n, r.core) /\ ~r.elected
         \/ /\ n.state = "Candidate"
            /\ r.core.current_term = n.current_term /\ r.core.voted_for = n.voted_for
            /\ r.core.votes_received = counted
            /\ \/ ~r.elected /\ r.core.state = "Candidate"
               \/ /\ r.elected /\ r.core.state = "Leader"
                  /\ Cardinality(counted) >= Majority
  BY <1>1, <1>2, HandleRequestVoteResultCounts
<1>4. /\ core' = [core EXCEPT ![i] = r.core] /\ votes' = votes
      /\ r.elected => /\ elected' = elected \cup {[term |-> r.core.current_term, leader |-> i]}
                      /\ task' = [task EXCEPT ![i].at = "beat"]
                      /\ Drop(CallsOf(i))
      /\ ~r.elected => Take(c) /\ elected' = elected
  BY DEF VoteResult
<1> HIDE DEF r
<1>5. CASE Quiet(n, r.core) /\ ~r.elected
  <2>1. CoresOK' /\ CandidatesStay
    BY <1>1, <1>4, <1>5, QuietStep
  <2>2. LoopsOK' /\ BallotStep
    BY <1>4, <1>5, <2>1, TakeStep, NoBallot
  <2> QED
    BY <2>1, <2>2
<1>6. CASE ~(Quiet(n, r.core) /\ ~r.elected)
  <2>1. /\ n.state = "Candidate"
        /\ r.core.current_term = n.current_term /\ r.core.voted_for = n.voted_for
        /\ r.core.votes_received = counted
        /\ \/ ~r.elected /\ r.core.state = "Candidate"
           \/ r.elected /\ r.core.state = "Leader" /\ Cardinality(counted) >= Majority
    BY <1>3, <1>6
  <2>2. /\ DOMAIN core' = Server /\ core'[i] = r.core
        /\ \A j \in Server : j # i => core'[j] = core[j]
    BY <1>1, <1>4 DEF CoresOK
  <2>3. \A p \in counted : [voter |-> p, term |-> n.current_term, candidate |-> i] \in votes
    BY <1>1, <2>1 DEF CoresOK, CountedVotesGiven
  <2>4. counted \subseteq Server
    BY <1>1, <1>2 DEF CoreOK, CoreTypeOK, VoteStored
  <2> HIDE DEF counted
  <2>5. CandidatesStay
    BY <2>1, <2>2 DEF CandidatesStay
  <2>6. CoresOK'
    <3>1. \A j \in Server : CoreOK(core'[j])
      BY <1>3, <2>2 DEF CoresOK
    <3>2. VotesRemembered'
      BY <1>4, <2>1, <2>2 DEF CoresOK, VotesRemembered
    <3>3. CountedVotesGiven'
      <4> SUFFICES ASSUME NEW j \in Server, core'[j].state = "Candidate",
                          NEW p \in core'[j].votes_received
                   PROVE  [voter |-> p, term |-> core'[j].current_term, candidate |-> j] \in votes'
        BY DEF CountedVotesGiven
      <4>1. CASE j = i
        BY <1>4, <2>1, <2>2, <2>3, <4>1
      <4>2. CASE j # i
        BY <1>4, <2>2, <4>2 DEF CoresOK, CountedVotesGiven
      <4> QED
        BY <4>1, <4>2
    <3> QED
      BY <1>4, <2>2, <3>1, <3>2, <3>3 DEF CoresOK
  <2>7. CASE ~r.elected
    BY <1>4, <2>5, <2>6, <2>7, TakeStep, NoBallot
  <2>8. CASE r.elected
    <3> DEFINE t == [task[i] EXCEPT !.at = "beat"]
               e == [term |-> n.current_term, leader |-> i]
    <3>1. task' = [task EXCEPT ![i] = t] /\ DOMAIN t = DOMAIN Idle /\ t.at # "voting"
      BY <1>1, <1>4, <2>8, IdleFields DEF LoopsOK
    <3> HIDE DEF t
    <3>2. LoopsOK'
      BY <1>1, <1>4, <2>5, <2>8, <3>1, DropAllStep
    <3>3. counted \subseteq B!VotersFor(e.term, e.leader)
      BY <2>3, <2>4 DEF B!VotersFor
    <3>4. IsFiniteSet(B!VotersFor(e.term, e.leader))
      BY ServerAssumption, FS_Subset DEF B!VotersFor
    <3>5. /\ Cardinality(counted) <= Cardinality(B!VotersFor(e.term, e.leader))
          /\ Cardinality(counted) \in Nat
          /\ Cardinality(B!VotersFor(e.term, e.leader)) \in Nat
          /\ Cardinality(Server) \in Nat
      BY <3>3, <3>4, ServerAssumption, FS_Subset, FS_CardinalityType
    <3>6. Cardinality(B!VotersFor(e.term, e.leader)) >= (Cardinality(Server) \div 2) + 1
      BY <2>1, <2>8, <3>5 DEF Majority
    <3>7. elected' = elected \cup {e} /\ e \in [term : Nat, leader : Server]
      BY <1>1, <1>2, <1>4, <2>1, <2>8
    <3>8. B!Win(e)
      <4>1. ASSUME NEW S PROVE B!Cardinality(S) = Cardinality(S)
        BY Zenon DEF Cardinality, B!Cardinality
      <4> QED
        BY <1>4, <3>6, <3>7, <4>1 DEF B!Win
    <3>9. BallotStep
      BY <3>7, <3>8 DEF BallotStep, B!BallotsNext
    <3> QED
      BY <2>6, <3>2, <3>9
  <2> QED
    BY <1>3, <2>7, <2>8
<1> QED
  BY <1>5, <1>6

\* A panic of the loop's own task, or the next call.
LEMMA AfterPanicStep ==
    ASSUME LoopsOK, CandidatesStay, votes \subseteq votes', NEW c \in calls,
           NEW panicked, AfterPanic(c, panicked)
    PROVE  LoopsOK'
<1> DEFINE t == [Idle EXCEPT !.at = "dead"]
<1>1. c.from \in Server
  BY DEF LoopsOK, CallTypeOK
<1>2. DOMAIN t = DOMAIN Idle /\ t.at # "voting"
  BY IdleFields
<1>3. CASE panicked
  <2>1. task' = [task EXCEPT ![c.from] = t] /\ Drop(CallsOf(c.from))
    BY <1>3 DEF AfterPanic
  <2> HIDE DEF t
  <2> QED
    BY <1>1, <1>2, <2>1, DropAllStep
<1>4. CASE ~panicked
  BY <1>4, TakeStep DEF AfterPanic
<1> QED
  BY <1>3, <1>4

\* The results of AppendEntries and InstallSnapshot give no vote.
LEMMA AppendResultStep ==
    ASSUME VoteInv, NEW c \in calls, HeartbeatResult(c) \/ ReplicateResult(c) \/ SnapshotResult(c)
    PROVE  VoteInv' /\ BallotStep
<1> USE VoteInvParts
<1> DEFINE i == c.from
           n == core[i]
           r == HandleAppendEntriesResult(n, c.to, c.mark, c.resp)
           s == InstallSnapshotResult(n, c.to, c.mark, c.resp)
<1>1. i \in Server /\ c.resp.term \in Nat /\ CoreOK(n)
  BY DEF HeartbeatResult, ReplicateResult, SnapshotResult, LoopsOK, CallTypeOK, CoresOK
<1>2. Quiet(n, r.core) /\ Quiet(n, s)
  BY <1>1, HandleAppendEntriesResultQuiet, InstallSnapshotResultQuiet
<1>3. votes' = votes /\ elected' = elected
  BY DEF HeartbeatResult, ReplicateResult, SnapshotResult
<1>4. core' = [core EXCEPT ![i] = r.core] \/ core' = [core EXCEPT ![i] = s]
  BY DEF HeartbeatResult, ReplicateResult, SnapshotResult
<1>5. \/ AfterPanic(c, r.panicked)
      \/ Take(c)
      \/ task' = [task EXCEPT ![i] = Idle] /\ Drop(CallsOf(i))
  BY DEF HeartbeatResult, ReplicateResult, SnapshotResult
<1> HIDE DEF r, s
<1>6. CoresOK' /\ CandidatesStay
  BY <1>1, <1>2, <1>3, <1>4, QuietStep
<1>7. LoopsOK'
  BY <1>1, <1>3, <1>5, <1>6, AfterPanicStep, TakeStep, DropAllStep, IdleFields
<1> QED
  BY <1>3, <1>6, <1>7, NoBallot

\* An answer to confirm_leadership.
LEMMA ConfirmStep ==
    ASSUME VoteInv, NEW c \in calls, ConfirmRefused(c) \/ ConfirmResult(c)
    PROVE  VoteInv' /\ BallotStep
<1> USE VoteInvParts
<1> DEFINE i == c.from
           n == core[i]
<1>1. i \in Server /\ c.resp.term \in Nat /\ CoreOK(n)
  BY DEF ConfirmRefused, ConfirmResult, LoopsOK, CallTypeOK, CoresOK
<1>2. votes' = votes /\ elected' = elected
  BY DEF ConfirmRefused, ConfirmResult
<1>3. CASE ConfirmRefused(c)
  <2> DEFINE m == [n EXCEPT !.current_term = c.resp.term, !.state = "Follower", !.voted_for = Nil]
  <2>1. core' = [core EXCEPT ![i] = m] /\ c.resp.term > n.current_term
    BY <1>1, <1>3 DEF ConfirmRefused, CoresOK
  <2>2. Quiet(n, m)
    BY <1>1, <2>1 DEF Quiet, CoreOK, CoreTypeOK, VoteStored, CoreFields
  <2> HIDE DEF m
  <2>3. CoresOK' /\ CandidatesStay
    BY <1>1, <1>2, <2>1, <2>2, QuietStep
  <2>4. LoopsOK'
    BY <1>1, <1>2, <1>3, <2>3, DropAllStep, IdleFields DEF ConfirmRefused
  <2> QED
    BY <1>2, <2>3, <2>4, NoBallot
<1>4. CASE ConfirmResult(c)
  <2> DEFINE acks == task[i].acks + (IF c.resp.success THEN 1 ELSE 0)
             enough == \/ CallsOf(i) \ {c} = {}
                       \/ acks >= (Cardinality(Peers(i)) + 1) \div 2
             t == [task[i] EXCEPT !.acks = acks, !.at = IF enough THEN "confirmed" ELSE @]
  <2>1. /\ task[i].at = "confirming" /\ core' = core
        /\ task' = [task EXCEPT ![i] = t]
        /\ enough => Drop(CallsOf(i))
        /\ ~enough => Drop({c})
    BY <1>1, <1>4 DEF ConfirmResult, At, LoopsOK
  <2>2. DOMAIN task[i] = {"at", "index", "command", "acks", "after"}
    BY <1>1, IdleFields DEF LoopsOK
  <2>3. DOMAIN t = DOMAIN Idle /\ t.at = IF enough THEN "confirmed" ELSE "confirming"
    BY <2>1, <2>2, IdleFields
  <2> HIDE DEF t, enough
  <2>4. CoresOK' /\ CandidatesStay
    BY <1>2, <2>1, CoresSame
  <2>5. CASE enough
    <3>1. LoopsOK'
      BY <1>1, <1>2, <2>1, <2>3, <2>4, <2>5, DropAllStep
    <3> QED
      BY <1>2, <2>4, <3>1, NoBallot
  <2>6. CASE ~enough
    <3>1. /\ calls' = calls \ {c}
          /\ orphans' \subseteq orphans \cup {[to |-> d.to, req |-> d.req] : d \in calls}
      BY <2>1, <2>6, DropCalls
    <3>2. LoopsOK'
      BY <1>1, <1>2, <2>1, <2>3, <2>4, <2>6, <3>1, FewerCalls
    <3> QED
      BY <1>2, <2>4, <3>2, NoBallot
  <2> QED
    BY <2>5, <2>6
<1> QED
  BY <1>3, <1>4

\* Calls that fail.
LEMMA FailStep ==
    ASSUME VoteInv, (\E c \in calls : PeerPanicked(c)) \/ (\E i \in Server : CallsFail(i))
    PROVE  VoteInv' /\ BallotStep
<1> USE VoteInvParts
<1>1. UNCHANGED <<core, votes, elected>>
  BY DEF PeerPanicked, CallsFail
<1>2. CoresOK' /\ CandidatesStay /\ BallotStep
  BY <1>1, CoresSame, NoBallot
<1>3. CASE \E c \in calls : PeerPanicked(c)
  BY <1>1, <1>2, <1>3, TakeStep DEF PeerPanicked
<1>4. CASE \E i \in Server : CallsFail(i)
  <2> PICK i \in Server : CallsFail(i)
    BY <1>4
  <2>1. DOMAIN WhenCallsEnd(i) = DOMAIN Idle /\ WhenCallsEnd(i).at # "voting"
    BY IdleFields DEF WhenCallsEnd, LoopsOK
  <2> QED
    BY <1>1, <1>2, <2>1, DropAllStep DEF CallsFail
<1> QED
  BY <1>3, <1>4

\* A restart with the term and the vote on disk forgets no vote.
LEMMA RestartStep ==
    ASSUME VoteInv, NEW i \in Server, TermPersisted(i), Restart(i)
    PROVE  VoteInv' /\ BallotStep
<1> USE VoteInvParts
<1> DEFINE n == core[i]
           m == New(i, n.stored_term, n.stored_voted_for, n.stored_log, n.stored_snapshot)
<1>1. CoreOK(n)
  BY DEF CoresOK
<1>2. /\ CoreOK(m) /\ m.current_term = n.current_term /\ m.voted_for = n.voted_for
      /\ m.state = "Follower"
  BY <1>1 DEF New, CoreOK, CoreTypeOK, VoteStored, CoreFields, TermPersisted
<1>3. /\ core' = [core EXCEPT ![i] = m] /\ UNCHANGED <<votes, elected>>
      /\ task' = [task EXCEPT ![i] = Idle] /\ Drop(CallsOf(i))
  BY DEF Restart
<1> HIDE DEF m
<1>4. /\ DOMAIN core' = Server /\ core'[i] = m
      /\ \A j \in Server : j # i => core'[j] = core[j]
  BY <1>3 DEF CoresOK
<1>5. CandidatesStay
  BY <1>2, <1>4 DEF CandidatesStay
<1>6. CoresOK'
  <2>1. \A j \in Server : CoreOK(core'[j])
    BY <1>2, <1>4 DEF CoresOK
  <2>2. VotesRemembered'
    BY <1>2, <1>3, <1>4 DEF CoresOK, VotesRemembered
  <2>3. CountedVotesGiven'
    BY <1>2, <1>3, <1>4 DEF CoresOK, CountedVotesGiven
  <2> QED
    BY <1>3, <1>4, <2>1, <2>2, <2>3 DEF CoresOK
<1>7. LoopsOK'
  BY <1>3, <1>5, DropAllStep, IdleFields
<1> QED
  BY <1>3, <1>6, <1>7, NoBallot

(***************************************************************************)
(* The theorems.                                                           *)
(***************************************************************************)
LEMMA InitOK == Init => VoteInv /\ B!BallotsInit
<1> SUFFICES ASSUME Init PROVE VoteInv /\ B!BallotsInit
  OBVIOUS
<1>1. \A i \in Server : core[i] = New(i, 0, Nil, <<>>, NoSnapshot) /\ task[i] = Idle
  BY DEF Init
<1>2. ASSUME NEW i \in Server
      PROVE  CoreOK(core[i]) /\ core[i].state = "Follower"
  <2>1. core[i] = New(i, 0, Nil, <<>>, NoSnapshot)
    BY <1>1
  <2>2. CoreOK(New(i, 0, Nil, <<>>, NoSnapshot))
    BY DEF New, CoreOK, CoreTypeOK, VoteStored, CoreFields
  <2> QED
    BY <2>1, <2>2 DEF New
<1> QED
  BY <1>1, <1>2 DEF Init, VoteInv, TypeOK, VotesRemembered, CountedVotesGiven, GrantsInFlight,
                    CallsOf, B!BallotsInit

LEMMA StepOK ==
    ASSUME VoteInv, [PersistedNext]_vars
    PROVE  VoteInv' /\ BallotStep
<1>1. CASE UNCHANGED vars
  <2>1. UNCHANGED <<core, task, calls, orphans, votes, elected>>
    BY <1>1 DEF vars, nodeVars
  <2>2. CoresOK' /\ CandidatesStay /\ BallotStep
    BY <2>1, VoteInvParts, CoresSame, NoBallot
  <2> QED
    BY <2>1, <2>2, VoteInvParts, LoopsStay
<1>2. ASSUME NEW i \in Server, ElectionTimeout(i) \/ LoopStep(i) \/ ReadIndex(i)
      PROVE  VoteInv' /\ BallotStep
  BY <1>2, ElectionTimeoutStep, SendingStep, ReadStep DEF LoopStep
<1>3. ASSUME NEW i \in Server, NEW command \in Command, Submit(i, command)
      PROVE  VoteInv' /\ BallotStep
  BY <1>3, SubmitStep
<1>4. ASSUME NEW c \in calls, Deliver(c) \/ TakeResult(c)
      PROVE  VoteInv' /\ BallotStep
  BY <1>4, DeliverStep, VoteResultStep, AppendResultStep, ConfirmStep, FailStep DEF TakeResult
<1>5. ASSUME NEW o \in orphans, DeliverOrphan(o)
      PROVE  VoteInv' /\ BallotStep
  BY <1>5, DeliverOrphanStep
<1>6. ASSUME NEW g \in gets, KvGet(g)
      PROVE  VoteInv' /\ BallotStep
  <2>1. UNCHANGED <<core, task, calls, orphans, votes, elected>>
    BY <1>6 DEF KvGet, nodeVars
  <2>2. CoresOK' /\ CandidatesStay /\ BallotStep
    BY <2>1, VoteInvParts, CoresSame, NoBallot
  <2> QED
    BY <2>1, <2>2, VoteInvParts, LoopsStay
<1>7. ASSUME NEW i \in Server, CallsFail(i)
      PROVE  VoteInv' /\ BallotStep
  BY <1>7, FailStep
<1>8. ASSUME NEW i \in Server, TermPersisted(i), Restart(i)
      PROVE  VoteInv' /\ BallotStep
  BY <1>8, RestartStep
<1> QED
  BY <1>1, <1>2, <1>3, <1>4, <1>5, <1>6, <1>7, <1>8 DEF PersistedNext, Step, Work

\* Votes are remembered, counted votes were given and grants in flight are good,
\* for any number of nodes and without any bound on terms, crashes or late
\* requests, if no node crashes with a term it has adopted in memory only.
THEOREM VotesAreKept == PersistedSpec => []VoteInv
<1>1. Init => VoteInv
  BY InitOK
<1>2. VoteInv /\ [PersistedNext]_vars => VoteInv'
  BY StepOK
<1> QED
  BY <1>1, <1>2, PTL DEF PersistedSpec

\* The votes given by handle_request_vote and start_election and the elections
\* won in handle_request_vote_result are those of the abstract module.
THEOREM ElectionsAreBallots == PersistedSpec => ImplementsBallots
<1>1. Init => VoteInv /\ B!BallotsInit
  BY InitOK
<1>2. VoteInv /\ [PersistedNext]_vars => VoteInv' /\ [B!BallotsNext]_(B!ballotVars)
  BY StepOK DEF BallotStep
<1> QED
  BY <1>1, <1>2, PTL DEF PersistedSpec, ImplementsBallots, B!BallotsSpec

(***************************************************************************)
(* What Ballots promises: two elections of one term have a voter in        *)
(* common, and a voter has one vote in a term.                             *)
(***************************************************************************)

\* One vote for each voter and term.
OneVoteEach ==
    \A v, w \in votes : v.voter = w.voter /\ v.term = w.term => v.candidate = w.candidate

\* Votes are not taken back, so that a winner keeps the votes it won with.
WonByMajority ==
    \A e \in elected :
        Cardinality(B!VotersFor(e.term, e.leader)) >= (Cardinality(Server) \div 2) + 1

BallotsInv ==
    /\ votes \subseteq B!Vote
    /\ OneVoteEach
    /\ WonByMajority

\* A set has the size that Ballots counts.
LEMMA BallotsCount ==
    ASSUME NEW S
    PROVE  B!Cardinality(S) = Cardinality(S)
  BY Zenon DEF B!Cardinality, Cardinality

\* More votes can only add voters.
LEMMA VotersGrow ==
    ASSUME votes \subseteq votes', NEW t, NEW c
    PROVE  /\ Cardinality(B!VotersFor(t, c)') >= Cardinality(B!VotersFor(t, c))
           /\ Cardinality(B!VotersFor(t, c)') \in Nat /\ Cardinality(B!VotersFor(t, c)) \in Nat
<1>1. B!VotersFor(t, c) \subseteq B!VotersFor(t, c)'
  BY DEF B!VotersFor
<1>2. B!VotersFor(t, c)' \in SUBSET Server /\ IsFiniteSet(Server)
  BY ServerAssumption DEF B!VotersFor
<1>3. IsFiniteSet(B!VotersFor(t, c)')
  BY <1>2, FS_Subset
<1> QED
  BY <1>1, <1>3, FS_Subset, FS_CardinalityType

\* Casting a vote or winning a term keeps the invariant.
LEMMA BallotsStep ==
    ASSUME BallotsInv, [B!BallotsNext]_(B!ballotVars)
    PROVE  BallotsInv'
<1>1. CASE UNCHANGED B!ballotVars
  BY <1>1 DEF BallotsInv, OneVoteEach, WonByMajority, B!VotersFor, B!ballotVars
<1>2. ASSUME NEW v \in votes', B!CastVote(v)
      PROVE  BallotsInv'
  <2>1. votes' \subseteq B!Vote /\ OneVoteEach'
    BY <1>2 DEF BallotsInv, OneVoteEach, B!CastVote, B!Vote
  <2>2. ASSUME NEW e \in elected
        PROVE  Cardinality(B!VotersFor(e.term, e.leader)') >= (Cardinality(Server) \div 2) + 1
    <3>1. Cardinality(B!VotersFor(e.term, e.leader)) >= (Cardinality(Server) \div 2) + 1
      BY <2>2 DEF BallotsInv, WonByMajority
    <3>2. votes \subseteq votes'
      BY <1>2 DEF B!CastVote
    <3>3. Cardinality(Server) \in Nat
      BY ServerAssumption, FS_CardinalityType
    <3> QED
      BY <3>1, <3>2, <3>3, VotersGrow
  <2>3. elected' = elected
    BY <1>2 DEF B!CastVote
  <2>4. WonByMajority'
    BY <2>2, <2>3 DEF WonByMajority, B!VotersFor
  <2> QED
    BY <2>1, <2>4 DEF BallotsInv, B!Vote
<1>3. ASSUME NEW e \in elected', B!Win(e)
      PROVE  BallotsInv'
  <2>1. votes' = votes /\ elected' = elected \cup {e}
    BY <1>3 DEF B!Win
  <2>2. Cardinality(B!VotersFor(e.term, e.leader)) >= (Cardinality(Server) \div 2) + 1
    BY <1>3, BallotsCount DEF B!Win
  <2> QED
    BY <2>1, <2>2 DEF BallotsInv, OneVoteEach, WonByMajority, B!VotersFor, B!Vote
<1> QED
  BY <1>1, <1>2, <1>3 DEF B!BallotsNext

\* The invariant leaves no room for two winners of a term.
LEMMA BallotsInvOneWinner ==
    ASSUME BallotsInv
    PROVE  B!OneWinner
<1> SUFFICES ASSUME NEW e \in elected, NEW f \in elected, e.term = f.term
             PROVE  e.leader = f.leader
  BY DEF B!OneWinner
<1>1. PICK s \in B!VotersFor(e.term, e.leader) : s \in B!VotersFor(f.term, f.leader)
  BY MajoritiesMeet, ServerAssumption DEF BallotsInv, WonByMajority, B!VotersFor
<1>2. /\ [voter |-> s, term |-> e.term, candidate |-> e.leader] \in votes
      /\ [voter |-> s, term |-> e.term, candidate |-> f.leader] \in votes
  BY <1>1 DEF B!VotersFor
<1> QED
  BY <1>2 DEF BallotsInv, OneVoteEach

\* No two nodes win one term and no node votes twice in one, for any finite set of
\* nodes: what the votes that handle_request_vote gives and the counting of
\* handle_request_vote_result are for.
THEOREM BallotsSafe == B!BallotsSpec => [](OneVoteEach /\ B!OneWinner)
<1>1. B!BallotsInit => BallotsInv
  BY DEF B!BallotsInit, BallotsInv, OneVoteEach, WonByMajority
<1>2. BallotsInv /\ [B!BallotsNext]_(B!ballotVars) => BallotsInv'
  BY BallotsStep
<1>3. BallotsInv => OneVoteEach /\ B!OneWinner
  BY BallotsInvOneWinner DEF BallotsInv
<1> QED
  BY <1>1, <1>2, <1>3, PTL DEF B!BallotsSpec

\* What Ballots promises holds of the cluster's votes and elections.
LEMMA BallotsHold == PersistedSpec => [](OneVoteEach /\ B!OneWinner)
BY BallotsSafe, ElectionsAreBallots, PTL DEF ImplementsBallots

\* No two nodes are ever elected in one term.
THEOREM ElectionsAreSafe == PersistedSpec => []ElectionSafety
<1>1. B!OneWinner => ElectionSafety
  BY DEF B!OneWinner, ElectionSafety
<1> QED
  BY <1>1, BallotsHold, PTL

\* No node ever votes for two candidates in one term, across its crashes.
THEOREM VotesAreSingle == PersistedSpec => []VoteOnce
<1>1. OneVoteEach => VoteOnce
  BY DEF OneVoteEach, VoteOnce
<1> QED
  BY <1>1, BallotsHold, PTL

(***************************************************************************)
(* The shape of logs.                                                      *)
(*                                                                         *)
(* While snapshots are off every log is contiguous and no handler panics,  *)
(* whatever is lost, late or restarted: a request carries the entries that *)
(* follow its prev_log_index, and a node that accepts it has an entry      *)
(* there.                                                                  *)
(***************************************************************************)

\* A request of a cluster that takes no snapshots.
ReqOK(req) ==
    /\ req.type \in {"RequestVote", "AppendEntries"} /\ req.term \in Nat
    /\ req.type = "AppendEntries" => AppendOK(req)

\* Where a loop waits for calls, and the requests it waits on there.
WaitsOn(where, req) ==
    \/ where = "voting" /\ req.type = "RequestVote"
    \/ where \in {"beating", "replicating", "confirming"} /\ req.type = "AppendEntries"

CallOK(c) ==
    /\ DOMAIN c = {"from", "to", "req", "mark", "at", "resp"}
    /\ c.from \in Server /\ c.to \in Peers(c.from) /\ c.mark \in Nat
    /\ ReqOK(c.req) /\ c.at \in {"sent", "replied"}
    /\ c.at = "replied" =>
          /\ c.resp.term \in Nat
          /\ c.req.type = "AppendEntries" => HintOK(c.resp) /\ c.resp.success \in BOOLEAN

TaskFields == {"at", "index", "command", "acks", "after"}

TaskOK(t) == DOMAIN t = TaskFields /\ t.at # "dead" /\ t.index \in Nat

CallsOK ==
    /\ DOMAIN task = Server /\ \A i \in Server : TaskOK(task[i])
    /\ \A c \in calls : CallOK(c) /\ WaitsOn(task[c.from].at, c.req)
    /\ \A o \in orphans : o.to \in Server /\ ReqOK(o.req)

NodesOK == DOMAIN core = Server /\ \A i \in Server : LogOK(core[i], i)

LogInv == NodesOK /\ CallsOK

(***************************************************************************)
(* The loops and their calls.                                              *)
(***************************************************************************)

LEMMA IdleOK == TaskOK(Idle) /\ Idle.at = "idle"
BY DEF TaskOK, TaskFields, Idle

\* A loop that stands nowhere that it waits has no calls.
LEMMA NoCalls ==
    ASSUME CallsOK, NEW i \in Server,
           task[i].at \notin {"voting", "beating", "replicating", "confirming"}
    PROVE  CallsOf(i) = {}
BY DEF CallsOK, CallsOf, WaitsOn

LEMMA WhenCallsEndOK ==
    ASSUME CallsOK, NEW i \in Server
    PROVE  TaskOK(WhenCallsEnd(i))
<1>1. TaskOK(task[i])
  BY DEF CallsOK
<1>2. TaskOK([task[i] EXCEPT !.at = "confirmed"])
  BY <1>1 DEF TaskOK, TaskFields
<1> QED
  BY <1>2, IdleOK DEF WhenCallsEnd

\* What Drop does, and that what it leaves on the wire is well-formed.
LEMMA DropFacts ==
    ASSUME CallsOK, NEW S, S \subseteq calls, Drop(S)
    PROVE  /\ calls' = calls \ S
           /\ \A o \in orphans' : \/ o \in orphans
                                  \/ \E c \in S : /\ c.at = "sent"
                                                  /\ o = [to |-> c.to, req |-> c.req]
           /\ \A o \in orphans' : o.to \in Server /\ ReqOK(o.req)
<1>1. /\ calls' = calls \ S
      /\ \A o \in orphans' : \/ o \in orphans
                             \/ \E c \in S : /\ c.at = "sent"
                                             /\ o = [to |-> c.to, req |-> c.req]
  BY DEF Drop
<1>2. ASSUME NEW c \in S
      PROVE  [to |-> c.to, req |-> c.req].to \in Server /\ ReqOK([to |-> c.to, req |-> c.req].req)
  BY DEF CallsOK, CallOK, Peers
<1>3. \A o \in orphans : o.to \in Server /\ ReqOK(o.req)
  BY DEF CallsOK
<1> QED
  BY <1>1, <1>2, <1>3

\* Taking the result of a call.
LEMMA TakeOK ==
    ASSUME CallsOK, NEW c \in calls, Take(c)
    PROVE  CallsOK'
<1> DEFINE i == c.from
<1>1. /\ calls' = calls \ {c} /\ orphans' = orphans
      /\ task' = [task EXCEPT ![i] = IF CallsOf(i) = {c} THEN WhenCallsEnd(i) ELSE task[i]]
      /\ i \in Server /\ DOMAIN task = Server
  BY DEF Take, CallsOK, CallOK
<1>2. /\ DOMAIN task' = Server
      /\ \A j \in Server : TaskOK(task'[j])
  BY <1>1, WhenCallsEndOK DEF CallsOK
<1>3. ASSUME NEW d \in calls'
      PROVE  task'[d.from] = task[d.from]
  <2>1. d \in calls /\ d # c /\ d.from \in Server
    BY <1>1 DEF CallsOK, CallOK
  <2>2. CASE d.from = i
    <3>1. CallsOf(i) # {c}
      BY <2>1, <2>2 DEF CallsOf
    <3> QED
      BY <1>1, <2>2, <3>1
  <2>3. CASE d.from # i
    BY <1>1, <2>1, <2>3
  <2> QED
    BY <2>2, <2>3
<1> QED
  BY <1>1, <1>2, <1>3 DEF CallsOK

\* Dropping all calls of a loop, which then stands somewhere else.
LEMMA DropAllOK ==
    ASSUME CallsOK, NEW i \in Server, Drop(CallsOf(i)),
           NEW t, TaskOK(t), task' = [task EXCEPT ![i] = t]
    PROVE  CallsOK'
<1>1. /\ calls' = calls \ CallsOf(i)
      /\ \A o \in orphans' : o.to \in Server /\ ReqOK(o.req)
  BY DropFacts DEF CallsOf
<1>2. /\ DOMAIN task' = Server /\ \A j \in Server : TaskOK(task'[j])
      /\ \A j \in Server : j # i => task'[j] = task[j]
  BY DEF CallsOK
<1>3. ASSUME NEW d \in calls' PROVE d \in calls /\ d.from \in Server /\ d.from # i
  BY <1>1 DEF CallsOf, CallsOK, CallOK
<1> QED
  BY <1>1, <1>2, <1>3 DEF CallsOK

\* A loop without calls moves on.
LEMMA MoveOK ==
    ASSUME CallsOK, NEW i \in Server, CallsOf(i) = {}, UNCHANGED <<calls, orphans>>,
           NEW t, TaskOK(t), task' = [task EXCEPT ![i] = t]
    PROVE  CallsOK'
<1>1. /\ DOMAIN task' = Server /\ \A j \in Server : TaskOK(task'[j])
      /\ \A j \in Server : j # i => task'[j] = task[j]
  BY DEF CallsOK
<1>2. ASSUME NEW d \in calls PROVE d.from # i /\ d.from \in Server
  BY DEF CallsOf, CallsOK, CallOK
<1> QED
  BY <1>1, <1>2 DEF CallsOK

\* A loop without calls sends requests and waits where they are waited on.
LEMMA SendOK ==
    ASSUME CallsOK, NEW i \in Server, CallsOf(i) = {},
           NEW reqs, NEW where, Send(i, reqs, where),
           where \in {"voting", "beating", "replicating", "confirming"},
           \A r \in reqs : /\ r.to \in Peers(i) /\ r.mark \in Nat
                           /\ ReqOK(r.req) /\ WaitsOn(where, r.req)
    PROVE  CallsOK'
<1> DEFINE new == {[from |-> i, to |-> r.to, req |-> r.req, mark |-> r.mark,
                    at |-> "sent", resp |-> Nil] : r \in reqs}
           t == IF reqs # {} THEN [task[i] EXCEPT !.at = where]
                ELSE IF where = "confirming" THEN [task[i] EXCEPT !.at = "confirmed"]
                ELSE Idle
<1>1. /\ calls' = calls \cup new /\ orphans' = orphans
      /\ task' = [task EXCEPT ![i] = t]
  BY DEF Send, CallsOK
<1>2. TaskOK(task[i])
  BY DEF CallsOK
<1>3. TaskOK(t)
  BY <1>2, IdleOK DEF TaskOK, TaskFields
<1>4. reqs # {} => t.at = where
  BY <1>2 DEF TaskOK, TaskFields
<1>5. ASSUME NEW c \in new
      PROVE  CallOK(c) /\ c.from = i /\ WaitsOn(where, c.req) /\ reqs # {}
  BY DEF CallOK
<1> HIDE DEF t, new
<1>6. /\ DOMAIN task' = Server /\ \A j \in Server : TaskOK(task'[j])
      /\ \A j \in Server : j # i => task'[j] = task[j]
      /\ task'[i] = t
  BY <1>1, <1>3 DEF CallsOK
<1>7. ASSUME NEW d \in calls PROVE d.from # i /\ d.from \in Server
  BY DEF CallsOf, CallsOK, CallOK
<1>8. ASSUME NEW c \in calls' PROVE CallOK(c) /\ WaitsOn(task'[c.from].at, c.req)
  <2>1. CASE c \in calls
    BY <1>6, <1>7, <2>1 DEF CallsOK
  <2>2. CASE c \in new
    BY <1>4, <1>5, <1>6, <2>2
  <2> QED
    BY <1>1, <2>1, <2>2
<1> QED
  BY <1>1, <1>6, <1>8 DEF CallsOK

(***************************************************************************)
(* The requests and the handlers.                                          *)
(***************************************************************************)

\* The entries of a log from index a to index b follow index a - 1.
LEMMA EntriesFollow ==
    ASSUME NEW i, NEW n, LogOK(n, i), NEW a \in Nat \ {0}, NEW b \in Nat, NEW S,
           \A k \in DOMAIN n.log : k \in S <=> a <= k /\ k <= b
    PROVE  LET r == EntriesAt(n.log, S)
           IN  /\ Follows(r, a - 1) /\ Len(r) \in Nat
               /\ \A j \in 1 .. Len(r) : r[j] = n.log[a - 1 + j]
               /\ Len(r) > 0 => a - 1 + Len(r) = IF b <= Len(n.log) THEN b ELSE Len(n.log)
               /\ Len(r) = 0 => b < a \/ Len(n.log) < a
<1> DEFINE r == EntriesAt(n.log, S)
           top == IF b <= Len(n.log) THEN b ELSE Len(n.log)
<1>1. Contiguous(n.log) /\ n.log \in Seq(LogEntry) /\ Len(n.log) \in Nat
  BY DEF LogOK, Contiguous
<1>2. /\ r \in Seq(LogEntry)
      /\ Len(r) = IF top >= a THEN top - a + 1 ELSE 0
      /\ \A j \in 1 .. Len(r) : r[j] = n.log[a - 1 + j]
  <2>1. Picked(n.log, S, a, b)
    <3> HIDE DEF r, top
    <3> QED
      BY <1>1, EntriesBetween
  <2> QED
    BY <2>1 DEF Picked
<1> HIDE DEF r
<1>3. top \in Nat /\ top <= Len(n.log)
  BY <1>1
<1>4. ASSUME NEW j \in 1 .. Len(r) PROVE r[j].index = (a - 1) + j
  <2>1. a - 1 + j \in DOMAIN n.log
    BY <1>1, <1>2, <1>3
  <2> QED
    BY <1>1, <1>2, <2>1 DEF Contiguous
<1>5. Follows(r, a - 1)
  <2>1. DOMAIN r = 1 .. Len(r) /\ r \in Seq(LogEntry)
    BY <1>2
  <2> QED
    BY <1>4, <2>1 DEF Follows
<1>6. Len(r) > 0 => a - 1 + Len(r) = top
  BY <1>2, <1>3
<1>7. Len(r) = 0 => b < a \/ Len(n.log) < a
  BY <1>1, <1>2, <1>3
<1> QED
  BY <1>2, <1>5, <1>6, <1>7 DEF r

\* The AppendEntries that a node sends.
LEMMA AppendEntriesArgsOK ==
    ASSUME NEW i \in Server, NEW n, LogOK(n, i), NEW p \in Peers(i),
           NEW entries, Follows(entries, n.next_index[p] - 1)
    PROVE  ReqOK(AppendEntriesArgs(n, i, p, entries))
<1>1. n.next_index[p] \in Nat \ {0} /\ n.current_term \in Nat /\ n.commit_index \in Nat
  BY DEF LogOK
<1>2. n.next_index[p] - 1 \in Nat
  BY <1>1
<1> QED
  BY <1>1, <1>2 DEF AppendEntriesArgs, ReqOK, AppendOK

LEMMA HeartbeatOK ==
    ASSUME NEW i \in Server, NEW n, LogOK(n, i), NEW p \in Peers(i)
    PROVE  LET h == Heartbeat(n, i, p)
               entries == EntriesAt(n.log, Onward(n.next_index[p]))
           IN  /\ h.to = p /\ h.req = AppendEntriesArgs(n, i, p, entries)
               /\ h.mark = IF entries = <<>> THEN 0 ELSE n.next_index[p] - 1 + Len(entries)
               /\ h.mark \in Nat /\ ReqOK(h.req) /\ h.req.type = "AppendEntries"
<1> DEFINE next == n.next_index[p]
           entries == EntriesAt(n.log, Onward(next))
           h == Heartbeat(n, i, p)
<1>1. next \in Nat \ {0} /\ ~(next <= n.snapshot_last_index)
      /\ n.log \in Seq(LogEntry) /\ Len(n.log) \in Nat
  <2>1. n.next_index[p] \in Nat \ {0} /\ n.snapshot_last_index = 0
    BY DEF LogOK
  <2>2. n.log \in Seq(LogEntry) /\ Len(n.log) \in Nat
    BY LogFacts
  <2> QED
    BY <2>1, <2>2
<1>2. \A k \in DOMAIN n.log : k \in Onward(next) <=> next <= k /\ k <= Len(n.log)
  BY <1>1 DEF Onward
<1>3. Follows(entries, next - 1) /\ Len(entries) \in Nat
  <2> HIDE DEF next
  <2> QED
    BY <1>1, <1>2, EntriesFollow
<1>4. h = [to |-> p, req |-> AppendEntriesArgs(n, i, p, entries),
           mark |-> IF entries = <<>> THEN 0 ELSE entries[Len(entries)].index]
  BY <1>1 DEF Heartbeat
<1> HIDE DEF h, entries
<1>5. entries # <<>> => entries[Len(entries)].index = next - 1 + Len(entries)
  BY <1>3 DEF Follows
<1>6. ReqOK(AppendEntriesArgs(n, i, p, entries))
  BY <1>3, AppendEntriesArgsOK
<1>7. AppendEntriesArgs(n, i, p, entries).type = "AppendEntries"
  BY DEF AppendEntriesArgs
<1>8. h.mark = IF entries = <<>> THEN 0 ELSE next - 1 + Len(entries)
  BY <1>4, <1>5
<1>9. h.mark \in Nat
  BY <1>1, <1>3, <1>8
<1> QED
  BY <1>4, <1>6, <1>7, <1>8, <1>9 DEF h, entries

\* What a handler does to the log of its node, and what it answers.
LEMMA HandleRequestOK ==
    ASSUME SnapshotThreshold = 0,
           NEW i, NEW n, LogOK(n, i), NEW req, ReqOK(req)
    PROVE  LET r == HandleRequest(n, req)
           IN  /\ r.panicked = FALSE /\ LogOK(r.core, i) /\ r.resp.term \in Nat
               /\ req.type = "AppendEntries" => HintOK(r.resp) /\ r.resp.success \in BOOLEAN
<1> DEFINE o == ObserveTerm(n, req.term)
<1>1. req.term \in Nat
  BY DEF ReqOK
<1>2. o.current_term \in Nat
  <2>1. LogOK(o, i)
    BY <1>1, ObserveTermKept
  <2> QED
    BY <2>1 DEF LogOK
<1>3. CASE req.type = "AppendEntries"
  <2>1. HandleRequest(n, req) = HandleAppendEntries(n, req) /\ AppendOK(req)
    BY <1>3 DEF HandleRequest, ReqOK
  <2>2. HandleAppendEntries(n, req).resp.term = o.current_term
    BY DEF HandleAppendEntries
  <2>3. LET r == HandleAppendEntries(n, req)
        IN  r.panicked = FALSE /\ LogOK(r.core, i) /\ HintOK(r.resp) /\ r.resp.success \in BOOLEAN
    BY <2>1, HandleAppendEntriesOK
  <2> HIDE DEF o
  <2> QED
    BY <1>2, <2>1, <2>2, <2>3
<1>4. CASE req.type = "RequestVote"
  <2>1. HandleRequest(n, req) = HandleRequestVote(n, req)
    BY <1>4 DEF HandleRequest
  <2>2. HandleRequestVote(n, req).resp.term = o.current_term
    BY DEF HandleRequestVote
  <2>3. LET r == HandleRequestVote(n, req) IN r.panicked = FALSE /\ LogOK(r.core, i)
    BY ZenonT(40), <1>1, HandleRequestVoteKept
  <2> HIDE DEF o
  <2> QED
    BY <1>2, <1>4, <2>1, <2>2, <2>3
<1> QED
  BY <1>3, <1>4 DEF ReqOK

(***************************************************************************)
(* Every step.                                                             *)
(***************************************************************************)

LEMMA NodeStepOK ==
    ASSUME NodesOK, NEW i \in Server, NEW n, LogOK(n, i), core' = [core EXCEPT ![i] = n]
    PROVE  NodesOK'
BY DEF NodesOK

LEMMA CallsStayOK ==
    ASSUME CallsOK, UNCHANGED <<task, calls, orphans>>
    PROVE  CallsOK'
BY DEF CallsOK

\* The loop moves on or stays, and the calls it does not wait on any more end.
LEMMA DropSomeOK ==
    ASSUME CallsOK, NEW i \in Server, NEW S, S \subseteq CallsOf(i), Drop(S),
           NEW t, TaskOK(t), t.at = task[i].at, task' = [task EXCEPT ![i] = t]
    PROVE  CallsOK'
<1>1. /\ calls' = calls \ S
      /\ \A o \in orphans' : o.to \in Server /\ ReqOK(o.req)
  BY DropFacts DEF CallsOf
<1>2. /\ DOMAIN task' = Server /\ \A j \in Server : TaskOK(task'[j])
      /\ \A j \in Server : task'[j].at = task[j].at
  BY DEF CallsOK
<1>3. ASSUME NEW d \in calls' PROVE d \in calls /\ d.from \in Server
  BY <1>1 DEF CallsOK, CallOK
<1> QED
  BY <1>1, <1>2, <1>3 DEF CallsOK

LEMMA ElectionTimeoutOK ==
    ASSUME LogInv, NEW i \in Server, ElectionTimeout(i)
    PROVE  LogInv'
<1>1. LogOK(StartElection(core[i], i), i) /\ NodesOK /\ CallsOK
  <2>1. LogOK(core[i], i)
    BY DEF LogInv, NodesOK
  <2> QED
    BY <2>1, StartElectionKept DEF LogInv
<1>2. NodesOK'
  <2>1. core' = [core EXCEPT ![i] = StartElection(core[i], i)]
    BY DEF ElectionTimeout
  <2> QED
    BY <1>1, <2>1, NodeStepOK
<1>3. CallsOK'
  <2>1. /\ task' = [task EXCEPT ![i] = [task[i] EXCEPT !.at = "elect"]]
        /\ UNCHANGED <<calls, orphans>> /\ task[i].at = "idle"
    BY DEF ElectionTimeout, At
  <2>2. TaskOK([task[i] EXCEPT !.at = "elect"])
    BY <1>1 DEF CallsOK, TaskOK, TaskFields
  <2>3. CallsOf(i) = {}
    BY <1>1, <2>1, NoCalls
  <2> QED
    BY <1>1, <2>1, <2>2, <2>3, MoveOK
<1> QED
  BY <1>2, <1>3 DEF LogInv

LEMMA RequestVotesOK ==
    ASSUME LogInv, NEW i \in Server, RequestVotes(i)
    PROVE  LogInv'
<1> DEFINE reqs == {[to |-> p, req |-> RequestVoteArgs(core[i], i), mark |-> 0] : p \in Peers(i)}
<1>1. /\ LogOK(core[i], i) /\ CallsOK /\ Send(i, reqs, "voting") /\ core' = core
      /\ CallsOf(i) = {}
  <2>1. task[i].at = "elect" /\ CallsOK
    BY DEF RequestVotes, At, LogInv
  <2> QED
    BY <2>1, NoCalls DEF RequestVotes, LogInv, NodesOK
<1>2. ReqOK(RequestVoteArgs(core[i], i)) /\ RequestVoteArgs(core[i], i).type = "RequestVote"
  BY <1>1 DEF RequestVoteArgs, ReqOK, LogOK
<1>3. \A r \in reqs : /\ r.to \in Peers(i) /\ r.mark \in Nat
                      /\ ReqOK(r.req) /\ WaitsOn("voting", r.req)
  BY <1>2 DEF WaitsOn
<1> HIDE DEF reqs
<1>4. CallsOK'
  BY <1>1, <1>3, SendOK
<1> QED
  BY <1>1, <1>4 DEF LogInv, NodesOK

LEMMA VoteResultOK ==
    ASSUME LogInv, NEW c \in calls, VoteResult(c)
    PROVE  LogInv'
<1> DEFINE i == c.from
           r == HandleRequestVoteResult(core[i], i, c.to, c.resp)
<1>1. /\ CallsOK /\ NodesOK /\ i \in Server /\ LogOK(core[i], i) /\ c.resp.term \in Nat
      /\ task[i].at = "voting"
  BY DEF LogInv, NodesOK, CallsOK, CallOK, VoteResult, At
<1>2. LogOK(r.core, i)
  BY <1>1, HandleRequestVoteResultOK
<1>3. core' = [core EXCEPT ![i] = r.core]
  BY DEF VoteResult
<1>4. NodesOK'
  <2> HIDE DEF r
  <2> QED
    BY <1>1, <1>2, <1>3, NodeStepOK
<1>5. CallsOK'
  <2>1. CASE r.elected
    <3>1. task' = [task EXCEPT ![i] = [task[i] EXCEPT !.at = "beat"]] /\ Drop(CallsOf(i))
      BY <2>1 DEF VoteResult
    <3>2. TaskOK([task[i] EXCEPT !.at = "beat"])
      BY <1>1 DEF CallsOK, TaskOK, TaskFields
    <3> QED
      BY <1>1, <3>1, <3>2, DropAllOK
  <2>2. CASE ~r.elected
    <3>1. Take(c)
      BY <2>2 DEF VoteResult
    <3> QED
      BY <1>1, <3>1, TakeOK
  <2> QED
    BY <2>1, <2>2
<1> QED
  BY <1>4, <1>5 DEF LogInv

LEMMA SendHeartbeatOK ==
    ASSUME LogInv, NEW i \in Server, SendHeartbeat(i)
    PROVE  LogInv'
<1> DEFINE to == IF core[i].state = "Leader" THEN Peers(i) ELSE {}
           reqs == {Heartbeat(core[i], i, p) : p \in to}
<1>1. /\ LogOK(core[i], i) /\ CallsOK /\ Send(i, reqs, "beating") /\ core' = core
      /\ CallsOf(i) = {}
  <2>1. task[i].at \in {"idle", "beat"} /\ CallsOK
    BY DEF SendHeartbeat, At, LogInv
  <2>2. CallsOf(i) = {}
    BY <2>1, NoCalls
  <2> QED
    BY <2>1, <2>2 DEF SendHeartbeat, LogInv, NodesOK
<1>2. ASSUME NEW p \in to
      PROVE  LET h == Heartbeat(core[i], i, p)
             IN  /\ h.to = p /\ p \in Peers(i)
                 /\ h.mark \in Nat /\ ReqOK(h.req) /\ h.req.type = "AppendEntries"
  <2>1. p \in Peers(i)
    OBVIOUS
  <2> HIDE DEF to, reqs
  <2>2. LET h == Heartbeat(core[i], i, p)
        IN  h.to = p /\ h.mark \in Nat /\ ReqOK(h.req) /\ h.req.type = "AppendEntries"
    BY <1>1, <2>1, HeartbeatOK
  <2> QED
    BY <2>1, <2>2
<1>3. \A r \in reqs : /\ r.to \in Peers(i) /\ r.mark \in Nat
                      /\ ReqOK(r.req) /\ WaitsOn("beating", r.req)
  <2> HIDE DEF to
  <2> QED
    BY <1>2 DEF WaitsOn
<1> HIDE DEF reqs, to
<1>4. CallsOK'
  BY <1>1, <1>3, SendOK
<1> QED
  BY <1>1, <1>4 DEF LogInv, NodesOK

\* The result of an AppendEntries, as both loops that wait for one take it.
LEMMA AppendResultOK ==
    ASSUME SnapshotThreshold = 0, LogInv, NEW c \in calls, c.at = "replied",
           c.req.type = "AppendEntries"
    PROVE  ResultTaken(core[c.from], c.from, c.to, c.mark, c.resp)
<1>1. /\ c.from \in Server /\ LogOK(core[c.from], c.from) /\ c.to \in Peers(c.from)
      /\ c.mark \in Nat /\ c.resp.term \in Nat /\ HintOK(c.resp) /\ c.resp.success \in BOOLEAN
  BY DEF LogInv, NodesOK, CallsOK, CallOK
<1> QED
  BY <1>1, HandleAppendEntriesResultOK

LEMMA HeartbeatResultOK ==
    ASSUME SnapshotThreshold = 0, LogInv, NEW c \in calls, HeartbeatResult(c)
    PROVE  LogInv'
<1> DEFINE i == c.from
           r == HandleAppendEntriesResult(core[i], c.to, c.mark, c.resp)
<1>1. /\ CallsOK /\ NodesOK /\ i \in Server /\ c.at = "replied" /\ c.req.type = "AppendEntries"
  BY DEF LogInv, CallsOK, CallOK, HeartbeatResult
<1>2. r.panicked = FALSE /\ LogOK(r.core, i)
  BY <1>1, AppendResultOK DEF ResultTaken
<1>3. core' = [core EXCEPT ![i] = r.core]
  BY DEF HeartbeatResult
<1>4. AfterPanic(c, r.panicked)
  BY DEF HeartbeatResult
<1>5. Take(c)
  <2> HIDE DEF r
  <2> QED
    BY <1>2, <1>4 DEF AfterPanic
<1> HIDE DEF r
<1>6. NodesOK'
  BY <1>1, <1>2, <1>3, NodeStepOK
<1>7. CallsOK'
  BY <1>1, <1>5, TakeOK
<1> QED
  BY <1>6, <1>7 DEF LogInv

LEMMA ReplicateResultOK ==
    ASSUME SnapshotThreshold = 0, LogInv, NEW c \in calls, ReplicateResult(c)
    PROVE  LogInv'
<1> DEFINE i == c.from
           r == HandleAppendEntriesResult(core[i], c.to, c.mark, c.resp)
<1>1. /\ CallsOK /\ NodesOK /\ i \in Server /\ c.at = "replied" /\ c.req.type = "AppendEntries"
  BY DEF LogInv, CallsOK, CallOK, ReplicateResult, At, WaitsOn
<1>2. r.panicked = FALSE /\ LogOK(r.core, i)
  BY <1>1, AppendResultOK DEF ResultTaken
<1>3. core' = [core EXCEPT ![i] = r.core]
  BY DEF ReplicateResult
<1>4. \/ task' = [task EXCEPT ![i] = Idle] /\ Drop(CallsOf(i))
      \/ AfterPanic(c, r.panicked)
  BY DEF ReplicateResult
<1> HIDE DEF r
<1>5. NodesOK'
  BY <1>1, <1>2, <1>3, NodeStepOK
<1>6. CallsOK'
  <2>1. CASE task' = [task EXCEPT ![i] = Idle] /\ Drop(CallsOf(i))
    BY <1>1, <2>1, IdleOK, DropAllOK
  <2>2. CASE AfterPanic(c, r.panicked)
    <3>1. Take(c)
      BY <1>2, <2>2 DEF AfterPanic
    <3> QED
      BY <1>1, <3>1, TakeOK
  <2> QED
    BY <1>4, <2>1, <2>2
<1> QED
  BY <1>5, <1>6 DEF LogInv

LEMMA SubmitOK ==
    ASSUME LogInv, NEW i \in Server, NEW command \in Command, Submit(i, command)
    PROVE  LogInv'
<1> DEFINE t == [Idle EXCEPT !.at = "replicate", !.command = command,
                             !.index = LastLogIndex(core[i]) + 1]
<1>1. /\ CallsOK /\ NodesOK /\ LogOK(core[i], i) /\ task[i].at = "idle"
      /\ UNCHANGED <<calls, orphans>>
      /\ core' = [core EXCEPT ![i] = AppendOwnEntry(core[i], command)]
      /\ task' = [task EXCEPT ![i] = t]
  BY DEF LogInv, NodesOK, Submit, At
<1>2. LogOK(AppendOwnEntry(core[i], command), i)
  BY <1>1, AppendOwnEntryOK
<1>3. NodesOK'
  BY <1>1, <1>2, NodeStepOK
<1>4. TaskOK(t)
  <2>1. LastLogIndex(core[i]) + 1 \in Nat
    BY <1>1, LogFacts
  <2> QED
    BY <2>1 DEF TaskOK, TaskFields, Idle
<1>5. CallsOf(i) = {}
  BY <1>1, NoCalls
<1>6. CallsOK'
  <2> HIDE DEF t
  <2> QED
    BY <1>1, <1>4, <1>5, MoveOK
<1> QED
  BY <1>3, <1>6 DEF LogInv

LEMMA ReplicateToPeersOK ==
    ASSUME LogInv, NEW i \in Server, ReplicateToPeers(i)
    PROVE  LogInv'
<1> DEFINE n == core[i]
           E(p) == EntriesAt(n.log, n.next_index[p] .. task[i].index)
           reqs == {[to |-> p, req |-> AppendEntriesArgs(n, i, p, E(p)),
                     mark |-> task[i].index] : p \in Peers(i)}
<1>1. /\ LogOK(n, i) /\ CallsOK /\ Send(i, reqs, "replicating") /\ core' = core
      /\ CallsOf(i) = {} /\ task[i].index \in Nat
  <2>1. task[i].at = "replicate" /\ CallsOK
    BY DEF ReplicateToPeers, At, LogInv
  <2>2. CallsOf(i) = {}
    BY <2>1, NoCalls
  <2> QED
    BY <2>1, <2>2 DEF ReplicateToPeers, LogInv, NodesOK, CallsOK, TaskOK
<1>2. ASSUME NEW p \in Peers(i)
      PROVE  ReqOK(AppendEntriesArgs(n, i, p, E(p)))
             /\ AppendEntriesArgs(n, i, p, E(p)).type = "AppendEntries"
  <2>1. n.next_index[p] \in Nat \ {0}
    BY <1>1 DEF LogOK
  <2>2. \A k \in DOMAIN n.log : k \in (n.next_index[p] .. task[i].index)
                                  <=> n.next_index[p] <= k /\ k <= task[i].index
    <3>1. n.log \in Seq(LogEntry)
      BY <1>1, LogFacts
    <3> QED
      BY <1>1, <2>1, <3>1
  <2>3. Follows(E(p), n.next_index[p] - 1)
    <3> HIDE DEF n
    <3> QED
      BY <1>1, <2>1, <2>2, EntriesFollow
  <2> HIDE DEF n, E
  <2>4. ReqOK(AppendEntriesArgs(n, i, p, E(p)))
    BY <1>1, <2>3, AppendEntriesArgsOK
  <2> QED
    BY <2>4 DEF AppendEntriesArgs
<1>3. \A r \in reqs : /\ r.to \in Peers(i) /\ r.mark \in Nat
                      /\ ReqOK(r.req) /\ WaitsOn("replicating", r.req)
  <2> HIDE DEF n, E
  <2> QED
    BY <1>1, <1>2 DEF WaitsOn
<1> HIDE DEF reqs
<1>4. CallsOK'
  BY <1>1, <1>3, SendOK
<1> QED
  BY <1>1, <1>4 DEF LogInv, NodesOK

LEMMA ReadIndexOK ==
    ASSUME LogInv, NEW i \in Server, ReadIndex(i)
    PROVE  LogInv'
<1> DEFINE t == [Idle EXCEPT !.at = "confirm", !.index = core[i].commit_index,
                             !.after = {a.command : a \in acked}]
<1>1. /\ CallsOK /\ NodesOK /\ LogOK(core[i], i) /\ task[i].at = "idle"
      /\ UNCHANGED <<core, calls, orphans>> /\ task' = [task EXCEPT ![i] = t]
  BY DEF LogInv, NodesOK, ReadIndex, At
<1>2. TaskOK(t)
  BY <1>1 DEF TaskOK, TaskFields, Idle, LogOK
<1>3. CallsOf(i) = {}
  BY <1>1, NoCalls
<1>4. CallsOK'
  <2> HIDE DEF t
  <2> QED
    BY <1>1, <1>2, <1>3, MoveOK
<1> QED
  BY <1>1, <1>4 DEF LogInv, NodesOK

LEMMA ConfirmLeadershipOK ==
    ASSUME LogInv, NEW i \in Server, ConfirmLeadership(i)
    PROVE  LogInv'
<1> DEFINE reqs == {[to |-> p, req |-> AppendEntriesArgs(core[i], i, p, <<>>), mark |-> 0] :
                       p \in Peers(i)}
<1>1. /\ CallsOK /\ NodesOK /\ LogOK(core[i], i) /\ task[i].at = "confirm" /\ core' = core
      /\ \/ Send(i, reqs, "confirming")
         \/ task' = [task EXCEPT ![i] = Idle] /\ UNCHANGED <<calls, orphans>>
  BY DEF LogInv, NodesOK, ConfirmLeadership, At
<1>2. CallsOf(i) = {}
  BY <1>1, NoCalls
<1>3. ASSUME NEW p \in Peers(i)
      PROVE  ReqOK(AppendEntriesArgs(core[i], i, p, <<>>))
             /\ AppendEntriesArgs(core[i], i, p, <<>>).type = "AppendEntries"
  <2>1. Follows(<<>>, core[i].next_index[p] - 1)
    BY DEF Follows
  <2>2. ReqOK(AppendEntriesArgs(core[i], i, p, <<>>))
    BY <1>1, <2>1, AppendEntriesArgsOK
  <2> QED
    BY <2>2 DEF AppendEntriesArgs
<1>4. \A r \in reqs : /\ r.to \in Peers(i) /\ r.mark \in Nat
                      /\ ReqOK(r.req) /\ WaitsOn("confirming", r.req)
  BY <1>3 DEF WaitsOn
<1> HIDE DEF reqs
<1>5. CallsOK'
  <2>1. CASE Send(i, reqs, "confirming")
    BY <1>1, <1>2, <1>4, <2>1, SendOK
  <2>2. CASE task' = [task EXCEPT ![i] = Idle] /\ UNCHANGED <<calls, orphans>>
    BY <1>1, <1>2, <2>2, IdleOK, MoveOK
  <2> QED
    BY <1>1, <2>1, <2>2
<1> QED
  BY <1>1, <1>5 DEF LogInv, NodesOK

LEMMA ConfirmOK ==
    ASSUME LogInv, NEW c \in calls, ConfirmRefused(c) \/ ConfirmResult(c)
    PROVE  LogInv'
<1> DEFINE i == c.from
<1>1. /\ CallsOK /\ NodesOK /\ i \in Server /\ LogOK(core[i], i) /\ TaskOK(task[i])
      /\ c.at = "replied" /\ c.resp.term \in Nat /\ c \in CallsOf(i)
  BY DEF LogInv, NodesOK, CallsOK, CallOK, CallsOf, ConfirmRefused, ConfirmResult
<1>2. CASE ConfirmRefused(c)
  <2> DEFINE m == [core[i] EXCEPT !.current_term = c.resp.term, !.state = "Follower",
                                  !.voted_for = Nil]
  <2>1. /\ core' = [core EXCEPT ![i] = m]
        /\ task' = [task EXCEPT ![i] = Idle] /\ Drop(CallsOf(i))
    BY <1>1, <1>2 DEF ConfirmRefused, NodesOK
  <2>2. LogOK(m, i)
    BY <1>1 DEF LogOK, CoreFields
  <2>3. NodesOK'
    <3> HIDE DEF m
    <3> QED
      BY <1>1, <2>1, <2>2, NodeStepOK
  <2>4. CallsOK'
    BY <1>1, <2>1, IdleOK, DropAllOK
  <2> QED
    BY <2>3, <2>4 DEF LogInv
<1>3. CASE ConfirmResult(c)
  <2> DEFINE acks == task[i].acks + (IF c.resp.success THEN 1 ELSE 0)
             enough == CallsOf(i) \ {c} = {} \/ acks >= (Cardinality(Peers(i)) + 1) \div 2
             done == [task[i] EXCEPT !.acks = acks, !.at = "confirmed"]
             more == [task[i] EXCEPT !.acks = acks]
  <2>1. /\ task' = [task EXCEPT ![i].acks = acks,
                                ![i].at = IF enough THEN "confirmed" ELSE @]
        /\ Drop(IF enough THEN CallsOf(i) ELSE {c}) /\ core' = core
    BY <1>3 DEF ConfirmResult
  <2> HIDE DEF acks, enough
  <2>2. TaskOK(done) /\ TaskOK(more) /\ more.at = task[i].at
    BY <1>1 DEF TaskOK, TaskFields
  <2>3. CASE enough
    <3>1. task' = [task EXCEPT ![i] = done] /\ Drop(CallsOf(i))
      BY <1>1, <2>1, <2>3 DEF CallsOK
    <3> HIDE DEF done
    <3>2. CallsOK'
      BY <1>1, <2>2, <3>1, DropAllOK
    <3> QED
      BY <1>1, <2>1, <3>2 DEF LogInv, NodesOK
  <2>4. CASE ~enough
    <3>1. task' = [task EXCEPT ![i] = more] /\ Drop({c})
      BY <1>1, <2>1, <2>4 DEF CallsOK, TaskOK, TaskFields
    <3> HIDE DEF more
    <3>2. CallsOK'
      BY <1>1, <2>2, <3>1, DropSomeOK
    <3> QED
      BY <1>1, <2>1, <3>2 DEF LogInv, NodesOK
  <2> QED
    BY <2>3, <2>4
<1> QED
  BY <1>2, <1>3

LEMMA EndReadOK ==
    ASSUME LogInv, NEW i \in Server, FinishRead(i) \/ RefuseRead(i)
    PROVE  LogInv'
<1>1. /\ CallsOK /\ NodesOK /\ task[i].at = "confirmed"
      /\ UNCHANGED <<core, calls, orphans>> /\ task' = [task EXCEPT ![i] = Idle]
  BY DEF LogInv, FinishRead, RefuseRead, At
<1>2. CallsOf(i) = {}
  BY <1>1, NoCalls
<1>3. CallsOK'
  BY <1>1, <1>2, IdleOK, MoveOK
<1> QED
  BY <1>1, <1>3 DEF LogInv, NodesOK

\* No call has failed, and no follower has been sent a snapshot.
LEMMA NoSuchCalls ==
    ASSUME LogInv, NEW c \in calls
    PROVE  ~PeerPanicked(c) /\ ~SnapshotResult(c)
BY DEF LogInv, CallsOK, CallOK, ReqOK, PeerPanicked, SnapshotResult

LEMMA DeliverOK ==
    ASSUME SnapshotThreshold = 0, LogInv, NEW c \in calls, Deliver(c)
    PROVE  LogInv'
<1> DEFINE i == c.to
           r == HandleRequest(core[i], c.req)
           d == [c EXCEPT !.at = "replied", !.resp = r.resp]
<1>1. /\ CallsOK /\ NodesOK /\ CallOK(c) /\ i \in Server /\ LogOK(core[i], i) /\ ReqOK(c.req)
      /\ c.from \in Server /\ WaitsOn(task[c.from].at, c.req)
  BY DEF LogInv, NodesOK, CallsOK, CallOK, Peers
<1>2. /\ r.panicked = FALSE /\ LogOK(r.core, i) /\ r.resp.term \in Nat
      /\ c.req.type = "AppendEntries" => HintOK(r.resp) /\ r.resp.success \in BOOLEAN
  BY <1>1, HandleRequestOK
<1>3. /\ core' = [core EXCEPT ![i] = r.core] /\ UNCHANGED <<task, orphans>>
      /\ calls' = (calls \ {c}) \cup {IF r.panicked THEN [c EXCEPT !.at = "failed"] ELSE d}
  BY DEF Deliver
<1> HIDE DEF r
<1>4. calls' = (calls \ {c}) \cup {d}
  BY <1>2, <1>3
<1>5. CallOK(d) /\ d.from = c.from /\ d.req = c.req
  BY <1>1, <1>2 DEF CallOK
<1> HIDE DEF d
<1>6. NodesOK'
  BY <1>1, <1>2, <1>3, NodeStepOK
<1>7. CallsOK'
  BY <1>1, <1>3, <1>4, <1>5 DEF CallsOK
<1> QED
  BY <1>6, <1>7 DEF LogInv

LEMMA DeliverOrphanOK ==
    ASSUME SnapshotThreshold = 0, LogInv, NEW o \in orphans, DeliverOrphan(o)
    PROVE  LogInv'
<1> DEFINE r == HandleRequest(core[o.to], o.req)
<1>1. /\ CallsOK /\ NodesOK /\ o.to \in Server /\ LogOK(core[o.to], o.to) /\ ReqOK(o.req)
  BY DEF LogInv, NodesOK, CallsOK
<1>2. LogOK(r.core, o.to)
  BY <1>1, HandleRequestOK
<1>3. /\ core' = [core EXCEPT ![o.to] = r.core] /\ UNCHANGED <<task, calls>>
      /\ orphans' \subseteq orphans
  BY DEF DeliverOrphan
<1> HIDE DEF r
<1>4. NodesOK'
  BY <1>1, <1>2, <1>3, NodeStepOK
<1>5. CallsOK'
  BY <1>1, <1>3 DEF CallsOK
<1> QED
  BY <1>4, <1>5 DEF LogInv

LEMMA CallsFailOK ==
    ASSUME LogInv, NEW i \in Server, CallsFail(i)
    PROVE  LogInv'
<1>1. /\ CallsOK /\ NodesOK /\ core' = core
      /\ Drop(CallsOf(i)) /\ task' = [task EXCEPT ![i] = WhenCallsEnd(i)]
  BY DEF LogInv, CallsFail
<1>2. TaskOK(WhenCallsEnd(i))
  BY <1>1, WhenCallsEndOK
<1>3. CallsOK'
  BY <1>1, <1>2, DropAllOK
<1> QED
  BY <1>1, <1>3 DEF LogInv, NodesOK

\* What is on disk is the log itself.
LEMMA RestartOK ==
    ASSUME LogInv, NEW i \in Server, Restart(i)
    PROVE  LogInv'
<1> DEFINE n == core[i]
           m == New(i, n.stored_term, n.stored_voted_for, n.stored_log, n.stored_snapshot)
<1>1. /\ CallsOK /\ NodesOK /\ LogOK(n, i) /\ core' = [core EXCEPT ![i] = m]
      /\ Drop(CallsOf(i)) /\ task' = [task EXCEPT ![i] = Idle]
  BY DEF LogInv, NodesOK, Restart
<1>2. LogOK(m, i)
  <2>1. n.stored_term \in Nat /\ Contiguous(n.stored_log) /\ n.stored_snapshot = NoSnapshot
    BY <1>1 DEF LogOK
  <2> HIDE DEF n
  <2> QED
    BY <2>1, NewOK
<1> HIDE DEF m
<1>3. NodesOK'
  BY <1>1, <1>2, NodeStepOK
<1>4. CallsOK'
  BY <1>1, IdleOK, DropAllOK
<1> QED
  BY <1>3, <1>4 DEF LogInv

LEMMA LogInit == Init => LogInv
<1> SUFFICES ASSUME Init PROVE LogInv
  OBVIOUS
<1>1. Contiguous(<<>>)
  BY DEF Contiguous
<1>2. \A i \in Server : LogOK(New(i, 0, Nil, <<>>, NoSnapshot), i)
  BY <1>1, NewOK
<1> QED
  BY <1>2, IdleOK DEF Init, LogInv, NodesOK, CallsOK

LEMMA LogStep == ASSUME SnapshotThreshold = 0, LogInv, [Next]_vars PROVE LogInv'
<1>1. ASSUME NEW i \in Server, LoopStep(i) \/ ElectionTimeout(i) \/ ReadIndex(i)
      PROVE  LogInv'
  BY <1>1, ElectionTimeoutOK, RequestVotesOK, SendHeartbeatOK, ReplicateToPeersOK,
     ConfirmLeadershipOK, EndReadOK, ReadIndexOK DEF LoopStep
<1>2. ASSUME NEW i \in Server, NEW command \in Command, Submit(i, command)
      PROVE  LogInv'
  BY <1>2, SubmitOK
<1>3. ASSUME NEW c \in calls, Deliver(c) \/ TakeResult(c)
      PROVE  LogInv'
  BY <1>3, DeliverOK, VoteResultOK, HeartbeatResultOK, ReplicateResultOK, ConfirmOK,
     NoSuchCalls DEF TakeResult
<1>4. ASSUME NEW o \in orphans, DeliverOrphan(o)
      PROVE  LogInv'
  BY <1>4, DeliverOrphanOK
<1>5. CASE UNCHANGED <<core, task, calls, orphans>>
  BY <1>5, CallsStayOK DEF LogInv, NodesOK
<1>6. ASSUME NEW g \in gets, KvGet(g)
      PROVE  LogInv'
  BY <1>5, <1>6 DEF KvGet, nodeVars
<1>7. ASSUME NEW i \in Server, CallsFail(i) \/ Restart(i)
      PROVE  LogInv'
  BY <1>7, CallsFailOK, RestartOK
<1>8. CASE UNCHANGED vars
  BY <1>5, <1>8 DEF vars, nodeVars
<1> QED
  BY <1>1, <1>2, <1>3, <1>4, <1>6, <1>7, <1>8 DEF Next, Step, Work

(***************************************************************************)
(* Theorems, of a cluster that takes no snapshots.                         *)
(***************************************************************************)

\* Every node's log, and every request, is well-formed in every state, whatever
\* nodes crash and requests are late.
THEOREM LogsHold == ASSUME SnapshotThreshold = 0 PROVE Spec => []LogInv
<1>1. Init => LogInv
  BY LogInit
<1>2. LogInv /\ [Next]_vars => LogInv'
  BY LogStep
<1> QED
  BY <1>1, <1>2, PTL DEF Spec

\* Entry k of every log has index k, which get_log_entry relies on.
THEOREM LogsContiguous == ASSUME SnapshotThreshold = 0 PROVE Spec => []LogContiguous
<1>1. LogInv => LogContiguous
  BY DEF LogInv, NodesOK, LogOK, Contiguous, LogContiguous
<1> QED
  BY <1>1, LogsHold, PTL

\* apply_committed_entries always finds the entries it applies, in the handlers
\* and in the event loop.
THEOREM NothingPanics == ASSUME SnapshotThreshold = 0 PROVE Spec => []NoPanic
<1>1. LogInv => NoPanic
  BY DEF LogInv, CallsOK, CallOK, TaskOK, NoPanic, At
<1> QED
  BY <1>1, LogsHold, PTL
=============================================================================
