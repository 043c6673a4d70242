--------------------------- MODULE RefinementProofs ---------------------------
(***************************************************************************)
(* While snapshots are off and nothing goes through the windows of         *)
(* persistence, submission and reading (GuardedSpec), the cluster          *)
(* implements Replication.  What Replication promises then holds of the    *)
(* logs of its nodes, and from it follows what the cluster promises its    *)
(* clients and its state machines.                                         *)
(***************************************************************************)
EXTENDS RaftClusterProofs

(***************************************************************************)
(* The mapping.  What matters of a call is an AppendEntries request until  *)
(* it is handled, and then a successful answer about some entry.           *)
(***************************************************************************)
Terms == [i \in Server |-> core[i].current_term]
Roles == [i \in Server |-> core[i].state]
Logs == [i \in Server |-> core[i].log]
Commits == [i \in Server |-> core[i].commit_index]
Matches == [i \in Server |-> core[i].match_index]

\* The requests that may still be handled.
SentRequests == {c.req : c \in {d \in calls : d.at = "sent"}} \cup {o.req : o \in orphans}

Requests == {r \in SentRequests : r.type = "AppendEntries"}

IsOk(c) == c.at = "replied" /\ c.req.type = "AppendEntries" /\ c.resp.success /\ c.mark > 0
OkOf(c) == [node |-> c.to, term |-> c.req.term, index |-> c.mark]
Oks == {OkOf(c) : c \in {d \in calls : IsOk(d)}}

R == INSTANCE ReplicationProofs WITH
         Entry <- LogEntry, term <- Terms, role <- Roles, log <- Logs,
         commit <- Commits, match <- Matches, requests <- Requests, oks <- Oks

(***************************************************************************)
(* What the mapping needs to know of the cluster.                          *)
(***************************************************************************)

\* A term that has been won is the winner's, or in its past; the votes that won
\* it are kept as long as it leads.
ElectionsKnown ==
    /\ \A t \in DOMAIN led : [term |-> t, leader |-> led[t].leader] \in elected
    /\ \A e \in elected : e.leader \in Server /\ e.term \in 0 .. core[e.leader].current_term
    /\ \A i \in Server : core[i].state = "Candidate" =>
           [term |-> core[i].current_term, leader |-> i] \notin elected
    /\ \A i \in Server : core[i].state = "Leader" =>
           led[core[i].current_term].voters = core[i].votes_received

\* A request for a vote tells how far the log of its candidate reaches.
BallotRequestOK(r) ==
    LET n == core[r.candidate_id]
    IN  /\ r.candidate_id \in Server /\ r.term <= n.current_term
        /\ n.state = "Candidate" /\ n.current_term = r.term =>
               r.last_log_index = LastLogIndex(n) /\ r.last_log_term = LastLogTerm(n)

BallotRequestsOK == \A r \in SentRequests : r.type = "RequestVote" => BallotRequestOK(r)

\* What a call is marked with is covered by its request; a leader waits for
\* answers in its own term only.
MarksOK ==
    \A c \in calls :
        /\ c.req.type = "AppendEntries" => c.mark <= c.req.prev_log_index + Len(c.req.entries)
        /\ core[c.from].state = "Leader" => c.req.term = core[c.from].current_term

\* A leader goes on with each peer in its log or right after it, and replicates
\* the last entry of its log.
LeadersOK ==
    \A i \in Server :
        /\ core[i].state = "Leader" =>
               \A p \in Peers(i) : core[i].next_index[p] <= Len(core[i].log) + 1
        /\ At(i, "replicate") => task[i].index = Len(core[i].log)

ClusterInv ==
    /\ VoteInv /\ LogInv /\ R!ReplicationInv
    /\ ElectionsKnown /\ BallotRequestsOK /\ MarksOK /\ LeadersOK
    /\ SubmitsAsLeader /\ ReadsSettled

(***************************************************************************)
(* Steps of the mapping.                                                   *)
(***************************************************************************)

Implemented == [R!ReplicationNext]_(R!replicationVars)

LEMMA MappedNodes ==
    /\ \A i \in Server : /\ Terms[i] = core[i].current_term /\ Roles[i] = core[i].state
                         /\ Logs[i] = core[i].log /\ Commits[i] = core[i].commit_index
                         /\ Matches[i] = core[i].match_index
    /\ DOMAIN Terms = Server /\ DOMAIN Roles = Server /\ DOMAIN Logs = Server
    /\ DOMAIN Commits = Server /\ DOMAIN Matches = Server
BY DEF Terms, Roles, Logs, Commits, Matches

\* One node changes.
LEMMA MappedStep ==
    ASSUME DOMAIN core = Server, NEW i \in Server, NEW m, core' = [core EXCEPT ![i] = m]
    PROVE  /\ Terms' = [Terms EXCEPT ![i] = m.current_term]
           /\ Roles' = [Roles EXCEPT ![i] = m.state]
           /\ Logs' = [Logs EXCEPT ![i] = m.log]
           /\ Commits' = [Commits EXCEPT ![i] = m.commit_index]
           /\ Matches' = [Matches EXCEPT ![i] = m.match_index]
BY DEF Terms, Roles, Logs, Commits, Matches

\* Calls that end leave no more on the wire than there was.
LEMMA WireShrinks ==
    ASSUME calls' \subseteq calls,
           \A o \in orphans' : \/ o \in orphans
                               \/ \E c \in calls : /\ c.at = "sent"
                                                   /\ o = [to |-> c.to, req |-> c.req]
    PROVE  SentRequests' \subseteq SentRequests /\ R!Fewer
<1>1. SentRequests' \subseteq SentRequests
  <2> SUFFICES ASSUME NEW r \in SentRequests' PROVE r \in SentRequests
    OBVIOUS
  <2>1. CASE \E c \in calls' : c.at = "sent" /\ r = c.req
    BY <2>1 DEF SentRequests
  <2>2. CASE \E o \in orphans' : r = o.req
    <3>1. PICK o \in orphans' : r = o.req
      BY <2>2
    <3>2. CASE o \in orphans
      BY <3>1, <3>2 DEF SentRequests
    <3>3. CASE \E c \in calls : c.at = "sent" /\ o = [to |-> c.to, req |-> c.req]
      BY <3>1, <3>3 DEF SentRequests
    <3> QED
      BY <3>2, <3>3
  <2> QED
    BY <2>1, <2>2 DEF SentRequests
<1>2. Requests' \subseteq Requests
  BY <1>1 DEF Requests
<1>3. Oks' \subseteq Oks
  BY DEF Oks
<1> QED
  BY <1>1, <1>2, <1>3 DEF R!Fewer

LEMMA WireDrops ==
    ASSUME CallsOK, NEW S, S \subseteq calls, Drop(S)
    PROVE  calls' = calls \ S /\ SentRequests' \subseteq SentRequests /\ R!Fewer
<1>1. /\ calls' = calls \ S
      /\ \A o \in orphans' : \/ o \in orphans
                             \/ \E c \in S : /\ c.at = "sent"
                                             /\ o = [to |-> c.to, req |-> c.req]
  BY DropFacts
<1> QED
  BY <1>1, WireShrinks

LEMMA WireTakes ==
    ASSUME NEW c \in calls, Take(c)
    PROVE  calls' = calls \ {c} /\ SentRequests' \subseteq SentRequests /\ R!Fewer
<1>1. calls' = calls \ {c} /\ orphans' = orphans
  BY DEF Take
<1> QED
  BY <1>1, WireShrinks

LEMMA WireStays ==
    ASSUME UNCHANGED <<calls, orphans>>
    PROVE  SentRequests' = SentRequests /\ Oks' = Oks /\ Requests' = Requests /\ R!Fewer
BY DEF SentRequests, Oks, Requests, R!Fewer

\* Nothing that matters changes.
LEMMA Stutters ==
    ASSUME UNCHANGED <<core, calls, orphans, votes, led>>
    PROVE  Implemented
<1>1. UNCHANGED <<Terms, Roles, Logs, Commits, Matches>>
  BY DEF Terms, Roles, Logs, Commits, Matches
<1>2. Requests' = Requests /\ Oks' = Oks
  BY WireStays
<1> QED
  BY <1>1, <1>2 DEF Implemented, R!replicationVars, R!nodes

\* Node m is n later on: in a new term it follows.
Moved(n, m) ==
    /\ m.current_term \in Nat /\ m.current_term >= n.current_term
    /\ m.state = "Follower" \/ (m.state = n.state /\ m.current_term = n.current_term)

SameLog(n, m) ==
    /\ m.log = n.log /\ m.commit_index = n.commit_index
    /\ m.match_index = n.match_index /\ m.next_index = n.next_index
    /\ m.last_applied = n.last_applied /\ m.sm = n.sm

LEMMA SameLogMapped ==
    ASSUME DOMAIN core = Server, NEW i \in Server, NEW m, SameLog(core[i], m),
           core' = [core EXCEPT ![i] = m]
    PROVE  Logs' = Logs /\ Commits' = Commits /\ Matches' = Matches
BY MappedStep, MappedNodes DEF SameLog, Logs, Commits, Matches

LEMMA MovedMapped ==
    ASSUME DOMAIN core = Server, NEW i \in Server, NEW m, Moved(core[i], m),
           core' = [core EXCEPT ![i] = m]
    PROVE  R!MovesTo(i, m.current_term) /\ Terms'[i] = m.current_term
<1>1. /\ Terms' = [Terms EXCEPT ![i] = m.current_term]
      /\ Roles' = [Roles EXCEPT ![i] = m.state]
  BY MappedStep
<1>2. Terms[i] = core[i].current_term /\ Roles[i] = core[i].state /\ DOMAIN Terms = Server
  BY MappedNodes
<1>3. m.state = core[i].state => Roles' = Roles
  BY <1>1, <1>2 DEF Roles
<1> QED
  BY <1>1, <1>2, <1>3 DEF Moved, R!MovesTo

LEMMA ObserveMapped ==
    ASSUME DOMAIN core = Server, NEW i \in Server, NEW m,
           Moved(core[i], m), SameLog(core[i], m),
           core' = [core EXCEPT ![i] = m], UNCHANGED <<votes, led>>, R!Fewer
    PROVE  Implemented
<1>1. R!MovesTo(i, m.current_term) /\ Terms'[i] = m.current_term
  BY MovedMapped
<1>2. Logs' = Logs /\ Commits' = Commits /\ Matches' = Matches
  BY SameLogMapped
<1>3. R!Observe(i)
  BY <1>1, <1>2 DEF R!Observe
<1> QED
  BY <1>3 DEF Implemented, R!ReplicationNext, R!Work

\* Only messages are lost.
LEMMA LossMapped ==
    ASSUME LogInv, NEW i \in Server, UNCHANGED <<core, votes, led>>, R!Fewer
    PROVE  Implemented
<1>1. UNCHANGED <<Terms, Roles, Logs, Commits, Matches>>
  BY DEF Terms, Roles, Logs, Commits, Matches
<1>2. Terms[i] \in Nat /\ Terms[i] >= Terms[i]
  BY MappedNodes DEF LogInv, NodesOK, LogOK
<1>3. Terms = [Terms EXCEPT ![i] = Terms[i]]
  BY DEF Terms
<1>4. R!MovesTo(i, Terms'[i])
  BY <1>1, <1>2, <1>3 DEF R!MovesTo
<1>5. R!Observe(i)
  BY <1>1, <1>4 DEF R!Observe
<1> QED
  BY <1>5 DEF Implemented, R!ReplicationNext, R!Work

(***************************************************************************)
(* Elections and writes.                                                   *)
(***************************************************************************)

LEMMA MajoritiesMapped == R!Majorities = {Q \in SUBSET Server : Cardinality(Q) >= Majority}
<1>1. ASSUME NEW S PROVE R!Cardinality(S) = Cardinality(S)
  BY Zenon DEF Cardinality, R!Cardinality
<1> QED
  BY <1>1 DEF R!Majorities, Majority

LEMMA InvNode ==
    ASSUME ClusterInv, NEW i \in Server
    PROVE  /\ LogOK(core[i], i) /\ CoreOK(core[i]) /\ DOMAIN core = Server
           /\ core[i].log \in Seq(LogEntry) /\ Len(core[i].log) \in Nat
           /\ core[i].current_term \in Nat
           /\ core[i].commit_index \in Nat /\ core[i].commit_index <= Len(core[i].log)
<1>1. LogOK(core[i], i) /\ CoreOK(core[i]) /\ DOMAIN core = Server
  BY DEF ClusterInv, LogInv, NodesOK, VoteInv, TypeOK
<1>2. Commits[i] <= Len(Logs[i])
  BY DEF ClusterInv, R!ReplicationInv, R!CommitsSettled
<1>3. core[i].commit_index <= Len(core[i].log)
  BY <1>2, MappedNodes
<1>4. core[i].current_term \in Nat /\ core[i].commit_index \in Nat
  BY <1>1 DEF LogOK
<1> QED
  BY <1>1, <1>3, <1>4, LogFacts

\* The leader of a term is the one that won it, with the log that is followed.
LEMMA InvLeader ==
    ASSUME ClusterInv, NEW i \in Server, core[i].state = "Leader"
    PROVE  LET t == core[i].current_term
           IN  /\ t \in DOMAIN led /\ led[t].leader = i /\ led[t].log = core[i].log
               /\ led[t].voters = core[i].votes_received
<1>1. /\ Terms[i] \in DOMAIN led /\ led[Terms[i]].leader = i /\ led[Terms[i]].log = Logs[i]
  BY MappedNodes DEF ClusterInv, R!ReplicationInv, R!LeadersFollowed
<1> QED
  BY <1>1, MappedNodes DEF ClusterInv, ElectionsKnown

LEMMA ElectionTimeoutMapped ==
    ASSUME ClusterInv, NEW i \in Server, ElectionTimeout(i)
    PROVE  Implemented
<1> DEFINE m == StartElection(core[i], i)
<1>1. /\ core' = [core EXCEPT ![i] = m] /\ core[i].state # "Leader"
      /\ votes' = votes \cup {[voter |-> i, term |-> core[i].current_term + 1, candidate |-> i]}
      /\ UNCHANGED <<calls, orphans, led>>
  BY DEF ElectionTimeout
<1>2. LogOK(core[i], i) /\ DOMAIN core = Server
  BY InvNode
<1>3. Kept(core[i], m) /\ m.current_term = core[i].current_term + 1 /\ m.state = "Candidate"
  BY <1>2, StartElectionKept
<1> HIDE DEF m
<1>4. Logs' = Logs /\ Commits' = Commits /\ Matches' = Matches
  BY <1>1, <1>2, <1>3, SameLogMapped DEF Kept, SameLog
<1>5. /\ Terms' = [Terms EXCEPT ![i] = Terms[i] + 1]
      /\ Roles' = [Roles EXCEPT ![i] = "Candidate"]
      /\ Roles[i] = core[i].state /\ Terms[i] = core[i].current_term
  <2>1. /\ Terms' = [Terms EXCEPT ![i] = m.current_term]
        /\ Roles' = [Roles EXCEPT ![i] = m.state]
    BY <1>1, <1>2, MappedStep
  <2> QED
    BY <1>3, <2>1, MappedNodes
<1>6. R!Stand(i)
  BY <1>1, <1>4, <1>5, WireStays DEF R!Stand
<1> QED
  BY <1>6 DEF Implemented, R!ReplicationNext, R!Work

\* The leader appends an entry for the command.
LEMMA SubmitMapped ==
    ASSUME ClusterInv, NEW i \in Server, NEW command \in Command, Submit(i, command)
    PROVE  Implemented
<1> DEFINE n == core[i]
           m == AppendOwnEntry(n, command)
           t == n.current_term
<1>1. /\ core' = [core EXCEPT ![i] = m] /\ n.state = "Leader"
      /\ Follow(i, core'[i]) /\ UNCHANGED <<calls, orphans, votes>>
  BY DEF Submit
<1>2. LogOK(n, i) /\ DOMAIN core = Server /\ t \in Nat
  BY InvNode
<1>3. /\ m.log \in Seq(LogEntry) /\ Len(m.log) = Len(n.log) + 1
      /\ m.log = Append(n.log, m.log[Len(m.log)])
      /\ m.log[Len(m.log)].term = t
      /\ m.current_term = t /\ m.state = n.state
      /\ m.votes_received = n.votes_received
      /\ m.commit_index = n.commit_index /\ m.match_index = n.match_index
  BY <1>2, AppendOwnEntryOK
<1>4. t \in DOMAIN led /\ led[t].leader = i /\ led[t].voters = n.votes_received
  BY <1>1, InvLeader
<1>5. core'[i] = m
  BY <1>1, <1>2
<1> HIDE DEF m
<1>6. /\ Terms' = Terms /\ Roles' = Roles /\ Commits' = Commits /\ Matches' = Matches
      /\ Logs' = [Logs EXCEPT ![i] = m.log]
  <2>1. /\ Terms' = [Terms EXCEPT ![i] = m.current_term]
        /\ Roles' = [Roles EXCEPT ![i] = m.state]
        /\ Logs' = [Logs EXCEPT ![i] = m.log]
        /\ Commits' = [Commits EXCEPT ![i] = m.commit_index]
        /\ Matches' = [Matches EXCEPT ![i] = m.match_index]
    BY <1>1, <1>2, MappedStep
  <2>2. /\ m.current_term = Terms[i] /\ m.state = Roles[i]
        /\ m.commit_index = Commits[i] /\ m.match_index = Matches[i]
    BY <1>3, MappedNodes
  <2> QED
    BY ZenonT(40), <2>1, <2>2 DEF Terms, Roles, Commits, Matches
<1>7. /\ Terms[i] = t /\ Roles[i] = "Leader" /\ Logs[i] = n.log /\ Logs'[i] = m.log
  BY <1>1, <1>6, MappedNodes
<1>8. /\ DOMAIN led' = DOMAIN led
      /\ led'[t] = [leader |-> i, voters |-> led[t].voters, log |-> m.log]
      /\ \A u \in DOMAIN led : u # t => led'[u] = led[u]
  BY <1>1, <1>3, <1>4, <1>5 DEF Follow
<1>9. R!OneMore(n.log, m.log, t)
  <2>1. Len(m.log) \in 1 .. Len(m.log)
    BY <1>2, <1>3, LogFacts
  <2>2. m.log[Len(m.log)] \in LogEntry
    BY <1>3, <2>1
  <2> QED
    BY <1>3, <2>2 DEF R!OneMore
<1> HIDE DEF n, t
<1>10. R!Extend(i)
  BY <1>1, <1>6, <1>7, <1>8, <1>9, WireStays DEF R!Extend
<1> QED
  BY <1>10 DEF Implemented, R!ReplicationNext, R!Work

\* Who has voted for a winner.
Winning(n, i, m) ==
    /\ m.votes_received \in SUBSET Server /\ Cardinality(m.votes_received) >= Majority
    /\ \A p \in m.votes_received :
           [voter |-> p, term |-> n.current_term, candidate |-> i] \in votes

LEMMA WinnerHasVotes ==
    ASSUME ClusterInv, NEW c \in calls, VoteResult(c),
           HandleRequestVoteResult(core[c.from], c.from, c.to, c.resp).elected
    PROVE  Winning(core[c.from], c.from,
                   HandleRequestVoteResult(core[c.from], c.from, c.to, c.resp).core)
<1> DEFINE i == c.from
           n == core[i]
           r == HandleRequestVoteResult(n, i, c.to, c.resp)
           counted == n.votes_received \cup IF c.resp.vote_granted THEN {c.to} ELSE {}
<1>1. LoopsOK /\ CoresOK
  BY VoteInvParts DEF ClusterInv
<1>2. /\ i \in Server /\ c.to \in Server /\ c.resp.term \in Nat
      /\ c.resp.vote_granted \in BOOLEAN
      /\ c.resp.vote_granted => [voter |-> c.to, term |-> c.req.term, candidate |-> i] \in votes
      /\ n.state = "Candidate" => c.req.term = n.current_term
  BY <1>1 DEF VoteResult, LoopsOK, CallTypeOK, GrantsInFlight
<1>3. CoreOK(n)
  BY <1>2, InvNode
<1>4. /\ r.elected \in BOOLEAN
      /\ \/ Quiet(n, r.core) /\ ~r.elected
         \/ /\ n.state = "Candidate"
            /\ r.core.votes_received = counted
            /\ \/ ~r.elected /\ r.core.state = "Candidate"
               \/ /\ r.elected /\ r.core.state = "Leader"
                  /\ Cardinality(counted) >= Majority
  BY <1>2, <1>3, HandleRequestVoteResultCounts
<1>5. r.elected
  OBVIOUS
<1> HIDE DEF r
<1>6. n.state = "Candidate" /\ r.core.votes_received = counted
      /\ Cardinality(counted) >= Majority
  BY <1>4, <1>5
<1>7. counted \subseteq Server
  BY <1>2, <1>3 DEF CoreOK, CoreTypeOK, VoteStored
<1>8. \A p \in counted : [voter |-> p, term |-> n.current_term, candidate |-> i] \in votes
  BY <1>1, <1>2, <1>6 DEF CoresOK, CountedVotesGiven
<1> HIDE DEF counted, n
<1> QED
  BY <1>6, <1>7, <1>8 DEF Winning, r, n

\* A term is won once.
LEMMA FirstWin ==
    ASSUME ClusterInv, ElectionSafety', NEW i \in Server, core[i].state = "Candidate",
           elected' = elected \cup {[term |-> core[i].current_term, leader |-> i]}
    PROVE  core[i].current_term \notin DOMAIN led
<1> DEFINE t == core[i].current_term
<1> SUFFICES ASSUME t \in DOMAIN led PROVE FALSE
  OBVIOUS
<1>1. [term |-> t, leader |-> led[t].leader] \in elected /\ [term |-> t, leader |-> i] \notin elected
  BY DEF ClusterInv, ElectionsKnown
<1>2. led[t].leader = i
  BY <1>1 DEF ElectionSafety
<1> QED
  BY <1>1, <1>2

LEMMA VoteResultMapped ==
    ASSUME ClusterInv, ElectionSafety', NEW c \in calls, VoteResult(c)
    PROVE  Implemented
<1> DEFINE i == c.from
           n == core[i]
           r == HandleRequestVoteResult(n, i, c.to, c.resp)
           m == r.core
           t == n.current_term
<1>1. /\ i \in Server /\ c.resp.term \in Nat /\ CallsOK
      /\ core' = [core EXCEPT ![i] = m] /\ UNCHANGED votes
  BY DEF ClusterInv, LogInv, CallsOK, CallOK, VoteResult
<1>2. LogOK(n, i) /\ DOMAIN core = Server /\ t \in Nat
  BY <1>1, InvNode
<1>3. /\ r.elected \in BOOLEAN
      /\ r.elected => n.state = "Candidate" /\ Won(n, m, i)
      /\ ~r.elected => /\ Kept(n, m) /\ LogOK(m, i)
                       /\ \/ m.current_term = n.current_term /\ m.state = n.state
                          \/ m.current_term > n.current_term /\ m.state = "Follower"
  BY <1>1, <1>2, HandleRequestVoteResultOK
<1>4. r.elected => Winning(n, i, m)
  BY WinnerHasVotes
<1>5. IF r.elected
      THEN /\ elected' = elected \cup {[term |-> m.current_term, leader |-> i]}
           /\ Follow(i, m) /\ Drop(CallsOf(i))
      ELSE Take(c) /\ UNCHANGED <<elected, led>>
  BY DEF VoteResult
<1> HIDE DEF r
<1>6. CASE ~r.elected
  <2>1. Moved(n, m) /\ SameLog(n, m)
    BY <1>2, <1>3, <1>6 DEF Kept, LogOK, Moved, SameLog
  <2>2. R!Fewer /\ UNCHANGED led
    BY <1>5, <1>6, WireTakes
  <2> HIDE DEF m
  <2> QED
    BY <1>1, <1>2, <2>1, <2>2, ObserveMapped
<1>7. CASE r.elected
  <2> HIDE DEF m
  <2>1. n.state = "Candidate" /\ Won(n, m, i) /\ Winning(n, i, m) /\ m.current_term = t
    BY <1>3, <1>4, <1>7 DEF Won
  <2>2. t \notin DOMAIN led
    <3>1. elected' = elected \cup {[term |-> t, leader |-> i]}
      BY <1>5, <1>7, <2>1
    <3> QED
      BY <1>1, <2>1, <3>1, FirstWin
  <2>3. /\ DOMAIN led' = DOMAIN led \cup {t}
        /\ led'[t] = [leader |-> i, voters |-> m.votes_received, log |-> m.log]
        /\ \A u \in DOMAIN led : led'[u] = led[u]
    BY <1>5, <1>7, <2>1, <2>2 DEF Follow
  <2>4. m.votes_received \in R!Majorities
    BY <2>1, MajoritiesMapped DEF Winning
  <2>5. R!OneMore(n.log, m.log, t)
    <3>1. Len(m.log) \in 1 .. Len(m.log) /\ m.log \in Seq(LogEntry)
      BY <1>2, <2>1, LogFacts DEF Won
    <3>2. m.log[Len(m.log)] \in LogEntry
      BY <3>1
    <3> QED
      BY <2>1, <3>2 DEF R!OneMore, Won
  <2>6. m.state = "Leader" /\ m.commit_index = n.commit_index
        /\ m.match_index = [p \in Server \ {i} |-> 0]
    BY <2>1 DEF Won, Peers
  <2>7. /\ Terms' = Terms /\ Commits' = Commits
        /\ Roles' = [Roles EXCEPT ![i] = "Leader"] /\ Logs' = [Logs EXCEPT ![i] = m.log]
        /\ Matches' = [Matches EXCEPT ![i] = [p \in Server \ {i} |-> 0]]
    <3>1. /\ Terms' = [Terms EXCEPT ![i] = m.current_term]
          /\ Roles' = [Roles EXCEPT ![i] = m.state]
          /\ Logs' = [Logs EXCEPT ![i] = m.log]
          /\ Commits' = [Commits EXCEPT ![i] = m.commit_index]
          /\ Matches' = [Matches EXCEPT ![i] = m.match_index]
      BY <1>1, <1>2, MappedStep
    <3>2. m.current_term = Terms[i] /\ m.commit_index = Commits[i]
      BY <1>1, <2>1, <2>6, MappedNodes
    <3>3. Terms' = Terms /\ Commits' = Commits
      BY <3>1, <3>2 DEF Terms, Commits
    <3> QED
      BY <2>6, <3>1, <3>3
  <2>8. R!Fewer
    BY <1>1, <1>5, <1>7, WireDrops DEF CallsOf
  <2>9. Terms[i] = t /\ Roles[i] = "Candidate" /\ Logs[i] = n.log
    BY <1>1, <2>1, MappedNodes
  <2>10. \A p \in m.votes_received : [voter |-> p, term |-> t, candidate |-> i] \in votes
    BY <2>1 DEF Winning
  <2> HIDE DEF n, t
  <2>11. /\ led'[t].leader = i /\ led'[t].voters = m.votes_received
         /\ led'[t].log = m.log
    BY <2>3
  <2>12. R!Win(i)
    BY <1>1, <2>2, <2>3, <2>4, <2>5, <2>7, <2>8, <2>9, <2>10, <2>11 DEF R!Win
  <2> QED
    BY <1>1, <2>12 DEF Implemented, R!ReplicationNext, R!Work
<1> QED
  BY <1>3, <1>6, <1>7

(***************************************************************************)
(* Sending.                                                                *)
(***************************************************************************)

LEMMA WireSends ==
    ASSUME NEW i, NEW reqs, NEW where, Send(i, reqs, where)
    PROVE  /\ \A q \in SentRequests' : q \in SentRequests \/ \E r \in reqs : q = r.req
           /\ Oks' \subseteq Oks
<1> DEFINE new == {[from |-> i, to |-> r.to, req |-> r.req, mark |-> r.mark,
                    at |-> "sent", resp |-> Nil] : r \in reqs}
<1>1. calls' = calls \cup new /\ orphans' = orphans
  BY DEF Send
<1>2. ASSUME NEW d \in new PROVE d.at = "sent" /\ \E r \in reqs : d.req = r.req
  OBVIOUS
<1> HIDE DEF new
<1>3. ASSUME NEW q \in SentRequests' PROVE q \in SentRequests \/ \E r \in reqs : q = r.req
  <2>1. CASE \E d \in calls' : d.at = "sent" /\ q = d.req
    BY <1>1, <1>2, <2>1 DEF SentRequests
  <2>2. CASE \E o \in orphans' : q = o.req
    BY <1>1, <2>2 DEF SentRequests
  <2> QED
    BY <2>1, <2>2 DEF SentRequests
<1>4. Oks' \subseteq Oks
  BY <1>1, <1>2 DEF Oks, IsOk
<1> QED
  BY <1>3, <1>4

LEMMA SendMapped ==
    ASSUME ClusterInv, NEW i \in Server, core[i].state = "Leader",
           NEW reqs, NEW where, Send(i, reqs, where), UNCHANGED <<core, votes, led>>,
           \A r \in reqs : R!Sends(i, r.req)
    PROVE  Implemented
<1>1. /\ \A q \in SentRequests' : q \in SentRequests \/ \E r \in reqs : q = r.req
      /\ Oks' \subseteq Oks
  BY WireSends
<1>2. \A m \in Requests' : m \in Requests \/ R!Sends(i, m)
  BY <1>1 DEF Requests
<1>3. UNCHANGED <<Terms, Roles, Logs, Commits, Matches>>
  BY DEF Terms, Roles, Logs, Commits, Matches
<1>4. Roles[i] = "Leader"
  BY MappedNodes
<1>5. R!Send(i)
  BY <1>1, <1>2, <1>3, <1>4 DEF R!Send, R!nodes
<1> QED
  BY <1>5 DEF Implemented, R!ReplicationNext, R!Work

\* Requests for votes are no concern of replication.
LEMMA RequestVotesMapped ==
    ASSUME ClusterInv, NEW i \in Server, RequestVotes(i)
    PROVE  Implemented
<1> DEFINE reqs == {[to |-> p, req |-> RequestVoteArgs(core[i], i), mark |-> 0] : p \in Peers(i)}
<1>1. Send(i, reqs, "voting") /\ UNCHANGED <<core, votes, led>>
  BY DEF RequestVotes
<1>2. \A r \in reqs : r.req.type = "RequestVote"
  BY DEF RequestVoteArgs
<1> HIDE DEF reqs
<1>3. /\ \A q \in SentRequests' : q \in SentRequests \/ \E r \in reqs : q = r.req
      /\ Oks' \subseteq Oks
  BY <1>1, WireSends
<1>4. R!Fewer
  BY <1>2, <1>3 DEF R!Fewer, Requests
<1> QED
  BY <1>1, <1>4, LossMapped DEF ClusterInv

\* An AppendEntries whose entries are a part of the leader's log that reaches as
\* far as its commit index.
LEMMA ArgsSend ==
    ASSUME ClusterInv, NEW i \in Server, core[i].state = "Leader", NEW p \in Peers(i),
           NEW entries, Follows(entries, core[i].next_index[p] - 1),
           core[i].next_index[p] - 1 + Len(entries) <= Len(core[i].log),
           \A k \in 1 .. Len(entries) :
               entries[k] = core[i].log[core[i].next_index[p] - 1 + k],
           core[i].commit_index <= core[i].next_index[p] - 1 + Len(entries)
    PROVE  R!Sends(i, AppendEntriesArgs(core[i], i, p, entries))
<1> DEFINE n == core[i]
           prev == n.next_index[p] - 1
           m == AppendEntriesArgs(n, i, p, entries)
<1>1. /\ LogOK(n, i) /\ n.log \in Seq(LogEntry) /\ Len(n.log) \in Nat
      /\ n.commit_index \in Nat /\ n.current_term \in Nat
  BY InvNode
<1>2. prev \in Nat /\ n.snapshot_last_index = 0 /\ n.snapshot_last_term = 0
  BY SMTT(30), <1>1 DEF LogOK
<1>3. entries \in Seq(LogEntry) /\ Len(entries) \in Nat /\ DOMAIN entries = 1 .. Len(entries)
  BY DEF Follows
<1>4. /\ m.term = n.current_term /\ m.prev_log_index = prev /\ m.entries = entries
      /\ m.prev_log_term = PrevLogTerm(n, prev) /\ m.leader_commit = n.commit_index
  BY DEF AppendEntriesArgs
<1>5. prev > 0 => PrevLogTerm(n, prev) = n.log[prev].term
  <2> SUFFICES ASSUME prev > 0 PROVE PrevLogTerm(n, prev) = n.log[prev].term
    OBVIOUS
  <2>1. prev \in DOMAIN n.log
    BY <1>1, <1>2, <1>3
  <2>2. HasLogEntry(n, prev) /\ GetLogEntry(n, prev) = n.log[prev]
    BY <1>1, <1>2, <2>1, LogFacts
  <2> QED
    BY <1>2, <2>2 DEF PrevLogTerm
<1>6. Terms[i] = n.current_term /\ Logs[i] = n.log /\ Commits[i] = n.commit_index
  BY MappedNodes
<1>7. R!Last(m) = prev + Len(entries)
  BY <1>4 DEF R!Last
<1> HIDE DEF m, prev, n
<1>8. /\ prev + Len(entries) <= Len(n.log) /\ n.commit_index <= prev + Len(entries)
      /\ \A k \in 1 .. Len(entries) : entries[k] = n.log[prev + k]
  BY DEF prev, n
<1>9. n.commit_index <= n.commit_index
  BY <1>1
<1>10. R!Sends(i, m)
  BY <1>1, <1>2, <1>3, <1>4, <1>5, <1>6, <1>7, <1>8, <1>9 DEF R!Sends
<1> QED
  BY <1>10 DEF m, n

LEMMA NextInLog ==
    ASSUME ClusterInv, NEW i \in Server, core[i].state = "Leader", NEW p \in Peers(i)
    PROVE  /\ core[i].next_index[p] \in Nat \ {0}
           /\ core[i].next_index[p] - 1 <= Len(core[i].log)
<1>1. core[i].next_index[p] \in Nat \ {0}
  BY InvNode DEF LogOK
<1>2. core[i].next_index[p] <= Len(core[i].log) + 1 /\ Len(core[i].log) \in Nat
  BY InvNode DEF ClusterInv, LeadersOK
<1> QED
  BY <1>1, <1>2

LEMMA SendHeartbeatMapped ==
    ASSUME ClusterInv, NEW i \in Server, SendHeartbeat(i)
    PROVE  Implemented
<1> DEFINE to == IF core[i].state = "Leader" THEN Peers(i) ELSE {}
           reqs == {Heartbeat(core[i], i, p) : p \in to}
<1>1. Send(i, reqs, "beating") /\ UNCHANGED <<core, votes, led>>
  BY DEF SendHeartbeat
<1>2. CASE core[i].state = "Leader"
  <2>1. ASSUME NEW p \in Peers(i)
        PROVE  R!Sends(i, Heartbeat(core[i], i, p).req)
    <3> DEFINE next == core[i].next_index[p]
               entries == EntriesAt(core[i].log, Onward(next))
    <3>1. Heartbeat(core[i], i, p).req = AppendEntriesArgs(core[i], i, p, entries)
      BY InvNode, HeartbeatOK
    <3>2. /\ LogOK(core[i], i) /\ core[i].log \in Seq(LogEntry) /\ Len(core[i].log) \in Nat
          /\ core[i].commit_index \in Nat /\ core[i].commit_index <= Len(core[i].log)
      BY InvNode
    <3>3. next \in Nat \ {0} /\ next - 1 <= Len(core[i].log)
      BY <1>2, NextInLog
    <3> HIDE DEF next
    <3>4. \A k \in DOMAIN core[i].log :
             k \in Onward(next) <=> next <= k /\ k <= Len(core[i].log)
      BY <3>2, <3>3 DEF Onward
    <3>5. /\ Follows(entries, next - 1) /\ Len(entries) \in Nat
          /\ \A k \in 1 .. Len(entries) : entries[k] = core[i].log[next - 1 + k]
          /\ Len(entries) > 0 => next - 1 + Len(entries) = IF Len(core[i].log) <= Len(core[i].log)
                                                          THEN Len(core[i].log) ELSE Len(core[i].log)
          /\ Len(entries) = 0 => Len(core[i].log) < next \/ Len(core[i].log) < next
      BY <3>2, <3>3, <3>4, EntriesFollow
    <3> HIDE DEF entries
    <3>6. next - 1 + Len(entries) = Len(core[i].log)
      BY <3>2, <3>3, <3>5
    <3>7. R!Sends(i, AppendEntriesArgs(core[i], i, p, entries))
      BY <1>2, <3>2, <3>5, <3>6, ArgsSend DEF next
    <3> QED
      BY <3>1, <3>7
  <2>2. \A r \in reqs : R!Sends(i, r.req)
    BY <1>2, <2>1
  <2> HIDE DEF reqs
  <2> QED
    BY <1>1, <1>2, <2>2, SendMapped
<1>3. CASE core[i].state # "Leader"
  <2>1. reqs = {}
    BY <1>3
  <2> HIDE DEF reqs
  <2>2. R!Fewer
    BY <1>1, <2>1, WireSends DEF R!Fewer, Requests
  <2> QED
    BY <1>1, <2>2, LossMapped DEF ClusterInv
<1> QED
  BY <1>2, <1>3

\* The entries up to the one that was submitted, which is the last of the log.
LEMMA ReplicateToPeersMapped ==
    ASSUME ClusterInv, NEW i \in Server, ReplicateToPeers(i)
    PROVE  Implemented
<1> DEFINE n == core[i]
           top == task[i].index
           E(p) == EntriesAt(n.log, n.next_index[p] .. top)
           reqs == {[to |-> p, req |-> AppendEntriesArgs(n, i, p, E(p)),
                     mark |-> top] : p \in Peers(i)}
<1>1. Send(i, reqs, "replicating") /\ UNCHANGED <<core, votes, led>> /\ At(i, "replicate")
  BY DEF ReplicateToPeers
<1>2. n.state = "Leader" /\ top = Len(n.log)
  BY <1>1 DEF ClusterInv, SubmitsAsLeader, LeadersOK
<1>3. /\ LogOK(n, i) /\ n.log \in Seq(LogEntry) /\ Len(n.log) \in Nat
      /\ n.commit_index \in Nat /\ n.commit_index <= Len(n.log)
  BY InvNode
<1>4. ASSUME NEW p \in Peers(i)
      PROVE  R!Sends(i, AppendEntriesArgs(n, i, p, E(p)))
  <2> DEFINE next == n.next_index[p]
             entries == E(p)
  <2>1. next \in Nat \ {0} /\ next - 1 <= Len(n.log)
    BY <1>2, NextInLog
  <2> HIDE DEF next, top, n
  <2>2. \A k \in DOMAIN n.log : k \in (next .. top) <=> next <= k /\ k <= Len(n.log)
    BY <1>2, <1>3, <2>1
  <2>3. /\ Follows(entries, next - 1) /\ Len(entries) \in Nat
        /\ \A k \in 1 .. Len(entries) : entries[k] = n.log[next - 1 + k]
        /\ Len(entries) > 0 => next - 1 + Len(entries) = IF Len(n.log) <= Len(n.log)
                                                        THEN Len(n.log) ELSE Len(n.log)
        /\ Len(entries) = 0 => Len(n.log) < next \/ Len(n.log) < next
    BY <1>3, <2>1, <2>2, EntriesFollow DEF next
  <2> HIDE DEF E, entries
  <2>4. next - 1 + Len(entries) = Len(n.log)
    BY <1>3, <2>1, <2>3
  <2>5. R!Sends(i, AppendEntriesArgs(n, i, p, entries))
    BY <1>2, <1>3, <2>3, <2>4, ArgsSend DEF next, n
  <2> QED
    BY <2>5 DEF entries
<1>5. \A r \in reqs : R!Sends(i, r.req)
  <2> HIDE DEF E, n, top
  <2> QED
    BY <1>4
<1> HIDE DEF reqs
<1> QED
  BY <1>1, <1>2, <1>5, SendMapped

\* Empty requests, to peers whose logs are known up to the commit index.
LEMMA ConfirmLeadershipMapped ==
    ASSUME ClusterInv, NEW i \in Server, ConfirmLeadership(i)
    PROVE  Implemented
<1> DEFINE reqs == {[to |-> p, req |-> AppendEntriesArgs(core[i], i, p, <<>>), mark |-> 0] :
                       p \in Peers(i)}
<1>1. UNCHANGED <<core, votes, led>> /\ At(i, "confirm")
  BY DEF ConfirmLeadership
<1>2. CASE core[i].state = "Leader"
  <2>1. Send(i, reqs, "confirming")
    BY <1>2 DEF ConfirmLeadership
  <2>2. ASSUME NEW p \in Peers(i)
        PROVE  R!Sends(i, AppendEntriesArgs(core[i], i, p, <<>>))
    <3>1. /\ core[i].next_index[p] \in Nat \ {0}
          /\ core[i].next_index[p] - 1 <= Len(core[i].log)
          /\ Len(core[i].log) \in Nat /\ core[i].commit_index \in Nat
      BY <1>2, NextInLog, InvNode
    <3>2. core[i].next_index[p] > core[i].commit_index
      BY <1>1, <1>2 DEF ClusterInv, ReadsSettled
    <3>3. Len(<<>>) = 0 /\ Follows(<<>>, core[i].next_index[p] - 1)
      BY DEF Follows
    <3>4. /\ core[i].next_index[p] - 1 + Len(<<>>) <= Len(core[i].log)
          /\ core[i].commit_index <= core[i].next_index[p] - 1 + Len(<<>>)
          /\ 1 .. Len(<<>>) = {}
      BY <3>1, <3>2, <3>3
    <3> QED
      BY <1>2, <3>3, <3>4, ArgsSend
  <2>3. \A r \in reqs : R!Sends(i, r.req)
    BY <2>2
  <2> HIDE DEF reqs
  <2> QED
    BY <1>1, <1>2, <2>1, <2>3, SendMapped
<1>3. CASE core[i].state # "Leader"
  <2>1. UNCHANGED <<calls, orphans>>
    BY <1>3 DEF ConfirmLeadership
  <2> QED
    BY <1>1, <2>1, Stutters
<1> QED
  BY <1>2, <1>3

(***************************************************************************)
(* Results.                                                                *)
(***************************************************************************)

\* The leader and the peers that hold an entry are a majority of the cluster.
LEMMA HoldersAreMajority ==
    ASSUME NEW i \in Server, NEW S, S \subseteq Peers(i), Cardinality(S) + 1 >= Majority
    PROVE  {i} \cup S \in R!Majorities
<1>1. IsFiniteSet(S) /\ i \notin S /\ {i} \cup S = S \cup {i}
  BY ServerAssumption, FS_Subset DEF Peers
<1>2. Cardinality(S \cup {i}) = Cardinality(S) + 1
  BY <1>1, FS_AddElement
<1>3. {i} \cup S \in SUBSET Server
  BY DEF Peers
<1> QED
  BY <1>1, <1>2, <1>3, MajoritiesMapped

LEMMA ResultMapped ==
    ASSUME ClusterInv, SnapshotThreshold = 0, NEW c \in calls, c.at = "replied",
           c.req.type = "AppendEntries",
           core' = [core EXCEPT ![c.from] =
                       HandleAppendEntriesResult(core[c.from], c.to, c.mark, c.resp).core],
           UNCHANGED <<votes, led>>, R!Fewer
    PROVE  Implemented
<1> DEFINE i == c.from
           n == core[i]
           r == HandleAppendEntriesResult(n, c.to, c.mark, c.resp)
           m == r.core
<1>1. /\ i \in Server /\ c.to \in Peers(i) /\ c.mark \in Nat
  BY DEF ClusterInv, LogInv, CallsOK, CallOK
<1>2. /\ LogOK(n, i) /\ DOMAIN core = Server
  BY <1>1, InvNode
<1>3. /\ LogOK(m, i)
      /\ IF m.state = "Leader"
         THEN n.state = "Leader" /\ Tracked(n, m, c.to, c.mark, c.resp.success)
         ELSE /\ Kept(n, m)
              /\ \/ m.current_term = n.current_term /\ m.state = n.state
                 \/ m.current_term > n.current_term /\ m.state = "Follower"
  BY AppendResultOK DEF ResultTaken, ClusterInv
<1>4. core' = [core EXCEPT ![i] = m]
  OBVIOUS
<1> HIDE DEF m
<1>5. CASE m.state # "Leader"
  <2>1. Moved(n, m) /\ SameLog(n, m)
    BY <1>2, <1>3, <1>5 DEF Kept, LogOK, Moved, SameLog
  <2> QED
    BY <1>1, <1>2, <1>4, <2>1, ObserveMapped
<1>6. CASE m.state = "Leader"
  <2>1. n.state = "Leader" /\ Tracked(n, m, c.to, c.mark, c.resp.success)
    BY <1>3, <1>6
  <2>2. /\ Terms' = [Terms EXCEPT ![i] = m.current_term]
        /\ Roles' = [Roles EXCEPT ![i] = m.state]
        /\ Logs' = [Logs EXCEPT ![i] = m.log]
        /\ Commits' = [Commits EXCEPT ![i] = m.commit_index]
        /\ Matches' = [Matches EXCEPT ![i] = m.match_index]
    BY <1>1, <1>2, <1>4, MappedStep
  <2>3. /\ Terms[i] = n.current_term /\ Roles[i] = n.state /\ Logs[i] = n.log
        /\ Commits[i] = n.commit_index /\ Matches[i] = n.match_index
    BY <1>1, MappedNodes
  <2>4. m.log = n.log /\ m.current_term = n.current_term /\ m.state = n.state
    BY <2>1 DEF Tracked
  <2>5. Terms' = Terms /\ Roles' = Roles /\ Logs' = Logs
    BY SMTT(30), <2>2, <2>3, <2>4 DEF Terms, Roles, Logs
  <2>6. \/ Matches' = Matches
        \/ \E o \in Oks : /\ o.term = Terms[i] /\ o.node \in DOMAIN Matches[i]
                          /\ o.index > Matches[i][o.node]
                          /\ Matches' = [Matches EXCEPT ![i][o.node] = o.index]
    <3>1. CASE m.match_index = n.match_index
      BY <2>2, <2>3, <3>1 DEF Matches
    <3>2. CASE /\ c.resp.success /\ c.mark > n.match_index[c.to]
               /\ m.match_index = [n.match_index EXCEPT ![c.to] = c.mark]
      <4>1. n.match_index \in [Peers(i) -> Nat]
        BY <1>2 DEF LogOK
      <4>2. c.mark > 0 /\ c.to \in DOMAIN n.match_index
        BY <1>1, <3>2, <4>1
      <4>3. OkOf(c) \in Oks
        BY <3>2, <4>2 DEF Oks, IsOk
      <4>4. c.req.term = n.current_term
        BY <2>1 DEF ClusterInv, MarksOK
      <4>5. Matches' = [Matches EXCEPT ![i] = [Matches[i] EXCEPT ![c.to] = c.mark]]
        BY <2>2, <2>3, <3>2
      <4>6. OkOf(c).node = c.to /\ OkOf(c).term = c.req.term /\ OkOf(c).index = c.mark
        BY DEF OkOf
      <4> QED
        BY ZenonT(40), <2>3, <3>2, <4>2, <4>3, <4>4, <4>5, <4>6
    <3> QED
      BY <2>1, <3>1, <3>2 DEF Tracked
  <2>7. \/ Commits' = Commits
        \/ LET k == Commits'[i]
           IN  /\ Commits' = [Commits EXCEPT ![i] = k]
               /\ k > Commits[i] /\ R!Has(Logs[i], k, Terms[i])
               /\ {i} \cup {p \in DOMAIN Matches'[i] : Matches'[i][p] >= k} \in R!Majorities
    <3>1. CASE m.commit_index = n.commit_index
      BY <2>2, <2>3, <3>1 DEF Commits
    <3>2. CASE m.commit_index # n.commit_index
      <4> DEFINE S == {p \in DOMAIN m.match_index : m.match_index[p] >= c.mark}
      <4>1. /\ m.commit_index = c.mark /\ c.mark > n.commit_index
            /\ c.mark \in DOMAIN n.log /\ n.log[c.mark].term = n.current_term
            /\ Cardinality(S) + 1 >= Majority
        BY <2>1, <3>2 DEF Tracked
      <4>2. S \subseteq Peers(i)
        BY <1>3 DEF LogOK
      <4>3. {i} \cup S \in R!Majorities
        <5> HIDE DEF S
        <5> QED
          BY <1>1, <4>1, <4>2, HoldersAreMajority
      <4>4. Commits'[i] = c.mark /\ Matches'[i] = m.match_index
        BY <1>1, <2>2, <4>1, MappedNodes
      <4>5. R!Has(Logs[i], c.mark, Terms[i])
        BY <2>3, <4>1 DEF R!Has
      <4> QED
        BY <2>2, <2>3, <4>1, <4>3, <4>4, <4>5
    <3> QED
      BY <3>1, <3>2
  <2>8. R!Advance(i)
    BY <2>1, <2>3, <2>5, <2>6, <2>7 DEF R!Advance
  <2> QED
    BY <1>1, <2>8 DEF Implemented, R!ReplicationNext, R!Work
<1> QED
  BY <1>5, <1>6

LEMMA HeartbeatResultMapped ==
    ASSUME ClusterInv, SnapshotThreshold = 0, NEW c \in calls, HeartbeatResult(c)
    PROVE  Implemented
<1> DEFINE r == HandleAppendEntriesResult(core[c.from], c.to, c.mark, c.resp)
<1>1. /\ c.at = "replied" /\ c.req.type = "AppendEntries"
      /\ core' = [core EXCEPT ![c.from] = r.core] /\ AfterPanic(c, r.panicked)
      /\ UNCHANGED <<votes, led>>
  BY DEF HeartbeatResult
<1>2. r.panicked = FALSE
  BY <1>1, AppendResultOK DEF ClusterInv, ResultTaken
<1>3. Take(c)
  <2> HIDE DEF r
  <2> QED
    BY <1>1, <1>2 DEF AfterPanic
<1>4. R!Fewer
  BY <1>3, WireTakes
<1> QED
  BY <1>1, <1>4, ResultMapped

LEMMA ReplicateResultMapped ==
    ASSUME ClusterInv, SnapshotThreshold = 0, NEW c \in calls, ReplicateResult(c)
    PROVE  Implemented
<1> DEFINE r == HandleAppendEntriesResult(core[c.from], c.to, c.mark, c.resp)
<1>1. /\ c.at = "replied" /\ At(c.from, "replicating") /\ CallsOK
      /\ core' = [core EXCEPT ![c.from] = r.core] /\ UNCHANGED <<votes, led>>
      /\ Drop(CallsOf(c.from)) \/ AfterPanic(c, r.panicked)
  BY DEF ReplicateResult, ClusterInv, LogInv
<1>2. c.req.type = "AppendEntries"
  BY <1>1 DEF CallsOK, WaitsOn, At
<1>3. r.panicked = FALSE
  BY <1>1, <1>2, AppendResultOK DEF ClusterInv, ResultTaken
<1>4. R!Fewer
  <2>1. CASE Drop(CallsOf(c.from))
    BY <1>1, <2>1, WireDrops DEF CallsOf
  <2>2. CASE AfterPanic(c, r.panicked)
    <3>1. Take(c)
      <4> HIDE DEF r
      <4> QED
        BY <1>3, <2>2 DEF AfterPanic
    <3> QED
      BY <3>1, WireTakes
  <2> QED
    BY <1>1, <2>1, <2>2
<1> QED
  BY <1>1, <1>2, <1>4, ResultMapped

(***************************************************************************)
(* The handlers.                                                           *)
(***************************************************************************)

\* Either entries are accepted, or the node moves to the request's term, gives its
\* vote or does not, and its log stays.
Handled(n, m, req, resp) ==
    IF req.type = "AppendEntries" /\ resp.success
    THEN req.term >= n.current_term /\ Consistent(n, req) /\ Accepted(n, m, req)
    ELSE /\ Moved(n, m) /\ SameLog(n, m)
         /\ req.type = "RequestVote" /\ resp.vote_granted =>
                /\ m.current_term = req.term
                /\ IsLogUpToDate(n, req.last_log_term, req.last_log_index)

LEMMA HandledOK ==
    ASSUME SnapshotThreshold = 0, NEW i, NEW n, LogOK(n, i), NEW req, ReqOK(req)
    PROVE  Handled(n, HandleRequest(n, req).core, req, HandleRequest(n, req).resp)
<1> DEFINE r == HandleRequest(n, req)
<1>1. req.term \in Nat /\ n.current_term \in Nat
  BY DEF ReqOK, LogOK
<1>2. CASE req.type = "AppendEntries"
  <2> DEFINE a == HandleAppendEntries(n, req)
  <2>1. r = a /\ AppendOK(req)
    BY <1>2 DEF HandleRequest, ReqOK
  <2>2. /\ a.resp.success \in BOOLEAN
        /\ a.core.current_term =
              IF req.term >= n.current_term THEN req.term ELSE n.current_term
        /\ a.core.state \in {n.state, "Follower"}
        /\ IF a.resp.success
           THEN /\ req.term >= n.current_term /\ Consistent(n, req)
                /\ Accepted(n, a.core, req)
           ELSE /\ Kept(n, a.core)
                /\ req.term >= n.current_term => a.core.state = "Follower"
    BY <2>1, HandleAppendEntriesOK
  <2> HIDE DEF a, r
  <2>3. CASE a.resp.success
    BY <1>2, <2>1, <2>2, <2>3 DEF Handled, r
  <2>4. CASE ~a.resp.success
    <3>1. Moved(n, a.core) /\ SameLog(n, a.core)
      BY <1>1, <2>2, <2>4 DEF Moved, SameLog, Kept
    <3> QED
      BY <1>2, <2>1, <2>4, <3>1 DEF Handled, r
  <2> QED
    BY <2>3, <2>4
<1>3. CASE req.type = "RequestVote"
  <2> DEFINE v == HandleRequestVote(n, req)
  <2>1. r = v
    BY <1>3 DEF HandleRequest
  <2>2. /\ Kept(n, v.core)
        /\ v.core.current_term =
              IF req.term >= n.current_term THEN req.term ELSE n.current_term
        /\ \/ v.core.state = "Follower"
           \/ v.core.state = n.state /\ v.core.current_term = n.current_term
        /\ v.resp.vote_granted =>
              /\ req.term >= n.current_term
              /\ IsLogUpToDate(n, req.last_log_term, req.last_log_index)
    BY ZenonT(40), <1>1, HandleRequestVoteKept
  <2> HIDE DEF v, r
  <2>3. Moved(n, v.core) /\ SameLog(n, v.core)
    BY <1>1, <2>2 DEF Moved, SameLog, Kept
  <2> QED
    BY <1>3, <2>1, <2>2, <2>3 DEF Handled, r
<1> QED
  BY <1>2, <1>3 DEF ReqOK

\* The log is repaired in the same way.
LEMMA RepairMapped ==
    ASSUME NEW l, NEW req
    PROVE  R!Repair(l, req) = Repaired(l, req.prev_log_index, req.entries,
                                       req.prev_log_index + Len(req.entries))
BY DEF R!Repair, R!Agree, R!Last, Repaired, AgreesTo

LEMMA HandleMapped ==
    ASSUME ClusterInv, SnapshotThreshold = 0, NEW i \in Server, NEW req \in SentRequests,
           NEW m, NEW resp, Handled(core[i], m, req, resp),
           core' = [core EXCEPT ![i] = m],
           votes' = votes \cup VotesGiven(i, req, resp), led' = led,
           SentRequests' \subseteq SentRequests,
           \A o \in Oks' : \/ o \in Oks
                           \/ /\ req.type = "AppendEntries" /\ resp.success
                              /\ o.node = i /\ o.term = req.term /\ o.index \in 1 .. R!Last(req)
    PROVE  Implemented
<1> DEFINE n == core[i]
<1>1. LogOK(n, i) /\ DOMAIN core = Server
  BY InvNode
<1>2. Handled(n, m, req, resp)
  OBVIOUS
<1>3. core' = [core EXCEPT ![i] = m] /\ Requests' \subseteq Requests
  BY DEF Requests
<1>4. CASE req.type = "AppendEntries" /\ resp.success
  <2>1. req.term >= n.current_term /\ Consistent(n, req) /\ Accepted(n, m, req)
    BY <1>2, <1>4 DEF Handled
  <2>2. votes' = votes /\ req \in Requests
    BY <1>4 DEF VotesGiven, Requests
  <2>3. /\ Terms' = [Terms EXCEPT ![i] = m.current_term]
        /\ Roles' = [Roles EXCEPT ![i] = m.state]
        /\ Logs' = [Logs EXCEPT ![i] = m.log]
        /\ Commits' = [Commits EXCEPT ![i] = m.commit_index]
        /\ Matches' = [Matches EXCEPT ![i] = m.match_index]
    BY <1>1, <1>3, MappedStep
  <2>4. /\ Terms[i] = n.current_term /\ Logs[i] = n.log
        /\ Commits[i] = n.commit_index /\ Matches[i] = n.match_index
        /\ DOMAIN Logs = Server
    BY MappedNodes
  <2>5. m.match_index = n.match_index /\ m.current_term = req.term /\ m.state = "Follower"
        /\ m.log = R!Repair(n.log, req)
        /\ m.commit_index = IF req.leader_commit <= n.commit_index THEN n.commit_index
                            ELSE IF req.leader_commit <= Len(m.log) THEN req.leader_commit
                            ELSE Len(m.log)
    BY <2>1, RepairMapped DEF Accepted
  <2>6. Matches' = Matches /\ Logs'[i] = m.log
    BY <2>3, <2>4, <2>5 DEF Matches
  <2>7. req.prev_log_index = 0 \/ R!Has(n.log, req.prev_log_index, req.prev_log_term)
    BY <2>1 DEF Consistent, R!Has
  <2>8. \A o \in Oks' : \/ o \in Oks
                        \/ o.node = i /\ o.term = req.term /\ o.index \in 1 .. R!Last(req)
    OBVIOUS
  <2> HIDE DEF n
  <2>9. R!Accept(i, req)
    BY <1>3, <2>1, <2>2, <2>3, <2>4, <2>5, <2>6, <2>7, <2>8 DEF R!Accept
  <2> QED
    BY <2>2, <2>9 DEF Implemented, R!ReplicationNext, R!Work
<1>5. CASE ~(req.type = "AppendEntries" /\ resp.success)
  <2>1. /\ Moved(n, m) /\ SameLog(n, m)
        /\ req.type = "RequestVote" /\ resp.vote_granted =>
               /\ m.current_term = req.term
               /\ IsLogUpToDate(n, req.last_log_term, req.last_log_index)
    BY <1>2, <1>5 DEF Handled
  <2>2. R!Fewer
    BY <1>3, <1>5 DEF R!Fewer
  <2>3. CASE ~(req.type = "RequestVote" /\ resp.vote_granted)
    <3>1. votes' = votes
      BY <2>3 DEF VotesGiven
    <3> QED
      BY <1>1, <1>3, <2>1, <2>2, <3>1, ObserveMapped
  <2>4. CASE req.type = "RequestVote" /\ resp.vote_granted
    <3> DEFINE v == [voter |-> i, term |-> req.term, candidate |-> req.candidate_id]
               d == core[req.candidate_id]
    <3>1. votes' = votes \cup {v}
      BY <2>4 DEF VotesGiven
    <3>2. R!MovesTo(i, m.current_term) /\ Terms'[i] = m.current_term
      BY <1>1, <1>3, <2>1, MovedMapped
    <3>3. Logs' = Logs /\ Commits' = Commits /\ Matches' = Matches
      BY <1>1, <1>3, <2>1, SameLogMapped
    <3>4. BallotRequestOK(req)
      BY <2>4 DEF ClusterInv, BallotRequestsOK
    <3>5. /\ req.candidate_id \in Server /\ req.term <= d.current_term
          /\ d.state = "Candidate" /\ d.current_term = req.term =>
                 req.last_log_index = LastLogIndex(d) /\ req.last_log_term = LastLogTerm(d)
      BY <3>4 DEF BallotRequestOK
    <3>6. /\ Terms[req.candidate_id] = d.current_term /\ Roles[req.candidate_id] = d.state
          /\ Logs[req.candidate_id] = d.log /\ Logs[i] = n.log
      BY <3>5, MappedNodes
    <3>7. d.state = "Candidate" /\ d.current_term = req.term => R!UpToDate(d.log, n.log)
      <4> SUFFICES ASSUME d.state = "Candidate", d.current_term = req.term
                   PROVE  R!UpToDate(d.log, n.log)
        OBVIOUS
      <4>1. IsLogUpToDate(n, LastLogTerm(d), LastLogIndex(d))
        BY <2>1, <2>4, <3>5
      <4>2. /\ LastLogIndex(n) = Len(n.log)
            /\ LastLogTerm(n) = IF n.log = <<>> THEN 0 ELSE n.log[Len(n.log)].term
        BY <1>1, LogFacts
      <4>3. /\ LastLogIndex(d) = Len(d.log)
            /\ LastLogTerm(d) = IF d.log = <<>> THEN 0 ELSE d.log[Len(d.log)].term
        <5>1. LogOK(d, req.candidate_id)
          BY <3>5, InvNode
        <5> HIDE DEF d
        <5> QED
          BY <5>1, LogFacts
      <4> HIDE DEF d, n
      <4> QED
        BY <4>1, <4>2, <4>3 DEF IsLogUpToDate, R!UpToDate, R!LastTerm
    <3>8. /\ v = [voter |-> i, term |-> Terms'[i], candidate |-> v.candidate]
          /\ v.term = m.current_term /\ v.candidate = req.candidate_id /\ v.term = req.term
      BY <2>1, <2>4, <3>2
    <3> HIDE DEF v, d, n
    <3>9. R!GiveVote(i, v)
      BY <2>2, <3>1, <3>2, <3>3, <3>5, <3>6, <3>7, <3>8 DEF R!GiveVote
    <3> QED
      BY <3>1, <3>9 DEF Implemented, R!ReplicationNext, R!Work
  <2> QED
    BY <2>3, <2>4
<1> QED
  BY <1>4, <1>5

\* A handler neither sends requests nor takes answers.
LEMMA DeliverMapped ==
    ASSUME ClusterInv, SnapshotThreshold = 0, NEW c \in calls, Deliver(c)
    PROVE  Implemented
<1> DEFINE i == c.to
           r == HandleRequest(core[i], c.req)
           d == [c EXCEPT !.at = "replied", !.resp = r.resp]
<1>1. /\ CallOK(c) /\ i \in Server /\ ReqOK(c.req) /\ c.mark \in Nat
  BY DEF ClusterInv, LogInv, CallsOK, CallOK, Peers
<1>2. LogOK(core[i], i)
  BY <1>1, InvNode
<1>3. r.panicked = FALSE /\ Handled(core[i], r.core, c.req, r.resp)
  <2>1. r.panicked = FALSE
    <3> DEFINE n == core[i]
    <3>1. LogOK(n, i)
      BY <1>2
    <3> HIDE DEF n, i
    <3> QED
      BY ZenonT(40), <1>1, <3>1, HandleRequestOK DEF n
  <2> QED
    BY <1>1, <1>2, <2>1, HandledOK
<1>4. /\ c.at = "sent" /\ core' = [core EXCEPT ![i] = r.core] /\ orphans' = orphans
      /\ calls' = (calls \ {c}) \cup {IF r.panicked THEN [c EXCEPT !.at = "failed"] ELSE d}
      /\ votes' = votes \cup VotesGiven(i, c.req, r.resp) /\ led' = led
  BY DEF Deliver
<1>5. d.at = "replied" /\ d.to = i /\ d.req = c.req /\ d.mark = c.mark /\ d.resp = r.resp
  BY <1>1 DEF CallOK
<1> HIDE DEF r, d
<1>6. calls' = (calls \ {c}) \cup {d}
  BY <1>3, <1>4
<1>7. SentRequests' \subseteq SentRequests /\ c.req \in SentRequests
  BY <1>4, <1>5, <1>6 DEF SentRequests
<1>8. ASSUME NEW o \in Oks', o \notin Oks
      PROVE  /\ c.req.type = "AppendEntries" /\ r.resp.success
             /\ o.node = i /\ o.term = c.req.term /\ o.index \in 1 .. R!Last(c.req)
  <2>1. PICK e \in calls' : IsOk(e) /\ o = OkOf(e)
    BY DEF Oks
  <2>2. e = d
    BY <1>6, <1>8, <2>1 DEF Oks
  <2>3. /\ c.req.type = "AppendEntries" /\ r.resp.success /\ c.mark > 0
        /\ o.node = i /\ o.term = c.req.term /\ o.index = c.mark
    BY <1>5, <2>1, <2>2 DEF IsOk, OkOf
  <2>4. c.mark <= c.req.prev_log_index + Len(c.req.entries)
    BY <2>3 DEF ClusterInv, MarksOK
  <2>5. c.req.prev_log_index + Len(c.req.entries) \in Nat
    BY <1>1, <2>3 DEF ReqOK, AppendOK, Follows
  <2> QED
    BY <1>1, <2>3, <2>4, <2>5 DEF R!Last
<1> QED
  BY <1>1, <1>3, <1>4, <1>7, <1>8, HandleMapped

LEMMA DeliverOrphanMapped ==
    ASSUME ClusterInv, SnapshotThreshold = 0, NEW o \in orphans, DeliverOrphan(o)
    PROVE  Implemented
<1> DEFINE i == o.to
           r == HandleRequest(core[i], o.req)
<1>1. i \in Server /\ ReqOK(o.req)
  BY DEF ClusterInv, LogInv, CallsOK
<1>2. LogOK(core[i], i)
  BY <1>1, InvNode
<1>3. Handled(core[i], r.core, o.req, r.resp)
  BY <1>1, <1>2, HandledOK
<1>4. /\ core' = [core EXCEPT ![i] = r.core] /\ orphans' = orphans \ {o} /\ calls' = calls
      /\ votes' = votes \cup VotesGiven(i, o.req, r.resp) /\ led' = led
  BY DEF DeliverOrphan
<1> HIDE DEF r
<1>5. SentRequests' \subseteq SentRequests /\ o.req \in SentRequests /\ Oks' = Oks
  BY <1>4 DEF SentRequests, Oks
<1> QED
  BY <1>1, <1>3, <1>4, <1>5, HandleMapped

(***************************************************************************)
(* Reads, and failures.                                                    *)
(***************************************************************************)
LEMMA ConfirmMapped ==
    ASSUME ClusterInv, NEW c \in calls, ConfirmRefused(c) \/ ConfirmResult(c)
    PROVE  Implemented
<1> DEFINE i == c.from
<1>1. /\ CallsOK /\ CallOK(c) /\ i \in Server
  BY DEF ClusterInv, LogInv, CallsOK, CallOK
<1>2. LogOK(core[i], i) /\ DOMAIN core = Server
  BY <1>1, InvNode
<1>3. CASE ConfirmRefused(c)
  <2> DEFINE m == [core[i] EXCEPT !.current_term = c.resp.term,
                                  !.state = "Follower", !.voted_for = Nil]
  <2>1. /\ c.at = "replied" /\ c.resp.term > core[i].current_term
        /\ core' = [core EXCEPT ![i] = m] /\ Drop(CallsOf(i)) /\ UNCHANGED <<votes, led>>
    BY <1>2, <1>3 DEF ConfirmRefused
  <2>2. Moved(core[i], m) /\ SameLog(core[i], m)
    BY <1>1, <1>2, <2>1 DEF Moved, SameLog, LogOK, CoreFields, CallOK
  <2> HIDE DEF m
  <2>3. R!Fewer
    BY <1>1, <2>1, WireDrops DEF CallsOf
  <2> QED
    BY <1>1, <1>2, <2>1, <2>2, <2>3, ObserveMapped
<1>4. CASE ConfirmResult(c)
  <2>1. PICK S \in {CallsOf(i), {c}} : Drop(S)
    BY <1>4 DEF ConfirmResult
  <2>2. R!Fewer
    BY <1>1, <2>1, WireDrops DEF CallsOf
  <2>3. UNCHANGED <<core, votes, led>>
    BY <1>4 DEF ConfirmResult
  <2> QED
    BY <1>1, <2>2, <2>3, LossMapped DEF ClusterInv
<1> QED
  BY <1>3, <1>4

LEMMA CallsFailMapped ==
    ASSUME ClusterInv, NEW i \in Server, CallsFail(i)
    PROVE  Implemented
<1>1. Drop(CallsOf(i)) /\ UNCHANGED <<core, votes, led>> /\ CallsOK
  BY DEF CallsFail, ClusterInv, LogInv
<1>2. R!Fewer
  BY <1>1, WireDrops DEF CallsOf
<1> QED
  BY <1>1, <1>2, LossMapped DEF ClusterInv

\* A term that has reached the disk, and the log, are those in memory.
LEMMA RestartMapped ==
    ASSUME ClusterInv, NEW i \in Server, TermPersisted(i), Restart(i)
    PROVE  Implemented
<1> DEFINE n == core[i]
           m == New(i, n.stored_term, n.stored_voted_for, n.stored_log, n.stored_snapshot)
<1>1. LogOK(n, i) /\ DOMAIN core = Server /\ CallsOK
  BY InvNode DEF ClusterInv, LogInv
<1>2. /\ core' = [core EXCEPT ![i] = m] /\ Drop(CallsOf(i)) /\ UNCHANGED <<votes, led>>
  BY DEF Restart
<1>3. /\ m.current_term = n.current_term /\ m.state = "Follower" /\ m.log = n.log
      /\ m.commit_index = 0 /\ m.match_index = [p \in Server \ {i} |-> 0]
  BY <1>1 DEF New, LogOK, TermPersisted, NoSnapshot, Peers
<1> HIDE DEF m
<1>4. /\ Terms' = [Terms EXCEPT ![i] = m.current_term]
      /\ Roles' = [Roles EXCEPT ![i] = m.state]
      /\ Logs' = [Logs EXCEPT ![i] = m.log]
      /\ Commits' = [Commits EXCEPT ![i] = m.commit_index]
      /\ Matches' = [Matches EXCEPT ![i] = m.match_index]
  BY <1>1, <1>2, MappedStep
<1>5. Terms[i] = n.current_term /\ Logs[i] = n.log
  BY MappedNodes
<1>6. Terms' = Terms /\ Logs' = Logs
  BY <1>3, <1>4, <1>5 DEF Terms, Logs
<1>7. R!Fewer
  BY <1>1, <1>2, WireDrops DEF CallsOf
<1>8. R!Restart(i)
  BY <1>2, <1>3, <1>4, <1>6, <1>7 DEF R!Restart
<1> QED
  BY <1>8 DEF Implemented, R!ReplicationNext

\* Every step of the cluster is one of Replication, or changes nothing there.
LEMMA StepMapped ==
    ASSUME SnapshotThreshold = 0, ClusterInv, ElectionSafety', [GuardedNext]_vars
    PROVE  Implemented
<1>1. ASSUME NEW i \in Server, LoopStep(i) \/ ElectionTimeout(i) \/ ReadIndex(i)
      PROVE  Implemented
  <2>1. CASE FinishRead(i) \/ RefuseRead(i) \/ ReadIndex(i)
    BY <2>1, Stutters DEF FinishRead, RefuseRead, ReadIndex
  <2> QED
    BY <1>1, <2>1, ElectionTimeoutMapped, RequestVotesMapped, SendHeartbeatMapped,
       ReplicateToPeersMapped, ConfirmLeadershipMapped DEF LoopStep
<1>2. ASSUME NEW i \in Server, NEW command \in Command, Submit(i, command)
      PROVE  Implemented
  BY <1>2, SubmitMapped
<1>3. ASSUME NEW c \in calls, Deliver(c) \/ TakeResult(c)
      PROVE  Implemented
  BY <1>3, DeliverMapped, VoteResultMapped, HeartbeatResultMapped, ReplicateResultMapped,
     ConfirmMapped, NoSuchCalls DEF TakeResult, ClusterInv
<1>4. ASSUME NEW o \in orphans, DeliverOrphan(o)
      PROVE  Implemented
  BY <1>4, DeliverOrphanMapped
<1>5. ASSUME NEW g \in gets, KvGet(g)
      PROVE  Implemented
  BY <1>5, Stutters DEF KvGet, nodeVars
<1>6. ASSUME NEW i \in Server, CallsFail(i) \/ (TermPersisted(i) /\ Restart(i))
      PROVE  Implemented
  BY <1>6, CallsFailMapped, RestartMapped
<1>7. CASE UNCHANGED vars
  BY <1>7, Stutters DEF vars, nodeVars
<1> QED
  BY <1>1, <1>2, <1>3, <1>4, <1>5, <1>6, <1>7 DEF GuardedNext, PersistedNext, Step, Work

(***************************************************************************)
(* What the mapping needs to know of the cluster stays so.                 *)
(***************************************************************************)
Known == ElectionsKnown /\ BallotRequestsOK /\ MarksOK /\ LeadersOK

MarkOK(c) ==
    /\ c.req.type = "AppendEntries" => c.mark <= c.req.prev_log_index + Len(c.req.entries)
    /\ core[c.from].state = "Leader" => c.req.term = core[c.from].current_term

\* Node m is n later on, but has not been elected nor begun to stand, and has
\* added nothing to its log as a leader.
Calm(n, m) ==
    /\ m.current_term >= n.current_term
    /\ m.state # "Follower" =>
          m.state = n.state /\ m.current_term = n.current_term /\ m.log = n.log
    /\ m.state = "Leader" =>
          /\ m.votes_received = n.votes_received
          /\ \A p \in DOMAIN n.next_index : \/ m.next_index[p] <= n.next_index[p]
                                            \/ m.next_index[p] <= Len(n.log) + 1

AllCalm == \A j \in Server : Calm(core[j], core'[j])

\* A loop that is about to replicate was so before.
NoneSubmits == \A j \in Server : At(j, "replicate")' => task'[j] = task[j]

LEMMA SameCalm ==
    ASSUME LogInv, core' = core
    PROVE  AllCalm
<1>1. ASSUME NEW j \in Server PROVE Calm(core[j], core[j])
  <2>1. LogOK(core[j], j)
    BY DEF LogInv, NodesOK
  <2>2. core[j].current_term \in Nat /\ \A p \in DOMAIN core[j].next_index : core[j].next_index[p] \in Nat
    BY <2>1 DEF LogOK
  <2> QED
    BY <2>2 DEF Calm
<1> QED
  BY <1>1 DEF AllCalm

LEMMA OneCalm ==
    ASSUME LogInv, NEW i \in Server, NEW m, Calm(core[i], m), core' = [core EXCEPT ![i] = m]
    PROVE  AllCalm
<1>1. ASSUME NEW j \in Server PROVE Calm(core[j], core[j])
  <2>1. LogOK(core[j], j)
    BY DEF LogInv, NodesOK
  <2>2. core[j].current_term \in Nat /\ \A p \in DOMAIN core[j].next_index : core[j].next_index[p] \in Nat
    BY <2>1 DEF LogOK
  <2> QED
    BY <2>2 DEF Calm
<1>2. DOMAIN core = Server
  BY DEF LogInv, NodesOK
<1>3. ASSUME NEW j \in Server PROVE (core'[j] = m /\ j = i) \/ core'[j] = core[j]
  BY <1>2
<1> QED
  BY <1>1, <1>3 DEF AllCalm

\* While nobody is elected, stands or submits, it is enough to know of the
\* requests and calls that there are what the old state says of them.
LEMMA CalmKeeps ==
    ASSUME ClusterInv, LogInv', SubmitsAsLeader', AllCalm, NoneSubmits, UNCHANGED <<elected, led>>,
           \A r \in SentRequests' : r.type = "RequestVote" => BallotRequestOK(r),
           \A c \in calls' : MarkOK(c)
    PROVE  Known'
<1>1. ASSUME NEW j \in Server
      PROVE  /\ LogOK(core[j], j) /\ LogOK(core'[j], j) /\ Calm(core[j], core'[j])
             /\ core[j].current_term \in Nat /\ core'[j].current_term \in Nat
  BY DEF ClusterInv, LogInv, NodesOK, AllCalm, LogOK
<1>2. ElectionsKnown'
  <2>1. ElectionsKnown
    BY DEF ClusterInv
  <2>2. ASSUME NEW e \in elected
        PROVE  e.leader \in Server /\ e.term \in 0 .. core'[e.leader].current_term
    <3>1. e.leader \in Server /\ e.term \in 0 .. core[e.leader].current_term
      BY <2>1 DEF ElectionsKnown
    <3> QED
      BY <1>1, <3>1 DEF Calm
  <2>3. ASSUME NEW j \in Server, core'[j].state = "Candidate"
        PROVE  [term |-> core'[j].current_term, leader |-> j] \notin elected
    BY <1>1, <2>1, <2>3 DEF ElectionsKnown, Calm
  <2>4. ASSUME NEW j \in Server, core'[j].state = "Leader"
        PROVE  led[core'[j].current_term].voters = core'[j].votes_received
    BY <1>1, <2>1, <2>4 DEF ElectionsKnown, Calm
  <2> QED
    BY <2>1, <2>2, <2>3, <2>4 DEF ElectionsKnown
<1>3. BallotRequestsOK'
  <2> SUFFICES ASSUME NEW r \in SentRequests', r.type = "RequestVote"
               PROVE  BallotRequestOK(r)'
    BY DEF BallotRequestsOK
  <2> DEFINE d == r.candidate_id
  <2>1. /\ d \in Server /\ r.term <= core[d].current_term
        /\ core[d].state = "Candidate" /\ core[d].current_term = r.term =>
               r.last_log_index = LastLogIndex(core[d]) /\ r.last_log_term = LastLogTerm(core[d])
    BY DEF BallotRequestOK
  <2>2. r.term \in Nat
    BY DEF SentRequests, LogInv, CallsOK, CallOK, ReqOK
  <2>3. r.term <= core'[d].current_term
    BY <1>1, <2>1, <2>2 DEF Calm
  <2>4. ASSUME core'[d].state = "Candidate", core'[d].current_term = r.term
        PROVE  /\ r.last_log_index = LastLogIndex(core'[d])
               /\ r.last_log_term = LastLogTerm(core'[d])
    <3>1. core[d].state = "Candidate" /\ core[d].current_term = r.term
          /\ core'[d].log = core[d].log
      BY <1>1, <2>1, <2>4 DEF Calm
    <3>2. LET n == core[d] IN
             /\ LastLogIndex(n) = Len(n.log)
             /\ LastLogTerm(n) = IF n.log = <<>> THEN 0 ELSE n.log[Len(n.log)].term
      <4>1. PICK n : n = core[d]
        OBVIOUS
      <4> QED
        BY <1>1, <2>1, <4>1, LogFacts
    <3>3. LET n == core'[d] IN
             /\ LastLogIndex(n) = Len(n.log)
             /\ LastLogTerm(n) = IF n.log = <<>> THEN 0 ELSE n.log[Len(n.log)].term
      <4>1. PICK n : n = core'[d]
        OBVIOUS
      <4> QED
        BY <1>1, <2>1, <4>1, LogFacts
    <3> QED
      BY <2>1, <3>1, <3>2, <3>3
  <2> QED
    BY <2>1, <2>3, <2>4 DEF BallotRequestOK
<1>4. MarksOK'
  <2> SUFFICES ASSUME NEW c \in calls' PROVE MarkOK(c)'
    BY DEF MarksOK, MarkOK
  <2>1. c.from \in Server
    BY DEF LogInv, CallsOK, CallOK
  <2>2. MarkOK(c)
    OBVIOUS
  <2> QED
    BY <1>1, <2>1, <2>2 DEF MarkOK, Calm
<1>5. LeadersOK'
  <2>1. ASSUME NEW j \in Server, core'[j].state = "Leader", NEW p \in Peers(j)
        PROVE  core'[j].next_index[p] <= Len(core'[j].log) + 1
    <3>1. core[j].next_index[p] <= Len(core[j].log) + 1 /\ core'[j].log = core[j].log
      BY <1>1, <2>1 DEF Calm, ClusterInv, LeadersOK
    <3>2. /\ p \in DOMAIN core[j].next_index /\ core[j].next_index[p] \in Nat
          /\ core'[j].next_index[p] \in Nat /\ Len(core[j].log) \in Nat
      BY <1>1 DEF LogOK, Contiguous
    <3> QED
      BY <1>1, <2>1, <3>1, <3>2 DEF Calm
  <2>2. ASSUME NEW j \in Server, At(j, "replicate")'
        PROVE  task'[j].index = Len(core'[j].log)
    <3>1. core'[j].state = "Leader" /\ task'[j] = task[j]
      BY <2>2 DEF SubmitsAsLeader, NoneSubmits
    <3>2. At(j, "replicate") /\ core'[j].log = core[j].log
      BY <1>1, <2>2, <3>1 DEF At, Calm
    <3> QED
      BY <3>1, <3>2 DEF ClusterInv, LeadersOK
  <2> QED
    BY <2>1, <2>2 DEF LeadersOK
<1> QED
  BY <1>2, <1>3, <1>4, <1>5 DEF Known

\* Calls that end, and handlers, bring no new requests.
LEMMA OldWire ==
    ASSUME ClusterInv, SentRequests' \subseteq SentRequests,
           \A c \in calls' : \E d \in calls : c.from = d.from /\ c.req = d.req /\ c.mark = d.mark
    PROVE  /\ \A r \in SentRequests' : r.type = "RequestVote" => BallotRequestOK(r)
           /\ \A c \in calls' : MarkOK(c)
<1>1. \A r \in SentRequests' : r.type = "RequestVote" => BallotRequestOK(r)
  BY DEF ClusterInv, BallotRequestsOK
<1>2. ASSUME NEW d \in calls PROVE MarkOK(d)
  BY DEF ClusterInv, MarksOK, MarkOK
<1>3. ASSUME NEW c \in calls' PROVE MarkOK(c)
  <2>1. PICK d \in calls : c.from = d.from /\ c.req = d.req /\ c.mark = d.mark
    OBVIOUS
  <2> QED
    BY <1>2, <2>1 DEF MarkOK
<1> QED
  BY <1>1, <1>3

\* A loop whose task changes is not about to replicate.
LEMMA TaskNoneSubmits ==
    ASSUME LogInv, NEW i \in Server, NEW t, t.at # "replicate", task' = [task EXCEPT ![i] = t]
    PROVE  NoneSubmits
BY DEF LogInv, CallsOK, NoneSubmits, At

\* Calls of node i end, its loop moves on, and its core at most calms down.
LEMMA EndingKeeps ==
    ASSUME ClusterInv, LogInv', SubmitsAsLeader', AllCalm, NoneSubmits, UNCHANGED <<elected, led>>,
           calls' \subseteq calls, SentRequests' \subseteq SentRequests
    PROVE  Known'
<1>1. \A c \in calls' : \E d \in calls : c.from = d.from /\ c.req = d.req /\ c.mark = d.mark
  OBVIOUS
<1> QED
  BY <1>1, OldWire, CalmKeeps

LEMMA TakeNoneSubmits ==
    ASSUME ClusterInv, NEW c \in calls, Take(c)
    PROVE  NoneSubmits
<1> DEFINE i == c.from
           t == IF CallsOf(i) = {c} THEN WhenCallsEnd(i) ELSE task[i]
<1>1. task' = [task EXCEPT ![i] = t] /\ i \in Server /\ LogInv /\ TaskOK(task[i])
      /\ WaitsOn(task[i].at, c.req)
  BY DEF Take, ClusterInv, LogInv, CallsOK, CallOK
<1>2. task[i].at # "replicate"
  BY <1>1 DEF WaitsOn
<1>3. t.at # "replicate"
  BY <1>1, <1>2, IdleOK DEF WhenCallsEnd, TaskOK, TaskFields
<1> HIDE DEF t
<1> QED
  BY <1>1, <1>3, TaskNoneSubmits

\* A loop sends its requests: nothing else changes.
LEMMA SendingKeeps ==
    ASSUME ClusterInv, LogInv', SubmitsAsLeader', NEW i \in Server, UNCHANGED <<core, elected, led>>,
           NEW reqs, NEW where, Send(i, reqs, where),
           where \in {"voting", "beating", "replicating", "confirming"},
           \A r \in reqs :
               /\ r.req.type = "RequestVote" => BallotRequestOK(r.req)
               /\ r.req.type = "AppendEntries" => r.mark <= r.req.prev_log_index + Len(r.req.entries)
               /\ r.req.term = core[i].current_term
    PROVE  Known'
<1> DEFINE t == IF reqs # {} THEN [task[i] EXCEPT !.at = where]
                ELSE IF where = "confirming" THEN [task[i] EXCEPT !.at = "confirmed"]
                ELSE Idle
<1>1. /\ task' = [task EXCEPT ![i] = t] /\ LogInv /\ TaskOK(task[i])
      /\ calls' = calls \cup {[from |-> i, to |-> r.to, req |-> r.req, mark |-> r.mark,
                               at |-> "sent", resp |-> Nil] : r \in reqs}
  BY DEF Send, ClusterInv, LogInv, CallsOK
<1>2. NoneSubmits
  <2>1. t.at # "replicate"
    BY <1>1, IdleOK DEF TaskOK, TaskFields
  <2> HIDE DEF t
  <2> QED
    BY <1>1, <2>1, TaskNoneSubmits
<1>3. AllCalm
  BY <1>1, SameCalm
<1>4. \A r \in SentRequests' : r.type = "RequestVote" => BallotRequestOK(r)
  <2>1. \A q \in SentRequests' : q \in SentRequests \/ \E r \in reqs : q = r.req
    BY WireSends
  <2> QED
    BY <2>1 DEF ClusterInv, BallotRequestsOK
<1>5. \A c \in calls' : MarkOK(c)
  BY <1>1 DEF ClusterInv, MarksOK, MarkOK
<1> QED
  BY <1>2, <1>3, <1>4, <1>5, CalmKeeps

LEMMA RequestVotesKeeps ==
    ASSUME ClusterInv, LogInv', SubmitsAsLeader', NEW i \in Server, RequestVotes(i)
    PROVE  Known'
<1> DEFINE reqs == {[to |-> p, req |-> RequestVoteArgs(core[i], i), mark |-> 0] : p \in Peers(i)}
<1>1. Send(i, reqs, "voting") /\ UNCHANGED <<core, elected, led>>
  BY DEF RequestVotes
<1>2. core[i].current_term \in Nat
  BY InvNode
<1>3. ASSUME NEW r \in reqs
      PROVE  /\ r.req.type = "RequestVote" => BallotRequestOK(r.req)
             /\ r.req.type = "AppendEntries" => r.mark <= r.req.prev_log_index + Len(r.req.entries)
             /\ r.req.term = core[i].current_term
  BY <1>2 DEF RequestVoteArgs, BallotRequestOK
<1> HIDE DEF reqs
<1> QED
  BY <1>1, <1>3, SendingKeeps

LEMMA SendHeartbeatKeeps ==
    ASSUME ClusterInv, LogInv', SubmitsAsLeader', NEW i \in Server, SendHeartbeat(i)
    PROVE  Known'
<1> DEFINE reqs == {Heartbeat(core[i], i, p) : p \in
                       IF core[i].state = "Leader" THEN Peers(i) ELSE {}}
<1>1. Send(i, reqs, "beating") /\ UNCHANGED <<core, elected, led>>
  BY DEF SendHeartbeat
<1>2. ASSUME NEW r \in reqs
      PROVE  /\ r.req.type = "RequestVote" => BallotRequestOK(r.req)
             /\ r.req.type = "AppendEntries" => r.mark <= r.req.prev_log_index + Len(r.req.entries)
             /\ r.req.term = core[i].current_term
  <2>1. PICK p \in Peers(i) : r = Heartbeat(core[i], i, p)
    OBVIOUS
  <2>2. PICK n : n = core[i]
    OBVIOUS
  <2>3. LogOK(n, i)
    BY <2>2, InvNode
  <2> DEFINE entries == EntriesAt(n.log, Onward(n.next_index[p]))
  <2>4. /\ r.req = AppendEntriesArgs(n, i, p, entries)
        /\ r.mark = IF entries = <<>> THEN 0 ELSE n.next_index[p] - 1 + Len(entries)
        /\ ReqOK(r.req) /\ r.req.type = "AppendEntries"
    <3>1. r = Heartbeat(n, i, p)
      BY <2>1, <2>2
    <3> QED
      BY <2>3, <3>1, HeartbeatOK
  <2> HIDE DEF entries
  <2>5. /\ r.req.prev_log_index = n.next_index[p] - 1 /\ r.req.entries = entries
        /\ r.req.term = n.current_term
    BY <2>4 DEF AppendEntriesArgs
  <2>6. r.req.prev_log_index \in Nat /\ Len(r.req.entries) \in Nat
    BY <2>4 DEF ReqOK, AppendOK, Follows
  <2> QED
    BY <2>2, <2>4, <2>5, <2>6
<1> HIDE DEF reqs
<1> QED
  BY <1>1, <1>2, SendingKeeps

\* The entries reach up to the command's, which is the last one of the log.
LEMMA ReplicateToPeersKeeps ==
    ASSUME ClusterInv, LogInv', SubmitsAsLeader', NEW i \in Server, ReplicateToPeers(i)
    PROVE  Known'
<1>1. PICK n : n = core[i]
  OBVIOUS
<1> DEFINE index == task[i].index
           Sent(p) == EntriesAt(n.log, n.next_index[p] .. index)
           reqs == {[to |-> p, req |-> AppendEntriesArgs(n, i, p, Sent(p)), mark |-> index] :
                       p \in Peers(i)}
<1>2. /\ Send(i, reqs, "replicating") /\ UNCHANGED <<core, elected, led>>
      /\ n.state = "Leader" /\ index = Len(n.log)
  BY <1>1 DEF ReplicateToPeers, ClusterInv, SubmitsAsLeader, LeadersOK
<1>3. LogOK(n, i) /\ Len(n.log) \in Nat
  BY <1>1, InvNode
<1>4. ASSUME NEW r \in reqs
      PROVE  /\ r.req.type = "RequestVote" => BallotRequestOK(r.req)
             /\ r.req.type = "AppendEntries" => r.mark <= r.req.prev_log_index + Len(r.req.entries)
             /\ r.req.term = n.current_term
  <2>1. PICK p \in Peers(i) :
            r = [to |-> p, req |-> AppendEntriesArgs(n, i, p, Sent(p)), mark |-> index]
    OBVIOUS
  <2>2. PICK a : a = n.next_index[p]
    OBVIOUS
  <2>3. a \in Nat \ {0} /\ a <= Len(n.log) + 1
    BY <1>1, <1>2, <1>3, <2>2 DEF LogOK, ClusterInv, LeadersOK
  <2>4. \A k \in DOMAIN n.log : k \in a .. index <=> a <= k /\ k <= Len(n.log)
    BY <1>2, <1>3, <2>3, LogFacts
  <2> DEFINE entries == EntriesAt(n.log, a .. index)
  <2>5. /\ Follows(entries, a - 1) /\ Len(entries) \in Nat
        /\ \A k \in 1 .. Len(entries) : entries[k] = n.log[a - 1 + k]
        /\ Len(entries) > 0 => a - 1 + Len(entries) = IF Len(n.log) <= Len(n.log)
                                                     THEN Len(n.log) ELSE Len(n.log)
        /\ Len(entries) = 0 => Len(n.log) < a \/ Len(n.log) < a
    <3> HIDE DEF index
    <3> QED
      BY <1>3, <2>3, <2>4, EntriesFollow
  <2> HIDE DEF entries
  <2>6. /\ r.req.prev_log_index = a - 1 /\ r.req.entries = entries
        /\ r.req.term = n.current_term /\ r.req.type = "AppendEntries" /\ r.mark = index
    BY <2>1, <2>2 DEF AppendEntriesArgs, entries
  <2>7. r.mark <= r.req.prev_log_index + Len(r.req.entries)
    BY <1>2, <1>3, <2>3, <2>5, <2>6
  <2> QED
    BY <2>6, <2>7
<1> HIDE DEF reqs
<1> QED
  BY <1>1, <1>2, <1>4, SendingKeeps

LEMMA ConfirmLeadershipKeeps ==
    ASSUME ClusterInv, LogInv', SubmitsAsLeader', NEW i \in Server, ConfirmLeadership(i)
    PROVE  Known'
<1>1. PICK n : n = core[i]
  OBVIOUS
<1>2. UNCHANGED <<core, elected, led>> /\ LogOK(n, i) /\ LogInv
  BY <1>1, InvNode DEF ConfirmLeadership, ClusterInv
<1>3. CASE n.state = "Leader"
  <2> DEFINE reqs == {[to |-> p, req |-> AppendEntriesArgs(n, i, p, <<>>), mark |-> 0] :
                         p \in Peers(i)}
  <2>1. Send(i, reqs, "confirming")
    BY <1>1, <1>3 DEF ConfirmLeadership
  <2>2. ASSUME NEW r \in reqs
        PROVE  /\ r.req.type = "RequestVote" => BallotRequestOK(r.req)
               /\ r.req.type = "AppendEntries" => r.mark <= r.req.prev_log_index + Len(r.req.entries)
               /\ r.req.term = n.current_term
    <3>1. PICK p \in Peers(i) : r = [to |-> p, req |-> AppendEntriesArgs(n, i, p, <<>>), mark |-> 0]
      OBVIOUS
    <3>2. n.next_index[p] \in Nat \ {0}
      BY <1>2 DEF LogOK
    <3> QED
      BY <3>1, <3>2 DEF AppendEntriesArgs
  <2> HIDE DEF reqs
  <2> QED
    BY <1>1, <1>2, <2>1, <2>2, SendingKeeps
<1>4. CASE n.state # "Leader"
  <2>1. task' = [task EXCEPT ![i] = Idle] /\ UNCHANGED <<calls, orphans>>
    BY <1>1, <1>4 DEF ConfirmLeadership
  <2>2. NoneSubmits
    BY <1>2, <2>1, IdleOK, TaskNoneSubmits
  <2>3. AllCalm
    BY <1>2, SameCalm
  <2>4. SentRequests' \subseteq SentRequests
    BY <2>1, WireStays
  <2> QED
    BY <1>2, <2>1, <2>2, <2>3, <2>4, EndingKeeps
<1> QED
  BY <1>3, <1>4

LEMMA HandledCalm ==
    ASSUME SnapshotThreshold = 0, NEW i \in Server, NEW n, LogOK(n, i), CoreOK(n),
           NEW req, ReqOK(req), req.type = "RequestVote" => req.candidate_id \in Server
    PROVE  Calm(n, HandleRequest(n, req).core)
<1> DEFINE r == HandleRequest(n, req)
           m == r.core
<1>1. Handled(n, m, req, r.resp)
  BY HandledOK
<1>2. m.votes_received = n.votes_received
  <2>1. req.type \in RequestTypes /\ req.term \in Nat
    BY DEF ReqOK, RequestTypes
  <2>2. \/ Quiet(n, m)
        \/ CoreOK(m) /\ m.votes_received = n.votes_received
    BY <2>1, HandleRequestGives
  <2> HIDE DEF r
  <2> QED
    BY <2>2 DEF Quiet
<1>3. n.current_term \in Nat /\ \A p \in DOMAIN n.next_index : n.next_index[p] \in Nat
  BY DEF LogOK
<1>4. req.term \in Nat
  BY DEF ReqOK
<1> HIDE DEF r
<1>5. ASSUME req.type = "AppendEntries", r.resp.success PROVE Calm(n, m)
  BY <1>1, <1>3, <1>4, <1>5 DEF Handled, Accepted, Calm
<1>6. ASSUME ~(req.type = "AppendEntries" /\ r.resp.success) PROVE Calm(n, m)
  BY <1>1, <1>2, <1>3, <1>6 DEF Handled, Moved, SameLog, Calm
<1> QED
  BY <1>5, <1>6 DEF r

\* The requests on the wire are those of candidates, as far as votes go.
LEMMA DeliverKeeps ==
    ASSUME ClusterInv, SnapshotThreshold = 0, LogInv', SubmitsAsLeader',
           NEW c \in calls, Deliver(c)
    PROVE  Known'
<1>1. PICK n : n = core[c.to]
  OBVIOUS
<1> DEFINE r == HandleRequest(n, c.req)
           d == IF r.panicked THEN [c EXCEPT !.at = "failed"]
                ELSE [c EXCEPT !.at = "replied", !.resp = r.resp]
<1>2. /\ CallOK(c) /\ c.to \in Server /\ ReqOK(c.req) /\ CallTypeOK(c) /\ c.from \in Server
      /\ LogInv
  BY DEF ClusterInv, LogInv, CallsOK, CallOK, Peers, VoteInv, TypeOK
<1>3. /\ c.at = "sent" /\ core' = [core EXCEPT ![c.to] = r.core]
      /\ UNCHANGED <<task, orphans, elected, led>>
      /\ calls' = (calls \ {c}) \cup {d}
  BY <1>1 DEF Deliver
<1>4. LogOK(n, c.to) /\ CoreOK(n)
  BY <1>1, <1>2, InvNode
<1>5. Calm(n, r.core)
  BY <1>2, <1>4, HandledCalm DEF CallTypeOK
<1>6. d.from = c.from /\ d.req = c.req /\ d.mark = c.mark /\ d.at # "sent"
  BY <1>2 DEF CallOK
<1> HIDE DEF r, d
<1>7. AllCalm
  BY <1>1, <1>2, <1>3, <1>5, OneCalm
<1>8. NoneSubmits
  BY <1>3 DEF NoneSubmits, At
<1>9. SentRequests' \subseteq SentRequests
  BY <1>3, <1>6 DEF SentRequests
<1>10. \A e \in calls' : \E f \in calls : e.from = f.from /\ e.req = f.req /\ e.mark = f.mark
  BY <1>3, <1>6
<1>11. /\ \A q \in SentRequests' : q.type = "RequestVote" => BallotRequestOK(q)
       /\ \A e \in calls' : MarkOK(e)
  BY <1>9, <1>10, OldWire
<1> QED
  BY <1>3, <1>7, <1>8, <1>11, CalmKeeps

LEMMA DeliverOrphanKeeps ==
    ASSUME ClusterInv, SnapshotThreshold = 0, LogInv', SubmitsAsLeader',
           NEW o \in orphans, DeliverOrphan(o)
    PROVE  Known'
<1>1. PICK n : n = core[o.to]
  OBVIOUS
<1> DEFINE r == HandleRequest(n, o.req)
<1>2. /\ o.to \in Server /\ ReqOK(o.req) /\ OrphanTypeOK(o) /\ LogInv
  BY DEF ClusterInv, LogInv, CallsOK, VoteInv, TypeOK
<1>3. /\ core' = [core EXCEPT ![o.to] = r.core]
      /\ UNCHANGED <<task, calls, elected, led>> /\ orphans' = orphans \ {o}
  BY <1>1 DEF DeliverOrphan
<1>4. LogOK(n, o.to) /\ CoreOK(n)
  BY <1>1, <1>2, InvNode
<1>5. Calm(n, r.core)
  BY <1>2, <1>4, HandledCalm DEF OrphanTypeOK
<1> HIDE DEF r
<1>6. AllCalm
  BY <1>1, <1>2, <1>3, <1>5, OneCalm
<1>7. NoneSubmits
  BY <1>3 DEF NoneSubmits, At
<1>8. SentRequests' \subseteq SentRequests
  BY <1>3 DEF SentRequests
<1> QED
  BY <1>3, <1>6, <1>7, <1>8, EndingKeeps

\* What a leader learns from a peer that its requests reach: it goes on after what
\* the peer has taken of its log.
LEMMA ResultCalm ==
    ASSUME ClusterInv, SnapshotThreshold = 0, NEW c \in calls,
           c.at = "replied", c.req.type = "AppendEntries"
    PROVE  Calm(core[c.from], HandleAppendEntriesResult(core[c.from], c.to, c.mark, c.resp).core)
<1>1. PICK i : i = c.from
  OBVIOUS
<1>2. PICK n : n = core[i]
  OBVIOUS
<1> DEFINE m == HandleAppendEntriesResult(n, c.to, c.mark, c.resp).core
<1>3. /\ i \in Server /\ c.mark \in Nat /\ c.resp.term \in Nat /\ c.resp.success \in BOOLEAN
  BY <1>1 DEF ClusterInv, LogInv, CallsOK, CallOK
<1>4. LogOK(n, i) /\ CoreOK(n)
  BY <1>2, <1>3, InvNode
<1>5. Quiet(n, m)
  BY <1>3, <1>4, HandleAppendEntriesResultQuiet
<1>6. /\ LogOK(m, i)
      /\ IF m.state = "Leader"
         THEN n.state = "Leader" /\ Tracked(n, m, c.to, c.mark, c.resp.success)
         ELSE /\ Kept(n, m)
              /\ \/ m.current_term = n.current_term /\ m.state = n.state
                 \/ m.current_term > n.current_term /\ m.state = "Follower"
  <2>1. ResultTaken(n, i, c.to, c.mark, c.resp)
    BY <1>1, <1>2, AppendResultOK DEF ClusterInv
  <2> QED
    BY <2>1 DEF ResultTaken
<1> HIDE DEF m
<1>7. /\ n.current_term \in Nat /\ Len(n.log) \in Nat
      /\ \A p \in DOMAIN n.next_index : n.next_index[p] \in Nat
  BY <1>4, LogFacts DEF LogOK
<1>8. ASSUME m.state # "Leader" PROVE Calm(n, m)
  BY <1>6, <1>7, <1>8 DEF Calm, Kept, LogOK
<1>9. ASSUME m.state = "Leader" PROVE Calm(n, m)
  <2>1. n.state = "Leader" /\ Tracked(n, m, c.to, c.mark, c.resp.success)
    BY <1>6, <1>9
  <2>2. c.resp.success => c.mark <= Len(n.log)
    <3> SUFFICES ASSUME c.resp.success, c.mark > 0 PROVE c.mark <= Len(n.log)
      BY <1>3, <1>7
    <3>1. OkOf(c) \in Oks
      BY DEF Oks, IsOk
    <3>2. OkOf(c).index <= Len(led[OkOf(c).term].log)
      BY <3>1 DEF ClusterInv, R!ReplicationInv, R!OksHeld
    <3>3. OkOf(c).index = c.mark /\ OkOf(c).term = n.current_term
      BY <1>1, <1>2, <2>1 DEF OkOf, ClusterInv, MarksOK
    <3>4. led[n.current_term].log = n.log
      BY <1>2, <1>3, <2>1, InvLeader
    <3> QED
      BY <3>2, <3>3, <3>4
  <2>3. ASSUME NEW p \in DOMAIN n.next_index
        PROVE  m.next_index[p] <= n.next_index[p] \/ m.next_index[p] <= Len(n.log) + 1
    <3>1. m.next_index[p] <= n.next_index[p] \/ (c.resp.success /\ m.next_index[p] = c.mark + 1)
      BY <2>1 DEF Tracked
    <3> QED
      BY <1>3, <1>7, <2>2, <3>1
  <2>4. m.votes_received = n.votes_received
    BY <1>5 DEF Quiet
  <2> QED
    BY <1>7, <2>1, <2>3, <2>4 DEF Calm, Tracked
<1>10. Calm(n, m)
  BY <1>8, <1>9
<1> QED
  BY <1>1, <1>2, <1>10 DEF m

LEMMA HeartbeatResultKeeps ==
    ASSUME ClusterInv, SnapshotThreshold = 0, LogInv', SubmitsAsLeader',
           NEW c \in calls, HeartbeatResult(c)
    PROVE  Known'
<1> DEFINE r == HandleAppendEntriesResult(core[c.from], c.to, c.mark, c.resp)
<1>1. /\ c.at = "replied" /\ c.req.type = "AppendEntries" /\ c.from \in Server /\ LogInv
      /\ core' = [core EXCEPT ![c.from] = r.core] /\ AfterPanic(c, r.panicked)
      /\ UNCHANGED <<elected, led>>
  BY DEF HeartbeatResult, ClusterInv, LogInv, CallsOK, CallOK
<1>2. r.panicked = FALSE
  BY <1>1, AppendResultOK DEF ResultTaken
<1>3. Calm(core[c.from], r.core)
  BY <1>1, ResultCalm
<1> HIDE DEF r
<1>4. AllCalm
  BY <1>1, <1>3, OneCalm
<1>5. Take(c)
  BY <1>1, <1>2 DEF AfterPanic
<1>6. NoneSubmits /\ calls' \subseteq calls /\ SentRequests' \subseteq SentRequests
  BY <1>5, TakeNoneSubmits, WireTakes
<1> QED
  BY <1>1, <1>4, <1>6, EndingKeeps

LEMMA ReplicateResultKeeps ==
    ASSUME ClusterInv, SnapshotThreshold = 0, LogInv', SubmitsAsLeader',
           NEW c \in calls, ReplicateResult(c)
    PROVE  Known'
<1> DEFINE r == HandleAppendEntriesResult(core[c.from], c.to, c.mark, c.resp)
<1>1. /\ c.at = "replied" /\ At(c.from, "replicating") /\ c.from \in Server /\ LogInv /\ CallsOK
      /\ core' = [core EXCEPT ![c.from] = r.core] /\ UNCHANGED <<elected, led>>
      /\ \/ Drop(CallsOf(c.from)) /\ task' = [task EXCEPT ![c.from] = Idle]
         \/ AfterPanic(c, r.panicked)
  BY DEF ReplicateResult, ClusterInv, LogInv, CallsOK, CallOK
<1>2. c.req.type = "AppendEntries"
  BY <1>1 DEF CallsOK, WaitsOn, At
<1>3. r.panicked = FALSE
  BY <1>1, <1>2, AppendResultOK DEF ResultTaken
<1>4. Calm(core[c.from], r.core)
  BY <1>1, <1>2, ResultCalm
<1> HIDE DEF r
<1>5. AllCalm
  BY <1>1, <1>4, OneCalm
<1>6. NoneSubmits /\ calls' \subseteq calls /\ SentRequests' \subseteq SentRequests
  <2>1. CASE Drop(CallsOf(c.from)) /\ task' = [task EXCEPT ![c.from] = Idle]
    <3>1. NoneSubmits
      BY <1>1, <2>1, IdleOK, TaskNoneSubmits
    <3>2. CallsOf(c.from) \subseteq calls
      BY DEF CallsOf
    <3> QED
      BY <1>1, <2>1, <3>1, <3>2, WireDrops
  <2>2. CASE AfterPanic(c, r.panicked)
    <3>1. Take(c)
      BY <1>3, <2>2 DEF AfterPanic
    <3> QED
      BY <3>1, TakeNoneSubmits, WireTakes
  <2> QED
    BY <1>1, <2>1, <2>2
<1> QED
  BY <1>1, <1>5, <1>6, EndingKeeps

LEMMA ElectionTimeoutKeeps ==
    ASSUME ClusterInv, NEW i \in Server, ElectionTimeout(i)
    PROVE  Known'
<1>1. PICK n : n = core[i]
  OBVIOUS
<1> DEFINE m == StartElection(n, i)
<1>2. /\ core' = [core EXCEPT ![i] = m] /\ UNCHANGED <<calls, orphans, elected, led>>
      /\ task' = [task EXCEPT ![i].at = "elect"]
  BY <1>1 DEF ElectionTimeout
<1>3. LogOK(n, i) /\ DOMAIN core = Server /\ n.current_term \in Nat
      /\ \A j \in Server : core[j].current_term \in Nat
  BY <1>1, InvNode
<1>4. m.current_term = n.current_term + 1 /\ m.state = "Candidate"
  BY <1>3, StartElectionKept
<1> HIDE DEF m
<1>5. core'[i] = m /\ \A j \in Server : j # i => core'[j] = core[j]
  BY <1>2, <1>3
<1>6. ElectionsKnown'
  <2>1. ElectionsKnown
    BY DEF ClusterInv
  <2>2. ASSUME NEW e \in elected
        PROVE  e.leader \in Server /\ e.term \in 0 .. core'[e.leader].current_term
    BY <1>1, <1>3, <1>4, <1>5, <2>1 DEF ElectionsKnown
  <2>3. [term |-> m.current_term, leader |-> i] \notin elected
    <3>1. \A e \in elected : e.leader = i => e.term <= n.current_term
      BY <1>1, <1>3, <2>1 DEF ElectionsKnown
    <3> QED
      BY <1>3, <1>4, <3>1
  <2> QED
    BY <1>2, <1>4, <1>5, <2>1, <2>2, <2>3 DEF ElectionsKnown
<1>7. BallotRequestsOK'
  <2> SUFFICES ASSUME NEW r \in SentRequests', r.type = "RequestVote"
               PROVE  BallotRequestOK(r)'
    BY DEF BallotRequestsOK
  <2>1. BallotRequestOK(r)
    BY <1>2, WireStays DEF ClusterInv, BallotRequestsOK
  <2>2. r.term \in Nat
    BY <1>2, WireStays DEF SentRequests, ClusterInv, LogInv, CallsOK, CallOK, ReqOK
  <2>3. CASE r.candidate_id = i
    BY <1>1, <1>3, <1>4, <1>5, <2>1, <2>2, <2>3 DEF BallotRequestOK
  <2>4. CASE r.candidate_id # i
    BY <1>5, <2>1, <2>4 DEF BallotRequestOK
  <2> QED
    BY <2>3, <2>4
<1>8. MarksOK'
  <2>1. \A c \in calls : c.from \in Server
    BY DEF ClusterInv, LogInv, CallsOK, CallOK
  <2> QED
    BY <1>2, <1>4, <1>5, <2>1 DEF ClusterInv, MarksOK
<1>9. LeadersOK'
  <2>1. \A j \in Server : j # i => task'[j] = task[j]
    BY <1>2
  <2>2. ~At(i, "replicate")'
    BY <1>2 DEF At, ClusterInv, LogInv, CallsOK, TaskOK, TaskFields
  <2> QED
    BY <1>4, <1>5, <2>1, <2>2 DEF ClusterInv, LeadersOK, At
<1> QED
  BY <1>6, <1>7, <1>8, <1>9 DEF Known

\* The entry that is appended is the one to replicate.
LEMMA SubmitKeeps ==
    ASSUME ClusterInv, NEW i \in Server, NEW command \in Command, Submit(i, command)
    PROVE  Known'
<1>1. PICK n : n = core[i]
  OBVIOUS
<1> DEFINE m == AppendOwnEntry(n, command)
           t == n.current_term
<1>2. /\ core' = [core EXCEPT ![i] = m] /\ n.state = "Leader"
      /\ Follow(i, core'[i]) /\ UNCHANGED <<calls, orphans, elected>>
      /\ task' = [task EXCEPT ![i] = [Idle EXCEPT !.at = "replicate", !.command = command,
                                                  !.index = LastLogIndex(n) + 1]]
  BY <1>1 DEF Submit
<1>3. LogOK(n, i) /\ DOMAIN core = Server /\ DOMAIN task = Server /\ LogInv
  BY <1>1, InvNode DEF ClusterInv, LogInv, CallsOK
<1>4. /\ Len(m.log) = Len(n.log) + 1 /\ m.current_term = t /\ m.state = n.state
      /\ m.votes_received = n.votes_received /\ m.next_index = n.next_index
  BY <1>3, AppendOwnEntryOK
<1> HIDE DEF m
<1>5. core'[i] = m /\ \A j \in Server : j # i => core'[j] = core[j]
  BY <1>2, <1>3
<1>6. t \in DOMAIN led /\ led[t].leader = i /\ led[t].voters = n.votes_received
  BY <1>1, <1>2, InvLeader
<1>7. /\ DOMAIN led' = DOMAIN led
      /\ led'[t] = [leader |-> i, voters |-> led[t].voters, log |-> m.log]
      /\ \A u \in DOMAIN led : u # t => led'[u] = led[u]
  BY <1>2, <1>4, <1>5, <1>6 DEF Follow
<1>8. \A j \in Server : /\ core'[j].current_term = core[j].current_term
                        /\ core'[j].state = core[j].state
                        /\ core'[j].votes_received = core[j].votes_received
  BY <1>1, <1>4, <1>5
<1>9. ElectionsKnown'
  <2>1. ElectionsKnown
    BY DEF ClusterInv
  <2>2. \A u \in DOMAIN led' : led'[u].leader = led[u].leader /\ led'[u].voters = led[u].voters
    BY <1>6, <1>7
  <2>3. \A j \in Server : core[j].state = "Leader" => core[j].current_term \in DOMAIN led
    BY InvLeader
  <2> QED
    BY <1>2, <1>7, <1>8, <2>1, <2>2, <2>3 DEF ElectionsKnown
<1>10. BallotRequestsOK'
  <2> SUFFICES ASSUME NEW r \in SentRequests', r.type = "RequestVote"
               PROVE  BallotRequestOK(r)'
    BY DEF BallotRequestsOK
  <2>1. BallotRequestOK(r)
    BY <1>2, WireStays DEF ClusterInv, BallotRequestsOK
  <2> QED
    BY <1>1, <1>2, <1>4, <1>5, <2>1 DEF BallotRequestOK
<1>11. MarksOK'
  <2>1. \A c \in calls : c.from \in Server
    BY DEF ClusterInv, LogInv, CallsOK, CallOK
  <2> QED
    BY <1>2, <1>8, <2>1 DEF ClusterInv, MarksOK
<1>12. LeadersOK'
  <2>1. LastLogIndex(n) = Len(n.log) /\ Len(n.log) \in Nat
    BY <1>3, LogFacts
  <2>2. \A j \in Server : j # i => task'[j] = task[j]
    BY <1>2
  <2>3. task'[i].index = Len(m.log)
    BY <1>2, <1>3, <1>4, <2>1, IdleFields
  <2>4. ASSUME NEW p \in Peers(i) PROVE m.next_index[p] <= Len(m.log) + 1
    <3>1. n.next_index[p] <= Len(n.log) + 1 /\ n.next_index[p] \in Nat
      BY <1>1, <1>2, <1>3 DEF ClusterInv, LeadersOK, LogOK
    <3> QED
      BY <1>4, <2>1, <3>1
  <2> QED
    BY <1>1, <1>2, <1>5, <2>2, <2>3, <2>4 DEF ClusterInv, LeadersOK, At
<1> QED
  BY <1>9, <1>10, <1>11, <1>12 DEF Known

\* The votes that win an election stay with the winner; what it sent as a
\* candidate is waited on no longer.
LEMMA WinKeeps ==
    ASSUME ClusterInv, ElectionSafety', LogInv', NEW c \in calls, VoteResult(c),
           HandleRequestVoteResult(core[c.from], c.from, c.to, c.resp).elected
    PROVE  Known'
<1>1. PICK i : i = c.from
  OBVIOUS
<1>2. PICK n : n = core[i]
  OBVIOUS
<1> DEFINE r == HandleRequestVoteResult(n, i, c.to, c.resp)
           m == r.core
           t == n.current_term
<1>3. /\ i \in Server /\ c.resp.term \in Nat /\ CallsOK /\ DOMAIN task = Server
      /\ task[i].at = "voting" /\ TaskOK(task[i])
  BY <1>1 DEF ClusterInv, LogInv, CallsOK, CallOK, VoteResult, At
<1>4. /\ LogOK(n, i) /\ DOMAIN core = Server /\ t \in Nat /\ Len(n.log) \in Nat
      /\ \A j \in Server : core[j].current_term \in Nat
  BY <1>2, <1>3, InvNode
<1>5. r.elected
  BY <1>1, <1>2
<1>6. n.state = "Candidate" /\ Won(n, m, i)
  BY <1>3, <1>4, <1>5, HandleRequestVoteResultOK
<1>7. /\ core' = [core EXCEPT ![i] = m] /\ task' = [task EXCEPT ![i].at = "beat"]
      /\ elected' = elected \cup {[term |-> m.current_term, leader |-> i]}
      /\ Follow(i, m) /\ Drop(CallsOf(i))
  BY <1>1, <1>2, <1>5 DEF VoteResult
<1> HIDE DEF r
<1>8. /\ m.current_term = t /\ m.state = "Leader" /\ Len(m.log) = Len(n.log) + 1
      /\ m.next_index = [p \in Peers(i) |-> Len(n.log) + 1]
  BY <1>6 DEF Won
<1>9. /\ core'[i] = m /\ \A j \in Server : j # i => core'[j] = core[j]
      /\ \A j \in Server : core'[j].current_term = core[j].current_term
  BY <1>2, <1>3, <1>4, <1>7, <1>8
<1>10. t \notin DOMAIN led
  BY <1>2, <1>3, <1>6, <1>7, <1>8, FirstWin
<1>11. /\ DOMAIN led' = DOMAIN led \cup {t}
       /\ led'[t].leader = i /\ led'[t].voters = m.votes_received
       /\ \A u \in DOMAIN led : led'[u] = led[u]
  BY <1>7, <1>8, <1>10 DEF Follow
<1>12. calls' = calls \ CallsOf(i) /\ SentRequests' \subseteq SentRequests
  <2>1. CallsOf(i) \subseteq calls
    BY DEF CallsOf
  <2> QED
    BY <1>3, <1>7, <2>1, WireDrops
<1>13. ElectionsKnown'
  <2>1. ElectionsKnown
    BY DEF ClusterInv
  <2>2. \A u \in DOMAIN led' : [term |-> u, leader |-> led'[u].leader] \in elected'
    BY <1>7, <1>8, <1>11, <2>1 DEF ElectionsKnown
  <2>3. ASSUME NEW e \in elected'
        PROVE  e.leader \in Server /\ e.term \in 0 .. core'[e.leader].current_term
    BY <1>2, <1>3, <1>4, <1>7, <1>8, <1>9, <2>1 DEF ElectionsKnown
  <2>4. ASSUME NEW j \in Server, core'[j].state = "Candidate"
        PROVE  [term |-> core'[j].current_term, leader |-> j] \notin elected'
    BY <1>7, <1>8, <1>9, <2>1, <2>4 DEF ElectionsKnown
  <2>5. ASSUME NEW j \in Server, core'[j].state = "Leader"
        PROVE  led'[core'[j].current_term].voters = core'[j].votes_received
    <3>1. CASE j = i
      BY <1>8, <1>9, <1>11, <3>1
    <3>2. CASE j # i
      <4>1. core[j].state = "Leader" /\ core'[j] = core[j]
        BY <1>9, <2>5, <3>2
      <4>2. /\ core[j].current_term \in DOMAIN led
            /\ led[core[j].current_term].voters = core[j].votes_received
        BY <4>1, InvLeader
      <4> QED
        BY <1>11, <4>1, <4>2
    <3> QED
      BY <3>1, <3>2
  <2> QED
    BY <2>2, <2>3, <2>4, <2>5 DEF ElectionsKnown
<1>14. BallotRequestsOK'
  <2> SUFFICES ASSUME NEW q \in SentRequests', q.type = "RequestVote"
               PROVE  BallotRequestOK(q)'
    BY DEF BallotRequestsOK
  <2>1. BallotRequestOK(q)
    BY <1>12 DEF ClusterInv, BallotRequestsOK
  <2> QED
    BY <1>2, <1>8, <1>9, <2>1 DEF BallotRequestOK
<1>15. MarksOK'
  <2>1. \A d \in calls' : d \in calls /\ d.from \in Server /\ d.from # i
    BY <1>3, <1>12 DEF CallsOf, CallsOK, CallOK
  <2> QED
    BY <1>9, <2>1 DEF ClusterInv, MarksOK
<1>16. LeadersOK'
  <2>1. task'[i].at # "replicate" /\ \A j \in Server : j # i => task'[j] = task[j]
    BY <1>3, <1>7 DEF TaskOK, TaskFields
  <2>2. \A p \in Peers(i) : m.next_index[p] <= Len(m.log) + 1
    BY <1>4, <1>8
  <2> QED
    BY SMTT(30), <1>3, <1>9, <2>1, <2>2 DEF ClusterInv, LeadersOK, At
<1> QED
  BY <1>13, <1>14, <1>15, <1>16 DEF Known

LEMMA VoteResultKeeps ==
    ASSUME ClusterInv, ElectionSafety', LogInv', SubmitsAsLeader', NEW c \in calls, VoteResult(c)
    PROVE  Known'
<1>1. PICK i : i = c.from
  OBVIOUS
<1>2. PICK n : n = core[i]
  OBVIOUS
<1> DEFINE r == HandleRequestVoteResult(n, i, c.to, c.resp)
           counted == n.votes_received \cup IF c.resp.vote_granted THEN {c.to} ELSE {}
<1>3. CASE r.elected
  BY <1>1, <1>2, <1>3, WinKeeps
<1>4. CASE ~r.elected
  <2>1. LoopsOK /\ LogInv
    BY VoteInvParts DEF ClusterInv
  <2>2. /\ i \in Server /\ c.to \in Server /\ c.resp.term \in Nat
        /\ c.resp.vote_granted \in BOOLEAN
    BY <1>1, <2>1 DEF VoteResult, LoopsOK, CallTypeOK, GrantsInFlight
  <2>3. LogOK(n, i) /\ CoreOK(n) /\ n.current_term \in Nat
        /\ \A p \in DOMAIN n.next_index : n.next_index[p] \in Nat
    BY <1>2, <2>2, InvNode DEF LogOK
  <2>4. /\ core' = [core EXCEPT ![i] = r.core] /\ Take(c) /\ UNCHANGED <<elected, led>>
    BY <1>1, <1>2, <1>4 DEF VoteResult
  <2>5. /\ Kept(n, r.core) /\ LogOK(r.core, i)
        /\ \/ r.core.current_term = n.current_term /\ r.core.state = n.state
           \/ r.core.current_term > n.current_term /\ r.core.state = "Follower"
    BY <1>4, <2>2, <2>3, HandleRequestVoteResultOK
  <2>6. /\ r.elected \in BOOLEAN
        /\ \/ Quiet(n, r.core) /\ ~r.elected
           \/ /\ n.state = "Candidate"
              /\ \/ ~r.elected /\ r.core.state = "Candidate"
                 \/ r.elected /\ r.core.state = "Leader"
    <3>1. CoreOK(n)
      BY <2>3
    <3>2. /\ r.elected \in BOOLEAN
          /\ \/ Quiet(n, r.core) /\ ~r.elected
             \/ /\ n.state = "Candidate" /\ r.core.votes_received = counted
                /\ \/ ~r.elected /\ r.core.state = "Candidate"
                   \/ /\ r.elected /\ r.core.state = "Leader"
                      /\ Cardinality(counted) >= Majority
      BY <2>2, <3>1, HandleRequestVoteResultCounts
    <3> QED
      BY <3>2
  <2> HIDE DEF r
  <2>7. Calm(n, r.core)
    BY <1>4, <2>3, <2>5, <2>6 DEF Calm, Kept, Quiet, LogOK
  <2>8. AllCalm
    BY <1>2, <2>1, <2>2, <2>4, <2>7, OneCalm
  <2>9. NoneSubmits /\ calls' \subseteq calls /\ SentRequests' \subseteq SentRequests
    BY <2>4, TakeNoneSubmits, WireTakes
  <2> QED
    BY <2>4, <2>8, <2>9, EndingKeeps
<1> QED
  BY <1>3, <1>4

\* What ends the calls of a loop, or some of them, and moves it on.
LEMMA DropKeeps ==
    ASSUME ClusterInv, LogInv', SubmitsAsLeader', AllCalm, UNCHANGED <<elected, led>>,
           NEW i \in Server, NEW S, S \subseteq CallsOf(i), Drop(S),
           NEW t, t.at # "replicate", task' = [task EXCEPT ![i] = t]
    PROVE  Known'
<1>1. NoneSubmits
  BY TaskNoneSubmits DEF ClusterInv
<1>2. S \subseteq calls /\ CallsOK
  BY DEF CallsOf, ClusterInv, LogInv
<1>3. calls' \subseteq calls /\ SentRequests' \subseteq SentRequests
  BY <1>2, WireDrops
<1> QED
  BY <1>1, <1>3, EndingKeeps

LEMMA ConfirmKeeps ==
    ASSUME ClusterInv, LogInv', SubmitsAsLeader',
           NEW c \in calls, ConfirmRefused(c) \/ ConfirmResult(c)
    PROVE  Known'
<1>1. PICK i : i = c.from
  OBVIOUS
<1>2. /\ i \in Server /\ LogInv /\ CallOK(c) /\ TaskOK(task[i]) /\ DOMAIN task = Server
      /\ c \in CallsOf(i) /\ task[i].at = "confirming"
  BY <1>1 DEF ClusterInv, LogInv, CallsOK, CallOK, CallsOf, ConfirmRefused, ConfirmResult, At
<1>3. LogOK(core[i], i)
  BY <1>2, InvNode
<1>4. CASE ConfirmRefused(c)
  <2> DEFINE m == [core[i] EXCEPT !.current_term = c.resp.term,
                                  !.state = "Follower", !.voted_for = Nil]
  <2>1. /\ c.at = "replied" /\ c.resp.term > core[i].current_term
        /\ core' = [core EXCEPT ![i] = m] /\ Drop(CallsOf(i)) /\ UNCHANGED <<elected, led>>
        /\ task' = [task EXCEPT ![i] = Idle]
    BY <1>1, <1>2, <1>4 DEF ConfirmRefused, LogInv, NodesOK
  <2>2. Calm(core[i], m)
    BY <1>2, <1>3, <2>1 DEF Calm, LogOK, CoreFields, CallOK
  <2> HIDE DEF m
  <2>3. AllCalm
    BY <1>2, <2>1, <2>2, OneCalm
  <2> QED
    BY <1>2, <2>1, <2>3, IdleOK, DropKeeps
<1>5. CASE ConfirmResult(c)
  <2> DEFINE acks == task[i].acks + (IF c.resp.success THEN 1 ELSE 0)
             others == CallsOf(i) \ {c}
             enough == others = {} \/ acks >= (Cardinality(Peers(i)) + 1) \div 2
             t == [task[i] EXCEPT !.acks = acks,
                                  !.at = IF enough THEN "confirmed" ELSE @]
             S == IF enough THEN CallsOf(i) ELSE {c}
  <2>1. /\ task' = [task EXCEPT ![i] = t] /\ Drop(S) /\ UNCHANGED <<core, elected, led>>
    BY <1>1, <1>2, <1>5 DEF ConfirmResult
  <2>2. t.at # "replicate" /\ S \subseteq CallsOf(i)
    <3> HIDE DEF acks, enough
    <3> QED
      BY <1>2 DEF TaskOK, TaskFields
  <2>3. AllCalm
    BY <1>2, <2>1, SameCalm
  <2> HIDE DEF t, S
  <2> QED
    BY <1>2, <2>1, <2>2, <2>3, DropKeeps
<1> QED
  BY <1>4, <1>5

LEMMA CallsFailKeeps ==
    ASSUME ClusterInv, LogInv', SubmitsAsLeader', NEW i \in Server, CallsFail(i)
    PROVE  Known'
<1>1. /\ Drop(CallsOf(i)) /\ UNCHANGED <<core, elected, led>> /\ LogInv /\ TaskOK(task[i])
      /\ task' = [task EXCEPT ![i] = WhenCallsEnd(i)] /\ CallsOf(i) \subseteq CallsOf(i)
  BY DEF CallsFail, ClusterInv, LogInv, CallsOK
<1>2. WhenCallsEnd(i).at # "replicate"
  BY <1>1, IdleOK DEF WhenCallsEnd, TaskOK, TaskFields
<1>3. AllCalm
  BY <1>1, SameCalm
<1> QED
  BY <1>1, <1>2, <1>3, DropKeeps

LEMMA RestartKeeps ==
    ASSUME ClusterInv, LogInv', SubmitsAsLeader', NEW i \in Server, TermPersisted(i), Restart(i)
    PROVE  Known'
<1> DEFINE n == core[i]
           m == New(i, n.stored_term, n.stored_voted_for, n.stored_log, n.stored_snapshot)
<1>1. LogOK(n, i) /\ LogInv
  BY InvNode DEF ClusterInv
<1>2. /\ core' = [core EXCEPT ![i] = m] /\ Drop(CallsOf(i)) /\ UNCHANGED <<elected, led>>
      /\ task' = [task EXCEPT ![i] = Idle] /\ CallsOf(i) \subseteq CallsOf(i)
  BY DEF Restart
<1>3. m.current_term = n.current_term /\ m.state = "Follower" /\ n.current_term \in Nat
  BY <1>1 DEF New, TermPersisted, LogOK
<1> HIDE DEF m
<1>4. Calm(n, m)
  BY <1>3 DEF Calm
<1>5. AllCalm
  BY <1>1, <1>2, <1>4, OneCalm
<1> QED
  BY <1>2, <1>5, IdleOK, DropKeeps

\* A step of a read that sends nothing.
LEMMA ReadKeeps ==
    ASSUME ClusterInv, LogInv', SubmitsAsLeader', NEW i \in Server,
           ReadIndex(i) \/ FinishRead(i) \/ RefuseRead(i)
    PROVE  Known'
<1>1. /\ UNCHANGED <<core, calls, orphans, elected, led>> /\ LogInv
      /\ \E t : t.at # "replicate" /\ task' = [task EXCEPT ![i] = t]
  BY IdleFields DEF ReadIndex, FinishRead, RefuseRead, ClusterInv
<1>2. NoneSubmits
  BY <1>1, TaskNoneSubmits
<1>3. AllCalm
  BY <1>1, SameCalm
<1>4. calls' \subseteq calls /\ SentRequests' \subseteq SentRequests
  BY <1>1, WireStays
<1> QED
  BY <1>1, <1>2, <1>3, <1>4, EndingKeeps

LEMMA StillKeeps ==
    ASSUME ClusterInv, LogInv', SubmitsAsLeader',
           UNCHANGED <<core, task, calls, orphans, elected, led>>
    PROVE  Known'
<1>1. NoneSubmits
  BY DEF NoneSubmits, At
<1>2. AllCalm
  BY SameCalm DEF ClusterInv
<1>3. calls' \subseteq calls /\ SentRequests' \subseteq SentRequests
  BY WireStays
<1> QED
  BY <1>1, <1>2, <1>3, EndingKeeps

LEMMA KnownStep ==
    ASSUME SnapshotThreshold = 0, ClusterInv, ElectionSafety', LogInv', SubmitsAsLeader',
           [PersistedNext]_vars
    PROVE  Known'
<1>1. ASSUME NEW i \in Server, LoopStep(i) \/ ElectionTimeout(i) \/ ReadIndex(i)
      PROVE  Known'
  BY <1>1, ElectionTimeoutKeeps, RequestVotesKeeps, SendHeartbeatKeeps, ReplicateToPeersKeeps,
     ConfirmLeadershipKeeps, ReadKeeps DEF LoopStep
<1>2. ASSUME NEW i \in Server, NEW command \in Command, Submit(i, command)
      PROVE  Known'
  BY <1>2, SubmitKeeps
<1>3. ASSUME NEW c \in calls, Deliver(c) \/ TakeResult(c)
      PROVE  Known'
  BY <1>3, DeliverKeeps, VoteResultKeeps, HeartbeatResultKeeps, ReplicateResultKeeps,
     ConfirmKeeps, NoSuchCalls DEF TakeResult, ClusterInv
<1>4. ASSUME NEW o \in orphans, DeliverOrphan(o)
      PROVE  Known'
  BY <1>4, DeliverOrphanKeeps
<1>5. ASSUME NEW g \in gets, KvGet(g)
      PROVE  Known'
  BY <1>5, StillKeeps DEF KvGet, nodeVars
<1>6. ASSUME NEW i \in Server, CallsFail(i) \/ (TermPersisted(i) /\ Restart(i))
      PROVE  Known'
  BY <1>6, CallsFailKeeps, RestartKeeps
<1>7. CASE UNCHANGED vars
  BY <1>7, StillKeeps DEF vars, nodeVars
<1> QED
  BY <1>1, <1>2, <1>3, <1>4, <1>5, <1>6, <1>7 DEF PersistedNext, Step, Work

(***************************************************************************)
(* The invariant of the cluster.                                           *)
(***************************************************************************)
LEMMA EntriesMapped == R!IsFiniteSet(Server) /\ R!EntriesHaveTerms
<1>1. IsFiniteSet(Server)
  BY ServerAssumption
<1>2. R!IsFiniteSet(Server)
  BY <1>1, Zenon DEF IsFiniteSet, R!IsFiniteSet
<1>3. R!EntriesHaveTerms
  BY DEF R!EntriesHaveTerms, LogEntry
<1> QED
  BY <1>2, <1>3

LEMMA MappedInit == Init => R!ReplicationInit
<1> SUFFICES ASSUME Init PROVE R!ReplicationInit
  OBVIOUS
<1>1. \A i \in Server :
          /\ core[i].current_term = 0 /\ core[i].state = "Follower" /\ core[i].log = <<>>
          /\ core[i].commit_index = 0 /\ core[i].match_index = [p \in Server \ {i} |-> 0]
  BY DEF Init, New, NoSnapshot, Peers
<1>2. Requests = {} /\ Oks = {}
  BY DEF Init, Requests, SentRequests, Oks
<1>3. /\ Terms = [i \in Server |-> 0] /\ Roles = [i \in Server |-> "Follower"]
      /\ Logs = [i \in Server |-> <<>>] /\ Commits = [i \in Server |-> 0]
      /\ Matches = [i \in Server |-> [p \in Server \ {i} |-> 0]]
  BY <1>1 DEF Terms, Roles, Logs, Commits, Matches
<1> QED
  BY <1>2, <1>3 DEF Init, R!ReplicationInit

LEMMA ClusterInit == Init => ClusterInv
<1> SUFFICES ASSUME Init PROVE ClusterInv
  OBVIOUS
<1>1. VoteInv /\ LogInv
  BY InitOK, LogInit
<1>2. R!ReplicationInv
  BY MappedInit, EntriesMapped, R!ReplicationInitOK
<1>3. \A i \in Server : core[i].state = "Follower" /\ task[i].at = "idle"
  BY IdleFields DEF Init, New
<1>4. ElectionsKnown /\ MarksOK
  BY <1>3 DEF Init, ElectionsKnown, MarksOK
<1>5. BallotRequestsOK
  BY DEF Init, BallotRequestsOK, SentRequests
<1>6. LeadersOK /\ SubmitsAsLeader /\ ReadsSettled
  BY <1>3 DEF LeadersOK, SubmitsAsLeader, ReadsSettled, At
<1> QED
  BY <1>1, <1>2, <1>4, <1>5, <1>6 DEF ClusterInv

\* Whatever happens, as long as nothing goes through the windows.
LEMMA ClusterStep ==
    ASSUME SnapshotThreshold = 0, ClusterInv, ElectionSafety', [GuardedNext]_vars
    PROVE  ClusterInv' /\ Implemented
<1>1. [PersistedNext]_vars /\ [Next]_vars
  BY DEF GuardedNext, PersistedNext, Next
<1>2. SubmitsAsLeader' /\ ReadsSettled'
  <2>1. CASE GuardedNext
    BY <2>1 DEF GuardedNext
  <2>2. CASE UNCHANGED vars
    BY <2>2 DEF ClusterInv, SubmitsAsLeader, ReadsSettled, vars, nodeVars, At
  <2> QED
    BY <2>1, <2>2
<1>3. VoteInv'
  BY <1>1, StepOK DEF ClusterInv
<1>4. LogInv'
  BY <1>1, LogStep DEF ClusterInv
<1>5. Known'
  BY <1>1, <1>2, <1>4, KnownStep
<1>6. Implemented
  BY StepMapped
<1>7. R!ReplicationInv'
  BY <1>6, EntriesMapped, R!ReplicationStep DEF ClusterInv, Implemented
<1> QED
  BY <1>2, <1>3, <1>4, <1>5, <1>6, <1>7 DEF ClusterInv, Known

LEMMA GuardedElections == GuardedSpec => []ElectionSafety
<1>1. [GuardedNext]_vars => [PersistedNext]_vars
  BY DEF GuardedNext
<1> QED
  BY <1>1, ElectionsAreSafe, PTL DEF GuardedSpec, PersistedSpec

(***************************************************************************)
(* Theorems, of a cluster that takes no snapshots and in which nothing     *)
(* goes through the windows.                                               *)
(***************************************************************************)

\* What is known of votes, logs, requests and of the mapped state holds in every
\* state, for any number of nodes, crashes and late requests.
THEOREM ClusterHolds == ASSUME SnapshotThreshold = 0 PROVE GuardedSpec => []ClusterInv
<1>1. Init => ClusterInv
  BY ClusterInit
<1>2. ClusterInv /\ ElectionSafety' /\ [GuardedNext]_vars => ClusterInv'
  BY ClusterStep
<1> QED
  BY <1>1, <1>2, GuardedElections, PTL DEF GuardedSpec

\* The handlers and event loops of run(), with all their calls, implement the
\* replication of logs that Replication describes.
THEOREM ClusterReplicates == ASSUME SnapshotThreshold = 0 PROVE GuardedSpec => R!ReplicationSpec
<1>1. Init => R!ReplicationInit
  BY MappedInit
<1>2. ClusterInv /\ ElectionSafety' /\ [GuardedNext]_vars
      => [R!ReplicationNext]_(R!replicationVars)
  BY ClusterStep DEF Implemented
<1> QED
  BY <1>1, <1>2, ClusterHolds, GuardedElections, PTL DEF GuardedSpec, R!ReplicationSpec


(***************************************************************************)
(* What the cluster promises its clients and its state machines.           *)
(***************************************************************************)

(***************************************************************************)
(* Logs.                                                                   *)
(***************************************************************************)

LEMMA InvLogMatching == ASSUME ClusterInv PROVE LogMatching
<1> SUFFICES ASSUME NEW i \in Server, NEW j \in Server,
                    NEW k \in DOMAIN core[i].log, NEW l \in DOMAIN core[j].log,
                    core[i].log[k].index = core[j].log[l].index,
                    core[i].log[k].term = core[j].log[l].term,
                    NEW p \in DOMAIN core[i].log, NEW q \in DOMAIN core[j].log,
                    core[i].log[p].index = core[j].log[q].index,
                    core[i].log[p].index <= core[i].log[k].index
             PROVE  core[i].log[p] = core[j].log[q]
  BY DEF LogMatching, Entries
<1>1. Contiguous(core[i].log) /\ Contiguous(core[j].log)
  BY InvNode DEF LogOK
<1>2. k = l /\ p = q /\ p \in 1 .. k
  BY SMTT(30), <1>1 DEF Contiguous
<1>3. R!LogsMatch
  BY R!InvLogsMatch DEF ClusterInv
<1>4. \A m \in 1 .. k : Logs[i][m] = Logs[j][m]
  BY <1>2, <1>3, MappedNodes DEF R!LogsMatch
<1> QED
  BY <1>2, <1>4, MappedNodes

LEMMA InvCommittedEntriesAgree == ASSUME ClusterInv PROVE CommittedEntriesAgree
<1> SUFFICES ASSUME NEW i \in Server, NEW j \in Server,
                    NEW k \in DOMAIN core[i].log, NEW l \in DOMAIN core[j].log,
                    core[i].log[k].index = core[j].log[l].index,
                    core[i].log[k].index <= core[i].commit_index,
                    core[j].log[l].index <= core[j].commit_index
             PROVE  core[i].log[k] = core[j].log[l]
  BY DEF CommittedEntriesAgree, Entries
<1>1. Contiguous(core[i].log) /\ Contiguous(core[j].log) /\ core[i].commit_index \in Nat
  BY InvNode DEF LogOK
<1>2. k = l /\ k \in 1 .. core[i].commit_index /\ k <= core[j].commit_index
  BY <1>1 DEF Contiguous
<1>3. R!CommitsAgree
  BY EntriesMapped, R!InvCommitsAgree DEF ClusterInv
<1>4. Logs[i][k] = Logs[j][k]
  BY <1>2, <1>3, MappedNodes DEF R!CommitsAgree
<1> QED
  BY <1>2, <1>4, MappedNodes

\* The entries that a node counts as committed stay in its log.
LEMMA CommittedStay ==
    ASSUME ClusterInv, Implemented, NEW i \in Server
    PROVE  \A k \in 1 .. core[i].commit_index :
               k \in DOMAIN core'[i].log /\ core'[i].log[k] = core[i].log[k]
<1>1. \A k \in 1 .. Commits[i] : k \in DOMAIN Logs'[i] /\ Logs'[i][k] = Logs[i][k]
  BY EntriesMapped, R!StepCommitsStay DEF ClusterInv, Implemented
<1>2. Logs'[i] = core'[i].log
  BY DEF Logs
<1> QED
  BY <1>1, <1>2, MappedNodes

(***************************************************************************)
(* What is applied.                                                        *)
(***************************************************************************)

\* Node m is n some steps later: it counts no less as committed and has applied
\* what n has, and then what comes next in its log.
Progress(n, m) ==
    /\ m.current_term >= n.current_term
    /\ m.commit_index >= n.commit_index
    /\ m.last_applied >= n.last_applied
    /\ m.last_applied = n.last_applied \/ m.last_applied <= m.commit_index
    /\ \A k \in 1 .. n.last_applied : m.sm[k] = n.sm[k]
    /\ \A k \in (n.last_applied + 1) .. m.last_applied : m.sm[k] = m.log[k].command

AllProgress == \A j \in Server : Progress(core[j], core'[j])

\* Nothing is applied.
LEMMA NothingApplied ==
    ASSUME NEW i, NEW n, LogOK(n, i), NEW m, m.current_term >= n.current_term,
           m.commit_index = n.commit_index, m.last_applied = n.last_applied, m.sm = n.sm
    PROVE  Progress(n, m)
<1>1. n.commit_index \in Nat /\ n.last_applied \in Nat
  BY DEF LogOK
<1>2. \A k \in (n.last_applied + 1) .. n.last_applied : FALSE
  BY <1>1
<1> QED
  BY <1>1, <1>2 DEF Progress

LEMMA OneProgress ==
    ASSUME ClusterInv, NEW i \in Server, NEW m, Progress(core[i], m),
           core' = [core EXCEPT ![i] = m]
    PROVE  AllProgress
<1>1. ASSUME NEW j \in Server PROVE Progress(core[j], core[j])
  <2>1. LogOK(core[j], j) /\ core[j].current_term >= core[j].current_term
    BY InvNode
  <2> QED
    BY <2>1, NothingApplied
<1>2. ASSUME NEW j \in Server PROVE (core'[j] = m /\ j = i) \/ core'[j] = core[j]
  BY InvNode
<1> QED
  BY <1>1, <1>2 DEF AllProgress

LEMMA SameProgress ==
    ASSUME ClusterInv, core' = core
    PROVE  AllProgress
<1>1. ASSUME NEW j \in Server PROVE Progress(core[j], core[j])
  <2>1. LogOK(core[j], j) /\ core[j].current_term >= core[j].current_term
    BY InvNode
  <2> QED
    BY <2>1, NothingApplied
<1> QED
  BY <1>1 DEF AllProgress

LEMMA KeptProgress ==
    ASSUME NEW i, NEW n, LogOK(n, i), NEW m, Kept(n, m), m.current_term >= n.current_term
    PROVE  Progress(n, m)
BY NothingApplied DEF Kept

\* An AppendEntries that leaves the node all that it counts as committed.
LEMMA AcceptedProgress ==
    ASSUME NEW i, NEW n, LogOK(n, i), NEW m, LogOK(m, i), NEW req, AppendOK(req),
           req.term >= n.current_term, Accepted(n, m, req), n.commit_index <= Len(m.log)
    PROVE  Progress(n, m)
<1>1. /\ n.commit_index \in Nat /\ n.last_applied \in Nat /\ req.leader_commit \in Nat
      /\ m.commit_index \in Nat /\ Len(m.log) \in Nat
  BY LogFacts DEF LogOK, AppendOK
<1>2. /\ m.current_term = req.term
      /\ m.commit_index = IF req.leader_commit <= n.commit_index THEN n.commit_index
                          ELSE IF req.leader_commit <= Len(m.log) THEN req.leader_commit
                          ELSE Len(m.log)
      /\ m.last_applied = IF \/ req.leader_commit <= n.commit_index
                             \/ n.last_applied >= m.commit_index
                          THEN n.last_applied ELSE m.commit_index
      /\ \A k \in 1 .. n.last_applied : m.sm[k] = n.sm[k]
      /\ \A k \in (n.last_applied + 1) .. m.last_applied : m.sm[k] = m.log[k].command
  BY DEF Accepted
<1>3. m.commit_index >= n.commit_index
  BY <1>1, <1>2
<1>4. m.last_applied >= n.last_applied
      /\ (m.last_applied = n.last_applied \/ m.last_applied <= m.commit_index)
  BY <1>1, <1>2
<1> QED
  BY <1>2, <1>3, <1>4 DEF Progress

LEMMA TrackedProgress ==
    ASSUME NEW i, NEW n, LogOK(n, i), NEW m, NEW peer, NEW last \in Nat, NEW success,
           Tracked(n, m, peer, last, success)
    PROVE  Progress(n, m)
<1>1. /\ n.commit_index \in Nat /\ n.last_applied \in Nat /\ n.current_term \in Nat
  BY DEF LogOK
<1>2. m.log = n.log /\ m.current_term >= n.current_term
  BY <1>1 DEF Tracked
<1>3. CASE m.commit_index = n.commit_index /\ m.last_applied = n.last_applied /\ m.sm = n.sm
  BY <1>2, <1>3, NothingApplied
<1>4. CASE /\ m.commit_index = last /\ last > n.commit_index
           /\ m.last_applied = IF n.last_applied >= last THEN n.last_applied ELSE last
           /\ \A k \in 1 .. n.last_applied : m.sm[k] = n.sm[k]
           /\ \A k \in (n.last_applied + 1) .. m.last_applied : m.sm[k] = n.log[k].command
  BY <1>1, <1>2, <1>4 DEF Progress
<1> QED
  BY <1>3, <1>4 DEF Tracked

\* What a handler makes of a node.
LEMMA HandledProgress ==
    ASSUME ClusterInv, SnapshotThreshold = 0, Implemented, NEW i \in Server, NEW req, ReqOK(req),
           core' = [core EXCEPT ![i] = HandleRequest(core[i], req).core]
    PROVE  AllProgress
<1>1. PICK n : n = core[i]
  OBVIOUS
<1> DEFINE r == HandleRequest(n, req)
<1>2. LogOK(n, i) /\ LogOK(r.core, i) /\ Handled(n, r.core, req, r.resp)
  BY <1>1, InvNode, HandleRequestOK, HandledOK
<1>3. core' = [core EXCEPT ![i] = r.core]
  BY <1>1
<1> HIDE DEF r
<1>4. core'[i] = r.core
  BY <1>3, InvNode
<1>5. Progress(n, r.core)
  <2>1. CASE req.type = "AppendEntries" /\ r.resp.success
    <3>1. req.term >= n.current_term /\ Accepted(n, r.core, req) /\ AppendOK(req)
      BY <1>2, <2>1 DEF Handled, ReqOK
    <3>2. n.commit_index <= Len(r.core.log)
      <4>1. \A k \in 1 .. n.commit_index : k \in DOMAIN r.core.log
        BY <1>1, <1>4, CommittedStay
      <4>2. n.commit_index \in Nat /\ Len(r.core.log) \in Nat /\ r.core.log \in Seq(LogEntry)
        BY <1>2, LogFacts DEF LogOK
      <4> QED
        BY <4>1, <4>2
    <3> QED
      BY <1>2, <3>1, <3>2, AcceptedProgress
  <2>2. CASE ~(req.type = "AppendEntries" /\ r.resp.success)
    <3>1. Moved(n, r.core) /\ SameLog(n, r.core)
      BY <1>2, <2>2 DEF Handled
    <3> QED
      BY <1>2, <3>1, NothingApplied DEF Moved, SameLog
  <2> QED
    BY <2>1, <2>2
<1> QED
  BY <1>1, <1>3, <1>5, OneProgress

\* What an answer to an AppendEntries makes of the node that sent it.
LEMMA ResultProgress ==
    ASSUME ClusterInv, SnapshotThreshold = 0, NEW c \in calls,
           c.at = "replied", c.req.type = "AppendEntries",
           core' = [core EXCEPT ![c.from] =
                       HandleAppendEntriesResult(@, c.to, c.mark, c.resp).core]
    PROVE  AllProgress
<1>1. PICK i : i = c.from
  OBVIOUS
<1>2. PICK n : n = core[i]
  OBVIOUS
<1> DEFINE r == HandleAppendEntriesResult(n, c.to, c.mark, c.resp)
<1>3. i \in Server /\ c.mark \in Nat
  BY <1>1 DEF ClusterInv, LogInv, CallsOK, CallOK
<1>4. LogOK(n, i)
  BY <1>2, <1>3, InvNode
<1>5. LogOK(r.core, i)
      /\ IF r.core.state = "Leader"
         THEN Tracked(n, r.core, c.to, c.mark, c.resp.success)
         ELSE /\ Kept(n, r.core)
              /\ \/ r.core.current_term = n.current_term
                 \/ r.core.current_term > n.current_term
  <2>1. ResultTaken(n, i, c.to, c.mark, c.resp)
    BY <1>1, <1>2, AppendResultOK DEF ClusterInv
  <2> QED
    BY <2>1 DEF ResultTaken
<1>6. core' = [core EXCEPT ![i] = r.core]
  BY <1>1, <1>2
<1> HIDE DEF r
<1>7. Progress(n, r.core)
  <2>1. CASE r.core.state = "Leader"
    BY <1>3, <1>4, <1>5, <2>1, TrackedProgress
  <2>2. CASE r.core.state # "Leader"
    <3>1. r.core.current_term >= n.current_term
      <4>1. n.current_term \in Nat /\ r.core.current_term \in Nat
        BY <1>4, <1>5 DEF LogOK
      <4> QED
        BY <1>5, <2>2, <4>1
    <3>2. Kept(n, r.core)
      BY <1>5, <2>2
    <3> QED
      BY <1>4, <3>1, <3>2, KeptProgress
  <2> QED
    BY <2>1, <2>2
<1> QED
  BY <1>2, <1>3, <1>6, <1>7, OneProgress

LEMMA VoteResultProgress ==
    ASSUME ClusterInv, NEW c \in calls, VoteResult(c)
    PROVE  AllProgress
<1>1. PICK i : i = c.from
  OBVIOUS
<1>2. PICK n : n = core[i]
  OBVIOUS
<1> DEFINE r == HandleRequestVoteResult(n, i, c.to, c.resp)
<1>3. i \in Server /\ c.resp.term \in Nat /\ core' = [core EXCEPT ![i] = r.core]
  BY <1>1, <1>2 DEF VoteResult, ClusterInv, LogInv, CallsOK, CallOK
<1>4. LogOK(n, i) /\ n.current_term \in Nat
  BY <1>2, <1>3, InvNode DEF LogOK
<1>5. /\ LogOK(r.core, i) /\ r.elected \in BOOLEAN
      /\ r.elected => n.state = "Candidate" /\ Won(n, r.core, i)
      /\ ~r.elected =>
            /\ Kept(n, r.core)
            /\ \/ r.core.current_term = n.current_term /\ r.core.state = n.state
               \/ r.core.current_term > n.current_term /\ r.core.state = "Follower"
  BY <1>3, <1>4, HandleRequestVoteResultOK
<1> HIDE DEF r
<1>6. CASE r.elected
  <2>1. /\ r.core.current_term = n.current_term /\ r.core.commit_index = n.commit_index
        /\ r.core.last_applied = n.last_applied /\ r.core.sm = n.sm
    BY <1>5, <1>6 DEF Won
  <2>2. r.core.current_term >= n.current_term
    BY <1>4, <2>1
  <2> QED
    BY <1>2, <1>3, <1>4, <2>1, <2>2, NothingApplied, OneProgress
<1>7. CASE ~r.elected
  <2>1. r.core.current_term \in Nat
    BY <1>5 DEF LogOK
  <2>2. r.core.current_term >= n.current_term
    BY <1>4, <1>5, <1>7, <2>1
  <2> QED
    BY <1>2, <1>3, <1>4, <1>5, <1>7, <2>2, KeptProgress, OneProgress
<1> QED
  BY <1>5, <1>6, <1>7

LEMMA OwnStepsProgress ==
    ASSUME ClusterInv, NEW i \in Server,
           ElectionTimeout(i) \/ (\E command \in Command : Submit(i, command))
    PROVE  AllProgress
<1>1. PICK n : n = core[i]
  OBVIOUS
<1>2. LogOK(n, i) /\ n.current_term \in Nat
  BY <1>1, InvNode
<1>3. ASSUME ElectionTimeout(i) PROVE AllProgress
  <2>1. PICK m : m = StartElection(n, i)
    OBVIOUS
  <2>2. core' = [core EXCEPT ![i] = m]
    BY <1>1, <1>3, <2>1 DEF ElectionTimeout
  <2>3. Kept(n, m) /\ m.current_term = n.current_term + 1
    BY <1>2, <2>1, StartElectionKept
  <2>4. m.current_term >= n.current_term
    BY <1>2, <2>3
  <2> QED
    BY <1>1, <1>2, <2>2, <2>3, <2>4, KeptProgress, OneProgress
<1>4. ASSUME NEW command \in Command, Submit(i, command) PROVE AllProgress
  <2>1. PICK m : m = AppendOwnEntry(n, command)
    OBVIOUS
  <2>2. core' = [core EXCEPT ![i] = m]
    BY <1>1, <1>4, <2>1 DEF Submit
  <2>3. /\ m.current_term = n.current_term /\ m.commit_index = n.commit_index
        /\ m.last_applied = n.last_applied /\ m.sm = n.sm
    BY <1>2, <2>1, AppendOwnEntryOK
  <2>4. m.current_term >= n.current_term
    BY <1>2, <2>3
  <2> QED
    BY <1>1, <1>2, <2>2, <2>3, <2>4, NothingApplied, OneProgress
<1> QED
  BY <1>3, <1>4

LEMMA RefusedProgress ==
    ASSUME ClusterInv, NEW c \in calls, ConfirmRefused(c)
    PROVE  AllProgress
<1>1. PICK i : i = c.from
  OBVIOUS
<1> DEFINE m == [core[i] EXCEPT !.current_term = c.resp.term,
                                !.state = "Follower", !.voted_for = Nil]
<1>2. /\ i \in Server /\ c.resp.term \in Nat /\ c.resp.term > core[i].current_term
      /\ core' = [core EXCEPT ![i] = m]
  BY ZenonT(40), <1>1 DEF ConfirmRefused, ClusterInv, LogInv, CallsOK, CallOK
<1>3. LogOK(core[i], i) /\ core[i].current_term \in Nat
  BY <1>2, InvNode
<1>4. /\ m.current_term = c.resp.term /\ m.commit_index = core[i].commit_index
      /\ m.last_applied = core[i].last_applied /\ m.sm = core[i].sm
  BY <1>3 DEF LogOK, CoreFields
<1> HIDE DEF m
<1>5. m.current_term >= core[i].current_term
  BY <1>2, <1>3, <1>4
<1> QED
  BY <1>2, <1>3, <1>4, <1>5, NothingApplied, OneProgress

\* Every step but a restart.
LEMMA StepProgress ==
    ASSUME SnapshotThreshold = 0, ClusterInv, Implemented, Step
    PROVE  AllProgress
<1>1. ASSUME NEW i \in Server, LoopStep(i) \/ ReadIndex(i) \/ CallsFail(i)
      PROVE  core' = core
  BY <1>1 DEF LoopStep, ReadIndex, CallsFail, RequestVotes, SendHeartbeat, ReplicateToPeers,
     ConfirmLeadership, FinishRead, RefuseRead
<1>2. ASSUME NEW c \in calls, Deliver(c)
      PROVE  AllProgress
  <2>1. c.to \in Server /\ ReqOK(c.req)
    BY DEF ClusterInv, LogInv, CallsOK, CallOK, Peers
  <2>2. core' = [core EXCEPT ![c.to] = HandleRequest(core[c.to], c.req).core]
    BY <1>2 DEF Deliver
  <2> QED
    BY <2>1, <2>2, HandledProgress
<1>3. ASSUME NEW o \in orphans, DeliverOrphan(o)
      PROVE  AllProgress
  <2>1. o.to \in Server /\ ReqOK(o.req)
    BY DEF ClusterInv, LogInv, CallsOK
  <2>2. core' = [core EXCEPT ![o.to] = HandleRequest(core[o.to], o.req).core]
    BY <1>3 DEF DeliverOrphan
  <2> QED
    BY <2>1, <2>2, HandledProgress
<1>4. ASSUME NEW c \in calls, HeartbeatResult(c) \/ ReplicateResult(c)
      PROVE  AllProgress
  <2>1. c.at = "replied" /\ c.req.type = "AppendEntries"
    BY <1>4 DEF HeartbeatResult, ReplicateResult, ClusterInv, LogInv, CallsOK, WaitsOn, At
  <2>2. core' = [core EXCEPT ![c.from] =
                    HandleAppendEntriesResult(@, c.to, c.mark, c.resp).core]
    BY <1>4 DEF HeartbeatResult, ReplicateResult
  <2> QED
    BY <2>1, <2>2, ResultProgress
<1>5. ASSUME NEW c \in calls, TakeResult(c)
      PROVE  AllProgress
  <2>1. ~PeerPanicked(c) /\ ~SnapshotResult(c)
    BY NoSuchCalls DEF ClusterInv
  <2>2. ASSUME ConfirmResult(c) PROVE AllProgress
    BY <2>2, SameProgress DEF ConfirmResult
  <2> QED
    BY <1>4, <1>5, <2>1, <2>2, VoteResultProgress, RefusedProgress DEF TakeResult
<1>6. ASSUME NEW g \in gets, KvGet(g)
      PROVE  core' = core
  BY <1>6 DEF KvGet, nodeVars
<1> QED
  BY <1>1, <1>2, <1>3, <1>5, <1>6, SameProgress, OwnStepsProgress DEF Step, Work

\* A restart takes a node back to what it has on disk, and leaves the others alone.
LEMMA Restarted ==
    ASSUME ClusterInv, NEW i \in Server, Restart(i), TermPersisted(i)
    PROVE  /\ core'[i].current_term = core[i].current_term
           /\ core'[i].last_applied = 0 /\ core'[i].commit_index = 0
           /\ core'[i].log = core[i].log /\ core'[i].state = "Follower"
           /\ core'[i].stored_log = core'[i].log
           /\ \A j \in Server \ {i} : core'[j] = core[j]
<1>1. /\ core[i].stored_log = core[i].log /\ core[i].stored_snapshot = NoSnapshot
      /\ DOMAIN core = Server
  BY InvNode DEF LogOK
<1>2. core' = [core EXCEPT ![i] = New(i, core[i].stored_term, core[i].stored_voted_for,
                                      core[i].stored_log, core[i].stored_snapshot)]
  BY DEF Restart
<1>3. core'[i] = New(i, core[i].stored_term, core[i].stored_voted_for,
                     core[i].stored_log, core[i].stored_snapshot)
  BY <1>1, <1>2
<1> QED
  BY <1>1, <1>2, <1>3 DEF New, NoSnapshot, TermPersisted

\* What a state machine has been given is the beginning of the committed log.
Applied ==
    \A i \in Server :
        /\ core[i].last_applied <= core[i].commit_index
        /\ \A k \in 1 .. core[i].last_applied : core[i].sm[k] = core[i].log[k].command

LEMMA AppliedStep ==
    ASSUME SnapshotThreshold = 0, ClusterInv, ClusterInv', Implemented, Applied,
           [GuardedNext]_vars
    PROVE  Applied'
<1> SUFFICES ASSUME NEW i \in Server
             PROVE  /\ core'[i].last_applied <= core'[i].commit_index
                    /\ \A k \in 1 .. core'[i].last_applied :
                          core'[i].sm[k] = core'[i].log[k].command
  BY DEF Applied
<1>1. PICK n : n = core[i]
  OBVIOUS
<1>2. PICK m : m = core'[i]
  OBVIOUS
<1>3. /\ n.last_applied \in Nat /\ n.commit_index \in Nat
      /\ n.last_applied <= n.commit_index
      /\ \A k \in 1 .. n.last_applied : n.sm[k] = n.log[k].command
  BY <1>1, InvNode DEF Applied, LogOK
<1>4. LogOK(core[i], i)' /\ m.last_applied \in Nat /\ m.commit_index \in Nat
  <2>1. (LogInv)'
    BY DEF ClusterInv
  <2> QED
    BY <1>2, <2>1 DEF LogInv, NodesOK, LogOK
<1>5. \A k \in 1 .. n.commit_index : m.log[k] = n.log[k]
  BY <1>1, <1>2, CommittedStay
<1>6. ASSUME Progress(n, m)
      PROVE  /\ m.last_applied <= m.commit_index
             /\ \A k \in 1 .. m.last_applied : m.sm[k] = m.log[k].command
  <2>1. m.last_applied <= m.commit_index
    BY <1>3, <1>4, <1>6 DEF Progress
  <2>2. ASSUME NEW k \in 1 .. m.last_applied PROVE m.sm[k] = m.log[k].command
    <3>1. CASE k <= n.last_applied
      <4>1. k \in 1 .. n.last_applied /\ k \in 1 .. n.commit_index
        BY <1>3, <1>4, <3>1
      <4> QED
        BY <1>3, <1>5, <1>6, <4>1 DEF Progress
    <3>2. CASE ~(k <= n.last_applied)
      <4>1. k \in (n.last_applied + 1) .. m.last_applied
        BY <1>3, <1>4, <3>2
      <4> QED
        BY <1>6, <4>1 DEF Progress
    <3> QED
      BY <3>1, <3>2
  <2> QED
    BY <2>1, <2>2
<1>7. CASE Step
  BY <1>1, <1>2, <1>6, <1>7, StepProgress DEF AllProgress
<1>8. ASSUME NEW j \in Server, TermPersisted(j), Restart(j)
      PROVE  m = n \/ (m.last_applied = 0 /\ m.commit_index = 0)
  <2>1. CASE i = j
    BY <1>2, <1>8, <2>1, Restarted
  <2>2. CASE i # j
    BY <1>1, <1>2, <1>8, <2>2, Restarted
  <2> QED
    BY <2>1, <2>2
<1>9. CASE UNCHANGED vars
  BY <1>1, <1>2, <1>3, <1>9 DEF vars, nodeVars
<1>10. ASSUME m.last_applied = 0, m.commit_index = 0
       PROVE  /\ m.last_applied <= m.commit_index
              /\ \A k \in 1 .. m.last_applied : m.sm[k] = m.log[k].command
  BY <1>10
<1> QED
  BY <1>2, <1>3, <1>7, <1>8, <1>9, <1>10 DEF GuardedNext, PersistedNext

LEMMA InvStateMachineSafety == ASSUME ClusterInv, Applied PROVE StateMachineSafety
<1>1. ASSUME NEW i \in Server
      PROVE  /\ Len(core[i].sm) = core[i].last_applied /\ core[i].last_applied \in Nat
             /\ core[i].commit_index \in Nat
             /\ DOMAIN core[i].sm = 1 .. core[i].last_applied
             /\ core[i].last_applied <= core[i].commit_index
  BY InvNode DEF LogOK, Applied
<1>2. ASSUME NEW i \in Server, NEW j \in Server,
             NEW k \in DOMAIN core[i].sm \cap DOMAIN core[j].sm
      PROVE  core[i].sm[k] = core[j].sm[k]
  <2>1. k \in 1 .. core[i].last_applied /\ k \in 1 .. core[j].last_applied
    BY <1>1
  <2>2. k \in 1 .. core[i].commit_index /\ k <= core[j].commit_index
    BY <1>1, <2>1
  <2>3. R!CommitsAgree
    BY EntriesMapped, R!InvCommitsAgree DEF ClusterInv
  <2>4. Logs[i][k] = Logs[j][k]
    BY <2>2, <2>3, MappedNodes DEF R!CommitsAgree
  <2> QED
    BY <2>1, <2>4, MappedNodes DEF Applied
<1> QED
  BY <1>1, <1>2 DEF StateMachineSafety

(***************************************************************************)
(* What a step may never do.                                               *)
(***************************************************************************)

LEMMA IsPrefix ==
    ASSUME NEW S, NEW s \in Seq(S), NEW t \in Seq(S),
           \A k \in 1 .. Len(s) : k \in DOMAIN t /\ t[k] = s[k]
    PROVE  SubSeq(t, 1, Len(s)) = s
<1>1. Len(s) \in Nat /\ Len(t) \in Nat /\ DOMAIN s = 1 .. Len(s) /\ DOMAIN t = 1 .. Len(t)
  OBVIOUS
<1>2. Len(s) <= Len(t)
  <2>1. CASE Len(s) = 0
    BY <1>1, <2>1
  <2>2. CASE Len(s) # 0
    BY <1>1, <2>2
  <2> QED
    BY <2>1, <2>2
<1>3. /\ SubSeq(t, 1, Len(s)) \in Seq(S) /\ Len(SubSeq(t, 1, Len(s))) = Len(s)
      /\ \A k \in 1 .. Len(s) : SubSeq(t, 1, Len(s))[k] = t[k]
  BY <1>1, <1>2
<1> QED
  BY <1>1, <1>3

\* The restarts are counted.
SpentOK == DOMAIN spent = {"reads", "restarts"} /\ spent.restarts \in Nat

LEMMA SpentStep ==
    ASSUME SpentOK, [GuardedNext]_vars
    PROVE  /\ SpentOK'
           /\ spent'.restarts = spent.restarts => [Step]_vars
<1>1. ASSUME spent' = spent \/ \E k : spent' = [spent EXCEPT !.reads = k]
      PROVE  SpentOK'
  BY <1>1 DEF SpentOK
<1>2. ASSUME NEW i \in Server, Restart(i)
      PROVE  SpentOK' /\ spent'.restarts # spent.restarts
  BY <1>2 DEF Restart, SpentOK
<1>3. ASSUME NEW i \in Server, LoopStep(i) \/ ElectionTimeout(i) \/ CallsFail(i)
      PROVE  spent' = spent
  BY <1>3 DEF LoopStep, RequestVotes, SendHeartbeat, ReplicateToPeers, ConfirmLeadership,
     FinishRead, RefuseRead, ElectionTimeout, CallsFail, clientVars
<1>4. ASSUME NEW i \in Server, (\E command \in Command : Submit(i, command))
      PROVE  spent' = spent
  BY <1>4 DEF Submit
<1>5. ASSUME NEW i \in Server, ReadIndex(i)
      PROVE  \E k : spent' = [spent EXCEPT !.reads = k]
  BY <1>5 DEF ReadIndex
<1>6. ASSUME NEW c \in calls, Deliver(c) \/ TakeResult(c)
      PROVE  spent' = spent
  BY <1>6 DEF Deliver, TakeResult, VoteResult, HeartbeatResult, SnapshotResult,
     ReplicateResult, ConfirmRefused, ConfirmResult, PeerPanicked, clientVars
<1>7. ASSUME (\E o \in orphans : DeliverOrphan(o)) \/ (\E g \in gets : KvGet(g))
      PROVE  spent' = spent
  BY <1>7 DEF DeliverOrphan, KvGet, clientVars
<1>8. Step => SpentOK'
  BY <1>1, <1>3, <1>4, <1>5, <1>6, <1>7 DEF Step, Work
<1>9. UNCHANGED vars => SpentOK'
  BY <1>1 DEF vars, clientVars
<1> QED
  BY <1>2, <1>8, <1>9 DEF GuardedNext, PersistedNext

NothingGoesBack ==
    \A i \in Server :
        /\ core'[i].current_term >= core[i].current_term
        /\ spent'.restarts = spent.restarts =>
              /\ core'[i].commit_index >= core[i].commit_index
              /\ SubSeq(core'[i].sm, 1, Len(core[i].sm)) = core[i].sm

LEMMA StepGoesOn ==
    ASSUME SnapshotThreshold = 0, ClusterInv, LogInv', SpentOK, Implemented, [GuardedNext]_vars
    PROVE  NothingGoesBack
<1> SUFFICES ASSUME NEW i \in Server
             PROVE  /\ core'[i].current_term >= core[i].current_term
                    /\ spent'.restarts = spent.restarts =>
                          /\ core'[i].commit_index >= core[i].commit_index
                          /\ SubSeq(core'[i].sm, 1, Len(core[i].sm)) = core[i].sm
  BY DEF NothingGoesBack
<1>1. PICK n : n = core[i]
  OBVIOUS
<1>2. PICK m : m = core'[i]
  OBVIOUS
<1>3. /\ n.current_term \in Nat /\ n.commit_index \in Nat /\ n.last_applied \in Nat
      /\ n.sm \in Seq(Command \cup {Noop}) /\ Len(n.sm) = n.last_applied
  BY <1>1, InvNode DEF LogOK
<1>4. m.last_applied \in Nat /\ m.sm \in Seq(Command \cup {Noop}) /\ Len(m.sm) = m.last_applied
  BY <1>2 DEF LogInv, NodesOK, LogOK
<1>5. ASSUME Progress(n, m)
      PROVE  /\ m.current_term >= n.current_term /\ m.commit_index >= n.commit_index
             /\ SubSeq(m.sm, 1, Len(n.sm)) = n.sm
  <2>1. ASSUME NEW k \in 1 .. Len(n.sm) PROVE k \in DOMAIN m.sm /\ m.sm[k] = n.sm[k]
    BY <1>3, <1>4, <1>5 DEF Progress
  <2>2. SubSeq(m.sm, 1, Len(n.sm)) = n.sm
    BY <1>3, <1>4, <2>1, IsPrefix
  <2> QED
    BY <1>5, <2>2 DEF Progress
<1>6. CASE Step
  BY <1>1, <1>2, <1>5, <1>6, StepProgress DEF AllProgress
<1>7. CASE UNCHANGED vars
  <2>1. AllProgress
    BY <1>7, SameProgress DEF vars, nodeVars
  <2> QED
    BY <1>1, <1>2, <1>5, <2>1 DEF AllProgress
<1>8. ASSUME NEW j \in Server, TermPersisted(j), Restart(j)
      PROVE  m.current_term = n.current_term
  <2>1. CASE i = j
    BY <1>1, <1>2, <1>8, <2>1, Restarted
  <2>2. CASE i # j
    BY <1>1, <1>2, <1>8, <2>2, Restarted
  <2> QED
    BY <2>1, <2>2
<1>9. spent'.restarts = spent.restarts => [Step]_vars
  BY SpentStep
<1>10. m.current_term >= n.current_term
  BY <1>1, <1>2, <1>3, <1>5, <1>6, <1>7, <1>8 DEF GuardedNext, PersistedNext
<1> QED
  BY <1>1, <1>2, <1>6, <1>7, <1>9, <1>10

LeadersAppend ==
    \A i \in Server :
        /\ core[i].state = "Leader"
        /\ core'[i].current_term = core[i].current_term
        /\ core'[i].snapshot_last_index = core[i].snapshot_last_index
        /\ spent'.restarts = spent.restarts
        => SubSeq(core'[i].log, 1, Len(core[i].log)) = core[i].log

LEMMA StepAppends ==
    ASSUME ClusterInv, LogInv', Implemented
    PROVE  LeadersAppend
<1> SUFFICES ASSUME NEW i \in Server, core[i].state = "Leader",
                    core'[i].current_term = core[i].current_term
             PROVE  SubSeq(core'[i].log, 1, Len(core[i].log)) = core[i].log
  BY DEF LeadersAppend
<1>1. core[i].log \in Seq(LogEntry)
  BY InvNode
<1>2. core'[i].log \in Seq(LogEntry)
  BY DEF LogInv, NodesOK, LogOK, Contiguous
<1>3. Terms'[i] = core'[i].current_term /\ Logs'[i] = core'[i].log
  BY DEF Terms, Logs
<1>4. Roles[i] = "Leader" /\ Terms'[i] = Terms[i] /\ Logs[i] = core[i].log
  BY <1>3, MappedNodes
<1>5. \A k \in DOMAIN Logs[i] : k \in DOMAIN Logs'[i] /\ Logs'[i][k] = Logs[i][k]
  BY <1>4, R!StepLeaderAppends DEF ClusterInv, Implemented
<1>6. \A k \in 1 .. Len(core[i].log) : k \in DOMAIN core'[i].log /\ core'[i].log[k] = core[i].log[k]
  BY <1>1, <1>3, <1>4, <1>5
<1> QED
  BY <1>1, <1>2, <1>6, IsPrefix

(***************************************************************************)
(* How leaders, loops and calls go on.                                     *)
(***************************************************************************)

\* No term is won but by the candidate that counts the last vote it needs.
LEMMA WinsAreVotes ==
    ASSUME ClusterInv, [GuardedNext]_vars, DOMAIN led' # DOMAIN led
    PROVE  \E c \in calls : /\ c.from \in Server /\ task'[c.from].at = "beat"
                            /\ \A j \in Server \ {c.from} : core'[j] = core[j]
<1>1. ASSUME NEW i \in Server, LoopStep(i) \/ ElectionTimeout(i) \/ CallsFail(i)
                               \/ ReadIndex(i) \/ Restart(i)
      PROVE  led' = led
  BY <1>1 DEF LoopStep, RequestVotes, SendHeartbeat, ReplicateToPeers, ConfirmLeadership,
     FinishRead, RefuseRead, ElectionTimeout, CallsFail, ReadIndex, Restart
<1>2. ASSUME NEW i \in Server, NEW command \in Command, Submit(i, command)
      PROVE  DOMAIN led' = DOMAIN led
  <2>1. PICK n : n = core[i]
    OBVIOUS
  <2>2. PICK m : m = AppendOwnEntry(n, command)
    OBVIOUS
  <2>3. LogOK(n, i) /\ DOMAIN core = Server
    BY <2>1, InvNode
  <2>4. core'[i] = m /\ Follow(i, core'[i]) /\ core[i].state = "Leader"
    BY <1>2, <2>1, <2>2, <2>3 DEF Submit
  <2>5. m.current_term = n.current_term
    BY <2>2, <2>3, AppendOwnEntryOK
  <2>6. n.current_term \in DOMAIN led
    BY <2>1, <2>4, InvLeader
  <2>7. DOMAIN led' = DOMAIN led \cup {m.current_term}
    BY <2>4 DEF Follow
  <2> QED
    BY <2>5, <2>6, <2>7
<1>3. ASSUME NEW c \in calls, Deliver(c) \/ HeartbeatResult(c) \/ SnapshotResult(c)
                              \/ ReplicateResult(c) \/ ConfirmRefused(c) \/ ConfirmResult(c)
                              \/ PeerPanicked(c)
      PROVE  led' = led
  BY <1>3 DEF Deliver, HeartbeatResult, SnapshotResult, ReplicateResult, ConfirmRefused,
     ConfirmResult, PeerPanicked
<1>4. ASSUME (\E o \in orphans : DeliverOrphan(o)) \/ (\E g \in gets : KvGet(g))
      PROVE  led' = led
  BY <1>4 DEF DeliverOrphan, KvGet
<1>5. ASSUME NEW c \in calls, VoteResult(c)
      PROVE  /\ c.from \in Server /\ task'[c.from].at = "beat"
             /\ \A j \in Server \ {c.from} : core'[j] = core[j]
  <2>1. c.from \in Server /\ CallsOK /\ DOMAIN core = Server
    BY DEF ClusterInv, LogInv, CallsOK, CallOK, NodesOK
  <2>2. \E m : core' = [core EXCEPT ![c.from] = m]
    BY <1>5 DEF VoteResult
  <2>3. task' = [task EXCEPT ![c.from].at = "beat"]
    BY <1>5 DEF VoteResult
  <2>4. DOMAIN task = Server /\ DOMAIN task[c.from] = TaskFields
    BY <2>1 DEF CallsOK, TaskOK
  <2>5. task'[c.from].at = "beat"
    BY <2>1, <2>3, <2>4 DEF TaskFields
  <2> QED
    BY <2>1, <2>2, <2>5
<1>6. PICK c \in calls : VoteResult(c)
  BY <1>1, <1>2, <1>3, <1>4
     DEF GuardedNext, PersistedNext, Step, Work, TakeResult, vars
<1> QED
  BY <1>5, <1>6

\* A loop that goes about something else has not just been elected.
LEMMA StillLeads ==
    ASSUME ClusterInv, Implemented, [GuardedNext]_vars,
           NEW i \in Server, core'[i].state = "Leader", task'[i].at # "beat"
    PROVE  core[i].state = "Leader" /\ core'[i].current_term = core[i].current_term
<1>1. CASE DOMAIN led' = DOMAIN led
  <2>1. Roles'[i] = "Leader" /\ Terms'[i] = core'[i].current_term
    BY DEF Roles, Terms
  <2>2. Roles[i] = "Leader" /\ Terms'[i] = Terms[i]
    BY <1>1, <2>1, R!StepLeads DEF ClusterInv, Implemented
  <2> QED
    BY <2>1, <2>2, MappedNodes
<1>2. CASE DOMAIN led' # DOMAIN led
  BY <1>2, WinsAreVotes
<1> QED
  BY <1>1, <1>2

Busy == {"replicate", "replicating", "confirm", "confirming", "confirmed"}

\* A loop goes on with what it does, or is done with it.
GoesOn(t, u) ==
    \/ u = t
    \/ t.at = "confirming" /\ u = [t EXCEPT !.at = "confirmed"]
    \/ u.at \notin Busy

LoopsGoOn == \A i \in Server : GoesOn(task[i], task'[i])

LEMMA OneGoesOn ==
    ASSUME DOMAIN task = Server, NEW i, NEW u,
           i \in Server => GoesOn(task[i], u), task' = [task EXCEPT ![i] = u]
    PROVE  LoopsGoOn
<1>1. ASSUME NEW j \in Server PROVE GoesOn(task[j], task'[j])
  BY DEF GoesOn
<1> QED
  BY <1>1 DEF LoopsGoOn

LEMMA SameGoesOn == ASSUME task' = task PROVE LoopsGoOn
BY DEF LoopsGoOn, GoesOn

LEMMA IdleGoesOn ==
    ASSUME CallsOK, NEW i \in Server
    PROVE  GoesOn(task[i], Idle) /\ GoesOn(task[i], WhenCallsEnd(i))
           /\ GoesOn(task[i], [Idle EXCEPT !.at = "dead"])
BY DEF GoesOn, Idle, Busy, WhenCallsEnd, At

LEMMA TakeGoesOn ==
    ASSUME CallsOK, NEW c \in calls, Take(c)
    PROVE  LoopsGoOn
<1>1. c.from \in Server /\ DOMAIN task = Server
  BY DEF CallsOK, CallOK
<1>2. CASE task' = [task EXCEPT ![c.from] = WhenCallsEnd(c.from)]
  BY <1>1, <1>2, IdleGoesOn, OneGoesOn
<1>3. CASE task' = [task EXCEPT ![c.from] = task[c.from]]
  <2>1. GoesOn(task[c.from], task[c.from])
    BY DEF GoesOn
  <2> QED
    BY <1>1, <1>3, <2>1, OneGoesOn
<1> QED
  BY <1>2, <1>3 DEF Take

\* What a loop is busy with it has begun, or goes on with in a step of its own.
Begins(i) ==
    \/ \E command \in Command : Submit(i, command)
    \/ ReplicateToPeers(i) \/ ReadIndex(i) \/ ConfirmLeadership(i)
    \/ \E c \in CallsOf(i) : ConfirmResult(c)

LEMMA LoopsMove ==
    ASSUME SnapshotThreshold = 0, LogInv, [GuardedNext]_vars
    PROVE  LoopsGoOn \/ \E i \in Server : Begins(i)
<1>1. /\ CallsOK /\ DOMAIN task = Server /\ \A i \in Server : DOMAIN task[i] = TaskFields
      /\ \A c \in calls : c.from \in Server
  BY DEF LogInv, CallsOK, CallOK, TaskOK
<1>2. ASSUME NEW i \in Server, NEW where, where \notin Busy,
             NEW t, t = [task[i] EXCEPT !.at = where]
      PROVE  GoesOn(task[i], t)
  <2>1. t.at = where
    BY <1>1, <1>2 DEF TaskFields
  <2> QED
    BY <1>2, <2>1 DEF GoesOn
<1>3. ASSUME NEW i \in Server, ElectionTimeout(i)
      PROVE  LoopsGoOn
  <2>1. task' = [task EXCEPT ![i] = [task[i] EXCEPT !.at = "elect"]]
    BY <1>3 DEF ElectionTimeout
  <2>2. GoesOn(task[i], [task[i] EXCEPT !.at = "elect"])
    BY <1>2 DEF Busy
  <2> QED
    BY <1>1, <2>1, <2>2, OneGoesOn
<1>4. ASSUME NEW i \in Server, NEW reqs, NEW where \in {"voting", "beating"},
             Send(i, reqs, where)
      PROVE  LoopsGoOn
  <2>1. \/ task' = [task EXCEPT ![i] = [task[i] EXCEPT !.at = where]]
        \/ task' = [task EXCEPT ![i] = Idle]
    BY <1>4 DEF Send
  <2>2. GoesOn(task[i], [task[i] EXCEPT !.at = where])
    BY <1>2 DEF Busy
  <2> QED
    BY <1>1, <2>1, <2>2, IdleGoesOn, OneGoesOn
<1>5. ASSUME NEW i \in Server, LoopStep(i), ~ReplicateToPeers(i), ~ConfirmLeadership(i)
      PROVE  LoopsGoOn
  <2>1. ASSUME RequestVotes(i) PROVE LoopsGoOn
    BY <1>4, <2>1 DEF RequestVotes
  <2>2. ASSUME SendHeartbeat(i) PROVE LoopsGoOn
    BY <1>4, <2>2 DEF SendHeartbeat
  <2>3. ASSUME FinishRead(i) \/ RefuseRead(i) PROVE LoopsGoOn
    <3>1. task' = [task EXCEPT ![i] = Idle]
      BY <2>3 DEF FinishRead, RefuseRead
    <3> QED
      BY <1>1, <3>1, IdleGoesOn, OneGoesOn
  <2> QED
    BY <1>5, <2>1, <2>2, <2>3 DEF LoopStep
<1>6. ASSUME NEW c \in calls, HeartbeatResult(c) \/ SnapshotResult(c) \/ ReplicateResult(c)
                              \/ PeerPanicked(c) \/ ConfirmRefused(c)
      PROVE  LoopsGoOn
  <2>1. \/ Take(c) \/ task' = [task EXCEPT ![c.from] = Idle]
        \/ task' = [task EXCEPT ![c.from] = [Idle EXCEPT !.at = "dead"]]
    BY <1>6 DEF HeartbeatResult, SnapshotResult, ReplicateResult, PeerPanicked, ConfirmRefused,
       AfterPanic
  <2> QED
    BY <1>1, <2>1, TakeGoesOn, IdleGoesOn, OneGoesOn
<1>7. ASSUME NEW c \in calls, VoteResult(c)
      PROVE  LoopsGoOn
  <2>1. Take(c) \/ task' = [task EXCEPT ![c.from] = [task[c.from] EXCEPT !.at = "beat"]]
    BY <1>7 DEF VoteResult
  <2>2. GoesOn(task[c.from], [task[c.from] EXCEPT !.at = "beat"])
    BY <1>1, <1>2 DEF Busy
  <2> QED
    BY <1>1, <2>1, <2>2, TakeGoesOn, OneGoesOn
<1>8. ASSUME NEW c \in calls, TakeResult(c), ~ConfirmResult(c)
      PROVE  LoopsGoOn
  BY <1>6, <1>7, <1>8 DEF TakeResult
<1>9. ASSUME NEW i \in Server, CallsFail(i) \/ Restart(i)
      PROVE  LoopsGoOn
  <2>1. \/ task' = [task EXCEPT ![i] = Idle]
        \/ task' = [task EXCEPT ![i] = WhenCallsEnd(i)]
    BY <1>9 DEF CallsFail, Restart
  <2> QED
    BY <1>1, <2>1, IdleGoesOn, OneGoesOn
<1>10. ASSUME \/ \E c \in calls : Deliver(c)
              \/ \E o \in orphans : DeliverOrphan(o)
              \/ \E g \in gets : KvGet(g)
              \/ UNCHANGED vars
       PROVE  LoopsGoOn
  BY <1>10, SameGoesOn DEF Deliver, DeliverOrphan, KvGet, vars, nodeVars
<1>11. ASSUME NEW c \in calls, ConfirmResult(c)
       PROVE  \E i \in Server : Begins(i)
  BY <1>1, <1>11 DEF Begins, CallsOf
<1>12. ASSUME NEW i \in Server,
              ReplicateToPeers(i) \/ ConfirmLeadership(i) \/ ReadIndex(i)
              \/ \E command \in Command : Submit(i, command)
       PROVE  \E j \in Server : Begins(j)
  BY <1>12 DEF Begins
<1> QED
  BY <1>3, <1>5, <1>8, <1>9, <1>10, <1>11, <1>12 DEF GuardedNext, PersistedNext, Step, Work

LEMMA LoopMoves ==
    ASSUME SnapshotThreshold = 0, LogInv, [GuardedNext]_vars, NEW i \in Server
    PROVE  GoesOn(task[i], task'[i]) \/ Begins(i)
<1>1. ASSUME NEW j \in Server, Begins(j), i # j
      PROVE  task'[i] = task[i]
  BY <1>1 DEF Begins, Submit, ReplicateToPeers, ReadIndex, ConfirmLeadership, ConfirmResult,
     CallsOf, Send, LogInv, CallsOK
<1>2. CASE LoopsGoOn
  BY <1>2 DEF LoopsGoOn
<1>3. CASE \E j \in Server : Begins(j)
  BY <1>1, <1>3 DEF GoesOn
<1> QED
  BY <1>2, <1>3, LoopsMove

\* Call d has been answered: it is c now.  A success means that the node called
\* was in no later term.
Answered(d, c) ==
    /\ c.from = d.from /\ c.to = d.to /\ c.req = d.req /\ c.mark = d.mark
    /\ c.req.type = "AppendEntries" /\ c.resp.success =>
          core[c.to].current_term <= c.req.term

\* Calls end, or one of them is answered.
CallsGoOn ==
    \/ calls' \subseteq calls
    \/ \E d \in calls : \E c \in calls' : calls' = (calls \ {d}) \cup {c} /\ Answered(d, c)

\* What node i sends.
Sending(i) ==
    RequestVotes(i) \/ SendHeartbeat(i) \/ ReplicateToPeers(i) \/ ConfirmLeadership(i)

LEMMA DeliverAnswers ==
    ASSUME SnapshotThreshold = 0, LogInv, NEW d \in calls, Deliver(d)
    PROVE  CallsGoOn
<1>1. /\ CallOK(d) /\ d.to \in Server /\ ReqOK(d.req)
      /\ DOMAIN d = {"from", "to", "req", "mark", "at", "resp"}
  BY DEF LogInv, CallsOK, CallOK, Peers
<1>2. PICK n : n = core[d.to]
  OBVIOUS
<1> DEFINE r == HandleRequest(n, d.req)
           c == [d EXCEPT !.at = "replied", !.resp = r.resp]
<1>3. LogOK(n, d.to)
  BY <1>1, <1>2 DEF LogInv, NodesOK
<1>4. r.panicked = FALSE /\ Handled(n, r.core, d.req, r.resp)
  <2>1. r.panicked = FALSE
    BY <1>1, <1>3, HandleRequestOK
  <2>2. Handled(n, r.core, d.req, r.resp)
    BY <1>1, <1>3, HandledOK
  <2> QED
    BY <2>1, <2>2
<1>5. calls' = (calls \ {d}) \cup {IF r.panicked THEN [d EXCEPT !.at = "failed"] ELSE c}
  BY <1>2 DEF Deliver
<1>6. c.from = d.from /\ c.to = d.to /\ c.req = d.req /\ c.mark = d.mark /\ c.resp = r.resp
  BY <1>1
<1> HIDE DEF r, c
<1>7. ASSUME c.req.type = "AppendEntries", c.resp.success
      PROVE  core[c.to].current_term <= c.req.term
  <2>1. d.req.term >= n.current_term
    BY <1>4, <1>6, <1>7 DEF Handled
  <2>2. d.req.term \in Nat /\ n.current_term \in Nat
    BY <1>1, <1>3 DEF ReqOK, LogOK
  <2> QED
    BY <1>2, <1>6, <2>1, <2>2
<1>8. calls' = (calls \ {d}) \cup {c} /\ c \in calls'
  BY <1>4, <1>5
<1> QED
  BY <1>6, <1>7, <1>8 DEF CallsGoOn, Answered

LEMMA CallsMove ==
    ASSUME SnapshotThreshold = 0, LogInv, [GuardedNext]_vars
    PROVE  CallsGoOn \/ \E i \in Server : Sending(i)
<1>1. CallsOK /\ \A i : CallsOf(i) \subseteq calls
  BY DEF LogInv, CallsOf
<1>2. ASSUME NEW S, S \subseteq calls, Drop(S)
      PROVE  CallsGoOn
  BY <1>2 DEF Drop, CallsGoOn
<1>3. ASSUME NEW c \in calls, Take(c)
      PROVE  CallsGoOn
  BY <1>3 DEF Take, CallsGoOn
<1>4. ASSUME NEW c \in calls, TakeResult(c)
      PROVE  CallsGoOn
  <2>1. \/ Take(c) \/ \E S : S \subseteq calls /\ Drop(S)
    BY <1>1, <1>4 DEF TakeResult, VoteResult, HeartbeatResult, SnapshotResult, ReplicateResult,
       ConfirmRefused, ConfirmResult, PeerPanicked, AfterPanic
  <2> QED
    BY <1>2, <1>3, <2>1
<1>5. ASSUME NEW i \in Server, CallsFail(i) \/ Restart(i)
      PROVE  CallsGoOn
  BY <1>1, <1>2, <1>5 DEF CallsFail, Restart
<1>6. ASSUME NEW i \in Server, LoopStep(i)
      PROVE  CallsGoOn \/ Sending(i)
  BY <1>6 DEF LoopStep, Sending, FinishRead, RefuseRead, CallsGoOn
<1>7. ASSUME NEW i \in Server,
             ElectionTimeout(i) \/ ReadIndex(i) \/ \E command \in Command : Submit(i, command)
      PROVE  CallsGoOn
  BY <1>7 DEF ElectionTimeout, ReadIndex, Submit, CallsGoOn
<1>8. ASSUME \/ \E o \in orphans : DeliverOrphan(o)
             \/ \E g \in gets : KvGet(g)
             \/ UNCHANGED vars
      PROVE  CallsGoOn
  BY <1>8 DEF DeliverOrphan, KvGet, vars, nodeVars, CallsGoOn
<1> QED
  BY <1>4, <1>5, <1>6, <1>7, <1>8, DeliverAnswers DEF GuardedNext, PersistedNext, Step, Work

\* A loop that waits for calls sends no others.
LEMMA SendingAlone ==
    ASSUME LogInv, NEW i \in Server, Sending(i)
    PROVE  /\ CallsOf(i) = {} /\ core' = core
           /\ \E reqs : \E where :
                 /\ Send(i, reqs, where)
                 /\ \A r, s \in reqs : r.to = s.to => r = s
              \/ UNCHANGED calls
<1>1. CallsOK
  BY DEF LogInv
<1>2. task[i].at \in {"elect", "idle", "beat", "replicate", "confirm"} /\ core' = core
  BY DEF Sending, RequestVotes, SendHeartbeat, ReplicateToPeers, ConfirmLeadership, At
<1>3. CallsOf(i) = {}
  BY <1>1, <1>2, NoCalls
<1>4. CASE RequestVotes(i)
  BY <1>2, <1>3, <1>4 DEF RequestVotes
<1>5. CASE SendHeartbeat(i)
  <2> DEFINE peers == IF core[i].state = "Leader" THEN Peers(i) ELSE {}
             reqs == {Heartbeat(core[i], i, p) : p \in peers}
  <2>1. Send(i, reqs, "beating")
    BY <1>5 DEF SendHeartbeat
  <2>2. \A p : Heartbeat(core[i], i, p).to = p
    BY DEF Heartbeat
  <2> QED
    BY <1>2, <1>3, <2>1, <2>2
<1>6. CASE ReplicateToPeers(i)
  BY <1>2, <1>3, <1>6 DEF ReplicateToPeers
<1>7. CASE ConfirmLeadership(i)
  BY <1>2, <1>3, <1>7 DEF ConfirmLeadership
<1> QED
  BY <1>4, <1>5, <1>6, <1>7 DEF Sending

\* A node has one call to each peer at a time.
CallsApart == \A c, d \in calls : c.from = d.from /\ c.to = d.to => c = d

LEMMA CallsApartStep ==
    ASSUME SnapshotThreshold = 0, LogInv, CallsApart, [GuardedNext]_vars
    PROVE  CallsApart'
<1>1. CASE CallsGoOn
  BY <1>1 DEF CallsGoOn, Answered, CallsApart
<1>2. ASSUME NEW i \in Server, Sending(i)
      PROVE  CallsApart'
  <2>1. CallsOf(i) = {}
    BY <1>2, SendingAlone
  <2>2. CASE UNCHANGED calls
    BY <2>2 DEF CallsApart
  <2>3. ASSUME NEW reqs, NEW where, Send(i, reqs, where),
               \A r, s \in reqs : r.to = s.to => r = s
        PROVE  CallsApart'
    <3> DEFINE Call(r) == [from |-> i, to |-> r.to, req |-> r.req, mark |-> r.mark,
                          at |-> "sent", resp |-> Nil]
    <3>1. calls' = calls \cup {Call(r) : r \in reqs}
      BY <2>3 DEF Send
    <3>2. \A r : Call(r).from = i /\ Call(r).to = r.to
      OBVIOUS
    <3>3. \A c \in calls : c.from # i
      BY <2>1 DEF CallsOf
    <3>4. \A r, s \in reqs : Call(r).to = Call(s).to => Call(r) = Call(s)
      BY <2>3
    <3> HIDE DEF Call
    <3> QED
      BY <3>1, <3>2, <3>3, <3>4 DEF CallsApart
  <2> QED
    BY <1>2, <2>2, <2>3, SendingAlone
<1> QED
  BY <1>1, <1>2, CallsMove
(***************************************************************************)
(* What clients are told.                                                  *)
(***************************************************************************)

LEMMA LeaderKeepsLog ==
    ASSUME ClusterInv, Implemented, [GuardedNext]_vars,
           NEW i \in Server, core'[i].state = "Leader", task'[i].at # "beat"
    PROVE  \A k \in DOMAIN core[i].log : k \in DOMAIN core'[i].log /\ core'[i].log[k] = core[i].log[k]
<1>1. core[i].state = "Leader" /\ core'[i].current_term = core[i].current_term
  BY StillLeads
<1>2. Terms'[i] = core'[i].current_term /\ Logs'[i] = core'[i].log
  BY DEF Terms, Logs
<1>3. Roles[i] = "Leader" /\ Terms'[i] = Terms[i] /\ Logs[i] = core[i].log
  BY <1>1, <1>2, MappedNodes
<1>4. \A k \in DOMAIN Logs[i] : k \in DOMAIN Logs'[i] /\ Logs'[i][k] = Logs[i][k]
  BY <1>3, R!StepLeaderAppends DEF ClusterInv, Implemented
<1> QED
  BY <1>2, <1>3, <1>4

\* The entry that a leader replicates for a client is in its log ...
SubmitKept(i) ==
    task[i].at \in {"replicate", "replicating"} /\ core[i].state = "Leader" =>
        /\ task[i].index \in DOMAIN core[i].log
        /\ core[i].log[task[i].index].command = task[i].command

SubmitsOK == \A i \in Server : SubmitKept(i)

\* ... and the calls that the loop waits for are marked with it.
SubmitMarksOK == \A c \in calls : At(c.from, "replicating") => c.mark = task[c.from].index

LEMMA SubmitsStep ==
    ASSUME SnapshotThreshold = 0, ClusterInv, Implemented, [GuardedNext]_vars, SubmitsOK
    PROVE  SubmitsOK'
<1> SUFFICES ASSUME NEW i \in Server, task'[i].at \in {"replicate", "replicating"},
                    core'[i].state = "Leader"
             PROVE  /\ task'[i].index \in DOMAIN core'[i].log
                    /\ core'[i].log[task'[i].index].command = task'[i].command
  BY DEF SubmitsOK, SubmitKept
<1>1. LogInv /\ DOMAIN task = Server /\ DOMAIN task[i] = TaskFields /\ LogOK(core[i], i)
  BY InvNode DEF ClusterInv, LogInv, CallsOK, TaskOK
<1>2. core[i].state = "Leader"
  BY StillLeads
<1>3. \A k \in DOMAIN core[i].log : k \in DOMAIN core'[i].log /\ core'[i].log[k] = core[i].log[k]
  BY LeaderKeepsLog
<1>4. ASSUME task[i].at \in {"replicate", "replicating"}, task'[i].index = task[i].index,
             task'[i].command = task[i].command
      PROVE  /\ task'[i].index \in DOMAIN core'[i].log
             /\ core'[i].log[task'[i].index].command = task'[i].command
  BY <1>2, <1>3, <1>4 DEF SubmitsOK, SubmitKept
<1>5. CASE GoesOn(task[i], task'[i])
  <2>1. task'[i] = task[i]
    BY <1>1, <1>5 DEF GoesOn, Busy, TaskFields
  <2> QED
    BY <1>4, <2>1
<1>6. ASSUME NEW command \in Command, Submit(i, command)
      PROVE  /\ task'[i].index \in DOMAIN core'[i].log
             /\ core'[i].log[task'[i].index].command = task'[i].command
  <2>1. PICK n : n = core[i]
    OBVIOUS
  <2>2. PICK m : m = AppendOwnEntry(n, command)
    OBVIOUS
  <2>3. core' = [core EXCEPT ![i] = m]
        /\ task' = [task EXCEPT ![i] = [Idle EXCEPT !.at = "replicate", !.command = command,
                                                    !.index = LastLogIndex(n) + 1]]
    BY <1>6, <2>1, <2>2 DEF Submit
  <2>4. LogOK(n, i) /\ n.log \in Seq(LogEntry) /\ LastLogIndex(n) = Len(n.log) /\ Len(n.log) \in Nat
    BY <1>1, <2>1, LogFacts
  <2>5. task'[i].index = Len(n.log) + 1 /\ task'[i].command = command
    BY <1>1, <2>3, <2>4 DEF Idle
  <2>6. core'[i] = m
    BY <2>3, InvNode
  <2>7. m.log \in Seq(LogEntry) /\ Len(m.log) = Len(n.log) + 1 /\ m.log[Len(m.log)].command = command
    BY <2>2, <2>4, AppendOwnEntryOK
  <2> QED
    BY <2>4, <2>5, <2>6, <2>7
<1>7. CASE Begins(i)
  <2>1. ASSUME ReplicateToPeers(i)
        PROVE  /\ task[i].at = "replicate" /\ task'[i].index = task[i].index
               /\ task'[i].command = task[i].command
    <3>1. \/ task' = [task EXCEPT ![i] = Idle]
          \/ task' = [task EXCEPT ![i] = [task[i] EXCEPT !.at = "replicating"]]
      BY <2>1 DEF ReplicateToPeers, Send
    <3>2. task[i].at = "replicate" /\ Idle.at = "idle"
      BY <2>1, IdleOK DEF ReplicateToPeers, At
    <3>3. task' = [task EXCEPT ![i] = [task[i] EXCEPT !.at = "replicating"]]
      BY <1>1, <3>1, <3>2
    <3> QED
      BY <1>1, <3>2, <3>3 DEF TaskFields
  <2>2. ~ReadIndex(i)
    BY <1>1 DEF ReadIndex, Idle
  <2>3. ~ConfirmLeadership(i)
    <3> SUFFICES ASSUME ConfirmLeadership(i) PROVE FALSE
      OBVIOUS
    <3>1. \/ task' = [task EXCEPT ![i] = Idle]
          \/ task' = [task EXCEPT ![i] = [task[i] EXCEPT !.at = "confirming"]]
          \/ task' = [task EXCEPT ![i] = [task[i] EXCEPT !.at = "confirmed"]]
      BY DEF ConfirmLeadership, Send
    <3> QED
      BY <1>1, <3>1, IdleOK DEF TaskFields
  <2>4. ASSUME NEW c \in CallsOf(i), ConfirmResult(c) PROVE FALSE
    <3>1. c.from = i /\ task[i].at = "confirming"
      BY <2>4 DEF CallsOf, ConfirmResult, At
    <3>2. \E a : \/ task' = [task EXCEPT ![i].acks = a, ![i].at = "confirmed"]
                 \/ task' = [task EXCEPT ![i].acks = a, ![i].at = task[i].at]
      BY <1>1, <2>4, <3>1 DEF ConfirmResult
    <3> QED
      BY <1>1, <3>1, <3>2 DEF TaskFields
  <2> QED
    BY <1>4, <1>6, <1>7, <2>1, <2>2, <2>3, <2>4 DEF Begins
<1> QED
  BY <1>1, <1>5, <1>7, LoopMoves

LEMMA SubmitMarksStep ==
    ASSUME SnapshotThreshold = 0, LogInv, LogInv', [GuardedNext]_vars, SubmitMarksOK
    PROVE  SubmitMarksOK'
<1> SUFFICES ASSUME NEW c \in calls', task'[c.from].at = "replicating"
             PROVE  c.mark = task'[c.from].index
  BY DEF SubmitMarksOK, At
<1>1. PICK i : i = c.from
  OBVIOUS
<1>2. /\ CallsOK /\ DOMAIN task = Server /\ i \in Server /\ DOMAIN task[i] = TaskFields
      /\ task'[i].at = "replicating"
  BY <1>1 DEF LogInv, CallsOK, CallOK, TaskOK
<1>3. ASSUME ReplicateToPeers(i)
      PROVE  task'[i].index = task[i].index
  <2>1. \/ task' = [task EXCEPT ![i] = Idle]
        \/ task' = [task EXCEPT ![i] = [task[i] EXCEPT !.at = "replicating"]]
    BY <1>3 DEF ReplicateToPeers, Send
  <2>2. task' = [task EXCEPT ![i] = [task[i] EXCEPT !.at = "replicating"]]
    BY <1>2, <2>1, IdleOK
  <2> QED
    BY <1>2, <2>2 DEF TaskFields
<1>4. ASSUME Begins(i)
      PROVE  ReplicateToPeers(i)
  <2>1. ~ReadIndex(i) /\ ~(\E command \in Command : Submit(i, command))
    BY <1>2 DEF ReadIndex, Submit, Idle
  <2>2. ~ConfirmLeadership(i)
    <3> SUFFICES ASSUME ConfirmLeadership(i) PROVE FALSE
      OBVIOUS
    <3>1. \/ task' = [task EXCEPT ![i] = Idle]
          \/ task' = [task EXCEPT ![i] = [task[i] EXCEPT !.at = "confirming"]]
          \/ task' = [task EXCEPT ![i] = [task[i] EXCEPT !.at = "confirmed"]]
      BY DEF ConfirmLeadership, Send
    <3> QED
      BY <1>2, <3>1, IdleOK DEF TaskFields
  <2>3. ASSUME NEW d \in CallsOf(i), ConfirmResult(d) PROVE FALSE
    <3>1. d.from = i /\ task[i].at = "confirming"
      BY <2>3 DEF CallsOf, ConfirmResult, At
    <3>2. \E a : \/ task' = [task EXCEPT ![i].acks = a, ![i].at = "confirmed"]
                 \/ task' = [task EXCEPT ![i].acks = a, ![i].at = task[i].at]
      BY <1>2, <2>3, <3>1 DEF ConfirmResult
    <3> QED
      BY <1>2, <3>1, <3>2 DEF TaskFields
  <2> QED
    BY <1>4, <2>1, <2>2, <2>3 DEF Begins
<1>5. task'[i] = task[i] \/ ReplicateToPeers(i)
  BY <1>2, <1>4, LoopMoves DEF GoesOn, Busy, TaskFields
<1>6. ASSUME NEW d \in calls, d.from = i, d.mark = c.mark
      PROVE  c.mark = task'[i].index
  <2>1. task[i].at \in {"voting", "beating", "replicating", "confirming"}
    BY <1>2, <1>6 DEF CallsOK, WaitsOn
  <2>2. ~ReplicateToPeers(i)
    BY <2>1 DEF ReplicateToPeers, At
  <2> QED
    BY <1>2, <1>5, <1>6, <2>2 DEF SubmitMarksOK, At
<1>7. CASE CallsGoOn
  <2>1. \E d \in calls : d.from = i /\ d.mark = c.mark
    BY <1>1, <1>7 DEF CallsGoOn, Answered
  <2> QED
    BY <1>1, <1>6, <2>1
<1>8. ASSUME NEW j \in Server, Sending(j), c \notin calls
      PROVE  c.mark = task'[i].index
  <2>1. \/ UNCHANGED calls
        \/ \E reqs : \E where : Send(j, reqs, where)
    BY <1>8, SendingAlone
  <2>2. PICK reqs : \E where : Send(j, reqs, where)
    BY <1>8, <2>1
  <2>3. c.from = j
    BY <1>8, <2>2 DEF Send
  <2>4. CallsOf(i) = {}
    BY <1>1, <1>8, <2>3, SendingAlone
  <2>5. ReplicateToPeers(i)
    <3>1. CASE task'[i] = task[i]
      BY <1>2, <1>8, <2>3, <1>1, <3>1 DEF Sending, RequestVotes, SendHeartbeat, ConfirmLeadership, At
    <3> QED
      BY <1>5, <3>1
  <2>6. c.mark = task[i].index
    <3>1. \E r : Send(i, {[to |-> p, req |-> r[p], mark |-> task[i].index] : p \in Peers(i)},
                      "replicating")
      <4> DEFINE r == [p \in Peers(i) |-> AppendEntriesArgs(core[i], i, p,
                           EntriesAt(core[i].log, core[i].next_index[p] .. task[i].index))]
      <4>1. \A p \in Peers(i) : r[p] = AppendEntriesArgs(core[i], i, p,
                           EntriesAt(core[i].log, core[i].next_index[p] .. task[i].index))
        OBVIOUS
      <4> HIDE DEF r
      <4> QED
        BY <2>5, <4>1 DEF ReplicateToPeers
    <3> QED
      BY <1>8, <3>1 DEF Send
  <2> QED
    BY <1>3, <2>5, <2>6
<1>9. CASE \E j \in Server : Sending(j)
  BY <1>1, <1>6, <1>8, <1>9
<1> QED
  BY <1>1, <1>7, <1>9, CallsMove

\* The command of an acknowledgement is at an index that a majority has held and
\* that a leader in its term counts as committed.
AckAt(a, u, k, j) ==
    /\ R!Chosen(k, u) /\ u <= a.term /\ j \in 1 .. k
    /\ led[u].log[j].command = a.command
    /\ \A i \in Server : core[i].state = "Leader" /\ core[i].current_term = a.term =>
           j <= core[i].commit_index

AckOK(a) ==
    /\ a.term \in DOMAIN led
    /\ \E u \in DOMAIN led : \E k \in DOMAIN led[u].log : \E j : AckAt(a, u, k, j)

AcksOK == \A a \in acked : AckOK(a)

\* As long as a node leads, what it counts as committed only grows.
LEMMA LeaderCommits ==
    ASSUME SnapshotThreshold = 0, ClusterInv, ClusterInv', Implemented, [GuardedNext]_vars,
           NEW i \in Server, core'[i].state = "Leader"
    PROVE  core'[i].commit_index >= core[i].commit_index
<1>1. core[i].commit_index \in Nat
  BY InvNode
<1>2. CASE Step
  BY <1>2, StepProgress DEF AllProgress, Progress
<1>3. CASE UNCHANGED vars
  BY <1>1, <1>3 DEF vars, nodeVars
<1>4. ASSUME NEW j \in Server, TermPersisted(j), Restart(j)
      PROVE  core'[i] = core[i]
  <2>1. core'[j].state = "Follower" /\ \A k \in Server \ {j} : core'[k] = core[k]
    BY <1>4, Restarted
  <2> QED
    BY <2>1
<1> QED
  BY <1>1, <1>2, <1>3, <1>4 DEF GuardedNext, PersistedNext

LEMMA AckStays ==
    ASSUME SnapshotThreshold = 0, ClusterInv, ClusterInv', Implemented, [GuardedNext]_vars,
           NEW a, AckOK(a)
    PROVE  AckOK(a)'
<1>1. PICK u \in DOMAIN led : \E k \in DOMAIN led[u].log : \E j : AckAt(a, u, k, j)
  BY DEF AckOK
<1>2. PICK k \in DOMAIN led[u].log : \E j : AckAt(a, u, k, j)
  BY <1>1
<1>3. PICK j : AckAt(a, u, k, j)
  BY <1>2
<1>4. R!ReplicationInv /\ (R!ReplicationInv)' /\ R!Chosen(k, u) /\ R!EntriesHaveTerms
  BY <1>3, EntriesMapped DEF ClusterInv, AckAt
<1>5. /\ u \in DOMAIN led' /\ k \in DOMAIN led'[u].log /\ R!Chosen(k, u)'
      /\ \A l \in 1 .. k : led'[u].log[l] = led[u].log[l]
  BY <1>4, R!StepChosenStays DEF Implemented
<1>6. a.term \in DOMAIN led /\ a.term \in DOMAIN led'
  BY <1>4, R!StepLedStays DEF Implemented, AckOK
<1>7. ASSUME NEW i \in Server, core'[i].state = "Leader", core'[i].current_term = a.term
      PROVE  j <= core'[i].commit_index
  <2>1. Roles'[i] = "Leader" /\ Terms'[i] = a.term
    BY <1>7 DEF Roles, Terms
  <2>2. Roles[i] = "Leader" /\ Terms[i] = a.term
    BY <1>4, <1>6, <2>1, R!StepLeads DEF Implemented
  <2>3. j <= core[i].commit_index
    BY <1>3, <2>2, MappedNodes DEF AckAt
  <2>4. core'[i].commit_index >= core[i].commit_index
    BY <1>7, LeaderCommits
  <2>5. core[i].commit_index \in Nat /\ core'[i].commit_index \in Nat
    BY InvNode DEF ClusterInv, LogInv, NodesOK, LogOK
  <2>6. j \in Nat
    <3>1. k \in Nat
      BY <1>4 DEF R!ReplicationInv, R!ReplicationTypeOK
    <3> QED
      BY <1>3, <3>1 DEF AckAt
  <2> QED
    BY <2>3, <2>4, <2>5, <2>6
<1>8. led'[u].log[j].command = a.command
  BY <1>3, <1>5 DEF AckAt
<1>9. u <= a.term /\ j \in 1 .. k
  BY <1>3 DEF AckAt
<1>10. AckAt(a, u, k, j)'
  BY <1>5, <1>7, <1>8, <1>9 DEF AckAt
<1> QED
  BY <1>5, <1>6, <1>10 DEF AckOK

\* A client is told Ok by the leader that has just applied its entry.
LEMMA AckComes ==
    ASSUME SnapshotThreshold = 0, ClusterInv, ClusterInv', Applied', SubmitsOK, SubmitMarksOK,
           NEW c \in calls, ReplicateResult(c),
           c.mark \in HandleAppendEntriesResult(core[c.from], c.to, c.mark, c.resp).applied,
           NEW a,
           a = AckOf(c.from, HandleAppendEntriesResult(core[c.from], c.to, c.mark, c.resp).core)
    PROVE  AckOK(a)'
<1>1. PICK i : i = c.from
  OBVIOUS
<1>2. PICK n : n = core[i]
  OBVIOUS
<1> DEFINE r == HandleAppendEntriesResult(n, c.to, c.mark, c.resp)
<1>3. PICK m : m = r.core
  OBVIOUS
<1>14. PICK index : index = task[i].index
  OBVIOUS
<1>4. /\ CallsOK /\ i \in Server /\ c.at = "replied" /\ c.mark \in Nat /\ task[i].at = "replicating"
      /\ c.req.type = "AppendEntries" /\ DOMAIN core = Server /\ LogInv
  BY <1>1, InvNode DEF ClusterInv, LogInv, CallsOK, CallOK, ReplicateResult, At, WaitsOn
<1>5. ResultTaken(n, i, c.to, c.mark, c.resp)
  BY <1>1, <1>2, <1>4, AppendResultOK
<1>6. /\ m.state = "Leader" /\ n.state = "Leader" /\ m.log = n.log
      /\ m.current_term = n.current_term /\ c.mark \in (n.last_applied + 1) .. m.last_applied
  BY <1>1, <1>2, <1>3, <1>5 DEF ResultTaken, Tracked
<1>7. core'[i] = m
  <2>1. core' = [core EXCEPT ![i] = r.core]
    BY <1>1, <1>2 DEF ReplicateResult
  <2> QED
    BY <1>3, <1>4, <2>1
<1>8. c.mark = index /\ index \in DOMAIN n.log /\ n.log[index].command = task[i].command
  BY <1>1, <1>2, <1>4, <1>6, <1>14 DEF SubmitsOK, SubmitKept, SubmitMarksOK, At
<1>9. /\ m.last_applied <= m.commit_index /\ m.commit_index \in Nat /\ m.last_applied \in Nat
      /\ n.last_applied \in Nat
  BY <1>2, <1>4, <1>7, InvNode DEF Applied, ClusterInv, LogInv, NodesOK, LogOK
<1>10. index \in 1 .. m.commit_index
  BY <1>4, <1>6, <1>8, <1>9
<1>11. (R!ReplicationInv)' /\ Commits'[i] = m.commit_index /\ Logs'[i] = m.log
       /\ Terms'[i] = m.current_term
  BY <1>4, <1>7 DEF ClusterInv, Commits, Logs, Terms
<1>12. \E u \in DOMAIN led' : \E k \in DOMAIN led'[u].log :
           R!Chosen(k, u)' /\ u <= Terms'[i] /\ index \in 1 .. k
           /\ Logs'[i][index] = led'[u].log[index]
  BY <1>4, <1>10, <1>11, R!CommittedIsChosen
<1>13. a = AckOf(i, m)
  BY <1>1, <1>2, <1>3
<1>15. a.term = m.current_term /\ a.command = task[i].command
  BY <1>13 DEF AckOf
<1>16. \A l \in Server : core'[l].state = "Leader" =>
           core'[l].current_term \in DOMAIN led' /\ led'[core'[l].current_term].leader = l
  <2> SUFFICES ASSUME NEW l \in Server, core'[l].state = "Leader"
               PROVE  core'[l].current_term \in DOMAIN led' /\ led'[core'[l].current_term].leader = l
    OBVIOUS
  <2>1. Roles'[l] = "Leader" /\ Terms'[l] = core'[l].current_term
    BY DEF Roles, Terms
  <2> QED
    BY <1>11, <2>1 DEF R!ReplicationInv, R!LeadersFollowed
<1>17. \A l \in Server : core'[l].state = "Leader" /\ core'[l].current_term = a.term =>
           index <= core'[l].commit_index
  <2>1. led'[a.term].leader = i
    BY <1>4, <1>6, <1>7, <1>15, <1>16
  <2>2. index <= core'[i].commit_index
    BY <1>7, <1>10
  <2> QED
    BY <1>16, <2>1, <2>2
<1>18. \E u \in DOMAIN led' : \E k \in DOMAIN led'[u].log : AckAt(a, u, k, index)'
  <2>1. PICK u \in DOMAIN led' : \E k \in DOMAIN led'[u].log :
            R!Chosen(k, u)' /\ u <= Terms'[i] /\ index \in 1 .. k
            /\ Logs'[i][index] = led'[u].log[index]
    BY <1>12
  <2>2. PICK k \in DOMAIN led'[u].log :
            R!Chosen(k, u)' /\ u <= Terms'[i] /\ index \in 1 .. k
            /\ Logs'[i][index] = led'[u].log[index]
    BY <2>1
  <2>3. u <= a.term /\ led'[u].log[index].command = a.command
    BY <1>6, <1>8, <1>11, <1>15, <2>2
  <2>4. AckAt(a, u, k, index)'
    BY <1>17, <2>2, <2>3 DEF AckAt
  <2> QED
    BY <2>4
<1>19. AckOK(a)'
  BY <1>4, <1>6, <1>7, <1>15, <1>16, <1>18 DEF AckOK
<1> QED
  BY <1>19

LEMMA AcksStep ==
    ASSUME SnapshotThreshold = 0, ClusterInv, ClusterInv', Implemented, [GuardedNext]_vars,
           Applied', SubmitsOK, SubmitMarksOK, AcksOK
    PROVE  AcksOK'
<1>1. ASSUME NEW a \in acked PROVE AckOK(a)'
  BY <1>1, AckStays DEF AcksOK
<1>2. ASSUME acked' \subseteq acked PROVE AcksOK'
  BY <1>1, <1>2 DEF AcksOK
<1>3. ASSUME NEW i \in Server, LoopStep(i) \/ ElectionTimeout(i) \/ CallsFail(i)
                               \/ ReadIndex(i) \/ Restart(i)
      PROVE  acked' = acked
  BY <1>3 DEF LoopStep, RequestVotes, SendHeartbeat, ReplicateToPeers, ConfirmLeadership,
     FinishRead, RefuseRead, ElectionTimeout, CallsFail, ReadIndex, Restart, clientVars
<1>4. ASSUME NEW i \in Server, (\E command \in Command : Submit(i, command))
      PROVE  acked' = acked
  BY <1>4 DEF Submit
<1>5. ASSUME NEW c \in calls, Deliver(c) \/ VoteResult(c) \/ HeartbeatResult(c)
                              \/ SnapshotResult(c) \/ ConfirmRefused(c) \/ ConfirmResult(c)
                              \/ PeerPanicked(c)
      PROVE  acked' = acked
  BY <1>5 DEF Deliver, VoteResult, HeartbeatResult, SnapshotResult, ConfirmRefused,
     ConfirmResult, PeerPanicked, clientVars
<1>6. ASSUME \/ \E o \in orphans : DeliverOrphan(o)
             \/ \E g \in gets : KvGet(g)
             \/ UNCHANGED vars
      PROVE  acked' = acked
  BY <1>6 DEF DeliverOrphan, KvGet, vars, clientVars
<1>7. ASSUME NEW c \in calls, ReplicateResult(c)
      PROVE  AcksOK'
  <2>1. PICK r : r = HandleAppendEntriesResult(core[c.from], c.to, c.mark, c.resp)
    OBVIOUS
  <2>2. CASE c.mark \in r.applied
    <3>1. PICK a : a = AckOf(c.from, r.core)
      OBVIOUS
    <3>2. acked' \subseteq acked \cup {a}
      BY <1>7, <2>1, <3>1 DEF ReplicateResult
    <3>3. AckOK(a)'
      BY <1>7, <2>1, <2>2, <3>1, AckComes
    <3> QED
      BY <1>1, <3>2, <3>3 DEF AcksOK
  <2>3. CASE c.mark \notin r.applied
    <3>1. acked' = acked
      BY <1>7, <2>1, <2>3 DEF ReplicateResult
    <3> QED
      BY <1>2, <3>1
  <2> QED
    BY <2>2, <2>3
<1> QED
  BY <1>2, <1>3, <1>4, <1>5, <1>6, <1>7
     DEF GuardedNext, PersistedNext, Step, Work, TakeResult

\* What a node has in its log is on its disk.
LEMMA LogIsStored ==
    ASSUME ClusterInv, NEW i \in Server, NEW k \in DOMAIN core[i].log
    PROVE  core[i].log[k].command \in StoredCommands(i)
<1>1. core[i].stored_log = core[i].log
  BY InvNode DEF LogOK
<1> QED
  BY <1>1 DEF StoredCommands

LEMMA InvLeaderCompleteness ==
    ASSUME ClusterInv, AcksOK
    PROVE  LeaderCompleteness
<1> SUFFICES ASSUME NEW i \in Server, NEW a \in acked, core[i].state = "Leader",
                    core[i].current_term >= a.term
             PROVE  a.command \in StoredCommands(i)
  BY DEF LeaderCompleteness
<1>1. PICK u \in DOMAIN led : \E k \in DOMAIN led[u].log : \E j : AckAt(a, u, k, j)
  BY DEF AcksOK, AckOK
<1>2. PICK k \in DOMAIN led[u].log : \E j : AckAt(a, u, k, j)
  BY <1>1
<1>3. PICK j : AckAt(a, u, k, j)
  BY <1>2
<1>4. R!ReplicationInv /\ R!IsFiniteSet(Server) /\ a.term \in DOMAIN led
  BY EntriesMapped DEF ClusterInv, AcksOK, AckOK
<1>5. u <= Terms[i] /\ Roles[i] = "Leader"
  <2>1. u \in Nat /\ a.term \in Nat /\ core[i].current_term \in Nat
    BY <1>4, InvNode DEF R!ReplicationInv, R!ReplicationTypeOK
  <2>2. u <= a.term
    BY <1>3 DEF AckAt
  <2> QED
    BY <2>1, <2>2, MappedNodes
<1>6. k \in DOMAIN Logs[i] /\ \A l \in 1 .. k : Logs[i][l] = led[u].log[l]
  BY <1>3, <1>4, <1>5, R!LeaderHasChosen DEF AckAt
<1>7. j \in DOMAIN core[i].log /\ core[i].log[j].command = a.command
  <2>1. core[i].log \in Seq(LogEntry) /\ k \in DOMAIN core[i].log /\ j \in 1 .. k
    BY <1>3, <1>6, InvNode, MappedNodes DEF AckAt
  <2> QED
    BY <1>3, <1>6, <2>1, MappedNodes DEF AckAt
<1> QED
  BY <1>7, LogIsStored

LEMMA InvAckedIsDurable ==
    ASSUME ClusterInv, AcksOK
    PROVE  AckedIsDurable
<1> SUFFICES ASSUME NEW a \in acked
             PROVE  Cardinality({i \in Server : a.command \in StoredCommands(i)}) >= Majority
  BY DEF AckedIsDurable
<1>1. PICK u \in DOMAIN led : \E k \in DOMAIN led[u].log : \E j : AckAt(a, u, k, j)
  BY DEF AcksOK, AckOK
<1>2. PICK k \in DOMAIN led[u].log : \E j : AckAt(a, u, k, j)
  BY <1>1
<1>3. PICK j : AckAt(a, u, k, j)
  BY <1>2
<1>4. R!ReplicationInv /\ R!IsFiniteSet(Server)
  BY EntriesMapped DEF ClusterInv
<1>5. PICK Q \in R!Majorities : \A r \in Q :
          k \in DOMAIN Logs[r] /\ \A l \in 1 .. k : Logs[r][l] = led[u].log[l]
  BY <1>3, <1>4, R!MajorityHasChosen DEF AckAt
<1>6. Q \subseteq Server /\ Cardinality(Q) >= Majority
  BY MajoritiesMapped
<1> DEFINE S == {i \in Server : a.command \in StoredCommands(i)}
<1>7. ASSUME NEW r \in Q PROVE r \in S
  <2>1. r \in Server
    BY <1>6
  <2>2. core[r].log \in Seq(LogEntry) /\ k \in DOMAIN core[r].log /\ j \in 1 .. k
    BY <1>3, <1>5, <2>1, InvNode, MappedNodes DEF AckAt
  <2>3. j \in DOMAIN core[r].log /\ core[r].log[j].command = a.command
    BY <1>3, <1>5, <2>1, <2>2, MappedNodes DEF AckAt
  <2> QED
    BY <2>1, <2>3, LogIsStored
<1>8. Q \subseteq S /\ S \subseteq Server
  BY <1>7
<1> HIDE DEF S
<1>9. IsFiniteSet(Server)
  BY ServerAssumption
<1>10. IsFiniteSet(S)
  BY <1>8, <1>9, FS_Subset
<1>11. Cardinality(Q) <= Cardinality(S) /\ IsFiniteSet(Q)
  BY <1>8, <1>10, FS_Subset
<1>12. Cardinality(Q) \in Nat /\ Cardinality(S) \in Nat /\ Majority \in Nat
  BY <1>9, <1>10, <1>11, FS_CardinalityType DEF Majority
<1>13. Cardinality(S) >= Majority
  BY <1>6, <1>11, <1>12
<1> QED
  BY <1>13 DEF S

(***************************************************************************)
(* What clients read.                                                      *)
(***************************************************************************)

Reading(i) == task[i].at \in {"confirm", "confirming", "confirmed"}

\* The writes that were acknowledged when the read began are in the log of the
\* leader that serves it, up to the index that the read waits for ...
Promised(i) ==
    \A x \in task[i].after :
        \E j \in 1 .. task[i].index : j \in DOMAIN core[i].log /\ core[i].log[j].command = x

\* ... or a majority Q has reached a later term, and all that confirmed the leader
\* to this read are among the other nodes, in Y.
OutvotedBy(i, Q, Y) ==
    /\ Y \subseteq Server \ (Q \cup {i})
    /\ \A q \in Q : core[q].current_term > core[i].current_term
    /\ task[i].acks \in 0 .. Cardinality(Y)
    /\ \A c \in CallsOf(i) : c.to \notin Y /\ (c.at = "replied" /\ c.resp.success => c.to \notin Q)

Outvoted(i) == \E Q \in R!Majorities : \E Y \in SUBSET Server : OutvotedBy(i, Q, Y)

ReadOK(i) ==
    /\ At(i, "confirm") => task[i].acks = 0
    /\ Reading(i) /\ core[i].state = "Leader" => Promised(i) \/ Outvoted(i)

ReadsOK == \A i \in Server : ReadOK(i)

LEMMA PromiseStays ==
    ASSUME ClusterInv, Implemented, [GuardedNext]_vars, NEW i \in Server,
           core'[i].state = "Leader", task'[i].at # "beat",
           task'[i].index = task[i].index, task'[i].after = task[i].after, Promised(i)
    PROVE  Promised(i)'
<1>1. \A k \in DOMAIN core[i].log : k \in DOMAIN core'[i].log /\ core'[i].log[k] = core[i].log[k]
  BY LeaderKeepsLog
<1> QED
  BY <1>1 DEF Promised

\* A node in a later term stays in one.
LEMMA LaterStays ==
    ASSUME SnapshotThreshold = 0, ClusterInv, ClusterInv', SpentOK, Implemented,
           [GuardedNext]_vars, NEW i \in Server, core'[i].state = "Leader", task'[i].at # "beat",
           NEW q \in Server, core[q].current_term > core[i].current_term
    PROVE  core'[q].current_term > core'[i].current_term
<1>1. core'[i].current_term = core[i].current_term
  BY StillLeads
<1>2. core'[q].current_term >= core[q].current_term
  BY StepGoesOn DEF NothingGoesBack, ClusterInv
<1>3. /\ core[q].current_term \in Nat /\ core[i].current_term \in Nat
      /\ core'[q].current_term \in Nat
  BY InvNode DEF ClusterInv, LogInv, NodesOK, LogOK
<1> QED
  BY <1>1, <1>2, <1>3

\* A read that waits for its calls sends no others.
LEMMA CallsStay ==
    ASSUME SnapshotThreshold = 0, LogInv, [GuardedNext]_vars, NEW i \in Server, Reading(i),
           ~ConfirmLeadership(i), NEW c \in CallsOf(i)'
    PROVE  c \in CallsOf(i) \/ \E d \in CallsOf(i) : Answered(d, c)
<1>1. c \in calls' /\ c.from = i
  BY DEF CallsOf
<1>2. CASE CallsGoOn
  BY <1>1, <1>2 DEF CallsGoOn, Answered, CallsOf
<1>3. ASSUME NEW j \in Server, Sending(j)
      PROVE  c \in CallsOf(i)
  <2>1. j # i
    BY <1>3 DEF Sending, RequestVotes, SendHeartbeat, ReplicateToPeers, Reading, At
  <2>2. CASE UNCHANGED calls
    BY <1>1, <2>2 DEF CallsOf
  <2>3. CASE \E reqs : \E where : Send(j, reqs, where)
    BY <1>1, <2>1, <2>3 DEF Send, CallsOf
  <2> QED
    BY <1>3, <2>2, <2>3, SendingAlone
<1> QED
  BY <1>2, <1>3, CallsMove

\* A read that goes on remains outvoted.
LEMMA OutvotedStays ==
    ASSUME SnapshotThreshold = 0, ClusterInv, ClusterInv', SpentOK, Implemented,
           [GuardedNext]_vars, NEW i \in Server, core'[i].state = "Leader", task'[i].at # "beat",
           Reading(i), ~ConfirmLeadership(i), task'[i].acks = task[i].acks, Outvoted(i)
    PROVE  Outvoted(i)'
<1>1. PICK Q \in R!Majorities : \E Y \in SUBSET Server : OutvotedBy(i, Q, Y)
  BY DEF Outvoted
<1>2. PICK Y \in SUBSET Server : OutvotedBy(i, Q, Y)
  BY <1>1
<1>3. LogInv /\ CallsOK /\ core[i].state = "Leader" /\ Q \subseteq Server /\ MarksOK
      /\ core[i].current_term \in Nat
  BY MajoritiesMapped, StillLeads, InvNode DEF ClusterInv, LogInv
<1>4. \A q \in Q : core'[q].current_term > core'[i].current_term
  BY <1>2, <1>3, LaterStays DEF OutvotedBy
<1>5. ASSUME NEW c \in CallsOf(i)'
      PROVE  c.to \notin Y /\ (c.at = "replied" /\ c.resp.success => c.to \notin Q)
  <2>1. CASE c \in CallsOf(i)
    BY <1>2, <2>1 DEF OutvotedBy
  <2>2. ASSUME NEW d \in CallsOf(i), Answered(d, c)
        PROVE  c.to \notin Y /\ (c.at = "replied" /\ c.resp.success => c.to \notin Q)
    <3>1. c.to = d.to /\ c.to \notin Y
      BY <1>2, <2>2 DEF OutvotedBy, Answered
    <3>2. d \in calls /\ d.from = i
      BY DEF CallsOf
    <3>3. d.req.type = "AppendEntries" /\ d.req.term = core[i].current_term
      BY <1>3, <3>2 DEF CallsOK, WaitsOn, Reading, MarksOK
    <3>4. ASSUME c.resp.success PROVE c.to \notin Q
      <4>1. core[c.to].current_term <= core[i].current_term
        BY <2>2, <3>3, <3>4 DEF Answered
      <4>2. \A q \in Q : core[q].current_term > core[i].current_term
        BY <1>2 DEF OutvotedBy
      <4>3. \A q \in Q : core[q].current_term \in Nat
        BY <1>3, InvNode
      <4> QED
        BY <1>3, <4>1, <4>2, <4>3
    <3> QED
      BY <3>1, <3>4
  <2> QED
    BY <1>3, <2>1, <2>2, CallsStay
<1>6. OutvotedBy(i, Q, Y)'
  BY <1>2, <1>4, <1>5 DEF OutvotedBy
<1>7. Q \in (R!Majorities)'
  BY DEF R!Majorities
<1> QED
  BY <1>6, <1>7 DEF Outvoted

\* The calls of a read confirm nothing yet when they are sent.
LEMMA ConfirmationsSent ==
    ASSUME SnapshotThreshold = 0, ClusterInv, ClusterInv', SpentOK, Implemented,
           [GuardedNext]_vars, NEW i \in Server, ConfirmLeadership(i), ReadOK(i),
           core'[i].state = "Leader"
    PROVE  ReadOK(i)'
<1>1. /\ LogInv /\ CallsOK /\ DOMAIN task = Server /\ DOMAIN task[i] = TaskFields
      /\ core' = core /\ task[i].at = "confirm"
  BY DEF ClusterInv, LogInv, CallsOK, TaskOK, ConfirmLeadership, At
<1> DEFINE reqs == {[to |-> p, req |-> AppendEntriesArgs(core[i], i, p, <<>>), mark |-> 0] :
                       p \in Peers(i)}
<1>2. Send(i, reqs, "confirming")
  BY <1>1 DEF ConfirmLeadership
<1> HIDE DEF reqs
<1>3. /\ \A c \in calls' : c \in calls \/ c.at = "sent"
      /\ \/ task' = [task EXCEPT ![i] = [task[i] EXCEPT !.at = "confirming"]]
         \/ task' = [task EXCEPT ![i] = [task[i] EXCEPT !.at = "confirmed"]]
  <2>1. \A c \in calls' : c \in calls \/ c.at = "sent"
    BY <1>2 DEF Send
  <2>2. \/ task' = [task EXCEPT ![i] = [task[i] EXCEPT !.at = "confirming"]]
        \/ task' = [task EXCEPT ![i] = [task[i] EXCEPT !.at = "confirmed"]]
    BY <1>2 DEF Send
  <2> QED
    BY <2>1, <2>2
<1>4. /\ task'[i].at \in {"confirming", "confirmed"} /\ task'[i].index = task[i].index
      /\ task'[i].after = task[i].after /\ task'[i].acks = task[i].acks
  BY <1>1, <1>3 DEF TaskFields
<1>5. task[i].acks = 0 /\ (Promised(i) \/ Outvoted(i))
  BY <1>1 DEF ReadOK, Reading, At
<1>6. CASE Promised(i)
  <2>1. Promised(i)'
    BY <1>4, <1>6, PromiseStays
  <2> QED
    BY <1>4, <2>1 DEF ReadOK, At
<1>7. CASE Outvoted(i)
  <2>1. PICK Q \in R!Majorities : \E Y \in SUBSET Server : OutvotedBy(i, Q, Y)
    BY <1>7 DEF Outvoted
  <2>2. \A q \in Q : core'[q].current_term > core'[i].current_term
    BY <1>1, <2>1 DEF OutvotedBy
  <2>3. CallsOf(i) = {}
    BY <1>1, NoCalls
  <2>4. \A c \in CallsOf(i)' : c.at = "sent"
    BY <1>3, <2>3 DEF CallsOf
  <2>5. task'[i].acks \in 0 .. Cardinality({})
    BY <1>4, <1>5, FS_EmptySet
  <2>6. OutvotedBy(i, Q, {})'
    BY <2>2, <2>4, <2>5 DEF OutvotedBy
  <2>7. Q \in (R!Majorities)' /\ {} \in SUBSET Server
    BY DEF R!Majorities
  <2>8. Outvoted(i)'
    BY <2>6, <2>7 DEF Outvoted
  <2> QED
    BY <1>4, <2>8 DEF ReadOK, At
<1> QED
  BY <1>5, <1>6, <1>7

\* An answer that confirms the leader comes from none of the nodes in later terms.
LEMMA ConfirmationCounted ==
    ASSUME SnapshotThreshold = 0, ClusterInv, ClusterInv', SpentOK, Implemented,
           [GuardedNext]_vars, NEW i \in Server, NEW c \in CallsOf(i), ConfirmResult(c), ReadOK(i),
           CallsApart, core'[i].state = "Leader"
    PROVE  ReadOK(i)'
<1>1. /\ LogInv /\ CallsOK /\ DOMAIN task = Server /\ DOMAIN task[i] = TaskFields
      /\ core' = core /\ task[i].at = "confirming" /\ c \in calls /\ c.from = i
      /\ c.to \in Server /\ c.to # i /\ c.at = "replied" /\ c.resp.success \in BOOLEAN
  <2>1. /\ LogInv /\ CallsOK /\ DOMAIN task = Server /\ DOMAIN task[i] = TaskFields
        /\ core' = core /\ task[i].at = "confirming" /\ c \in calls /\ c.from = i
        /\ c.at = "replied"
    BY DEF ClusterInv, LogInv, CallsOK, TaskOK, ConfirmResult, At, CallsOf
  <2>2. CallOK(c) /\ c.req.type = "AppendEntries"
    BY <2>1 DEF CallsOK, WaitsOn
  <2> QED
    BY <2>1, <2>2 DEF CallOK, Peers
<1> DEFINE acks == task[i].acks + (IF c.resp.success THEN 1 ELSE 0)
<1>2. \E at \in {"confirming", "confirmed"} :
          task' = [task EXCEPT ![i] = [task[i] EXCEPT !.acks = acks, !.at = at]]
  <2>1. PICK enough : enough \in BOOLEAN
            /\ task' = [task EXCEPT ![i].acks = acks,
                                    ![i].at = IF enough THEN "confirmed" ELSE @]
    BY <1>1 DEF ConfirmResult
  <2>2. CASE enough = TRUE
    <3>1. task' = [task EXCEPT ![i] = [task[i] EXCEPT !.acks = acks, !.at = "confirmed"]]
      BY <1>1, <2>1, <2>2
    <3> QED
      BY <3>1
  <2>3. CASE enough = FALSE
    <3>1. task' = [task EXCEPT ![i] = [task[i] EXCEPT !.acks = acks, !.at = "confirming"]]
      BY <1>1, <2>1, <2>3 DEF TaskFields
    <3> QED
      BY <3>1
  <2> QED
    BY <2>1, <2>2, <2>3
<1>3. /\ task'[i].at \in {"confirming", "confirmed"} /\ task'[i].index = task[i].index
      /\ task'[i].after = task[i].after /\ task'[i].acks = acks
  BY <1>1, <1>2 DEF TaskFields
<1>4. calls' \subseteq calls \ {c}
  <2>1. \E S : c \in S /\ Drop(S)
    <3>1. Drop(CallsOf(i)) \/ Drop({c})
      BY <1>1 DEF ConfirmResult
    <3> QED
      BY <3>1
  <2> QED
    BY <2>1 DEF Drop
<1>5. Promised(i) \/ Outvoted(i)
  BY <1>1 DEF ReadOK, Reading
<1>6. CASE Promised(i)
  <2>1. Promised(i)'
    BY <1>3, <1>6, PromiseStays
  <2> QED
    BY <1>3, <2>1 DEF ReadOK, At
<1>7. CASE Outvoted(i)
  <2>1. PICK Q \in R!Majorities : \E Y \in SUBSET Server : OutvotedBy(i, Q, Y)
    BY <1>7 DEF Outvoted
  <2>2. PICK Y \in SUBSET Server : OutvotedBy(i, Q, Y)
    BY <2>1
  <2>3. PICK P2 : P2 = IF c.resp.success THEN Y \cup {c.to} ELSE Y
    OBVIOUS
  <2>4. c.to \notin Y /\ (c.resp.success => c.to \notin Q)
        /\ \A d \in CallsOf(i) :
              d.to \notin Y /\ (d.at = "replied" /\ d.resp.success => d.to \notin Q)
    BY <1>1, <2>2 DEF OutvotedBy
  <2>5. Y \subseteq Server \ (Q \cup {i}) /\ task[i].acks \in 0 .. Cardinality(Y)
    BY <2>2 DEF OutvotedBy
  <2>6. P2 \subseteq Server \ (Q \cup {i})
    BY <1>1, <2>3, <2>4, <2>5
  <2>7. task'[i].acks \in 0 .. Cardinality(P2)
    <3>1. IsFiniteSet(Y)
      BY ServerAssumption, FS_Subset
    <3>2. Cardinality(Y) \in Nat /\ Cardinality(Y \cup {c.to}) = Cardinality(Y) + 1
      BY <2>4, <3>1, FS_CardinalityType, FS_AddElement
    <3> QED
      BY <1>1, <1>3, <2>3, <2>5, <3>2
  <2>8. \A q \in Q : core'[q].current_term > core'[i].current_term
    BY <1>1, <2>2 DEF OutvotedBy
  <2>9. ASSUME NEW d \in CallsOf(i)'
        PROVE  d.to \notin P2 /\ (d.at = "replied" /\ d.resp.success => d.to \notin Q)
    <3>1. d \in CallsOf(i) /\ d # c
      BY <1>4 DEF CallsOf
    <3>2. d.to # c.to
      BY <1>1, <3>1 DEF CallsOf, CallsApart
    <3> QED
      BY <2>3, <2>4, <3>1, <3>2
  <2>10. OutvotedBy(i, Q, P2)'
    BY <2>6, <2>7, <2>8, <2>9 DEF OutvotedBy
  <2>11. Q \in (R!Majorities)' /\ P2 \in SUBSET Server
    BY <2>6 DEF R!Majorities
  <2>12. Outvoted(i)'
    BY <2>10, <2>11 DEF Outvoted
  <2> QED
    BY <1>3, <2>12 DEF ReadOK, At
<1> QED
  BY <1>5, <1>6, <1>7

\* When a read begins, the leader counts an entry of its own term as committed.  What
\* was acknowledged in its term or before is not above it, and what was acknowledged
\* in a later term shows that a majority has voted in that one.
LEMMA ReadBegins ==
    ASSUME SnapshotThreshold = 0, ClusterInv, ClusterInv', AcksOK, NEW i \in Server, ReadIndex(i)
    PROVE  ReadOK(i)'
<1>1. PICK n : n = core[i]
  OBVIOUS
<1>2. PICK C : C = n.commit_index
  OBVIOUS
<1>3. /\ LogInv /\ CallsOK /\ DOMAIN task = Server /\ UNCHANGED <<core, led, calls>>
      /\ n.state = "Leader" /\ task[i].at = "idle" /\ LogOK(n, i) /\ C \in Nat
      /\ n.current_term \in Nat /\ n.log \in Seq(LogEntry)
  BY <1>1, <1>2, InvNode DEF ClusterInv, LogInv, CallsOK, ReadIndex, At
<1>4. /\ task'[i].at = "confirm" /\ task'[i].index = C /\ task'[i].acks = 0
      /\ task'[i].after = {a.command : a \in acked}
  BY <1>1, <1>2, <1>3 DEF ReadIndex, Idle
<1>5. C \in DOMAIN n.log /\ n.log[C].term = n.current_term
  <2>1. HasLogEntry(n, C) /\ GetLogEntry(n, C).term = n.current_term
    BY <1>1, <1>2, <1>3, <1>4 DEF ClusterInv, ReadsSettled, At
  <2> QED
    BY <1>3, <2>1, LogFacts
<1>6. /\ R!ReplicationInv /\ R!IsFiniteSet(Server) /\ R!EntriesHaveTerms
      /\ Roles[i] = "Leader" /\ Terms[i] = n.current_term /\ Logs[i] = n.log
      /\ R!Has(Logs[i], C, Terms[i]) /\ DOMAIN led \subseteq Nat
  <2>1. R!ReplicationInv /\ R!IsFiniteSet(Server) /\ R!EntriesHaveTerms
    BY EntriesMapped DEF ClusterInv
  <2>2. Roles[i] = "Leader" /\ Terms[i] = n.current_term /\ Logs[i] = n.log
    BY <1>1, <1>3, MappedNodes
  <2> QED
    BY <1>5, <2>1, <2>2 DEF R!Has, R!ReplicationInv, R!ReplicationTypeOK
<1>7. ASSUME NEW a \in acked, a.term <= n.current_term
      PROVE  \E j \in 1 .. C : j \in DOMAIN n.log /\ n.log[j].command = a.command
  <2>1. PICK u \in DOMAIN led : \E k \in DOMAIN led[u].log : \E j : AckAt(a, u, k, j)
    BY DEF AcksOK, AckOK
  <2>2. PICK k \in DOMAIN led[u].log : \E j : AckAt(a, u, k, j)
    BY <2>1
  <2>3. PICK j : AckAt(a, u, k, j)
    BY <2>2
  <2>4. R!Chosen(k, u) /\ u <= a.term /\ j \in 1 .. k
    BY <2>3 DEF AckAt
  <2>5. u \in Nat /\ a.term \in Nat
    BY <1>6 DEF AcksOK, AckOK
  <2>6. u <= Terms[i]
    BY <1>3, <1>6, <1>7, <2>4, <2>5
  <2>7. k \in DOMAIN Logs[i] /\ \A l \in 1 .. k : Logs[i][l] = led[u].log[l]
    BY <1>6, <2>4, <2>6, R!LeaderHasChosen
  <2>8. k \in Nat /\ j \in DOMAIN n.log /\ n.log[j].command = a.command
    BY <1>3, <1>6, <2>3, <2>4, <2>7 DEF AckAt
  <2>9. j <= C
    <3>1. CASE a.term = n.current_term
      BY <1>1, <1>2, <1>3, <2>3, <3>1 DEF AckAt
    <3>2. CASE a.term # n.current_term
      <4>1. u < Terms[i]
        BY <1>3, <1>6, <1>7, <2>4, <2>5, <3>2
      <4>2. k < C
        BY <1>6, <2>4, <4>1, R!ChosenIsBelow
      <4> QED
        BY <1>3, <2>4, <2>8, <4>2
    <3> QED
      BY <3>1, <3>2
  <2> QED
    BY <2>4, <2>8, <2>9
<1>8. CASE \A a \in acked : a.term <= n.current_term
  <2>1. Promised(i)'
    BY <1>1, <1>3, <1>4, <1>7, <1>8 DEF Promised
  <2> QED
    BY <1>4, <2>1 DEF ReadOK
<1>9. ASSUME NEW a \in acked, ~(a.term <= n.current_term)
      PROVE  Outvoted(i)'
  <2>1. a.term \in DOMAIN led /\ a.term \in Nat /\ a.term > n.current_term
    BY <1>3, <1>6, <1>9 DEF AcksOK, AckOK
  <2>2. PICK Q : Q = led[a.term].voters
    OBVIOUS
  <2>3. Q \in R!Majorities /\ \A q \in Q : q \in Server /\ a.term <= Terms[q]
    BY <1>6, <2>1, <2>2, R!WonIsReached
  <2>4. ASSUME NEW q \in Q PROVE core'[q].current_term > core'[i].current_term
    <3>1. q \in Server /\ a.term <= core[q].current_term /\ core[q].current_term \in Nat
      BY <2>3, InvNode, MappedNodes
    <3> QED
      BY <1>1, <1>3, <2>1, <3>1
  <2>5. CallsOf(i)' = {}
    <3>1. CallsOf(i) = {}
      BY <1>3, NoCalls
    <3> QED
      BY <1>3, <3>1 DEF CallsOf
  <2>6. task'[i].acks \in 0 .. Cardinality({})
    BY <1>4, FS_EmptySet
  <2>7. OutvotedBy(i, Q, {})'
    BY <2>4, <2>5, <2>6 DEF OutvotedBy
  <2>8. Q \in (R!Majorities)' /\ {} \in SUBSET Server
    BY <2>3 DEF R!Majorities
  <2> QED
    BY <2>7, <2>8 DEF Outvoted
<1> QED
  BY <1>4, <1>8, <1>9 DEF ReadOK

LEMMA ReadsStep ==
    ASSUME SnapshotThreshold = 0, ClusterInv, ClusterInv', SpentOK, Implemented,
           [GuardedNext]_vars, CallsApart, AcksOK, ReadsOK
    PROVE  ReadsOK'
<1> SUFFICES ASSUME NEW i \in Server PROVE ReadOK(i)'
  BY DEF ReadsOK
<1>1. LogInv /\ DOMAIN task = Server /\ DOMAIN task[i] = TaskFields /\ ReadOK(i)
  BY DEF ClusterInv, LogInv, CallsOK, TaskOK, ReadsOK
<1>2. CASE ReadIndex(i)
  BY <1>2, ReadBegins
<1>3. ASSUME ConfirmLeadership(i)
      PROVE  ReadOK(i)'
  <2>1. CASE core'[i].state = "Leader"
    BY <1>1, <1>3, <2>1, ConfirmationsSent
  <2>2. CASE core'[i].state # "Leader"
    <3>1. task' = [task EXCEPT ![i] = Idle]
      BY <1>3, <2>2 DEF ConfirmLeadership
    <3> QED
      BY <1>1, <2>2, <3>1, IdleOK DEF ReadOK, At
  <2> QED
    BY <2>1, <2>2
<1>4. ASSUME NEW c \in CallsOf(i), ConfirmResult(c)
      PROVE  ReadOK(i)'
  <2>1. CASE core'[i].state = "Leader"
    BY <1>1, <1>4, <2>1, ConfirmationCounted
  <2>2. CASE core'[i].state # "Leader"
    <3>1. c.from = i /\ task[i].at = "confirming"
      BY <1>4 DEF CallsOf, ConfirmResult, At
    <3>2. \E a : \/ task' = [task EXCEPT ![i].acks = a, ![i].at = "confirmed"]
                 \/ task' = [task EXCEPT ![i].acks = a, ![i].at = task[i].at]
      BY <1>1, <1>4, <3>1 DEF ConfirmResult
    <3>3. task'[i].at # "confirm"
      BY <1>1, <3>1, <3>2 DEF TaskFields
    <3> QED
      BY <2>2, <3>3 DEF ReadOK, At
  <2> QED
    BY <2>1, <2>2
<1>5. ASSUME GoesOn(task[i], task'[i]), ~ConfirmLeadership(i)
      PROVE  ReadOK(i)'
  <2>1. CASE ~Reading(i)'
    BY <2>1 DEF ReadOK, Reading, At
  <2>2. CASE Reading(i)'
    <3>1. /\ Reading(i) /\ task'[i].index = task[i].index /\ task'[i].after = task[i].after
          /\ task'[i].acks = task[i].acks /\ task'[i].at # "beat"
          /\ task'[i].at = "confirm" => task[i].at = "confirm"
      BY <1>1, <1>5, <2>2 DEF GoesOn, Reading, Busy, TaskFields
    <3>2. ASSUME core'[i].state = "Leader" PROVE Promised(i)' \/ Outvoted(i)'
      <4>1. Promised(i) \/ Outvoted(i)
        BY <1>1, <3>1, <3>2, StillLeads DEF ReadOK
      <4> QED
        BY <1>5, <3>1, <3>2, <4>1, PromiseStays, OutvotedStays
    <3> QED
      BY <1>1, <3>1, <3>2 DEF ReadOK, At
  <2> QED
    BY <2>1, <2>2
<1>6. ASSUME (\E command \in Command : Submit(i, command)) \/ ReplicateToPeers(i)
      PROVE  ReadOK(i)'
  <2>1. task'[i].at \notin {"confirm", "confirming", "confirmed"}
    <3>1. CASE \E command \in Command : Submit(i, command)
      BY <1>1, <3>1 DEF Submit, Idle
    <3>2. CASE ReplicateToPeers(i)
      <4>1. \/ task' = [task EXCEPT ![i] = Idle]
            \/ task' = [task EXCEPT ![i] = [task[i] EXCEPT !.at = "replicating"]]
        BY <3>2 DEF ReplicateToPeers, Send
      <4> QED
        BY <1>1, <4>1, IdleOK DEF TaskFields
    <3> QED
      BY <1>6, <3>1, <3>2
  <2> QED
    BY <2>1 DEF ReadOK, Reading, At
<1> QED
  BY <1>1, <1>2, <1>3, <1>4, <1>5, <1>6, LoopMoves DEF Begins

\* A GET that holds a read index finds what was acknowledged when its read began.
GetOK(g) ==
    /\ g.node \in Server
    /\ g.after \subseteq {core[g.node].sm[k] : k \in DOMAIN core[g.node].sm}

GetsOK == \A g \in gets : GetOK(g)

\* A majority of confirmations is more than the nodes that are not in a later term
\* can have given.
LEMMA ConfirmedIsPromised ==
    ASSUME ClusterInv, NEW i \in Server, Reading(i), ReadOK(i), ReadIsGood(i)
    PROVE  Promised(i)
<1>1. core[i].state = "Leader" /\ task[i].acks + 1 >= Majority
  BY DEF ReadIsGood
<1>2. SUFFICES ASSUME Outvoted(i) PROVE FALSE
  BY <1>1 DEF ReadOK
<1>3. PICK Q \in R!Majorities : \E Y \in SUBSET Server : OutvotedBy(i, Q, Y)
  BY <1>2 DEF Outvoted
<1>4. PICK Y \in SUBSET Server : OutvotedBy(i, Q, Y)
  BY <1>3
<1>5. Q \subseteq Server /\ Cardinality(Q) >= Majority
  BY MajoritiesMapped
<1>6. i \notin Q
  <2>1. core[i].current_term \in Nat /\ ~(core[i].current_term > core[i].current_term)
    BY InvNode
  <2> QED
    BY <1>4, <2>1 DEF OutvotedBy
<1>7. Y \subseteq Server \ (Q \cup {i}) /\ task[i].acks \in 0 .. Cardinality(Y)
  BY <1>4 DEF OutvotedBy
<1>8. IsFiniteSet(Server) /\ IsFiniteSet(Y)
  BY ServerAssumption, FS_Subset
<1>9. Cardinality(Y) \in Nat /\ Cardinality(Y \cup {i}) = Cardinality(Y) + 1
      /\ Cardinality(Server) \in Nat
  BY <1>7, <1>8, FS_CardinalityType, FS_AddElement
<1>10. Cardinality(Y \cup {i}) >= (Cardinality(Server) \div 2) + 1
  BY <1>1, <1>7, <1>9 DEF Majority
<1>11. Y \cup {i} \subseteq Server /\ Cardinality(Q) >= (Cardinality(Server) \div 2) + 1
  BY <1>5, <1>7 DEF Majority
<1>12. \E s \in Y \cup {i} : s \in Q
  BY <1>5, <1>8, <1>10, <1>11, MajoritiesMeet
<1> QED
  BY <1>6, <1>7, <1>12

LEMMA GetComes ==
    ASSUME ClusterInv, Applied, ReadsOK, NEW i \in Server, FinishRead(i)
    PROVE  task[i].after \subseteq {core[i].sm[k] : k \in DOMAIN core[i].sm}
<1>1. Reading(i) /\ ReadIsGood(i) /\ ReadOK(i)
  BY DEF FinishRead, Reading, At, ReadsOK
<1>2. Promised(i)
  BY <1>1, ConfirmedIsPromised
<1>3. /\ core[i].last_applied >= task[i].index /\ core[i].last_applied \in Nat
      /\ task[i].index \in Nat /\ DOMAIN core[i].sm = 1 .. core[i].last_applied
  BY <1>1, InvNode DEF ReadIsGood, LogOK, ClusterInv, LogInv, CallsOK, TaskOK
<1>4. ASSUME NEW x \in task[i].after
      PROVE  \E k \in DOMAIN core[i].sm : core[i].sm[k] = x
  <2>1. PICK j \in 1 .. task[i].index : j \in DOMAIN core[i].log /\ core[i].log[j].command = x
    BY <1>2 DEF Promised
  <2>2. j \in 1 .. core[i].last_applied
    BY <1>3
  <2> QED
    BY <1>3, <2>1, <2>2 DEF Applied
<1> QED
  BY <1>4

LEMMA GetStays ==
    ASSUME SnapshotThreshold = 0, ClusterInv, ClusterInv', Implemented, [Step]_vars,
           NEW g, GetOK(g)
    PROVE  GetOK(g)'
<1>1. PICK i : i = g.node
  OBVIOUS
<1>2. i \in Server /\ g.after \subseteq {core[i].sm[k] : k \in DOMAIN core[i].sm}
  BY <1>1 DEF GetOK
<1>3. Progress(core[i], core'[i])
  <2>1. CASE Step
    BY <1>2, <2>1, StepProgress DEF AllProgress
  <2>2. CASE UNCHANGED vars
    BY <1>2, <2>2, SameProgress DEF AllProgress, vars, nodeVars
  <2> QED
    BY <2>1, <2>2
<1>4. /\ core[i].last_applied \in Nat /\ core'[i].last_applied \in Nat
      /\ DOMAIN core[i].sm = 1 .. core[i].last_applied
      /\ DOMAIN core'[i].sm = 1 .. core'[i].last_applied
  <2>1. LogOK(core[i], i) /\ LogOK(core[i], i)'
    BY <1>2 DEF ClusterInv, LogInv, NodesOK
  <2> QED
    BY <2>1 DEF LogOK
<1>5. ASSUME NEW k \in DOMAIN core[i].sm
      PROVE  k \in DOMAIN core'[i].sm /\ core'[i].sm[k] = core[i].sm[k]
  BY <1>3, <1>4 DEF Progress
<1>6. g.after \subseteq {core'[i].sm[k] : k \in DOMAIN core'[i].sm}
  BY <1>2, <1>5
<1> QED
  BY <1>1, <1>2, <1>6 DEF GetOK

LEMMA GetsStep ==
    ASSUME SnapshotThreshold = 0, ClusterInv, ClusterInv', Implemented, [GuardedNext]_vars,
           Applied, ReadsOK, GetsOK, ReadsSeeAckedWrites
    PROVE  GetsOK' /\ ReadsSeeAckedWrites'
<1>1. ASSUME [Step]_vars, gets' \subseteq gets PROVE GetsOK'
  BY <1>1, GetStays DEF GetsOK
<1>2. ASSUME reads' = reads PROVE ReadsSeeAckedWrites'
  BY <1>2 DEF ReadsSeeAckedWrites
<1>3. ASSUME NEW i \in Server,
             \/ RequestVotes(i) \/ SendHeartbeat(i) \/ ReplicateToPeers(i)
             \/ ConfirmLeadership(i) \/ RefuseRead(i) \/ ElectionTimeout(i) \/ CallsFail(i)
             \/ ReadIndex(i) \/ \E command \in Command : Submit(i, command)
      PROVE  gets' = gets /\ reads' = reads
  BY <1>3 DEF RequestVotes, SendHeartbeat, ReplicateToPeers, ConfirmLeadership,
     RefuseRead, ElectionTimeout, CallsFail, ReadIndex, Submit, clientVars
<1>4. ASSUME NEW c \in calls, Deliver(c) \/ TakeResult(c)
      PROVE  gets' = gets /\ reads' = reads
  BY <1>4 DEF Deliver, TakeResult, VoteResult, HeartbeatResult, SnapshotResult,
     ReplicateResult, ConfirmRefused, ConfirmResult, PeerPanicked, clientVars
<1>5. ASSUME (\E o \in orphans : DeliverOrphan(o)) \/ UNCHANGED vars
      PROVE  gets' = gets /\ reads' = reads
  BY <1>5 DEF DeliverOrphan, vars, clientVars
<1>6. ASSUME NEW g \in gets, KvGet(g)
      PROVE  gets' \subseteq gets /\ ReadsSeeAckedWrites'
  <2>1. g.after \subseteq {core[g.node].sm[k] : k \in DOMAIN core[g.node].sm}
    BY DEF GetsOK, GetOK
  <2>2. PICK r : r = [after |-> g.after, saw |-> core[g.node].sm]
    OBVIOUS
  <2>3. r.after \subseteq {r.saw[k] : k \in DOMAIN r.saw}
    BY <2>1, <2>2
  <2>4. gets' = gets \ {g} /\ reads' = reads \cup {r}
    BY <1>6, <2>2 DEF KvGet
  <2> QED
    BY <2>3, <2>4 DEF ReadsSeeAckedWrites
<1>7. ASSUME NEW i \in Server, FinishRead(i), Step
      PROVE  GetsOK' /\ reads' = reads
  <2>1. PICK g : g = [node |-> i, after |-> task[i].after]
    OBVIOUS
  <2>2. gets' = gets \cup {g} /\ reads' = reads /\ core' = core
    BY <1>7, <2>1 DEF FinishRead
  <2>3. GetOK(g)
    BY <1>7, <2>1, GetComes DEF GetOK
  <2>4. \A h \in gets \cup {g} : GetOK(h)'
    BY <1>7, <2>3, GetStays DEF GetsOK
  <2> QED
    BY <2>2, <2>4 DEF GetsOK
<1>8. ASSUME NEW i \in Server, TermPersisted(i), Restart(i)
      PROVE  GetsOK' /\ reads' = reads
  <2>1. gets' = {g \in gets : g.node # i} /\ reads' = reads
    BY <1>8 DEF Restart
  <2>2. \A j \in Server \ {i} : core'[j] = core[j]
    BY <1>8, Restarted
  <2> QED
    BY <2>1, <2>2 DEF GetsOK, GetOK
<1>9. CASE Step
  BY <1>1, <1>2, <1>3, <1>4, <1>5, <1>6, <1>7, <1>9 DEF Step, Work, LoopStep
<1>10. CASE UNCHANGED vars
  BY <1>1, <1>2, <1>5, <1>10
<1> QED
  BY <1>2, <1>8, <1>9, <1>10 DEF GuardedNext, PersistedNext

(***************************************************************************)
(* The theorems, of a cluster that takes no snapshots and in which nothing *)
(* goes through the windows of persistence, submission and reading.        *)
(***************************************************************************)

\* The consistency check of handle_append_entries does its work: two logs that have
\* an entry of the same index and term are the same up to it.
THEOREM LogsAreMatched == ASSUME SnapshotThreshold = 0 PROVE GuardedSpec => []LogMatching
<1>1. ClusterInv => LogMatching
  BY InvLogMatching
<1> QED
  BY <1>1, ClusterHolds, PTL

\* No two nodes ever disagree on an entry that both count as committed.
THEOREM CommitsHold == ASSUME SnapshotThreshold = 0 PROVE GuardedSpec => []CommittedEntriesAgree
<1>1. ClusterInv => CommittedEntriesAgree
  BY InvCommittedEntriesAgree
<1> QED
  BY <1>1, ClusterHolds, PTL

\* What apply_committed_entries gives a state machine is the beginning of the log
\* that the node counts as committed.
THEOREM LogsAreApplied == ASSUME SnapshotThreshold = 0 PROVE GuardedSpec => []Applied
<1>1. Init => Applied
  BY DEF Init, Applied, New, NoSnapshot
<1>2. /\ Applied /\ ClusterInv /\ ClusterInv' /\ ElectionSafety' /\ [GuardedNext]_vars
      => Applied'
  <2>1. ClusterInv /\ ElectionSafety' /\ [GuardedNext]_vars => Implemented
    BY ClusterStep
  <2> QED
    BY <2>1, AppliedStep
<1> QED
  BY <1>1, <1>2, ClusterHolds, GuardedElections, PTL DEF GuardedSpec

\* No two state machines are given different commands at one position, nor one
\* command twice.
THEOREM StateMachinesAreSafe ==
    ASSUME SnapshotThreshold = 0 PROVE GuardedSpec => []StateMachineSafety
<1>1. ClusterInv /\ Applied => StateMachineSafety
  BY InvStateMachineSafety
<1> QED
  BY <1>1, ClusterHolds, LogsAreApplied, PTL

\* Terms never fall, and only a restart takes back what a node counts as committed
\* or has applied.
THEOREM NodesGoOn == ASSUME SnapshotThreshold = 0 PROVE GuardedSpec => NothingTakenBack
<1>1. Init => SpentOK
  BY DEF Init, SpentOK
<1>2. SpentOK /\ [GuardedNext]_vars => SpentOK'
  BY SpentStep
<1>3. /\ SpentOK /\ ClusterInv /\ ClusterInv' /\ ElectionSafety' /\ [GuardedNext]_vars
      => NothingGoesBack
  <2>1. ClusterInv /\ ElectionSafety' /\ [GuardedNext]_vars => Implemented
    BY ClusterStep
  <2>2. ClusterInv' => LogInv'
    BY DEF ClusterInv
  <2> QED
    BY <2>1, <2>2, StepGoesOn
<1>4. NothingGoesBack =>
          \A i \in Server :
              /\ core'[i].current_term >= core[i].current_term
              /\ spent'.restarts = spent.restarts =>
                    /\ core'[i].commit_index >= core[i].commit_index
                    /\ SubSeq(core'[i].sm, 1, Len(core[i].sm)) = core[i].sm
  BY DEF NothingGoesBack
<1> QED
  BY <1>1, <1>2, <1>3, <1>4, ClusterHolds, GuardedElections, PTL
     DEF GuardedSpec, NothingTakenBack

\* Whatever late requests come, a leader's log only grows in the term it leads.
THEOREM LeadersOnlyAppend == ASSUME SnapshotThreshold = 0 PROVE GuardedSpec => LeaderAppendOnly
<1>1. ClusterInv /\ ClusterInv' /\ ElectionSafety' /\ [GuardedNext]_vars => LeadersAppend
  <2>1. ClusterInv /\ ElectionSafety' /\ [GuardedNext]_vars => Implemented
    BY ClusterStep
  <2>2. ClusterInv' => LogInv'
    BY DEF ClusterInv
  <2> QED
    BY <2>1, <2>2, StepAppends
<1>2. LeadersAppend =>
          \A i \in Server :
              /\ core[i].state = "Leader"
              /\ core'[i].current_term = core[i].current_term
              /\ core'[i].snapshot_last_index = core[i].snapshot_last_index
              /\ spent'.restarts = spent.restarts
              => SubSeq(core'[i].log, 1, Len(core[i].log)) = core[i].log
  BY DEF LeadersAppend
<1> QED
  BY <1>1, <1>2, ClusterHolds, GuardedElections, PTL DEF GuardedSpec, LeaderAppendOnly
\* handle_kv_set answers a client only once its entry is held by a majority: the
\* entry that replicate_to_peers works on is the client's, and it is applied when
\* the leader counts it as committed.
THEOREM AcksHold ==
    ASSUME SnapshotThreshold = 0 PROVE GuardedSpec => [](SubmitsOK /\ SubmitMarksOK /\ AcksOK)
<1>1. Init => SubmitsOK /\ SubmitMarksOK /\ AcksOK
  BY IdleOK DEF Init, SubmitsOK, SubmitKept, SubmitMarksOK, AcksOK
<1>2. /\ SubmitsOK /\ SubmitMarksOK /\ AcksOK /\ Applied' /\ ClusterInv /\ ClusterInv'
      /\ ElectionSafety' /\ [GuardedNext]_vars
      => SubmitsOK' /\ SubmitMarksOK' /\ AcksOK'
  <2>1. ClusterInv /\ ElectionSafety' /\ [GuardedNext]_vars => Implemented
    BY ClusterStep
  <2>2. (ClusterInv => LogInv) /\ (ClusterInv' => LogInv')
    BY DEF ClusterInv
  <2> QED
    BY <2>1, <2>2, SubmitsStep, SubmitMarksStep, AcksStep
<1> QED
  BY <1>1, <1>2, ClusterHolds, LogsAreApplied, GuardedElections, PTL DEF GuardedSpec

\* A write that a client was told Ok of is on the disks of a majority.
THEOREM WritesAreDurable == ASSUME SnapshotThreshold = 0 PROVE GuardedSpec => []AckedIsDurable
<1>1. ClusterInv /\ AcksOK => AckedIsDurable
  BY InvAckedIsDurable
<1> QED
  BY <1>1, ClusterHolds, AcksHold, PTL

\* Every leader of the term of an acknowledgement, or of a later one, has the write.
THEOREM LeadersAreComplete ==
    ASSUME SnapshotThreshold = 0 PROVE GuardedSpec => []LeaderCompleteness
<1>1. ClusterInv /\ AcksOK => LeaderCompleteness
  BY InvLeaderCompleteness
<1> QED
  BY <1>1, ClusterHolds, AcksHold, PTL
\* handle_read_index lets a GET through only if what was acknowledged when it began
\* has been applied: ReadsOK says why a deposed leader cannot count enough
\* confirmations.
THEOREM ReadsHold ==
    ASSUME SnapshotThreshold = 0 PROVE GuardedSpec => [](CallsApart /\ ReadsOK)
<1>1. Init => SpentOK /\ CallsApart /\ ReadsOK
  BY IdleOK DEF Init, SpentOK, CallsApart, ReadsOK, ReadOK, Reading, At
<1>2. SpentOK /\ [GuardedNext]_vars => SpentOK'
  BY SpentStep
<1>3. ClusterInv /\ CallsApart /\ [GuardedNext]_vars => CallsApart'
  BY CallsApartStep DEF ClusterInv
<1>4. /\ SpentOK /\ CallsApart /\ ReadsOK /\ AcksOK /\ ClusterInv /\ ClusterInv'
      /\ ElectionSafety' /\ [GuardedNext]_vars
      => ReadsOK'
  <2>1. ClusterInv /\ ElectionSafety' /\ [GuardedNext]_vars => Implemented
    BY ClusterStep
  <2> QED
    BY <2>1, ReadsStep
<1> QED
  BY <1>1, <1>2, <1>3, <1>4, ClusterHolds, AcksHold, GuardedElections, PTL DEF GuardedSpec

\* A GET sees every write that was acknowledged before it was sent.
THEOREM ReadsAreFresh ==
    ASSUME SnapshotThreshold = 0 PROVE GuardedSpec => []ReadsSeeAckedWrites
<1>1. Init => GetsOK /\ ReadsSeeAckedWrites
  BY DEF Init, GetsOK, ReadsSeeAckedWrites
<1>2. /\ GetsOK /\ ReadsSeeAckedWrites /\ ReadsOK /\ Applied /\ ClusterInv /\ ClusterInv'
      /\ ElectionSafety' /\ [GuardedNext]_vars
      => GetsOK' /\ ReadsSeeAckedWrites'
  <2>1. ClusterInv /\ ElectionSafety' /\ [GuardedNext]_vars => Implemented
    BY ClusterStep
  <2> QED
    BY <2>1, GetsStep
<1> QED
  BY <1>1, <1>2, ClusterHolds, LogsAreApplied, ReadsHold, GuardedElections, PTL DEF GuardedSpec
=============================================================================
