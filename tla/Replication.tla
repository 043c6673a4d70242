----------------------------- MODULE Replication -----------------------------
(***************************************************************************)
(* What replication promises, without event loops, handlers, disks or      *)
(* calls: the terms, roles and logs of the nodes, the entries on their way *)
(* and the answers to them.  The answers that count come from nodes that   *)
(* have repaired their logs, and what a majority has answered is never     *)
(* lost.  RaftCluster implements this while snapshots are off and nothing  *)
(* goes through the windows that it names.                                 *)
(*                                                                         *)
(* That a term has one winner is taken from Ballots: a term that has been  *)
(* won is not won again.                                                   *)
(***************************************************************************)
EXTENDS Naturals, Sequences, FiniteSets

CONSTANTS
    Server,
    Entry       \* what logs hold: records that have a term

VARIABLES
    term,       \* term[i]: the term node i is in
    role,       \* "Follower", "Candidate" or "Leader"
    log,        \* log[i]: the log of node i
    commit,     \* commit[i]: how much of it node i counts as committed
    match,      \* match[i][p]: how far leader i knows the log of p to be its own
    votes,      \* votes given, as [voter, term, candidate]
    led,        \* led[t]: who won term t, with which voters, and its log then and since
    requests,   \* AppendEntries requests that may arrive
    oks         \* successful answers that may arrive, as [node, term, index]

nodes == <<term, role, log, commit, match>>
replicationVars == <<nodes, votes, led, requests, oks>>

Majorities == {Q \in SUBSET Server : Cardinality(Q) >= (Cardinality(Server) \div 2) + 1}

ReplicationInit ==
    /\ term = [i \in Server |-> 0]
    /\ role = [i \in Server |-> "Follower"]
    /\ log = [i \in Server |-> <<>>]
    /\ commit = [i \in Server |-> 0]
    /\ match = [i \in Server |-> [p \in Server \ {i} |-> 0]]
    /\ votes = {} /\ led = <<>> /\ requests = {} /\ oks = {}

(***************************************************************************)
(* Logs and requests.                                                      *)
(***************************************************************************)

Has(l, k, t) == k \in DOMAIN l /\ l[k].term = t

LastTerm(l) == IF l = <<>> THEN 0 ELSE l[Len(l)].term

\* Log l is at least as up to date as log m.
UpToDate(l, m) ==
    \/ LastTerm(l) > LastTerm(m)
    \/ LastTerm(l) = LastTerm(m) /\ Len(l) >= Len(m)

\* The index of the last entry that request m covers.
Last(m) == m.prev_log_index + Len(m.entries)

\* The terms of log l and of the entries of m agree up to index k.
Agree(l, m, k) ==
    /\ k <= Len(l)
    /\ \A j \in (m.prev_log_index + 1) .. k : l[j].term = m.entries[j - m.prev_log_index].term

\* A log that has all the entries is left as it is; another one ends with them.
Repair(l, m) ==
    IF Agree(l, m, Last(m)) THEN l
    ELSE [k \in 1 .. Last(m) |->
             IF k <= m.prev_log_index \/ Agree(l, m, k) THEN l[k]
             ELSE m.entries[k - m.prev_log_index]]

\* Log m is log l and one more entry, of term t.
OneMore(l, m, t) ==
    /\ Len(m) = Len(l) + 1
    /\ m[Len(m)] \in Entry /\ m[Len(m)].term = t
    /\ m = Append(l, m[Len(m)])

(***************************************************************************)
(* Steps.  Requests and answers are lost at any time.                      *)
(***************************************************************************)
Fewer == requests' \subseteq requests /\ oks' \subseteq oks

\* Node i is in term t and, if that is a new one, no longer leads or stands.
MovesTo(i, t) ==
    /\ t \in Nat /\ t >= term[i]
    /\ term' = [term EXCEPT ![i] = t]
    /\ \/ role' = [role EXCEPT ![i] = "Follower"]
       \/ role' = role /\ t = term[i]

Stand(i) ==
    /\ role[i] # "Leader"
    /\ term' = [term EXCEPT ![i] = @ + 1]
    /\ role' = [role EXCEPT ![i] = "Candidate"]
    /\ votes' = votes \cup {[voter |-> i, term |-> term[i] + 1, candidate |-> i]}
    /\ Fewer
    /\ UNCHANGED <<log, commit, match, led>>

Observe(i) ==
    /\ MovesTo(i, term'[i])
    /\ Fewer
    /\ UNCHANGED <<log, commit, match, votes, led>>

\* A vote is for a candidate whose log is as up to date as the voter's, unless it
\* comes too late to make a difference.
GiveVote(i, v) ==
    /\ v = [voter |-> i, term |-> term'[i], candidate |-> v.candidate]
    /\ v.candidate \in Server /\ v.term <= term[v.candidate]
    /\ MovesTo(i, v.term)
    /\ role[v.candidate] = "Candidate" /\ term[v.candidate] = v.term =>
          UpToDate(log[v.candidate], log[i])
    /\ votes' = votes \cup {v}
    /\ Fewer
    /\ UNCHANGED <<log, commit, match, led>>

\* A winner appends an entry to start its term with.
Win(i) ==
    LET t == term[i]
    IN  /\ role[i] = "Candidate" /\ t \notin DOMAIN led
        /\ DOMAIN led' = DOMAIN led \cup {t}
        /\ led'[t].leader = i
        /\ led'[t].voters \in Majorities
        /\ \A v \in led'[t].voters : [voter |-> v, term |-> t, candidate |-> i] \in votes
        /\ OneMore(log[i], led'[t].log, t)
        /\ \A u \in DOMAIN led : led'[u] = led[u]
        /\ role' = [role EXCEPT ![i] = "Leader"]
        /\ log' = [log EXCEPT ![i] = led'[t].log]
        /\ match' = [match EXCEPT ![i] = [p \in Server \ {i} |-> 0]]
        /\ Fewer
        /\ UNCHANGED <<term, commit, votes>>

Extend(i) ==
    LET t == term[i]
    IN  /\ role[i] = "Leader"
        /\ DOMAIN led' = DOMAIN led
        /\ OneMore(log[i], log'[i], t)
        /\ log' = [log EXCEPT ![i] = log'[i]]
        /\ led'[t] = [leader |-> i, voters |-> led[t].voters, log |-> log'[i]]
        /\ \A u \in DOMAIN led : u # t => led'[u] = led[u]
        /\ Fewer
        /\ UNCHANGED <<term, role, commit, match, votes>>

\* A request of leader i: a part of its log that reaches as far as the commit
\* index that goes with it.
Sends(i, m) ==
    /\ m.term = term[i]
    /\ m.prev_log_index \in Nat /\ m.entries \in Seq(Entry)
    /\ Last(m) <= Len(log[i])
    /\ m.prev_log_index > 0 => m.prev_log_term = log[i][m.prev_log_index].term
    /\ \A k \in DOMAIN m.entries : m.entries[k] = log[i][m.prev_log_index + k]
    /\ m.leader_commit \in Nat
    /\ m.leader_commit <= commit[i] /\ m.leader_commit <= Last(m)

Send(i) ==
    /\ role[i] = "Leader"
    /\ \A m \in requests' : m \in requests \/ Sends(i, m)
    /\ oks' \subseteq oks
    /\ UNCHANGED <<nodes, votes, led>>

\* The consistency check has passed: the log is repaired, the commit index
\* follows, and the answer says how far the logs are now known to agree.
Accept(i, m) ==
    /\ m \in requests
    /\ m.prev_log_index = 0 \/ Has(log[i], m.prev_log_index, m.prev_log_term)
    /\ m.term >= term[i]
    /\ term' = [term EXCEPT ![i] = m.term]
    /\ role' = [role EXCEPT ![i] = "Follower"]
    /\ log' = [log EXCEPT ![i] = Repair(@, m)]
    /\ commit' = [commit EXCEPT ![i] =
                     IF m.leader_commit <= @ THEN @
                     ELSE IF m.leader_commit <= Len(log'[i]) THEN m.leader_commit
                     ELSE Len(log'[i])]
    /\ requests' \subseteq requests
    /\ \A o \in oks' : \/ o \in oks
                       \/ o.node = i /\ o.term = m.term /\ o.index \in 1 .. Last(m)
    /\ UNCHANGED <<match, votes, led>>

\* Leader i counts an answer, or sees that an entry of its own term is on a
\* majority of the nodes, or both.
Advance(i) ==
    /\ role[i] = "Leader"
    /\ \/ match' = match
       \/ \E o \in oks :
             /\ o.term = term[i] /\ o.node \in DOMAIN match[i]
             /\ o.index > match[i][o.node]
             /\ match' = [match EXCEPT ![i][o.node] = o.index]
    /\ \/ commit' = commit
       \/ LET k == commit'[i]
          IN  /\ commit' = [commit EXCEPT ![i] = k]
              /\ k > commit[i] /\ Has(log[i], k, term[i])
              /\ {i} \cup {p \in DOMAIN match'[i] : match'[i][p] >= k} \in Majorities
    /\ Fewer
    /\ UNCHANGED <<term, role, log, votes, led>>

\* A node comes back with its term and its log.
Restart(i) ==
    /\ role' = [role EXCEPT ![i] = "Follower"]
    /\ commit' = [commit EXCEPT ![i] = 0]
    /\ match' = [match EXCEPT ![i] = [p \in Server \ {i} |-> 0]]
    /\ Fewer
    /\ UNCHANGED <<term, log, votes, led>>

\* Everything but restarts.
Work ==
    \E i \in Server :
        \/ Stand(i) \/ Observe(i) \/ Win(i) \/ Extend(i) \/ Send(i) \/ Advance(i)
        \/ \E v \in votes' : GiveVote(i, v)
        \/ \E m \in requests : Accept(i, m)

ReplicationNext == Work \/ \E i \in Server : Restart(i)

ReplicationSpec == ReplicationInit /\ [][ReplicationNext]_replicationVars

(***************************************************************************)
(* Why it works.                                                           *)
(***************************************************************************)

\* What the variables hold.
RequestOK(m) ==
    /\ m.term \in Nat /\ m.prev_log_index \in Nat /\ m.leader_commit \in Nat
    /\ m.entries \in Seq(Entry)

ReplicationTypeOK ==
    /\ term \in [Server -> Nat]
    /\ role \in [Server -> {"Follower", "Candidate", "Leader"}]
    /\ log \in [Server -> Seq(Entry)]
    /\ commit \in [Server -> Nat]
    /\ DOMAIN match = Server /\ \A i \in Server : match[i] \in [Server \ {i} -> Nat]
    /\ \A v \in votes : v.voter \in Server /\ v.term \in Nat /\ v.candidate \in Server
    /\ DOMAIN led \subseteq Nat
    /\ \A t \in DOMAIN led : led[t].voters \in Majorities /\ led[t].log \in Seq(Entry)
    /\ \A m \in requests : RequestOK(m)
    /\ \A o \in oks : o.node \in Server /\ o.term \in DOMAIN led /\ o.index \in Nat

\* Every entry of a log came from the leader of its term, with all before it.
Vouched(l) ==
    \A k \in DOMAIN l :
        /\ l[k].term \in DOMAIN led
        /\ k <= Len(led[l[k].term].log)
        /\ \A j \in 1 .. k : l[j] = led[l[k].term].log[j]

NoneAbove(l, t) == \A k \in DOMAIN l : l[k].term <= t

LogsVouched ==
    /\ \A t \in DOMAIN led : Vouched(led[t].log) /\ NoneAbove(led[t].log, t)
    /\ \A i \in Server : Vouched(log[i]) /\ NoneAbove(log[i], term[i])

LeadersFollowed ==
    \A i \in Server : role[i] = "Leader" =>
        /\ term[i] \in DOMAIN led
        /\ led[term[i]].leader = i /\ led[term[i]].log = log[i]

\* Nobody votes in a term that voter or candidate has not reached.
VotesReached ==
    /\ \A v \in votes : v.term <= term[v.voter] /\ v.term <= term[v.candidate]
    /\ \A t \in DOMAIN led : \A r \in led[t].voters : t <= term[r]

\* A request is a part of the log of its leader.
RequestsVouched ==
    \A m \in requests :
        LET l == led[m.term].log
        IN  /\ m.term \in DOMAIN led
            /\ Last(m) <= Len(l) /\ m.leader_commit <= Last(m)
            /\ m.prev_log_index > 0 => m.prev_log_term = l[m.prev_log_index].term
            /\ \A k \in DOMAIN m.entries : m.entries[k] = l[m.prev_log_index + k]

\* Some leader after term t and before term u does not have entry k of term t.
Skipped(k, t, u) ==
    \E w \in DOMAIN led : t < w /\ w < u /\ ~Has(led[w].log, k, t)

\* Node r has held entry k of term t in that term.  It still does, unless a later
\* leader that was elected without it has taken it away; and whoever r has voted
\* for since has it too, unless again an earlier one had not.
Held(r, k, t) ==
    /\ term[r] >= t
    /\ Has(log[r], k, t) \/ Skipped(k, t, term[r] + 1)
    /\ \A u \in DOMAIN led : t < u /\ r \in led[u].voters =>
          Has(led[u].log, k, t) \/ Skipped(k, t, u)
    /\ \A c \in Server :
          /\ role[c] = "Candidate" /\ t < term[c] /\ term[c] \notin DOMAIN led
          /\ [voter |-> r, term |-> term[c], candidate |-> c] \in votes
          => Has(log[c], k, t) \/ Skipped(k, t, term[c])

\* Node r has held all that the leader of term t created in it, up to index n.
HeldUpTo(r, n, t) == \A k \in 1 .. n : Has(led[t].log, k, t) => Held(r, k, t)

\* An answer says so ...
OksHeld ==
    \A o \in oks : o.index <= Len(led[o.term].log) /\ HeldUpTo(o.node, o.index, o.term)

\* ... and so does match.
MatchHeld ==
    \A i \in Server : role[i] = "Leader" =>
        \A p \in Server \ {i} :
            match[i][p] <= Len(log[i]) /\ HeldUpTo(p, match[i][p], term[i])

\* A majority has held entry k of term t.
Chosen(k, t) ==
    /\ t \in DOMAIN led /\ Has(led[t].log, k, t)
    /\ \E Q \in Majorities : \A r \in Q : Held(r, k, t)

\* Up to index n, log l is that of a leader whose entry at n or later is chosen.
Settled(l, n, t) ==
    \/ n = 0
    \/ \E u \in DOMAIN led : \E k \in DOMAIN led[u].log :
          /\ Chosen(k, u) /\ u <= t /\ n <= k
          /\ \A j \in 1 .. n : l[j] = led[u].log[j]

CommitsSettled ==
    /\ \A i \in Server : commit[i] <= Len(log[i]) /\ Settled(log[i], commit[i], term[i])
    /\ \A m \in requests : Settled(led[m.term].log, m.leader_commit, m.term)

ReplicationInv ==
    /\ ReplicationTypeOK
    /\ LogsVouched /\ LeadersFollowed /\ VotesReached /\ RequestsVouched
    /\ OksHeld /\ MatchHeld /\ CommitsSettled

\* Every later leader has what a majority has held.
ChosenIsLed ==
    \A t, u \in DOMAIN led : t < u =>
        \A k \in DOMAIN led[t].log : Chosen(k, t) => Has(led[u].log, k, t)

\* Logs that agree on the term of an index agree up to it.
LogsMatch ==
    \A i, j \in Server : \A k \in DOMAIN log[i] \cap DOMAIN log[j] :
        log[i][k].term = log[j][k].term => \A m \in 1 .. k : log[i][m] = log[j][m]

\* What two nodes count as committed is the same.
CommitsAgree ==
    \A i, j \in Server : \A k \in 1 .. commit[i] :
        k <= commit[j] => log[i][k] = log[j][k]

\* What a node counts as committed stays in its log, and only a restart makes it
\* count less.
CommitsStay ==
    [][\A i \in Server :
          /\ \A k \in 1 .. commit[i] : k \in DOMAIN log'[i] /\ log'[i][k] = log[i][k]
          /\ commit'[i] >= commit[i] \/ Restart(i)]_replicationVars
=============================================================================
