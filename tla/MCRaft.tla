------------------------------- MODULE MCRaft -------------------------------
(***************************************************************************)
(* Small instances of RaftCluster for TLC.                                 *)
(***************************************************************************)
EXTENDS RaftCluster, TLC

\* Nodes that play the same part in a run may be exchanged.
Symmetry == Permutations(Electable) \cup Permutations(Server \ Electable)

\* Bounds on long runs from the initial state: two candidacies in all, and after
\* a crash nothing that follows the commitment of a second entry.
MaxCandidacies == 2
MaxCommitAfterCrash == 1
ShortRun ==
    /\ Cardinality({v \in votes : v.voter = v.candidate}) <= MaxCandidacies
    /\ spent.restarts > 0 => \A i \in Server : core[i].commit_index <= MaxCommitAfterCrash

\* Later starts.  Node i wins the next term with the vote of one peer.
Elect(cores, i, voter) ==
    LET candidate == StartElection(cores[i], i)
        reply == HandleRequestVote(cores[voter], RequestVoteArgs(candidate, i))
    IN  [cores EXCEPT ![i] = HandleRequestVoteResult(candidate, i, voter, reply.resp).core,
                      ![voter] = reply.core]

\* won[t] is the leader of term t and its voter; each leader's loop is at where.
Started(cores, won, where) ==
    /\ core = cores
    /\ task = [j \in Server |-> IF cores[j].state = "Leader" THEN [Idle EXCEPT !.at = where]
                                ELSE Idle]
    /\ calls = {} /\ orphans = {}
    /\ votes = UNION {{[voter |-> v, term |-> t, candidate |-> won[t][1]] :
                           v \in {won[t][1], won[t][2]}} : t \in DOMAIN won}
    /\ elected = {[term |-> t, leader |-> won[t][1]] : t \in DOMAIN won}
    /\ led = [t \in DOMAIN won |-> [leader |-> won[t][1], voters |-> {won[t][1], won[t][2]},
                                    log |-> cores[won[t][1]].log]]
    /\ submitted = {} /\ acked = {} /\ gets = {} /\ reads = {}
    /\ spent = [reads |-> 0, restarts |-> 0]

Fresh == [i \in Server |-> New(i, 0, Nil, <<>>, NoSnapshot)]

\* A heartbeat of i that p answers.
Beat(cores, i, p) ==
    LET beat == Heartbeat(cores[i], i, p)
        reply == HandleAppendEntries(cores[p], beat.req)
    IN  [cores EXCEPT ![p] = reply.core,
                      ![i] = HandleAppendEntriesResult(@, p, beat.mark, reply.resp).core]

\* A round of heartbeats.
Round(cores, i) == FoldSet(LAMBDA p, cs : Beat(cs, i, p), cores, Peers(i))

\* First has just been elected; Third has seen neither request nor leader.
CONSTANTS First, Voter, Third
FirstElected == Started(Elect(Fresh, First, Voter), <<<<First, Voter>>>>, "beat")

\* Two rounds later its no-op is committed and applied everywhere.
FirstSettled ==
    Started(Round(Round(Elect(Fresh, First, Voter), First), First), <<<<First, Voter>>>>, "idle")

\* Voter was elected right after First: two leaders, each with a no-op of its
\* own that no other node has.
TwoElected ==
    Started(Elect(Elect(Fresh, First, Voter), Voter, Third),
            <<<<First, Voter>>, <<Voter, Third>>>>, "beat")

\* From there: all that the code does, and the parts of it named in RaftCluster.
DivergedSpec == TwoElected /\ [][Step]_vars
StartedSpec == FirstElected /\ [][Next]_vars
ClientsSpec == FirstSettled /\ [][GuardedNext]_vars
LiveSpec == FirstElected /\ [][Step]_vars /\ Fairness /\ NetworkHeals

\* All but the history that only the proofs use: no guard and no property of the
\* elections run reads led.
WithoutLed == <<nodeVars, votes, elected, clientVars>>
=============================================================================
