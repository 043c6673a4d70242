------------------------------- MODULE Ballots -------------------------------
(***************************************************************************)
(* What elections promise, without messages, logs or crashes: a node gives *)
(* one vote in a term and never takes it back, and a candidate that a      *)
(* majority voted for in a term may win it.  RaftCluster implements this.  *)
(***************************************************************************)
EXTENDS Naturals, FiniteSets

CONSTANT Server
VARIABLES votes, elected

ballotVars == <<votes, elected>>

BallotsInit == votes = {} /\ elected = {}

Vote == [voter : Server, term : Nat, candidate : Server]

\* A node votes for a candidate unless it has voted for another in that term.
CastVote(v) ==
    /\ v \in Vote
    /\ \A w \in votes : w.voter = v.voter /\ w.term = v.term => w.candidate = v.candidate
    /\ votes' = votes \cup {v}
    /\ UNCHANGED elected

VotersFor(t, c) == {s \in Server : [voter |-> s, term |-> t, candidate |-> c] \in votes}

\* A candidate wins a term with the votes of more than half of the nodes.
Win(e) ==
    /\ e \in [term : Nat, leader : Server]
    /\ Cardinality(VotersFor(e.term, e.leader)) >= (Cardinality(Server) \div 2) + 1
    /\ elected' = elected \cup {e}
    /\ UNCHANGED votes

\* The vote or the election that a step adds is one of the new set.
BallotsNext == (\E v \in votes' : CastVote(v)) \/ (\E e \in elected' : Win(e))

BallotsSpec == BallotsInit /\ [][BallotsNext]_ballotVars

\* No two nodes win one term.
OneWinner == \A e, f \in elected : e.term = f.term => e.leader = f.leader
=============================================================================
