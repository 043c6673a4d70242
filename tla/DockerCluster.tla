---------------------------- MODULE DockerCluster ----------------------------
(***************************************************************************)
(* The faults of the chaos tests (chaos-test/src/docker.rs): containers    *)
(* that are killed and started, taken off the network and put back, and    *)
(* iptables rules inside them.  A call that docker refuses only prints a   *)
(* warning and changes nothing: it is a stuttering step.  Docker itself is *)
(* modelled from its use: a killed container loses its network namespace   *)
(* and with it its rules; a container keeps its address; one that is       *)
(* stopped or off the network has none.                                    *)
(***************************************************************************)
EXTENDS Naturals, FiniteSets

CONSTANTS
    Node,
    MaxFaults   \* bound on the calls that inject or heal a fault

VARIABLES
    running,    \* the containers that run
    attached,   \* the containers on the cluster network
    rules,      \* rules[n][p]: how often n drops what comes from and goes to p
    faults,     \* calls made
    aborted     \* a call panicked, and the test with it

dockerVars == <<running, attached, rules, faults, aborted>>

NoRules == [p \in Node |-> 0]

\* DockerCluster::start: down -v, then up.
Start ==
    /\ running = Node /\ attached = Node
    /\ rules = [n \in Node |-> NoRules]
    /\ faults = 0 /\ aborted = FALSE

Call == ~aborted /\ faults < MaxFaults /\ faults' = faults + 1

KillNode(n) ==
    /\ n \in running /\ Call
    /\ running' = running \ {n}
    /\ rules' = [rules EXCEPT ![n] = NoRules]
    /\ UNCHANGED <<attached, aborted>>

StartNode(n) ==
    /\ n \notin running /\ Call
    /\ running' = running \cup {n}
    /\ UNCHANGED <<attached, rules, aborted>>

IsolateNode(n) ==
    /\ n \in attached /\ Call
    /\ attached' = attached \ {n}
    /\ UNCHANGED <<running, rules, aborted>>

RejoinNode(n) ==
    /\ n \notin attached /\ Call
    /\ attached' = attached \cup {n}
    /\ UNCHANGED <<running, rules, aborted>>

\* get_container_ip returns Some.
HasAddress(n) == n \in running \cap attached

\* iptables -A or -D, for both chains, through docker exec: nothing happens in a
\* container that does not run, and -D removes one matching rule if there is one.
IptablesRule(r, n, action, p) ==
    IF n \notin running THEN r
    ELSE [r EXCEPT ![n][p] = IF action = "-A" THEN @ + 1 ELSE IF @ > 0 THEN @ - 1 ELSE 0]

PartitionOneWay(from, to, action) ==
    /\ Call
    /\ aborted' = ~HasAddress(to)
    /\ rules' = IF HasAddress(to) THEN IptablesRule(rules, from, action, to) ELSE rules
    /\ <<rules, aborted>>' # <<rules, aborted>>
    /\ UNCHANGED <<running, attached>>

\* partition and heal_partition look up both addresses first.
Partition(a, b, action) ==
    /\ Call
    /\ aborted' = ~(HasAddress(a) /\ HasAddress(b))
    /\ rules' = IF HasAddress(a) /\ HasAddress(b)
                THEN IptablesRule(IptablesRule(rules, a, action, b), b, action, a)
                ELSE rules
    /\ <<rules, aborted>>' # <<rules, aborted>>
    /\ UNCHANGED <<running, attached>>

\* Packets pass from a to b.
CanSend(a, b) ==
    /\ {a, b} \subseteq running \cap attached
    /\ rules[a][b] = 0 /\ rules[b][a] = 0

\* The nodes that n can exchange messages with, itself included.
Reached(n) == {n} \cup {p \in Node : CanSend(n, p) /\ CanSend(p, n)}
=============================================================================
