-------------------------------- MODULE Chaos --------------------------------
(***************************************************************************)
(* A chaos test: the test clients (chaos-test/src/client.rs, runner.rs),   *)
(* the HTTP API and the command channel of each server                     *)
(* (src/api/client_http.rs, src/core/raft_server.rs), the key-value store, *)
(* the faults of DockerCluster and, at the end, the Checker.               *)
(*                                                                         *)
(* Of the Raft cluster underneath it has the terms, the leaders, deposed   *)
(* ones that have not heard of it included, what each of them counts as    *)
(* committed, and the confirmation of a read, one peer at a time.  Taken   *)
(* from RaftCluster, where it is checked and proved outside the windows    *)
(* named there: what one leader commits, every later leader has and no     *)
(* server replaces.  So log is one sequence, the entries any leader has    *)
(* committed.  A call to a peer and its answer are one step here.          *)
(*                                                                         *)
(* A definition marked Mutant is the next unmarked one with a likely bug.  *)
(***************************************************************************)
EXTENDS DockerCluster, KvStore, Checker

CONSTANTS
    Client,
    Targets,        \* node_addresses, in the order clients try them
    Workload,       \* Workload[c][j]: the kinds that operation j of c may have
    Key,            \* the key of the workload, a text
    MaxRetries,     \* max_retries
    ChannelSize,    \* the bound of a server's command channel
    Faulty,         \* bound on the nodes that a fault is aimed at
    MaxTerm         \* bound on terms

\* The workload's key is one word, like those of the runner; a missing value is
\* none of those that are written.
ASSUME WorkloadAssumption ==
    /\ IsFiniteSet(Node)
    /\ Targets \in Seq(Node) /\ Targets # <<>>
    /\ Workload \in [Client -> Seq(SUBSET {"Read", "Write"})]
    /\ Key = <<Key[1]>>
    /\ None \notin Seq(Client \X Nat)

VARIABLES
    term,       \* term[n]: current_term of server n
    state,      \* state[n]
    settled,    \* the leaders that have committed an entry of their term
    known,      \* known[n]: commit_index of n, if it is one of them
    log,        \* the committed entries but the no-ops
    last_term,  \* the term of the last committed entry, a no-op or not
    appended,   \* further entries of clients that servers have in their logs
    queue,      \* queue[n]: the command channel of server n
    busy,       \* busy[n]: the command its loop works on
    gets,       \* the GETs whose read index is confirmed
    client,     \* client[c]: its operation
    history,    \* the operations recorded
    clock       \* the timestamps given out

networkVars == <<running, attached, rules, aborted>>
leaderVars == <<term, state, settled, known>>
logVars == <<log, last_term, appended>>
clusterVars == <<leaderVars, logVars>>
serverVars == <<clusterVars, queue, busy, gets>>
vars == <<running, attached, rules, faults, aborted, term, state, settled, known, log,
          last_term, appended, queue, busy, gets, client, history, clock>>

NoCommand == [op |-> 0]
Resting == [at |-> "rest", op |-> 0, kind |-> "Read", target |-> 1, retries |-> 0, invoke |-> 0]

Init ==
    /\ Start
    /\ term = [n \in Node |-> 1]
    /\ state = [n \in Node |-> IF n = Targets[1] THEN "Leader" ELSE "Follower"]
    /\ settled = {} /\ known = [n \in Node |-> 0]
    /\ log = <<>> /\ last_term = 0 /\ appended = <<>>
    /\ queue = [n \in Node |-> <<>>]
    /\ busy = [n \in Node |-> NoCommand] /\ gets = {}
    /\ client = [c \in Client |-> Resting]
    /\ history = {} /\ clock = 0

(***************************************************************************)
(* Test clients.                                                           *)
(***************************************************************************)

\* "c{id}_v{n}": a value no other write has.
ValueOf(c, op) == <<<<c, op>>>>

Target(c) == Targets[client[c].target]

Majority == (Cardinality(Node) \div 2) + 1
HasQuorum(n) == Cardinality(Reached(n)) >= Majority

\* An answer fails or is late, although (sound) the network would have let it
\* pass: that counts as one of the MaxFaults.
Late(sound) == IF sound THEN faults < MaxFaults /\ faults' = faults + 1 ELSE UNCHANGED faults

\* run_client_workload draws the next operation.
Invoke(c, kind) ==
    /\ client[c].at = "rest" /\ client[c].op < Len(Workload[c])
    /\ kind \in Workload[c][client[c].op + 1]
    /\ clock' = clock + 1
    /\ client' = [client EXCEPT ![c] = [Resting EXCEPT !.at = "send", !.op = client[c].op + 1,
                                                       !.kind = kind, !.invoke = clock']]
    /\ UNCHANGED <<dockerVars, serverVars, history>>

\* The end of read or write: the operation is recorded once, however often it
\* was sent.  value is what a read returned.
Complete(c, result, value) ==
    /\ clock' = clock + 1
    /\ client' = [client EXCEPT ![c] = [Resting EXCEPT !.op = client[c].op]]
    /\ history' = history \cup
           {[id |-> <<c, client[c].op>>, key |-> Key, kind |-> client[c].kind,
             value |-> IF client[c].kind = "Write" THEN ValueOf(c, client[c].op) ELSE value,
             invoke |-> client[c].invoke, complete |-> clock', result |-> result]}

\* A 503 or a network error: the next target, or an error after max_retries.
Retry(c) ==
    IF client[c].retries + 1 >= MaxRetries
    THEN Complete(c, "Error", None)
    ELSE /\ client' = [client EXCEPT ![c].at = "send", ![c].retries = @ + 1,
                                     ![c].target = (@ % Len(Targets)) + 1]
         /\ UNCHANGED <<history, clock>>

\* The request reaches a handler, which puts a command in the channel.
Reach(c) ==
    /\ client[c].at = "send" /\ HasAddress(Target(c))
    /\ Len(queue[Target(c)]) < ChannelSize
    /\ queue' = [queue EXCEPT ![Target(c)] =
           Append(@, [client |-> c, op |-> client[c].op, try |-> client[c].retries,
                      kind |-> client[c].kind])]
    /\ client' = [client EXCEPT ![c].at = "wait"]
    /\ UNCHANGED <<dockerVars, clusterVars, busy, gets, history, clock>>

\* Nothing accepts the connection.
Refused(c) ==
    /\ client[c].at = "send" /\ ~HasAddress(Target(c))
    /\ Retry(c)
    /\ UNCHANGED <<dockerVars, serverVars>>

\* The command of c's operation, in a channel or in a loop's hands, or its GET.
InServer(c, n) ==
    \/ busy[n].op # 0 /\ busy[n].client = c /\ busy[n].op = client[c].op
    \/ \E k \in DOMAIN queue[n] : queue[n][k].client = c /\ queue[n][k].op = client[c].op
    \/ \E g \in gets : g.node = n /\ g.client = c /\ g.op = client[c].op

\* The server was killed with the request in it, or its answer was lost: the
\* connection breaks.
Broken(c) ==
    /\ client[c].at = "wait" /\ ~InServer(c, Target(c))
    /\ Retry(c)
    /\ UNCHANGED <<dockerVars, serverVars>>

\* request_timeout, or connect_timeout for a node off the network.  A command in a
\* server stays where it is; a request that waits for room in the channel, or for
\* the store, is dropped with its connection.
TimeOut(c) ==
    /\ \/ client[c].at = "wait"
       \/ /\ client[c].at = "send" /\ Target(c) \in running
          /\ Target(c) \in attached => Len(queue[Target(c)]) = ChannelSize
    /\ Late(HasQuorum(Target(c)))
    /\ Complete(c, "Error", None)
    /\ gets' = {g \in gets : g.client # c}
    /\ UNCHANGED <<networkVars, clusterVars, queue, busy>>

\* The answer of n to a command, if it can reach the client and the client still
\* waits for it.
Answer(n, cmd, result, value) ==
    IF n \in attached /\ client[cmd.client].at = "wait" /\ client[cmd.client].op = cmd.op
    THEN IF Status(result) = 200 THEN Complete(cmd.client, "Ok", value)
         ELSE IF Status(result) = 503 THEN Retry(cmd.client)
         ELSE Complete(cmd.client, "Error", None)
    ELSE UNCHANGED <<client, history, clock>>

(***************************************************************************)
(* Servers and the cluster.                                                *)
(***************************************************************************)

\* The store that has applied the first k entries.
StoreAt(k) ==
    LET store[j \in 0 .. Len(log)] ==
            IF j = 0 THEN EmptyStore ELSE Apply(store[j - 1], log[j].command).store
    IN  store[k]

\* What the loop of n works on, and how far it is.
Works(n, kind, stage) == busy[n].op # 0 /\ busy[n].kind = kind /\ busy[n].stage = stage

WorkOn(cmd, stage, index, acks) ==
    [client |-> cmd.client, op |-> cmd.op, try |-> cmd.try, kind |-> cmd.kind,
     stage |-> stage, index |-> index, acks |-> acks]

EntryOf(cmd, t) == [client |-> cmd.client, op |-> cmd.op, try |-> cmd.try, term |-> t]

LogEntry(e) ==
    [client |-> e.client, op |-> e.op, command |-> SetCommand(Key, ValueOf(e.client, e.op))]

\* run takes the next command while it has none.
NextCommand(n) ==
    /\ n \in running /\ busy[n] = NoCommand /\ queue[n] # <<>>
    /\ queue' = [queue EXCEPT ![n] = Tail(@)]
    /\ UNCHANGED <<dockerVars, leaderVars, log, last_term, gets>>

\* Both handlers, on a server that is no leader.
Refuse(n) ==
    /\ NextCommand(n) /\ state[n] # "Leader"
    /\ Answer(n, Head(queue[n]), "NotLeader", None)
    /\ UNCHANGED <<appended, busy>>

\* handle_submit up to append_log_entry.
TakeSubmit(n) ==
    LET cmd == Head(queue[n])
    IN  /\ NextCommand(n) /\ state[n] = "Leader" /\ cmd.kind = "Write"
        /\ IF Validate(SetCommand(Key, ValueOf(cmd.client, cmd.op)))
           THEN /\ appended' = Append(appended, EntryOf(cmd, term[n]))
                /\ busy' = [busy EXCEPT ![n] = WorkOn(cmd, "append", 0, {})]
                /\ UNCHANGED <<client, history, clock>>
           ELSE Answer(n, cmd, "InvalidCommand", None) /\ UNCHANGED <<appended, busy>>

\* The read index of a leader: its own commit_index.  Before it has committed an
\* entry of its term that may be any point its predecessors reached.
ReadIndexes(n) == IF n \in settled THEN {known[n]} ELSE 0 .. Len(log)

\* handle_read_index up to the first call of confirm_leadership.
TakeRead(n) ==
    LET cmd == Head(queue[n])
    IN  /\ NextCommand(n) /\ state[n] = "Leader" /\ cmd.kind = "Read"
        /\ \E index \in ReadIndexes(n) :
              busy' = [busy EXCEPT ![n] = WorkOn(cmd, "confirm", index, {n})]
        /\ UNCHANGED <<appended, client, history, clock>>

\* replicate_to_peers starts, without another look at the state.
Replicate(n) ==
    /\ Works(n, "Write", "append")
    /\ busy' = [busy EXCEPT ![n].stage = "replicate"]
    /\ UNCHANGED <<dockerVars, clusterVars, queue, gets, client, history, clock>>

\* The servers of Q take over the term of n; those of S give up what they led or
\* stood for, n excepted.
Follow(S, Q, n) ==
    /\ term' = [q \in Node |-> IF q \in Q THEN term[n] ELSE term[q]]
    /\ state' = [q \in Node |-> IF q \in S \ {n} THEN "Follower" ELSE state[q]]

Quorums(n) == {Q \in SUBSET Reached(n) : n \in Q /\ Cardinality(Q) >= Majority}

\* q takes the entries of n for those of a leader.
Accepts(q, n) == term[q] <= term[n]

\* The next entry that n can commit: first those it has of earlier terms, in the
\* order of the terms, then its no-op, then its own in the order it appended them.
CanCommit(n, j) ==
    /\ IF n \in settled THEN appended[j].term = term[n]
       ELSE appended[j].term \in last_term .. (term[n] - 1)
    /\ \A i \in 1 .. (j - 1) : appended[i].term # appended[j].term

\* The entry is the one that the loop of n replicates.
IsOwn(n, e) ==
    /\ Works(n, "Write", "replicate")
    /\ busy[n].client = e.client /\ busy[n].op = e.op /\ busy[n].try = e.try

\* A majority has taken the entries of n up to the next one that gets committed.  An
\* election that is under way is lost: the candidate has not got the entry.
Commit(n, Q) ==
    /\ state[n] = "Leader" /\ (busy[n] = NoCommand \/ Works(n, "Write", "replicate"))
    /\ \A q \in Q : Accepts(q, n)
    /\ Follow(Q \cup {q \in Node : state[q] = "Candidate"}, Q, n)
    /\ \/ /\ n \notin settled
          /\ settled' = (settled \ Q) \cup {n}
          /\ last_term' = term[n]
          /\ UNCHANGED <<log, appended, busy>>
       \/ \E j \in DOMAIN appended :
             /\ CanCommit(n, j)
             /\ log' = Append(log, LogEntry(appended[j]))
             /\ last_term' = appended[j].term
             /\ appended' = RemoveAt(appended, j)
             /\ busy' = IF IsOwn(n, appended[j]) THEN [busy EXCEPT ![n].index = Len(log')]
                        ELSE busy
             /\ settled' = settled \ (Q \ {n})
    /\ known' = [known EXCEPT ![n] = Len(log')]
    /\ UNCHANGED <<dockerVars, queue, gets, client, history, clock>>

\* handle_submit returns: the entry is committed, or it is not known to be.
FinishSubmit(n) ==
    /\ Works(n, "Write", "replicate")
    /\ \/ /\ busy[n].index # 0
          /\ Answer(n, busy[n], "Ok", None)
          /\ UNCHANGED faults
       \/ /\ busy[n].index = 0
          /\ Late(state[n] = "Leader" /\ HasQuorum(n))
          /\ Answer(n, busy[n], "NotCommitted", None)
    /\ busy' = [busy EXCEPT ![n] = NoCommand]
    /\ UNCHANGED <<networkVars, clusterVars, queue, gets>>

\* confirm_leadership hears from p.
ConfirmedBy(n, p) ==
    /\ Works(n, "Read", "confirm") /\ state[n] = "Leader"
    /\ p \in Reached(n) \ busy[n].acks /\ Accepts(p, n)
    /\ busy' = [busy EXCEPT ![n].acks = @ \cup {p}]
    /\ Follow({p}, {p}, n)
    /\ settled' = settled \ {p}
    /\ UNCHANGED <<dockerVars, known, logVars, queue, gets, client, history,
                   clock>>

\* Mutant: peers that have not answered count.
IsConfirmedUnheard(n) == state[n] = "Leader"

\* handle_read_index after confirm_leadership; what is committed is applied.
IsConfirmed(n) == state[n] = "Leader" /\ Cardinality(busy[n].acks) >= Majority

\* It returns a read index to handle_kv_get, which is about to read the store ...
FinishReadIndex(n) ==
    /\ Works(n, "Read", "confirm") /\ IsConfirmed(n)
    /\ gets' = gets \cup {[client |-> busy[n].client, op |-> busy[n].op, node |-> n,
                           index |-> busy[n].index]}
    /\ busy' = [busy EXCEPT ![n] = NoCommand]
    /\ UNCHANGED <<dockerVars, clusterVars, queue, client, history, clock>>

\* ... or an error.
RefuseRead(n) ==
    /\ Works(n, "Read", "confirm")
    /\ \/ /\ state[n] # "Leader"
          /\ Answer(n, busy[n], "NotLeader", None)
          /\ UNCHANGED faults
       \/ /\ state[n] = "Leader" /\ ~IsConfirmed(n)
          /\ Late(HasQuorum(n))
          /\ Answer(n, busy[n], "ReadTimeout", None)
    /\ busy' = [busy EXCEPT ![n] = NoCommand]
    /\ UNCHANGED <<networkVars, clusterVars, queue, gets>>

\* handle_kv_get reads the store of its server, which has applied the read index
\* and may by now have applied more.
KvGet(g) ==
    /\ \E k \in g.index .. Len(log) : Answer(g.node, g, "Ok", Get(StoreAt(k), Key, None))
    /\ gets' = gets \ {g}
    /\ UNCHANGED <<dockerVars, clusterVars, queue, busy>>

\* start_election.
Stand(n) ==
    /\ Late(TRUE) /\ term[n] < MaxTerm
    /\ n \in running /\ state[n] # "Leader" /\ busy[n] = NoCommand
    /\ term' = [term EXCEPT ![n] = @ + 1]
    /\ state' = [state EXCEPT ![n] = "Candidate"]
    /\ UNCHANGED <<networkVars, settled, known, logVars, queue, busy, gets, client, history,
                   clock>>

\* The servers of Q, all of them in earlier terms, vote for n.
Elect(n, Q) ==
    /\ state[n] = "Candidate"
    /\ \A q \in Q \ {n} : term[q] < term[n]
    /\ term' = [q \in Node |-> IF q \in Q THEN term[n] ELSE term[q]]
    /\ state' = [q \in Node |-> IF q = n THEN "Leader" ELSE IF q \in Q THEN "Follower" ELSE state[q]]
    /\ settled' = settled \ Q
    /\ UNCHANGED <<dockerVars, known, logVars, queue, busy, gets, client,
                   history, clock>>

\* p hears of the later term of n, which calls it or answers its call.
Hear(p, n) ==
    /\ term[n] > term[p] /\ CanSend(n, p)
    /\ \/ state[n] # "Follower"
       \/ state[p] # "Follower" /\ CanSend(p, n)
    /\ term' = [term EXCEPT ![p] = term[n]]
    /\ state' = [state EXCEPT ![p] = "Follower"]
    /\ settled' = settled \ {p}
    /\ UNCHANGED <<dockerVars, known, logVars, queue, busy, gets, client,
                   history, clock>>

(***************************************************************************)
(* Faults.                                                                 *)
(***************************************************************************)

\* The process of a killed container is gone with its channel and its requests; its
\* term is on its disk.
Kill(n) ==
    /\ KillNode(n)
    /\ queue' = [queue EXCEPT ![n] = <<>>]
    /\ busy' = [busy EXCEPT ![n] = NoCommand]
    /\ gets' = {g \in gets : g.node # n}
    /\ state' = [state EXCEPT ![n] = "Follower"]
    /\ settled' = settled \ {n}
    /\ UNCHANGED <<term, known, logVars, client, history, clock>>

NetworkFault ==
    /\ \/ \E n \in Faulty : StartNode(n) \/ IsolateNode(n) \/ RejoinNode(n)
       \/ \E a \in Faulty, b \in Node, action \in {"-A", "-D"} :
             a # b /\ (PartitionOneWay(a, b, action) \/ Partition(a, b, action))
    /\ UNCHANGED <<serverVars, client, history, clock>>

\* run_test waits for every client, then checks the history.
Finished == \A c \in Client : client[c].at = "rest" /\ client[c].op = Len(Workload[c])

\* A panic of a fault's call ends the test, and the end of the test stops the
\* cluster.
TestRuns == ~Finished /\ ~aborted

ClientStep(c) == Reach(c) \/ Refused(c) \/ Broken(c) \/ TimeOut(c)

ServerStep(n) ==
    \/ Refuse(n) \/ TakeSubmit(n) \/ TakeRead(n)
    \/ Replicate(n) \/ FinishSubmit(n) \/ FinishReadIndex(n) \/ RefuseRead(n)
    \/ Stand(n)
    \/ \E p \in Node : ConfirmedBy(n, p) \/ Hear(n, p)
    \/ \E Q \in Quorums(n) : Commit(n, Q) \/ Elect(n, Q)

Next ==
    \/ \E c \in Client : (\E kind \in {"Read", "Write"} : Invoke(c, kind)) \/ ClientStep(c)
    \/ \E n \in Node : ServerStep(n)
    \/ \E g \in gets : KvGet(g)
    \/ \E n \in Faulty : Kill(n)
    \/ NetworkFault

Spec == Init /\ [][Next]_vars

(***************************************************************************)
(* The windows of RaftCluster that lie in these steps.                     *)
(***************************************************************************)

\* No leader is deposed between append_log_entry and replicate_to_peers.
SubmitsAsLeader == \A n \in Node : Works(n, "Write", "append") => state[n] = "Leader"

\* A leader that serves a read has committed an entry of its own term.
ReadsSettled ==
    \A n \in Node : Works(n, "Read", "confirm") /\ state[n] = "Leader" => n \in settled

GuardedNext == Next /\ SubmitsAsLeader' /\ ReadsSettled'

GuardedSpec == Init /\ [][GuardedNext]_vars

(***************************************************************************)
(* Properties.                                                             *)
(***************************************************************************)

\* Every write is committed at most once.
WrittenOnce ==
    \A j, k \in DOMAIN log :
        log[j].client = log[k].client /\ log[j].op = log[k].op => j = k

\* Whichever servers are killed, cut off, deposed and elected, and however requests
\* are lost, repeated and answered late, what clients observe of a key is
\* linearizable, unless a client's retry made the cluster commit its write twice: no
\* server that has been deposed without hearing of it answers a read.
HistoryIsLinearizable == Finished /\ WrittenOnce => IsLinearizable(history)

\* The search with its cut-offs and its fast checks decides linearizability: it
\* accepts a history of a test if and only if some order explains it.
CheckerIsExact == Finished => (Check(history) <=> IsLinearizable(history))

\* What the handler writes into a command is what the state machine reads out of
\* it: a committed write sets the workload's key to its value and touches nothing
\* else.
SetsItsKey ==
    \A k \in DOMAIN log :
        StoreAt(k) = Insert(StoreAt(k - 1), Key, ValueOf(log[k].client, log[k].op))

\* A test passes: what the runner asserts of its history at the end.
TestPasses == Finished => Check(history)
=============================================================================
