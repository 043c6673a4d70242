------------------------------- MODULE KvStore -------------------------------
(***************************************************************************)
(* The key-value state machine (src/state_machine/kv.rs) and the commands  *)
(* that the HTTP handlers write for it (src/api/client_http.rs).           *)
(*                                                                         *)
(* A text is the sequence of its words, the parts between single spaces;   *)
(* a handler joins texts with a space and the state machine splits them    *)
(* again.  The no-op is the text of one word NOOP.                         *)
(***************************************************************************)
EXTENDS Naturals, Sequences

\* Mutant: the arguments of format! are swapped.
SetCommandSwapped(key, value) == <<"SET">> \o value \o key

\* format!("SET {} {}") and format!("DELETE {}").
SetCommand(key, value) == <<"SET">> \o key \o value
DeleteCommand(key) == <<"DELETE">> \o key
NoopCommand == <<"NOOP">>

\* splitn(3, ' '): the third part is all the rest.
SplitN(words) ==
    IF Len(words) <= 3
    THEN [k \in DOMAIN words |-> <<words[k]>>]
    ELSE <<<<words[1]>>, <<words[2]>>, SubSeq(words, 3, Len(words))>>

IsSet(parts) == Len(parts) = 3 /\ parts[1] = <<"SET">>
IsDelete(parts) == Len(parts) = 2 /\ parts[1] = <<"DELETE">>

\* KeyValueStore::validate, on the leader, before a command is appended.
Validate(command) ==
    \/ command = NoopCommand
    \/ IsSet(SplitN(command))
    \/ IsDelete(SplitN(command))

EmptyStore == <<>>

Get(store, key, none) == IF key \in DOMAIN store THEN store[key] ELSE none

Insert(store, key, value) ==
    [k \in DOMAIN store \cup {key} |-> IF k = key THEN value ELSE store[k]]

Without(store, key) == [k \in DOMAIN store \ {key} |-> store[k]]

\* KeyValueStore::apply: the new store, and whether the result is an Err.
Apply(store, command) ==
    LET parts == SplitN(command)
    IN  IF command = NoopCommand THEN [store |-> store, err |-> FALSE]
        ELSE IF IsSet(parts)
        THEN [store |-> Insert(store, parts[2], parts[3]), err |-> FALSE]
        ELSE IF IsDelete(parts)
        THEN [store |-> Without(store, parts[2]), err |-> parts[2] \notin DOMAIN store]
        ELSE [store |-> store, err |-> TRUE]

\* snapshot and restore: the data is the whole map.
Snapshot(store) == store
Restore(data) == data

\* The status a handler answers for a result of submit or read_index.
Status(result) ==
    CASE result = "Ok" -> 200
      [] result \in {"NotLeader", "NotCommitted", "ReadTimeout"} -> 503
      [] result \in {"InvalidCommand", "StateMachine"} -> 400
      [] result = "Transport" -> 500
=============================================================================
