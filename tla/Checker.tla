------------------------------- MODULE Checker -------------------------------
(***************************************************************************)
(* The linearizability checker of the chaos tests                          *)
(* (chaos-test/src/checker.rs) and the histories it looks at               *)
(* (chaos-test/src/history.rs), with the definition it is meant to decide. *)
(*                                                                         *)
(* A history is a set of operations [id, key, kind, value, invoke,         *)
(* complete, result]: kind is "Read" or "Write", result "Ok" or "Error",   *)
(* and value what was written or what the read returned, None for a key    *)
(* that does not exist.                                                    *)
(***************************************************************************)
EXTENDS Naturals, FiniteSets, FiniteSetsExt, SequencesExt

CONSTANT None

IsWrite(op) == op.kind = "Write"
IsRead(op) == op.kind = "Read"

OpsForKey(history, key) == {op \in history : op.key = key}
UniqueKeys(history) == {op.key : op \in history}
SuccessfulOps(history) == {op \in history : op.result # "Error"}
IndeterminateWrites(history) == {op \in history : IsWrite(op) /\ op.result = "Error"}

\* try_apply on the register's value: a write always fits, a read must match it.
Fits(op, register) == IsWrite(op) \/ op.value = register
RegisterAfter(op, register) == IF IsWrite(op) THEN op.value ELSE register

\* What a call of search is given: what is left to place, what the register holds
\* and when the next operation may begin to take effect.
FirstCall(required, optional) ==
    [required |-> required, optional |-> optional, register |-> None, frontier |-> 0]

\* The operations that may come next: invoked before a required one completes.
Candidates(call) ==
    LET min_complete == Min({op.complete : op \in call.required})
    IN  {op \in call.required \cup call.optional :
            /\ op.invoke <= min_complete /\ op.complete >= call.frontier
            /\ Fits(op, call.register)}

\* The call of search that follows once op is placed.
NextCall(call, op) ==
    [required |-> call.required \ {op}, optional |-> call.optional \ {op},
     register |-> RegisterAfter(op, call.register), frontier |-> Max({call.frontier, op.invoke})]

\* The calls that these make in turn, one for each candidate, unless they are done.
NextCalls(calls) ==
    UNION {{NextCall(call, op) : op \in Candidates(call)} :
           call \in {call \in calls : call.required # {}}}

\* The calls at each depth, up to n.
CallsUpTo(n, required, optional) ==
    LET calls[k \in 0 .. n] ==
            IF k = 0 THEN {FirstCall(required, optional)} ELSE NextCalls(calls[k - 1])
    IN  calls

\* search succeeds if it places every required operation in some way; the order
\* in which it tries the candidates does not matter to that.
Search(required, optional) ==
    LET depth == Cardinality(required \cup optional)
    IN  \E k \in 0 .. depth :
            \E call \in CallsUpTo(depth, required, optional)[k] : call.required = {}

\* Every value read was written; no read misses a write confirmed before it began.
ReadsWritten(ops, indeterminate) ==
    \A r \in ops : IsRead(r) =>
        \/ r.value = None
        \/ \E w \in ops \cup indeterminate : IsWrite(w) /\ w.value = r.value

\* Mutant: a write counts from when it was sent.
NoneReadEarlyByInvoke(ops) ==
    \A r, w \in ops : IsRead(r) /\ r.value = None /\ IsWrite(w) => w.invoke >= r.invoke

NoneReadEarly(ops) ==
    \A r, w \in ops : IsRead(r) /\ r.value = None /\ IsWrite(w) => w.complete >= r.invoke

\* An indeterminate write may take effect until the end of the history.
Extended(ops, indeterminate) ==
    LET max_ts == Max({op.complete : op \in ops \cup indeterminate} \cup {0})
    IN  {[op EXCEPT !.complete = max_ts, !.result = "Ok"] : op \in indeterminate}

CheckSingleKey(ops, indeterminate) ==
    /\ ReadsWritten(ops, indeterminate)
    /\ NoneReadEarly(ops)
    /\ Search(ops, Extended(ops, indeterminate))

\* LinearizabilityChecker::check: is_linearizable.
Check(history) ==
    \A key \in UniqueKeys(history) :
        CheckSingleKey(SuccessfulOps(OpsForKey(history, key)),
                       IndeterminateWrites(OpsForKey(history, key)))

(***************************************************************************)
(* The definition.  Some order of the successful operations and of some of *)
(* the indeterminate writes keeps real time (an operation that completed   *)
(* before another began comes first) and makes each read return the last   *)
(* write before it.                                                        *)
(***************************************************************************)

Before(a, b) == a.result # "Error" /\ a.complete < b.invoke

KeepsTime(order) ==
    \A j, k \in DOMAIN order : j < k => ~Before(order[k], order[j])

ReadsLastWrite(order) ==
    \A k \in DOMAIN order : IsRead(order[k]) =>
        LET writes == {j \in 1 .. (k - 1) : IsWrite(order[j])}
        IN  order[k].value = IF writes = {} THEN None ELSE order[Max(writes)].value

IsLinearizable(history) ==
    \A key \in UniqueKeys(history) :
        \E taken \in SUBSET IndeterminateWrites(OpsForKey(history, key)) :
            \E order \in SetToSeqs(SuccessfulOps(OpsForKey(history, key)) \cup taken) :
                KeepsTime(order) /\ ReadsLastWrite(order)
=============================================================================
