---------------------------- MODULE CheckerTests ----------------------------
(***************************************************************************)
(* The unit tests of chaos-test/src/checker.rs and src/state_machine/kv.rs *)
(* run on Checker and KvStore, as CoreTests does for raft_core.rs.  Every  *)
(* history of the checker's tests is also held against the definition of   *)
(* linearizability.                                                        *)
(***************************************************************************)
EXTENDS Naturals, Sequences

None == "none"
Histories == INSTANCE Checker
Kv == INSTANCE KvStore

Op(id, key, kind, value, invoke, complete, result) ==
    [id |-> id, key |-> key, kind |-> kind, value |-> value, invoke |-> invoke,
     complete |-> complete, result |-> result]
write_op_key(id, key, value, invoke, complete) ==
    Op(id, key, "Write", value, invoke, complete, "Ok")
read_op_key(id, key, value, invoke, complete) ==
    Op(id, key, "Read", value, invoke, complete, "Ok")
write_op(id, value, invoke, complete) == write_op_key(id, "x", value, invoke, complete)
read_op(id, value, invoke, complete) == read_op_key(id, "x", value, invoke, complete)
error_write_op(id, value, invoke, complete) ==
    Op(id, "x", "Write", value, invoke, complete, "Error")

\* The verdict is the one the test asserts, and the right one.
Accepts(history) == Histories!Check(history) /\ Histories!IsLinearizable(history)
Refuses(history) == ~Histories!Check(history) /\ ~Histories!IsLinearizable(history)

test_empty_history == Accepts({})

test_sequential_ops_linearizable ==
    Accepts({write_op(1, "a", 0, 100), read_op(2, "a", 200, 300)})

test_concurrent_ops_valid_linearization ==
    Accepts({write_op(1, "a", 0, 200), read_op(2, "a", 100, 300)})

test_read_initial_state == Accepts({read_op(1, None, 0, 100)})

test_stale_read_not_linearizable ==
    Refuses({write_op(1, "a", 0, 100), read_op(2, None, 200, 300)})

test_multiple_writes_overwrite ==
    Accepts({write_op(1, "a", 0, 100), write_op(2, "b", 200, 300), read_op(3, "b", 400, 500)})

test_concurrent_writes_both_orders_possible ==
    Accepts({write_op(1, "a", 0, 200), write_op(2, "b", 100, 300), read_op(3, "b", 400, 500)})

test_concurrent_writes_read_sees_first ==
    Accepts({write_op(1, "a", 0, 200), write_op(2, "b", 100, 300), read_op(3, "a", 400, 500)})

test_impossible_read_value ==
    Refuses({write_op(1, "a", 0, 100), write_op(2, "b", 200, 300), read_op(3, "c", 400, 500)})

test_concurrent_read_during_write ==
    Accepts({write_op(1, "a", 0, 300), read_op(2, None, 100, 200)})

test_concurrent_read_during_write_sees_new ==
    Accepts({write_op(1, "a", 0, 300), read_op(2, "a", 100, 200)})

test_complex_concurrent_scenario ==
    Accepts({write_op(1, "a", 0, 200), write_op(2, "b", 100, 300),
             read_op(3, "a", 150, 250), read_op(4, "b", 350, 450)})

test_read_between_writes_inconsistent ==
    Refuses({write_op(1, "a", 0, 100), read_op(2, "b", 200, 300), write_op(3, "b", 400, 500)})

test_error_operations_filtered ==
    Accepts({write_op(1, "a", 0, 100), Op(2, "x", "Read", None, 200, 300, "Error"),
             read_op(3, "a", 400, 500)})

test_many_concurrent_writes_same_key ==
    LET v == <<"v0", "v1", "v2", "v3", "v4">>
    IN  Accepts({write_op(k, v[k + 1], 0, 100) : k \in 0 .. 4} \cup {read_op(5, "v3", 200, 300)})

test_multiple_keys_independent ==
    Accepts({write_op_key(1, "a", "val1", 0, 100), read_op_key(2, "a", "val1", 200, 300),
             write_op_key(3, "b", "val2", 50, 150), read_op_key(4, "b", "val2", 250, 350)})

test_multiple_keys_one_fails ==
    Refuses({write_op_key(1, "a", "val1", 0, 100), read_op_key(2, "a", "val1", 200, 300),
             write_op_key(3, "b", "val2", 50, 150),
             read_op_key(4, "b", "never_written", 250, 350)})

test_multiple_keys_concurrent ==
    Accepts({write_op_key(1, "x", "a", 0, 200), write_op_key(2, "y", "b", 50, 250),
             read_op_key(3, "x", "a", 100, 300), read_op_key(4, "y", "b", 150, 350)})

test_multiple_keys_stale_read_on_one ==
    Refuses({write_op_key(1, "a", "val1", 0, 100), read_op_key(2, "a", "val1", 200, 300),
             write_op_key(3, "b", "val2", 0, 100), read_op_key(4, "b", None, 200, 300)})

test_three_keys_all_valid ==
    Accepts({write_op_key(1, "k1", "v1", 0, 100), read_op_key(2, "k1", "v1", 200, 300),
             write_op_key(3, "k2", "v2", 0, 100), write_op_key(4, "k2", "v3", 200, 300),
             read_op_key(5, "k2", "v3", 400, 500), read_op_key(6, "k3", None, 0, 100),
             write_op_key(7, "k3", "v4", 200, 300), read_op_key(8, "k3", "v4", 400, 500)})

test_indeterminate_write_value_read_later ==
    Accepts({error_write_op(1, "a", 0, 100), read_op(2, "a", 200, 300)})

test_indeterminate_write_not_read ==
    Accepts({error_write_op(1, "a", 0, 100), read_op(2, None, 200, 300)})

test_indeterminate_write_then_confirmed_write ==
    Accepts({error_write_op(1, "a", 0, 100), write_op(2, "b", 200, 300), read_op(3, "b", 400, 500)})

test_indeterminate_write_overrides_confirmed ==
    Accepts({write_op(1, "a", 0, 100), error_write_op(2, "b", 200, 300), read_op(3, "b", 400, 500)})

test_indeterminate_write_does_not_excuse_impossible_read ==
    Refuses({write_op(1, "a", 0, 100), error_write_op(2, "b", 200, 300), read_op(3, "c", 400, 500)})

test_multiple_indeterminate_writes ==
    Accepts({error_write_op(1, "a", 0, 100), error_write_op(2, "b", 50, 150),
             read_op(3, "b", 200, 300)})

ASSUME HistoryTests ==
    /\ test_empty_history /\ test_sequential_ops_linearizable
    /\ test_concurrent_ops_valid_linearization /\ test_read_initial_state
    /\ test_stale_read_not_linearizable /\ test_multiple_writes_overwrite
    /\ test_concurrent_writes_both_orders_possible
    /\ test_concurrent_writes_read_sees_first /\ test_impossible_read_value
    /\ test_concurrent_read_during_write /\ test_concurrent_read_during_write_sees_new
    /\ test_complex_concurrent_scenario /\ test_read_between_writes_inconsistent
    /\ test_error_operations_filtered /\ test_many_concurrent_writes_same_key
    /\ test_multiple_keys_independent /\ test_multiple_keys_one_fails
    /\ test_multiple_keys_concurrent /\ test_multiple_keys_stale_read_on_one
    /\ test_three_keys_all_valid /\ test_indeterminate_write_value_read_later
    /\ test_indeterminate_write_not_read /\ test_indeterminate_write_then_confirmed_write
    /\ test_indeterminate_write_overrides_confirmed
    /\ test_indeterminate_write_does_not_excuse_impossible_read
    /\ test_multiple_indeterminate_writes

(***************************************************************************)
(* The key-value store.                                                    *)
(***************************************************************************)

\* The store after SET key value for each of these pairs.
StoreOf(pairs) ==
    LET after[k \in 0 .. Len(pairs)] ==
            IF k = 0 THEN Kv!EmptyStore
            ELSE Kv!Apply(after[k - 1], Kv!SetCommand(<<pairs[k][1]>>, pairs[k][2])).store
    IN  after[Len(pairs)]
Lookup(store, key) == Kv!Get(store, <<key>>, <<>>)
Missing == <<>>

test_set_and_get ==
    LET r == Kv!Apply(Kv!EmptyStore, <<"SET", "foo", "bar">>)
    IN  ~r.err /\ Lookup(r.store, "foo") = <<"bar">>

test_get_not_found == Lookup(Kv!EmptyStore, "nonexistent") = Missing

test_delete ==
    LET r == Kv!Apply(StoreOf(<<<<"foo", <<"bar">>>>>>), <<"DELETE", "foo">>)
    IN  ~r.err /\ Lookup(r.store, "foo") = Missing

test_delete_not_found == Kv!Apply(Kv!EmptyStore, <<"DELETE", "nonexistent">>).err

test_overwrite ==
    Lookup(StoreOf(<<<<"key", <<"value1">>>>, <<"key", <<"value2">>>>>>), "key") = <<"value2">>

test_value_with_spaces ==
    Lookup(StoreOf(<<<<"greeting", <<"hello", "world">>>>>>), "greeting") = <<"hello", "world">>

test_unknown_command == Kv!Apply(Kv!EmptyStore, <<"INVALID", "command">>).err

test_snapshot_and_restore ==
    LET store == StoreOf(<<<<"key1", <<"value1">>>>, <<"key2", <<"value2">>>>, <<"key3", <<"value3">>>>>>)
        restored == Kv!Restore(Kv!Snapshot(store))
    IN  /\ Lookup(restored, "key1") = <<"value1">> /\ Lookup(restored, "key2") = <<"value2">>
        /\ Lookup(restored, "key3") = <<"value3">>

test_snapshot_empty_store == Kv!Restore(Kv!Snapshot(Kv!EmptyStore)) = Kv!EmptyStore

test_restore_overwrites_existing_data ==
    LET restored == Kv!Restore(Kv!Snapshot(StoreOf(<<<<"original", <<"data">>>>>>)))
    IN  /\ Lookup(restored, "original") = <<"data">>
        /\ Lookup(restored, "existing") = Missing /\ Lookup(restored, "other") = Missing

test_validate_set_command ==
    /\ Kv!Validate(<<"SET", "foo", "bar">>)
    /\ Kv!Validate(<<"SET", "key", "value", "with", "spaces">>)

test_validate_delete_command == Kv!Validate(<<"DELETE", "foo">>)
test_validate_noop_command == Kv!Validate(Kv!NoopCommand)

test_validate_invalid_command ==
    ~Kv!Validate(<<"INVALID", "foo">>) /\ ~Kv!Validate(<<"SET", "foo">>) /\ ~Kv!Validate(<<"">>)

ASSUME KeyValueTests ==
    /\ test_set_and_get /\ test_get_not_found /\ test_delete /\ test_delete_not_found
    /\ test_overwrite /\ test_value_with_spaces /\ test_unknown_command
    /\ test_snapshot_and_restore /\ test_snapshot_empty_store
    /\ test_restore_overwrites_existing_data /\ test_validate_set_command
    /\ test_validate_delete_command /\ test_validate_noop_command
    /\ test_validate_invalid_command
=============================================================================
