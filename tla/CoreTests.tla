------------------------------ MODULE CoreTests ------------------------------
(***************************************************************************)
(* The unit tests of src/core/raft_core.rs, run on RaftCore: each Rust test *)
(* is the definition of its name, TRUE when the operators return what the  *)
(* test asserts of the methods.  TLC evaluates them all before a run of a  *)
(* module that extends this one, so that RaftCore cannot drift from what   *)
(* the repository expects of raft_core.rs.                                 *)
(*                                                                         *)
(* As in the tests, node ids are 1 .. size and fields are set by hand.     *)
(* What tests say of last_heartbeat, of error texts and of the entries of  *)
(* the KeyValueStore is left out: here the state machine is the sequence   *)
(* of commands it was given.                                               *)
(***************************************************************************)
EXTENDS RaftCore

Seqs == INSTANCE SequencesExt
Cluster(size, threshold) ==
    INSTANCE RaftCore WITH Server <- 1 .. size, SnapshotThreshold <- threshold
Three == INSTANCE RaftCore WITH Server <- 1 .. 3, SnapshotThreshold <- 1000

\* new_test_core(id, peers) in a cluster of the given size.
NewIn(size, id) == Cluster(size, 1000)!New(id, 0, Nil, <<>>, NoSnapshot)
Node(id) == NewIn(3, id)

\* An entry, the entries k .. with these terms, and a node that has such a log
\* in memory (the tests push entries there).
At(term, index, command) == [term |-> term, index |-> index, command |-> command]
From(k, terms) ==
    [m \in DOMAIN terms |-> At(terms[m], k + m - 1, <<"CMD", k + m - 1>>)]
Times(k, term) == [m \in 1 .. k |-> term]
Holding(n, terms) == [n EXCEPT !.log = From(1, terms)]
InTerm(n, term) == [n EXCEPT !.current_term = term]
Leading(n, term) == [n EXCEPT !.current_term = term, !.state = "Leader"]

\* become_leader, and count appends of a leader.
Led(n, id) == Three!BecomeLeader(n, id)
Submitted(n, count) ==
    Seqs!FoldLeft(LAMBDA m, k : AppendOwnEntry(m, <<"SET", k>>), n, [k \in 1 .. count |-> k])
Committed(n, index) ==
    Three!ApplyCommittedEntries([n EXCEPT !.commit_index = index]).core

\* Requests and replies.
VoteRequest(term, candidate, index, last_term) ==
    [term |-> term, candidate_id |-> candidate, last_log_index |-> index,
     last_log_term |-> last_term]
AppendRequest(term, index, prev_term, entries, commit) ==
    [term |-> term, leader_id |-> 2, prev_log_index |-> index, prev_log_term |-> prev_term,
     entries |-> entries, leader_commit |-> commit]
SnapshotRequest(term, index, last_term, data) ==
    [term |-> term, leader_id |-> 1, last_included_index |-> index,
     last_included_term |-> last_term, data |-> data]
Vote(term, granted) == [term |-> term, vote_granted |-> granted]
Appended(term, success) ==
    [term |-> term, success |-> success, conflict_term |-> Nil, conflict_index |-> Nil]

(***************************************************************************)
(* Nodes, votes and terms.                                                 *)
(***************************************************************************)

test_new_node ==
    /\ Node(1).current_term = 0 /\ Node(1).state = "Follower" /\ Node(1).log = <<>>

test_election ==
    LET n == StartElection(Node(1), 1)
    IN  n.state = "Candidate" /\ n.current_term = 1 /\ n.voted_for = 1

test_request_vote ==
    LET r == HandleRequestVote(Node(1), VoteRequest(1, 2, 0, 0))
    IN  r.resp.vote_granted /\ r.core.voted_for = 2

test_vote_denied_candidate_has_lower_term ==
    LET r == HandleRequestVote(InTerm(Node(1), 5), VoteRequest(3, 2, 0, 0))
    IN  ~r.resp.vote_granted /\ r.resp.term = 5 /\ r.core.voted_for = Nil

test_vote_denied_already_voted_for_another ==
    LET n == [InTerm(Node(1), 1) EXCEPT !.voted_for = 2]
        r == HandleRequestVote(n, VoteRequest(1, 3, 0, 0))
    IN  ~r.resp.vote_granted /\ r.core.voted_for = 2

test_vote_granted_to_same_candidate_again ==
    LET n == [InTerm(Node(1), 1) EXCEPT !.voted_for = 2]
        r == HandleRequestVote(n, VoteRequest(1, 2, 0, 0))
    IN  r.resp.vote_granted /\ r.core.voted_for = 2

test_vote_denied_candidate_log_has_older_term ==
    LET r == HandleRequestVote(Holding(Node(1), <<3>>), VoteRequest(4, 2, 1, 2))
    IN  ~r.resp.vote_granted /\ r.core.current_term = 4

test_vote_denied_candidate_log_is_shorter ==
    ~HandleRequestVote(Holding(Node(1), <<2, 2>>), VoteRequest(3, 2, 1, 2)).resp.vote_granted

test_vote_granted_candidate_log_has_higher_term ==
    LET r == HandleRequestVote(Holding(Node(1), <<2>>), VoteRequest(4, 2, 1, 3))
    IN  r.resp.vote_granted /\ r.core.voted_for = 2

test_leader_steps_down_on_higher_term_in_vote_response ==
    LET n == ObserveTerm(Leading(Node(1), 1), Vote(5, FALSE).term)
    IN  n.state = "Follower" /\ n.current_term = 5 /\ n.voted_for = Nil

test_leader_steps_down_on_higher_term_in_append_response ==
    LET n == ObserveTerm(Leading(Node(1), 1), Appended(5, FALSE).term)
    IN  n.state = "Follower" /\ n.current_term = 5 /\ n.voted_for = Nil

test_candidate_steps_down_on_append_entries_from_new_leader ==
    LET r == Three!HandleAppendEntries(StartElection(Node(1), 1), AppendRequest(1, 0, 0, <<>>, 0))
    IN  r.resp.success /\ r.core.state = "Follower"

test_candidate_steps_down_on_higher_term_request_vote ==
    LET r == HandleRequestVote(StartElection(Node(1), 1), VoteRequest(5, 2, 0, 0))
    IN  /\ r.resp.vote_granted /\ r.core.state = "Follower"
        /\ r.core.current_term = 5 /\ r.core.voted_for = 2

test_follower_updates_term_on_higher_term_request_vote ==
    LET r == HandleRequestVote(InTerm(Node(1), 1), VoteRequest(5, 2, 0, 0))
    IN  r.resp.vote_granted /\ r.core.current_term = 5 /\ r.core.voted_for = 2

test_follower_updates_term_on_higher_term_append_entries ==
    LET r == Three!HandleAppendEntries(InTerm(Node(1), 1), AppendRequest(5, 0, 0, <<>>, 0))
    IN  r.resp.success /\ r.core.current_term = 5 /\ r.core.voted_for = Nil

test_vote_request_resets_voted_for_on_new_term ==
    LET n == [InTerm(Node(1), 1) EXCEPT !.voted_for = 2]
        r == HandleRequestVote(n, VoteRequest(5, 3, 0, 0))
    IN  r.resp.vote_granted /\ r.core.voted_for = 3 /\ r.core.current_term = 5

test_multiple_elections_term_increases ==
    LET second == StartElection(StartElection(Node(1), 1), 1)
    IN  /\ second.current_term = 2 /\ second.state = "Candidate" /\ second.voted_for = 1
        /\ StartElection(second, 1).current_term = 3

\* Node 1 of size nodes starts an election and gets replies, a sequence of
\* <<peer, reply>>: what each handle_request_vote_result returns.
Poll(size, n, replies) ==
    LET after[k \in 0 .. Len(replies)] ==
            IF k = 0 THEN [core |-> StartElection(n, 1), elected |-> FALSE]
            ELSE Cluster(size, 1000)!HandleRequestVoteResult(
                     after[k - 1].core, 1, replies[k][1], replies[k][2])
    IN  after

test_election_needs_majority_in_5_node_cluster ==
    LET poll == Poll(5, NewIn(5, 1), <<<<2, Vote(1, TRUE)>>, <<3, Vote(1, FALSE)>>, <<4, Vote(1, TRUE)>>>>)
    IN  /\ \A k \in 1 .. 2 : ~poll[k].elected /\ poll[k].core.state = "Candidate"
        /\ poll[3].elected /\ poll[3].core.state = "Leader"

test_election_lost_all_denied ==
    LET poll == Poll(3, Node(1), <<<<2, Vote(1, FALSE)>>, <<3, Vote(1, FALSE)>>>>)
    IN  ~poll[1].elected /\ ~poll[2].elected /\ poll[2].core.state = "Candidate"

test_duplicate_vote_from_same_peer_ignored ==
    LET poll == Poll(5, NewIn(5, 1), <<<<2, Vote(1, TRUE)>>, <<2, Vote(1, TRUE)>>, <<3, Vote(1, TRUE)>>>>)
    IN  ~poll[1].elected /\ ~poll[2].elected /\ poll[3].elected

test_candidate_resets_votes_on_new_election ==
    LET first == Poll(5, NewIn(5, 1), <<<<2, Vote(1, TRUE)>>>>)[1].core
        poll == Poll(5, first, <<<<3, Vote(2, TRUE)>>, <<4, Vote(2, TRUE)>>>>)
    IN  ~poll[1].elected /\ poll[2].elected

test_single_node_cluster_immediate_leader ==
    LET n == StartElection(NewIn(1, 1), 1)
    IN  /\ Cluster(1, 1000)!Majority = 1 /\ Cardinality(n.votes_received) >= 1
        /\ Cluster(1, 1000)!BecomeLeader(n, 1).state = "Leader"

test_two_node_cluster_needs_both_votes ==
    LET poll == Poll(2, NewIn(2, 1), <<<<2, Vote(1, FALSE)>>>>)
    IN  ~poll[1].elected /\ poll[1].core.state = "Candidate"

test_two_node_cluster_becomes_leader_with_peer_vote ==
    LET poll == Poll(2, NewIn(2, 1), <<<<2, Vote(1, TRUE)>>>>)
    IN  poll[1].elected /\ poll[1].core.state = "Leader"

test_four_node_cluster_majority ==
    LET poll == Poll(4, NewIn(4, 1), <<<<2, Vote(1, TRUE)>>, <<3, Vote(1, TRUE)>>>>)
    IN  ~poll[1].elected /\ poll[2].elected /\ poll[2].core.state = "Leader"

test_ignore_stale_vote_response_from_old_term ==
    LET n == [StartElection(Node(1), 1) EXCEPT
                  !.current_term = 3, !.state = "Follower", !.voted_for = Nil]
        r == Three!HandleRequestVoteResult(n, 1, 2, Vote(1, TRUE))
    IN  ~r.elected /\ r.core.state = "Follower"

ASSUME ElectionTests ==
    /\ test_new_node /\ test_election /\ test_request_vote
    /\ test_vote_denied_candidate_has_lower_term
    /\ test_vote_denied_already_voted_for_another
    /\ test_vote_granted_to_same_candidate_again
    /\ test_vote_denied_candidate_log_has_older_term
    /\ test_vote_denied_candidate_log_is_shorter
    /\ test_vote_granted_candidate_log_has_higher_term
    /\ test_leader_steps_down_on_higher_term_in_vote_response
    /\ test_leader_steps_down_on_higher_term_in_append_response
    /\ test_candidate_steps_down_on_append_entries_from_new_leader
    /\ test_candidate_steps_down_on_higher_term_request_vote
    /\ test_follower_updates_term_on_higher_term_request_vote
    /\ test_follower_updates_term_on_higher_term_append_entries
    /\ test_vote_request_resets_voted_for_on_new_term
    /\ test_multiple_elections_term_increases
    /\ test_election_needs_majority_in_5_node_cluster
    /\ test_election_lost_all_denied
    /\ test_duplicate_vote_from_same_peer_ignored
    /\ test_candidate_resets_votes_on_new_election
    /\ test_single_node_cluster_immediate_leader
    /\ test_two_node_cluster_needs_both_votes
    /\ test_two_node_cluster_becomes_leader_with_peer_vote
    /\ test_four_node_cluster_majority
    /\ test_ignore_stale_vote_response_from_old_term

(***************************************************************************)
(* AppendEntries on a follower.                                            *)
(***************************************************************************)

test_append_entries ==
    LET r == Three!HandleAppendEntries(Node(1), AppendRequest(1, 0, 0, From(1, <<1>>), 0))
    IN  /\ r.resp.success /\ r.core.current_leader = 2
        /\ Len(r.core.log) = 1 /\ r.core.state = "Follower"

test_append_entries_stale_term_no_reset ==
    LET r == Three!HandleAppendEntries(InTerm(Node(1), 2), AppendRequest(1, 0, 0, <<>>, 0))
    IN  ~r.resp.success /\ r.core.current_leader = Nil

test_heartbeat_resets_election_timeout ==
    LET r == Three!HandleAppendEntries(Node(1), AppendRequest(1, 0, 0, <<>>, 0))
    IN  r.resp.success /\ r.core.current_leader = 2

test_append_entries_fails_prev_log_index_too_high ==
    LET r == Three!HandleAppendEntries(Node(1), AppendRequest(1, 1, 1, From(2, <<1>>), 0))
    IN  ~r.resp.success /\ r.core.log = <<>>

test_append_entries_fails_prev_log_term_mismatch ==
    LET r == Three!HandleAppendEntries(Holding(Node(1), <<1>>),
                                       AppendRequest(2, 1, 2, From(2, <<2>>), 0))
    IN  ~r.resp.success /\ Len(r.core.log) = 1

test_append_entries_truncates_conflicting_entries ==
    LET r == Three!HandleAppendEntries(Holding(Node(1), <<1, 1>>),
                                       AppendRequest(2, 1, 1, <<At(2, 2, "NEW")>>, 0))
    IN  r.resp.success /\ Len(r.core.log) = 2 /\ r.core.log[2] = At(2, 2, "NEW")

test_append_entries_idempotent ==
    LET req == AppendRequest(1, 0, 0, From(1, <<1>>), 0)
        first == Three!HandleAppendEntries(Node(1), req)
        again == Three!HandleAppendEntries(first.core, req)
    IN  first.resp.success /\ again.resp.success /\ again.core.log = From(1, <<1>>)

test_commit_index_advances_on_append_entries ==
    LET r == Three!HandleAppendEntries(Node(1), AppendRequest(1, 0, 0, From(1, <<1>>), 1))
    IN  r.resp.success /\ r.core.commit_index = 1 /\ r.core.last_applied = 1

test_commit_index_limited_by_log_length ==
    LET r == Three!HandleAppendEntries(Node(1), AppendRequest(1, 0, 0, From(1, <<1>>), 5))
    IN  r.resp.success /\ r.core.commit_index = 1

test_follower_catches_up_multiple_entries ==
    LET r == Three!HandleAppendEntries(Node(1), AppendRequest(1, 0, 0, From(1, <<1, 1, 1>>), 2))
    IN  /\ r.resp.success /\ Len(r.core.log) = 3
        /\ r.core.commit_index = 2 /\ r.core.last_applied = 2

test_follower_catches_up_incrementally ==
    LET first == Three!HandleAppendEntries(Node(1),
                     AppendRequest(1, 0, 0, From(1, <<1, 1>>), 1)).core
        r == Three!HandleAppendEntries(first, AppendRequest(1, 2, 1, From(3, <<1, 1>>), 3))
    IN  /\ Len(first.log) = 2 /\ first.commit_index = 1
        /\ r.resp.success /\ Len(r.core.log) = 4 /\ r.core.commit_index = 3

test_follower_with_extra_uncommitted_entries_gets_truncated ==
    LET r == Three!HandleAppendEntries(InTerm(Holding(Node(1), <<1, 1, 1>>), 1),
                                       AppendRequest(2, 1, 1, <<At(2, 2, "NEW")>>, 0))
    IN  /\ r.resp.success /\ r.core.current_term = 2
        /\ Len(r.core.log) = 2 /\ r.core.log[2] = At(2, 2, "NEW")

test_follower_with_gap_rejects_append ==
    LET r == Three!HandleAppendEntries(Holding(Node(1), <<1>>),
                                       AppendRequest(1, 4, 1, From(5, <<1>>), 0))
    IN  ~r.resp.success /\ Len(r.core.log) = 1

test_empty_append_entries_still_updates_commit_index ==
    LET r == Three!HandleAppendEntries(Holding(Node(1), <<1, 1>>), AppendRequest(1, 2, 1, <<>>, 2))
    IN  r.resp.success /\ r.core.commit_index = 2 /\ r.core.last_applied = 2

test_append_entries_with_entries_already_present ==
    LET r == Three!HandleAppendEntries(Holding(Node(1), <<1, 1, 1>>),
                                       AppendRequest(1, 1, 1, From(2, <<1, 1>>), 0))
    IN  r.resp.success /\ Len(r.core.log) = 3

ASSUME FollowerTests ==
    /\ test_append_entries /\ test_append_entries_stale_term_no_reset
    /\ test_heartbeat_resets_election_timeout
    /\ test_append_entries_fails_prev_log_index_too_high
    /\ test_append_entries_fails_prev_log_term_mismatch
    /\ test_append_entries_truncates_conflicting_entries
    /\ test_append_entries_idempotent
    /\ test_commit_index_advances_on_append_entries
    /\ test_commit_index_limited_by_log_length
    /\ test_follower_catches_up_multiple_entries
    /\ test_follower_catches_up_incrementally
    /\ test_follower_with_extra_uncommitted_entries_gets_truncated
    /\ test_follower_with_gap_rejects_append
    /\ test_empty_append_entries_still_updates_commit_index
    /\ test_append_entries_with_entries_already_present

(***************************************************************************)
(* The leader's bookkeeping.                                               *)
(***************************************************************************)

\* The leader after the reply of a peer to entries up to index.
Told(n, peer, index, resp) == Three!HandleAppendEntriesResult(n, peer, index, resp).core

test_next_index_decrements_on_failed_append ==
    LET n == [Leading(Node(1), 1) EXCEPT !.next_index[2] = 5]
    IN  Told(n, 2, 5, Appended(1, FALSE)).next_index[2] = 4

test_next_index_does_not_go_below_1 ==
    LET n == [Leading(Node(1), 1) EXCEPT !.next_index[2] = 1]
    IN  Told(n, 2, 1, Appended(1, FALSE)).next_index[2] = 1

test_match_index_updates_on_successful_append ==
    LET n == Told(Holding(Leading(Node(1), 1), <<1>>), 2, 1, Appended(1, TRUE))
    IN  n.match_index[2] = 1 /\ n.next_index[2] = 2

test_match_index_does_not_decrease ==
    LET n == [Leading(Node(1), 1) EXCEPT !.match_index[2] = 5]
    IN  Told(n, 2, 3, Appended(1, TRUE)).match_index[2] = 5

test_entry_not_committed_without_majority ==
    LET n == Holding(Leading(NewIn(5, 1), 1), <<1>>)
    IN  Cluster(5, 1000)!HandleAppendEntriesResult(n, 2, 1, Appended(1, TRUE)).core.commit_index = 0

test_entry_committed_with_majority ==
    LET n == Holding(Leading(NewIn(5, 1), 1), <<1>>)
        one == Cluster(5, 1000)!HandleAppendEntriesResult(n, 2, 1, Appended(1, TRUE)).core
        two == Cluster(5, 1000)!HandleAppendEntriesResult(one, 3, 1, Appended(1, TRUE)).core
    IN  one.commit_index = 0 /\ two.commit_index = 1

test_commit_multiple_entries_at_once ==
    LET n == Told(Holding(Leading(Node(1), 1), <<1, 1, 1>>), 2, 3, Appended(1, TRUE))
    IN  n.commit_index = 3 /\ n.last_applied = 3

test_leader_loses_leadership_on_higher_term_response ==
    LET n == Told(Holding(Leading(Node(1), 1), <<1>>), 2, 1, Appended(5, FALSE))
    IN  n.state = "Follower" /\ n.current_term = 5 /\ n.commit_index = 0

test_become_leader_initializes_next_index ==
    LET n == Led(InTerm(Holding(Node(1), <<1, 1>>), 2), 1)
    IN  \A p \in 2 .. 3 : n.next_index[p] = 3 /\ n.match_index[p] = 0

test_leader_cannot_commit_previous_term_entries_directly ==
    LET n == Led(Leading(Holding(Node(1), <<1>>), 2), 1)
    IN  Told(n, 2, 1, Appended(2, TRUE)).commit_index = 0

test_previous_term_entries_committed_indirectly ==
    LET n == Told(Led(Leading(Holding(Node(1), <<1, 2>>), 2), 1), 2, 2, Appended(2, TRUE))
    IN  n.commit_index = 2 /\ n.last_applied = 2

test_stale_append_response_does_not_affect_commit ==
    Told(Holding(Leading(Node(1), 5), <<5>>), 2, 1, Appended(3, TRUE)).match_index[2] = 1

test_leader_appends_multiple_entries_sequentially ==
    LET n == Submitted(Led(Leading(Node(1), 1), 1), 3)
    IN  n.log = <<At(1, 1, Noop), At(1, 2, <<"SET", 1>>), At(1, 3, <<"SET", 2>>), At(1, 4, <<"SET", 3>>)>>

test_leader_entry_has_current_term == Submitted(Leading(Node(1), 7), 1).log[1].term = 7

\* A follower rejects a request; what the leader makes of the hint.
test_conflict_hint_log_too_short ==
    LET r == Three!HandleAppendEntries(InTerm(Holding(Node(1), <<1, 1>>), 1),
                                       AppendRequest(1, 5, 1, <<>>, 0)).resp
        n == [Leading(Node(2), 1) EXCEPT !.next_index[1] = 6]
    IN  /\ ~r.success /\ r.conflict_term = Nil /\ r.conflict_index = 3
        /\ Told(n, 1, 5, r).next_index[1] = 3

test_conflict_hint_term_mismatch ==
    LET r == Three!HandleAppendEntries(InTerm(Holding(Node(1), <<1, 2, 2, 2>>), 3),
                                       AppendRequest(3, 4, 3, <<>>, 0)).resp
        n == [Leading(Holding(Node(2), <<1, 3, 3, 3>>), 3) EXCEPT !.next_index[1] = 5]
    IN  /\ ~r.success /\ r.conflict_term = 2 /\ r.conflict_index = 2
        /\ Told(n, 1, 4, r).next_index[1] = 2

test_conflict_hint_term_mismatch_leader_has_term ==
    LET r == Three!HandleAppendEntries(InTerm(Holding(Node(1), <<1, 2, 2>>), 3),
                                       AppendRequest(3, 3, 3, <<>>, 0)).resp
        n == [Leading(Holding(Node(2), <<1, 2, 3>>), 3) EXCEPT !.next_index[1] = 4]
    IN  /\ ~r.success /\ r.conflict_term = 2 /\ r.conflict_index = 2
        /\ Told(n, 1, 3, r).next_index[1] = 3

test_conflict_hint_empty_log ==
    LET r == Three!HandleAppendEntries(InTerm(Node(1), 1), AppendRequest(1, 100, 1, <<>>, 0)).resp
        n == [Leading(Node(2), 1) EXCEPT !.next_index[1] = 101]
    IN  /\ ~r.success /\ r.conflict_term = Nil /\ r.conflict_index = 1
        /\ Told(n, 1, 100, r).next_index[1] = 1

\* A log that starts at 229 without a snapshot: the first hint already leads to
\* the request that is accepted.
test_conflict_hint_gap_log ==
    LET follower == [InTerm(Node(1), 1) EXCEPT !.log = From(229, <<1, 1>>)]
        r == Three!HandleAppendEntries(follower, AppendRequest(1, 229, 1, <<>>, 0))
        leader == [Leading(Holding(Node(2), Times(250, 1)), 1) EXCEPT !.next_index[1] = 230]
        next == Told(leader, 1, 0, r.resp).next_index[1]
    IN  /\ LastLogIndex(follower) = 230
        /\ ~HasLogEntry(follower, 229) /\ ~HasLogEntry(follower, 230)
        /\ ~r.resp.success /\ r.resp.conflict_index = 1
        /\ next = 1
        /\ Three!HandleAppendEntries(r.core, AppendRequest(1, next - 1, 1, <<>>, 0)).resp.success

test_full_catch_up_after_wipe ==
    LET leader == [Leading(Holding(Node(1), Times(100, 1)), 1) EXCEPT
                       !.commit_index = 100, !.next_index[2] = 101]
        r == Three!HandleAppendEntries(InTerm(Node(2), 1), AppendRequest(1, 100, 1, <<>>, 100))
        back == Told(leader, 2, 0, r.resp)
        done == Three!HandleAppendEntries(r.core, AppendRequest(1, 0, 0, back.log, 100))
    IN  /\ ~r.resp.success /\ r.resp.conflict_index = 1 /\ back.next_index[2] = 1
        /\ done.resp.success /\ done.core.commit_index = 100
        /\ done.core.last_applied = 100 /\ Len(done.core.log) = 100

ASSUME LeaderTests ==
    /\ test_next_index_decrements_on_failed_append
    /\ test_next_index_does_not_go_below_1
    /\ test_match_index_updates_on_successful_append
    /\ test_match_index_does_not_decrease
    /\ test_entry_not_committed_without_majority
    /\ test_entry_committed_with_majority
    /\ test_commit_multiple_entries_at_once
    /\ test_leader_loses_leadership_on_higher_term_response
    /\ test_become_leader_initializes_next_index
    /\ test_leader_cannot_commit_previous_term_entries_directly
    /\ test_previous_term_entries_committed_indirectly
    /\ test_stale_append_response_does_not_affect_commit
    /\ test_leader_appends_multiple_entries_sequentially
    /\ test_leader_entry_has_current_term
    /\ test_conflict_hint_log_too_short
    /\ test_conflict_hint_term_mismatch
    /\ test_conflict_hint_term_mismatch_leader_has_term
    /\ test_conflict_hint_empty_log
    /\ test_conflict_hint_gap_log
    /\ test_full_catch_up_after_wipe

(***************************************************************************)
(* Restarts, applying and snapshots.                                       *)
(***************************************************************************)

\* A node that starts with these files and no snapshot.
Restarted(term, voted_for, terms) == Three!New(1, term, voted_for, From(1, terms), NoSnapshot)

test_node_restarts_with_saved_term ==
    Restarted(5, Nil, <<>>).current_term = 5 /\ Restarted(5, Nil, <<>>).state = "Follower"

test_node_restarts_with_saved_voted_for ==
    Restarted(3, 2, <<>>).current_term = 3 /\ Restarted(3, 2, <<>>).voted_for = 2

test_node_restarts_with_saved_log ==
    LET n == Restarted(2, Nil, <<1, 2>>)
    IN  n.log = From(1, <<1, 2>>) /\ LastLogIndex(n) = 2 /\ LastLogTerm(n) = 2

test_node_restarts_with_full_state ==
    LET n == Restarted(5, 1, <<3, 4, 5>>)
    IN  /\ n.current_term = 5 /\ n.voted_for = 1 /\ Len(n.log) = 3
        /\ n.commit_index = 0 /\ n.last_applied = 0 /\ n.state = "Follower"

test_restarted_node_can_continue_election ==
    LET other == HandleRequestVote(Restarted(3, 2, <<>>), VoteRequest(3, 3, 0, 0))
    IN  /\ ~other.resp.vote_granted
        /\ HandleRequestVote(other.core, VoteRequest(3, 2, 0, 0)).resp.vote_granted

test_restarted_node_accepts_append_entries ==
    LET r == Three!HandleAppendEntries(Restarted(2, Nil, <<1, 2>>),
                                       AppendRequest(2, 2, 2, From(3, <<2>>), 2))
    IN  r.resp.success /\ Len(r.core.log) = 3 /\ r.core.commit_index = 2

\* The maps of a follower are empty: each peer reads as the default.
test_restarted_leader_must_reestablish ==
    LET n == Restarted(5, 1, <<5>>)
    IN  n.state = "Follower" /\ \A p \in 2 .. 3 : n.next_index[p] = 1 /\ n.match_index[p] = 0

test_state_persists_across_operations ==
    LET n == Submitted(Led(StartElection(Node(1), 1), 1), 1)
    IN  /\ n.current_term = 1 /\ n.voted_for = 1
        /\ n.log = <<At(1, 1, Noop), At(1, 2, <<"SET", 1>>)>>

test_apply_committed_entries_updates_last_applied ==
    LET n == Submitted(Led(Node(1), 1), 3)
        two == Committed(n, 2)
    IN  /\ n.last_applied = 0 /\ n.commit_index = 0
        /\ two.last_applied = 2 /\ Committed(two, 3).last_applied = 3

test_apply_committed_entries_does_nothing_when_up_to_date ==
    LET n == Committed(Submitted(Led(Node(1), 1), 1), 1)
    IN  n.last_applied = 1 /\ Committed(n, 1).last_applied = 1

test_entries_applied_to_state_machine ==
    LET n == Submitted(Led(Node(1), 1), 3)
        two == Committed(n, 2)
    IN  /\ n.sm = <<>> /\ two.sm = <<Noop, <<"SET", 1>>>>
        /\ Committed(two, 4).sm = <<Noop, <<"SET", 1>>, <<"SET", 2>>, <<"SET", 3>>>>

test_take_snapshot_basic ==
    LET n == Committed(Submitted(Led(Node(1), 1), 3), 3)
        s == TakeSnapshot(n)
    IN  /\ n.last_applied = 3 /\ Len(n.log) = 4
        /\ s.snapshot_last_index = 3 /\ s.snapshot_last_term = 0
        /\ Len(s.log) = 1 /\ s.log[1].index = 4 /\ LastLogIndex(s) = 4

\* take_snapshot returns an error and changes nothing.
test_take_snapshot_no_entries_applied ==
    LET n == Submitted(Led(Node(1), 1), 1) IN TakeSnapshot(n) = n

test_take_snapshot_already_snapshotted ==
    LET s == TakeSnapshot(Committed(Submitted(Led(Node(1), 1), 1), 2))
    IN  s.snapshot_last_index = 2 /\ TakeSnapshot(s) = s

test_snapshot_restores_state_machine_on_startup ==
    LET snapshot == TakeSnapshot(Committed(Submitted(Led(Node(1), 1), 2), 3)).stored_snapshot
        n == Three!New(2, 0, Nil, <<>>, snapshot)
    IN  /\ n.snapshot_last_index = 3 /\ n.snapshot_last_term = 0
        /\ n.commit_index = 3 /\ n.last_applied = 3
        /\ n.sm = <<Noop, <<"SET", 1>>, <<"SET", 2>>>>

test_apply_entries_after_snapshot_restoration ==
    LET snapshot == TakeSnapshot(Committed(Submitted(Led(Node(1), 1), 1), 2)).stored_snapshot
        n == Three!New(1, 0, Nil, <<>>, snapshot)
        m == Committed(AppendOwnEntry(Leading(n, 0), "NEW"), 3)
    IN  n.last_applied = 2 /\ m.last_applied = 3 /\ m.sm = <<Noop, <<"SET", 1>>, "NEW">>

test_last_log_index_with_snapshot ==
    LET s == TakeSnapshot(Committed(Led(Node(1), 1), 1))
    IN  /\ LastLogIndex(Node(1)) = 0 /\ LastLogTerm(Node(1)) = 0
        /\ s.log = <<>> /\ LastLogIndex(s) = 1 /\ LastLogTerm(s) = 0
        /\ LastLogIndex(Submitted(s, 1)) = 2

test_get_log_entry_with_snapshot ==
    LET s == TakeSnapshot(Committed(Submitted(Led(Node(1), 1), 3), 2))
    IN  /\ \A k \in {1, 2, 5} : ~HasLogEntry(s, k)
        /\ \A k \in {3, 4} : HasLogEntry(s, k) /\ GetLogEntry(s, k).command = <<"SET", k - 1>>

test_handle_install_snapshot_success ==
    LET r == HandleInstallSnapshot(Node(2), SnapshotRequest(5, 10, 4, <<"DATA">>))
    IN  /\ r.resp.success /\ r.resp.term = 5
        /\ r.core.snapshot_last_index = 10 /\ r.core.snapshot_last_term = 4
        /\ r.core.commit_index = 10 /\ r.core.last_applied = 10 /\ r.core.sm = <<"DATA">>

test_handle_install_snapshot_stale_term ==
    LET r == HandleInstallSnapshot(InTerm(Node(2), 10), SnapshotRequest(5, 10, 4, <<>>))
    IN  ~r.resp.success /\ r.resp.term = 10 /\ r.core.snapshot_last_index = 0

test_handle_install_snapshot_old_snapshot ==
    LET n == [Node(2) EXCEPT !.snapshot_last_index = 20, !.snapshot_last_term = 5]
        r == HandleInstallSnapshot(n, SnapshotRequest(5, 10, 4, <<>>))
    IN  ~r.resp.success /\ r.core.snapshot_last_index = 20

test_handle_install_snapshot_discards_old_log_entries ==
    LET n == HandleInstallSnapshot(Submitted(Led(Node(2), 2), 4), SnapshotRequest(1, 3, 0, <<>>)).core
    IN  Len(n.log) = 2 /\ n.log[1].index = 4 /\ n.log[2].index = 5

test_handle_install_snapshot_updates_commit_and_applied ==
    LET n == [Node(2) EXCEPT !.commit_index = 5, !.last_applied = 5]
        m == HandleInstallSnapshot(n, SnapshotRequest(1, 10, 1, <<>>)).core
    IN  m.commit_index = 10 /\ m.last_applied = 10

\* set_snapshot_threshold(threshold), and all up to index committed and applied.
CommittedAt(threshold, n, index) ==
    Cluster(3, threshold)!ApplyCommittedEntries([n EXCEPT !.commit_index = index]).core

test_automatic_snapshot_triggering ==
    LET four == CommittedAt(5, Submitted(Led(StartElection(Node(1), 1), 1), 3), 4)
        five == CommittedAt(5, Submitted(four, 1), 5)
        ten == CommittedAt(5, Submitted(five, 5), 10)
    IN  /\ four.snapshot_last_index = 0 /\ Len(four.log) = 4
        /\ five.snapshot_last_index = 5 /\ five.snapshot_last_term = 1 /\ five.log = <<>>
        /\ ten.snapshot_last_index = 10 /\ ten.log = <<>>

test_automatic_snapshot_disabled_when_threshold_is_zero ==
    LET n == CommittedAt(0, Submitted(Led(StartElection(Node(1), 1), 1), 100), 101)
    IN  n.snapshot_last_index = 0 /\ Len(n.log) = 101

test_automatic_snapshot_on_follower ==
    LET n == CommittedAt(5, Holding(Node(2), Times(10, 1)), 10)
    IN  n.snapshot_last_index = 10 /\ n.snapshot_last_term = 1 /\ n.log = <<>>

test_snapshot_compacts_file_storage ==
    LET n == Committed(Submitted(Led(StartElection(Node(1), 1), 1), 10), 11)
        s == TakeSnapshot(n)
    IN  Len(n.log) = 11 /\ s.log = <<>> /\ s.snapshot_last_index = 11 /\ s.stored_log = <<>>

test_multiple_snapshots_work ==
    LET one == CommittedAt(5, Submitted(Led(StartElection(Node(1), 1), 1), 5), 6)
        two == CommittedAt(5, Submitted(one, 5), 11)
    IN  one.snapshot_last_index > 0 /\ two.snapshot_last_index > one.snapshot_last_index

test_replication_after_compaction ==
    LET leader == Submitted(TakeSnapshot(Committed(
                      Submitted(Led(StartElection(Node(1), 1), 1), 10), 11)), 5)
        snap == leader.snapshot_last_index
        follower == [Node(2) EXCEPT !.snapshot_last_index = snap, !.snapshot_last_term = 1,
                                    !.last_applied = snap, !.commit_index = snap,
                                    !.log = From(snap + 1, <<1, 1, 1>>)]
        req == AppendRequest(1, snap + 3, 1, From(snap + 4, <<1, 1>>), snap + 5)
        once == Three!HandleAppendEntries(follower, req)
        twice == Three!HandleAppendEntries(once.core, req)
    IN  /\ Len(leader.log) = 5
        /\ once.resp.success /\ once.core.log = From(snap + 1, Times(5, 1))
        /\ twice.resp.success /\ twice.core.log = once.core.log

ASSUME PersistenceTests ==
    /\ test_node_restarts_with_saved_term /\ test_node_restarts_with_saved_voted_for
    /\ test_node_restarts_with_saved_log /\ test_node_restarts_with_full_state
    /\ test_restarted_node_can_continue_election
    /\ test_restarted_node_accepts_append_entries
    /\ test_restarted_leader_must_reestablish /\ test_state_persists_across_operations
    /\ test_apply_committed_entries_updates_last_applied
    /\ test_apply_committed_entries_does_nothing_when_up_to_date
    /\ test_entries_applied_to_state_machine

ASSUME SnapshotTests ==
    /\ test_take_snapshot_basic /\ test_take_snapshot_no_entries_applied
    /\ test_take_snapshot_already_snapshotted
    /\ test_snapshot_restores_state_machine_on_startup
    /\ test_apply_entries_after_snapshot_restoration
    /\ test_last_log_index_with_snapshot /\ test_get_log_entry_with_snapshot
    /\ test_handle_install_snapshot_success /\ test_handle_install_snapshot_stale_term
    /\ test_handle_install_snapshot_old_snapshot
    /\ test_handle_install_snapshot_discards_old_log_entries
    /\ test_handle_install_snapshot_updates_commit_and_applied
    /\ test_automatic_snapshot_triggering
    /\ test_automatic_snapshot_disabled_when_threshold_is_zero
    /\ test_automatic_snapshot_on_follower /\ test_snapshot_compacts_file_storage
    /\ test_multiple_snapshots_work /\ test_replication_after_compaction
=============================================================================
