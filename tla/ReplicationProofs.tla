-------------------------- MODULE ReplicationProofs --------------------------
(***************************************************************************)
(* What a majority has held is in the log of every later leader, and so    *)
(* what nodes count as committed agrees and stays.                         *)
(***************************************************************************)
EXTENDS Replication, Lemmas

EntriesHaveTerms == \A e \in Entry : e.term \in Nat

(***************************************************************************)
(* Logs.                                                                   *)
(***************************************************************************)

\* The terms of a log that is vouched for never fall.
LEMMA TermsAscend ==
    ASSUME ReplicationTypeOK, LogsVouched, EntriesHaveTerms,
           NEW l \in Seq(Entry), Vouched(l), NEW k \in DOMAIN l, NEW j \in 1 .. k
    PROVE  j \in DOMAIN l /\ l[j].term <= l[k].term
<1>1. j \in DOMAIN l
  OBVIOUS
<1> DEFINE t == l[k].term
<1>2. t \in DOMAIN led /\ k <= Len(led[t].log) /\ l[j] = led[t].log[j]
  BY DEF Vouched
<1>3. led[t].log \in Seq(Entry) /\ NoneAbove(led[t].log, t)
  BY <1>2 DEF ReplicationTypeOK, LogsVouched
<1>4. j \in DOMAIN led[t].log
  BY <1>2, <1>3
<1> QED
  BY <1>1, <1>2, <1>3, <1>4 DEF NoneAbove

\* Two logs that are vouched for and agree on a term agree up to there.
LEMMA VouchedAgree ==
    ASSUME NEW l, Vouched(l), NEW m, Vouched(m),
           NEW k, k \in DOMAIN l, k \in DOMAIN m, l[k].term = m[k].term
    PROVE  \A j \in 1 .. k : l[j] = m[j]
BY DEF Vouched

\* What handle_append_entries makes of a log when the consistency check passes: it
\* has all that the request covers, and it is the old log unless that one differs.
LEMMA RepairFollows ==
    ASSUME ReplicationTypeOK, LogsVouched, RequestsVouched,
           NEW l \in Seq(Entry), Vouched(l),
           NEW m \in requests,
           m.prev_log_index = 0 \/ Has(l, m.prev_log_index, m.prev_log_term)
    PROVE  LET F == led[m.term].log
               r == Repair(l, m)
           IN  /\ r \in Seq(Entry)
               /\ Last(m) <= Len(r) /\ \A j \in 1 .. Last(m) : r[j] = F[j]
               /\ \/ r = l
                  \/ /\ Len(r) = Last(m)
                     /\ \E j \in 1 .. Last(m) : j > Len(l) \/ l[j] # F[j]
<1> DEFINE F == led[m.term].log
           prev == m.prev_log_index
           r == Repair(l, m)
<1>1. /\ m.term \in DOMAIN led /\ F \in Seq(Entry) /\ Vouched(F)
      /\ prev \in Nat /\ m.entries \in Seq(Entry)
      /\ Last(m) \in Nat /\ Last(m) <= Len(F)
      /\ prev > 0 => m.prev_log_term = F[prev].term
      /\ \A k \in DOMAIN m.entries : m.entries[k] = F[prev + k]
  BY DEF ReplicationTypeOK, RequestOK, LogsVouched, RequestsVouched, Last
<1> HIDE DEF F
<1>2. prev <= Len(l) /\ \A j \in 1 .. prev : l[j] = F[j]
  <2>1. CASE prev = 0
    BY <2>1
  <2>2. CASE prev > 0
    <3>1. prev \in DOMAIN l /\ prev \in DOMAIN F /\ l[prev].term = F[prev].term
      BY <1>1, <2>2 DEF Has, Last
    <3> QED
      BY <3>1, <1>1, VouchedAgree
  <2> QED
    BY <1>1, <2>1, <2>2
<1>3. ASSUME NEW k \in (prev + 1) .. Last(m)
      PROVE  Agree(l, m, k) <=> k <= Len(l) /\ \A j \in 1 .. k : l[j] = F[j]
  <2>1. \A j \in (prev + 1) .. k : m.entries[j - prev] = F[j]
    BY <1>1 DEF Last
  <2>2. ASSUME Agree(l, m, k)
        PROVE  k <= Len(l) /\ \A j \in 1 .. k : l[j] = F[j]
    <3>1. k \in DOMAIN l /\ k \in DOMAIN F /\ l[k].term = F[k].term
      BY <1>1, <2>1, <2>2 DEF Agree
    <3> QED
      BY <1>1, <3>1, VouchedAgree
  <2>3. ASSUME k <= Len(l), \A j \in 1 .. k : l[j] = F[j]
        PROVE  Agree(l, m, k)
    BY <1>1, <2>1, <2>3 DEF Agree
  <2> QED
    BY <2>2, <2>3
<1>4. Agree(l, m, Last(m)) <=> Last(m) <= Len(l) /\ \A j \in 1 .. Last(m) : l[j] = F[j]
  <2>1. CASE Last(m) = prev
    BY <1>1, <1>2, <2>1 DEF Agree
  <2>2. CASE Last(m) > prev
    BY <1>1, <1>3, <2>2
  <2> QED
    BY <1>1, <2>1, <2>2 DEF Last
<1>5. CASE Agree(l, m, Last(m))
  <2>1. r = l
    BY <1>5 DEF Repair
  <2> QED
    BY <1>4, <1>5, <2>1 DEF F
<1>6. CASE ~Agree(l, m, Last(m))
  <2>1. r = [k \in 1 .. Last(m) |->
                IF k <= prev \/ Agree(l, m, k) THEN l[k] ELSE m.entries[k - prev]]
    BY <1>6 DEF Repair
  <2> HIDE DEF r
  <2>2. ASSUME NEW k \in 1 .. Last(m)
        PROVE  r[k] = F[k] /\ r[k] \in Entry
    <3>1. CASE k <= prev
      BY <1>1, <1>2, <2>1, <3>1
    <3>2. CASE k > prev /\ Agree(l, m, k)
      <4>1. k \in (prev + 1) .. Last(m)
        BY <1>1, <3>2
      <4>2. r[k] = l[k]
        BY <2>1, <3>2
      <4>3. k <= Len(l) /\ l[k] = F[k]
        BY <1>3, <3>2, <4>1
      <4> QED
        BY <4>2, <4>3
    <3>3. CASE k > prev /\ ~Agree(l, m, k)
      <4>1. r[k] = m.entries[k - prev]
        BY <1>1, <2>1, <3>3
      <4>2. k - prev \in DOMAIN m.entries
        BY <1>1, <3>3 DEF Last
      <4> QED
        BY <1>1, <4>1, <4>2
    <3> QED
      BY <1>1, <3>1, <3>2, <3>3
  <2>3. r \in Seq(Entry) /\ Len(r) = Last(m)
    <3>1. r \in [1 .. Last(m) -> Entry]
      BY <2>1, <2>2
    <3> QED
      BY <1>1, <3>1, FunctionIsSequence
  <2>4. \E j \in 1 .. Last(m) : j > Len(l) \/ l[j] # F[j]
    BY <1>1, <1>4, <1>6
  <2> QED
    BY <1>1, <2>2, <2>3, <2>4 DEF F, r
<1> QED
  BY <1>5, <1>6

(***************************************************************************)
(* What a step may do to terms, logs and votes.  That what a node has held *)
(* stays held follows from these facts, whichever action was taken.        *)
(***************************************************************************)

\* Inductive facts that come first: the others rest on them.
BaseInv ==
    /\ ReplicationTypeOK
    /\ LogsVouched /\ LeadersFollowed /\ VotesReached /\ RequestsVouched

TermsGrow == \A i \in Server : term'[i] >= term[i]

\* Terms stay won, and a leader's log grows by entries of its term.
LedGrows ==
    /\ DOMAIN led \subseteq DOMAIN led'
    /\ \A u \in DOMAIN led :
          /\ led'[u].voters = led[u].voters
          /\ Len(led[u].log) <= Len(led'[u].log)
          /\ \A k \in DOMAIN led[u].log : led'[u].log[k] = led[u].log[k]
          /\ \A k \in DOMAIN led'[u].log : k \notin DOMAIN led[u].log => led'[u].log[k].term = u

\* A node drops an entry only for a leader of a later term that does not have it.
LogsKept ==
    \A r \in Server : \A k \in Nat, t \in Nat : Has(log[r], k, t) =>
        \/ Has(log'[r], k, t)
        \/ \E u \in DOMAIN led : t < u /\ u <= term'[r] /\ ~Has(led[u].log, k, t)

\* A new leader was a candidate of its term, with its voters' votes.
WinnersStood ==
    \A u \in DOMAIN led' : u \notin DOMAIN led =>
        \E c \in Server :
            /\ role[c] = "Candidate" /\ term[c] = u
            /\ \A v \in led'[u].voters : [voter |-> v, term |-> u, candidate |-> c] \in votes
            /\ \A k \in DOMAIN log[c] : k \in DOMAIN led'[u].log /\ led'[u].log[k] = log[c][k]

\* The log of a candidate does not change, and its term is old or new to everyone.
CandidatesStay ==
    \A c \in Server : role'[c] = "Candidate" =>
        /\ log'[c] = log[c]
        /\ \/ role[c] = "Candidate" /\ term'[c] = term[c]
           \/ term'[c] > term[c]

\* A new vote is of the voter's term, for a candidate whose log is up to date.
VotesFresh ==
    \A v \in votes' : v \notin votes =>
        /\ v.term = term'[v.voter] /\ v.term <= term'[v.candidate]
        /\ role'[v.candidate] = "Candidate" /\ term'[v.candidate] = v.term =>
              UpToDate(log[v.candidate], log[v.voter])

Evolves ==
    /\ TermsGrow /\ LedGrows /\ LogsKept
    /\ WinnersStood /\ CandidatesStay /\ VotesFresh

\* Steps that change neither logs nor leaders.
LEMMA SameLogsEvolve ==
    ASSUME ReplicationTypeOK, TermsGrow, UNCHANGED <<log, led>>
    PROVE  LedGrows /\ LogsKept /\ WinnersStood
BY DEF LedGrows, LogsKept, WinnersStood, ReplicationTypeOK

\* Steps that give no vote and make nobody a candidate.
LEMMA NoCandidacyEvolves ==
    ASSUME UNCHANGED votes, NEW i \in Server, ReplicationTypeOK,
           \A c \in Server : role'[c] = "Candidate" =>
               role[c] = "Candidate" /\ term'[c] = term[c] /\ log'[c] = log[c]
    PROVE  CandidatesStay /\ VotesFresh
BY DEF CandidatesStay, VotesFresh

LEMMA StandEvolves ==
    ASSUME BaseInv, NEW i \in Server, Stand(i)
    PROVE  Evolves
<1>1. TermsGrow
  BY DEF BaseInv, ReplicationTypeOK, Stand, TermsGrow
<1>2. CandidatesStay
  BY DEF BaseInv, ReplicationTypeOK, Stand, CandidatesStay
<1>3. VotesFresh
  <2> SUFFICES ASSUME NEW v \in votes', v \notin votes
               PROVE  /\ v.term = term'[v.voter] /\ v.term <= term'[v.candidate]
                      /\ UpToDate(log[v.candidate], log[v.voter])
    BY DEF VotesFresh
  <2>1. v.voter = i /\ v.candidate = i /\ v.term = term[i] + 1
    BY DEF Stand
  <2>2. v.term = term'[v.voter] /\ v.term <= term'[v.candidate]
    BY <2>1 DEF BaseInv, ReplicationTypeOK, Stand
  <2>3. log[i] \in Seq(Entry)
    BY DEF BaseInv, ReplicationTypeOK
  <2> QED
    BY <2>1, <2>2, <2>3 DEF UpToDate
<1> QED
  BY <1>1, <1>2, <1>3, SameLogsEvolve DEF Evolves, Stand, BaseInv

LEMMA ObserveEvolves ==
    ASSUME BaseInv, NEW i \in Server, Observe(i)
    PROVE  Evolves
<1>1. TermsGrow
  <2>1. PICK t \in Nat : t >= term[i] /\ term' = [term EXCEPT ![i] = t]
    BY DEF Observe, MovesTo
  <2> QED
    BY <2>1 DEF BaseInv, ReplicationTypeOK, TermsGrow
<1>2. \A c \in Server : role'[c] = "Candidate" =>
          role[c] = "Candidate" /\ term'[c] = term[c] /\ log'[c] = log[c]
  BY DEF BaseInv, ReplicationTypeOK, Observe, MovesTo
<1> QED
  BY <1>1, <1>2, SameLogsEvolve, NoCandidacyEvolves DEF Evolves, Observe, BaseInv

LEMMA GiveVoteEvolves ==
    ASSUME BaseInv, NEW i \in Server, NEW v, GiveVote(i, v)
    PROVE  Evolves
<1>1. TermsGrow
  BY DEF BaseInv, ReplicationTypeOK, GiveVote, MovesTo, TermsGrow
<1>2. CandidatesStay
  BY DEF BaseInv, ReplicationTypeOK, GiveVote, MovesTo, CandidatesStay
<1>3. VotesFresh
  <2> SUFFICES /\ v.term = term'[v.voter] /\ v.term <= term'[v.candidate]
               /\ role'[v.candidate] = "Candidate" /\ term'[v.candidate] = v.term =>
                     UpToDate(log[v.candidate], log[v.voter])
    BY DEF VotesFresh, GiveVote
  <2>1. v.voter = i /\ v.candidate \in Server /\ v.term = term'[i]
    BY DEF GiveVote
  <2>2. role'[v.candidate] = "Candidate" =>
            role[v.candidate] = "Candidate" /\ term'[v.candidate] = term[v.candidate]
    BY <2>1 DEF BaseInv, ReplicationTypeOK, GiveVote, MovesTo
  <2>3. v.term <= term'[v.candidate]
    <3>1. v.term \in Nat /\ term[v.candidate] \in Nat /\ term'[v.candidate] \in Nat
      BY <2>1 DEF BaseInv, ReplicationTypeOK, GiveVote, MovesTo
    <3> QED
      BY <1>1, <2>1, <3>1 DEF GiveVote, TermsGrow
  <2> QED
    BY <2>1, <2>2, <2>3 DEF GiveVote
<1> QED
  BY <1>1, <1>2, <1>3, SameLogsEvolve DEF Evolves, GiveVote, BaseInv

\* Steps of nodes that keep their terms and their logs.
LEMMA QuietEvolves ==
    ASSUME BaseInv, UNCHANGED <<term, log, votes, led>>,
           \A c \in Server : role'[c] = "Candidate" => role[c] = "Candidate"
    PROVE  Evolves
<1>1. TermsGrow
  BY DEF BaseInv, ReplicationTypeOK, TermsGrow
<1>2. CandidatesStay /\ VotesFresh
  BY DEF CandidatesStay, VotesFresh
<1> QED
  BY <1>1, <1>2, SameLogsEvolve DEF Evolves, BaseInv

\* One more entry leaves the others where they are.
LEMMA OneMoreKeeps ==
    ASSUME NEW l \in Seq(Entry), NEW t, NEW m, OneMore(l, m, t)
    PROVE  /\ m \in Seq(Entry) /\ Len(m) = Len(l) + 1
           /\ \A k \in 1 .. Len(l) : m[k] = l[k]
           /\ m[Len(l) + 1].term = t
<1>1. PICK e \in Entry : e.term = t /\ m = Append(l, e)
  BY DEF OneMore
<1> QED
  BY <1>1

LEMMA WinEvolves ==
    ASSUME BaseInv, NEW i \in Server, Win(i)
    PROVE  Evolves
<1> DEFINE t == term[i]
<1>1. /\ t \notin DOMAIN led /\ DOMAIN led' = DOMAIN led \cup {t}
      /\ \A u \in DOMAIN led : led'[u] = led[u]
      /\ role[i] = "Candidate"
      /\ \A v \in led'[t].voters : [voter |-> v, term |-> t, candidate |-> i] \in votes
      /\ log' = [log EXCEPT ![i] = led'[t].log]
      /\ role' = [role EXCEPT ![i] = "Leader"]
      /\ UNCHANGED <<term, votes>>
  BY DEF Win
<1>2. /\ led'[t].log \in Seq(Entry) /\ Len(led'[t].log) = Len(log[i]) + 1
      /\ \A k \in 1 .. Len(log[i]) : led'[t].log[k] = log[i][k]
  BY OneMoreKeeps DEF Win, BaseInv, ReplicationTypeOK
<1>3. \A j \in Server : log[j] \in Seq(Entry) /\ term[j] \in Nat
  BY DEF BaseInv, ReplicationTypeOK
<1>4. \A j \in Server : log'[j] = IF j = i THEN led'[t].log ELSE log[j]
  BY <1>1 DEF BaseInv, ReplicationTypeOK
<1>5. \A u \in DOMAIN led : led[u].log \in Seq(Entry)
  BY DEF BaseInv, ReplicationTypeOK
<1> HIDE DEF t
<1>6. TermsGrow
  BY <1>1, <1>3 DEF TermsGrow
<1>7. LedGrows
  BY <1>1, <1>5 DEF LedGrows
<1>8. LogsKept
  BY <1>2, <1>3, <1>4 DEF LogsKept, Has
<1>9. WinnersStood
  <2>1. \A k \in DOMAIN log[i] : k \in DOMAIN led'[t].log /\ led'[t].log[k] = log[i][k]
    BY <1>2, <1>3
  <2> QED
    BY <1>1, <2>1 DEF WinnersStood, t
<1>10. CandidatesStay
  BY <1>1, <1>4 DEF CandidatesStay, BaseInv, ReplicationTypeOK
<1>11. VotesFresh
  BY <1>1 DEF VotesFresh
<1> QED
  BY <1>6, <1>7, <1>8, <1>9, <1>10, <1>11 DEF Evolves

\* What a leader appends goes to its log and to the record of it.
LEMMA ExtendFacts ==
    ASSUME BaseInv, NEW i \in Server, Extend(i)
    PROVE  /\ role[i] = "Leader" /\ term[i] \in DOMAIN led
           /\ led[term[i]].leader = i /\ led[term[i]].log = log[i]
           /\ OneMore(log[i], log'[i], term[i])
           /\ \A j \in Server \ {i} : log'[j] = log[j]
           /\ DOMAIN led' = DOMAIN led
           /\ led'[term[i]].leader = i /\ led'[term[i]].log = log'[i]
           /\ led'[term[i]].voters = led[term[i]].voters
           /\ \A u \in DOMAIN led : u # term[i] => led'[u] = led[u]
           /\ UNCHANGED <<term, role, commit, match, votes>>
<1>1. PICK l : log' = [log EXCEPT ![i] = l]
  BY DEF Extend
<1>2. \A j \in Server \ {i} : log'[j] = log[j]
  BY <1>1 DEF BaseInv, ReplicationTypeOK
<1>3. /\ led'[term[i]].leader = i /\ led'[term[i]].log = log'[i]
      /\ led'[term[i]].voters = led[term[i]].voters
  BY DEF Extend
<1> QED
  BY <1>2, <1>3 DEF Extend, BaseInv, LeadersFollowed

LEMMA ExtendEvolves ==
    ASSUME BaseInv, NEW i \in Server, Extend(i)
    PROVE  Evolves
<1> DEFINE t == term[i]
<1>1. \A j \in Server : log[j] \in Seq(Entry) /\ term[j] \in Nat
  BY DEF BaseInv, ReplicationTypeOK
<1>2. /\ log'[i] \in Seq(Entry) /\ Len(log'[i]) = Len(log[i]) + 1
      /\ \A k \in 1 .. Len(log[i]) : log'[i][k] = log[i][k]
      /\ log'[i][Len(log[i]) + 1].term = t
  <2>1. OneMore(log[i], log'[i], t)
    BY ExtendFacts
  <2> QED
    BY <1>1, <2>1, OneMoreKeeps
<1>3. /\ t \in DOMAIN led /\ led[t].log = log[i] /\ DOMAIN led' = DOMAIN led
      /\ led'[t].voters = led[t].voters /\ led'[t].log = log'[i]
      /\ \A u \in DOMAIN led : u # t => led'[u] = led[u]
      /\ \A j \in Server \ {i} : log'[j] = log[j]
      /\ role[i] = "Leader" /\ UNCHANGED <<term, role, votes>>
  BY ExtendFacts
<1>4. \A u \in DOMAIN led : led[u].log \in Seq(Entry)
  BY DEF BaseInv, ReplicationTypeOK
<1> HIDE DEF t
<1>5. TermsGrow
  BY <1>1, <1>3 DEF TermsGrow
<1>6. LedGrows
  <2> SUFFICES ASSUME NEW u \in DOMAIN led
               PROVE  /\ led'[u].voters = led[u].voters
                      /\ Len(led[u].log) <= Len(led'[u].log)
                      /\ \A k \in DOMAIN led[u].log : led'[u].log[k] = led[u].log[k]
                      /\ \A k \in DOMAIN led'[u].log : k \notin DOMAIN led[u].log =>
                            led'[u].log[k].term = u
    BY <1>3 DEF LedGrows
  <2>1. CASE u = t
    <3>1. led[u].log = log[i] /\ led'[u].log = log'[i] /\ led'[u].voters = led[u].voters
      BY <1>3, <2>1
    <3>2. log[i] \in Seq(Entry) /\ Len(log[i]) \in Nat /\ DOMAIN log[i] = 1 .. Len(log[i])
      BY <1>1
    <3>3. DOMAIN log'[i] = 1 .. (Len(log[i]) + 1)
      BY <1>2
    <3>4. \A k \in DOMAIN log'[i] : k \notin DOMAIN log[i] => log'[i][k].term = t
      BY <1>2, <3>2, <3>3
    <3>5. Len(log[i]) <= Len(log'[i])
      BY <1>2, <3>2
    <3> QED
      BY <1>2, <2>1, <3>1, <3>2, <3>4, <3>5
  <2>2. CASE u # t
    BY <1>3, <1>4, <2>2
  <2> QED
    BY <2>1, <2>2
<1>7. LogsKept
  BY <1>1, <1>2, <1>3 DEF LogsKept, Has
<1>8. WinnersStood /\ VotesFresh
  BY <1>3 DEF WinnersStood, VotesFresh
<1>9. CandidatesStay
  BY <1>3 DEF CandidatesStay
<1> QED
  BY <1>5, <1>6, <1>7, <1>8, <1>9 DEF Evolves

\* Only a leader of a later term, or one that has more to say, changes a log.
LEMMA AcceptEvolves ==
    ASSUME BaseInv, EntriesHaveTerms, NEW i \in Server, NEW m, Accept(i, m)
    PROVE  Evolves
<1> DEFINE F == led[m.term].log
           l == log[i]
           r == Repair(l, m)
<1>1. \A j \in Server : log[j] \in Seq(Entry) /\ term[j] \in Nat /\ Vouched(log[j])
  BY DEF BaseInv, ReplicationTypeOK, LogsVouched
<1>2. /\ m \in requests /\ m.term >= term[i] /\ UNCHANGED <<votes, led>>
      /\ m.prev_log_index = 0 \/ Has(l, m.prev_log_index, m.prev_log_term)
      /\ \A j \in Server : term'[j] = IF j = i THEN m.term ELSE term[j]
      /\ \A j \in Server : log'[j] = IF j = i THEN r ELSE log[j]
      /\ \A j \in Server : role'[j] = IF j = i THEN "Follower" ELSE role[j]
  BY DEF Accept, BaseInv, ReplicationTypeOK
<1>3. /\ m.term \in Nat /\ m.term \in DOMAIN led /\ F \in Seq(Entry) /\ Vouched(F)
      /\ Last(m) \in Nat
  BY <1>2 DEF BaseInv, ReplicationTypeOK, RequestOK, RequestsVouched, LogsVouched, Last
<1>4. /\ r \in Seq(Entry) /\ Last(m) <= Len(r) /\ \A j \in 1 .. Last(m) : r[j] = F[j]
      /\ r = l \/ \E j \in 1 .. Last(m) : j > Len(l) \/ l[j] # F[j]
  BY <1>1, <1>2, RepairFollows DEF BaseInv
<1> HIDE DEF F, r
<1>5. TermsGrow
  BY <1>1, <1>2, <1>3 DEF TermsGrow
<1>6. LogsKept
  <2> SUFFICES ASSUME NEW k \in Nat, NEW t \in Nat, Has(l, k, t)
               PROVE  \/ Has(r, k, t)
                      \/ t < m.term /\ ~Has(F, k, t)
    BY <1>2, <1>3, <1>1 DEF LogsKept, F
  <2>1. t <= m.term
    <3>1. t <= term[i]
      BY <1>1 DEF BaseInv, LogsVouched, NoneAbove, Has
    <3> QED
      BY <1>1, <1>2, <1>3, <3>1
  <2>2. t = m.term => Has(F, k, t) /\ l[k] = F[k]
    BY SMTT(30), <1>1, <1>3 DEF Vouched, Has, F
  <2> SUFFICES ASSUME Has(F, k, t), r # l
               PROVE  Has(r, k, t)
    BY <1>3, <2>1, <2>2
  <2>3. \A j \in 1 .. k : l[j] = F[j]
    BY SMTT(30), <1>1, <1>3, VouchedAgree DEF Has
  <2>4. k <= Last(m)
    BY <1>1, <1>3, <1>4, <2>3 DEF Has
  <2> QED
    BY <1>3, <1>4, <2>4 DEF Has
<1>7. LedGrows /\ WinnersStood /\ VotesFresh
  BY <1>2 DEF LedGrows, WinnersStood, VotesFresh, BaseInv, ReplicationTypeOK
<1>8. CandidatesStay
  BY <1>2 DEF CandidatesStay
<1> QED
  BY <1>5, <1>6, <1>7, <1>8 DEF Evolves

(***************************************************************************)
(* The first part of the invariant.                                        *)
(***************************************************************************)

\* Vouched and RequestsVouched with the record of leaders as a parameter.
VouchedBy(l, d) ==
    \A k \in DOMAIN l :
        /\ l[k].term \in DOMAIN d
        /\ k <= Len(d[l[k].term].log)
        /\ \A j \in 1 .. k : l[j] = d[l[k].term].log[j]

RequestVouchedBy(m, d) ==
    LET l == d[m.term].log
    IN  /\ m.term \in DOMAIN d
        /\ Last(m) <= Len(l) /\ m.leader_commit <= Last(m)
        /\ m.prev_log_index > 0 => m.prev_log_term = l[m.prev_log_index].term
        /\ \A k \in DOMAIN m.entries : m.entries[k] = l[m.prev_log_index + k]

LEMMA VouchedByLed == \A l : Vouched(l) <=> VouchedBy(l, led)
BY DEF Vouched, VouchedBy

\* Leaders only add to their logs, so that they go on vouching for others.
LEMMA StaysVouched ==
    ASSUME ReplicationTypeOK, LedGrows, ReplicationTypeOK',
           NEW l, l \in Seq(Entry), VouchedBy(l, led)
    PROVE  VouchedBy(l, led')
<1> SUFFICES ASSUME NEW k \in DOMAIN l
             PROVE  /\ l[k].term \in DOMAIN led'
                    /\ k <= Len(led'[l[k].term].log)
                    /\ \A j \in 1 .. k : l[j] = led'[l[k].term].log[j]
  BY DEF VouchedBy
<1> DEFINE t == l[k].term
<1>1. /\ t \in DOMAIN led /\ k <= Len(led[t].log)
      /\ \A j \in 1 .. k : l[j] = led[t].log[j]
  BY DEF VouchedBy
<1>2. led[t].log \in Seq(Entry) /\ t \in DOMAIN led' /\ led'[t].log \in Seq(Entry)
  BY <1>1 DEF ReplicationTypeOK, LedGrows
<1>3. Len(led[t].log) <= Len(led'[t].log) /\ \A j \in 1 .. k : led'[t].log[j] = led[t].log[j]
  BY <1>1, <1>2 DEF LedGrows
<1> QED
  BY <1>1, <1>2, <1>3

\* A log and one more entry of a leader that has both.
LEMMA GrownVouched ==
    ASSUME EntriesHaveTerms, NEW l, l \in Seq(Entry), NEW d, VouchedBy(l, d),
           NEW t \in DOMAIN d, t \in Nat, NoneAbove(l, t), OneMore(l, d[t].log, t)
    PROVE  VouchedBy(d[t].log, d) /\ NoneAbove(d[t].log, t)
<1> DEFINE m == d[t].log
<1>1. /\ m \in Seq(Entry) /\ Len(m) = Len(l) + 1
      /\ \A k \in 1 .. Len(l) : m[k] = l[k]
      /\ m[Len(l) + 1].term = t
  BY OneMoreKeeps
<1> SUFFICES ASSUME NEW k \in DOMAIN m
             PROVE  /\ m[k].term \in DOMAIN d
                    /\ k <= Len(d[m[k].term].log)
                    /\ \A j \in 1 .. k : m[j] = d[m[k].term].log[j]
                    /\ m[k].term <= t
  BY DEF VouchedBy, NoneAbove
<1> HIDE DEF m
<1>2. CASE k = Len(l) + 1
  BY <1>1, <1>2 DEF m
<1>3. CASE k # Len(l) + 1
  <2>1. k \in DOMAIN l /\ \A j \in 1 .. k : m[j] = l[j]
    BY <1>1, <1>3
  <2> QED
    BY <1>1, <2>1 DEF VouchedBy, NoneAbove
<1> QED
  BY <1>2, <1>3

\* Every log is an old one, or one that is vouched for anew.
LEMMA LogsVouchedStep ==
    ASSUME BaseInv, EntriesHaveTerms, TermsGrow, LedGrows, ReplicationTypeOK',
           \A i \in Server : \/ log'[i] = log[i]
                             \/ VouchedBy(log'[i], led') /\ NoneAbove(log'[i], term'[i]),
           \A u \in DOMAIN led' : \/ u \in DOMAIN led /\ led'[u].log = led[u].log
                                  \/ VouchedBy(led'[u].log, led') /\ NoneAbove(led'[u].log, u)
    PROVE  LogsVouched'
<1>1. \A l : Vouched(l)' <=> VouchedBy(l, led')
  BY DEF Vouched, VouchedBy
<1>2. ASSUME NEW i \in Server
      PROVE  VouchedBy(log'[i], led') /\ NoneAbove(log'[i], term'[i])
  <2>1. CASE log'[i] = log[i]
    <3>1. VouchedBy(log[i], led) /\ log[i] \in Seq(Entry)
      BY VouchedByLed DEF BaseInv, LogsVouched, ReplicationTypeOK
    <3>2. NoneAbove(log[i], term'[i])
      <4>1. NoneAbove(log[i], term[i]) /\ term'[i] >= term[i] /\ term[i] \in Nat /\ term'[i] \in Nat
        BY DEF BaseInv, LogsVouched, TermsGrow, ReplicationTypeOK
      <4>2. \A k \in DOMAIN log[i] : log[i][k].term \in Nat
        BY <3>1 DEF EntriesHaveTerms
      <4> QED
        BY <4>1, <4>2 DEF NoneAbove
    <3> QED
      BY <2>1, <3>1, <3>2, StaysVouched DEF BaseInv
  <2> QED
    BY <2>1
<1>3. ASSUME NEW u \in DOMAIN led'
      PROVE  VouchedBy(led'[u].log, led') /\ NoneAbove(led'[u].log, u)
  <2>1. CASE u \in DOMAIN led /\ led'[u].log = led[u].log
    <3>1. VouchedBy(led[u].log, led) /\ led[u].log \in Seq(Entry) /\ NoneAbove(led[u].log, u)
      BY <2>1, VouchedByLed DEF BaseInv, LogsVouched, ReplicationTypeOK
    <3> QED
      BY <2>1, <3>1, StaysVouched DEF BaseInv
  <2> QED
    BY <2>1
<1>4. \A i \in Server : Vouched(log[i])' /\ NoneAbove(log[i], term[i])'
  BY <1>2 DEF Vouched, VouchedBy, NoneAbove
<1>5. \A u \in DOMAIN led' : Vouched(led[u].log)' /\ NoneAbove(led[u].log, u)'
  BY <1>3 DEF Vouched, VouchedBy, NoneAbove
<1> QED
  BY <1>4, <1>5 DEF LogsVouched

\* Old requests stay vouched for.
LEMMA RequestsVouchedStep ==
    ASSUME BaseInv, LedGrows, ReplicationTypeOK',
           \A m \in requests' : m \in requests \/ RequestVouchedBy(m, led')
    PROVE  RequestsVouched'
<1> SUFFICES ASSUME NEW m \in requests'
             PROVE  RequestVouchedBy(m, led')
  BY DEF RequestsVouched, RequestVouchedBy
<1>1. CASE m \in requests
  <2> DEFINE l == led[m.term].log
             k == led'[m.term].log
  <2>1. /\ m.term \in DOMAIN led /\ Last(m) <= Len(l) /\ m.leader_commit <= Last(m)
        /\ m.prev_log_index > 0 => m.prev_log_term = l[m.prev_log_index].term
        /\ \A j \in DOMAIN m.entries : m.entries[j] = l[m.prev_log_index + j]
    BY <1>1 DEF BaseInv, RequestsVouched
  <2>2. m.prev_log_index \in Nat /\ m.entries \in Seq(Entry)
    BY <1>1 DEF BaseInv, ReplicationTypeOK, RequestOK
  <2>3. m.term \in DOMAIN led' /\ l \in Seq(Entry) /\ k \in Seq(Entry)
    BY <2>1 DEF BaseInv, ReplicationTypeOK, LedGrows
  <2>4. Len(l) <= Len(k) /\ \A j \in DOMAIN l : k[j] = l[j]
    BY <2>1, <2>3 DEF LedGrows
  <2> HIDE DEF l, k
  <2>5. m.prev_log_index > 0 => m.prev_log_index \in DOMAIN l
    BY <2>1, <2>2, <2>3 DEF Last
  <2>6. \A j \in DOMAIN m.entries : m.prev_log_index + j \in DOMAIN l
    BY <2>1, <2>2, <2>3 DEF Last
  <2>7. Last(m) <= Len(k)
    BY <2>1, <2>2, <2>3, <2>4 DEF Last
  <2> QED
    BY <2>1, <2>3, <2>4, <2>5, <2>6, <2>7 DEF RequestVouchedBy, k
<1> QED
  BY <1>1

\* Votes follow from what steps do to them.
LEMMA VotesReachedStep ==
    ASSUME BaseInv, Evolves, ReplicationTypeOK'
    PROVE  VotesReached'
<1>1. \A i \in Server : term[i] \in Nat /\ term'[i] \in Nat /\ term'[i] >= term[i]
  BY DEF BaseInv, ReplicationTypeOK, Evolves, TermsGrow
<1>2. ASSUME NEW v \in votes'
      PROVE  v.term <= term'[v.voter] /\ v.term <= term'[v.candidate]
  <2>1. v.term \in Nat /\ v.voter \in Server /\ v.candidate \in Server
    BY DEF ReplicationTypeOK
  <2>2. CASE v \in votes
    BY <1>1, <2>1, <2>2 DEF BaseInv, VotesReached
  <2>3. CASE v \notin votes
    BY <1>1, <2>1, <2>3 DEF Evolves, VotesFresh
  <2> QED
    BY <2>2, <2>3
<1>3. ASSUME NEW t \in DOMAIN led', NEW r \in led'[t].voters
      PROVE  t <= term'[r]
  <2>1. t \in Nat /\ r \in Server
    BY DEF ReplicationTypeOK, Majorities
  <2>2. CASE t \in DOMAIN led
    BY <1>1, <2>1, <2>2 DEF BaseInv, VotesReached, Evolves, LedGrows
  <2>3. CASE t \notin DOMAIN led
    <3>1. PICK c \in Server : [voter |-> r, term |-> t, candidate |-> c] \in votes
      BY <2>3 DEF Evolves, WinnersStood
    <3> QED
      BY <1>1, <2>1, <3>1 DEF BaseInv, VotesReached
  <2> QED
    BY <2>2, <2>3
<1> QED
  BY <1>2, <1>3 DEF VotesReached

\* Leaders that go on leading as before, when no one wins or appends.
LEMMA SameLeaders ==
    ASSUME BaseInv, UNCHANGED led,
           \A j \in Server : role'[j] = "Leader" =>
               role[j] = "Leader" /\ term'[j] = term[j] /\ log'[j] = log[j]
    PROVE  LeadersFollowed'
BY DEF BaseInv, LeadersFollowed

\* The steps that leave logs and leaders alone.
LEMMA SameLogsBase ==
    ASSUME BaseInv, EntriesHaveTerms, Evolves, ReplicationTypeOK', UNCHANGED <<log, led>>,
           \A j \in Server : role'[j] = "Leader" => role[j] = "Leader" /\ term'[j] = term[j],
           \A m \in requests' : m \in requests \/ RequestVouchedBy(m, led')
    PROVE  BaseInv'
<1>1. LogsVouched'
  <2>1. TermsGrow /\ LedGrows
    BY DEF Evolves
  <2>2. \A i \in Server : \/ log'[i] = log[i]
                          \/ VouchedBy(log'[i], led') /\ NoneAbove(log'[i], term'[i])
    OBVIOUS
  <2>3. \A u \in DOMAIN led' : \/ u \in DOMAIN led /\ led'[u].log = led[u].log
                               \/ VouchedBy(led'[u].log, led') /\ NoneAbove(led'[u].log, u)
    OBVIOUS
  <2> QED
    BY <2>1, <2>2, <2>3, LogsVouchedStep
<1>2. LeadersFollowed'
  BY SameLeaders
<1>3. VotesReached' /\ RequestsVouched'
  BY VotesReachedStep, RequestsVouchedStep DEF Evolves
<1> QED
  BY <1>1, <1>2, <1>3 DEF BaseInv

LEMMA StandBase ==
    ASSUME BaseInv, EntriesHaveTerms, NEW i \in Server, Stand(i)
    PROVE  BaseInv'
<1>1. ReplicationTypeOK'
  <2>1. \A v \in votes' : v.voter \in Server /\ v.term \in Nat /\ v.candidate \in Server
    BY DEF BaseInv, ReplicationTypeOK, Stand
  <2>2. term' \in [Server -> Nat] /\ role' \in [Server -> {"Follower", "Candidate", "Leader"}]
    BY DEF BaseInv, ReplicationTypeOK, Stand
  <2> QED
    BY <2>1, <2>2 DEF BaseInv, ReplicationTypeOK, Stand, Fewer, RequestOK
<1>2. \A j \in Server : role'[j] = "Leader" => role[j] = "Leader" /\ term'[j] = term[j]
  BY DEF BaseInv, ReplicationTypeOK, Stand
<1> QED
  BY <1>1, <1>2, StandEvolves, SameLogsBase DEF Stand, Fewer

LEMMA ObserveBase ==
    ASSUME BaseInv, EntriesHaveTerms, NEW i \in Server, Observe(i)
    PROVE  BaseInv'
<1>0. PICK t \in Nat : t >= term[i] /\ term' = [term EXCEPT ![i] = t] /\ MovesTo(i, t)
  BY DEF Observe, MovesTo
<1>1. ReplicationTypeOK'
  BY <1>0 DEF BaseInv, ReplicationTypeOK, Observe, MovesTo, Fewer, RequestOK
<1>2. \A j \in Server : role'[j] = "Leader" => role[j] = "Leader" /\ term'[j] = term[j]
  BY <1>0 DEF BaseInv, ReplicationTypeOK, Observe, MovesTo
<1> QED
  BY <1>1, <1>2, ObserveEvolves, SameLogsBase DEF Observe, Fewer

LEMMA GiveVoteBase ==
    ASSUME BaseInv, EntriesHaveTerms, NEW i \in Server, NEW v, GiveVote(i, v)
    PROVE  BaseInv'
<1>1. ReplicationTypeOK'
  <2>1. v.voter \in Server /\ v.term \in Nat /\ v.candidate \in Server
    BY DEF GiveVote, MovesTo
  <2> QED
    BY <2>1 DEF BaseInv, ReplicationTypeOK, GiveVote, MovesTo, Fewer, RequestOK
<1>2. \A j \in Server : role'[j] = "Leader" => role[j] = "Leader" /\ term'[j] = term[j]
  BY DEF BaseInv, ReplicationTypeOK, GiveVote, MovesTo
<1> QED
  BY <1>1, <1>2, GiveVoteEvolves, SameLogsBase DEF GiveVote, Fewer

LEMMA AdvanceBase ==
    ASSUME BaseInv, EntriesHaveTerms, NEW i \in Server, Advance(i)
    PROVE  BaseInv'
<1>1. match' \in {match} \cup {[match EXCEPT ![i][o.node] = o.index] : o \in oks}
  BY DEF Advance
<1>2. DOMAIN match' = Server /\ \A j \in Server : match'[j] \in [Server \ {j} -> Nat]
  <2>1. CASE match' = match
    BY <2>1 DEF BaseInv, ReplicationTypeOK
  <2>2. ASSUME NEW o \in oks, match' = [match EXCEPT ![i][o.node] = o.index]
        PROVE  DOMAIN match' = Server /\ \A j \in Server : match'[j] \in [Server \ {j} -> Nat]
    BY <2>2 DEF BaseInv, ReplicationTypeOK
  <2> QED
    BY <1>1, <2>1, <2>2
<1>3. commit' \in [Server -> Nat]
  <2>1. CASE commit' = commit
    BY <2>1 DEF BaseInv, ReplicationTypeOK
  <2>2. ASSUME NEW k, commit' = [commit EXCEPT ![i] = k], Has(log[i], k, term[i])
        PROVE  commit' \in [Server -> Nat]
    <3>1. k \in Nat
      BY <2>2 DEF Has, BaseInv, ReplicationTypeOK
    <3> QED
      BY <2>2, <3>1 DEF BaseInv, ReplicationTypeOK
  <2> QED
    BY <2>1, <2>2 DEF Advance
<1>4. ReplicationTypeOK'
  BY <1>2, <1>3 DEF BaseInv, ReplicationTypeOK, Advance, Fewer, RequestOK
<1>5. Evolves
  BY QuietEvolves DEF Advance
<1> QED
  BY <1>4, <1>5, SameLogsBase DEF Advance, Fewer

LEMMA RestartBase ==
    ASSUME BaseInv, EntriesHaveTerms, NEW i \in Server, Restart(i)
    PROVE  BaseInv'
<1>1. ReplicationTypeOK'
  BY DEF BaseInv, ReplicationTypeOK, Restart, Fewer, RequestOK
<1>2. \A j \in Server : role'[j] \in {"Leader", "Candidate"} => role[j] = role'[j]
  BY DEF BaseInv, ReplicationTypeOK, Restart
<1>3. Evolves
  BY <1>2, QuietEvolves DEF Restart
<1> QED
  BY <1>1, <1>2, <1>3, SameLogsBase DEF Restart, Fewer

LEMMA SendBase ==
    ASSUME BaseInv, EntriesHaveTerms, NEW i \in Server, Send(i)
    PROVE  BaseInv'
<1>1. \A m \in requests' : m \in requests \/ (RequestOK(m) /\ RequestVouchedBy(m, led))
  <2> SUFFICES ASSUME NEW m \in requests', m \notin requests
               PROVE  RequestOK(m) /\ RequestVouchedBy(m, led)
    OBVIOUS
  <2>0. Sends(i, m)
    BY Zenon DEF Send
  <2>1. led[term[i]].log = log[i] /\ term[i] \in DOMAIN led /\ term[i] \in Nat
    BY DEF Send, BaseInv, LeadersFollowed, ReplicationTypeOK
  <2>2. RequestOK(m) /\ m.term = term[i] /\ Last(m) \in Nat
    BY <2>0, <2>1 DEF Sends, RequestOK, Last
  <2>3. /\ Last(m) <= Len(log[i]) /\ m.leader_commit <= Last(m)
        /\ m.prev_log_index > 0 => m.prev_log_term = log[i][m.prev_log_index].term
        /\ \A k \in DOMAIN m.entries : m.entries[k] = log[i][m.prev_log_index + k]
    BY <2>0 DEF Sends
  <2> QED
    BY <2>1, <2>2, <2>3 DEF RequestVouchedBy
<1>2. ReplicationTypeOK'
  BY <1>1 DEF BaseInv, ReplicationTypeOK, Send, nodes, RequestOK
<1>3. Evolves
  BY QuietEvolves DEF Send, nodes
<1> QED
  BY <1>1, <1>2, <1>3, SameLogsBase DEF Send, nodes

LEMMA WinBase ==
    ASSUME BaseInv, EntriesHaveTerms, NEW i \in Server, Win(i)
    PROVE  BaseInv'
<1> DEFINE t == term[i]
<1>1. /\ t \notin DOMAIN led /\ DOMAIN led' = DOMAIN led \cup {t}
      /\ \A u \in DOMAIN led : led'[u] = led[u]
      /\ led'[t].leader = i /\ led'[t].voters \in Majorities
      /\ OneMore(log[i], led'[t].log, t)
      /\ log' = [log EXCEPT ![i] = led'[t].log]
      /\ role' = [role EXCEPT ![i] = "Leader"]
      /\ match' = [match EXCEPT ![i] = [p \in Server \ {i} |-> 0]]
      /\ Fewer /\ UNCHANGED <<term, votes, commit>>
  BY DEF Win
<1>2. log[i] \in Seq(Entry) /\ t \in Nat /\ VouchedBy(log[i], led) /\ NoneAbove(log[i], t)
  BY VouchedByLed DEF BaseInv, ReplicationTypeOK, LogsVouched
<1>3. led'[t].log \in Seq(Entry)
  BY <1>1, <1>2, OneMoreKeeps
<1> HIDE DEF t
<1>4. ReplicationTypeOK'
  BY <1>1, <1>2, <1>3 DEF BaseInv, ReplicationTypeOK, Fewer, RequestOK
<1>5. Evolves
  BY WinEvolves
<1>6. VouchedBy(led'[t].log, led') /\ NoneAbove(led'[t].log, t)
  <2>1. VouchedBy(log[i], led')
    BY <1>2, <1>4, <1>5, StaysVouched DEF BaseInv, Evolves
  <2> QED
    BY <1>1, <1>2, <2>1, GrownVouched
<1>7. \A j \in Server : log'[j] = IF j = i THEN led'[t].log ELSE log[j]
  BY <1>1 DEF BaseInv, ReplicationTypeOK
<1>8. LogsVouched'
  BY <1>1, <1>4, <1>5, <1>6, <1>7, LogsVouchedStep DEF Evolves, t
<1>9. LeadersFollowed'
  <2> SUFFICES ASSUME NEW j \in Server, role'[j] = "Leader"
               PROVE  /\ term[j] \in DOMAIN led'
                      /\ led'[term[j]].leader = j /\ led'[term[j]].log = log'[j]
    BY <1>1 DEF LeadersFollowed
  <2>1. CASE j = i
    BY <1>1, <1>7, <2>1 DEF t
  <2>2. CASE j # i
    <3>1. role[j] = "Leader"
      BY <1>1, <2>2 DEF BaseInv, ReplicationTypeOK
    <3>2. term[j] \in DOMAIN led /\ led[term[j]].leader = j /\ led[term[j]].log = log[j]
      BY <3>1 DEF BaseInv, LeadersFollowed
    <3> QED
      BY <1>1, <1>7, <2>2, <3>2
  <2> QED
    BY <2>1, <2>2
<1>10. RequestsVouched'
  BY <1>1, <1>4, <1>5, RequestsVouchedStep DEF Evolves, Fewer
<1> QED
  BY <1>4, <1>5, <1>8, <1>9, <1>10, VotesReachedStep DEF BaseInv

LEMMA ExtendBase ==
    ASSUME BaseInv, EntriesHaveTerms, NEW i \in Server, Extend(i)
    PROVE  BaseInv'
<1> DEFINE t == term[i]
<1>1. /\ t \in DOMAIN led /\ DOMAIN led' = DOMAIN led
      /\ \A u \in DOMAIN led : u # t => led'[u] = led[u]
      /\ led[t].leader = i /\ led'[t].leader = i /\ led'[t].voters = led[t].voters
      /\ led'[t].log = log'[i] /\ OneMore(log[i], log'[i], t)
      /\ \A j \in Server \ {i} : log'[j] = log[j]
      /\ UNCHANGED <<term, role, commit, match, votes>>
  BY ExtendFacts
<1>2. log[i] \in Seq(Entry) /\ t \in Nat /\ VouchedBy(log[i], led) /\ NoneAbove(log[i], t)
  BY VouchedByLed DEF BaseInv, ReplicationTypeOK, LogsVouched
<1>3. log'[i] \in Seq(Entry)
  BY <1>1, <1>2, OneMoreKeeps
<1>4. Fewer /\ \E l : log' = [log EXCEPT ![i] = l]
  BY DEF Extend
<1> HIDE DEF t
<1>5. ReplicationTypeOK'
  <2>1. log' \in [Server -> Seq(Entry)]
    BY <1>3, <1>4 DEF BaseInv, ReplicationTypeOK
  <2>2. \A u \in DOMAIN led' : led'[u].voters \in Majorities /\ led'[u].log \in Seq(Entry)
    BY <1>1, <1>3 DEF BaseInv, ReplicationTypeOK
  <2> QED
    BY <1>1, <1>4, <2>1, <2>2 DEF BaseInv, ReplicationTypeOK, Fewer, RequestOK
<1>6. Evolves
  BY ExtendEvolves
<1>7. VouchedBy(led'[t].log, led') /\ NoneAbove(led'[t].log, t)
  <2>1. VouchedBy(log[i], led')
    BY <1>2, <1>5, <1>6, StaysVouched DEF BaseInv, Evolves
  <2> QED
    BY <1>1, <1>2, <2>1, GrownVouched
<1>8. LogsVouched'
  <2>1. \A j \in Server : \/ log'[j] = log[j]
                          \/ VouchedBy(log'[j], led') /\ NoneAbove(log'[j], term'[j])
    BY <1>1, <1>7 DEF t
  <2>2. \A u \in DOMAIN led' : \/ u \in DOMAIN led /\ led'[u].log = led[u].log
                               \/ VouchedBy(led'[u].log, led') /\ NoneAbove(led'[u].log, u)
    BY <1>1, <1>7
  <2> QED
    BY <1>5, <1>6, <2>1, <2>2, LogsVouchedStep DEF Evolves
<1>9. LeadersFollowed'
  <2> SUFFICES ASSUME NEW j \in Server, role[j] = "Leader"
               PROVE  /\ term[j] \in DOMAIN led'
                      /\ led'[term[j]].leader = j /\ led'[term[j]].log = log'[j]
    BY <1>1 DEF LeadersFollowed
  <2>1. CASE j = i
    BY <1>1, <2>1 DEF t
  <2>2. CASE j # i
    <3>1. term[j] \in DOMAIN led /\ led[term[j]].leader = j /\ led[term[j]].log = log[j]
      BY DEF BaseInv, LeadersFollowed
    <3> QED
      BY <1>1, <2>2, <3>1
  <2> QED
    BY <2>1, <2>2
<1>10. RequestsVouched'
  BY <1>4, <1>5, <1>6, RequestsVouchedStep DEF Evolves, Fewer
<1> QED
  BY <1>5, <1>6, <1>8, <1>9, <1>10, VotesReachedStep DEF BaseInv

\* What a node that accepts a request has afterwards.
LEMMA AcceptFacts ==
    ASSUME BaseInv, NEW i \in Server, NEW m, Accept(i, m)
    PROVE  LET F == led[m.term].log
           IN  /\ m \in requests /\ RequestOK(m) /\ m.term \in DOMAIN led
               /\ Last(m) \in Nat /\ Last(m) <= Len(F) /\ m.leader_commit <= Last(m)
               /\ F \in Seq(Entry) /\ log'[i] \in Seq(Entry)
               /\ Last(m) <= Len(log'[i]) /\ \A j \in 1 .. Last(m) : log'[i][j] = F[j]
               /\ \/ log'[i] = log[i]
                  \/ /\ Len(log'[i]) = Last(m)
                     /\ \E j \in 1 .. Last(m) : j > Len(log[i]) \/ log[i][j] # F[j]
               /\ term'[i] = m.term /\ term[i] <= m.term
               /\ \A j \in Server \ {i} : log'[j] = log[j] /\ term'[j] = term[j]
                                          /\ role'[j] = role[j] /\ commit'[j] = commit[j]
               /\ role'[i] = "Follower"
               /\ commit'[i] = IF m.leader_commit <= commit[i] THEN commit[i] ELSE m.leader_commit
<1> DEFINE F == led[m.term].log
<1>1. /\ m \in requests /\ m.term >= term[i]
      /\ m.prev_log_index = 0 \/ Has(log[i], m.prev_log_index, m.prev_log_term)
      /\ log'[i] = Repair(log[i], m) /\ term'[i] = m.term /\ role'[i] = "Follower"
      /\ \A j \in Server \ {i} : log'[j] = log[j] /\ term'[j] = term[j]
                                 /\ role'[j] = role[j] /\ commit'[j] = commit[j]
      /\ commit'[i] = IF m.leader_commit <= commit[i] THEN commit[i]
                      ELSE IF m.leader_commit <= Len(log'[i]) THEN m.leader_commit
                      ELSE Len(log'[i])
  BY DEF Accept, BaseInv, ReplicationTypeOK
<1>2. /\ RequestOK(m) /\ m.term \in DOMAIN led /\ F \in Seq(Entry)
      /\ Last(m) \in Nat /\ Last(m) <= Len(F) /\ m.leader_commit <= Last(m)
      /\ term[i] \in Nat
  BY <1>1 DEF BaseInv, ReplicationTypeOK, RequestOK, RequestsVouched, Last
<1>3. log[i] \in Seq(Entry) /\ Vouched(log[i])
  BY DEF BaseInv, ReplicationTypeOK, LogsVouched
<1>4. /\ log'[i] \in Seq(Entry)
      /\ Last(m) <= Len(log'[i]) /\ \A j \in 1 .. Last(m) : log'[i][j] = F[j]
      /\ \/ log'[i] = log[i]
         \/ /\ Len(log'[i]) = Last(m)
            /\ \E j \in 1 .. Last(m) : j > Len(log[i]) \/ log[i][j] # F[j]
  BY <1>1, <1>3, RepairFollows DEF BaseInv
<1> HIDE DEF F
<1>5. m.leader_commit <= Len(log'[i]) /\ term[i] <= m.term
  BY <1>1, <1>2, <1>4 DEF RequestOK
<1> QED
  BY <1>1, <1>2, <1>4, <1>5 DEF F

LEMMA AcceptBase ==
    ASSUME BaseInv, EntriesHaveTerms, NEW i \in Server, NEW m, Accept(i, m)
    PROVE  BaseInv'
<1> DEFINE F == led[m.term].log
<1>1. /\ m \in requests /\ RequestOK(m) /\ m.term \in DOMAIN led
      /\ Last(m) \in Nat /\ Last(m) <= Len(F) /\ F \in Seq(Entry) /\ log'[i] \in Seq(Entry)
      /\ Last(m) <= Len(log'[i]) /\ \A j \in 1 .. Last(m) : log'[i][j] = F[j]
      /\ log'[i] = log[i] \/ Len(log'[i]) = Last(m)
      /\ term'[i] = m.term /\ term[i] <= m.term
      /\ \A j \in Server \ {i} : log'[j] = log[j] /\ term'[j] = term[j] /\ role'[j] = role[j]
      /\ role'[i] = "Follower"
      /\ commit'[i] \in {commit[i], m.leader_commit}
  BY AcceptFacts
<1>2. Evolves /\ UNCHANGED <<match, votes, led>> /\ requests' \subseteq requests
  BY AcceptEvolves DEF Accept
<1>3. ReplicationTypeOK'
  <2>1. term' \in [Server -> Nat] /\ role' \in [Server -> {"Follower", "Candidate", "Leader"}]
    BY <1>1 DEF Accept, BaseInv, ReplicationTypeOK, RequestOK
  <2>2. log' \in [Server -> Seq(Entry)]
    <3>1. \E l : log' = [log EXCEPT ![i] = l]
      BY DEF Accept
    <3> QED
      BY <1>1, <3>1 DEF BaseInv, ReplicationTypeOK
  <2>3. commit' \in [Server -> Nat]
    <3>1. \E l : commit' = [commit EXCEPT ![i] = l]
      BY DEF Accept
    <3> QED
      BY <1>1, <3>1 DEF BaseInv, ReplicationTypeOK, RequestOK
  <2>4. \A o \in oks' : o.node \in Server /\ o.term \in DOMAIN led' /\ o.index \in Nat
    BY <1>1, <1>2 DEF Accept, BaseInv, ReplicationTypeOK
  <2> QED
    BY <1>2, <2>1, <2>2, <2>3, <2>4 DEF BaseInv, ReplicationTypeOK, RequestOK
<1>4. ASSUME log'[i] # log[i]
      PROVE  VouchedBy(log'[i], led') /\ NoneAbove(log'[i], m.term)
  <2>1. VouchedBy(F, led) /\ NoneAbove(F, m.term)
    BY <1>1, VouchedByLed DEF BaseInv, LogsVouched
  <2> HIDE DEF F
  <2>2. \A k \in DOMAIN log'[i] : k \in DOMAIN F /\ \A j \in 1 .. k : log'[i][j] = F[j]
    BY <1>1, <1>4
  <2>3. NoneAbove(log'[i], m.term)
    <3> SUFFICES ASSUME NEW k \in DOMAIN log'[i] PROVE log'[i][k].term <= m.term
      BY DEF NoneAbove
    <3>1. k \in DOMAIN F /\ log'[i][k] = F[k]
      BY <1>1, <2>2
    <3> QED
      BY <2>1, <3>1 DEF NoneAbove
  <2>4. VouchedBy(log'[i], led)
    <3> SUFFICES ASSUME NEW k \in DOMAIN log'[i]
                 PROVE  /\ log'[i][k].term \in DOMAIN led
                        /\ k <= Len(led[log'[i][k].term].log)
                        /\ \A j \in 1 .. k : log'[i][j] = led[log'[i][k].term].log[j]
      BY DEF VouchedBy
    <3>1. k \in DOMAIN F /\ log'[i][k] = F[k] /\ \A j \in 1 .. k : log'[i][j] = F[j]
      BY <1>1, <2>2
    <3> QED
      BY <2>1, <3>1 DEF VouchedBy
  <2> QED
    BY <1>2, <2>3, <2>4
<1>5. LogsVouched'
  BY <1>1, <1>2, <1>3, <1>4, LogsVouchedStep DEF Evolves
<1>6. LeadersFollowed'
  BY <1>1, <1>2, SameLeaders
<1>7. RequestsVouched'
  BY <1>2, <1>3, RequestsVouchedStep DEF Evolves
<1> QED
  BY <1>2, <1>3, <1>5, <1>6, <1>7, VotesReachedStep DEF BaseInv

\* Every step keeps the first part of the invariant, and evolves.
LEMMA BaseStep ==
    ASSUME BaseInv, EntriesHaveTerms, [ReplicationNext]_replicationVars
    PROVE  BaseInv' /\ Evolves
<1>1. CASE UNCHANGED replicationVars
  <2>1. UNCHANGED <<term, role, log, commit, match, votes, led, requests, oks>>
    BY <1>1 DEF replicationVars, nodes
  <2>2. BaseInv'
    <3>1. ReplicationTypeOK'
      BY <2>1 DEF BaseInv, ReplicationTypeOK, RequestOK
    <3>2. LogsVouched'
      BY <2>1 DEF BaseInv, LogsVouched, Vouched, NoneAbove
    <3>3. LeadersFollowed' /\ VotesReached' /\ RequestsVouched'
      BY <2>1 DEF BaseInv, LeadersFollowed, VotesReached, RequestsVouched
    <3> QED
      BY <3>1, <3>2, <3>3 DEF BaseInv
  <2> QED
    BY <2>1, <2>2, QuietEvolves
<1>2. ASSUME NEW i \in Server, Stand(i) \/ Observe(i) \/ Win(i) \/ Extend(i)
      PROVE  BaseInv' /\ Evolves
  BY <1>2, StandBase, StandEvolves, ObserveBase, ObserveEvolves, WinBase, WinEvolves,
     ExtendBase, ExtendEvolves
<1>3. ASSUME NEW i \in Server, Send(i) \/ Advance(i) \/ Restart(i)
      PROVE  BaseInv' /\ Evolves
  <2>1. \A j \in Server : role'[j] = "Candidate" => role[j] = "Candidate"
    BY <1>3 DEF Send, Advance, Restart, nodes, BaseInv, ReplicationTypeOK
  <2>2. UNCHANGED <<term, log, votes, led>>
    BY <1>3 DEF Send, Advance, Restart, nodes
  <2> QED
    BY <1>3, <2>1, <2>2, QuietEvolves, SendBase, AdvanceBase, RestartBase
<1>4. ASSUME NEW i \in Server, NEW v, GiveVote(i, v)
      PROVE  BaseInv' /\ Evolves
  BY <1>4, GiveVoteBase, GiveVoteEvolves
<1>5. ASSUME NEW i \in Server, NEW m, Accept(i, m)
      PROVE  BaseInv' /\ Evolves
  BY <1>5, AcceptBase, AcceptEvolves
<1> QED
  BY <1>1, <1>2, <1>3, <1>4, <1>5 DEF ReplicationNext, Work

(***************************************************************************)
(* What a node has held.                                                   *)
(***************************************************************************)

\* A later leader that was elected without an entry never gets it.
LEMMA SkippedStays ==
    ASSUME BaseInv, BaseInv', LedGrows, NEW k \in Nat, NEW t \in Nat,
           NEW u \in Nat, NEW w \in Nat, u <= w, Skipped(k, t, u)
    PROVE  Skipped(k, t, w)'
<1>1. PICK x \in DOMAIN led : t < x /\ x < u /\ ~Has(led[x].log, k, t)
  BY DEF Skipped
<1>2. x \in Nat /\ x \in DOMAIN led' /\ led[x].log \in Seq(Entry) /\ led'[x].log \in Seq(Entry)
  BY DEF BaseInv, ReplicationTypeOK, LedGrows
<1>3. ~Has(led'[x].log, k, t)
  BY <1>1, <1>2 DEF Has, LedGrows
<1> QED
  BY <1>1, <1>2, <1>3 DEF Skipped, Has

\* A leader keeps what it has.
LEMMA LedHas ==
    ASSUME BaseInv, BaseInv', LedGrows, NEW k \in Nat, NEW t \in Nat,
           NEW u \in DOMAIN led, Has(led[u].log, k, t)
    PROVE  Has(led'[u].log, k, t)
BY DEF BaseInv, ReplicationTypeOK, LedGrows, Has

\* A candidate that is up to date with a node that has an entry has it too, unless
\* a leader between the two has skipped it.
LEMMA UpToDateHas ==
    ASSUME BaseInv, EntriesHaveTerms, NEW r \in Server, NEW c \in Server,
           NEW k \in Nat, NEW t \in Nat, NEW u \in Nat,
           Has(log[r], k, t), UpToDate(log[c], log[r]),
           term[c] <= u, u \notin DOMAIN led
    PROVE  Has(log[c], k, t) \/ Skipped(k, t, u)
<1> DEFINE L == log[r]
           C == log[c]
           x == LastTerm(L)
           y == LastTerm(C)
<1>1. /\ L \in Seq(Entry) /\ Vouched(L) /\ C \in Seq(Entry) /\ Vouched(C)
      /\ term[c] \in Nat /\ NoneAbove(C, term[c])
  BY DEF BaseInv, ReplicationTypeOK, LogsVouched
<1>2. k \in 1 .. Len(L) /\ L[k].term = t /\ Len(L) \in Nat /\ Len(L) \in DOMAIN L
  BY <1>1 DEF Has
<1>3. x = L[Len(L)].term /\ x \in Nat
  BY <1>1, <1>2 DEF LastTerm, EntriesHaveTerms
<1>4. t <= x
  <2>1. L[k].term <= L[Len(L)].term
    BY <1>1, <1>2, TermsAscend DEF BaseInv
  <2> QED
    BY <1>2, <1>3, <2>1
<1>5. C # <<>>
  BY <1>1, <1>2, <1>3 DEF UpToDate, LastTerm
<1>6. /\ Len(C) \in DOMAIN C /\ y = C[Len(C)].term /\ y \in Nat
      /\ y > x \/ (y = x /\ Len(C) >= Len(L))
  <2>1. Len(C) \in DOMAIN C
    BY <1>1, <1>5
  <2>2. y = C[Len(C)].term
    BY <1>5 DEF LastTerm
  <2> QED
    BY <1>1, <2>1, <2>2 DEF EntriesHaveTerms, UpToDate
<1>7. /\ y \in DOMAIN led /\ Len(C) <= Len(led[y].log)
      /\ \A j \in 1 .. Len(C) : C[j] = led[y].log[j]
  BY <1>1, <1>6 DEF Vouched
<1>8. /\ x \in DOMAIN led /\ Len(L) <= Len(led[x].log)
      /\ \A j \in 1 .. Len(L) : L[j] = led[x].log[j]
  BY <1>1, <1>2, <1>3 DEF Vouched
<1> HIDE DEF L, C, x, y
<1>9. CASE y = x
  <2>1. k \in 1 .. Len(C) /\ C[k] = L[k]
    BY <1>1, <1>2, <1>6, <1>7, <1>8, <1>9
  <2> QED
    BY <1>1, <1>2, <2>1 DEF Has, C
<1>10. CASE y # x
  <2>1. t < y
    BY <1>3, <1>4, <1>6, <1>10
  <2>2. y < u
    <3>1. y <= term[c]
      BY <1>1, <1>6 DEF NoneAbove
    <3> QED
      BY <1>1, <1>6, <1>7, <3>1
  <2>3. CASE ~Has(led[y].log, k, t)
    BY <1>7, <2>1, <2>2, <2>3 DEF Skipped
  <2>4. CASE Has(led[y].log, k, t)
    <3>1. led[y].log \in Seq(Entry) /\ Vouched(led[y].log)
      BY <1>7 DEF BaseInv, ReplicationTypeOK, LogsVouched
    <3>2. k <= Len(C)
      <4> SUFFICES ASSUME k > Len(C) PROVE FALSE
        BY <1>1
      <4>1. k \in DOMAIN led[y].log /\ Len(C) \in 1 .. k
        BY <1>1, <1>6, <2>4 DEF Has
      <4>2. led[y].log[Len(C)].term <= led[y].log[k].term
        BY <3>1, <4>1, TermsAscend DEF BaseInv
      <4>3. led[y].log[Len(C)].term = y /\ led[y].log[k].term = t
        BY <1>6, <1>7, <2>4, <1>1 DEF Has
      <4> QED
        BY <1>6, <2>1, <4>2, <4>3
    <3> QED
      BY <1>1, <1>2, <1>7, <2>4, <3>2 DEF Has, C
  <2> QED
    BY <2>3, <2>4
<1> QED
  BY <1>9, <1>10

\* What a node has held stays held, whatever the step.
LEMMA HeldStays ==
    ASSUME BaseInv, BaseInv', Evolves, EntriesHaveTerms,
           NEW r \in Server, NEW k \in Nat, NEW t \in Nat, Held(r, k, t)
    PROVE  Held(r, k, t)'
<1>1. \A i \in Server : term[i] \in Nat /\ term'[i] \in Nat /\ term'[i] >= term[i]
  BY DEF BaseInv, ReplicationTypeOK, Evolves, TermsGrow
<1>2. LedGrows /\ DOMAIN led \subseteq DOMAIN led' /\ DOMAIN led' \subseteq Nat
  BY DEF Evolves, LedGrows, BaseInv, ReplicationTypeOK
<1>3. term'[r] >= t
  BY <1>1 DEF Held
<1>4. Has(log'[r], k, t) \/ Skipped(k, t, term[r] + 1)'
  <2>1. CASE Has(log[r], k, t)
    <3>1. CASE Has(log'[r], k, t)
      BY <3>1
    <3>2. CASE ~Has(log'[r], k, t)
      <4>1. PICK u \in DOMAIN led : t < u /\ u <= term'[r] /\ ~Has(led[u].log, k, t)
        BY <2>1, <3>2 DEF Evolves, LogsKept
      <4>2. u \in Nat
        BY <1>2
      <4>3. Skipped(k, t, u + 1)
        BY <4>1, <4>2 DEF Skipped
      <4>4. u + 1 \in Nat /\ term'[r] + 1 \in Nat /\ u + 1 <= term'[r] + 1
        BY <1>1, <4>1, <4>2
      <4>5. PICK n \in Nat : n = term'[r] + 1
        BY <4>4
      <4>6. Skipped(k, t, n)'
        BY <1>2, <4>2, <4>3, <4>4, <4>5, SkippedStays
      <4> QED
        BY <4>5, <4>6 DEF Skipped
    <3> QED
      BY <3>1, <3>2
  <2>2. CASE Skipped(k, t, term[r] + 1)
    <3>1. PICK n \in Nat : n = term'[r] + 1
      BY <1>1
    <3>2. PICK u \in Nat : u = term[r] + 1
      BY <1>1
    <3>3. u <= n
      BY <1>1, <3>1, <3>2
    <3>4. Skipped(k, t, n)'
      BY <1>2, <2>2, <3>2, <3>3, SkippedStays
    <3> QED
      BY <3>1, <3>4 DEF Skipped
  <2> QED
    BY <2>1, <2>2 DEF Held
<1>5. ASSUME NEW u \in DOMAIN led', t < u, r \in led'[u].voters
      PROVE  Has(led'[u].log, k, t) \/ Skipped(k, t, u)'
  <2>1. u \in Nat
    BY <1>2
  <2>2. CASE u \in DOMAIN led
    <3>1. Has(led[u].log, k, t) \/ Skipped(k, t, u)
      BY <1>2, <1>5, <2>2 DEF Held, LedGrows
    <3> QED
      BY <1>2, <2>1, <2>2, <3>1, LedHas, SkippedStays
  <2>3. CASE u \notin DOMAIN led
    <3>1. PICK c \in Server :
              /\ role[c] = "Candidate" /\ term[c] = u
              /\ [voter |-> r, term |-> u, candidate |-> c] \in votes
              /\ \A j \in DOMAIN log[c] : j \in DOMAIN led'[u].log /\ led'[u].log[j] = log[c][j]
      BY <1>5, <2>3 DEF Evolves, WinnersStood
    <3>2. Has(log[c], k, t) \/ Skipped(k, t, u)
      BY <1>5, <2>3, <3>1 DEF Held
    <3> QED
      BY <1>2, <2>1, <3>1, <3>2, SkippedStays DEF Has
  <2> QED
    BY <2>2, <2>3
<1>6. ASSUME NEW c \in Server, role'[c] = "Candidate", t < term'[c], term'[c] \notin DOMAIN led',
             [voter |-> r, term |-> term'[c], candidate |-> c] \in votes'
      PROVE  Has(log'[c], k, t) \/ Skipped(k, t, term[c])'
  <2> DEFINE v == [voter |-> r, term |-> term'[c], candidate |-> c]
  <2>1. PICK u \in Nat : u = term'[c]
    BY <1>1
  <2>2. u \notin DOMAIN led /\ log'[c] = log[c] /\ t < u
    BY <1>2, <1>6, <2>1 DEF Evolves, CandidatesStay
  <2>3. Has(log[c], k, t) \/ Skipped(k, t, u)
    <3>1. CASE v \in votes
      <4>1. u <= term[c]
        BY <2>1, <3>1 DEF BaseInv, VotesReached
      <4>2. role[c] = "Candidate" /\ term[c] = u
        BY <1>1, <1>6, <2>1, <4>1 DEF Evolves, CandidatesStay
      <4> QED
        BY <2>1, <2>2, <3>1, <4>2 DEF Held
    <3>2. CASE v \notin votes
      <4>1. u = term'[r] /\ UpToDate(log[c], log[r])
        BY <1>6, <2>1, <3>2 DEF Evolves, VotesFresh
      <4>2. CASE Has(log[r], k, t)
        BY <1>1, <2>1, <2>2, <4>1, <4>2, UpToDateHas
      <4>3. CASE Skipped(k, t, term[r] + 1)
        <5>1. PICK x \in DOMAIN led : t < x /\ x < term[r] + 1 /\ ~Has(led[x].log, k, t)
          BY <4>3 DEF Skipped
        <5>2. x \in Nat /\ x # u
          BY <1>2, <2>2
        <5>3. x < u
          BY <1>1, <4>1, <5>1, <5>2
        <5> QED
          BY <5>1, <5>3 DEF Skipped
      <4> QED
        BY <4>2, <4>3 DEF Held
    <3> QED
      BY <3>1, <3>2
  <2>4. Has(log[c], k, t) \/ Skipped(k, t, u)'
    BY <1>2, <2>3, SkippedStays
  <2> QED
    BY <2>1, <2>2, <2>4 DEF Skipped
<1> QED
  BY <1>3, <1>4, <1>5, <1>6 DEF Held

\* A node holds an entry of the term it is in: it has not voted since.
LEMMA HeldNow ==
    \A r \in Server : \A k \in Nat :
        BaseInv /\ Has(log[r], k, term[r]) => Held(r, k, term[r])
<1> SUFFICES ASSUME NEW r \in Server, NEW k \in Nat, BaseInv, Has(log[r], k, term[r])
             PROVE  Held(r, k, term[r])
  OBVIOUS
<1>1. \A i \in Server : term[i] \in Nat
  BY DEF BaseInv, ReplicationTypeOK
<1>2. \A u \in DOMAIN led : r \in led[u].voters => ~(term[r] < u)
  BY <1>1 DEF BaseInv, ReplicationTypeOK, VotesReached
<1>3. \A c \in Server : [voter |-> r, term |-> term[c], candidate |-> c] \in votes =>
                           ~(term[r] < term[c])
  BY <1>1 DEF BaseInv, VotesReached
<1> QED
  BY <1>1, <1>2, <1>3 DEF Held

LEMMA HeldNowPrimed ==
    \A r \in Server : \A k \in Nat :
        BaseInv' /\ Has(log'[r], k, term'[r]) => Held(r, k, term[r])'
<1>1. (\A r \in Server : \A k \in Nat :
        BaseInv /\ Has(log[r], k, term[r]) => Held(r, k, term[r]))'
  BY HeldNow, PTL
<1> QED
  BY <1>1 DEF Has

(***************************************************************************)
(* What a majority has held.                                               *)
(***************************************************************************)

\* The least later leader without the entry would have had the vote of a node that
\* has held it.
LEMMA LedHasChosen ==
    ASSUME IsFiniteSet(Server), BaseInv, NEW k \in Nat, NEW t \in DOMAIN led, Chosen(k, t),
           NEW u \in DOMAIN led, t < u
    PROVE  Has(led[u].log, k, t)
<1> SUFFICES ASSUME ~Has(led[u].log, k, t)
             PROVE  FALSE
  OBVIOUS
<1> DEFINE Without == {w \in DOMAIN led : t < w /\ ~Has(led[w].log, k, t)}
<1>1. Without \subseteq Nat /\ Without # {}
  BY DEF BaseInv, ReplicationTypeOK
<1>2. PICK w \in Without : \A x \in Without : w <= x
  BY <1>1, LeastElement
<1>3. PICK Q \in Majorities : \A r \in Q : Held(r, k, t)
  BY DEF Chosen
<1>4. led[w].voters \in Majorities
  BY DEF BaseInv, ReplicationTypeOK
<1>5. PICK r \in Q : r \in led[w].voters
  BY <1>3, <1>4, MajoritiesMeet DEF Majorities
<1>6. Held(r, k, t)
  BY <1>3, <1>5
<1>7. Skipped(k, t, w)
  BY <1>5, <1>6 DEF Held
<1>8. PICK x \in Without : x < w
  BY <1>7 DEF Skipped
<1>9. w <= x /\ w \in Nat /\ x \in Nat
  BY <1>1, <1>2
<1> QED
  BY <1>8, <1>9

\* Up to a chosen entry, the logs of later leaders are that of its own.
LEMMA LaterLeadersAgree ==
    ASSUME IsFiniteSet(Server), BaseInv, NEW k \in Nat, NEW t \in DOMAIN led, Chosen(k, t),
           NEW u \in DOMAIN led, t <= u
    PROVE  k <= Len(led[u].log) /\ \A j \in 1 .. k : led[u].log[j] = led[t].log[j]
<1>1. Has(led[t].log, k, t) /\ t \in Nat /\ u \in Nat
  BY DEF Chosen, BaseInv, ReplicationTypeOK
<1>2. Has(led[u].log, k, t)
  BY <1>1, LedHasChosen
<1>3. led[t].log \in Seq(Entry) /\ led[u].log \in Seq(Entry)
  BY DEF BaseInv, ReplicationTypeOK
<1>4. Vouched(led[t].log) /\ Vouched(led[u].log)
  BY DEF BaseInv, LogsVouched
<1> QED
  BY <1>1, <1>2, <1>3, <1>4, VouchedAgree DEF Has

\* What is chosen stays chosen.
LEMMA ChosenStays ==
    ASSUME BaseInv, BaseInv', Evolves, EntriesHaveTerms,
           NEW k \in Nat, NEW t \in DOMAIN led, Chosen(k, t)
    PROVE  Chosen(k, t)'
<1>1. t \in Nat /\ t \in DOMAIN led' /\ LedGrows
  BY DEF BaseInv, ReplicationTypeOK, Evolves, LedGrows
<1>2. Has(led'[t].log, k, t)
  BY <1>1, LedHas DEF Chosen
<1>3. PICK Q \in Majorities : \A r \in Q : Held(r, k, t)
  BY DEF Chosen
<1>4. \A r \in Q : Held(r, k, t)'
  BY <1>1, <1>3, HeldStays DEF Majorities
<1> QED
  BY <1>1, <1>2, <1>3, <1>4 DEF Chosen, Has

\* A log that is settled up to n stays so as long as it keeps that part.
LEMMA SettledStays ==
    ASSUME BaseInv, BaseInv', Evolves, EntriesHaveTerms,
           NEW l, NEW n \in Nat, NEW t \in Nat, Settled(l, n, t),
           NEW m, NEW u \in Nat, t <= u, \A j \in 1 .. n : m[j] = l[j]
    PROVE  Settled(m, n, u)'
<1>1. CASE n = 0
  BY <1>1 DEF Settled
<1>2. CASE n # 0
  <2>1. PICK w \in DOMAIN led : \E k \in DOMAIN led[w].log :
            /\ Chosen(k, w) /\ w <= t /\ n <= k
            /\ \A j \in 1 .. n : l[j] = led[w].log[j]
    BY <1>2 DEF Settled
  <2>2. PICK k \in DOMAIN led[w].log :
            /\ Chosen(k, w) /\ w <= t /\ n <= k
            /\ \A j \in 1 .. n : l[j] = led[w].log[j]
    BY <2>1
  <2>3. /\ w \in Nat /\ w \in DOMAIN led' /\ k \in Nat
        /\ led[w].log \in Seq(Entry) /\ led'[w].log \in Seq(Entry)
    BY DEF BaseInv, ReplicationTypeOK, Evolves, LedGrows
  <2>4. Chosen(k, w)'
    BY <2>2, <2>3, ChosenStays
  <2>5. k \in DOMAIN led'[w].log /\ \A j \in 1 .. n : led'[w].log[j] = led[w].log[j]
    BY <2>2, <2>3 DEF Evolves, LedGrows
  <2>6. w <= u
    BY <2>2, <2>3
  <2> QED
    BY <2>2, <2>3, <2>4, <2>5, <2>6 DEF Settled
<1> QED
  BY <1>1, <1>2

(***************************************************************************)
(* What a step may do to commit indices, requests, answers and match.      *)
(***************************************************************************)

CommitsMove ==
    \A i \in Server :
        \/ /\ commit'[i] = commit[i] /\ commit[i] <= Len(log'[i])
           /\ \A j \in 1 .. commit[i] : log'[i][j] = log[i][j]
        \/ commit'[i] = 0
        \/ \E m \in requests :
              /\ commit'[i] = m.leader_commit /\ m.term <= term'[i]
              /\ m.leader_commit <= Len(log'[i])
              /\ \A j \in 1 .. m.leader_commit : log'[i][j] = led[m.term].log[j]
        \/ /\ role[i] = "Leader" /\ log'[i] = log[i] /\ term'[i] = term[i]
           /\ commit'[i] \in DOMAIN log[i] /\ Chosen(commit'[i], term[i])

RequestsMove ==
    \A m \in requests' : m \in requests \/ \E i \in Server : role[i] = "Leader" /\ Sends(i, m)

OksMove ==
    \A o \in oks' :
        \/ o \in oks
        \/ \E m \in requests :
              /\ o.term = m.term /\ o.index \in 1 .. Last(m) /\ term'[o.node] = m.term
              /\ Last(m) <= Len(log'[o.node])
              /\ \A j \in 1 .. Last(m) : log'[o.node][j] = led[m.term].log[j]

MatchMoves ==
    \A i \in Server : role'[i] = "Leader" =>
        \A p \in Server \ {i} :
            \/ match'[i][p] = 0
            \/ /\ role[i] = "Leader" /\ term'[i] = term[i]
               /\ \/ match'[i][p] = match[i][p]
                  \/ \E o \in oks : o.node = p /\ o.term = term[i] /\ match'[i][p] = o.index

Moves == CommitsMove /\ RequestsMove /\ OksMove /\ MatchMoves

\* The invariant once more, in two parts.
LEMMA InvParts ==
    /\ ReplicationInv <=> BaseInv /\ OksHeld /\ MatchHeld /\ CommitsSettled
    /\ (ReplicationInv <=> BaseInv /\ OksHeld /\ MatchHeld /\ CommitsSettled)'
BY DEF ReplicationInv, BaseInv

\* Steps that leave commit indices alone and only lose messages.
LEMMA QuietMoves ==
    ASSUME ReplicationInv, UNCHANGED <<log, commit, match>>, Fewer,
           \A j \in Server : role'[j] = "Leader" => role[j] = "Leader" /\ term'[j] = term[j]
    PROVE  Moves
<1>1. \A i \in Server : commit[i] <= Len(log[i])
  BY DEF ReplicationInv, CommitsSettled
<1>2. CommitsMove
  BY <1>1 DEF CommitsMove
<1>3. RequestsMove /\ OksMove
  BY DEF RequestsMove, OksMove, Fewer
<1>4. MatchMoves
  BY DEF MatchMoves
<1> QED
  BY <1>2, <1>3, <1>4 DEF Moves

LEMMA WinMoves ==
    ASSUME ReplicationInv, NEW i \in Server, Win(i)
    PROVE  Moves
<1> DEFINE t == term[i]
<1>0. ReplicationTypeOK /\ \A j \in Server : commit[j] <= Len(log[j])
  BY DEF ReplicationInv, CommitsSettled
<1>1. /\ OneMore(log[i], led'[t].log, t)
      /\ log' = [log EXCEPT ![i] = led'[t].log]
      /\ role' = [role EXCEPT ![i] = "Leader"]
      /\ match' = [match EXCEPT ![i] = [p \in Server \ {i} |-> 0]]
      /\ Fewer /\ UNCHANGED <<term, commit>>
  BY DEF Win
<1>2. /\ Len(led'[t].log) = Len(log[i]) + 1
      /\ \A k \in 1 .. Len(log[i]) : led'[t].log[k] = log[i][k]
      /\ log[i] \in Seq(Entry)
  BY <1>0, <1>1, OneMoreKeeps DEF ReplicationTypeOK
<1> HIDE DEF t
<1>3. CommitsMove
  <2> SUFFICES ASSUME NEW j \in Server
               PROVE  /\ commit[j] <= Len(log'[j])
                      /\ \A k \in 1 .. commit[j] : log'[j][k] = log[j][k]
    BY <1>1 DEF CommitsMove
  <2>1. CASE j = i
    BY <1>0, <1>1, <1>2, <2>1 DEF ReplicationTypeOK
  <2>2. CASE j # i
    BY <1>0, <1>1, <2>2 DEF ReplicationTypeOK
  <2> QED
    BY <2>1, <2>2
<1>4. RequestsMove /\ OksMove
  BY <1>1 DEF RequestsMove, OksMove, Fewer
<1>5. MatchMoves
  BY <1>0, <1>1 DEF MatchMoves, ReplicationTypeOK
<1> QED
  BY <1>3, <1>4, <1>5 DEF Moves

LEMMA ExtendMoves ==
    ASSUME ReplicationInv, NEW i \in Server, Extend(i)
    PROVE  Moves
<1>0. BaseInv /\ \A j \in Server : commit[j] <= Len(log[j])
  BY InvParts DEF CommitsSettled
<1>1. /\ OneMore(log[i], log'[i], term[i])
      /\ \A j \in Server \ {i} : log'[j] = log[j]
      /\ UNCHANGED <<term, role, commit, match>>
  BY <1>0, ExtendFacts
<1>2. /\ Len(log'[i]) = Len(log[i]) + 1
      /\ \A k \in 1 .. Len(log[i]) : log'[i][k] = log[i][k]
      /\ log[i] \in Seq(Entry) /\ commit[i] \in Nat
  BY <1>0, <1>1, OneMoreKeeps DEF BaseInv, ReplicationTypeOK
<1>3. CommitsMove
  <2> SUFFICES ASSUME NEW j \in Server
               PROVE  /\ commit[j] <= Len(log'[j])
                      /\ \A k \in 1 .. commit[j] : log'[j][k] = log[j][k]
    BY <1>1 DEF CommitsMove
  <2>1. CASE j = i
    BY <1>0, <1>1, <1>2, <2>1
  <2>2. CASE j # i
    BY <1>0, <1>1, <2>2
  <2> QED
    BY <2>1, <2>2
<1>4. RequestsMove /\ OksMove
  BY DEF RequestsMove, OksMove, Fewer, Extend
<1>5. MatchMoves
  BY <1>1 DEF MatchMoves
<1> QED
  BY <1>3, <1>4, <1>5 DEF Moves

LEMMA SendMoves ==
    ASSUME ReplicationInv, NEW i \in Server, Send(i)
    PROVE  Moves
<1>0. \A j \in Server : commit[j] <= Len(log[j])
  BY DEF ReplicationInv, CommitsSettled
<1>1. UNCHANGED <<term, role, log, commit, match>> /\ oks' \subseteq oks
  BY DEF Send, nodes
<1>2. RequestsMove
  BY DEF Send, RequestsMove
<1> QED
  BY <1>0, <1>1, <1>2 DEF Moves, CommitsMove, OksMove, MatchMoves

LEMMA RestartMoves ==
    ASSUME ReplicationInv, NEW i \in Server, Restart(i)
    PROVE  Moves
<1>0. ReplicationTypeOK /\ \A j \in Server : commit[j] <= Len(log[j])
  BY DEF ReplicationInv, CommitsSettled
<1>1. CommitsMove
  BY <1>0 DEF CommitsMove, Restart, ReplicationTypeOK
<1>2. RequestsMove /\ OksMove
  BY DEF RequestsMove, OksMove, Fewer, Restart
<1>3. MatchMoves
  BY <1>0 DEF MatchMoves, Restart, ReplicationTypeOK
<1> QED
  BY <1>1, <1>2, <1>3 DEF Moves

\* A log that is settled up to n, in a term that a leader has reached, is the
\* leader's up to there.
LEMMA SettledIsLed ==
    ASSUME IsFiniteSet(Server), BaseInv, NEW l, NEW n \in Nat, NEW t \in Nat, Settled(l, n, t),
           NEW u \in DOMAIN led, t <= u
    PROVE  n <= Len(led[u].log) /\ \A j \in 1 .. n : led[u].log[j] = l[j]
<1>1. led[u].log \in Seq(Entry) /\ u \in Nat
  BY DEF BaseInv, ReplicationTypeOK
<1>2. CASE n = 0
  BY <1>1, <1>2
<1>3. CASE n # 0
  <2>1. PICK w \in DOMAIN led : \E k \in DOMAIN led[w].log :
            /\ Chosen(k, w) /\ w <= t /\ n <= k
            /\ \A j \in 1 .. n : l[j] = led[w].log[j]
    BY <1>3 DEF Settled
  <2>2. PICK k \in DOMAIN led[w].log :
            /\ Chosen(k, w) /\ w <= t /\ n <= k
            /\ \A j \in 1 .. n : l[j] = led[w].log[j]
    BY <2>1
  <2>3. w \in Nat /\ k \in Nat /\ w <= u
    BY <1>1, <2>2 DEF BaseInv, ReplicationTypeOK
  <2>4. k <= Len(led[u].log) /\ \A j \in 1 .. k : led[u].log[j] = led[w].log[j]
    BY <2>2, <2>3, LaterLeadersAgree
  <2> QED
    BY <1>1, <2>2, <2>3, <2>4
<1> QED
  BY <1>2, <1>3

\* The repair of a log leaves its committed part alone.
LEMMA AcceptKeepsCommitted ==
    ASSUME IsFiniteSet(Server), ReplicationInv, NEW i \in Server, NEW m, Accept(i, m)
    PROVE  /\ commit[i] <= Len(log'[i])
           /\ \A j \in 1 .. commit[i] : log'[i][j] = log[i][j]
<1> DEFINE F == led[m.term].log
<1>1. /\ m.term \in DOMAIN led /\ term[i] <= m.term /\ Last(m) \in Nat
      /\ F \in Seq(Entry) /\ log'[i] \in Seq(Entry)
      /\ Last(m) <= Len(log'[i]) /\ \A j \in 1 .. Last(m) : log'[i][j] = F[j]
      /\ \/ log'[i] = log[i]
         \/ /\ Len(log'[i]) = Last(m)
            /\ \E j \in 1 .. Last(m) : j > Len(log[i]) \/ log[i][j] # F[j]
  BY InvParts, AcceptFacts
<1>2. /\ commit[i] \in Nat /\ term[i] \in Nat /\ log[i] \in Seq(Entry)
      /\ commit[i] <= Len(log[i]) /\ Settled(log[i], commit[i], term[i])
  BY DEF ReplicationInv, ReplicationTypeOK, CommitsSettled
<1>3. \A j \in 1 .. commit[i] : F[j] = log[i][j]
  BY SMTT(30), <1>1, <1>2, InvParts, SettledIsLed
<1> HIDE DEF F
<1>4. CASE log'[i] = log[i]
  BY <1>2, <1>4
<1>5. CASE log'[i] # log[i]
  <2>1. commit[i] <= Last(m)
    BY <1>1, <1>2, <1>3, <1>5
  <2> QED
    BY <1>1, <1>2, <1>3, <2>1
<1> QED
  BY <1>4, <1>5

LEMMA AcceptMoves ==
    ASSUME IsFiniteSet(Server), ReplicationInv, NEW i \in Server, NEW m, Accept(i, m)
    PROVE  Moves
<1> DEFINE F == led[m.term].log
<1>0. BaseInv /\ \A j \in Server : commit[j] <= Len(log[j])
  BY InvParts DEF CommitsSettled
<1>1. /\ m \in requests /\ RequestOK(m)
      /\ Last(m) \in Nat /\ m.leader_commit <= Last(m) /\ log'[i] \in Seq(Entry)
      /\ Last(m) <= Len(log'[i]) /\ \A j \in 1 .. Last(m) : log'[i][j] = F[j]
      /\ term'[i] = m.term
      /\ \A j \in Server \ {i} : log'[j] = log[j] /\ term'[j] = term[j]
                                 /\ role'[j] = role[j] /\ commit'[j] = commit[j]
      /\ role'[i] = "Follower"
      /\ commit'[i] \in {commit[i], m.leader_commit}
  BY <1>0, AcceptFacts
<1>2. /\ UNCHANGED match /\ requests' \subseteq requests
      /\ \A o \in oks' : o \in oks \/ (o.node = i /\ o.term = m.term /\ o.index \in 1 .. Last(m))
  BY DEF Accept
<1> HIDE DEF F
<1>3. CommitsMove
  <2>1. CASE commit'[i] = commit[i]
    BY <1>0, <1>1, <2>1, AcceptKeepsCommitted DEF CommitsMove
  <2>2. CASE commit'[i] = m.leader_commit
    <3>1. /\ m.term <= term'[i] /\ m.leader_commit <= Len(log'[i])
          /\ \A j \in 1 .. m.leader_commit : log'[i][j] = led[m.term].log[j]
      BY <1>1 DEF F, RequestOK
    <3>2. \E n \in requests :
              /\ commit'[i] = n.leader_commit /\ n.term <= term'[i]
              /\ n.leader_commit <= Len(log'[i])
              /\ \A j \in 1 .. n.leader_commit : log'[i][j] = led[n.term].log[j]
      BY <1>1, <2>2, <3>1
    <3>3. \A j \in Server \ {i} :
              /\ commit'[j] = commit[j] /\ commit[j] <= Len(log'[j])
              /\ \A k \in 1 .. commit[j] : log'[j][k] = log[j][k]
      BY <1>0, <1>1
    <3> QED
      BY <3>2, <3>3 DEF CommitsMove
  <2> QED
    BY <1>1, <2>1, <2>2
<1>4. OksMove
  <2> SUFFICES ASSUME NEW o \in oks', o \notin oks
               PROVE  /\ o.term = m.term /\ o.index \in 1 .. Last(m) /\ term'[o.node] = m.term
                      /\ Last(m) <= Len(log'[o.node])
                      /\ \A j \in 1 .. Last(m) : log'[o.node][j] = led[m.term].log[j]
    BY <1>1 DEF OksMove
  <2> QED
    BY <1>1, <1>2 DEF F
<1>5. RequestsMove
  BY <1>2 DEF RequestsMove
<1>6. MatchMoves
  BY <1>1, <1>2 DEF MatchMoves
<1> QED
  BY <1>3, <1>4, <1>5, <1>6 DEF Moves

\* An entry of the leader's term that a majority has answered for is chosen.
LEMMA AdvanceMoves ==
    ASSUME ReplicationInv, NEW i \in Server, Advance(i)
    PROVE  Moves
<1> DEFINE t == term[i]
<1>0. BaseInv /\ \A j \in Server : commit[j] <= Len(log[j])
  BY InvParts DEF CommitsSettled
<1>1. /\ role[i] = "Leader" /\ Fewer /\ UNCHANGED <<term, role, log, votes, led>>
      /\ t \in Nat /\ t \in DOMAIN led /\ led[t].log = log[i] /\ log[i] \in Seq(Entry)
      /\ commit \in [Server -> Nat]
      /\ DOMAIN match = Server /\ \A j \in Server : match[j] \in [Server \ {j} -> Nat]
  BY <1>0 DEF Advance, BaseInv, ReplicationTypeOK, LeadersFollowed
<1>2. /\ \A j \in Server \ {i} : match'[j] = match[j]
      /\ DOMAIN match'[i] = Server \ {i}
      /\ \A p \in Server \ {i} :
            \/ match'[i][p] = match[i][p]
            \/ \E o \in oks : o.node = p /\ o.term = t /\ match'[i][p] = o.index
  <2>1. CASE match' = match
    BY <1>1, <2>1
  <2>2. ASSUME NEW o \in oks, o.term = t, o.node \in DOMAIN match[i],
               match' = [match EXCEPT ![i][o.node] = o.index]
        PROVE  /\ \A j \in Server \ {i} : match'[j] = match[j]
               /\ DOMAIN match'[i] = Server \ {i}
               /\ \A p \in Server \ {i} :
                     \/ match'[i][p] = match[i][p]
                     \/ p = o.node /\ match'[i][p] = o.index
    BY <1>1, <2>2
  <2> QED
    BY <2>1, <2>2 DEF Advance
<1> HIDE DEF t
<1>3. ASSUME NEW p \in Server \ {i}
      PROVE  match'[i][p] \in Nat /\ HeldUpTo(p, match'[i][p], t)
  <2>1. CASE match'[i][p] = match[i][p]
    BY <1>1, <2>1 DEF ReplicationInv, MatchHeld, t
  <2>2. ASSUME NEW o \in oks, o.node = p, o.term = t, match'[i][p] = o.index
        PROVE  match'[i][p] \in Nat /\ HeldUpTo(p, match'[i][p], t)
    BY <2>2 DEF ReplicationInv, OksHeld, ReplicationTypeOK
  <2> QED
    BY <1>2, <2>1, <2>2
<1>4. CommitsMove
  <2>1. CASE commit' = commit
    BY <1>0, <1>1, <2>1 DEF CommitsMove
  <2>2. CASE commit' # commit
    <3> DEFINE k == commit'[i]
               Q == {i} \cup {p \in DOMAIN match'[i] : match'[i][p] >= k}
    <3>1. Has(log[i], k, t) /\ Q \in Majorities
      BY <2>2 DEF Advance, t
    <3>2. \A j \in Server \ {i} : commit'[j] = commit[j]
      <4>1. PICK n : commit' = [commit EXCEPT ![i] = n]
        BY <2>2 DEF Advance
      <4> QED
        BY <1>1, <4>1
    <3>3. k \in Nat /\ k \in DOMAIN log[i] /\ k > 0
      BY <1>1, <3>1 DEF Has
    <3> HIDE DEF k
    <3>4. ASSUME NEW r \in Q
          PROVE  Held(r, k, t)
      <4>1. CASE r = i
        BY <1>0, <3>1, <3>3, <4>1, HeldNow DEF t
      <4>2. CASE r # i
        <5>1. r \in Server \ {i} /\ match'[i][r] >= k
          BY <1>2, <4>2
        <5>2. HeldUpTo(r, match'[i][r], t) /\ match'[i][r] \in Nat
          BY <1>3, <5>1
        <5>3. k \in 1 .. match'[i][r]
          BY <3>3, <5>1, <5>2
        <5> QED
          BY <1>1, <3>1, <5>2, <5>3 DEF HeldUpTo
      <4> QED
        BY <4>1, <4>2
    <3>5. Chosen(k, t)
      BY <1>1, <3>1, <3>4 DEF Chosen
    <3>6. /\ role[i] = "Leader" /\ log'[i] = log[i] /\ term'[i] = term[i]
          /\ commit'[i] \in DOMAIN log[i] /\ Chosen(commit'[i], term[i])
      BY <1>1, <3>3, <3>5 DEF k, t
    <3>7. \A j \in Server \ {i} :
              /\ commit'[j] = commit[j] /\ commit[j] <= Len(log'[j])
              /\ \A n \in 1 .. commit[j] : log'[j][n] = log[j][n]
      BY <1>0, <1>1, <3>2
    <3> QED
      BY <3>6, <3>7 DEF CommitsMove
  <2> QED
    BY <2>1, <2>2
<1>5. RequestsMove /\ OksMove
  BY <1>1 DEF RequestsMove, OksMove, Fewer
<1>6. MatchMoves
  BY <1>1, <1>2 DEF MatchMoves, t
<1> QED
  BY <1>4, <1>5, <1>6 DEF Moves

\* Every step moves commit indices, messages and match in these ways.
LEMMA StepMoves ==
    ASSUME IsFiniteSet(Server), ReplicationInv, [ReplicationNext]_replicationVars
    PROVE  Moves
<1>0. ReplicationTypeOK
  BY DEF ReplicationInv
<1>1. CASE UNCHANGED replicationVars
  BY <1>1, QuietMoves DEF replicationVars, nodes, Fewer
<1>2. ASSUME NEW i \in Server, Stand(i) \/ Observe(i)
      PROVE  Moves
  <2>1. UNCHANGED <<log, commit, match>> /\ Fewer
    BY <1>2 DEF Stand, Observe
  <2>2. \A j \in Server : role'[j] = "Leader" => role[j] = "Leader" /\ term'[j] = term[j]
    BY <1>0, <1>2 DEF Stand, Observe, MovesTo, ReplicationTypeOK
  <2> QED
    BY <2>1, <2>2, QuietMoves
<1>3. ASSUME NEW i \in Server, NEW v, GiveVote(i, v)
      PROVE  Moves
  <2>1. UNCHANGED <<log, commit, match>> /\ Fewer
    BY <1>3 DEF GiveVote
  <2>2. \A j \in Server : role'[j] = "Leader" => role[j] = "Leader" /\ term'[j] = term[j]
    BY <1>0, <1>3 DEF GiveVote, MovesTo, ReplicationTypeOK
  <2> QED
    BY <2>1, <2>2, QuietMoves
<1>4. ASSUME NEW i \in Server,
             Win(i) \/ Extend(i) \/ Send(i) \/ Advance(i) \/ Restart(i)
      PROVE  Moves
  BY <1>4, WinMoves, ExtendMoves, SendMoves, AdvanceMoves, RestartMoves
<1>5. ASSUME NEW i \in Server, NEW m, Accept(i, m)
      PROVE  Moves
  BY <1>5, AcceptMoves
<1> QED
  BY <1>1, <1>2, <1>3, <1>4, <1>5 DEF ReplicationNext, Work

(***************************************************************************)
(* The second part of the invariant.                                       *)
(***************************************************************************)

\* What a node has held up to an index stays held.
LEMMA HeldUpToStays ==
    ASSUME BaseInv, BaseInv', Evolves, EntriesHaveTerms,
           NEW r \in Server, NEW t \in DOMAIN led, NEW n \in Nat, n <= Len(led[t].log),
           HeldUpTo(r, n, t)
    PROVE  HeldUpTo(r, n, t)' /\ n <= Len(led'[t].log)
<1>1. /\ t \in Nat /\ t \in DOMAIN led' /\ led[t].log \in Seq(Entry) /\ led'[t].log \in Seq(Entry)
      /\ Len(led[t].log) <= Len(led'[t].log)
      /\ \A k \in 1 .. n : led'[t].log[k] = led[t].log[k]
  BY DEF BaseInv, ReplicationTypeOK, Evolves, LedGrows
<1>2. ASSUME NEW k \in 1 .. n, Has(led'[t].log, k, t)
      PROVE  Held(r, k, t)'
  <2>1. Has(led[t].log, k, t)
    BY <1>1, <1>2 DEF Has
  <2>2. Held(r, k, t)
    BY <2>1 DEF HeldUpTo
  <2> QED
    BY <1>1, <2>2, HeldStays
<1> QED
  BY <1>1, <1>2 DEF HeldUpTo, Has

LEMMA OksHeldStep ==
    ASSUME BaseInv, OksHeld, BaseInv', Evolves, Moves, EntriesHaveTerms
    PROVE  OksHeld'
<1> SUFFICES ASSUME NEW o \in oks'
             PROVE  o.index <= Len(led'[o.term].log) /\ HeldUpTo(o.node, o.index, o.term)'
  BY DEF OksHeld
<1>1. o.node \in Server /\ o.term \in DOMAIN led' /\ o.index \in Nat
  BY DEF BaseInv, ReplicationTypeOK
<1>2. CASE o \in oks
  BY <1>2, HeldUpToStays DEF BaseInv, ReplicationTypeOK, OksHeld
<1>3. CASE o \notin oks
  <2>1. PICK m \in requests :
              /\ o.term = m.term /\ o.index \in 1 .. Last(m) /\ term'[o.node] = m.term
              /\ Last(m) <= Len(log'[o.node])
              /\ \A j \in 1 .. Last(m) : log'[o.node][j] = led[m.term].log[j]
    BY <1>3 DEF Moves, OksMove
  <2>2. /\ m.term \in DOMAIN led /\ m.term \in Nat /\ Last(m) \in Nat
        /\ led[m.term].log \in Seq(Entry) /\ Last(m) <= Len(led[m.term].log)
    BY DEF BaseInv, ReplicationTypeOK, RequestOK, RequestsVouched, Last
  <2> HIDE DEF Last
  <2>5. /\ led'[m.term].log \in Seq(Entry) /\ Len(led[m.term].log) <= Len(led'[m.term].log)
        /\ \A k \in DOMAIN led[m.term].log : led'[m.term].log[k] = led[m.term].log[k]
        /\ log'[o.node] \in Seq(Entry)
    BY <1>1, <2>1, <2>2 DEF BaseInv, ReplicationTypeOK, Evolves, LedGrows
  <2>6. \A k \in 1 .. Last(m) : led'[m.term].log[k] = led[m.term].log[k]
    BY <2>2, <2>5
  <2>3. ASSUME NEW k \in 1 .. o.index, Has(led'[o.term].log, k, o.term)
        PROVE  Held(o.node, k, o.term)'
    <3>1. k \in Nat /\ k \in 1 .. Last(m)
      BY <1>1, <2>1, <2>2
    <3>3. log'[o.node][k] = led'[o.term].log[k] /\ k \in DOMAIN log'[o.node]
      BY <2>1, <2>2, <2>5, <2>6, <3>1
    <3>4. Has(log'[o.node], k, term'[o.node])
      BY <2>1, <2>3, <3>3 DEF Has
    <3>2. Held(o.node, k, term[o.node])'
      BY <1>1, <3>1, <3>4, HeldNowPrimed
    <3> QED
      BY <2>1, <3>2 DEF Held, Skipped, Has
  <2>4. o.index <= Len(led'[o.term].log)
    BY <1>1, <2>1, <2>2, <2>5
  <2> QED
    BY <2>3, <2>4 DEF HeldUpTo, Has
<1> QED
  BY <1>2, <1>3

LEMMA MatchHeldStep ==
    ASSUME BaseInv, OksHeld, MatchHeld, BaseInv', Evolves, Moves, EntriesHaveTerms
    PROVE  MatchHeld'
<1> SUFFICES ASSUME NEW i \in Server, role'[i] = "Leader", NEW p \in Server \ {i}
             PROVE  match'[i][p] <= Len(log'[i]) /\ HeldUpTo(p, match[i][p], term[i])'
  BY DEF MatchHeld
<1>1. /\ term'[i] \in DOMAIN led' /\ led'[term'[i]].log = log'[i]
      /\ log'[i] \in Seq(Entry) /\ match'[i][p] \in Nat
  <2>1. match'[i] \in [Server \ {i} -> Nat]
    BY DEF BaseInv, ReplicationTypeOK
  <2> QED
    BY <2>1 DEF BaseInv, LeadersFollowed, ReplicationTypeOK
<1>2. CASE match'[i][p] = 0
  BY <1>1, <1>2 DEF HeldUpTo
<1>3. CASE match'[i][p] # 0
  <2>1. PICK n \in Nat : n = match'[i][p]
    BY <1>1
  <2>2. role[i] = "Leader" /\ term'[i] = term[i]
    BY <1>3 DEF Moves, MatchMoves
  <2>3. PICK t \in DOMAIN led : t = term[i] /\ led[t].log = log[i]
    BY <2>2 DEF BaseInv, LeadersFollowed
  <2>4. n <= Len(led[t].log) /\ HeldUpTo(p, n, t)
    <3>1. CASE match'[i][p] = match[i][p]
      BY <2>1, <2>2, <2>3, <3>1 DEF MatchHeld
    <3>2. ASSUME NEW o \in oks, o.node = p, o.term = term[i], match'[i][p] = o.index
          PROVE  n <= Len(led[t].log) /\ HeldUpTo(p, n, t)
      BY <2>1, <2>3, <3>2 DEF OksHeld
    <3> QED
      BY <1>3, <3>1, <3>2 DEF Moves, MatchMoves
  <2>5. n <= Len(led'[t].log) /\ HeldUpTo(p, n, t)'
    BY <2>4, HeldUpToStays
  <2> QED
    BY <1>1, <2>1, <2>2, <2>3, <2>5 DEF HeldUpTo
<1> QED
  BY <1>2, <1>3

LEMMA CommitsSettledStep ==
    ASSUME BaseInv, CommitsSettled, BaseInv', Evolves, Moves, EntriesHaveTerms
    PROVE  CommitsSettled'
<1>0. \A i \in Server : /\ term[i] \in Nat /\ term'[i] \in Nat /\ term[i] <= term'[i]
                        /\ commit[i] \in Nat /\ commit'[i] \in Nat
                        /\ log[i] \in Seq(Entry) /\ log'[i] \in Seq(Entry)
  BY DEF BaseInv, ReplicationTypeOK, Evolves, TermsGrow
<1>1. ASSUME NEW i \in Server
      PROVE  commit'[i] <= Len(log'[i]) /\ Settled(log[i], commit[i], term[i])'
  <2>5. PICK m : m = log'[i]
    OBVIOUS
  <2>0. PICK n \in Nat, u \in Nat : m = log'[i] /\ n = commit'[i] /\ u = term'[i]
    BY <1>0, <2>5
  <2> SUFFICES n <= Len(m) /\ Settled(m, n, u)'
    BY <2>0 DEF Settled
  <2>1. CASE commit'[i] = commit[i] /\ commit[i] <= Len(log'[i])
             /\ \A j \in 1 .. commit[i] : log'[i][j] = log[i][j]
    <3>4. PICK l : l = log[i]
      OBVIOUS
    <3>1. PICK t \in Nat : l = log[i] /\ t = term[i]
      BY <1>0, <3>4
    <3>2. Settled(l, n, t)
      BY <2>0, <2>1, <3>1 DEF CommitsSettled
    <3>3. t <= u /\ \A j \in 1 .. n : m[j] = l[j]
      BY <1>0, <2>0, <2>1, <3>1
    <3>5. Settled(m, n, u)'
      BY <3>2, <3>3, SettledStays
    <3> QED
      BY <2>0, <2>1, <3>5
  <2>2. CASE commit'[i] = 0
    BY <1>0, <2>0, <2>2 DEF Settled
  <2>3. ASSUME NEW q \in requests, commit'[i] = q.leader_commit, q.term <= term'[i],
               q.leader_commit <= Len(log'[i]),
               \A j \in 1 .. q.leader_commit : log'[i][j] = led[q.term].log[j]
        PROVE  n <= Len(m) /\ Settled(m, n, u)'
    <3>4. PICK l : l = led[q.term].log
      OBVIOUS
    <3>1. PICK t \in Nat : l = led[q.term].log /\ t = q.term
      BY <3>4 DEF BaseInv, ReplicationTypeOK, RequestOK
    <3>2. Settled(l, n, t)
      BY <2>0, <2>3, <3>1 DEF CommitsSettled
    <3>3. t <= u /\ \A j \in 1 .. n : m[j] = l[j]
      BY <2>0, <2>3, <3>1
    <3>5. Settled(m, n, u)'
      BY <3>2, <3>3, SettledStays
    <3> QED
      BY <2>0, <2>3, <3>5
  <2>4. CASE /\ role[i] = "Leader" /\ log'[i] = log[i] /\ term'[i] = term[i]
             /\ commit'[i] \in DOMAIN log[i] /\ Chosen(commit'[i], term[i])
    <3>1. u \in DOMAIN led /\ led[u].log = m
      BY <2>0, <2>4 DEF BaseInv, LeadersFollowed
    <3>2. Chosen(n, u) /\ n \in DOMAIN led[u].log
      BY <2>0, <2>4, <3>1
    <3>3. Settled(m, n, u)
      BY <3>1, <3>2 DEF Settled
    <3>4. n <= Len(m)
      BY <1>0, <2>0, <2>4
    <3> QED
      BY <3>3, <3>4, SettledStays
  <2> QED
    BY <2>1, <2>2, <2>3, <2>4 DEF Moves, CommitsMove
<1>2. ASSUME NEW q \in requests'
      PROVE  Settled(led[q.term].log, q.leader_commit, q.term)'
  <2>0. q.term \in Nat /\ q.leader_commit \in Nat
    BY DEF BaseInv, ReplicationTypeOK, RequestOK
  <2>1. PICK m : m = led'[q.term].log
    OBVIOUS
  <2> SUFFICES Settled(m, q.leader_commit, q.term)'
    BY <2>1 DEF Settled
  <2>2. CASE q \in requests
    <3>1. PICK l : l = led[q.term].log
      OBVIOUS
    <3>2. Settled(l, q.leader_commit, q.term)
      BY <2>2, <3>1 DEF CommitsSettled
    <3>3. q.term \in DOMAIN led /\ Last(q) \in Nat /\ Last(q) <= Len(l) /\ q.leader_commit <= Last(q)
      BY <2>2, <3>1 DEF BaseInv, ReplicationTypeOK, RequestOK, RequestsVouched, Last
    <3>4. l \in Seq(Entry)
      BY <3>1, <3>3 DEF BaseInv, ReplicationTypeOK
    <3>5. \A j \in 1 .. q.leader_commit : j \in DOMAIN l
      BY <2>0, <3>3, <3>4
    <3>6. \A j \in 1 .. q.leader_commit : m[j] = l[j]
      BY <2>1, <3>1, <3>3, <3>5 DEF Evolves, LedGrows
    <3>7. q.term <= q.term
      BY <2>0
    <3> QED
      BY <2>0, <3>2, <3>6, <3>7, SettledStays
  <2>3. CASE q \notin requests
    <3>1. PICK i \in Server : role[i] = "Leader" /\ Sends(i, q)
      BY <2>3 DEF Moves, RequestsMove
    <3>2. PICK l : l = log[i]
      OBVIOUS
    <3>3. /\ q.term = term[i] /\ q.term \in DOMAIN led /\ led[q.term].log = l
          /\ q.leader_commit <= commit[i] /\ commit[i] <= Len(l) /\ l \in Seq(Entry)
      BY <1>0, <3>1, <3>2 DEF Sends, BaseInv, LeadersFollowed, CommitsSettled
    <3>4. Settled(l, commit[i], q.term)
      BY <3>2, <3>3 DEF CommitsSettled
    <3>5. Settled(l, q.leader_commit, q.term)
      <4>1. CASE q.leader_commit = 0
        BY <4>1 DEF Settled
      <4>2. CASE q.leader_commit # 0
        <5>1. commit[i] # 0
          BY <1>0, <2>0, <3>3, <4>2
        <5>2. PICK w \in DOMAIN led : \E k \in DOMAIN led[w].log :
                  /\ Chosen(k, w) /\ w <= q.term /\ commit[i] <= k
                  /\ \A j \in 1 .. commit[i] : l[j] = led[w].log[j]
          BY <3>4, <5>1 DEF Settled
        <5>3. PICK k \in DOMAIN led[w].log :
                  /\ Chosen(k, w) /\ w <= q.term /\ commit[i] <= k
                  /\ \A j \in 1 .. commit[i] : l[j] = led[w].log[j]
          BY <5>2
        <5>4. k \in Nat
          BY DEF BaseInv, ReplicationTypeOK
        <5>5. q.leader_commit <= k /\ \A j \in 1 .. q.leader_commit : l[j] = led[w].log[j]
          BY <1>0, <2>0, <3>3, <5>3, <5>4
        <5> QED
          BY <5>3, <5>5 DEF Settled
      <4> QED
        BY <4>1, <4>2
    <3>6. \A j \in 1 .. q.leader_commit : j \in DOMAIN l
      BY <1>0, <2>0, <3>3
    <3>7. \A j \in 1 .. q.leader_commit : m[j] = l[j]
      BY <2>1, <3>3, <3>6 DEF Evolves, LedGrows
    <3> QED
      BY <2>0, <3>5, <3>7, SettledStays
  <2> QED
    BY <2>2, <2>3
<1> QED
  BY <1>1, <1>2 DEF CommitsSettled

LEMMA ReplicationInitOK == ReplicationInit => ReplicationInv
<1> SUFFICES ASSUME ReplicationInit PROVE ReplicationInv
  OBVIOUS
<1>0. led = <<>> /\ DOMAIN led = {} /\ requests = {} /\ oks = {} /\ votes = {}
  BY DEF ReplicationInit
<1>1. /\ term = [i \in Server |-> 0] /\ role = [i \in Server |-> "Follower"]
      /\ log = [i \in Server |-> <<>>] /\ commit = [i \in Server |-> 0]
      /\ match = [i \in Server |-> [p \in Server \ {i} |-> 0]]
  BY DEF ReplicationInit
<1>2. ReplicationTypeOK
  BY <1>0, <1>1 DEF ReplicationTypeOK
<1>3. LogsVouched
  BY <1>0, <1>1 DEF LogsVouched, Vouched, NoneAbove
<1>4. LeadersFollowed /\ VotesReached /\ RequestsVouched /\ OksHeld /\ MatchHeld
  BY <1>0, <1>1 DEF LeadersFollowed, VotesReached, RequestsVouched, OksHeld, MatchHeld
<1>5. CommitsSettled
  BY <1>0, <1>1 DEF CommitsSettled, Settled
<1> QED
  BY <1>2, <1>3, <1>4, <1>5 DEF ReplicationInv

LEMMA ReplicationStep ==
    ASSUME IsFiniteSet(Server), EntriesHaveTerms, ReplicationInv,
           [ReplicationNext]_replicationVars
    PROVE  ReplicationInv'
<1>1. BaseInv /\ OksHeld /\ MatchHeld /\ CommitsSettled
  BY InvParts
<1>2. BaseInv' /\ Evolves /\ Moves
  BY <1>1, BaseStep, StepMoves
<1>3. OksHeld' /\ MatchHeld' /\ CommitsSettled'
  BY <1>1, <1>2, OksHeldStep, MatchHeldStep, CommitsSettledStep
<1> QED
  BY <1>2, <1>3, InvParts

(***************************************************************************)
(* What the invariant is for.                                              *)
(***************************************************************************)

LEMMA InvChosenIsLed ==
    ASSUME IsFiniteSet(Server), ReplicationInv
    PROVE  ChosenIsLed
<1> SUFFICES ASSUME NEW t \in DOMAIN led, NEW u \in DOMAIN led, t < u,
                    NEW k \in DOMAIN led[t].log, Chosen(k, t)
             PROVE  Has(led[u].log, k, t)
  BY DEF ChosenIsLed
<1>0. BaseInv
  BY InvParts
<1>1. k \in Nat
  BY <1>0 DEF BaseInv, ReplicationTypeOK
<1> QED
  BY <1>0, <1>1, LedHasChosen

LEMMA InvLogsMatch ==
    ASSUME ReplicationInv
    PROVE  LogsMatch
<1> SUFFICES ASSUME NEW i \in Server, NEW j \in Server,
                    NEW k \in DOMAIN log[i] \cap DOMAIN log[j], log[i][k].term = log[j][k].term
             PROVE  \A m \in 1 .. k : log[i][m] = log[j][m]
  BY DEF LogsMatch
<1>1. Vouched(log[i]) /\ Vouched(log[j])
  BY DEF ReplicationInv, LogsVouched
<1> QED
  BY <1>1, VouchedAgree

\* The one of two settled logs that was settled in the later term has all that the
\* other one has.
LEMMA InvCommitsAgree ==
    ASSUME IsFiniteSet(Server), ReplicationInv
    PROVE  CommitsAgree
<1> SUFFICES ASSUME NEW i \in Server, NEW j \in Server, NEW n \in 1 .. commit[i], n <= commit[j]
             PROVE  log[i][n] = log[j][n]
  BY DEF CommitsAgree
<1>0. BaseInv
  BY InvParts
<1>1. /\ commit[i] \in Nat /\ commit[j] \in Nat /\ DOMAIN led \subseteq Nat
      /\ \A u \in DOMAIN led : led[u].log \in Seq(Entry)
  BY <1>0 DEF BaseInv, ReplicationTypeOK
<1>2. commit[i] # 0 /\ commit[j] # 0 /\ n \in 1 .. commit[j]
  BY <1>1
<1>3. ASSUME NEW x \in Server, n \in 1 .. commit[x]
      PROVE  \E u \in DOMAIN led : \E k \in DOMAIN led[u].log :
                 Chosen(k, u) /\ n <= k /\ log[x][n] = led[u].log[n]
  <2>1. commit[x] \in Nat /\ Settled(log[x], commit[x], term[x]) /\ commit[x] # 0
    BY <1>0, <1>3 DEF ReplicationInv, CommitsSettled, BaseInv, ReplicationTypeOK
  <2>2. PICK u \in DOMAIN led : \E k \in DOMAIN led[u].log :
            /\ Chosen(k, u) /\ u <= term[x] /\ commit[x] <= k
            /\ \A y \in 1 .. commit[x] : log[x][y] = led[u].log[y]
    BY <2>1 DEF Settled
  <2>3. PICK k \in DOMAIN led[u].log :
            /\ Chosen(k, u) /\ u <= term[x] /\ commit[x] <= k
            /\ \A y \in 1 .. commit[x] : log[x][y] = led[u].log[y]
    BY <2>2
  <2>4. k \in Nat /\ n <= k
    BY <1>1, <1>3, <2>1, <2>3
  <2> QED
    BY <1>3, <2>3, <2>4
<1>4. PICK u \in DOMAIN led : \E k \in DOMAIN led[u].log :
          Chosen(k, u) /\ n <= k /\ log[i][n] = led[u].log[n]
  BY <1>3
<1>5. PICK k \in DOMAIN led[u].log : Chosen(k, u) /\ n <= k /\ log[i][n] = led[u].log[n]
  BY <1>4
<1>6. PICK w \in DOMAIN led : \E y \in DOMAIN led[w].log :
          Chosen(y, w) /\ n <= y /\ log[j][n] = led[w].log[n]
  BY <1>2, <1>3
<1>7. PICK y \in DOMAIN led[w].log : Chosen(y, w) /\ n <= y /\ log[j][n] = led[w].log[n]
  BY <1>6
<1>8. u \in Nat /\ w \in Nat /\ k \in Nat /\ y \in Nat /\ n \in 1 .. k /\ n \in 1 .. y
  BY <1>1, <1>5, <1>7
<1>9. CASE u <= w
  BY <1>0, <1>5, <1>7, <1>8, <1>9, LaterLeadersAgree
<1>10. CASE w <= u
  BY <1>0, <1>5, <1>7, <1>8, <1>10, LaterLeadersAgree
<1> QED
  BY <1>8, <1>9, <1>10

\* No step but a restart takes a committed entry back.
LEMMA StepCommitsStay ==
    ASSUME IsFiniteSet(Server), ReplicationInv, [ReplicationNext]_replicationVars, NEW i \in Server
    PROVE  /\ \A k \in 1 .. commit[i] : k \in DOMAIN log'[i] /\ log'[i][k] = log[i][k]
           /\ commit'[i] >= commit[i] \/ Restart(i)
<1>0. /\ BaseInv /\ ReplicationTypeOK /\ commit[i] \in Nat /\ log[i] \in Seq(Entry)
      /\ commit[i] <= Len(log[i])
  BY InvParts DEF ReplicationInv, ReplicationTypeOK, CommitsSettled
<1>1. ASSUME log'[i] = log[i], commit'[i] = commit[i] \/ commit'[i] >= commit[i] \/ Restart(i)
      PROVE  /\ \A k \in 1 .. commit[i] : k \in DOMAIN log'[i] /\ log'[i][k] = log[i][k]
             /\ commit'[i] >= commit[i] \/ Restart(i)
  <2>1. \A k \in 1 .. commit[i] : k \in DOMAIN log[i]
    BY <1>0
  <2>2. CASE commit'[i] = commit[i]
    BY <1>0, <1>1, <2>1, <2>2
  <2>3. CASE commit'[i] >= commit[i]
    BY <1>1, <2>1, <2>3
  <2> QED
    BY <1>1, <2>1, <2>2, <2>3
<1>2. CASE UNCHANGED replicationVars
  BY <1>1, <1>2 DEF replicationVars, nodes
<1>3. ASSUME NEW j \in Server, NEW m, Accept(j, m)
      PROVE  /\ \A k \in 1 .. commit[i] : k \in DOMAIN log'[i] /\ log'[i][k] = log[i][k]
             /\ commit'[i] >= commit[i] \/ Restart(i)
  <2>1. CASE i # j
    <3>1. log'[i] = log[i] /\ commit'[i] = commit[i]
      BY <1>0, <1>3, <2>1 DEF Accept, ReplicationTypeOK
    <3> QED
      BY <1>1, <3>1
  <2>2. CASE i = j
    <3>1. commit[i] <= Len(log'[i]) /\ \A k \in 1 .. commit[i] : log'[i][k] = log[i][k]
      BY <1>3, <2>2, AcceptKeepsCommitted
    <3>2. /\ log'[i] \in Seq(Entry) /\ m.leader_commit \in Nat
          /\ commit'[i] = IF m.leader_commit <= commit[i] THEN commit[i] ELSE m.leader_commit
      BY <1>0, <1>3, <2>2, AcceptFacts DEF RequestOK
    <3>3. commit'[i] >= commit[i]
      BY <1>0, <3>2
    <3>4. \A k \in 1 .. commit[i] : k \in DOMAIN log'[i]
      BY <1>0, <3>1, <3>2
    <3> QED
      BY <3>1, <3>3, <3>4
  <2> QED
    BY <2>1, <2>2
<1>4. ASSUME NEW j \in Server, Extend(j) \/ Win(j)
      PROVE  /\ \A k \in 1 .. commit[i] : k \in DOMAIN log'[i] /\ log'[i][k] = log[i][k]
             /\ commit'[i] >= commit[i] \/ Restart(i)
  <2>1. commit' = commit
    BY <1>4 DEF Extend, Win
  <2>2. CASE i # j
    <3>1. log'[i] = log[i]
      BY <1>0, <1>4, <2>2, ExtendFacts DEF Win, ReplicationTypeOK
    <3> QED
      BY <1>1, <2>1, <3>1
  <2>3. CASE i = j
    <3>1. OneMore(log[i], log'[i], term[i])
      BY <1>0, <1>4, <2>3, ExtendFacts DEF Win, ReplicationTypeOK
    <3>2. /\ log'[i] \in Seq(Entry) /\ Len(log'[i]) = Len(log[i]) + 1
          /\ \A k \in 1 .. Len(log[i]) : log'[i][k] = log[i][k]
      BY <1>0, <3>1, OneMoreKeeps
    <3>3. \A k \in 1 .. commit[i] : k \in 1 .. Len(log[i]) /\ k \in DOMAIN log'[i]
      BY <1>0, <3>2
    <3> QED
      BY <1>0, <2>1, <3>2, <3>3
  <2> QED
    BY <2>2, <2>3
<1>5. ASSUME NEW j \in Server, Stand(j) \/ Observe(j) \/ Send(j) \/ \E v \in votes' : GiveVote(j, v)
      PROVE  log' = log /\ commit' = commit
  BY <1>5 DEF Stand, Observe, Send, GiveVote, nodes
<1>6. ASSUME NEW j \in Server, Restart(j)
      PROVE  log' = log /\ (commit'[i] = commit[i] \/ Restart(i))
  BY <1>0, <1>6 DEF Restart, ReplicationTypeOK
<1>7. ASSUME NEW j \in Server, Advance(j)
      PROVE  log' = log /\ (commit'[i] = commit[i] \/ commit'[i] >= commit[i])
  <2>1. CASE commit' = commit
    BY <1>7, <2>1 DEF Advance
  <2>2. CASE commit' # commit
    <3>1. PICK k : /\ commit' = [commit EXCEPT ![j] = k] /\ k = commit'[j] /\ k > commit[j]
                   /\ k \in DOMAIN log[j]
      BY <1>7, <2>2 DEF Advance, Has
    <3>4. k \in Nat /\ commit[j] \in Nat
      BY <1>0, <3>1 DEF ReplicationTypeOK
    <3>2. CASE i = j
      BY <1>7, <3>1, <3>2, <3>4 DEF Advance
    <3>3. CASE i # j
      BY <1>0, <1>7, <3>1, <3>3 DEF Advance, ReplicationTypeOK
    <3> QED
      BY <3>2, <3>3
  <2> QED
    BY <2>1, <2>2
<1>8. ASSUME ReplicationNext
      PROVE  /\ \A k \in 1 .. commit[i] : k \in DOMAIN log'[i] /\ log'[i][k] = log[i][k]
             /\ commit'[i] >= commit[i] \/ Restart(i)
  <2>1. PICK j \in Server :
            \/ Stand(j) \/ Observe(j) \/ Win(j) \/ Extend(j) \/ Send(j) \/ Advance(j) \/ Restart(j)
            \/ \E v \in votes' : GiveVote(j, v)
            \/ \E m \in requests : Accept(j, m)
    BY <1>8 DEF ReplicationNext, Work
  <2>2. CASE Stand(j) \/ Observe(j) \/ Send(j) \/ \E v \in votes' : GiveVote(j, v)
    BY <1>1, <1>5, <2>2
  <2>3. CASE Advance(j) \/ Restart(j)
    BY <1>1, <1>6, <1>7, <2>3
  <2> QED
    BY <1>3, <1>4, <2>1, <2>2, <2>3
<1> QED
  BY <1>2, <1>8

\* A leader's log only grows in its term.
LEMMA StepLeaderAppends ==
    ASSUME ReplicationInv, [ReplicationNext]_replicationVars,
           NEW i \in Server, role[i] = "Leader", term'[i] = term[i]
    PROVE  \A k \in DOMAIN log[i] : k \in DOMAIN log'[i] /\ log'[i][k] = log[i][k]
<1>0. /\ BaseInv /\ ReplicationTypeOK /\ log[i] \in Seq(Entry) /\ Len(log[i]) \in Nat
      /\ led[term[i]].log = log[i]
  <2>1. BaseInv /\ ReplicationTypeOK /\ LeadersFollowed
    BY InvParts DEF ReplicationInv
  <2>2. log[i] \in Seq(Entry)
    BY <2>1 DEF ReplicationTypeOK
  <2> QED
    BY <2>1, <2>2 DEF LeadersFollowed
<1>1. ASSUME NEW j \in Server, NEW m, Accept(j, m)
      PROVE  log'[i] = log[i]
  <2>1. CASE i # j
    BY <1>0, <1>1, <2>1 DEF Accept, ReplicationTypeOK
  <2>2. CASE i = j
    <3>1. /\ Last(m) \in Nat /\ Last(m) <= Len(log[i])
          /\ \/ log'[i] = log[i]
             \/ \E k \in 1 .. Last(m) : k > Len(log[i]) \/ log[i][k] # log[i][k]
      <4>1. /\ Last(m) \in Nat /\ Last(m) <= Len(led[m.term].log)
            /\ \/ log'[i] = log[i]
               \/ \E k \in 1 .. Last(m) : k > Len(log[i]) \/ log[i][k] # led[m.term].log[k]
            /\ term'[i] = m.term
        BY <1>0, <1>1, <2>2, AcceptFacts
      <4> QED
        BY <1>0, <4>1
    <3> QED
      BY <1>0, <3>1
  <2> QED
    BY <2>1, <2>2
<1>2. ASSUME NEW j \in Server, Extend(j) \/ Win(j)
      PROVE  log'[i] = log[i] \/ OneMore(log[i], log'[i], term[i])
  <2>1. CASE i # j
    BY <1>0, <1>2, <2>1, ExtendFacts DEF Win, ReplicationTypeOK
  <2>2. CASE i = j
    BY <1>0, <1>2, <2>2, ExtendFacts DEF Win, ReplicationTypeOK
  <2> QED
    BY <2>1, <2>2
<1>3. log'[i] = log[i] \/ OneMore(log[i], log'[i], term[i])
  <2>1. CASE UNCHANGED replicationVars
    BY <2>1 DEF replicationVars, nodes
  <2>2. CASE ReplicationNext
    <3>1. PICK j \in Server :
              \/ Stand(j) \/ Observe(j) \/ Win(j) \/ Extend(j) \/ Send(j) \/ Advance(j) \/ Restart(j)
              \/ \E v \in votes' : GiveVote(j, v)
              \/ \E m \in requests : Accept(j, m)
      BY <2>2 DEF ReplicationNext, Work
    <3>2. CASE \/ Stand(j) \/ Observe(j) \/ Send(j) \/ Advance(j) \/ Restart(j)
               \/ \E v \in votes' : GiveVote(j, v)
      BY <3>2 DEF Stand, Observe, Send, Advance, Restart, GiveVote, nodes
    <3> QED
      BY <1>1, <1>2, <3>1, <3>2
  <2> QED
    BY <2>1, <2>2
<1>4. CASE log'[i] = log[i]
  BY <1>4
<1>5. CASE OneMore(log[i], log'[i], term[i])
  <2>1. /\ log'[i] \in Seq(Entry) /\ Len(log'[i]) = Len(log[i]) + 1
        /\ \A k \in 1 .. Len(log[i]) : log'[i][k] = log[i][k]
    BY <1>0, <1>5, OneMoreKeeps
  <2> QED
    BY <1>0, <2>1
<1> QED
  BY <1>3, <1>4, <1>5

\* What is chosen stays chosen, with the log up to it.
LEMMA StepChosenStays ==
    ASSUME EntriesHaveTerms, ReplicationInv, ReplicationInv', [ReplicationNext]_replicationVars,
           NEW t \in DOMAIN led, NEW k \in DOMAIN led[t].log, Chosen(k, t)
    PROVE  /\ t \in DOMAIN led' /\ k \in DOMAIN led'[t].log /\ Chosen(k, t)'
           /\ \A j \in 1 .. k : led'[t].log[j] = led[t].log[j]
<1>1. BaseInv /\ BaseInv'
  BY InvParts
<1>2. Evolves
  BY <1>1, BaseStep
<1>3. led[t].log \in Seq(Entry) /\ k \in Nat /\ \A j \in 1 .. k : j \in DOMAIN led[t].log
  BY <1>1 DEF BaseInv, ReplicationTypeOK
<1>4. Chosen(k, t)'
  BY <1>1, <1>2, <1>3, ChosenStays
<1>5. k \in DOMAIN led'[t].log
  BY <1>4 DEF Chosen, Has
<1> QED
  BY <1>2, <1>3, <1>4, <1>5 DEF Evolves, LedGrows

\* Later leaders have what is chosen, with all before it ...
LEMMA LeaderHasChosen ==
    ASSUME IsFiniteSet(Server), ReplicationInv,
           NEW t \in DOMAIN led, NEW k \in DOMAIN led[t].log, Chosen(k, t),
           NEW i \in Server, role[i] = "Leader", t <= term[i]
    PROVE  k \in DOMAIN log[i] /\ \A j \in 1 .. k : log[i][j] = led[t].log[j]
<1>1. BaseInv
  BY InvParts
<1>2. led[term[i]].log = log[i] /\ term[i] \in DOMAIN led /\ DOMAIN led \subseteq Nat
      /\ k \in Nat /\ Vouched(log[i])
  BY <1>1 DEF BaseInv, LeadersFollowed, ReplicationTypeOK, LogsVouched
<1>3. Has(log[i], k, t)
  <2>1. CASE t = term[i]
    BY <1>2, <2>1 DEF Chosen
  <2>2. CASE t < term[i]
    <3>1. PICK u \in DOMAIN led : u = term[i]
      BY <1>2
    <3>2. Has(led[u].log, k, t)
      BY <1>1, <1>2, <2>2, <3>1, LedHasChosen
    <3> QED
      BY <1>2, <3>1, <3>2
  <2> QED
    BY <1>2, <2>1, <2>2
<1> QED
  BY <1>2, <1>3 DEF Has, Vouched

\* ... and a majority of the nodes has it now: nobody has been made to drop it.
LEMMA MajorityHasChosen ==
    ASSUME IsFiniteSet(Server), ReplicationInv,
           NEW t \in DOMAIN led, NEW k \in DOMAIN led[t].log, Chosen(k, t)
    PROVE  \E Q \in Majorities : \A r \in Q :
               k \in DOMAIN log[r] /\ \A j \in 1 .. k : log[r][j] = led[t].log[j]
<1>1. BaseInv
  BY InvParts
<1>2. k \in Nat /\ \A r \in Server : Vouched(log[r])
  BY <1>1 DEF BaseInv, ReplicationTypeOK, LogsVouched
<1>3. PICK Q \in Majorities : \A r \in Q : Held(r, k, t)
  BY DEF Chosen
<1>4. ASSUME NEW r \in Q
      PROVE  k \in DOMAIN log[r] /\ \A j \in 1 .. k : log[r][j] = led[t].log[j]
  <2>1. r \in Server
    BY <1>3 DEF Majorities
  <2>2. ~Skipped(k, t, term[r] + 1)
    <3> SUFFICES ASSUME NEW w \in DOMAIN led, t < w PROVE Has(led[w].log, k, t)
      BY DEF Skipped
    <3> QED
      BY <1>1, <1>2, LedHasChosen
  <2>3. Has(log[r], k, t)
    BY <1>3, <2>2 DEF Held
  <2> QED
    BY <1>2, <2>1, <2>3 DEF Has, Vouched
<1> QED
  BY <1>4

\* Nobody leads but who led, or wins a term now.
LEMMA StepLeads ==
    ASSUME ReplicationInv, [ReplicationNext]_replicationVars, NEW i \in Server,
           role'[i] = "Leader", DOMAIN led' = DOMAIN led \/ term'[i] \in DOMAIN led
    PROVE  role[i] = "Leader" /\ term'[i] = term[i]
<1>0. ReplicationTypeOK
  BY DEF ReplicationInv
<1>1. ASSUME NEW j \in Server, NEW t, MovesTo(j, t)
      PROVE  role[i] = "Leader" /\ term'[i] = term[i]
  BY <1>0, <1>1 DEF MovesTo, ReplicationTypeOK
<1>2. ASSUME NEW j \in Server, Win(j)
      PROVE  role[i] = "Leader" /\ term'[i] = term[i]
  <2>1. i # j
    BY <1>0, <1>2 DEF Win, ReplicationTypeOK
  <2> QED
    BY <1>0, <1>2, <2>1 DEF Win, ReplicationTypeOK
<1>3. ASSUME NEW j \in Server,
             Extend(j) \/ Send(j) \/ Advance(j) \/ Restart(j) \/ Stand(j)
             \/ \E m \in requests : Accept(j, m)
      PROVE  role[i] = "Leader" /\ term'[i] = term[i]
  BY <1>0, <1>3 DEF Extend, Send, Advance, Restart, Stand, Accept, nodes, ReplicationTypeOK
<1>4. ASSUME NEW j \in Server, Observe(j) \/ \E v \in votes' : GiveVote(j, v)
      PROVE  role[i] = "Leader" /\ term'[i] = term[i]
  BY <1>1, <1>4 DEF Observe, GiveVote
<1>5. CASE UNCHANGED replicationVars
  BY <1>5 DEF replicationVars, nodes
<1> QED
  BY <1>2, <1>3, <1>4, <1>5 DEF ReplicationNext, Work

\* What a node counts as committed, after a step, is below an entry that is chosen.
LEMMA CommittedIsChosen ==
    ASSUME ReplicationInv', NEW i \in Server, NEW n \in 1 .. commit'[i]
    PROVE  \E u \in DOMAIN led' : \E k \in DOMAIN led'[u].log :
               Chosen(k, u)' /\ u <= term'[i] /\ n \in 1 .. k /\ log'[i][n] = led'[u].log[n]
<1>1. commit'[i] \in Nat /\ \A u \in DOMAIN led' : led'[u].log \in Seq(Entry)
  BY DEF ReplicationInv, ReplicationTypeOK
<1>2. Settled(log[i], commit[i], term[i])' /\ commit'[i] # 0
  BY <1>1 DEF ReplicationInv, CommitsSettled
<1>3. PICK u \in DOMAIN led' : \E k \in DOMAIN led'[u].log :
          /\ Chosen(k, u)' /\ u <= term'[i] /\ commit'[i] <= k
          /\ \A j \in 1 .. commit'[i] : log'[i][j] = led'[u].log[j]
  BY <1>2 DEF Settled
<1>4. PICK k \in DOMAIN led'[u].log :
          /\ Chosen(k, u)' /\ u <= term'[i] /\ commit'[i] <= k
          /\ \A j \in 1 .. commit'[i] : log'[i][j] = led'[u].log[j]
  BY <1>3
<1>5. n \in 1 .. k
  BY <1>1, <1>4
<1> QED
  BY <1>4, <1>5

\* No won term is forgotten.
LEMMA StepLedStays ==
    ASSUME EntriesHaveTerms, ReplicationInv, [ReplicationNext]_replicationVars
    PROVE  DOMAIN led \subseteq DOMAIN led'
<1>1. Evolves
  BY InvParts, BaseStep
<1> QED
  BY <1>1 DEF Evolves, LedGrows

\* What was chosen in earlier terms lies below the entries of the leader's own.
LEMMA ChosenIsBelow ==
    ASSUME IsFiniteSet(Server), EntriesHaveTerms, ReplicationInv,
           NEW t \in DOMAIN led, NEW k \in DOMAIN led[t].log, Chosen(k, t),
           NEW i \in Server, role[i] = "Leader", t < term[i],
           NEW n, Has(log[i], n, term[i])
    PROVE  k < n
<1>1. ReplicationTypeOK /\ LogsVouched
  BY DEF ReplicationInv
<1>2. /\ t \in Nat /\ term[i] \in Nat /\ log[i] \in Seq(Entry) /\ k \in Nat \ {0}
      /\ Vouched(log[i]) /\ n \in DOMAIN log[i] /\ log[i][n].term = term[i] /\ n \in Nat
  BY <1>1 DEF ReplicationTypeOK, LogsVouched, Has
<1>3. k \in DOMAIN log[i] /\ \A j \in 1 .. k : log[i][j] = led[t].log[j]
  BY <1>2, LeaderHasChosen
<1>4. log[i][k].term = t
  BY <1>2, <1>3 DEF Chosen, Has
<1>5. ASSUME n <= k PROVE log[i][n].term <= log[i][k].term
  BY <1>1, <1>2, <1>3, <1>5, TermsAscend
<1> QED
  BY <1>2, <1>4, <1>5

\* A majority has reached every term that has been won.
LEMMA WonIsReached ==
    ASSUME ReplicationInv, NEW t \in DOMAIN led
    PROVE  led[t].voters \in Majorities /\ \A r \in led[t].voters : r \in Server /\ t <= term[r]
BY DEF ReplicationInv, ReplicationTypeOK, VotesReached, Majorities

\* The inductive invariant: logs are what leaders have vouched for, and what nodes
\* count as committed has been held by a majority.
THEOREM ReplicationHolds ==
    ASSUME IsFiniteSet(Server), EntriesHaveTerms
    PROVE  ReplicationSpec => []ReplicationInv
<1>1. ReplicationInv /\ [ReplicationNext]_replicationVars => ReplicationInv'
  BY ReplicationStep
<1> QED
  BY <1>1, ReplicationInitOK, PTL DEF ReplicationSpec

\* What a majority has held is in every later leader's log, logs that agree on a
\* term agree up to it, and nodes agree on what is committed.
THEOREM ReplicationSafe ==
    ASSUME IsFiniteSet(Server), EntriesHaveTerms
    PROVE  ReplicationSpec => [](ChosenIsLed /\ LogsMatch /\ CommitsAgree)
<1>1. ReplicationInv => ChosenIsLed /\ LogsMatch /\ CommitsAgree
  BY InvChosenIsLed, InvLogsMatch, InvCommitsAgree
<1> QED
  BY <1>1, ReplicationHolds, PTL

\* Committed entries stay, across repairs, elections and restarts.
THEOREM CommittedStays ==
    ASSUME IsFiniteSet(Server), EntriesHaveTerms
    PROVE  ReplicationSpec => CommitsStay
<1>1. ReplicationInv /\ [ReplicationNext]_replicationVars =>
          [\A i \in Server :
              /\ \A k \in 1 .. commit[i] : k \in DOMAIN log'[i] /\ log'[i][k] = log[i][k]
              /\ commit'[i] >= commit[i] \/ Restart(i)]_replicationVars
  BY StepCommitsStay
<1> QED
  BY <1>1, ReplicationHolds, PTL DEF ReplicationSpec, CommitsStay
=============================================================================
