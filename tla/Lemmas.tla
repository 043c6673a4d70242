------------------------------- MODULE Lemmas -------------------------------
(***************************************************************************)
(* Facts that the proofs of several modules use.                           *)
(***************************************************************************)
EXTENDS Naturals, Sequences, FiniteSetTheorems, WellFoundedInduction, TLAPS

\* A set of numbers has a least one.
LEMMA LeastElement ==
    ASSUME NEW T, T \subseteq Nat, T # {}
    PROVE  \E m \in T : \A k \in T : m <= k
<1> DEFINE less == {ss \in Nat \X Nat : ss[1] < ss[2]}
<1>1. IsWellFoundedOn(less, Nat)
  BY NatLessThanWellFounded, Zenon DEF OpToRel
<1>2. \E m \in T : \A k \in T : ~ (<<k, m>> \in less)
  BY <1>1, WFMin, Zenon
<1>3. PICK m \in T : \A k \in T : ~ (<<k, m>> \in less)
  BY <1>2
<1>4. ASSUME NEW k \in T PROVE m <= k
  <2>1. <<k, m>> \in Nat \X Nat
    OBVIOUS
  <2>2. ~(k < m)
    BY <2>1, <1>3
  <2> QED
    BY <2>2
<1> QED
  BY <1>4

\* Induction on the numbers, for the numbers of which a fact holds.
LEMMA NumbersInduction ==
    ASSUME NEW S, 0 \in S, \A n \in Nat : n \in S => n + 1 \in S
    PROVE  \A n \in Nat : n \in S
<1> SUFFICES ASSUME NEW n \in Nat, n \notin S PROVE FALSE
  OBVIOUS
<1> DEFINE T == {k \in Nat : k \notin S}
<1>1. PICK m \in T : \A k \in T : m <= k
  BY LeastElement
<1>2. m # 0
  OBVIOUS
<1>3. m - 1 \in Nat /\ m - 1 \notin T
  BY <1>1, <1>2
<1> QED
  BY <1>3

\* A function on 1 .. n is a sequence.
LEMMA FunctionIsSequence ==
    ASSUME NEW S, NEW n \in Nat, NEW f, f \in [1 .. n -> S]
    PROVE  f \in Seq(S) /\ Len(f) = n
<1>1. f \in Seq(S)
  OBVIOUS
<1> QED
  BY <1>1

\* Any two majorities of a finite set of nodes have a node in common.
LEMMA MajoritiesMeet ==
    ASSUME NEW S, IsFiniteSet(S), NEW P, P \subseteq S, NEW Q, Q \subseteq S,
           Cardinality(P) >= (Cardinality(S) \div 2) + 1,
           Cardinality(Q) >= (Cardinality(S) \div 2) + 1
    PROVE  \E s \in P : s \in Q
<1>1. Cardinality(S) \in Nat /\ Cardinality(P) \in Nat /\ Cardinality(Q) \in Nat
  BY FS_Subset, FS_CardinalityType
<1>2. Cardinality(P) + Cardinality(Q) > Cardinality(S)
  BY <1>1
<1>3. P \cap Q # {}
  BY <1>2, FS_MajoritiesIntersect
<1> QED
  BY <1>3
=============================================================================
