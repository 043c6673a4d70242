----------------------------- MODULE CheckerProofs -----------------------------
(***************************************************************************)
(* The linearizability checker decides linearizability.                    *)
(***************************************************************************)
EXTENDS Checker, Lemmas

(***************************************************************************)
(* The elements of a finite set, in the order of a relation.               *)
(***************************************************************************)

Ranked(S, R) ==
    /\ \A x, y \in S : x # y => <<x, y>> \in R \/ <<y, x>> \in R
    /\ \A x, y, z \in S : <<x, y>> \in R /\ <<y, z>> \in R => <<x, z>> \in R
    /\ \A x \in S : <<x, x>> \notin R

\* A finite set that R orders strictly and totally has an enumeration in that order.
LEMMA OrderedEnumeration ==
    ASSUME NEW S, IsFiniteSet(S), NEW R, Ranked(S, R)
    PROVE  \E order \in SetToSeqs(S) :
              /\ DOMAIN order = 1 .. Cardinality(S)
              /\ \A j, k \in DOMAIN order : j < k => <<order[j], order[k]>> \in R
              /\ \A x \in S : \E j \in DOMAIN order : order[j] = x
<1> DEFINE n == Cardinality(S)
           Down(x) == {y \in S : y = x \/ <<y, x>> \in R}
           rank == [x \in S |-> Cardinality(Down(x))]
<1>1. n \in Nat
  BY FS_CardinalityType
<1>2. ASSUME NEW x \in S PROVE IsFiniteSet(Down(x)) /\ rank[x] \in 1 .. n
  <2>1. Down(x) \in SUBSET S /\ {x} \in SUBSET Down(x)
    OBVIOUS
  <2>2. IsFiniteSet(Down(x)) /\ Cardinality(Down(x)) <= n /\ Cardinality(Down(x)) \in Nat
    BY <2>1, FS_Subset, FS_CardinalityType
  <2>3. Cardinality({x}) = 1
    BY FS_Singleton
  <2>4. 1 <= Cardinality(Down(x))
    <3> HIDE DEF Down
    <3> QED
      BY <2>1, <2>2, <2>3, FS_Subset
  <2> QED
    BY <1>1, <2>2, <2>4
<1>3. ASSUME NEW x \in S, NEW y \in S, <<x, y>> \in R PROVE rank[x] < rank[y]
  <2>1. Down(x) \in SUBSET Down(y) /\ y \in Down(y)
    BY <1>3 DEF Ranked
  <2>2. y \notin Down(x)
    BY <1>3 DEF Ranked
  <2>3. Cardinality(Down(x)) <= Cardinality(Down(y))
        /\ Cardinality(Down(x)) # Cardinality(Down(y))
    <3> HIDE DEF Down, rank
    <3>1. IsFiniteSet(Down(y))
      BY <1>2
    <3> QED
      BY <2>1, <2>2, <3>1, FS_Subset
  <2>4. rank[x] \in Nat /\ rank[y] \in Nat
    BY <1>1, <1>2
  <2> QED
    BY <2>3, <2>4
<1>4. rank \in Injection(S, 1 .. n)
  <2>1. rank \in [S -> 1 .. n]
    BY <1>2
  <2>2. ASSUME NEW x \in S, NEW y \in S, rank[x] = rank[y] PROVE x = y
    <3>1. rank[x] \in Nat /\ rank[y] \in Nat
      BY <1>1, <1>2
    <3> HIDE DEF rank
    <3>2. ~(rank[x] < rank[y]) /\ ~(rank[y] < rank[x])
      BY <2>2, <3>1
    <3> QED
      BY <1>3, <3>2 DEF Ranked
  <2> HIDE DEF rank
  <2> QED
    BY <2>1, <2>2 DEF Injection, IsInjective
<1> HIDE DEF rank
<1>5. rank \in Surjection(S, 1 .. n)
  <2>1. IsFiniteSet(1 .. n) /\ Cardinality(1 .. n) = n
    BY <1>1, FS_Interval
  <2> QED
    BY <1>4, <2>1, FS_Injection
<1> DEFINE order == [j \in 1 .. n |-> CHOOSE x \in S : rank[x] = j]
<1>6. ASSUME NEW j \in 1 .. n PROVE order[j] \in S /\ rank[order[j]] = j
  <2>1. \E x \in S : rank[x] = j
    BY <1>5 DEF Surjection
  <2> QED
    BY <2>1
<1>7. order \in [1 .. n -> S] /\ DOMAIN order = 1 .. n
  BY <1>6
<1>8. ASSUME NEW x \in S PROVE rank[x] \in 1 .. n /\ order[rank[x]] = x
  <2>1. rank[x] \in 1 .. n
    BY <1>2
  <2> HIDE DEF order
  <2>2. order[rank[x]] \in S /\ rank[order[rank[x]]] = rank[x]
    BY <1>6, <2>1
  <2> QED
    BY <1>4, <2>1, <2>2 DEF Injection, IsInjective
<1> HIDE DEF order
<1>9. order \in SetToSeqs(S)
  <2>1. \A j, k \in 1 .. n : j # k => order[j] # order[k]
    BY <1>6
  <2> QED
    BY <1>7, <2>1 DEF SetToSeqs
<1>10. ASSUME NEW j \in DOMAIN order, NEW k \in DOMAIN order, j < k
       PROVE  <<order[j], order[k]>> \in R
  <2>1. j \in 1 .. n /\ k \in 1 .. n /\ j \in Nat /\ k \in Nat
    BY <1>1, <1>7
  <2>2. /\ order[j] \in S /\ order[k] \in S
        /\ rank[order[j]] = j /\ rank[order[k]] = k
    BY <1>6, <2>1
  <2>3. order[j] # order[k]
    BY <1>10, <2>1, <2>2
  <2>4. <<order[k], order[j]>> \notin R
    <3>1. <<order[k], order[j]>> \in R => rank[order[k]] < rank[order[j]]
      BY <1>3, <2>2
    <3> QED
      BY <1>10, <2>1, <2>2, <3>1
  <2> QED
    BY <2>2, <2>3, <2>4 DEF Ranked
<1> QED
  BY <1>7, <1>8, <1>9, <1>10

\* The largest element of a finite set of numbers.
LEMMA LargestOf ==
    ASSUME NEW T, T \subseteq Nat, T # {}, IsFiniteSet(T)
    PROVE  Max(T) \in T /\ \A x \in T : Max(T) >= x
<1> DEFINE R == {xy \in T \X T : xy[1] < xy[2]}
           n == Cardinality(T)
<1>1. n \in Nat /\ n # 0
  BY FS_CardinalityType, FS_EmptySet
<1>2. ASSUME NEW x \in T, NEW y \in T PROVE <<x, y>> \in R <=> x < y
  OBVIOUS
<1> HIDE DEF R
<1>3. Ranked(T, R)
  BY <1>2 DEF Ranked
<1>4. PICK order \in SetToSeqs(T) :
         /\ DOMAIN order = 1 .. n
         /\ \A j, k \in DOMAIN order : j < k => <<order[j], order[k]>> \in R
         /\ \A x \in T : \E j \in DOMAIN order : order[j] = x
  BY <1>3, OrderedEnumeration
<1>5. \A j \in 1 .. n : order[j] \in T
  BY DEF SetToSeqs
<1>6. n \in 1 .. n
  BY <1>1
<1>7. ASSUME NEW x \in T PROVE order[n] >= x
  <2>1. PICK j \in 1 .. n : order[j] = x
    BY <1>4
  <2>2. CASE j = n
    BY <1>5, <1>6, <2>1, <2>2
  <2>3. CASE j # n
    <3>1. j < n
      BY <1>1, <2>3
    <3>2. /\ order[n] \in T /\ order[j] \in T
          /\ order[n] \in Nat /\ order[j] \in Nat
      BY <1>5, <1>6
    <3>3. order[j] < order[n]
      BY <1>2, <1>4, <1>6, <3>1, <3>2
    <3> QED
      BY <2>1, <3>2, <3>3
  <2> QED
    BY <2>2, <2>3
<1>8. order[n] \in T
  BY <1>5, <1>6
<1> QED
  BY <1>7, <1>8, Zenon DEF Max

\* What a function makes of a finite set is finite.
LEMMA ImageFinite ==
    ASSUME NEW S, IsFiniteSet(S), NEW f, DOMAIN f = S
    PROVE  IsFiniteSet({f[x] : x \in S})
<1> DEFINE T == {f[x] : x \in S}
           g == [x \in S |-> f[x]]
<1>1. g \in [S -> T]
  OBVIOUS
<1>2. \A y \in T : \E x \in S : g[x] = y
  OBVIOUS
<1> HIDE DEF T, g
<1>3. g \in Surjection(S, T)
  BY <1>1, <1>2 DEF Surjection
<1> QED
  BY <1>3, FS_Surjection DEF T

\* The times of a finite set of operations have a largest and a smallest.
LEMMA TimesFinite ==
    ASSUME NEW S, IsFiniteSet(S)
    PROVE  IsFiniteSet({op.complete : op \in S})
<1> DEFINE f == [op \in S |-> op.complete]
<1>1. DOMAIN f = S /\ {f[op] : op \in S} = {op.complete : op \in S}
  OBVIOUS
<1> HIDE DEF f
<1> QED
  BY <1>1, ImageFinite

LEMMA SmallestTime ==
    ASSUME NEW S, S # {}, \A op \in S : op.complete \in Nat
    PROVE  LET m == Min({op.complete : op \in S})
           IN  m \in Nat /\ (\A op \in S : m <= op.complete) /\ \E op \in S : m = op.complete
<1> DEFINE T == {op.complete : op \in S}
<1>1. T \subseteq Nat /\ T # {}
  OBVIOUS
<1>2. \A op \in S : op.complete \in T
  OBVIOUS
<1>3. \A t \in T : \E op \in S : t = op.complete
  OBVIOUS
<1> HIDE DEF T
<1>4. PICK m \in T : \A t \in T : m <= t
  BY <1>1, LeastElement
<1>5. Min(T) \in T /\ \A t \in T : Min(T) <= t
  BY <1>4, Zenon DEF Min
<1> QED
  BY <1>1, <1>2, <1>3, <1>5 DEF T

(***************************************************************************)
(* The calls of search.                                                    *)
(***************************************************************************)

LEMMA CallsBuilt ==
    ASSUME NEW n \in Nat, NEW R, NEW O
    PROVE  /\ CallsUpTo(n, R, O)[0] = {FirstCall(R, O)}
           /\ \A k \in 1 .. n : CallsUpTo(n, R, O)[k] = NextCalls(CallsUpTo(n, R, O)[k - 1])
<1> DEFINE Body(f, k) == IF k = 0 THEN {FirstCall(R, O)} ELSE NextCalls(f[k - 1])
           K == CHOOSE f : f = [k \in 0 .. n |-> Body(f, k)]
           Done(m, f) == f = [k \in 0 .. m |-> Body(f, k)]
           D == {m \in Nat : \E f : Done(m, f)}
<1>1. CallsUpTo(n, R, O) = K
  BY Zenon DEF CallsUpTo
<1>2. 0 \in D
  <2> DEFINE f == [k \in 0 .. 0 |-> {FirstCall(R, O)}]
  <2>1. f = [k \in 0 .. 0 |-> Body(f, k)]
    OBVIOUS
  <2> QED
    BY <2>1
<1>3. ASSUME NEW m \in Nat, m \in D PROVE m + 1 \in D
  <2>1. PICK f : Done(m, f)
    BY <1>3
  <2> DEFINE g == [k \in 0 .. (m + 1) |-> IF k = m + 1 THEN NextCalls(f[m]) ELSE f[k]]
  <2>2. ASSUME NEW k \in 0 .. (m + 1) PROVE g[k] = Body(g, k)
    <3>1. CASE k = m + 1
      <4>1. k # 0 /\ k - 1 = m /\ k - 1 \in 0 .. (m + 1) /\ k - 1 # m + 1
        BY <3>1
      <4> QED
        BY <3>1, <4>1
    <3>2. CASE k # m + 1
      <4>1. k \in 0 .. m /\ (k # 0 => k - 1 \in 0 .. (m + 1) /\ k - 1 # m + 1)
        BY <3>2
      <4>2. f[k] = Body(f, k)
        BY <2>1, <4>1
      <4> QED
        BY <3>2, <4>1, <4>2
    <3> QED
      BY <3>1, <3>2
  <2>3. Done(m + 1, g)
    <3>1. g = [k \in 0 .. (m + 1) |-> g[k]]
      OBVIOUS
    <3> HIDE DEF g
    <3> QED
      BY <2>2, <3>1
  <2> HIDE DEF g, Done
  <2> QED
    BY <2>3
<1>4. n \in D
  <2> HIDE DEF D
  <2> QED
    BY <1>2, <1>3, NumbersInduction
<1>5. K = [k \in 0 .. n |-> Body(K, k)]
  <2>1. \E f : f = [k \in 0 .. n |-> Body(f, k)]
    BY <1>4
  <2> QED
    BY <2>1, Zenon
<1> HIDE DEF K
<1>6. K[0] = {FirstCall(R, O)}
  <2>1. 0 \in 0 .. n
    OBVIOUS
  <2> QED
    BY <1>5, <2>1
<1>7. ASSUME NEW k \in 1 .. n PROVE K[k] = NextCalls(K[k - 1])
  <2>1. k \in 0 .. n /\ k # 0
    OBVIOUS
  <2> QED
    BY <1>5, <2>1
<1> QED
  BY <1>1, <1>6, <1>7

Operation(Id, Names, Values) ==
    [id : Id, key : Names, kind : {"Read", "Write"}, value : Values,
     invoke : Nat, complete : Nat, result : {"Ok", "Error"}]

\* What search is given: operations that take some time, those it must place and
\* those it may.
Searched(S) ==
    \A op \in S : /\ op.kind \in {"Read", "Write"}
                  /\ op.invoke \in Nat /\ op.complete \in Nat /\ op.invoke < op.complete

\* What the register holds after the first k operations of order.
Shown(order, k) ==
    LET writes == {j \in 1 .. k : IsWrite(order[j])}
    IN  IF writes = {} THEN None ELSE order[Max(writes)].value

PlacedOf(order, n) == {order[j] : j \in 1 .. n}

\* A call in which the first n operations of order have been placed.
CallAfter(call, R, O, order, n) ==
    /\ \A j \in 1 .. n : order[j] \in R \cup O
    /\ \A j, k \in 1 .. n : j # k => order[j] # order[k]
    /\ call.required = R \ PlacedOf(order, n)
    /\ call.optional = O \ PlacedOf(order, n)
    /\ call.register = Shown(order, n)
    /\ call.frontier \in Nat
    /\ \A j \in 1 .. n : order[j].invoke <= call.frontier
    /\ call.frontier = 0 \/ \E j \in 1 .. n : call.frontier = order[j].invoke
    /\ \A j, k \in 1 .. n : j < k => order[j].invoke <= order[k].complete
    /\ \A k \in 1 .. n : IsRead(order[k]) => order[k].value = Shown(order, k - 1)

\* The largest of some of the first places.
LEMMA LastPlace ==
    ASSUME NEW k \in Nat, NEW T, T \subseteq 1 .. k, T # {}
    PROVE  Max(T) \in T /\ \A j \in T : Max(T) >= j
<1>1. T \subseteq Nat /\ T \in SUBSET (1 .. k) /\ IsFiniteSet(1 .. k)
  BY FS_Interval
<1>2. IsFiniteSet(T)
  BY <1>1, FS_Subset
<1> QED
  BY <1>1, <1>2, LargestOf

LEMMA ShownFirst ==
    ASSUME NEW order
    PROVE  Shown(order, 0) = None
<1>1. {j \in 1 .. 0 : IsWrite(order[j])} = {}
  OBVIOUS
<1> QED
  BY <1>1 DEF Shown

\* The register changes as try_apply says.
LEMMA ShownNext ==
    ASSUME NEW order, NEW k \in Nat
    PROVE  Shown(order, k + 1) = RegisterAfter(order[k + 1], Shown(order, k))
<1> DEFINE before == {j \in 1 .. k : IsWrite(order[j])}
           now == {j \in 1 .. (k + 1) : IsWrite(order[j])}
<1>1. CASE IsWrite(order[k + 1])
  <2>1. k + 1 \in now /\ \A j \in now : k + 1 >= j
    BY <1>1
  <2>2. now \subseteq 1 .. (k + 1) /\ now # {} /\ now \subseteq Nat
    BY <2>1
  <2> HIDE DEF now
  <2>3. Max(now) \in now /\ \A j \in now : Max(now) >= j
    <3>1. k + 1 \in Nat
      OBVIOUS
    <3> QED
      BY <2>2, <3>1, LastPlace
  <2>4. Max(now) = k + 1
    <3>1. Max(now) \in Nat /\ Max(now) >= k + 1 /\ k + 1 >= Max(now)
      BY <2>1, <2>2, <2>3
    <3> QED
      BY <3>1
  <2>5. Shown(order, k + 1) = order[k + 1].value
    BY <2>2, <2>4 DEF Shown, now
  <2> QED
    BY <1>1, <2>5 DEF RegisterAfter
<1>2. CASE ~IsWrite(order[k + 1])
  <2>1. now = before
    <3>1. ASSUME NEW j \in 1 .. (k + 1), IsWrite(order[j]) PROVE j \in 1 .. k
      BY <1>2, <3>1
    <3>2. 1 .. k \subseteq 1 .. (k + 1)
      OBVIOUS
    <3> QED
      BY <3>1, <3>2
  <2>2. Shown(order, k + 1) = Shown(order, k)
    BY <2>1 DEF Shown
  <2> QED
    BY <1>2, <2>2 DEF RegisterAfter
<1> QED
  BY <1>1, <1>2

\* Only the kinds and values at the places before matter.
LEMMA ShownAlike ==
    ASSUME NEW f, NEW g, NEW k \in Nat,
           \A j \in 1 .. k : f[j].kind = g[j].kind /\ f[j].value = g[j].value
    PROVE  Shown(f, k) = Shown(g, k)
<1> DEFINE T(o) == {j \in 1 .. k : IsWrite(o[j])}
<1>1. T(f) = T(g)
  <2>1. ASSUME NEW j \in 1 .. k PROVE IsWrite(f[j]) <=> IsWrite(g[j])
    BY DEF IsWrite
  <2> QED
    BY <2>1
<1>2. CASE T(f) = {}
  BY <1>1, <1>2 DEF Shown
<1>3. CASE T(f) # {}
  <2>1. T(f) \subseteq 1 .. k
    OBVIOUS
  <2>2. Max(T(f)) \in 1 .. k
    <3> HIDE DEF T
    <3> QED
      BY <1>3, <2>1, LastPlace
  <2>3. f[Max(T(f))].value = g[Max(T(f))].value
    BY <2>2
  <2> QED
    BY <1>1, <1>3, <2>3 DEF Shown
<1> QED
  BY <1>2, <1>3

LEMMA ShownSame ==
    ASSUME NEW f, NEW g, NEW k \in Nat, \A j \in 1 .. k : f[j] = g[j]
    PROVE  Shown(f, k) = Shown(g, k)
<1>1. \A j \in 1 .. k : f[j].kind = g[j].kind /\ f[j].value = g[j].value
  OBVIOUS
<1> QED
  BY <1>1, ShownAlike

LEMMA LargerOf ==
    ASSUME NEW a \in Nat, NEW b \in Nat
    PROVE  Max({a, b}) = IF a >= b THEN a ELSE b
<1> DEFINE m == IF a >= b THEN a ELSE b
<1>1. m \in {a, b} /\ \A x \in {a, b} : m >= x
  OBVIOUS
<1>2. Max({a, b}) \in {a, b} /\ \A x \in {a, b} : Max({a, b}) >= x
  BY <1>1, Zenon DEF Max
<1> QED
  BY <1>2

\* A candidate that fits goes after the operations placed before it.
LEMMA NextCallAfter ==
    ASSUME NEW R, NEW O, Searched(R \cup O), NEW n \in Nat, NEW order, NEW call,
           CallAfter(call, R, O, order, n),
           NEW op \in call.required \cup call.optional,
           Fits(op, call.register), op.complete >= call.frontier,
           NEW next, \A j \in 1 .. n : next[j] = order[j], next[n + 1] = op
    PROVE  CallAfter(NextCall(call, op), R, O, next, n + 1)
<1> DEFINE then == NextCall(call, op)
<1>1. /\ call.required = R \ PlacedOf(order, n) /\ call.optional = O \ PlacedOf(order, n)
      /\ call.register = Shown(order, n) /\ call.frontier \in Nat
      /\ \A j \in 1 .. n : order[j] \in R \cup O
      /\ \A j \in 1 .. n : order[j].invoke <= call.frontier
  BY DEF CallAfter
<1>2. /\ then.required = call.required \ {op} /\ then.optional = call.optional \ {op}
      /\ then.register = RegisterAfter(op, call.register)
      /\ then.frontier = Max({call.frontier, op.invoke})
  BY DEF NextCall
<1> HIDE DEF then
<1>3. op \in R \cup O /\ ~(\E j \in 1 .. n : order[j] = op)
  BY <1>1 DEF PlacedOf
<1>4. op.invoke \in Nat /\ op.complete \in Nat /\ op.invoke < op.complete
  BY <1>3 DEF Searched
<1>5. \A j \in 1 .. (n + 1) : (j \in 1 .. n /\ next[j] = order[j]) \/ (j = n + 1 /\ next[j] = op)
  OBVIOUS
<1>6. PlacedOf(next, n + 1) = PlacedOf(order, n) \cup {op}
  <2>1. ASSUME NEW x \in PlacedOf(next, n + 1) PROVE x \in PlacedOf(order, n) \cup {op}
    BY <1>5 DEF PlacedOf
  <2>2. ASSUME NEW x \in PlacedOf(order, n) PROVE x \in PlacedOf(next, n + 1)
    <3>1. PICK j \in 1 .. n : x = order[j]
      BY DEF PlacedOf
    <3>2. j \in 1 .. (n + 1) /\ next[j] = x
      BY <3>1
    <3> QED
      BY <3>2 DEF PlacedOf
  <2>3. op \in PlacedOf(next, n + 1)
    <3>1. n + 1 \in 1 .. (n + 1)
      OBVIOUS
    <3> QED
      BY <3>1 DEF PlacedOf
  <2> QED
    BY <2>1, <2>2, <2>3
<1>7. \A j \in 1 .. (n + 1) : next[j] \in R \cup O
  BY <1>1, <1>3, <1>5
<1>8. ASSUME NEW j \in 1 .. (n + 1), NEW k \in 1 .. (n + 1), j # k PROVE next[j] # next[k]
  <2>1. CASE j \in 1 .. n /\ k \in 1 .. n
    BY <1>8, <2>1 DEF CallAfter
  <2>2. CASE j = n + 1 \/ k = n + 1
    BY <1>3, <1>5, <1>8, <2>2
  <2> QED
    BY <2>1, <2>2
<1>9. then.required = R \ PlacedOf(next, n + 1) /\ then.optional = O \ PlacedOf(next, n + 1)
  BY <1>1, <1>2, <1>6
<1>10. then.register = Shown(next, n + 1)
  <2>1. Shown(next, n) = Shown(order, n)
    BY ShownSame
  <2> QED
    BY <1>1, <1>2, <2>1, ShownNext
<1>11. then.frontier = IF call.frontier >= op.invoke THEN call.frontier ELSE op.invoke
  BY <1>1, <1>2, <1>4, LargerOf
<1>12. then.frontier \in Nat
  BY <1>1, <1>4, <1>11
<1>13. ASSUME NEW j \in 1 .. (n + 1) PROVE next[j].invoke <= then.frontier
  <2>1. CASE j \in 1 .. n /\ next[j] = order[j]
    <3>1. order[j].invoke <= call.frontier /\ order[j].invoke \in Nat
      BY <1>1, <2>1 DEF Searched
    <3> QED
      BY <1>1, <1>4, <1>11, <2>1, <3>1
  <2>2. CASE next[j] = op
    BY <1>1, <1>4, <1>11, <2>2
  <2> QED
    BY <1>5, <2>1, <2>2
<1>14. then.frontier = 0 \/ \E j \in 1 .. (n + 1) : then.frontier = next[j].invoke
  <2>1. CASE call.frontier >= op.invoke
    <3>1. call.frontier = 0 \/ \E j \in 1 .. n : call.frontier = order[j].invoke
      BY DEF CallAfter
    <3>2. \A j \in 1 .. n : j \in 1 .. (n + 1)
      OBVIOUS
    <3> QED
      BY <1>11, <2>1, <3>1, <3>2
  <2>2. CASE ~(call.frontier >= op.invoke)
    <3>1. n + 1 \in 1 .. (n + 1)
      OBVIOUS
    <3> QED
      BY <1>11, <2>2, <3>1
  <2> QED
    BY <2>1, <2>2
<1>15. ASSUME NEW j \in 1 .. (n + 1), NEW k \in 1 .. (n + 1), j < k
       PROVE  next[j].invoke <= next[k].complete
  <2>1. j \in 1 .. n
    BY <1>15
  <2>2. CASE k \in 1 .. n
    BY <1>15, <2>1, <2>2 DEF CallAfter
  <2>3. CASE k = n + 1
    <3>1. order[j].invoke <= call.frontier /\ order[j].invoke \in Nat
      BY <1>1, <2>1 DEF Searched
    <3> QED
      BY <1>1, <1>4, <2>1, <2>3, <3>1
  <2> QED
    BY <2>2, <2>3
<1>16. ASSUME NEW k \in 1 .. (n + 1), IsRead(next[k]) PROVE next[k].value = Shown(next, k - 1)
  <2>1. CASE k \in 1 .. n
    <3>1. next[k] = order[k] /\ k - 1 \in Nat /\ \A j \in 1 .. (k - 1) : j \in 1 .. n
      BY <2>1
    <3>2. Shown(next, k - 1) = Shown(order, k - 1)
      BY <3>1, ShownSame
    <3>3. order[k].value = Shown(order, k - 1)
      BY <1>16, <2>1, <3>1 DEF CallAfter
    <3> QED
      BY <3>1, <3>2, <3>3
  <2>2. CASE k = n + 1
    <3>1. k - 1 = n /\ next[k] = op
      BY <2>2
    <3>2. Shown(next, n) = Shown(order, n)
      BY ShownSame
    <3>3. op.value = call.register
      BY <1>16, <3>1 DEF Fits, IsRead, IsWrite
    <3> QED
      BY <1>1, <3>1, <3>2, <3>3
  <2> QED
    BY <2>1, <2>2
<1> QED
  BY <1>7, <1>8, <1>9, <1>10, <1>12, <1>13, <1>14, <1>15, <1>16 DEF CallAfter, then

\* Nothing is placed in the first call.
LEMMA FirstCallAfter ==
    ASSUME NEW R, NEW O, NEW order
    PROVE  CallAfter(FirstCall(R, O), R, O, order, 0)
<1>1. PlacedOf(order, 0) = {} /\ \A j \in 1 .. 0 : FALSE
  BY DEF PlacedOf
<1>2. Shown(order, 0) = None
  BY ShownFirst
<1> QED
  BY <1>1, <1>2 DEF CallAfter, FirstCall

(***************************************************************************)
(* search finds an order if there is one.                                  *)
(***************************************************************************)

\* The first n operations of order are all that is required, with some of what is
\* optional, each invoked before those after it complete; reads fit.
Sequenced(R, O, order, n) ==
    /\ \A j \in 1 .. n : order[j] \in R \cup O
    /\ \A j, k \in 1 .. n : j # k => order[j] # order[k]
    /\ R \subseteq PlacedOf(order, n)
    /\ \A j, k \in 1 .. n : j < k => order[j].invoke <= order[k].complete
    /\ \A k \in 1 .. n : IsRead(order[k]) => order[k].value = Shown(order, k - 1)

\* Every call has placed some operations in an order that explains them.
LEMMA CallsHaveOrders ==
    ASSUME NEW R, NEW O, Searched(R \cup O), NEW n \in Nat
    PROVE  \A k \in 0 .. n : \A call \in CallsUpTo(n, R, O)[k] :
              \E order : CallAfter(call, R, O, order, k)
<1> DEFINE calls == CallsUpTo(n, R, O)
           D == {k \in Nat : k <= n => \A call \in calls[k] : \E order : CallAfter(call, R, O, order, k)}
<1>1. calls[0] = {FirstCall(R, O)} /\ \A k \in 1 .. n : calls[k] = NextCalls(calls[k - 1])
  BY CallsBuilt
<1> HIDE DEF calls
<1>2. 0 \in D
  <2>1. CallAfter(FirstCall(R, O), R, O, <<>>, 0)
    BY FirstCallAfter
  <2> QED
    BY <1>1, <2>1
<1>3. ASSUME NEW k \in Nat, k \in D PROVE k + 1 \in D
  <2> SUFFICES ASSUME k + 1 <= n, NEW call \in calls[k + 1]
               PROVE  \E order : CallAfter(call, R, O, order, k + 1)
    OBVIOUS
  <2>1. k + 1 \in 1 .. n /\ (k + 1) - 1 = k /\ k <= n
    OBVIOUS
  <2>2. calls[k + 1] = NextCalls(calls[k])
    BY <1>1, <2>1
  <2>3. PICK before \in calls[k] :
           \E op \in Candidates(before) : call = NextCall(before, op)
    BY <2>2 DEF NextCalls
  <2>4. PICK op \in Candidates(before) : call = NextCall(before, op)
    BY <2>3
  <2>5. PICK order : CallAfter(before, R, O, order, k)
    BY <1>3, <2>1
  <2>6. /\ op \in before.required \cup before.optional
        /\ op.complete >= before.frontier /\ Fits(op, before.register)
    BY <2>4 DEF Candidates
  <2> DEFINE next == [j \in 1 .. (k + 1) |-> IF j = k + 1 THEN op ELSE order[j]]
  <2>7. (\A j \in 1 .. k : next[j] = order[j]) /\ next[k + 1] = op
    OBVIOUS
  <2> HIDE DEF next
  <2>8. CallAfter(NextCall(before, op), R, O, next, k + 1)
    BY <2>5, <2>6, <2>7, NextCallAfter
  <2> QED
    BY <2>4, <2>8
<1>4. \A k \in Nat : k \in D
  <2> HIDE DEF D
  <2> QED
    BY <1>2, <1>3, NumbersInduction
<1>5. ASSUME NEW k \in 0 .. n, NEW call \in calls[k]
      PROVE  \E order : CallAfter(call, R, O, order, k)
  BY <1>4
<1> QED
  BY <1>5 DEF calls

\* Step by step the calls follow an order that explains the operations, unless one
\* is done before.
LEMMA CallsFollow ==
    ASSUME NEW R, NEW O, Searched(R \cup O), NEW n \in Nat,
           NEW m \in Nat, m <= n, NEW order, Sequenced(R, O, order, m)
    PROVE  \E k \in 0 .. n : \E call \in CallsUpTo(n, R, O)[k] : call.required = {}
<1> DEFINE calls == CallsUpTo(n, R, O)
           Ends == \E k \in 0 .. n : \E call \in calls[k] : call.required = {}
           D == {k \in Nat : k <= m =>
                    Ends \/ \E call \in calls[k] : CallAfter(call, R, O, order, k)}
<1>1. calls[0] = {FirstCall(R, O)} /\ \A k \in 1 .. n : calls[k] = NextCalls(calls[k - 1])
  BY CallsBuilt
<1> HIDE DEF calls
<1>2. 0 \in D
  <2>1. CallAfter(FirstCall(R, O), R, O, order, 0)
    BY FirstCallAfter
  <2> QED
    BY <1>1, <2>1
<1>3. ASSUME NEW k \in Nat, k \in D PROVE k + 1 \in D
  <2> SUFFICES ASSUME k + 1 <= m, ~Ends
               PROVE  \E call \in calls[k + 1] : CallAfter(call, R, O, order, k + 1)
    OBVIOUS
  <2>1. /\ k + 1 \in 1 .. n /\ (k + 1) - 1 = k /\ k <= m /\ k \in 0 .. n /\ k + 1 \in 1 .. m
        /\ \A j \in 1 .. k : j \in 1 .. m /\ j < k + 1 /\ j # k + 1
    OBVIOUS
  <2>2. calls[k + 1] = NextCalls(calls[k])
    BY <1>1, <2>1
  <2>3. PICK call \in calls[k] : CallAfter(call, R, O, order, k)
    BY <1>3, <2>1
  <2>4. call.required # {}
    BY <2>1
  <2> HIDE DEF Ends
  <2> DEFINE op == order[k + 1]
  <2>5. op \in R \cup O /\ ~(\E j \in 1 .. k : order[j] = op)
    BY <2>1 DEF Sequenced
  <2>6. op \in call.required \cup call.optional
    BY <2>3, <2>5 DEF CallAfter, PlacedOf
  <2>7. op.invoke \in Nat /\ op.complete \in Nat /\ op.invoke < op.complete
        /\ op.kind \in {"Read", "Write"}
    BY <2>5 DEF Searched
  <2>8. op.complete >= call.frontier
    <3>1. CASE call.frontier = 0
      BY <2>7, <3>1
    <3>2. CASE \E j \in 1 .. k : call.frontier = order[j].invoke
      <4>1. PICK j \in 1 .. k : call.frontier = order[j].invoke
        BY <3>2
      <4>2. order[j].invoke <= op.complete /\ order[j].invoke \in Nat
        BY <2>1 DEF Sequenced, Searched
      <4> QED
        BY <2>7, <4>1, <4>2
    <3> QED
      BY <2>3, <3>1, <3>2 DEF CallAfter
  <2>9. Fits(op, call.register)
    <3>1. CASE IsWrite(op)
      BY <3>1 DEF Fits
    <3>2. CASE ~IsWrite(op)
      <4>1. IsRead(op)
        BY <2>7, <3>2 DEF IsRead, IsWrite
      <4>2. op.value = Shown(order, (k + 1) - 1)
        BY <2>1, <4>1 DEF Sequenced
      <4>3. call.register = Shown(order, k)
        BY <2>3 DEF CallAfter
      <4> QED
        BY <2>1, <4>2, <4>3 DEF Fits
    <3> QED
      BY <3>1, <3>2
  <2>10. op.invoke <= Min({o.complete : o \in call.required})
    <3>1. \A o \in call.required : o \in R /\ o.complete \in Nat
      BY <2>3 DEF CallAfter, Searched
    <3>2. PICK o \in call.required : Min({r.complete : r \in call.required}) = o.complete
      BY <2>4, <3>1, SmallestTime
    <3>3. PICK j \in 1 .. m : order[j] = o
      BY <3>1 DEF Sequenced, PlacedOf
    <3>4. j \notin 1 .. k
      BY <2>3, <3>3 DEF CallAfter, PlacedOf
    <3>5. CASE j = k + 1
      BY <2>7, <3>2, <3>3, <3>5
    <3>6. CASE k + 1 < j
      <4>1. op.invoke <= order[j].complete
        BY <2>1, <3>6 DEF Sequenced
      <4> QED
        BY <3>2, <3>3, <4>1
    <3> QED
      BY <3>4, <3>5, <3>6
  <2>11. op \in Candidates(call)
    BY <2>6, <2>8, <2>9, <2>10 DEF Candidates
  <2>12. NextCall(call, op) \in calls[k + 1]
    BY <2>2, <2>4, <2>11 DEF NextCalls
  <2>13. CallAfter(NextCall(call, op), R, O, order, k + 1)
    BY <2>3, <2>6, <2>8, <2>9, NextCallAfter
  <2> QED
    BY <2>12, <2>13
<1>4. m \in D
  <2> HIDE DEF D
  <2> QED
    BY <1>2, <1>3, NumbersInduction
<1>5. Ends
  <2> SUFFICES ASSUME NEW call \in calls[m], CallAfter(call, R, O, order, m) PROVE Ends
    BY <1>4
  <2>1. call.required = {}
    BY DEF CallAfter, Sequenced
  <2> QED
    BY <2>1
<1> QED
  BY <1>5 DEF calls

LEMMA SearchDecides ==
    ASSUME NEW R, NEW O, Searched(R \cup O), IsFiniteSet(R \cup O)
    PROVE  Search(R, O) <=>
              \E n \in 0 .. Cardinality(R \cup O) : \E order : Sequenced(R, O, order, n)
<1> DEFINE depth == Cardinality(R \cup O)
<1>1. depth \in Nat
  BY FS_CardinalityType
<1> HIDE DEF depth
<1>2. Search(R, O) <=> \E k \in 0 .. depth :
         \E call \in CallsUpTo(depth, R, O)[k] : call.required = {}
  BY Zenon DEF Search, depth
<1>3. ASSUME NEW k \in 0 .. depth, NEW call \in CallsUpTo(depth, R, O)[k], call.required = {}
      PROVE  \E order : Sequenced(R, O, order, k)
  <2>1. PICK order : CallAfter(call, R, O, order, k)
    BY <1>1, CallsHaveOrders
  <2>2. R \subseteq PlacedOf(order, k)
    BY <1>3, <2>1 DEF CallAfter
  <2> QED
    BY <2>1, <2>2 DEF CallAfter, Sequenced
<1>4. ASSUME NEW k \in 0 .. depth, NEW order, Sequenced(R, O, order, k) PROVE Search(R, O)
  <2>1. k \in Nat /\ k <= depth
    BY <1>1
  <2> QED
    BY <1>1, <1>2, <1>4, <2>1, CallsFollow
<1> QED
  BY <1>2, <1>3, <1>4 DEF depth

(***************************************************************************)
(* The operations of one key.                                              *)
(***************************************************************************)

\* What the test clients record: each operation once, taking some time; a value
\* that is written is not the one of a missing key.
WellFormed(h) ==
    /\ IsFiniteSet(h)
    /\ \A op \in h : op.invoke < op.complete /\ (IsWrite(op) => op.value # None)
    /\ \A a, b \in h : a.id = b.id => a = b

\* Some order of the operations of one key explains them.
Explainable(h) ==
    \E taken \in SUBSET IndeterminateWrites(h) :
        \E order \in SetToSeqs(SuccessfulOps(h) \cup taken) :
            KeepsTime(order) /\ ReadsLastWrite(order)

\* x is what search is given for o: a write of unknown outcome may take until late.
Stands(x, o, late) ==
    /\ x.id = o.id /\ x.kind = o.kind /\ x.value = o.value /\ x.invoke = o.invoke
    /\ x.invoke \in Nat /\ x.complete \in Nat /\ x.invoke <= late
    /\ o.result # "Error" => x = o
    /\ o.result = "Error" => x.complete = late

\* Each required or optional operation of search stands for one of the history.
MadeFrom(h, late) ==
    LET A == SuccessfulOps(h)
        I == IndeterminateWrites(h)
        E == Extended(A, I)
    IN  /\ Searched(A \cup E) /\ IsFiniteSet(A \cup E) /\ late \in Nat
        /\ \A x \in A \cup E : \E o \in A \cup I : Stands(x, o, late) /\ (x \in A => o = x)
        /\ \A o \in A \cup I : \E x \in A \cup E : Stands(x, o, late) /\ (o \in A => x = o)
        /\ \A o \in A : o.result # "Error" /\ o \notin I
        /\ \A o \in I : o.result = "Error" /\ IsWrite(o)
        /\ \A x, y \in A \cup E : x.id = y.id => x = y
        /\ \A o, p \in A \cup I : o.id = p.id => o = p

LEMMA ExtendedStand ==
    ASSUME NEW Id, NEW Names, NEW Values, NEW h \in SUBSET Operation(Id, Names, Values),
           WellFormed(h)
    PROVE  \E late : MadeFrom(h, late)
<1> DEFINE A == SuccessfulOps(h)
           I == IndeterminateWrites(h)
           E == Extended(A, I)
           T == {op.complete : op \in A \cup I}
           late == Max(T \cup {0})
           ext(o) == [o EXCEPT !.complete = late, !.result = "Ok"]
<1>1. /\ A \cup I \in SUBSET h /\ (\A o \in A : o.result # "Error" /\ o \in h)
      /\ \A o \in I : o.result = "Error" /\ IsWrite(o) /\ o \in h
  BY DEF SuccessfulOps, IndeterminateWrites
<1>2. ASSUME NEW o \in h
      PROVE  /\ o \in Operation(Id, Names, Values)
             /\ o.kind \in {"Read", "Write"} /\ o.result \in {"Ok", "Error"}
             /\ o.invoke \in Nat /\ o.complete \in Nat /\ o.invoke < o.complete
  BY DEF WellFormed, Operation
<1>3. IsFiniteSet(A \cup I) /\ IsFiniteSet(A) /\ IsFiniteSet(I)
  <2>1. A \in SUBSET h /\ I \in SUBSET h
    BY <1>1
  <2> HIDE DEF A, I
  <2> QED
    BY <1>1, <2>1, FS_Subset DEF WellFormed
<1>4. late \in Nat /\ \A o \in A \cup I : o.complete <= late
  <2>1. IsFiniteSet(T)
    <3> HIDE DEF A, I
    <3> QED
      BY <1>3, TimesFinite
  <2>2. T \subseteq Nat /\ \A o \in A \cup I : o.complete \in T
    BY <1>1, <1>2
  <2> HIDE DEF T, A, I
  <2>3. IsFiniteSet(T \cup {0})
    BY <2>1, FS_AddElement
  <2>4. T \cup {0} \subseteq Nat /\ T \cup {0} # {}
    BY <2>2
  <2>5. late \in T \cup {0} /\ \A x \in T \cup {0} : late >= x
    BY <2>3, <2>4, LargestOf
  <2>6. late \in Nat
    BY <2>4, <2>5
  <2> HIDE DEF late
  <2>7. ASSUME NEW o \in A \cup I PROVE o.complete <= late
    <3>1. o.complete \in T /\ o.complete \in Nat
      BY <2>2
    <3>2. late >= o.complete
      BY <2>5, <3>1
    <3> QED
      BY <2>6, <3>1, <3>2
  <2> QED
    BY <2>6, <2>7
<1>5. E = {ext(o) : o \in I}
  BY DEF Extended
<1> HIDE DEF late, A, I, E
<1>6. ASSUME NEW o \in I
      PROVE  /\ ext(o).id = o.id /\ ext(o).kind = o.kind /\ ext(o).value = o.value
             /\ ext(o).invoke = o.invoke /\ ext(o).complete = late /\ ext(o).result = "Ok"
             /\ ext(o) \in E
  <2>1. o \in Operation(Id, Names, Values)
    BY <1>1, <1>2
  <2>2. ext(o) \in E
    BY <1>5
  <2> QED
    BY <2>1, <2>2 DEF Operation
<1> HIDE DEF ext
<1>7. ASSUME NEW o \in I PROVE Stands(ext(o), o, late) /\ ext(o).kind = "Write"
                               /\ ext(o).invoke < ext(o).complete
  <2>1. o.invoke \in Nat /\ o.complete \in Nat /\ o.invoke < o.complete /\ o.complete <= late
    BY <1>1, <1>2, <1>4
  <2>2. o.result = "Error" /\ o.kind = "Write"
    BY <1>1 DEF IsWrite
  <2> QED
    BY <1>4, <1>6, <2>1, <2>2 DEF Stands
<1>8. ASSUME NEW o \in A PROVE Stands(o, o, late)
  <2>1. o.invoke \in Nat /\ o.complete \in Nat /\ o.invoke < o.complete /\ o.complete <= late
        /\ o.result # "Error"
    BY <1>1, <1>2, <1>4
  <2> QED
    BY <1>4, <2>1 DEF Stands
<1>9. ASSUME NEW x \in E PROVE \E o \in I : x = ext(o)
  BY <1>5
<1>10. Searched(A \cup E)
  <2>1. ASSUME NEW x \in A PROVE x.kind \in {"Read", "Write"} /\ x.invoke \in Nat
                                 /\ x.complete \in Nat /\ x.invoke < x.complete
    BY <1>1, <1>2
  <2>2. ASSUME NEW x \in E PROVE x.kind \in {"Read", "Write"} /\ x.invoke \in Nat
                                 /\ x.complete \in Nat /\ x.invoke < x.complete
    <3>1. PICK o \in I : x = ext(o)
      BY <1>9
    <3> QED
      BY <1>7, <3>1 DEF Stands
  <2> QED
    BY <2>1, <2>2 DEF Searched
<1>11. IsFiniteSet(A \cup E)
  <2> DEFINE f == [o \in I |-> ext(o)]
  <2>1. DOMAIN f = I /\ {f[o] : o \in I} = E
    BY <1>5 DEF ext
  <2> HIDE DEF f
  <2>2. IsFiniteSet(E)
    BY <1>3, <2>1, ImageFinite
  <2> QED
    BY <1>3, <2>2, FS_Union
<1>12. ASSUME NEW x \in A \cup E
       PROVE  \E o \in A \cup I : Stands(x, o, late) /\ (x \in A => o = x)
  <2>1. CASE x \in A
    BY <1>8, <2>1
  <2>2. CASE x \notin A
    <3>1. PICK o \in I : x = ext(o)
      BY <1>9, <2>2
    <3> QED
      BY <1>7, <2>2, <3>1
  <2> QED
    BY <2>1, <2>2
<1>13. ASSUME NEW o \in A \cup I
       PROVE  \E x \in A \cup E : Stands(x, o, late) /\ (o \in A => x = o)
  <2>1. CASE o \in A
    BY <1>8, <2>1
  <2>2. CASE o \notin A
    BY <1>6, <1>7, <2>2
  <2> QED
    BY <2>1, <2>2
<1>14. ASSUME NEW x \in A \cup E, NEW y \in A \cup E, x.id = y.id PROVE x = y
  <2>1. PICK o \in A \cup I : Stands(x, o, late) /\ (o \in A => x = o) /\ (o \in I => x = ext(o))
    <3>1. CASE x \in A
      BY <1>1, <1>8, <3>1
    <3>2. CASE x \notin A
      BY <1>1, <1>7, <1>9, <3>2
    <3> QED
      BY <3>1, <3>2
  <2>2. PICK p \in A \cup I : Stands(y, p, late) /\ (p \in A => y = p) /\ (p \in I => y = ext(p))
    <3>1. CASE y \in A
      BY <1>1, <1>8, <3>1
    <3>2. CASE y \notin A
      BY <1>1, <1>7, <1>9, <3>2
    <3> QED
      BY <3>1, <3>2
  <2>3. o = p
    BY <1>1, <1>14, <2>1, <2>2 DEF Stands, WellFormed
  <2> QED
    BY <2>1, <2>2, <2>3
<1>15. (\A o \in A : o.result # "Error" /\ o \notin I) /\ \A o \in I : o.result = "Error" /\ IsWrite(o)
  BY <1>1
<1>16. \A o, p \in A \cup I : o.id = p.id => o = p
  BY <1>1 DEF WellFormed
<1> QED
  BY <1>4, <1>10, <1>11, <1>12, <1>13, <1>14, <1>15, <1>16, Zenon DEF MadeFrom, A, I, E

InTime(f, n) == \A j, k \in 1 .. n : j < k => f[j].invoke <= f[k].complete
TimeKept(f, n) == \A j, k \in 1 .. n : j < k => ~Before(f[k], f[j])
ReadsFit(f, n) == \A k \in 1 .. n : IsRead(f[k]) => f[k].value = Shown(f, k - 1)
AllStand(f, g, n, late) == \A j \in 1 .. n : Stands(f[j], g[j], late)

\* What search asks of an order of its operations is what the definition asks of
\* that of the operations they stand for.
LEMMA OrdersMatch ==
    ASSUME NEW late \in Nat, NEW n \in Nat, NEW f, NEW g, AllStand(f, g, n, late)
    PROVE  /\ InTime(f, n) <=> TimeKept(g, n)
           /\ ReadsFit(f, n) <=> ReadsFit(g, n)
<1>0. \A j \in 1 .. n : Stands(f[j], g[j], late)
  BY DEF AllStand
<1>1. ASSUME NEW j \in 1 .. n, NEW k \in 1 .. n
      PROVE  f[j].invoke <= f[k].complete <=> ~Before(g[k], g[j])
  <2>1. /\ f[j].invoke = g[j].invoke /\ f[j].invoke \in Nat /\ f[j].invoke <= late
        /\ f[k].complete \in Nat
    BY <1>0 DEF Stands
  <2>2. CASE g[k].result = "Error"
    <3>1. f[k].complete = late
      BY <1>0, <2>2 DEF Stands
    <3> QED
      BY <2>1, <2>2, <3>1 DEF Before
  <2>3. CASE g[k].result # "Error"
    <3>1. f[k] = g[k]
      BY <1>0, <2>3 DEF Stands
    <3> QED
      BY <2>1, <2>3, <3>1 DEF Before
  <2> QED
    BY <2>2, <2>3
<1>2. ASSUME NEW k \in 1 .. n
      PROVE  /\ IsRead(f[k]) <=> IsRead(g[k])
             /\ f[k].value = Shown(f, k - 1) <=> g[k].value = Shown(g, k - 1)
  <2>1. f[k].kind = g[k].kind /\ f[k].value = g[k].value
    BY <1>0 DEF Stands
  <2>2. k - 1 \in Nat /\ \A j \in 1 .. (k - 1) : j \in 1 .. n
    OBVIOUS
  <2>3. \A j \in 1 .. (k - 1) : f[j].kind = g[j].kind /\ f[j].value = g[j].value
    BY <1>0, <2>2 DEF Stands
  <2>4. Shown(f, k - 1) = Shown(g, k - 1)
    BY <2>2, <2>3, ShownAlike
  <2> QED
    BY <2>1, <2>4 DEF IsRead
<1> QED
  BY <1>1, <1>2 DEF InTime, TimeKept, ReadsFit

\* What an order of the definition is, in the terms of search.
LEMMA OrderMeans ==
    ASSUME NEW n \in Nat, NEW order, DOMAIN order = 1 .. n
    PROVE  /\ KeepsTime(order) <=> TimeKept(order, n)
           /\ ReadsLastWrite(order) <=> ReadsFit(order, n)
  BY Zenon DEF KeepsTime, ReadsLastWrite, Shown, TimeKept, ReadsFit

\* What search finds explains the history.
LEMMA FoundExplains ==
    ASSUME NEW h, NEW late, MadeFrom(h, late), NEW n \in Nat, NEW order,
           Sequenced(SuccessfulOps(h), Extended(SuccessfulOps(h), IndeterminateWrites(h)), order, n)
    PROVE  Explainable(h)
<1> DEFINE A == SuccessfulOps(h)
           I == IndeterminateWrites(h)
           E == Extended(A, I)
           src == [j \in 1 .. n |-> CHOOSE o \in A \cup I :
                                       Stands(order[j], o, late) /\ (order[j] \in A => o = order[j])]
           taken == {o \in I : \E j \in 1 .. n : src[j] = o}
           S == A \cup taken
<1>1. /\ late \in Nat
      /\ \A x \in A \cup E : \E o \in A \cup I : Stands(x, o, late) /\ (x \in A => o = x)
      /\ \A x, y \in A \cup E : x.id = y.id => x = y
      /\ \A o \in A : o \notin I
  BY Zenon DEF MadeFrom
<1>2. /\ \A j \in 1 .. n : order[j] \in A \cup E
      /\ \A j, k \in 1 .. n : j # k => order[j] # order[k]
      /\ A \subseteq PlacedOf(order, n)
      /\ \A j, k \in 1 .. n : j < k => order[j].invoke <= order[k].complete
      /\ \A k \in 1 .. n : IsRead(order[k]) => order[k].value = Shown(order, k - 1)
  BY Zenon DEF Sequenced
<1> HIDE DEF A, I, E
<1>3. ASSUME NEW j \in 1 .. n
      PROVE  /\ src[j] \in A \cup I /\ Stands(order[j], src[j], late)
             /\ (order[j] \in A => src[j] = order[j])
  <2>1. order[j] \in A \cup E
    BY <1>2
  <2>2. \E o \in A \cup I : Stands(order[j], o, late) /\ (order[j] \in A => o = order[j])
    BY <1>1, <2>1
  <2> QED
    BY <2>2
<1>4. DOMAIN src = 1 .. n
  OBVIOUS
<1> HIDE DEF src
<1>5. ASSUME NEW j \in 1 .. n, NEW k \in 1 .. n, src[j] = src[k] PROVE j = k
  <2>1. order[j].id = order[k].id
    BY <1>3, <1>5 DEF Stands
  <2>2. order[j] \in A \cup E /\ order[k] \in A \cup E
    BY <1>2
  <2>3. order[j] = order[k]
    BY <1>1, <2>1, <2>2
  <2> QED
    BY <1>2, <2>3
<1>6. ASSUME NEW o \in S PROVE \E j \in 1 .. n : src[j] = o
  <2>1. CASE o \in A
    <3>1. PICK j \in 1 .. n : order[j] = o
      BY <1>2, <2>1 DEF PlacedOf
    <3> QED
      BY <1>3, <2>1, <3>1
  <2>2. CASE o \in taken
    BY <2>2
  <2> QED
    BY <2>1, <2>2
<1>7. \A j \in 1 .. n : src[j] \in S
  BY <1>3
<1>8. taken \in SUBSET I
  OBVIOUS
<1> HIDE DEF taken
<1>9. src \in [1 .. n -> S]
  <2>1. src = [j \in 1 .. n |-> src[j]]
    BY <1>4 DEF src
  <2> HIDE DEF S
  <2> QED
    BY <1>7, <2>1
<1>10. Cardinality(S) = n
  <2> HIDE DEF S
  <2>1. src \in Bijection(1 .. n, S)
    BY <1>5, <1>6, <1>9 DEF Bijection, Injection, IsInjective, Surjection
  <2>2. IsFiniteSet(1 .. n) /\ Cardinality(1 .. n) = n
    BY FS_Interval
  <2> QED
    BY <2>1, <2>2, FS_Bijection DEF ExistsBijection
<1>11. src \in SetToSeqs(S)
  <2> HIDE DEF S
  <2> QED
    BY <1>5, <1>9, <1>10 DEF SetToSeqs
<1>12. TimeKept(src, n) /\ ReadsFit(src, n)
  <2>1. InTime(order, n) /\ ReadsFit(order, n)
    BY <1>2 DEF InTime, ReadsFit
  <2>2. AllStand(order, src, n, late)
    BY <1>3 DEF AllStand
  <2> QED
    BY <1>1, <2>1, <2>2, OrdersMatch
<1>13. KeepsTime(src) /\ ReadsLastWrite(src)
  BY <1>4, <1>12, OrderMeans
<1> QED
  BY <1>8, <1>11, <1>13 DEF Explainable, A, I, S

\* The elements of a sequence made from a set are those of the set.
LEMMA OrderOfSet ==
    ASSUME NEW S, IsFiniteSet(S), NEW order \in SetToSeqs(S)
    PROVE  /\ Cardinality(S) \in Nat /\ DOMAIN order = 1 .. Cardinality(S)
           /\ \A j \in 1 .. Cardinality(S) : order[j] \in S
           /\ \A j, k \in 1 .. Cardinality(S) : j # k => order[j] # order[k]
           /\ \A x \in S : \E j \in 1 .. Cardinality(S) : order[j] = x
<1> DEFINE n == Cardinality(S)
<1>1. n \in Nat
  BY FS_CardinalityType
<1>2. order \in [1 .. n -> S] /\ \A j, k \in 1 .. n : j # k => order[j] # order[k]
  BY DEF SetToSeqs
<1> HIDE DEF n
<1>3. order \in Injection(1 .. n, S)
  BY <1>2 DEF Injection, IsInjective
<1>4. Cardinality(1 .. n) = n
  BY <1>1, FS_Interval
<1>5. order \in Surjection(1 .. n, S)
  BY <1>3, <1>4, FS_Injection DEF n
<1> QED
  BY <1>1, <1>2, <1>5 DEF Surjection, n

\* An order that explains the history is one search can follow.
LEMMA ExplainedIsFound ==
    ASSUME NEW h, IsFiniteSet(h), NEW late, MadeFrom(h, late), Explainable(h)
    PROVE  LET R == SuccessfulOps(h)
               O == Extended(R, IndeterminateWrites(h))
           IN  \E n \in 0 .. Cardinality(R \cup O) : \E order : Sequenced(R, O, order, n)
<1> DEFINE A == SuccessfulOps(h)
           I == IndeterminateWrites(h)
           E == Extended(A, I)
<1>1. PICK taken \in SUBSET I : \E order \in SetToSeqs(A \cup taken) :
         KeepsTime(order) /\ ReadsLastWrite(order)
  BY DEF Explainable
<1> DEFINE S == A \cup taken
<1>2. PICK order \in SetToSeqs(S) : KeepsTime(order) /\ ReadsLastWrite(order)
  BY <1>1
<1>3. IsFiniteSet(S)
  <2>1. S \in SUBSET h
    BY DEF SuccessfulOps, IndeterminateWrites
  <2> QED
    BY <2>1, FS_Subset
<1>4. /\ late \in Nat /\ IsFiniteSet(A \cup E)
      /\ \A o \in A \cup I : \E x \in A \cup E : Stands(x, o, late) /\ (o \in A => x = o)
      /\ \A o, p \in A \cup I : o.id = p.id => o = p
  BY Zenon DEF MadeFrom
<1> DEFINE n == Cardinality(S)
           put == [j \in 1 .. n |-> CHOOSE x \in A \cup E :
                                       Stands(x, order[j], late) /\ (order[j] \in A => x = order[j])]
<1>5. /\ n \in Nat /\ DOMAIN order = 1 .. n
      /\ \A j \in 1 .. n : order[j] \in S
      /\ \A j, k \in 1 .. n : j # k => order[j] # order[k]
      /\ \A x \in S : \E j \in 1 .. n : order[j] = x
  <2> HIDE DEF S
  <2> QED
    BY <1>3, OrderOfSet
<1>6. \A x \in S : x \in A \cup I
  BY <1>1
<1>7. \A x \in A : x \in S
  OBVIOUS
<1> HIDE DEF A, I, E, S, n
<1>8. ASSUME NEW j \in 1 .. n
      PROVE  /\ put[j] \in A \cup E /\ Stands(put[j], order[j], late)
             /\ (order[j] \in A => put[j] = order[j])
  <2>1. order[j] \in A \cup I
    BY <1>5, <1>6
  <2>2. \E x \in A \cup E : Stands(x, order[j], late) /\ (order[j] \in A => x = order[j])
    BY <1>4, <2>1
  <2> QED
    BY <2>2
<1>9. put \in [1 .. n -> A \cup E]
  BY <1>8
<1> HIDE DEF put
<1>10. ASSUME NEW j \in 1 .. n, NEW k \in 1 .. n, put[j] = put[k] PROVE j = k
  <2>1. order[j].id = order[k].id
    BY <1>8, <1>10 DEF Stands
  <2>2. order[j] \in A \cup I /\ order[k] \in A \cup I
    BY <1>5, <1>6
  <2>3. order[j] = order[k]
    BY <1>4, <2>1, <2>2
  <2> QED
    BY <1>5, <2>3
<1>11. A \subseteq PlacedOf(put, n)
  <2> SUFFICES ASSUME NEW a \in A PROVE \E j \in 1 .. n : put[j] = a
    BY DEF PlacedOf
  <2>1. PICK j \in 1 .. n : order[j] = a
    BY <1>5, <1>7
  <2> QED
    BY <1>8, <2>1
<1>12. TimeKept(order, n) /\ ReadsFit(order, n)
  BY <1>2, <1>5, OrderMeans
<1>13. InTime(put, n) /\ ReadsFit(put, n)
  <2>1. AllStand(put, order, n, late)
    BY <1>8 DEF AllStand
  <2> QED
    BY <1>4, <1>5, <1>12, <2>1, OrdersMatch
<1>14. Sequenced(A, E, put, n)
  BY <1>8, <1>10, <1>11, <1>13 DEF Sequenced, InTime, ReadsFit
<1>15. n \in 0 .. Cardinality(A \cup E)
  <2>1. put \in Injection(1 .. n, A \cup E)
    BY <1>9, <1>10 DEF Injection, IsInjective
  <2>2. Cardinality(1 .. n) = n
    BY <1>5, FS_Interval
  <2>3. n <= Cardinality(A \cup E)
    BY <1>4, <2>1, <2>2, FS_Injection
  <2>4. Cardinality(A \cup E) \in Nat
    BY <1>4, FS_CardinalityType
  <2> QED
    BY <1>5, <2>3, <2>4
<1> QED
  BY <1>14, <1>15 DEF A, I, E

\* The fast checks refuse nothing that an order explains.
LEMMA FastChecksPass ==
    ASSUME NEW Id, NEW Names, NEW Values, NEW h \in SUBSET Operation(Id, Names, Values),
           WellFormed(h), Explainable(h)
    PROVE  /\ ReadsWritten(SuccessfulOps(h), IndeterminateWrites(h))
           /\ NoneReadEarly(SuccessfulOps(h))
<1> DEFINE A == SuccessfulOps(h)
           I == IndeterminateWrites(h)
<1>1. PICK taken \in SUBSET I : \E order \in SetToSeqs(A \cup taken) :
         KeepsTime(order) /\ ReadsLastWrite(order)
  BY DEF Explainable
<1> DEFINE S == A \cup taken
           n == Cardinality(S)
<1>2. PICK order \in SetToSeqs(S) : KeepsTime(order) /\ ReadsLastWrite(order)
  BY <1>1
<1>3. S \in SUBSET h /\ (\A o \in A : o.result # "Error") /\ A \subseteq S /\ S \subseteq A \cup I
  BY DEF SuccessfulOps, IndeterminateWrites
<1>4. IsFiniteSet(S)
  <2> HIDE DEF S
  <2> QED
    BY <1>3, FS_Subset DEF WellFormed
<1> HIDE DEF A, I, S, n
<1>5. /\ n \in Nat /\ DOMAIN order = 1 .. n
      /\ \A j \in 1 .. n : order[j] \in S
      /\ \A x \in S : \E j \in 1 .. n : order[j] = x
  BY <1>4, OrderOfSet DEF n
<1>6. TimeKept(order, n) /\ ReadsFit(order, n)
  BY <1>2, <1>5, OrderMeans
\* A read's value is that of some write before it, or there is none.
<1>7. ASSUME NEW k \in 1 .. n, IsRead(order[k])
      PROVE  \/ /\ order[k].value = None
                /\ \A j \in 1 .. (k - 1) : ~IsWrite(order[j])
             \/ \E j \in 1 .. n : IsWrite(order[j]) /\ order[k].value = order[j].value
  <2> DEFINE writes == {j \in 1 .. (k - 1) : IsWrite(order[j])}
  <2>1. order[k].value = Shown(order, k - 1)
    BY <1>6, <1>7 DEF ReadsFit
  <2>2. CASE writes = {}
    <3>1. Shown(order, k - 1) = None
      BY <2>2 DEF Shown
    <3>2. \A j \in 1 .. (k - 1) : ~IsWrite(order[j])
      BY <2>2
    <3> QED
      BY <2>1, <3>1, <3>2
  <2>3. CASE writes # {}
    <3>1. Shown(order, k - 1) = order[Max(writes)].value
      BY <2>3 DEF Shown
    <3>2. k - 1 \in Nat /\ writes \subseteq 1 .. (k - 1)
      BY <1>5
    <3>3. \A j \in writes : j \in 1 .. n /\ IsWrite(order[j])
      BY <1>5
    <3> HIDE DEF writes
    <3>4. Max(writes) \in writes
      BY <2>3, <3>2, LastPlace
    <3> QED
      BY <2>1, <3>1, <3>3, <3>4
  <2> QED
    BY <2>2, <2>3
<1>8. ReadsWritten(A, I)
  <2> SUFFICES ASSUME NEW r \in A, IsRead(r), r.value # None
               PROVE  \E w \in A \cup I : IsWrite(w) /\ w.value = r.value
    BY DEF ReadsWritten
  <2>1. PICK k \in 1 .. n : order[k] = r
    BY <1>3, <1>5
  <2>2. PICK j \in 1 .. n : IsWrite(order[j]) /\ order[k].value = order[j].value
    BY <1>7, <2>1
  <2> QED
    BY <1>3, <1>5, <2>1, <2>2
<1>9. NoneReadEarly(A)
  <2> SUFFICES ASSUME NEW r \in A, NEW w \in A, IsRead(r), r.value = None, IsWrite(w),
                      ~(w.complete >= r.invoke)
               PROVE  FALSE
    BY DEF NoneReadEarly
  <2>1. PICK k \in 1 .. n : order[k] = r
    BY <1>3, <1>5
  <2>2. PICK m \in 1 .. n : order[m] = w
    BY <1>3, <1>5
  <2>3. m # k
    BY <2>1, <2>2 DEF IsRead, IsWrite
  <2>4. \A j \in 1 .. n : IsWrite(order[j]) => order[j].value # None
    BY <1>3, <1>5 DEF WellFormed
  <2>5. \A j \in 1 .. (k - 1) : ~IsWrite(order[j])
    BY <1>7, <2>1, <2>4
  <2>6. k < m
    BY <1>5, <2>2, <2>3, <2>5
  <2>7. ~Before(w, r)
    BY <1>6, <2>1, <2>2, <2>6 DEF TimeKept
  <2>8. w \in h /\ r \in h /\ w.result # "Error"
    BY <1>3
  <2>9. w.complete \in Nat /\ r.invoke \in Nat
    BY <2>8 DEF Operation
  <2> QED
    BY <2>7, <2>8, <2>9 DEF Before
<1> QED
  BY <1>8, <1>9 DEF A, I

LEMMA KeyDecided ==
    ASSUME NEW Id, NEW Names, NEW Values, NEW h \in SUBSET Operation(Id, Names, Values),
           WellFormed(h)
    PROVE  CheckSingleKey(SuccessfulOps(h), IndeterminateWrites(h)) <=> Explainable(h)
<1> DEFINE A == SuccessfulOps(h)
           I == IndeterminateWrites(h)
           E == Extended(A, I)
<1>1. PICK late : MadeFrom(h, late)
  BY ExtendedStand
<1>2. Searched(A \cup E) /\ IsFiniteSet(A \cup E)
  BY <1>1, Zenon DEF MadeFrom
<1>3. IsFiniteSet(h)
  BY DEF WellFormed
<1>4. Search(A, E) <=> \E n \in 0 .. Cardinality(A \cup E) : \E order : Sequenced(A, E, order, n)
  <2> HIDE DEF A, E
  <2> QED
    BY <1>2, SearchDecides
<1>5. ASSUME Search(A, E) PROVE Explainable(h)
  <2>1. PICK n \in 0 .. Cardinality(A \cup E) : \E order : Sequenced(A, E, order, n)
    BY <1>4, <1>5
  <2>2. PICK order : Sequenced(A, E, order, n)
    BY <2>1
  <2>3. n \in Nat
    BY <1>2, FS_CardinalityType
  <2> QED
    BY <1>1, <2>2, <2>3, FoundExplains
<1>6. ASSUME Explainable(h) PROVE Search(A, E)
  BY <1>1, <1>3, <1>4, <1>6, ExplainedIsFound
<1>7. ASSUME Explainable(h) PROVE ReadsWritten(A, I) /\ NoneReadEarly(A)
  BY <1>7, FastChecksPass
<1> QED
  BY <1>5, <1>6, <1>7 DEF CheckSingleKey

(***************************************************************************)
(* The checker (chaos-test/src/checker.rs) decides linearizability: it     *)
(* accepts the history of a test if and only if, for every key, some order *)
(* of its operations explains what the clients saw.  Neither its fast      *)
(* checks nor the cut-offs of its search change a verdict.                 *)
(***************************************************************************)
THEOREM CheckDecides ==
    ASSUME NEW Id, NEW Names, NEW Values, NEW h \in SUBSET Operation(Id, Names, Values),
           WellFormed(h)
    PROVE  Check(h) <=> IsLinearizable(h)
<1>1. ASSUME NEW key \in UniqueKeys(h)
      PROVE  CheckSingleKey(SuccessfulOps(OpsForKey(h, key)), IndeterminateWrites(OpsForKey(h, key)))
                <=> Explainable(OpsForKey(h, key))
  <2>1. OpsForKey(h, key) \in SUBSET h
    BY DEF OpsForKey
  <2>2. IsFiniteSet(OpsForKey(h, key))
    BY <2>1, FS_Subset DEF WellFormed
  <2>3. WellFormed(OpsForKey(h, key))
    BY <2>1, <2>2 DEF WellFormed
  <2>4. OpsForKey(h, key) \in SUBSET Operation(Id, Names, Values)
    BY <2>1
  <2> QED
    BY <2>3, <2>4, KeyDecided
<1>2. Check(h) <=> \A key \in UniqueKeys(h) : Explainable(OpsForKey(h, key))
  BY <1>1, Zenon DEF Check
<1>3. IsLinearizable(h) <=> \A key \in UniqueKeys(h) : Explainable(OpsForKey(h, key))
  BY Zenon DEF IsLinearizable, Explainable
<1> QED
  BY <1>2, <1>3

=============================================================================
