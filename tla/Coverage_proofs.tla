-------------------------- MODULE Coverage_proofs --------------------------
(***************************************************************************)
(* That plans are exact, that the rows of coverage are canonical, and that *)
(* they implement LatestCoverage, for addresses of any number of bits and  *)
(* any inventories.  The loops of targets.py and persistence.py are folds: *)
(* each is given as a chain of its intermediate plans, and what it keeps   *)
(* from one to the next is proved by induction along the chain.            *)
(***************************************************************************)
EXTENDS Coverage, WellFoundedInduction, FiniteSetTheorems, SequenceTheorems, TLAPS

-----------------------------------------------------------------------------
(* Induction and folds.  A predicate cannot be given to a lemma: a set can. *)

\* A nonempty set of numbers has a least one.
LEMMA Smallest ==
  ASSUME NEW T \in SUBSET Nat, T # {}
  PROVE  \E x \in T : \A y \in T : x <= y
  <1>. DEFINE R == OpToRel(<, Nat)
  <1>1. IsWellFoundedOn(R, Nat)
    BY NatLessThanWellFounded
  <1>2. PICK x \in T : \A y \in T : <<y, x>> \notin R
    <2>. HIDE DEF R
    <2>. QED  BY <1>1, WFMin
  <1>3. \A y \in T : ~(y < x)
    BY <1>2 DEF OpToRel
  <1>. QED  BY <1>3

\* Induction up to n.
LEMMA UpTo ==
  ASSUME NEW n \in Nat, NEW T, 0 \in T,
         \A k \in 0 .. n - 1 : k \in T => k + 1 \in T
  PROVE  0 .. n \subseteq T
<1> DEFINE Out == {k \in 0 .. n : k \notin T}
<1>1. ASSUME Out # {} PROVE FALSE
  <2>0. Out \in SUBSET Nat
    OBVIOUS
  <2>1. PICK x \in Out : \A y \in Out : x <= y
    <3> HIDE DEF Out
    <3> QED  BY <1>1, <2>0, Smallest
  <2>2. x # 0 /\ x - 1 \in 0 .. n - 1 /\ x - 1 \notin Out
    BY <2>1
  <2>3. x - 1 \in T /\ (x - 1) + 1 = x
    BY <2>2
  <2>4. QED  BY <2>1, <2>2, <2>3
<1>2. QED  BY <1>1

\* A nonempty set of numbers up to n has a greatest one.
LEMMA Greatest ==
  ASSUME NEW n \in Nat, NEW s \in SUBSET (1 .. n), s # {}
  PROVE  Max(s) \in s /\ \A y \in s : y <= Max(s)
<1> DEFINE T == {k \in 0 .. n : n - k \in s}
<1>0. T \in SUBSET Nat
  OBVIOUS
<1>1. T # {}
  <2>1. PICK x \in s : TRUE
    OBVIOUS
  <2>2. n - x \in 0 .. n /\ n - (n - x) = x
    BY <2>1
  <2>3. n - x \in T
    BY <2>1, <2>2
  <2>4. QED  BY <2>3
<1>2. PICK m \in T : \A y \in T : m <= y
  <2> HIDE DEF T
  <2> QED  BY <1>0, <1>1, Smallest
<1>3. n - m \in s /\ m \in 0 .. n
  OBVIOUS
<1>4. ASSUME NEW y \in s PROVE y <= n - m
  <2>1. n - y \in 0 .. n /\ n - (n - y) = y
    OBVIOUS
  <2>2. n - y \in T
    BY <2>1
  <2>3. m <= n - y
    BY <1>2, <2>2
  <2>4. QED  BY <1>3, <2>3
<1>5. \E z \in s : \A y \in s : z >= y
  <2>1. \A y \in s : n - m >= y
    BY <1>3, <1>4
  <2>2. QED  BY <1>3, <2>1
<1>6. Max(s) \in s /\ \A y \in s : Max(s) >= y
  <2> DEFINE z == CHOOSE x \in s : \A y \in s : x >= y
  <2>1. z \in s /\ \A y \in s : z >= y
    BY <1>5
  <2>2. QED  BY <2>1 DEF Max
<1>7. QED  BY <1>6

LEMMA GreatestIs ==
  ASSUME NEW n \in Nat, NEW s \in SUBSET (1 .. n), NEW x \in s, \A y \in s : y <= x
  PROVE  Max(s) = x
<1>1. Max(s) \in s /\ \A y \in s : y <= Max(s)
  BY Greatest
<1> DEFINE m == Max(s)
<1>2. m \in 1 .. n /\ x \in 1 .. n
  BY <1>1
<1>3. x <= m /\ m <= x
  BY <1>1
<1> HIDE DEF m
<1>4. m = x
  BY <1>2, <1>3
<1>5. QED  BY <1>4 DEF m

\* The recursion of a fold over 1 .. n has a solution.
Solution(it, n, V, b, f) ==
  /\ it \in [SUBSET (1 .. n) -> V]
  /\ \A s \in SUBSET (1 .. n) :
       it[s] = IF s = {} THEN b ELSE f[Max(s)][it[s \ {Max(s)}]]
Solvable(n, V, b, f) == \E it : Solution(it, n, V, b, f)

LEMMA Recursion ==
  ASSUME NEW n \in Nat, NEW V, NEW b \in V, NEW f \in [1 .. n -> [V -> V]]
  PROVE  Solvable(n, V, b, f)
<1> DEFINE Solves(it, k) == \A s \in SUBSET (1 .. k) :
             it[s] = IF s = {} THEN b ELSE f[Max(s)][it[s \ {Max(s)}]]
           T == {k \in 0 .. n : \E it \in [SUBSET (1 .. k) -> V] : Solves(it, k)}
<1>1. 0 \in T
  <2> DEFINE it == [s \in SUBSET (1 .. 0) |-> b]
  <2>1. \A s \in SUBSET (1 .. 0) : s = {}
    OBVIOUS
  <2>2. it \in [SUBSET (1 .. 0) -> V] /\ Solves(it, 0)
    BY <2>1
  <2> HIDE DEF it
  <2>3. \E h \in [SUBSET (1 .. 0) -> V] : Solves(h, 0)
    BY <2>2
  <2>4. 0 \in 0 .. n
    OBVIOUS
  <2> HIDE DEF Solves
  <2>5. QED  BY <2>3, <2>4, Zenon
<1>2. ASSUME NEW k \in 0 .. n - 1, k \in T PROVE k + 1 \in T
  <2>1. PICK it \in [SUBSET (1 .. k) -> V] : Solves(it, k)
    BY <1>2
  <2> DEFINE new == [s \in SUBSET (1 .. k + 1) |->
                       IF k + 1 \in s THEN f[k + 1][it[s \ {k + 1}]] ELSE it[s]]
  <2>2. \A s \in SUBSET (1 .. k + 1) : s \ {k + 1} \in SUBSET (1 .. k)
    OBVIOUS
  <2>3. \A s \in SUBSET (1 .. k + 1) : k + 1 \notin s => s \in SUBSET (1 .. k)
    OBVIOUS
  <2>4. k + 1 \in 1 .. n
    OBVIOUS
  <2>5. new \in [SUBSET (1 .. k + 1) -> V]
    BY <2>2, <2>3, <2>4
  <2>6. ASSUME NEW s \in SUBSET (1 .. k + 1)
        PROVE  new[s] = IF s = {} THEN b ELSE f[Max(s)][new[s \ {Max(s)}]]
    <3>1. CASE k + 1 \in s
      <4>1. Max(s) = k + 1
        <5>1. \A y \in s : y <= k + 1
          OBVIOUS
        <5>2. k + 1 \in Nat
          OBVIOUS
        <5>3. QED  BY <3>1, <5>1, <5>2, GreatestIs
      <4>2. new[s \ {k + 1}] = it[s \ {k + 1}]
        BY <2>2
      <4>3. QED  BY <3>1, <4>1, <4>2
    <3>2. CASE k + 1 \notin s
      <4>1. s \in SUBSET (1 .. k) /\ new[s] = it[s]
        BY <2>3, <3>2
      <4>2. CASE s = {}
        BY <2>1, <4>1, <4>2
      <4>3. CASE s # {}
        <5>1. s \ {Max(s)} \in SUBSET (1 .. k) /\ k + 1 \notin s \ {Max(s)}
          BY <3>2, <4>1
        <5>2. new[s \ {Max(s)}] = it[s \ {Max(s)}]
          BY <5>1
        <5>3. QED  BY <2>1, <4>1, <4>3, <5>2
      <4>4. QED  BY <4>2, <4>3
    <3>3. QED  BY <3>1, <3>2
  <2> HIDE DEF new
  <2>7. Solves(new, k + 1)
    BY <2>6
  <2> HIDE DEF Solves
  <2>8. \E h \in [SUBSET (1 .. k + 1) -> V] : Solves(h, k + 1)
    BY <2>5, <2>7, Zenon
  <2>9. k + 1 \in 0 .. n
    OBVIOUS
  <2>10. QED  BY <2>8, <2>9, Zenon
<1>3. n \in T
  <2> HIDE DEF T
  <2>1. 0 .. n \subseteq T
    BY <1>1, <1>2, UpTo
  <2>2. QED  BY <2>1
<1>4. PICK it \in [SUBSET (1 .. n) -> V] : Solves(it, n)
  <2> HIDE DEF Solves
  <2> QED  BY <1>3
<1>5. Solution(it, n, V, b, f)
  BY <1>4 DEF Solution
<1>6. QED  BY <1>5 DEF Solvable

\* Its solution, from one element to the next.
LEMMA Segments ==
  ASSUME NEW n \in Nat, NEW k \in 0 .. n - 1
  PROVE  /\ 1 .. k + 1 \in SUBSET (1 .. n) /\ 1 .. k + 1 # {}
         /\ Max(1 .. k + 1) = k + 1 /\ (1 .. k + 1) \ {k + 1} = 1 .. k
         /\ 1 .. k \in SUBSET (1 .. n)
<1>1. Max(1 .. k + 1) = k + 1
  <2>1. 1 .. k + 1 \in SUBSET (1 .. n) /\ k + 1 \in 1 .. k + 1 /\ \A y \in 1 .. k + 1 : y <= k + 1
    OBVIOUS
  <2>2. QED  BY <2>1, GreatestIs
<1>2. /\ 1 .. k + 1 \in SUBSET (1 .. n) /\ 1 .. k + 1 # {}
      /\ (1 .. k + 1) \ {k + 1} = 1 .. k /\ 1 .. k \in SUBSET (1 .. n)
  OBVIOUS
<1>3. QED  BY <1>1, <1>2

-----------------------------------------------------------------------------
(* The folds of the model, one element after the other *)

Pairs == Int \X Int
Plans == Seq(Pairs)

LEMMA PlanElements ==
  ASSUME NEW plan \in Plans
  PROVE  /\ Len(plan) \in Nat /\ DOMAIN plan = 1 .. Len(plan)
         /\ \A k \in 1 .. Len(plan) : plan[k] \in Pairs /\ plan[k][1] \in Int /\ plan[k][2] \in Int
<1>1. Len(plan) \in Nat /\ DOMAIN plan = 1 .. Len(plan) /\ plan \in [1 .. Len(plan) -> Pairs]
  BY LenProperties DEF Plans
<1>2. QED  BY <1>1 DEF Pairs

LEMMA TotalFold ==
  ASSUME NEW plan \in Plans
  PROVE  \E g : /\ g[0] = 0 /\ Total(plan) = g[Len(plan)]
                /\ \A k \in 0 .. Len(plan) - 1 : g[k + 1] = g[k] + Width(plan[k + 1])
<1> DEFINE n == Len(plan)
           f == [k \in 1 .. n |-> [v \in Int |-> v + Width(plan[k])]]
           Step(it, s) == IF s = {} THEN 0 ELSE it[s \ {Max(s)}] + Width(plan[Max(s)])
           Fixed(it) == it = [s \in SUBSET (1 .. n) |-> Step(it, s)]
           iter == CHOOSE it : Fixed(it)
           g == [k \in 0 .. n |-> iter[1 .. k]]
<1>1. n \in Nat /\ DOMAIN plan = 1 .. n /\ \A k \in 1 .. n : Width(plan[k]) \in Int
  BY PlanElements DEF Width
<1>2. Fixed(iter)
  <2>1. f \in [1 .. n -> [Int -> Int]] /\ n \in Nat /\ 0 \in Int
    BY <1>1
  <2> HIDE DEF f, n
  <2>2. PICK it : Solution(it, n, Int, 0, f)
    BY <2>1, Recursion, Zenon DEF Solvable
  <2>3. ASSUME NEW s \in SUBSET (1 .. n) PROVE it[s] = Step(it, s)
    <3>1. CASE s = {}
      BY <2>2, <3>1 DEF Solution
    <3>2. CASE s # {}
      <4>1. Max(s) \in 1 .. n /\ s \ {Max(s)} \in SUBSET (1 .. n)
        BY <2>1, <3>2, Greatest
      <4>2. it[s \ {Max(s)}] \in Int /\ it[s] = f[Max(s)][it[s \ {Max(s)}]]
        BY <2>2, <3>2, <4>1 DEF Solution
      <4>3. QED  BY <3>2, <4>1, <4>2 DEF f
    <3>3. QED  BY <3>1, <3>2
  <2> HIDE DEF Step
  <2>4. it = [s \in SUBSET (1 .. n) |-> it[s]]
    BY <2>2 DEF Solution
  <2>5. Fixed(it)
    BY <2>3, <2>4
  <2> HIDE DEF Fixed
  <2>6. QED  BY <2>5
<1>3. Total(plan) = iter[1 .. n]
  BY <1>1 DEF Total, FoldLeft, MapThenFoldSet
<1> HIDE DEF iter
<1>4. \A s \in SUBSET (1 .. n) : iter[s] = Step(iter, s)
  <2> HIDE DEF Step
  <2> QED  BY <1>2
<1>5. g[0] = 0
  <2>1. 1 .. 0 = {} /\ {} \in SUBSET (1 .. n)
    OBVIOUS
  <2>2. Step(iter, {}) = 0
    OBVIOUS
  <2> HIDE DEF Step
  <2>3. iter[1 .. 0] = 0
    BY <1>4, <2>1, <2>2
  <2>4. 0 \in 0 .. n
    BY <1>1
  <2>5. QED  BY <2>3, <2>4
<1>6. ASSUME NEW k \in 0 .. n - 1 PROVE g[k + 1] = g[k] + Width(plan[k + 1])
  <2>1. /\ 1 .. k + 1 \in SUBSET (1 .. n) /\ 1 .. k + 1 # {}
        /\ Max(1 .. k + 1) = k + 1 /\ (1 .. k + 1) \ {k + 1} = 1 .. k
    BY <1>1, Segments
  <2>2. iter[1 .. k + 1] = iter[1 .. k] + Width(plan[k + 1])
    BY <1>4, <2>1
  <2>3. g[k + 1] = iter[1 .. k + 1] /\ g[k] = iter[1 .. k]
    BY <1>1
  <2>4. QED  BY <2>2, <2>3
<1>7. g[n] = iter[1 .. n]
  BY <1>1
<1>8. QED
  <2> HIDE DEF g
  <2> QED  BY <1>3, <1>5, <1>6, <1>7

\* The solution of a recursion from one number to the next.
Chain(g, n, V, b, f) ==
  /\ g \in [0 .. n -> V] /\ g[0] = b
  /\ \A k \in 0 .. n - 1 : g[k + 1] = f[k + 1][g[k]]
Chained(n, V, b, f) == \E g : Chain(g, n, V, b, f)

LEMMA Chaining ==
  ASSUME NEW n \in Nat, NEW V, NEW b \in V, NEW f \in [1 .. n -> [V -> V]]
  PROVE  Chained(n, V, b, f)
<1>1. PICK it : Solution(it, n, V, b, f)
  BY Recursion, Zenon DEF Solvable
<1> DEFINE g == [k \in 0 .. n |-> it[1 .. k]]
<1>2. g \in [0 .. n -> V]
  BY <1>1 DEF Solution
<1>3. g[0] = b
  <2>1. 1 .. 0 = {} /\ {} \in SUBSET (1 .. n)
    OBVIOUS
  <2>2. it[{}] = b
    BY <1>1, <2>1 DEF Solution
  <2>3. QED  BY <2>1, <2>2
<1>4. ASSUME NEW k \in 0 .. n - 1 PROVE g[k + 1] = f[k + 1][g[k]]
  <2>1. /\ 1 .. k + 1 \in SUBSET (1 .. n) /\ 1 .. k + 1 # {}
        /\ Max(1 .. k + 1) = k + 1 /\ (1 .. k + 1) \ {k + 1} = 1 .. k
    BY Segments
  <2>2. it[1 .. k + 1] = f[k + 1][it[1 .. k]]
    BY <1>1, <2>1 DEF Solution
  <2>3. QED  BY <2>2
<1> HIDE DEF g
<1>5. Chain(g, n, V, b, f)
  BY <1>2, <1>3, <1>4 DEF Chain
<1>6. QED  BY <1>5 DEF Chained

\* The sizes of networks.
LEMMA Sizes ==
  /\ Size[Bits] = 1
  /\ \A p \in 0 .. Bits - 1 : Size[p] = 2 * Size[p + 1]
  /\ \A p \in PrefixLengths : Size[p] \in Nat \ {0} /\ (Size[p] > 2 <=> p < Bits - 1)
<1> DEFINE f == [k \in 1 .. Bits |-> [v \in Nat |-> 2 * v]]
           Fixed(h) == h = [p \in PrefixLengths |-> IF p = Bits THEN 1 ELSE 2 * h[p + 1]]
           size == CHOOSE h : Fixed(h)
<1>0. Bits \in Nat /\ Bits > 0
  BY TargetsAssumption
<1>1. PICK g : Chain(g, Bits, Nat, 1, f)
  <2>1. f \in [1 .. Bits -> [Nat -> Nat]] /\ 1 \in Nat /\ Bits \in Nat
    BY <1>0
  <2> HIDE DEF f
  <2>2. QED  BY <2>1, Chaining, Zenon DEF Chained
<1>2. Fixed(size)
  <2> DEFINE h == [p \in PrefixLengths |-> g[Bits - p]]
  <2>0. ASSUME NEW k \in 0 .. Bits - 1 PROVE g[k + 1] = 2 * g[k]
    <3> HIDE DEF f
    <3>1. k \in 0 .. Bits /\ k + 1 \in 1 .. Bits
      BY <1>0
    <3>2. g[k + 1] = f[k + 1][g[k]]
      BY <1>1 DEF Chain
    <3>3. g[k] \in Nat
      BY <1>1, <3>1 DEF Chain
    <3>4. QED  BY <3>1, <3>2, <3>3 DEF f
  <2>1. ASSUME NEW p \in PrefixLengths PROVE h[p] = IF p = Bits THEN 1 ELSE 2 * h[p + 1]
    <3>1. CASE p = Bits
      <4>1. Bits - p = 0
        BY <1>0, <3>1
      <4>2. QED  BY <1>1, <3>1, <4>1 DEF Chain
    <3>2. CASE p # Bits
      <4> DEFINE k == Bits - (p + 1)
      <4>1. k \in 0 .. Bits - 1 /\ k + 1 = Bits - p /\ k + 1 \in 1 .. Bits
            /\ p + 1 \in PrefixLengths
        BY <1>0, <3>2 DEF PrefixLengths
      <4>3. g[k + 1] = 2 * g[k]
        BY <2>0, <4>1
      <4>4. h[p] = g[k + 1] /\ h[p + 1] = g[k]
        BY <4>1
      <4> HIDE DEF h, k
      <4>5. QED  BY <3>2, <4>3, <4>4
    <3>3. QED  BY <3>1, <3>2
  <2>2. h = [p \in PrefixLengths |-> h[p]]
    OBVIOUS
  <2> HIDE DEF h
  <2>3. Fixed(h)
    BY <2>1, <2>2
  <2> HIDE DEF Fixed
  <2>4. QED  BY <2>3
<1>3. Size = size
  BY DEF Size
<1> HIDE DEF size
<1>4. \A p \in PrefixLengths : Size[p] = IF p = Bits THEN 1 ELSE 2 * Size[p + 1]
  BY <1>2, <1>3
<1>5. Size[Bits] = 1 /\ \A p \in 0 .. Bits - 1 : Size[p] = 2 * Size[p + 1]
  BY <1>0, <1>4 DEF PrefixLengths
<1>6. ASSUME NEW k \in 0 .. Bits PROVE Size[Bits - k] \in Nat \ {0} /\ (Size[Bits - k] > 2 <=> k > 1)
  <2> DEFINE T == {j \in 0 .. Bits : Size[Bits - j] \in Nat \ {0} /\ (Size[Bits - j] > 2 <=> j > 1)
                                     /\ (j = 1 => Size[Bits - j] = 2)}
  <2>1. 0 \in T
    BY <1>0, <1>5
  <2>2. ASSUME NEW j \in 0 .. Bits - 1, j \in T PROVE j + 1 \in T
    <3>1. Bits - (j + 1) \in 0 .. Bits - 1 /\ (Bits - (j + 1)) + 1 = Bits - j
      BY <1>0
    <3>2. Size[Bits - (j + 1)] = 2 * Size[Bits - j]
      BY <1>5, <3>1
    <3>3. j = 0 => Size[Bits - j] = 1
      BY <1>0, <1>5
    <3>4. Size[Bits - j] \in Nat \ {0} /\ (Size[Bits - j] > 2 <=> j > 1)
          /\ (j = 1 => Size[Bits - j] = 2)
      BY <2>2
    <3>5. j + 1 \in 0 .. Bits /\ j \in Nat
      BY <1>0
    <3> DEFINE a == Size[Bits - (j + 1)]
               b == Size[Bits - j]
    <3>6. a \in Nat \ {0} /\ (a > 2 <=> j + 1 > 1) /\ (j + 1 = 1 => a = 2)
      <4>1. a = 2 * b /\ b \in Nat \ {0} /\ (j = 0 => b = 1) /\ (j = 1 => b = 2) /\ (b > 2 <=> j > 1)
        BY <3>2, <3>3, <3>4
      <4> HIDE DEF a, b
      <4>2. QED  BY <3>5, <4>1
    <3>7. QED  BY <3>5, <3>6
  <2> HIDE DEF T
  <2>3. k \in T
    BY <1>0, <2>1, <2>2, UpTo
  <2>4. QED  BY <2>3 DEF T
<1>7. ASSUME NEW p \in PrefixLengths PROVE Size[p] \in Nat \ {0} /\ (Size[p] > 2 <=> p < Bits - 1)
  <2>1. Bits - p \in 0 .. Bits /\ Bits - (Bits - p) = p /\ (Bits - p > 1 <=> p < Bits - 1)
    BY <1>0 DEF PrefixLengths
  <2>2. QED  BY <1>6, <2>1
<1>8. QED  BY <1>5, <1>7

Appending(g, e, n, ss) == /\ g[0] = e
                          /\ \A k \in 0 .. n - 1 : g[k + 1] = g[k] \o ss[k + 1]
Flattening(h, n, ss) == \A i \in 1 .. n : h[i] = IF i = 1 THEN ss[i] ELSE h[i - 1] \o ss[i]
Equal(g, h, n) == h[n] = g[n]

LEMMA SamePlans ==
  ASSUME NEW n \in Nat, n # 0, NEW ss, NEW g, NEW h, NEW e, e \o ss[1] = ss[1],
         Appending(g, e, n, ss), Flattening(h, n, ss)
  PROVE  Equal(g, h, n)
<1> DEFINE T == {k \in 0 .. n : k # 0 => h[k] = g[k]}
<1>1. 0 \in T
  OBVIOUS
<1>2. ASSUME NEW k \in 0 .. n - 1, k \in T PROVE k + 1 \in T
  <2>1. k + 1 \in 1 .. n /\ (k + 1) - 1 = k /\ k + 1 # 0 /\ (k # 0 => k + 1 # 1)
    OBVIOUS
  <2>2. g[k + 1] = g[k] \o ss[k + 1]
    BY DEF Appending
  <2>3. h[k + 1] = g[k + 1]
    <3>1. CASE k = 0
      <4>2. h[1] = ss[1]
        BY <2>1, <3>1 DEF Flattening
      <4>4. k + 1 = 1
        BY <3>1
      <4>3. g[1] = ss[1]
        BY <2>2, <3>1, <4>4 DEF Appending
      <4>5. QED  BY <4>2, <4>3, <4>4
    <3>2. CASE k # 0
      <4>1. h[k] = g[k]
        BY <1>2, <3>2
      <4>2. h[k + 1] = h[k] \o ss[k + 1]
        BY <2>1, <3>2 DEF Flattening
      <4>3. QED  BY <2>2, <4>1, <4>2
    <3>3. QED  BY <3>1, <3>2
  <2>4. QED  BY <2>1, <2>3
<1>3. n \in T
  <2> HIDE DEF T
  <2>1. 0 .. n \subseteq T
    BY <1>1, <1>2, UpTo
  <2>2. QED  BY <2>1
<1>4. QED  BY <1>3 DEF Equal

\* The plans of a sequence, one after the other.
LEMMA FlattenFold ==
  ASSUME NEW ss \in Seq(Plans)
  PROVE  \E g : /\ g[0] = <<>> /\ FlattenSeq(ss) = g[Len(ss)]
                /\ \A k \in 0 .. Len(ss) : g[k] \in Plans
                /\ \A k \in 0 .. Len(ss) - 1 : g[k + 1] = g[k] \o ss[k + 1]
<1> DEFINE n == Len(ss)
           f == [k \in 1 .. n |-> [v \in Plans |-> v \o ss[k]]]
           Fixed(h) == h = [i \in 1 .. n |-> IF i = 1 THEN ss[i] ELSE h[i - 1] \o ss[i]]
           flat == CHOOSE h : Fixed(h)
<1>1. n \in Nat /\ \A k \in 1 .. n : ss[k] \in Plans
  BY LenProperties
<1>2. <<>> \in Plans
  BY EmptySeq DEF Plans
<1>3. PICK g : Chain(g, n, Plans, <<>>, f)
  <2>1. \A k \in 1 .. n, v \in Plans : v \o ss[k] \in Plans
    BY <1>1, ConcatProperties DEF Plans
  <2>2. f \in [1 .. n -> [Plans -> Plans]]
    BY <2>1
  <2> HIDE DEF f, n
  <2>3. QED  BY <1>1, <1>2, <2>2, Chaining, Zenon DEF Chained
<1>4. ASSUME NEW k \in 0 .. n - 1 PROVE g[k + 1] = g[k] \o ss[k + 1]
  <2> HIDE DEF f
  <2>1. k \in 0 .. n /\ k + 1 \in 1 .. n
    BY <1>1
  <2>2. g[k + 1] = f[k + 1][g[k]]
    BY <1>3 DEF Chain
  <2>3. g[k] \in Plans
    BY <1>3, <2>1 DEF Chain
  <2>4. QED  BY <2>1, <2>2, <2>3 DEF f
<1>5. g[0] = <<>> /\ \A k \in 0 .. n : g[k] \in Plans
  BY <1>3 DEF Chain
<1> HIDE DEF n
<1>6. CASE n = 0
  <2>1. FlattenSeq(ss) = ss
    BY <1>6 DEF FlattenSeq, n
  <2>2. ss = <<>>
    BY <1>6, EmptySeq DEF n
  <2>3. QED  BY <1>4, <1>5, <1>6, <2>1, <2>2 DEF n
<1>7. CASE n # 0
  <2> DEFINE h == [i \in 1 .. n |-> g[i]]
  <2>1. ASSUME NEW i \in 1 .. n PROVE h[i] = IF i = 1 THEN ss[i] ELSE h[i - 1] \o ss[i]
    <3>1. i - 1 \in 0 .. n - 1 /\ (i - 1) + 1 = i
      BY <1>1
    <3>2. g[i] = g[i - 1] \o ss[i]
      BY <1>4, <3>1
    <3>3. CASE i = 1
      <4>1. <<>> \o ss[i] = ss[i]
        BY <1>1, ConcatEmptySeq DEF Plans
      <4>2. i - 1 = 0
        BY <3>3
      <4>3. QED  BY <1>5, <3>2, <3>3, <4>1, <4>2
    <3>4. CASE i # 1
      <4>1. i - 1 \in 1 .. n
        BY <1>1, <3>4
      <4>2. QED  BY <3>2, <3>4, <4>1
    <3>5. QED  BY <3>3, <3>4
  <2>2. h = [i \in 1 .. n |-> h[i]]
    OBVIOUS
  <2> HIDE DEF h
  <2>3. Fixed(h)
    BY <2>1, <2>2
  <2>4. Fixed(flat)
    <3> HIDE DEF Fixed
    <3> QED  BY <2>3
  <2>5. FlattenSeq(ss) = flat[n]
    BY <1>7 DEF FlattenSeq, n
  <2> HIDE DEF flat
  <2>6. \A i \in 1 .. n : flat[i] = IF i = 1 THEN ss[i] ELSE flat[i - 1] \o ss[i]
    BY <2>4
  <2>7. flat[n] = g[n]
    <3> HIDE DEF f, Fixed
    <3>1. n \in Nat
      BY <1>1
    <3>2. <<>> \o ss[1] = ss[1]
      BY <1>1, <1>7, ConcatEmptySeq DEF Plans
    <3>3. Appending(g, <<>>, n, ss)
      BY <1>4, <1>5 DEF Appending
    <3>4. Flattening(flat, n, ss)
      BY <2>6 DEF Flattening
    <3>5. Equal(g, flat, n)
      BY <1>7, <3>1, <3>2, <3>3, <3>4, SamePlans, Zenon
    <3>6. QED  BY <3>5 DEF Equal
  <2>8. QED  BY <1>4, <1>5, <2>5, <2>7 DEF n
<1>8. QED  BY <1>6, <1>7

-----------------------------------------------------------------------------
(* Sorting *)

LEMMA Order ==
  ASSUME NEW x \in Pairs, NEW y \in Pairs
  PROVE  /\ ~(Before(x, y) /\ Before(y, x))
         /\ x = y \/ Before(x, y) \/ Before(y, x)
         /\ \A z \in Pairs : Before(x, y) /\ Before(y, z) => Before(x, z)
<1>1. /\ x = <<x[1], x[2]>> /\ x[1] \in Int /\ x[2] \in Int
      /\ y = <<y[1], y[2]>> /\ y[1] \in Int /\ y[2] \in Int
  BY DEF Pairs
<1>2. \A z \in Pairs : z[1] \in Int /\ z[2] \in Int
  BY DEF Pairs
<1>3. x[1] = y[1] /\ x[2] = y[2] => x = y
  BY <1>1
<1>4. QED  BY <1>1, <1>2, <1>3 DEF Before

\* A nonempty finite set of intervals has a last one.
LEMMA LastOne ==
  ASSUME NEW S \in SUBSET Pairs, IsFiniteSet(S), S # {}
  PROVE  \E x \in S : \A y \in S \ {x} : Before(y, x)
<1> DEFINE n == Cardinality(S)
           Has(R) == \E x \in R : \A y \in R \ {x} : Before(y, x)
           T == {k \in 0 .. n : \A R \in SUBSET S : Cardinality(R) = k /\ R # {} => Has(R)}
<1>1. n \in Nat /\ n # 0
  BY FS_EmptySet, FS_CardinalityType
<1>2. \A R \in SUBSET S : IsFiniteSet(R) /\ Cardinality(R) \in Nat
  BY FS_Subset, FS_CardinalityType
<1>3. 0 \in T
  <2>1. \A R \in SUBSET S : Cardinality(R) = 0 => R = {}
    BY <1>2, FS_EmptySet
  <2>2. QED  BY <1>1, <2>1
<1>4. ASSUME NEW k \in 0 .. n - 1, k \in T PROVE k + 1 \in T
  <2>1. ASSUME NEW R \in SUBSET S, Cardinality(R) = k + 1, R # {} PROVE Has(R)
    <3>1. PICK x \in R : TRUE
      BY <2>1
    <3> DEFINE Q == R \ {x}
    <3>2. Q \in SUBSET S /\ Cardinality(Q) = k
      <4>0. IsFiniteSet(R)
        BY <1>2
      <4>1. Cardinality(Q) = Cardinality(R) - 1
        BY <4>0, FS_RemoveElement
      <4>2. k \in Nat
        BY <1>1
      <4> HIDE DEF Q, n
      <4>3. Q \in SUBSET S
        BY DEF Q
      <4>4. QED  BY <2>1, <4>1, <4>2, <4>3
    <3>3. CASE Q = {}
      BY <3>3
    <3>4. CASE Q # {}
      <4>1. PICK z \in Q : \A y \in Q \ {z} : Before(y, z)
        <5> HIDE DEF Q
        <5> QED  BY <1>4, <3>2, <3>4
      <4>2. x \in Pairs /\ z \in Pairs /\ x # z /\ R \in SUBSET Pairs
        OBVIOUS
      <4>3. CASE Before(x, z)
        <5>1. \A y \in R \ {z} : Before(y, z)
          BY <4>1, <4>3
        <5>2. QED  BY <4>1, <5>1
      <4>4. CASE Before(z, x)
        <5>1. \A y \in R \ {x} : Before(y, x)
          BY <4>1, <4>2, <4>4, Order
        <5>2. QED  BY <5>1
      <4>5. QED  BY <4>2, <4>3, <4>4, Order
    <3>5. QED  BY <3>3, <3>4
  <2> HIDE DEF Has
  <2>2. k + 1 \in 0 .. n
    BY <1>1
  <2>3. QED  BY <2>1, <2>2
<1>5. n \in T
  <2> HIDE DEF T
  <2>1. 0 .. n \subseteq T
    BY <1>1, <1>3, <1>4, UpTo
  <2>2. QED  BY <1>1, <2>1
<1>6. QED  BY <1>5

Increasing(q) == \A m, n \in DOMAIN q : m < n => Before(q[m], q[n])
Sorts(q, S) == q \in [1 .. Cardinality(S) -> S] /\ ToSet(q) = S /\ Increasing(q)

LEMMA Sorting ==
  ASSUME NEW S \in SUBSET Pairs, IsFiniteSet(S)
  PROVE  Sorts(Sorted(S), S)
<1> DEFINE n == Cardinality(S)
           T == {k \in 0 .. n : \A R \in SUBSET S : Cardinality(R) = k => \E q : Sorts(q, R)}
<1>1. n \in Nat
  BY FS_CardinalityType
<1>2. \A R \in SUBSET S : IsFiniteSet(R) /\ Cardinality(R) \in Nat
  BY FS_Subset, FS_CardinalityType
<1>3. 0 \in T
  <2>1. ASSUME NEW R \in SUBSET S, Cardinality(R) = 0 PROVE \E q : Sorts(q, R)
    <3>1. R = {} /\ 1 .. 0 = {}
      BY <1>2, <2>1, FS_EmptySet
    <3> DEFINE q == [i \in 1 .. 0 |-> {}]
    <3>2. DOMAIN q = {} /\ q \in [1 .. 0 -> R]
      BY <3>1
    <3> HIDE DEF q
    <3>3. Sorts(q, R)
      BY <2>1, <3>1, <3>2 DEF Sorts, Increasing, ToSet
    <3>4. QED  BY <3>3
  <2>2. QED  BY <1>1, <2>1
<1>4. ASSUME NEW k \in 0 .. n - 1, k \in T PROVE k + 1 \in T
  <2>1. ASSUME NEW R \in SUBSET S, Cardinality(R) = k + 1 PROVE \E q : Sorts(q, R)
    <3>0. k \in Nat /\ R # {} /\ IsFiniteSet(R) /\ R \in SUBSET Pairs
      BY <1>1, <1>2, <2>1, FS_EmptySet
    <3>1. PICK x \in R : \A y \in R \ {x} : Before(y, x)
      BY <3>0, LastOne
    <3> DEFINE Q == R \ {x}
    <3>2. Q \in SUBSET S /\ Cardinality(Q) = k
      <4>1. Cardinality(Q) = (k + 1) - 1
        BY <1>2, <2>1, FS_RemoveElement
      <4>2. QED  BY <4>1
    <3>3. PICK h : Sorts(h, Q)
      <4> HIDE DEF Q
      <4> QED  BY <1>4, <3>2
    <3> DEFINE q == [i \in 1 .. k + 1 |-> IF i = k + 1 THEN x ELSE h[i]]
    <3>4. h \in [1 .. k -> Q] /\ DOMAIN h = 1 .. k /\ ToSet(h) = Q /\ Increasing(h)
      BY <3>2, <3>3 DEF Sorts
    <3>5. /\ DOMAIN q = 1 .. k + 1 /\ q[k + 1] = x
          /\ \A i \in 1 .. k : i \in 1 .. k + 1 /\ q[i] = h[i] /\ h[i] \in Q
          /\ 1 .. k + 1 = 1 .. k \cup {k + 1} /\ k + 1 \in 1 .. k + 1
      BY <3>0, <3>4
    <3>6. q \in [1 .. k + 1 -> R]
      BY <3>4, <3>5
    <3>7. ToSet(q) = R
      <4>1. \A y \in Q : \E i \in 1 .. k : y = h[i]
        BY <3>4 DEF ToSet
      <4> HIDE DEF q, Q
      <4>2. \A y \in R : y = x \/ y \in Q
        BY DEF Q
      <4>3. \A y \in R : \E i \in 1 .. k + 1 : y = q[i]
        BY <3>5, <4>1, <4>2
      <4>4. QED  BY <3>5, <3>6, <4>3 DEF ToSet
    <3>8. Increasing(q)
      <4>1. ASSUME NEW i \in 1 .. k + 1, NEW j \in 1 .. k + 1, i < j PROVE Before(q[i], q[j])
        <5>1. i \in 1 .. k
          BY <3>0, <4>1
        <5>2. CASE j = k + 1
          <6>1. q[i] \in Q /\ q[j] = x
            BY <3>5, <5>1, <5>2
          <6> HIDE DEF q
          <6>2. QED  BY <3>1, <6>1
        <5>3. CASE j # k + 1
          <6>1. j \in 1 .. k
            BY <3>0, <5>3
          <6> HIDE DEF q
          <6>2. QED  BY <3>4, <3>5, <4>1, <5>1, <6>1 DEF Increasing
        <5>4. QED  BY <5>2, <5>3
      <4> HIDE DEF q
      <4>2. QED  BY <3>5, <4>1 DEF Increasing
    <3> HIDE DEF q
    <3>9. Sorts(q, R)
      BY <2>1, <3>6, <3>7, <3>8 DEF Sorts
    <3>10. QED  BY <3>9
  <2>2. k + 1 \in 0 .. n
    BY <1>1
  <2>3. QED  BY <2>1, <2>2
<1>5. n \in T
  <2> HIDE DEF T
  <2>1. 0 .. n \subseteq T
    BY <1>1, <1>3, <1>4, UpTo
  <2>2. QED  BY <1>1, <2>1
<1>6. PICK q : Sorts(q, S)
  BY <1>5
<1> DEFINE Good(h) == h \in [1 .. Cardinality(S) -> S] /\ ToSet(h) = S /\ Increasing(h)
<1>7. \E h \in [1 .. Cardinality(S) -> S] : ToSet(h) = S /\ Increasing(h)
  BY <1>6 DEF Sorts
<1>8. Sorted(S) = CHOOSE h \in [1 .. Cardinality(S) -> S] : ToSet(h) = S /\ Increasing(h)
  BY DEF Sorted, Increasing
<1>9. QED  BY <1>7, <1>8 DEF Sorts

-----------------------------------------------------------------------------
(* Plans as sets of addresses *)

LEMMA InCovered ==
  ASSUME NEW plan \in Plans, NEW x
  PROVE  x \in Covered(plan) <=>
           x \in Int /\ \E k \in 1 .. Len(plan) : plan[k][1] <= x /\ x <= plan[k][2]
<1>1. DOMAIN plan = 1 .. Len(plan) /\ \A k \in 1 .. Len(plan) : plan[k][1] \in Int /\ plan[k][2] \in Int
  BY PlanElements
<1>2. x \in Covered(plan) <=> \E k \in 1 .. Len(plan) : x \in plan[k][1] .. plan[k][2]
  BY <1>1 DEF Covered, ToSet
<1>3. QED  BY <1>1, <1>2

\* In a canonical plan any two intervals are apart.
LEMMA Apart ==
  ASSUME NEW plan \in Plans, Canonical(plan),
         NEW m \in 1 .. Len(plan), NEW n \in 1 .. Len(plan), m < n
  PROVE  plan[m][2] + 1 < plan[n][1]
<1>0. /\ Len(plan) \in Nat /\ DOMAIN plan = 1 .. Len(plan)
      /\ \A k \in 1 .. Len(plan) : plan[k][1] \in Int /\ plan[k][2] \in Int
  BY PlanElements
<1> DEFINE len == Len(plan)
           T == {d \in 0 .. len : \A k \in m + 1 .. len : k <= m + 1 + d => plan[m][2] + 1 < plan[k][1]}
<1>1. 0 \in T
  <2>1. \A k \in m + 1 .. len : k <= m + 1 + 0 => k = m + 1
    BY <1>0
  <2>2. m \in 1 .. len - 1
    BY <1>0
  <2>3. plan[m][2] + 1 < plan[m + 1][1]
    BY <2>2 DEF Canonical
  <2>4. 0 \in 0 .. len
    BY <1>0
  <2>5. \A k \in m + 1 .. len : k <= m + 1 + 0 => plan[m][2] + 1 < plan[k][1]
    <3> HIDE DEF len
    <3> QED  BY <2>1, <2>3
  <2> HIDE DEF len
  <2>6. QED  BY <2>4, <2>5
<1>2. ASSUME NEW d \in 0 .. len - 1, d \in T PROVE d + 1 \in T
  <2>1. ASSUME NEW k \in m + 1 .. len, k <= m + 1 + (d + 1) PROVE plan[m][2] + 1 < plan[k][1]
    <3>1. CASE k <= m + 1 + d
      BY <1>2, <3>1
    <3>2. CASE ~(k <= m + 1 + d)
      <4> DEFINE j == k - 1
      <4>1. j \in m + 1 .. len /\ j <= m + 1 + d /\ j + 1 = k /\ j \in 1 .. len - 1 /\ j \in DOMAIN plan
        BY <1>0, <2>1, <3>2
      <4> HIDE DEF j
      <4>2. plan[m][2] + 1 < plan[j][1]
        BY <1>2, <4>1
      <4>3. plan[j][1] <= plan[j][2] /\ plan[j][2] + 1 < plan[k][1]
        BY <4>1 DEF Canonical
      <4>4. /\ plan[m][2] \in Int /\ plan[j][1] \in Int /\ plan[j][2] \in Int /\ plan[k][1] \in Int
        BY <1>0, <4>1
      <4> DEFINE a == plan[m][2]
                 b == plan[j][1]
                 c == plan[j][2]
                 e == plan[k][1]
      <4>5. a \in Int /\ b \in Int /\ c \in Int /\ e \in Int /\ a + 1 < b /\ b <= c /\ c + 1 < e
        BY <4>2, <4>3, <4>4
      <4> HIDE DEF a, b, c, e
      <4>6. a + 1 < e
        BY <4>5
      <4>7. QED  BY <4>6 DEF a, e
    <3>3. QED  BY <3>1, <3>2
  <2>2. d + 1 \in 0 .. len
    BY <1>0
  <2> HIDE DEF len
  <2>3. QED  BY <2>1, <2>2
<1>3. len \in T
  <2> HIDE DEF T
  <2>1. len \in Nat
    BY <1>0
  <2> HIDE DEF len
  <2>2. 0 .. len \subseteq T
    BY <1>1, <1>2, <2>1, UpTo
  <2>3. QED  BY <2>1, <2>2
<1>4. n \in m + 1 .. len /\ n <= m + 1 + len
  BY <1>0
<1> HIDE DEF len
<1>5. QED  BY <1>3, <1>4

-----------------------------------------------------------------------------
(* Merging *)

LEMMA MaxOfTwo ==
  ASSUME NEW a \in Int, NEW b \in Int
  PROVE  Max({a, b}) \in {a, b} /\ Max({a, b}) >= a /\ Max({a, b}) >= b
<1>1. \E x \in {a, b} : \A y \in {a, b} : x >= y
  <2>1. CASE a >= b
    BY <2>1
  <2>2. CASE ~(a >= b)
    BY <2>2
  <2>3. QED  BY <2>1, <2>2
<1>2. QED  BY <1>1 DEF Max

MergeStep(m, i) == IF m # <<>> /\ i[1] <= Last(m)[2] + 1
                   THEN [m EXCEPT ![Len(m)] = <<@[1], Max({i[2], @[2]})>>]
                   ELSE Append(m, i)

\* One interval more, that starts no earlier than those before.
LEMMA MergeOne ==
  ASSUME NEW m \in Plans, NEW i \in Pairs
  PROVE  /\ MergeStep(m, i) \in Plans /\ MergeStep(m, i) # <<>>
         /\ Canonical(m) /\ i[1] <= i[2] /\ (m # <<>> => Last(m)[1] <= i[1]) =>
              /\ Canonical(MergeStep(m, i))
              /\ Covered(MergeStep(m, i)) = Covered(m) \cup (i[1] .. i[2])
              /\ Last(MergeStep(m, i))[1] <= i[1]
<1> DEFINE r == MergeStep(m, i)
           n == Len(m)
<1>0. /\ n \in Nat /\ DOMAIN m = 1 .. n /\ (m # <<>> <=> n # 0)
      /\ \A k \in 1 .. n : m[k] \in Pairs /\ m[k][1] \in Int /\ m[k][2] \in Int
  BY PlanElements, EmptySeq DEF Plans
<1>1. i = <<i[1], i[2]>> /\ i[1] \in Int /\ i[2] \in Int
  BY DEF Pairs
<1>2. CASE m # <<>> /\ i[1] <= Last(m)[2] + 1
  <2> DEFINE top == Max({i[2], m[n][2]})
  <2>1. n \in 1 .. n /\ n # 0 /\ Last(m) = m[n]
    BY <1>0, <1>2 DEF Last
  <2>2. top \in Int /\ top >= i[2] /\ top >= m[n][2] /\ (top = i[2] \/ top = m[n][2])
    BY <1>0, <1>1, <2>1, MaxOfTwo
  <2>3. r = [m EXCEPT ![n] = <<m[n][1], top>>]
    BY <1>2 DEF MergeStep
  <2> HIDE DEF top, r
  <2>4. <<m[n][1], top>> \in Pairs
    BY <1>0, <2>1, <2>2 DEF Pairs
  <2>5. r \in Plans /\ Len(r) = n
    BY <1>0, <2>1, <2>3, <2>4, ExceptSeq DEF Plans
  <2>6. /\ DOMAIN r = 1 .. n /\ r[n] = <<m[n][1], top>> /\ r[n][1] = m[n][1] /\ r[n][2] = top
        /\ \A k \in 1 .. n : k # n => r[k] = m[k]
    BY <1>0, <2>1, <2>3
  <2>7. r # <<>>
    BY <2>1, <2>5, EmptySeq
  <2>8. ASSUME Canonical(m), i[1] <= i[2], Last(m)[1] <= i[1]
        PROVE  /\ Canonical(r) /\ Covered(r) = Covered(m) \cup (i[1] .. i[2]) /\ Last(r)[1] <= i[1]
    <3>1. /\ i[1] <= m[n][2] + 1 /\ m[n][1] <= i[1] /\ m[n][1] \in Int /\ m[n][2] \in Int
          /\ m[n][1] <= m[n][2]
      BY <1>0, <1>2, <2>1, <2>8 DEF Canonical
    <3>2. Canonical(r)
      <4>1. ASSUME NEW k \in 1 .. n PROVE r[k][1] <= r[k][2]
        <5>1. CASE k = n
          BY <2>2, <2>6, <3>1, <5>1
        <5>2. CASE k # n
          BY <1>0, <2>6, <2>8, <5>2 DEF Canonical
        <5>3. QED  BY <5>1, <5>2
      <4>2. ASSUME NEW k \in 1 .. n - 1 PROVE r[k][2] + 1 < r[k + 1][1]
        <5>0. n \in Nat
          BY <1>0
        <5>1. k \in 1 .. n /\ k # n /\ k + 1 \in 1 .. n
          <6> HIDE DEF n
          <6> QED  BY <5>0
        <5>2. m[k][2] + 1 < m[k + 1][1]
          BY <2>8 DEF Canonical
        <5> HIDE DEF n
        <5>3. r[k] = m[k] /\ r[k + 1][1] = m[k + 1][1]
          BY <2>6, <5>1
        <5>4. QED  BY <5>2, <5>3
      <4>3. QED  BY <2>5, <2>6, <4>1, <4>2 DEF Canonical
    <3>3. ASSUME NEW x PROVE x \in Covered(r) <=> x \in Covered(m) \/ x \in i[1] .. i[2]
      <4> DEFINE In(k) == m[k][1] <= x /\ x <= m[k][2]
                 New(k) == r[k][1] <= x /\ x <= r[k][2]
      <4>1. x \in Covered(m) <=> x \in Int /\ \E k \in 1 .. n : In(k)
        BY InCovered
      <4>2. x \in Covered(r) <=> x \in Int /\ \E k \in 1 .. n : New(k)
        BY <2>5, InCovered
      <4>3. \A k \in 1 .. n : k # n => (New(k) <=> In(k))
        BY <2>6
      <4>4. x \in Int => (New(n) <=> In(n) \/ x \in i[1] .. i[2])
        BY <1>1, <2>2, <2>6, <3>1
      <4>5. n \in 1 .. n
        BY <2>1
      <4> HIDE DEF In, New, n
      <4>6. QED  BY <1>1, <4>1, <4>2, <4>3, <4>4, <4>5
    <3>4. Last(r)[1] <= i[1]
      BY <2>5, <2>6, <3>1 DEF Last
    <3>5. QED  BY <3>2, <3>3, <3>4
  <2>9. QED  BY <1>2, <2>5, <2>7, <2>8 DEF r
<1>3. CASE ~(m # <<>> /\ i[1] <= Last(m)[2] + 1)
  <2>1. r = Append(m, i)
    BY <1>3 DEF MergeStep
  <2> HIDE DEF r
  <2>2. /\ r \in Plans /\ Len(r) = n + 1
        /\ \A k \in 1 .. n : r[k] = m[k]
        /\ r[n + 1] = i
    BY <2>1, AppendProperties DEF Plans
  <2>3. DOMAIN r = 1 .. n + 1 /\ r # <<>> /\ 1 .. n + 1 = 1 .. n \cup {n + 1} /\ n + 1 \in 1 .. n + 1
    BY <1>0, <2>2, PlanElements, EmptySeq
  <2>4. ASSUME Canonical(m), i[1] <= i[2], m # <<>> => Last(m)[1] <= i[1]
        PROVE  /\ Canonical(r) /\ Covered(r) = Covered(m) \cup (i[1] .. i[2]) /\ Last(r)[1] <= i[1]
    <3>2. Canonical(r)
      <4>1. ASSUME NEW k \in 1 .. n + 1 PROVE r[k][1] <= r[k][2]
        <5>1. CASE k = n + 1
          BY <2>2, <2>4, <5>1
        <5>2. CASE k # n + 1
          <6>1. k \in 1 .. n /\ k \in DOMAIN m
            BY <1>0, <2>3, <5>2
          <6>2. QED  BY <2>2, <2>4, <6>1 DEF Canonical
        <5>3. QED  BY <5>1, <5>2
      <4>2. ASSUME NEW k \in 1 .. (n + 1) - 1 PROVE r[k][2] + 1 < r[k + 1][1]
        <5>0. k \in 1 .. n
          BY <1>0
        <5>1. CASE k = n
          <6>1. n # 0 /\ Last(m) = m[n] /\ m[n][2] \in Int
            BY <1>0, <5>0, <5>1 DEF Last
          <6>2. ~(i[1] <= m[n][2] + 1)
            BY <1>0, <1>3, <6>1
          <6>3. r[k][2] = m[n][2] /\ r[k + 1][1] = i[1]
            BY <2>2, <5>0, <5>1
          <6>4. QED  BY <1>1, <6>1, <6>2, <6>3
        <5>2. CASE k # n
          <6>0. n \in Nat
            BY <1>0
          <6>1. k \in 1 .. n - 1 /\ k \in 1 .. n /\ k + 1 \in 1 .. n
            <7> HIDE DEF n
            <7> QED  BY <5>0, <5>2, <6>0
          <6>2. m[k][2] + 1 < m[k + 1][1]
            BY <2>4, <6>1 DEF Canonical
          <6> HIDE DEF n
          <6>3. r[k] = m[k] /\ r[k + 1] = m[k + 1]
            BY <2>2, <6>1
          <6>4. QED  BY <6>2, <6>3
        <5>3. QED  BY <5>1, <5>2
      <4>3. QED  BY <2>2, <2>3, <4>1, <4>2 DEF Canonical
    <3>3. ASSUME NEW x PROVE x \in Covered(r) <=> x \in Covered(m) \/ x \in i[1] .. i[2]
      <4> DEFINE In(k) == m[k][1] <= x /\ x <= m[k][2]
                 New(k) == r[k][1] <= x /\ x <= r[k][2]
      <4>1. x \in Covered(m) <=> x \in Int /\ \E k \in 1 .. n : In(k)
        BY InCovered
      <4>2. x \in Covered(r) <=> x \in Int /\ \E k \in 1 .. n + 1 : New(k)
        BY <2>2, InCovered
      <4>3. \A k \in 1 .. n : (New(k) <=> In(k))
        BY <2>2
      <4>4. x \in Int => (New(n + 1) <=> x \in i[1] .. i[2])
        BY <1>1, <2>2
      <4>5. (\E k \in 1 .. n + 1 : New(k)) <=> (\E k \in 1 .. n : New(k)) \/ New(n + 1)
        <5> HIDE DEF New, n
        <5> QED  BY <2>3
      <4> HIDE DEF In, New, n
      <4>6. QED  BY <1>1, <4>1, <4>2, <4>3, <4>4, <4>5
    <3>4. Last(r)[1] <= i[1]
      BY <1>1, <2>2 DEF Last
    <3>5. QED  BY <3>2, <3>3, <3>4
  <2>5. QED  BY <2>2, <2>3, <2>4 DEF r
<1>4. QED  BY <1>2, <1>3

\* The fold of merge_intervals, one interval after the other.
LEMMA MergeFold ==
  ASSUME NEW S \in SUBSET Pairs, IsFiniteSet(S)
  PROVE  \E g : /\ g[0] = <<>> /\ MergeIntervals(S) = g[Cardinality(S)]
                /\ \A k \in 0 .. Cardinality(S) : g[k] \in Plans
                /\ \A k \in 0 .. Cardinality(S) - 1 : g[k + 1] = MergeStep(g[k], Sorted(S)[k + 1])
<1> DEFINE q == Sorted(S)
           n == Cardinality(S)
           f == [k \in 1 .. n |-> [v \in Plans |-> MergeStep(v, q[k])]]
           Step(it, s) == IF s = {} THEN <<>> ELSE MergeStep(it[s \ {Max(s)}], q[Max(s)])
           Fixed(it) == it = [s \in SUBSET (1 .. n) |-> Step(it, s)]
           iter == CHOOSE it : Fixed(it)
           g == [k \in 0 .. n |-> iter[1 .. k]]
<1>1. n \in Nat /\ q \in [1 .. n -> S] /\ DOMAIN q = 1 .. n /\ \A k \in 1 .. n : q[k] \in Pairs
  <2>1. n \in Nat
    BY FS_CardinalityType
  <2>2. q \in [1 .. n -> S]
    BY Sorting DEF Sorts
  <2> HIDE DEF q, n
  <2>3. QED  BY <2>1, <2>2
<1>2. <<>> \in Plans
  BY EmptySeq DEF Plans
<1>3. f \in [1 .. n -> [Plans -> Plans]]
  <2>1. \A k \in 1 .. n, v \in Plans : MergeStep(v, q[k]) \in Plans
    <3> HIDE DEF q, n
    <3> QED  BY <1>1, MergeOne
  <2> HIDE DEF q, n
  <2>2. QED  BY <2>1
<1>4. PICK it : Solution(it, n, Plans, <<>>, f)
  <2> HIDE DEF f, n
  <2> QED  BY <1>1, <1>2, <1>3, Recursion, Zenon DEF Solvable
<1>5. ASSUME NEW s \in SUBSET (1 .. n) PROVE it[s] = Step(it, s)
  <2> HIDE DEF n, q
  <2>1. CASE s = {}
    BY <1>4, <2>1 DEF Solution
  <2>2. CASE s # {}
    <3>1. Max(s) \in 1 .. n /\ s \ {Max(s)} \in SUBSET (1 .. n)
      BY <1>1, <2>2, Greatest
    <3> HIDE DEF f
    <3>2. it[s \ {Max(s)}] \in Plans /\ it[s] = f[Max(s)][it[s \ {Max(s)}]]
      BY <1>4, <2>2, <3>1 DEF Solution
    <3>3. QED  BY <2>2, <3>1, <3>2 DEF f
  <2>3. QED  BY <2>1, <2>2
<1>6. Fixed(iter)
  <2> HIDE DEF Step, n, f
  <2>1. it = [s \in SUBSET (1 .. n) |-> it[s]]
    BY <1>4 DEF Solution
  <2>2. Fixed(it)
    BY <1>5, <2>1
  <2> HIDE DEF Fixed
  <2>3. QED  BY <2>2
<1>7. MergeIntervals(S) = iter[1 .. n]
  BY <1>1 DEF MergeIntervals, MergeStep, FoldLeft, MapThenFoldSet
<1> HIDE DEF iter, q, n
<1>8. \A s \in SUBSET (1 .. n) : iter[s] = Step(iter, s)
  <2> HIDE DEF Step
  <2> QED  BY <1>6
<1>9. g[0] = <<>>
  <2>1. 1 .. 0 = {} /\ {} \in SUBSET (1 .. n) /\ 0 \in 0 .. n
    BY <1>1
  <2>2. iter[{}] = Step(iter, {})
    <3> HIDE DEF Step
    <3> QED  BY <1>8, <2>1
  <2>3. g[0] = iter[{}]
    BY <2>1
  <2>4. QED  BY <2>2, <2>3
<1>10. ASSUME NEW k \in 0 .. n - 1 PROVE g[k + 1] = MergeStep(g[k], q[k + 1])
  <2>1. /\ 1 .. k + 1 \in SUBSET (1 .. n) /\ 1 .. k + 1 # {}
        /\ Max(1 .. k + 1) = k + 1 /\ (1 .. k + 1) \ {k + 1} = 1 .. k
    BY <1>1, Segments
  <2>2. iter[1 .. k + 1] = MergeStep(iter[1 .. k], q[k + 1])
    BY <1>8, <2>1
  <2>3. g[k + 1] = iter[1 .. k + 1] /\ g[k] = iter[1 .. k]
    BY <1>1
  <2>4. QED  BY <2>2, <2>3
<1>11. g[n] = iter[1 .. n]
  BY <1>1
<1> HIDE DEF g
<1>12. \A k \in 0 .. n : g[k] \in Plans
  <2> DEFINE T == {k \in 0 .. n : g[k] \in Plans}
  <2>1. 0 \in T
    BY <1>1, <1>2, <1>9
  <2>2. ASSUME NEW k \in 0 .. n - 1, k \in T PROVE k + 1 \in T
    <3>1. k + 1 \in 1 .. n /\ k + 1 \in 0 .. n
      BY <1>1
    <3>2. g[k + 1] \in Plans
      BY <1>1, <1>10, <2>2, <3>1, MergeOne
    <3>3. QED  BY <3>1, <3>2
  <2> HIDE DEF T
  <2>3. 0 .. n \subseteq T
    BY <1>1, <2>1, <2>2, UpTo
  <2>4. QED  BY <2>3 DEF T
<1>13. QED
  BY <1>7, <1>9, <1>10, <1>11, <1>12 DEF q, n

Valid(S) == \A i \in S : i[1] <= i[2]
Union(S) == UNION {i[1] .. i[2] : i \in S}

\* merge_intervals: canonical, and the same addresses.
LEMMA Merging ==
  ASSUME NEW S \in SUBSET Pairs, IsFiniteSet(S), Valid(S)
  PROVE  /\ MergeIntervals(S) \in Plans /\ Canonical(MergeIntervals(S))
         /\ Covered(MergeIntervals(S)) = Union(S)
<1> DEFINE n == Cardinality(S)
           q == Sorted(S)
           Upto(k) == {q[j] : j \in 1 .. k}
<1>1. PICK g : /\ g[0] = <<>> /\ MergeIntervals(S) = g[n]
               /\ \A k \in 0 .. n : g[k] \in Plans
               /\ \A k \in 0 .. n - 1 : g[k + 1] = MergeStep(g[k], q[k + 1])
  BY MergeFold
<1>2. /\ n \in Nat /\ q \in [1 .. n -> S] /\ Increasing(q) /\ DOMAIN q = 1 .. n
      /\ \A k \in 1 .. n : q[k] \in S /\ q[k] \in Pairs /\ q[k][1] <= q[k][2]
  <2>1. n \in Nat
    BY FS_CardinalityType
  <2>2. q \in [1 .. n -> S] /\ Increasing(q)
    BY Sorting DEF Sorts
  <2> HIDE DEF q, n
  <2>3. QED  BY <2>1, <2>2 DEF Valid
<1>3. Upto(n) = S
  <2>1. ToSet(q) = S
    BY Sorting DEF Sorts
  <2> HIDE DEF q, n
  <2>2. QED  BY <1>2, <2>1 DEF ToSet
<1> HIDE DEF n, q
<1> DEFINE Good(k) == /\ Canonical(g[k]) /\ Covered(g[k]) = Union(Upto(k))
                      /\ k # 0 => g[k] # <<>> /\ Last(g[k])[1] <= q[k][1]
           T == {k \in 0 .. n : Good(k)}
<1>4. 0 \in T
  <2>1. g[0] \in Plans /\ Len(g[0]) = 0 /\ DOMAIN g[0] = {}
    BY <1>1, <1>2, EmptySeq
  <2>2. Canonical(g[0])
    BY <2>1 DEF Canonical
  <2>3. Covered(g[0]) = {}
    BY <2>1 DEF Covered, ToSet
  <2>4. Upto(0) = {}
    OBVIOUS
  <2> HIDE DEF Upto
  <2>5. Union(Upto(0)) = {}
    BY <2>4 DEF Union
  <2>6. Good(0)
    BY <2>2, <2>3, <2>5
  <2> HIDE DEF Good
  <2>7. QED  BY <1>2, <2>6
<1>5. ASSUME NEW k \in 0 .. n - 1, k \in T PROVE k + 1 \in T
  <2>1. k + 1 \in 1 .. n /\ k + 1 \in 0 .. n /\ k \in 0 .. n /\ (k # 0 => k \in 1 .. n) /\ k < k + 1
    BY <1>2
  <2> DEFINE i == q[k + 1]
             m == g[k]
  <2>2. g[k + 1] = MergeStep(m, i) /\ m \in Plans /\ i \in Pairs /\ i[1] <= i[2]
    BY <1>1, <1>2, <2>1
  <2>3. m # <<>> => Last(m)[1] <= i[1]
    <3>1. CASE k = 0
      BY <1>1, <3>1
    <3>2. CASE k # 0
      <4>1. m # <<>> /\ Last(m)[1] <= q[k][1]
        BY <1>5, <3>2
      <4>2. Before(q[k], i)
        BY <1>2, <2>1, <3>2 DEF Increasing
      <4>3. q[k][1] \in Int /\ i[1] \in Int /\ q[k][1] <= i[1]
        BY <1>2, <2>1, <3>2, <4>2 DEF Before, Pairs
      <4>4. Last(m)[1] \in Int
        BY <2>2, <4>1, PlanElements, EmptySeq DEF Last, Plans
      <4> HIDE DEF m, i
      <4>5. QED  BY <4>1, <4>3, <4>4
    <3>3. QED  BY <3>1, <3>2
  <2>4. Canonical(m) /\ Covered(m) = Union(Upto(k))
    BY <1>5
  <2> HIDE DEF m, i
  <2>5. /\ Canonical(MergeStep(m, i)) /\ Covered(MergeStep(m, i)) = Covered(m) \cup (i[1] .. i[2])
        /\ Last(MergeStep(m, i))[1] <= i[1] /\ MergeStep(m, i) # <<>>
    BY <2>2, <2>3, <2>4, MergeOne
  <2>6. Upto(k + 1) = Upto(k) \cup {i}
    <3>1. 1 .. k + 1 = 1 .. k \cup {k + 1}
      BY <1>2
    <3>2. QED  BY <3>1 DEF i
  <2> HIDE DEF Upto
  <2>7. Union(Upto(k + 1)) = Union(Upto(k)) \cup (i[1] .. i[2])
    BY <2>6 DEF Union
  <2>8. Good(k + 1)
    BY <2>2, <2>4, <2>5, <2>7 DEF i
  <2> HIDE DEF Good
  <2>9. QED  BY <2>1, <2>8
<1>6. n \in T
  <2> HIDE DEF T
  <2>1. 0 .. n \subseteq T
    BY <1>2, <1>4, <1>5, UpTo
  <2>2. QED  BY <1>2, <2>1
<1>7. QED
  <2> HIDE DEF Upto
  <2>1. Good(n)
    BY <1>6
  <2>2. n \in 0 .. n
    BY <1>2
  <2>3. QED  BY <1>1, <1>3, <2>1, <2>2

-----------------------------------------------------------------------------
(* Containment, and what a plan counts *)

\* _contains, on a canonical plan: the bisection finds every address in it.
LEMMA Containment ==
  ASSUME NEW plan \in Plans, Canonical(plan), NEW first \in Int, NEW last \in Int
  PROVE  ContainedIn(plan, first, last) <=> first <= last /\ first .. last \subseteq Covered(plan)
<1> DEFINE n == Len(plan)
           starts == {k \in DOMAIN plan : plan[k][1] <= first}
           mx == Max(starts)
<1>0. /\ n \in Nat /\ DOMAIN plan = 1 .. n
      /\ \A k \in 1 .. n : plan[k][1] \in Int /\ plan[k][2] \in Int /\ plan[k][1] <= plan[k][2]
  BY PlanElements DEF Canonical
<1>1. starts \in SUBSET (1 .. n)
  BY <1>0
<1>2. ContainedIn(plan, first, last) <=> starts # {} /\ first <= last /\ last <= plan[mx][2]
  BY DEF ContainedIn
<1>3. starts # {} => mx \in starts /\ \A y \in starts : y <= mx
  <2> HIDE DEF starts, n
  <2> QED  BY <1>0, <1>1, Greatest
<1>4. ASSUME starts # {}, first <= last, last <= plan[mx][2]
      PROVE  first .. last \subseteq Covered(plan)
  <2>1. mx \in 1 .. n /\ plan[mx][1] <= first
    BY <1>0, <1>3, <1>4
  <2> HIDE DEF mx, n
  <2>2. ASSUME NEW x \in first .. last PROVE x \in Covered(plan)
    <3>1. x \in Int /\ plan[mx][1] <= x /\ x <= plan[mx][2]
      BY <1>0, <1>4, <2>1
    <3>2. QED  BY <2>1, <3>1, InCovered DEF n
  <2>3. QED  BY <2>2
<1>5. ASSUME first <= last, first .. last \subseteq Covered(plan)
      PROVE  starts # {} /\ last <= plan[mx][2]
  <2>1. PICK k \in 1 .. n : plan[k][1] <= first /\ first <= plan[k][2]
    <3>1. first \in Covered(plan)
      BY <1>5
    <3>2. QED  BY <3>1, InCovered
  <2>2. k \in starts
    BY <1>0, <2>1
  <2>3. mx \in 1 .. n /\ plan[mx][1] <= first /\ k <= mx
    BY <1>0, <1>3, <2>2
  <2> HIDE DEF mx, starts
  <2>4. k = mx
    <3>1. ASSUME k < mx PROVE FALSE
      <4>1. plan[k][2] + 1 < plan[mx][1]
        BY <2>3, <3>1, Apart
      <4> HIDE DEF n
      <4>2. QED  BY <1>0, <2>1, <2>3, <4>1
    <3>2. QED  BY <1>0, <2>3, <3>1
  <2>5. ASSUME ~(last <= plan[k][2]) PROVE FALSE
    <3> DEFINE x == plan[k][2] + 1
    <3>1. x \in first .. last /\ x \in Int
      BY <1>0, <2>1, <2>5
    <3>2. PICK j \in 1 .. n : plan[j][1] <= x /\ x <= plan[j][2]
      <4> HIDE DEF x
      <4>1. x \in Covered(plan)
        BY <1>5, <3>1
      <4>2. QED  BY <4>1, InCovered
    <3>3. CASE j = k
      BY <1>0, <3>2, <3>3
    <3>4. CASE k < j
      BY <1>0, <3>2, <3>4, Apart
    <3>5. CASE j < k
      <4>1. plan[j][2] + 1 < plan[k][1]
        BY <3>5, Apart
      <4> HIDE DEF n
      <4>2. QED  BY <1>0, <2>1, <3>2, <4>1
    <3>6. QED  BY <1>0, <3>3, <3>4, <3>5
  <2>6. QED  BY <2>2, <2>4, <2>5
<1>6. QED  BY <1>2, <1>4, <1>5

\* The addresses of a canonical plan are counted once.
LEMMA Counting ==
  ASSUME NEW plan \in Plans, Canonical(plan)
  PROVE  IsFiniteSet(Covered(plan)) /\ Total(plan) = Cardinality(Covered(plan))
<1> DEFINE n == Len(plan)
           First(k) == {x \in Int : \E j \in 1 .. k : plan[j][1] <= x /\ x <= plan[j][2]}
<1>0. /\ n \in Nat /\ DOMAIN plan = 1 .. n
      /\ \A k \in 1 .. n : plan[k][1] \in Int /\ plan[k][2] \in Int /\ plan[k][1] <= plan[k][2]
  BY PlanElements DEF Canonical
<1>1. PICK g : /\ g[0] = 0 /\ Total(plan) = g[n]
               /\ \A k \in 0 .. n - 1 : g[k + 1] = g[k] + Width(plan[k + 1])
  BY TotalFold
<1>2. First(n) = Covered(plan)
  BY InCovered
<1> DEFINE Good(k) == IsFiniteSet(First(k)) /\ g[k] = Cardinality(First(k))
           T == {k \in 0 .. n : Good(k)}
<1>3. 0 \in T
  <2>1. First(0) = {}
    OBVIOUS
  <2> HIDE DEF First, n
  <2>2. QED  BY <1>0, <1>1, <2>1, FS_EmptySet
<1>4. ASSUME NEW k \in 0 .. n - 1, k \in T PROVE k + 1 \in T
  <2>1. k + 1 \in 1 .. n /\ k + 1 \in 0 .. n /\ 1 .. k + 1 = 1 .. k \cup {k + 1} /\ k \in 0 .. n
    BY <1>0
  <2> DEFINE a == plan[k + 1][1]
             b == plan[k + 1][2]
  <2>2. a \in Int /\ b \in Int /\ a <= b /\ Width(plan[k + 1]) = b - a + 1
    BY <1>0, <2>1 DEF Width
  <2>3. First(k + 1) = First(k) \cup (a .. b)
    <3>1. ASSUME NEW x \in Int PROVE x \in First(k + 1) <=> x \in First(k) \/ (a <= x /\ x <= b)
      BY <2>1
    <3>2. a .. b = {x \in Int : a <= x /\ x <= b}
      BY <2>2
    <3>3. First(k + 1) \subseteq Int /\ First(k) \subseteq Int
      OBVIOUS
    <3> HIDE DEF a, b, First
    <3>4. QED  BY <3>1, <3>2, <3>3
  <2>4. First(k) \cap (a .. b) = {}
    <3>1. ASSUME NEW x \in Int, NEW j \in 1 .. k, plan[j][1] <= x, x <= plan[j][2], a <= x PROVE FALSE
      <4>1. j \in 1 .. n /\ j < k + 1
        BY <1>0, <2>1
      <4>2. plan[j][2] + 1 < a
        BY <2>1, <4>1, Apart
      <4>3. plan[j][2] \in Int
        BY <1>0, <4>1
      <4> HIDE DEF a
      <4>4. QED  BY <2>2, <3>1, <4>2, <4>3
    <3>2. \A x \in a .. b : x \in Int /\ a <= x
      BY <2>2
    <3>3. \A x \in First(k) : x \in Int /\ \E j \in 1 .. k : plan[j][1] <= x /\ x <= plan[j][2]
      OBVIOUS
    <3> HIDE DEF a, b, First
    <3>4. QED  BY <3>1, <3>2, <3>3
  <2> HIDE DEF First, a, b
  <2> DEFINE J == a .. b
  <2>5. IsFiniteSet(J) /\ Cardinality(J) = b - a + 1
    <3>1. IsFiniteSet(J) /\ Cardinality(J) = IF a > b THEN 0 ELSE b - a + 1
      BY <2>2, FS_Interval, Zenon
    <3> HIDE DEF J
    <3>2. QED  BY <2>2, <3>1
  <2>6. IsFiniteSet(First(k)) /\ g[k] = Cardinality(First(k)) /\ Cardinality(First(k)) \in Nat
    BY <1>4, FS_CardinalityType
  <2>7. /\ IsFiniteSet(First(k + 1))
        /\ Cardinality(First(k + 1)) = Cardinality(First(k)) + Cardinality(J) - Cardinality({})
    <3>1. First(k + 1) = First(k) \cup J /\ First(k) \cap J = {}
      BY <2>3, <2>4
    <3> HIDE DEF J
    <3>2. /\ IsFiniteSet(First(k) \cup J)
          /\ Cardinality(First(k) \cup J) = Cardinality(First(k)) + Cardinality(J) - Cardinality(First(k) \cap J)
      BY <2>5, <2>6, FS_Union, Zenon
    <3>3. QED  BY <3>1, <3>2, Zenon
  <2> HIDE DEF J
  <2>8. g[k + 1] = g[k] + (b - a + 1)
    BY <1>1, <2>2
  <2>9. Cardinality({}) = 0
    BY FS_EmptySet
  <2>10. Good(k + 1)
    BY <2>2, <2>5, <2>6, <2>7, <2>8, <2>9
  <2> HIDE DEF Good
  <2>11. QED  BY <2>1, <2>10
<1>5. n \in T
  <2> HIDE DEF T, n
  <2>1. 0 .. n \subseteq T
    BY <1>0, <1>3, <1>4, UpTo
  <2>2. QED  BY <1>0, <2>1
<1>6. QED
  <2> HIDE DEF First, n
  <2> QED  BY <1>1, <1>2, <1>5

-----------------------------------------------------------------------------
(* Plans put together *)

EmptyPlan == <<>> \in Plans /\ Canonical(<<>>) /\ Covered(<<>>) = {}

LEMMA Nothing == EmptyPlan
<1>1. <<>> \in Plans /\ Len(<<>>) = 0 /\ DOMAIN <<>> = {}
  BY EmptySeq DEF Plans
<1>2. Canonical(<<>>)
  BY <1>1 DEF Canonical
<1>3. Covered(<<>>) = {}
  BY <1>1 DEF Covered, ToSet
<1>4. QED  BY <1>1, <1>2, <1>3 DEF EmptyPlan

LEMMA One ==
  ASSUME NEW i \in Pairs, i[1] <= i[2]
  PROVE  <<i>> \in Plans /\ Canonical(<<i>>) /\ Covered(<<i>>) = i[1] .. i[2]
<1>1. <<i>> \in Plans /\ Len(<<i>>) = 1 /\ <<i>>[1] = i /\ DOMAIN <<i>> = {1}
  BY DEF Plans
<1>2. Canonical(<<i>>)
  BY <1>1 DEF Canonical
<1>3. Covered(<<i>>) = i[1] .. i[2]
  BY <1>1 DEF Covered, ToSet
<1>4. QED  BY <1>1, <1>2, <1>3

\* An interval after all others, with a gap.
LEMMA AppendOne ==
  ASSUME NEW m \in Plans, Canonical(m), NEW i \in Pairs, i[1] <= i[2],
         m # <<>> => Last(m)[2] + 1 < i[1]
  PROVE  /\ Append(m, i) \in Plans /\ Canonical(Append(m, i))
         /\ Covered(Append(m, i)) = Covered(m) \cup (i[1] .. i[2])
         /\ Append(m, i) # <<>> /\ Last(Append(m, i)) = i
<1>1. m # <<>> => Last(m)[1] \in Int /\ Last(m)[2] \in Int /\ Last(m)[1] <= Last(m)[2]
  BY PlanElements, EmptySeq DEF Last, Canonical, Plans
<1>2. i[1] \in Int /\ i[2] \in Int
  BY DEF Pairs
<1>3. MergeStep(m, i) = Append(m, i)
  <2>1. ~(m # <<>> /\ i[1] <= Last(m)[2] + 1)
    BY <1>1, <1>2
  <2>2. QED  BY <2>1 DEF MergeStep
<1>4. m # <<>> => Last(m)[1] <= i[1]
  BY <1>1, <1>2
<1>5. /\ Append(m, i) \in Plans /\ Canonical(Append(m, i)) /\ Append(m, i) # <<>>
      /\ Covered(Append(m, i)) = Covered(m) \cup (i[1] .. i[2])
  BY <1>3, <1>4, MergeOne
<1>6. Last(Append(m, i)) = i
  BY AppendProperties DEF Last, Plans
<1>7. QED  BY <1>5, <1>6

Separate(A, B) == \A x \in A, y \in B : x + 1 < y

LEMMA ConcatTwo ==
  ASSUME NEW p \in Plans, NEW r \in Plans, Canonical(p), Canonical(r),
         Separate(Covered(p), Covered(r))
  PROVE  p \o r \in Plans /\ Canonical(p \o r) /\ Covered(p \o r) = Covered(p) \cup Covered(r)
<1> DEFINE m == Len(p)
           n == Len(r)
           q == p \o r
<1>0. /\ m \in Nat /\ DOMAIN p = 1 .. m
      /\ \A k \in 1 .. m : p[k][1] \in Int /\ p[k][2] \in Int /\ p[k][1] <= p[k][2]
  BY PlanElements DEF Canonical
<1>1. /\ n \in Nat /\ DOMAIN r = 1 .. n
      /\ \A k \in 1 .. n : r[k][1] \in Int /\ r[k][2] \in Int /\ r[k][1] <= r[k][2]
  BY PlanElements DEF Canonical
<1>2. /\ q \in Plans /\ Len(q) = m + n
      /\ \A k \in 1 .. m + n : q[k] = IF k <= m THEN p[k] ELSE r[k - m]
  BY ConcatProperties DEF Plans
<1>3. DOMAIN q = 1 .. m + n
  BY <1>2, PlanElements
<1>4. \A k \in 1 .. m - 1 : p[k][2] + 1 < p[k + 1][1]
  BY DEF Canonical
<1>5. \A k \in 1 .. n - 1 : r[k][2] + 1 < r[k + 1][1]
  BY DEF Canonical
<1>6. m # 0 /\ n # 0 => p[m][2] + 1 < r[1][1]
  <2>1. ASSUME m # 0, n # 0 PROVE p[m][2] \in Covered(p) /\ r[1][1] \in Covered(r)
    <3>1. m \in 1 .. m /\ 1 \in 1 .. n
      BY <1>0, <1>1, <2>1
    <3> HIDE DEF m, n
    <3>2. /\ p[m][2] \in Int /\ p[m][1] <= p[m][2] /\ p[m][2] <= p[m][2]
          /\ r[1][1] \in Int /\ r[1][1] <= r[1][1] /\ r[1][1] <= r[1][2]
      BY <1>0, <1>1, <3>1
    <3>3. QED  BY <3>1, <3>2, InCovered DEF m, n
  <2>2. QED  BY <2>1 DEF Separate
<1> HIDE DEF m, n, q
<1>7. Canonical(q)
  <2>1. ASSUME NEW k \in 1 .. m + n PROVE q[k][1] <= q[k][2]
    <3>1. CASE k <= m
      BY <1>0, <1>2, <3>1
    <3>2. CASE ~(k <= m)
      <4>1. k - m \in 1 .. n /\ q[k] = r[k - m]
        BY <1>0, <1>1, <1>2, <3>2
      <4>2. QED  BY <1>1, <4>1
    <3>3. QED  BY <3>1, <3>2
  <2>2. ASSUME NEW k \in 1 .. (m + n) - 1 PROVE q[k][2] + 1 < q[k + 1][1]
    <3>0. k \in 1 .. m + n /\ k + 1 \in 1 .. m + n
      BY <1>0, <1>1
    <3>1. CASE k < m
      <4>1. k \in 1 .. m - 1 /\ k <= m /\ k + 1 <= m
        BY <1>0, <3>1
      <4>2. q[k] = p[k] /\ q[k + 1] = p[k + 1]
        BY <1>2, <3>0, <4>1
      <4>3. QED  BY <1>4, <4>1, <4>2
    <3>2. CASE k = m
      <4>1. m # 0 /\ n # 0 /\ (k + 1) - m = 1 /\ ~(k + 1 <= m) /\ k <= m
        BY <1>0, <1>1, <3>2
      <4>2. q[k] = p[m] /\ q[k + 1] = r[1]
        BY <1>2, <3>0, <3>2, <4>1
      <4>3. QED  BY <1>6, <4>1, <4>2
    <3>3. CASE k > m
      <4>1. k - m \in 1 .. n - 1 /\ (k + 1) - m = (k - m) + 1 /\ ~(k <= m) /\ ~(k + 1 <= m)
        BY <1>0, <1>1, <3>3
      <4>2. q[k] = r[k - m] /\ q[k + 1] = r[(k - m) + 1]
        BY <1>2, <3>0, <4>1
      <4>3. QED  BY <1>5, <4>1, <4>2
    <3>4. QED  BY <1>0, <3>1, <3>2, <3>3
  <2>3. QED  BY <1>2, <1>3, <2>1, <2>2 DEF Canonical
<1>8. ASSUME NEW x PROVE x \in Covered(q) <=> x \in Covered(p) \/ x \in Covered(r)
  <2> DEFINE InP(k) == p[k][1] <= x /\ x <= p[k][2]
             InR(k) == r[k][1] <= x /\ x <= r[k][2]
             InQ(k) == q[k][1] <= x /\ x <= q[k][2]
  <2>1. x \in Covered(p) <=> x \in Int /\ \E k \in 1 .. m : InP(k)
    BY InCovered DEF m
  <2>2. x \in Covered(r) <=> x \in Int /\ \E k \in 1 .. n : InR(k)
    BY InCovered DEF n
  <2>3. x \in Covered(q) <=> x \in Int /\ \E k \in 1 .. m + n : InQ(k)
    BY <1>2, InCovered
  <2>4. ASSUME NEW k \in 1 .. m + n
        PROVE  IF k <= m THEN k \in 1 .. m /\ (InQ(k) <=> InP(k))
               ELSE k - m \in 1 .. n /\ (InQ(k) <=> InR(k - m))
    <3>1. IF k <= m THEN k \in 1 .. m ELSE k - m \in 1 .. n
      BY <1>0, <1>1
    <3>2. QED  BY <1>2, <3>1
  <2>5. ASSUME NEW k \in 1 .. m PROVE k \in 1 .. m + n /\ k <= m
    BY <1>0, <1>1
  <2>6. ASSUME NEW k \in 1 .. n PROVE k + m \in 1 .. m + n /\ ~(k + m <= m) /\ (k + m) - m = k
    BY <1>0, <1>1
  <2>7. ASSUME NEW k \in 1 .. m, InP(k) PROVE \E j \in 1 .. m + n : InQ(j)
    BY <1>2, <2>5, <2>7
  <2>8. ASSUME NEW k \in 1 .. n, InR(k) PROVE \E j \in 1 .. m + n : InQ(j)
    <3>1. q[k + m] = r[k]
      BY <1>2, <2>6
    <3>2. InQ(k + m)
      BY <2>8, <3>1
    <3>3. QED  BY <2>6, <3>2
  <2>9. ASSUME NEW k \in 1 .. m + n, InQ(k)
        PROVE  (\E j \in 1 .. m : InP(j)) \/ (\E j \in 1 .. n : InR(j))
    <3> HIDE DEF InP, InQ, InR
    <3> QED  BY <2>4, <2>9
  <2> HIDE DEF InP, InQ, InR
  <2>10. QED  BY <2>1, <2>2, <2>3, <2>7, <2>8, <2>9
<1>9. QED  BY <1>2, <1>7, <1>8 DEF q

\* Canonical plans in order, one after the other.
LEMMA Concatenation ==
  ASSUME NEW ss \in Seq(Plans),
         \A k \in 1 .. Len(ss) : Canonical(ss[k]),
         \A j, k \in 1 .. Len(ss) : j < k => Separate(Covered(ss[j]), Covered(ss[k]))
  PROVE  /\ FlattenSeq(ss) \in Plans /\ Canonical(FlattenSeq(ss))
         /\ \A x : x \in Covered(FlattenSeq(ss)) <=> \E k \in 1 .. Len(ss) : x \in Covered(ss[k])
<1> DEFINE n == Len(ss)
<1>0. n \in Nat /\ \A k \in 1 .. n : ss[k] \in Plans
  BY LenProperties
<1>1. PICK g : /\ g[0] = <<>> /\ FlattenSeq(ss) = g[n]
               /\ \A k \in 0 .. n : g[k] \in Plans
               /\ \A k \in 0 .. n - 1 : g[k + 1] = g[k] \o ss[k + 1]
  BY FlattenFold
<1>2. /\ \A k \in 1 .. n : Canonical(ss[k])
      /\ \A j, k \in 1 .. n : j < k => Separate(Covered(ss[j]), Covered(ss[k]))
  OBVIOUS
<1> DEFINE Good(k) == /\ Canonical(g[k])
                      /\ \A x : x \in Covered(g[k]) <=> \E j \in 1 .. k : x \in Covered(ss[j])
           T == {k \in 0 .. n : Good(k)}
<1> HIDE DEF n
<1>3. 0 \in T
  <2>1. Canonical(g[0]) /\ Covered(g[0]) = {}
    BY <1>1, Nothing DEF EmptyPlan
  <2>2. 1 .. 0 = {}
    OBVIOUS
  <2>3. Good(0)
    BY <2>1, <2>2
  <2> HIDE DEF Good
  <2>4. QED  BY <1>0, <2>3
<1>4. ASSUME NEW k \in 0 .. n - 1, k \in T PROVE k + 1 \in T
  <2>1. /\ k + 1 \in 1 .. n /\ k + 1 \in 0 .. n /\ k \in 0 .. n
        /\ 1 .. k + 1 = 1 .. k \cup {k + 1} /\ \A j \in 1 .. k : j \in 1 .. n /\ j < k + 1
    BY <1>0
  <2> DEFINE p == g[k]
             r == ss[k + 1]
  <2>2. p \in Plans /\ r \in Plans /\ g[k + 1] = p \o r
    BY <1>0, <1>1, <2>1
  <2>3. Canonical(p) /\ \A x : x \in Covered(p) <=> \E j \in 1 .. k : x \in Covered(ss[j])
    BY <1>4
  <2>4. Canonical(r)
    BY <1>2, <2>1
  <2>5. Separate(Covered(p), Covered(r))
    <3>1. \A j \in 1 .. k : Separate(Covered(ss[j]), Covered(r))
      BY <1>2, <2>1
    <3> HIDE DEF p, r
    <3>2. QED  BY <2>3, <3>1 DEF Separate
  <2> HIDE DEF p, r
  <2>6. Canonical(p \o r) /\ Covered(p \o r) = Covered(p) \cup Covered(r)
    BY <2>2, <2>3, <2>4, <2>5, ConcatTwo
  <2>7. \A x : x \in Covered(p \o r) <=> \E j \in 1 .. k + 1 : x \in Covered(ss[j])
    <3>1. ASSUME NEW x PROVE x \in Covered(p \o r) <=> \E j \in 1 .. k + 1 : x \in Covered(ss[j])
      <4> DEFINE C(j) == x \in Covered(ss[j])
      <4>1. x \in Covered(r) <=> C(k + 1)
        BY DEF r
      <4>2. x \in Covered(p) <=> \E j \in 1 .. k : C(j)
        BY <2>3
      <4> HIDE DEF C
      <4>3. (\E j \in 1 .. k + 1 : C(j)) <=> (\E j \in 1 .. k : C(j)) \/ C(k + 1)
        BY <2>1
      <4>4. x \in Covered(p \o r) <=> \E j \in 1 .. k + 1 : C(j)
        BY <2>6, <4>1, <4>2, <4>3
      <4>5. QED  BY <4>4 DEF C
    <3>2. QED  BY <3>1
  <2>8. Good(k + 1)
    BY <2>2, <2>6, <2>7
  <2> HIDE DEF Good
  <2>9. QED  BY <2>1, <2>8
<1>5. n \in T
  <2> HIDE DEF T
  <2>1. 0 .. n \subseteq T
    BY <1>0, <1>3, <1>4, UpTo
  <2>2. QED  BY <1>0, <2>1
<1>6. Good(n) /\ n \in 0 .. n
  <2> HIDE DEF Good
  <2> QED  BY <1>0, <1>5
<1>7. QED  BY <1>1, <1>6 DEF n

-----------------------------------------------------------------------------
(* What new coverage leaves of the old *)

LEMMA Trimming ==
  ASSUME NEW old \in Pairs, NEW new \in Pairs
  PROVE  /\ Trimmed(old, new) \in Plans
         /\ old[1] <= old[2] /\ new[1] <= new[2] =>
              /\ Canonical(Trimmed(old, new))
              /\ Covered(Trimmed(old, new)) = (old[1] .. old[2]) \ (new[1] .. new[2])
<1>0. old[1] \in Int /\ old[2] \in Int /\ new[1] \in Int /\ new[2] \in Int
  BY DEF Pairs
<1> DEFINE l == <<old[1], new[1] - 1>>
           r == <<new[2] + 1, old[2]>>
           left  == IF old[1] < new[1] THEN <<l>> ELSE <<>>
           right == IF old[2] > new[2] THEN <<r>> ELSE <<>>
           A == IF old[1] < new[1] THEN old[1] .. new[1] - 1 ELSE {}
           B == IF old[2] > new[2] THEN new[2] + 1 .. old[2] ELSE {}
<1>1. /\ l \in Pairs /\ l[1] = old[1] /\ l[2] = new[1] - 1 /\ r \in Pairs
      /\ r[1] = new[2] + 1 /\ r[2] = old[2]
  BY <1>0 DEF Pairs
<1> HIDE DEF l, r
<1>2. left \in Plans /\ right \in Plans
  BY <1>1, Nothing DEF EmptyPlan, Plans
<1>3. CASE old[2] < new[1] \/ old[1] > new[2]
  <2>1. Trimmed(old, new) = <<old>>
    BY <1>3 DEF Trimmed
  <2>2. <<old>> \in Plans
    BY DEF Plans
  <2>3. ASSUME old[1] <= old[2], new[1] <= new[2]
        PROVE  /\ Canonical(<<old>>) /\ Covered(<<old>>) = (old[1] .. old[2]) \ (new[1] .. new[2])
    <3>1. Canonical(<<old>>) /\ Covered(<<old>>) = old[1] .. old[2]
      BY <2>3, One
    <3>2. old[1] .. old[2] = (old[1] .. old[2]) \ (new[1] .. new[2])
      BY <1>0, <1>3, <2>3
    <3>3. QED  BY <3>1, <3>2
  <2>4. QED  BY <2>1, <2>2, <2>3
<1>4. CASE ~(old[2] < new[1] \/ old[1] > new[2])
  <2>1. Trimmed(old, new) = left \o right
    BY <1>4 DEF Trimmed, l, r
  <2> HIDE DEF left, right
  <2>2. left \o right \in Plans
    BY <1>2, ConcatProperties DEF Plans
  <2>3. ASSUME old[1] <= old[2], new[1] <= new[2]
        PROVE  /\ Canonical(left \o right)
               /\ Covered(left \o right) = (old[1] .. old[2]) \ (new[1] .. new[2])
    <3>1. Canonical(left) /\ Covered(left) = A
      <4>1. CASE old[1] < new[1]
        <5>1. l[1] <= l[2]
          BY <1>0, <1>1, <4>1
        <5>2. left = <<l>> /\ A = l[1] .. l[2]
          BY <1>1, <4>1 DEF left
        <5>3. QED  BY <1>1, <5>1, <5>2, One
      <4>2. CASE ~(old[1] < new[1])
        BY <4>2, Nothing DEF EmptyPlan, left
      <4>3. QED  BY <4>1, <4>2
    <3>2. Canonical(right) /\ Covered(right) = B
      <4>1. CASE old[2] > new[2]
        <5>1. r[1] <= r[2]
          BY <1>0, <1>1, <4>1
        <5>2. right = <<r>> /\ B = r[1] .. r[2]
          BY <1>1, <4>1 DEF right
        <5>3. QED  BY <1>1, <5>1, <5>2, One
      <4>2. CASE ~(old[2] > new[2])
        BY <4>2, Nothing DEF EmptyPlan, right
      <4>3. QED  BY <4>1, <4>2
    <3>3. Separate(A, B)
      BY <1>0, <2>3 DEF Separate
    <3>4. A \cup B = (old[1] .. old[2]) \ (new[1] .. new[2])
      BY <1>0, <1>4, <2>3
    <3> HIDE DEF A, B
    <3>5. Separate(Covered(left), Covered(right))
      BY <3>1, <3>2, <3>3
    <3>6. Canonical(left \o right) /\ Covered(left \o right) = Covered(left) \cup Covered(right)
      BY <1>2, <3>1, <3>2, <3>5, ConcatTwo
    <3>7. QED  BY <3>1, <3>2, <3>4, <3>6
  <2>4. QED  BY <2>1, <2>2, <2>3
<1>5. QED  BY <1>3, <1>4

RestStep(rest, new) == FlattenSeq([n \in DOMAIN rest |-> Trimmed(rest[n], new)])

LEMMA RestOne ==
  ASSUME NEW rest \in Plans, NEW new \in Pairs
  PROVE  /\ RestStep(rest, new) \in Plans
         /\ Canonical(rest) /\ new[1] <= new[2] =>
              /\ Canonical(RestStep(rest, new))
              /\ Covered(RestStep(rest, new)) = Covered(rest) \ (new[1] .. new[2])
<1> DEFINE n == Len(rest)
           ss == [k \in DOMAIN rest |-> Trimmed(rest[k], new)]
<1>0. /\ n \in Nat /\ DOMAIN rest = 1 .. n
      /\ \A k \in 1 .. n : rest[k] \in Pairs /\ rest[k][1] \in Int /\ rest[k][2] \in Int
  BY PlanElements
<1>1. new[1] \in Int /\ new[2] \in Int
  BY DEF Pairs
<1>2. \A k \in 1 .. n : Trimmed(rest[k], new) \in Plans
  <2> HIDE DEF n
  <2> QED  BY <1>0, Trimming
<1>3. ss \in Seq(Plans) /\ Len(ss) = n /\ \A k \in 1 .. n : ss[k] = Trimmed(rest[k], new)
  <2> HIDE DEF n
  <2>1. ss \in [1 .. n -> Plans]
    BY <1>0, <1>2
  <2>2. DOMAIN ss = 1 .. n /\ \A k \in 1 .. n : ss[k] = Trimmed(rest[k], new)
    BY <1>0
  <2> HIDE DEF ss
  <2>3. ss \in Seq(Plans)
    BY <1>0, <2>1, SeqDef
  <2>4. Len(ss) = n
    BY <1>0, <2>2, <2>3, LenProperties
  <2>5. QED  BY <2>2, <2>3, <2>4
<1>4. RestStep(rest, new) = FlattenSeq(ss)
  BY DEF RestStep
<1> HIDE DEF ss
<1>5. FlattenSeq(ss) \in Plans
  <2>1. PICK g : /\ FlattenSeq(ss) = g[Len(ss)]
                 /\ \A k \in 0 .. Len(ss) : g[k] \in Plans
    BY <1>3, FlattenFold
  <2>2. Len(ss) \in 0 .. Len(ss)
    BY <1>0, <1>3
  <2>3. QED  BY <2>1, <2>2
<1>6. ASSUME Canonical(rest), new[1] <= new[2]
      PROVE  /\ Canonical(FlattenSeq(ss))
             /\ Covered(FlattenSeq(ss)) = Covered(rest) \ (new[1] .. new[2])
  <2> DEFINE cut == new[1] .. new[2]
  <2>1. \A k \in 1 .. n : /\ Canonical(ss[k])
                          /\ Covered(ss[k]) = (rest[k][1] .. rest[k][2]) \ cut
    <3>1. \A k \in 1 .. n : rest[k][1] <= rest[k][2]
      BY <1>0, <1>6 DEF Canonical
    <3> HIDE DEF n
    <3>2. QED  BY <1>0, <1>3, <1>6, <3>1, Trimming
  <2>2. ASSUME NEW j \in 1 .. n, NEW k \in 1 .. n, j < k
        PROVE  Separate(Covered(ss[j]), Covered(ss[k]))
    <3>1. rest[j][2] + 1 < rest[k][1]
      BY <1>6, <2>2, Apart
    <3> HIDE DEF cut, n
    <3>2. rest[j][1] \in Int /\ rest[j][2] \in Int /\ rest[k][1] \in Int /\ rest[k][2] \in Int
      BY <1>0
    <3>3. /\ \A x \in Covered(ss[j]) : x \in Int /\ x <= rest[j][2]
          /\ \A y \in Covered(ss[k]) : y \in Int /\ rest[k][1] <= y
      BY <2>1, <3>2
    <3>4. ASSUME NEW x \in Covered(ss[j]), NEW y \in Covered(ss[k]) PROVE x + 1 < y
      BY <3>1, <3>2, <3>3
    <3>5. QED  BY <3>4 DEF Separate
  <2>3. /\ Canonical(FlattenSeq(ss))
        /\ \A x : x \in Covered(FlattenSeq(ss)) <=> \E k \in 1 .. n : x \in Covered(ss[k])
    <3> HIDE DEF n, cut
    <3>1. /\ \A k \in 1 .. Len(ss) : Canonical(ss[k])
          /\ \A j, k \in 1 .. Len(ss) : j < k => Separate(Covered(ss[j]), Covered(ss[k]))
      BY <1>3, <2>1, <2>2
    <3>2. QED  BY <1>3, <3>1, Concatenation
  <2>4. ASSUME NEW x PROVE x \in Covered(FlattenSeq(ss)) <=> x \in Covered(rest) /\ x \notin cut
    <3>1. x \in Covered(rest) <=> x \in Int /\ \E k \in 1 .. n : rest[k][1] <= x /\ x <= rest[k][2]
      BY InCovered
    <3> HIDE DEF cut, n
    <3>2. \A k \in 1 .. n : x \in Covered(ss[k]) <=>
            x \in Int /\ rest[k][1] <= x /\ x <= rest[k][2] /\ x \notin cut
      BY <1>0, <2>1
    <3>3. QED  BY <2>3, <3>1, <3>2
  <2>5. QED  BY <2>3, <2>4
<1>7. QED  BY <1>4, <1>5, <1>6

LEMMA RemainingFold ==
  ASSUME NEW row \in Plans, NEW plan \in Plans
  PROVE  \E g : /\ g[0] = row /\ Remaining(row, plan) = g[Len(plan)]
                /\ \A k \in 0 .. Len(plan) : g[k] \in Plans
                /\ \A k \in 0 .. Len(plan) - 1 : g[k + 1] = RestStep(g[k], plan[k + 1])
<1> DEFINE n == Len(plan)
           f == [k \in 1 .. n |-> [v \in Plans |-> RestStep(v, plan[k])]]
           Step(it, s) == IF s = {} THEN row ELSE RestStep(it[s \ {Max(s)}], plan[Max(s)])
           Fixed(it) == it = [s \in SUBSET (1 .. n) |-> Step(it, s)]
           iter == CHOOSE it : Fixed(it)
           g == [k \in 0 .. n |-> iter[1 .. k]]
<1>1. n \in Nat /\ DOMAIN plan = 1 .. n /\ \A k \in 1 .. n : plan[k] \in Pairs
  BY PlanElements
<1>2. f \in [1 .. n -> [Plans -> Plans]]
  <2>1. \A k \in 1 .. n, v \in Plans : RestStep(v, plan[k]) \in Plans
    <3> HIDE DEF n
    <3> QED  BY <1>1, RestOne
  <2> HIDE DEF n
  <2>2. QED  BY <2>1
<1>3. PICK it : Solution(it, n, Plans, row, f)
  <2> HIDE DEF f, n
  <2> QED  BY <1>1, <1>2, Recursion, Zenon DEF Solvable
<1>4. ASSUME NEW s \in SUBSET (1 .. n) PROVE it[s] = Step(it, s)
  <2> HIDE DEF n
  <2>1. CASE s = {}
    BY <1>3, <2>1 DEF Solution
  <2>2. CASE s # {}
    <3>1. Max(s) \in 1 .. n /\ s \ {Max(s)} \in SUBSET (1 .. n)
      BY <1>1, <2>2, Greatest
    <3> HIDE DEF f
    <3>2. it[s \ {Max(s)}] \in Plans /\ it[s] = f[Max(s)][it[s \ {Max(s)}]]
      BY <1>3, <2>2, <3>1 DEF Solution
    <3>3. QED  BY <2>2, <3>1, <3>2 DEF f
  <2>3. QED  BY <2>1, <2>2
<1>5. Fixed(iter)
  <2> HIDE DEF Step, n, f
  <2>1. it = [s \in SUBSET (1 .. n) |-> it[s]]
    BY <1>3 DEF Solution
  <2>2. Fixed(it)
    BY <1>4, <2>1
  <2> HIDE DEF Fixed
  <2>3. QED  BY <2>2
<1>6. Remaining(row, plan) = iter[1 .. n]
  BY <1>1 DEF Remaining, RestStep, FoldLeft, MapThenFoldSet
<1> HIDE DEF iter, n
<1>7. \A s \in SUBSET (1 .. n) : iter[s] = Step(iter, s)
  <2> HIDE DEF Step
  <2> QED  BY <1>5
<1>8. g[0] = row
  <2>1. 1 .. 0 = {} /\ {} \in SUBSET (1 .. n) /\ 0 \in 0 .. n
    BY <1>1
  <2>2. iter[{}] = Step(iter, {})
    <3> HIDE DEF Step
    <3> QED  BY <1>7, <2>1
  <2>3. g[0] = iter[{}]
    BY <2>1
  <2>4. QED  BY <2>2, <2>3
<1>9. ASSUME NEW k \in 0 .. n - 1 PROVE g[k + 1] = RestStep(g[k], plan[k + 1])
  <2>1. /\ 1 .. k + 1 \in SUBSET (1 .. n) /\ 1 .. k + 1 # {}
        /\ Max(1 .. k + 1) = k + 1 /\ (1 .. k + 1) \ {k + 1} = 1 .. k
    BY <1>1, Segments
  <2>2. iter[1 .. k + 1] = RestStep(iter[1 .. k], plan[k + 1])
    BY <1>7, <2>1
  <2>3. g[k + 1] = iter[1 .. k + 1] /\ g[k] = iter[1 .. k]
    BY <1>1
  <2>4. QED  BY <2>2, <2>3
<1>10. g[n] = iter[1 .. n]
  BY <1>1
<1> HIDE DEF g
<1>11. \A k \in 0 .. n : g[k] \in Plans
  <2> DEFINE T == {k \in 0 .. n : g[k] \in Plans}
  <2>1. 0 \in T
    BY <1>1, <1>8
  <2>2. ASSUME NEW k \in 0 .. n - 1, k \in T PROVE k + 1 \in T
    <3>1. k + 1 \in 1 .. n /\ k + 1 \in 0 .. n
      BY <1>1
    <3>2. g[k + 1] \in Plans
      BY <1>1, <1>9, <2>2, <3>1, RestOne
    <3>3. QED  BY <3>1, <3>2
  <2> HIDE DEF T
  <2>3. 0 .. n \subseteq T
    BY <1>1, <2>1, <2>2, UpTo
  <2>4. QED  BY <2>3 DEF T
<1>12. QED
  BY <1>6, <1>8, <1>9, <1>10, <1>11 DEF n

\* save_discovery_coverage: what is left of a row is canonical, and the rest of
\* its addresses.
LEMMA Remainders ==
  ASSUME NEW row \in Plans, NEW plan \in Plans, Canonical(row), Canonical(plan)
  PROVE  /\ Remaining(row, plan) \in Plans /\ Canonical(Remaining(row, plan))
         /\ Covered(Remaining(row, plan)) = Covered(row) \ Covered(plan)
<1> DEFINE n == Len(plan)
<1>0. /\ n \in Nat /\ DOMAIN plan = 1 .. n
      /\ \A k \in 1 .. n : /\ plan[k] \in Pairs /\ plan[k][1] \in Int /\ plan[k][2] \in Int
                           /\ plan[k][1] <= plan[k][2]
  BY PlanElements DEF Canonical
<1>1. PICK g : /\ g[0] = row /\ Remaining(row, plan) = g[n]
               /\ \A k \in 0 .. n : g[k] \in Plans
               /\ \A k \in 0 .. n - 1 : g[k + 1] = RestStep(g[k], plan[k + 1])
  BY RemainingFold
<1>2. \A x : x \in Covered(plan) <=> \E k \in 1 .. n : x \in plan[k][1] .. plan[k][2]
  BY <1>0 DEF Covered, ToSet
<1> DEFINE In(x, k) == x \in plan[k][1] .. plan[k][2]
           Good(k) == /\ Canonical(g[k])
                      /\ \A x : x \in Covered(g[k]) <=>
                           x \in Covered(row) /\ \A j \in 1 .. k : ~In(x, j)
           T == {k \in 0 .. n : Good(k)}
<1> HIDE DEF n
<1>3. 0 \in T
  <2>1. 1 .. 0 = {}
    OBVIOUS
  <2> HIDE DEF In
  <2>2. Good(0)
    BY <1>1, <2>1
  <2> HIDE DEF Good
  <2>3. QED  BY <1>0, <2>2
<1>4. ASSUME NEW k \in 0 .. n - 1, k \in T PROVE k + 1 \in T
  <2>1. k + 1 \in 1 .. n /\ k + 1 \in 0 .. n /\ k \in 0 .. n /\ 1 .. k + 1 = 1 .. k \cup {k + 1}
    BY <1>0
  <2> DEFINE new == plan[k + 1]
  <2>2. g[k] \in Plans /\ new \in Pairs /\ new[1] <= new[2] /\ g[k + 1] = RestStep(g[k], new)
    BY <1>0, <1>1, <2>1
  <2>3. Canonical(g[k]) /\ \A x : x \in Covered(g[k]) <=> x \in Covered(row) /\ \A j \in 1 .. k : ~In(x, j)
    <3> HIDE DEF In
    <3> QED  BY <1>4
  <2>4. Canonical(g[k + 1]) /\ Covered(g[k + 1]) = Covered(g[k]) \ (new[1] .. new[2])
    <3> HIDE DEF new
    <3> QED  BY <2>2, <2>3, RestOne
  <2>5. \A x : In(x, k + 1) <=> x \in new[1] .. new[2]
    OBVIOUS
  <2> HIDE DEF new, In
  <2>6. \A x : x \in Covered(g[k + 1]) <=> x \in Covered(row) /\ \A j \in 1 .. k + 1 : ~In(x, j)
    BY <2>1, <2>3, <2>4, <2>5
  <2>7. Good(k + 1)
    BY <2>4, <2>6
  <2> HIDE DEF Good
  <2>8. QED  BY <2>1, <2>7
<1>5. n \in T
  <2> HIDE DEF T
  <2>1. 0 .. n \subseteq T
    BY <1>0, <1>3, <1>4, UpTo
  <2>2. QED  BY <1>0, <2>1
<1>6. Good(n) /\ n \in 0 .. n
  <2> HIDE DEF Good
  <2> QED  BY <1>0, <1>5
<1>7. Remaining(row, plan) \in Plans /\ Canonical(Remaining(row, plan))
  BY <1>1, <1>6
<1>8. \A x : x \in Covered(Remaining(row, plan)) <=> x \in Covered(row) /\ x \notin Covered(plan)
  <2> HIDE DEF In
  <2>1. \A x : x \in Covered(plan) <=> \E k \in 1 .. n : In(x, k)
    BY <1>2 DEF In
  <2>2. QED  BY <1>1, <1>6, <2>1
<1>9. QED  BY <1>7, <1>8

-----------------------------------------------------------------------------
(* Known addresses cut out of an interval *)

States == [cursor : Int, out : Plans]
GapStep(c, i) == [cursor |-> i[1] + 1,
                  out |-> IF c.cursor < i[1] THEN Append(c.out, <<c.cursor, i[1] - 1>>) ELSE c.out]
GapEnd(c, hi) == IF c.cursor <= hi THEN Append(c.out, <<c.cursor, hi>>) ELSE c.out
Singles(A) == {<<a, a>> : a \in A}

LEMMA GapStepType ==
  ASSUME NEW c \in States, NEW i \in Pairs
  PROVE  GapStep(c, i) \in States
<1>1. c.cursor \in Int /\ c.out \in Plans /\ i[1] \in Int
  BY DEF States, Pairs
<1>2. Append(c.out, <<c.cursor, i[1] - 1>>) \in Plans
  BY <1>1, AppendProperties DEF Plans, Pairs
<1>3. QED  BY <1>1, <1>2 DEF States, GapStep

\* Up to a known address: before it nothing is lost, and it is left out.
LEMMA GapOne ==
  ASSUME NEW c \in States, NEW lo \in Int, NEW a \in Int, NEW A,
         Canonical(c.out), c.out # <<>> => Last(c.out)[2] + 1 < c.cursor,
         lo <= c.cursor, c.cursor <= a, \A x \in A : x \in Int /\ x < c.cursor,
         Covered(c.out) = (lo .. c.cursor - 1) \ A
  PROVE  LET d == GapStep(c, <<a, a>>) IN
         /\ d.cursor = a + 1 /\ Canonical(d.out)
         /\ d.out # <<>> => Last(d.out)[2] + 1 < d.cursor
         /\ Covered(d.out) = (lo .. a) \ (A \cup {a})
<1> DEFINE d == GapStep(c, <<a, a>>)
           i == <<c.cursor, a - 1>>
           cursor == c.cursor
           out == c.out
<1>1. cursor \in Int /\ out \in Plans
  BY DEF States
<1>2. d.cursor = a + 1 /\ d.out = IF cursor < a THEN Append(out, i) ELSE out
  BY DEF GapStep
<1>3. i \in Pairs /\ i[1] = cursor /\ i[2] = a - 1
  BY <1>1 DEF Pairs
<1>4. /\ Canonical(out) /\ (out # <<>> => Last(out)[2] + 1 < cursor) /\ lo <= cursor /\ cursor <= a
      /\ (\A x \in A : x \in Int /\ x < cursor) /\ Covered(out) = (lo .. cursor - 1) \ A
  OBVIOUS
<1> HIDE DEF i, cursor, out, d
<1>5. CASE cursor < a
  <2>1. i[1] <= i[2]
    BY <1>1, <1>3, <1>5
  <2>2. /\ Append(out, i) \in Plans /\ Canonical(Append(out, i)) /\ Append(out, i) # <<>>
        /\ Covered(Append(out, i)) = Covered(out) \cup (i[1] .. i[2]) /\ Last(Append(out, i)) = i
    BY <1>1, <1>3, <1>4, <2>1, AppendOne
  <2>3. (Covered(out) \cup (cursor .. a - 1)) = (lo .. a) \ (A \cup {a})
    BY <1>1, <1>4, <1>5
  <2>4. d.out = Append(out, i)
    BY <1>2, <1>5
  <2>5. Last(d.out)[2] + 1 < d.cursor
    BY <1>2, <1>3, <2>2, <2>4
  <2>6. QED  BY <1>2, <1>3, <2>2, <2>3, <2>4, <2>5 DEF d
<1>6. CASE ~(cursor < a)
  <2>1. cursor = a /\ d.out = out
    BY <1>1, <1>2, <1>4, <1>6
  <2>2. Covered(out) = (lo .. a) \ (A \cup {a})
    BY <1>1, <1>4, <2>1
  <2>3. out # <<>> => Last(out)[2] + 1 < a + 1
    <3>1. ASSUME out # <<>> PROVE Last(out)[2] \in Int /\ Last(out)[2] + 1 < a
      BY <1>1, <1>4, <2>1, <3>1, PlanElements, EmptySeq DEF Last, Plans
    <3>2. QED  BY <3>1
  <2>4. QED  BY <1>2, <1>4, <2>1, <2>2, <2>3 DEF d
<1>7. QED  BY <1>5, <1>6

\* And after the last.
CutUp(c, lo, hi, A) ==
  /\ Canonical(c.out) /\ (c.out # <<>> => Last(c.out)[2] + 1 < c.cursor)
  /\ lo <= c.cursor /\ c.cursor <= hi + 1 /\ \A x \in A : x \in Int /\ x < c.cursor
  /\ Covered(c.out) = (lo .. c.cursor - 1) \ A
IsRest(plan, lo, hi, A) ==
  plan \in Plans /\ Canonical(plan) /\ Covered(plan) = (lo .. hi) \ A

LEMMA GapLast ==
  ASSUME NEW c \in States, NEW lo \in Int, NEW hi \in Int, NEW A, CutUp(c, lo, hi, A)
  PROVE  IsRest(GapEnd(c, hi), lo, hi, A)
<1> DEFINE i == <<c.cursor, hi>>
           cursor == c.cursor
           out == c.out
<1>1. cursor \in Int /\ out \in Plans
  BY DEF States
<1>2. GapEnd(c, hi) = IF cursor <= hi THEN Append(out, i) ELSE out
  BY DEF GapEnd
<1>3. i \in Pairs /\ i[1] = cursor /\ i[2] = hi
  BY <1>1 DEF Pairs
<1>4. /\ Canonical(out) /\ (out # <<>> => Last(out)[2] + 1 < cursor) /\ lo <= cursor /\ cursor <= hi + 1
      /\ (\A x \in A : x \in Int /\ x < cursor) /\ Covered(out) = (lo .. cursor - 1) \ A
  BY DEF CutUp
<1> HIDE DEF i, cursor, out
<1>5. CASE cursor <= hi
  <2>1. i[1] <= i[2]
    BY <1>1, <1>3, <1>5
  <2>2. /\ Append(out, i) \in Plans /\ Canonical(Append(out, i))
        /\ Covered(Append(out, i)) = Covered(out) \cup (i[1] .. i[2])
    BY <1>1, <1>3, <1>4, <2>1, AppendOne
  <2>3. (Covered(out) \cup (cursor .. hi)) = (lo .. hi) \ A
    BY <1>1, <1>4, <1>5
  <2>4. QED  BY <1>2, <1>3, <1>5, <2>2, <2>3 DEF IsRest
<1>6. CASE ~(cursor <= hi)
  <2>1. cursor = hi + 1 /\ cursor - 1 = hi
    BY <1>1, <1>4, <1>6
  <2>2. QED  BY <1>1, <1>2, <1>4, <1>6, <2>1 DEF IsRest
<1>7. QED  BY <1>5, <1>6

LEMMA GapsFold ==
  ASSUME NEW interval \in Pairs, NEW known,
         IsFiniteSet(Singles(known \cap (interval[1] .. interval[2]))),
         Singles(known \cap (interval[1] .. interval[2])) \in SUBSET Pairs
  PROVE  LET S == Singles(known \cap (interval[1] .. interval[2])) IN
         \E g : /\ g[0] = [cursor |-> interval[1], out |-> <<>>]
                /\ Gaps(interval, known) = GapEnd(g[Cardinality(S)], interval[2])
                /\ \A k \in 0 .. Cardinality(S) : g[k] \in States
                /\ \A k \in 0 .. Cardinality(S) - 1 : g[k + 1] = GapStep(g[k], Sorted(S)[k + 1])
<1> DEFINE S == Singles(known \cap (interval[1] .. interval[2]))
           q == Sorted(S)
           n == Cardinality(S)
           base == [cursor |-> interval[1], out |-> <<>>]
           f == [k \in 1 .. n |-> [v \in States |-> GapStep(v, q[k])]]
           Step(it, s) == IF s = {} THEN base ELSE GapStep(it[s \ {Max(s)}], q[Max(s)])
           Fixed(it) == it = [s \in SUBSET (1 .. n) |-> Step(it, s)]
           iter == CHOOSE it : Fixed(it)
           g == [k \in 0 .. n |-> iter[1 .. k]]
<1>1. n \in Nat /\ q \in [1 .. n -> S] /\ DOMAIN q = 1 .. n /\ \A k \in 1 .. n : q[k] \in Pairs
  <2>1. n \in Nat
    BY FS_CardinalityType
  <2>2. q \in [1 .. n -> S]
    BY Sorting DEF Sorts
  <2> HIDE DEF q, n
  <2>3. QED  BY <2>1, <2>2
<1>2. base \in States
  BY Nothing DEF EmptyPlan, States, Pairs
<1>3. f \in [1 .. n -> [States -> States]]
  <2>1. \A k \in 1 .. n, v \in States : GapStep(v, q[k]) \in States
    <3> HIDE DEF q, n
    <3> QED  BY <1>1, GapStepType
  <2> HIDE DEF q, n
  <2>2. QED  BY <2>1
<1>4. PICK it : Solution(it, n, States, base, f)
  <2> HIDE DEF f, n, base
  <2> QED  BY <1>1, <1>2, <1>3, Recursion, Zenon DEF Solvable
<1>5. ASSUME NEW s \in SUBSET (1 .. n) PROVE it[s] = Step(it, s)
  <2> HIDE DEF n, q, base
  <2>1. CASE s = {}
    BY <1>4, <2>1 DEF Solution
  <2>2. CASE s # {}
    <3>1. Max(s) \in 1 .. n /\ s \ {Max(s)} \in SUBSET (1 .. n)
      BY <1>1, <2>2, Greatest
    <3> HIDE DEF f
    <3>2. it[s \ {Max(s)}] \in States /\ it[s] = f[Max(s)][it[s \ {Max(s)}]]
      BY <1>4, <2>2, <3>1 DEF Solution
    <3>3. QED  BY <2>2, <3>1, <3>2 DEF f
  <2>3. QED  BY <2>1, <2>2
<1>6. Fixed(iter)
  <2> HIDE DEF Step, n, f
  <2>1. it = [s \in SUBSET (1 .. n) |-> it[s]]
    BY <1>4 DEF Solution
  <2>2. Fixed(it)
    BY <1>5, <2>1
  <2> HIDE DEF Fixed
  <2>3. QED  BY <2>2
<1>7. Cut(interval, known) = iter[1 .. n]
  BY <1>1 DEF Cut, GapStep, Singles, FoldLeft, MapThenFoldSet
<1> HIDE DEF iter, q, n, base, S
<1>8. \A s \in SUBSET (1 .. n) : iter[s] = Step(iter, s)
  <2> HIDE DEF Step
  <2> QED  BY <1>6
<1>9. g[0] = base
  <2>1. 1 .. 0 = {} /\ {} \in SUBSET (1 .. n) /\ 0 \in 0 .. n
    BY <1>1
  <2>2. iter[{}] = Step(iter, {})
    <3> HIDE DEF Step
    <3> QED  BY <1>8, <2>1
  <2>3. g[0] = iter[{}]
    BY <2>1
  <2>4. QED  BY <2>2, <2>3
<1>10. ASSUME NEW k \in 0 .. n - 1 PROVE g[k + 1] = GapStep(g[k], q[k + 1])
  <2>1. /\ 1 .. k + 1 \in SUBSET (1 .. n) /\ 1 .. k + 1 # {}
        /\ Max(1 .. k + 1) = k + 1 /\ (1 .. k + 1) \ {k + 1} = 1 .. k
    BY <1>1, Segments
  <2>2. iter[1 .. k + 1] = GapStep(iter[1 .. k], q[k + 1])
    BY <1>8, <2>1
  <2>3. g[k + 1] = iter[1 .. k + 1] /\ g[k] = iter[1 .. k]
    BY <1>1
  <2>4. QED  BY <2>2, <2>3
<1>11. g[n] = iter[1 .. n]
  BY <1>1
<1> HIDE DEF g
<1>12. \A k \in 0 .. n : g[k] \in States
  <2> DEFINE T == {k \in 0 .. n : g[k] \in States}
  <2>1. 0 \in T
    BY <1>1, <1>2, <1>9
  <2>2. ASSUME NEW k \in 0 .. n - 1, k \in T PROVE k + 1 \in T
    <3>1. k + 1 \in 1 .. n /\ k + 1 \in 0 .. n
      BY <1>1
    <3>2. g[k + 1] \in States
      BY <1>1, <1>10, <2>2, <3>1, GapStepType
    <3>3. QED  BY <3>1, <3>2
  <2> HIDE DEF T
  <2>3. 0 .. n \subseteq T
    BY <1>1, <2>1, <2>2, UpTo
  <2>4. QED  BY <2>3 DEF T
<1>13. QED
  BY <1>7, <1>9, <1>10, <1>11, <1>12 DEF Gaps, GapEnd, q, n, base, S

LEMMA SinglesFinite ==
  ASSUME NEW A, IsFiniteSet(A)
  PROVE  IsFiniteSet(Singles(A))
<1> DEFINE f == [a \in A |-> <<a, a>>]
<1>1. f \in Surjection(A, Singles(A))
  BY DEF Surjection, Singles
<1> HIDE DEF f
<1>2. QED  BY <1>1, FS_Surjection

\* What is left of an interval without its known addresses.
LEMMA Gapping ==
  ASSUME NEW interval \in Pairs, interval[1] <= interval[2], NEW known
  PROVE  /\ Gaps(interval, known) \in Plans /\ Canonical(Gaps(interval, known))
         /\ Covered(Gaps(interval, known)) = (interval[1] .. interval[2]) \ known
<1> DEFINE lo == interval[1]
           hi == interval[2]
           inside == known \cap (lo .. hi)
           S == Singles(inside)
           n == Cardinality(S)
           q == Sorted(S)
<1>0. lo \in Int /\ hi \in Int /\ lo <= hi
  BY DEF Pairs
<1>1. IsFiniteSet(S) /\ S \in SUBSET Pairs
  <2>1. IsFiniteSet(lo .. hi)
    BY <1>0, FS_Interval
  <2> DEFINE J == lo .. hi
  <2>2. inside \in SUBSET J /\ \A x \in J : x \in Int
    BY <1>0
  <2>3. IsFiniteSet(J)
    BY <2>1
  <2> HIDE DEF inside, J
  <2>4. IsFiniteSet(inside)
    BY <2>2, <2>3, FS_Subset
  <2>5. QED  BY <2>2, <2>4, SinglesFinite DEF Singles, Pairs
<1>2. PICK g : /\ g[0] = [cursor |-> lo, out |-> <<>>]
               /\ Gaps(interval, known) = GapEnd(g[n], hi)
               /\ \A k \in 0 .. n : g[k] \in States
               /\ \A k \in 0 .. n - 1 : g[k + 1] = GapStep(g[k], q[k + 1])
  BY <1>1, GapsFold
<1>3. /\ n \in Nat /\ q \in [1 .. n -> S] /\ Increasing(q) /\ DOMAIN q = 1 .. n /\ ToSet(q) = S
  <2> HIDE DEF S
  <2>1. n \in Nat
    BY <1>1, FS_CardinalityType
  <2>2. q \in [1 .. n -> S] /\ Increasing(q) /\ ToSet(q) = S
    BY <1>1, Sorting DEF Sorts
  <2> HIDE DEF q, n
  <2>3. QED  BY <2>1, <2>2
<1> HIDE DEF q, n, S
<1>4. \A k \in 1 .. n : /\ q[k] = <<q[k][1], q[k][1]>> /\ q[k][1] \in inside
                        /\ q[k][1] \in Int /\ lo <= q[k][1] /\ q[k][1] <= hi
  <2>1. ASSUME NEW k \in 1 .. n
        PROVE  /\ q[k] = <<q[k][1], q[k][1]>> /\ q[k][1] \in inside
               /\ q[k][1] \in Int /\ lo <= q[k][1] /\ q[k][1] <= hi
    <3>1. q[k] \in S
      BY <1>3
    <3>2. PICK a \in inside : q[k] = <<a, a>>
      BY <3>1 DEF S, Singles
    <3>3. a \in Int /\ lo <= a /\ a <= hi
      BY <1>0
    <3> HIDE DEF inside, lo, hi
    <3>4. QED  BY <3>2, <3>3
  <2>2. QED  BY <2>1
<1>5. \A a \in inside : \E k \in 1 .. n : a = q[k][1]
  <2>1. ASSUME NEW a \in inside PROVE \E k \in 1 .. n : a = q[k][1]
    <3>1. <<a, a>> \in S
      BY DEF S, Singles
    <3> HIDE DEF inside
    <3>2. PICK k \in 1 .. n : <<a, a>> = q[k]
      BY <1>3, <3>1 DEF ToSet
    <3>3. q[k][1] = a
      BY <3>2
    <3>4. QED  BY <3>3
  <2>2. QED  BY <2>1
<1> DEFINE A(k) == {q[j][1] : j \in 1 .. k}
           Good(k) == /\ Canonical(g[k].out) /\ (g[k].out # <<>> => Last(g[k].out)[2] + 1 < g[k].cursor)
                      /\ lo <= g[k].cursor /\ g[k].cursor <= hi + 1
                      /\ \A x \in A(k) : x \in Int /\ x < g[k].cursor
                      /\ Covered(g[k].out) = (lo .. g[k].cursor - 1) \ A(k)
                      /\ g[k].cursor = IF k = 0 THEN lo ELSE q[k][1] + 1
           T == {k \in 0 .. n : Good(k)}
<1> HIDE DEF lo, hi, inside
<1>6. 0 \in T
  <2>1. g[0].cursor = lo /\ g[0].out = <<>>
    BY <1>2
  <2>2. A(0) = {} /\ lo .. lo - 1 = {}
    BY <1>0
  <2>3. Canonical(g[0].out) /\ Covered(g[0].out) = {}
    BY <2>1, Nothing DEF EmptyPlan
  <2> HIDE DEF A
  <2>4. Good(0)
    BY <1>0, <2>1, <2>2, <2>3
  <2> HIDE DEF Good
  <2>5. QED  BY <1>3, <2>4
<1>7. ASSUME NEW k \in 0 .. n - 1, k \in T PROVE k + 1 \in T
  <2>1. k + 1 \in 1 .. n /\ k + 1 \in 0 .. n /\ k \in 0 .. n /\ 1 .. k + 1 = 1 .. k \cup {k + 1}
        /\ (k # 0 => k \in 1 .. n) /\ k < k + 1 /\ k + 1 # 0
    BY <1>3
  <2> DEFINE a == q[k + 1][1]
             c == g[k]
             d == g[k + 1]
  <2>2. /\ q[k + 1] = <<a, a>> /\ a \in Int /\ lo <= a /\ a <= hi /\ c \in States
        /\ d = GapStep(c, <<a, a>>)
    BY <1>2, <1>4, <2>1
  <2>3. Good(k) /\ c.cursor \in Int
    BY <1>7, <2>2 DEF States
  <2>4. c.cursor <= a
    <3>1. CASE k = 0
      BY <2>2, <2>3, <3>1
    <3>2. CASE k # 0
      <4>1. Before(q[k], q[k + 1])
        BY <1>3, <2>1, <3>2 DEF Increasing
      <4>2. q[k] = <<q[k][1], q[k][1]>> /\ q[k][1] \in Int
        BY <1>4, <2>1, <3>2
      <4> DEFINE b == q[k][1]
      <4>3. q[k] = <<b, b>> /\ b \in Int /\ q[k + 1] = <<a, a>>
        BY <2>2, <4>2
      <4> HIDE DEF a, b
      <4>4. b < a
        BY <2>2, <4>1, <4>3 DEF Before
      <4>5. c.cursor = b + 1
        BY <2>3, <3>2 DEF b
      <4>6. QED  BY <2>2, <4>3, <4>4, <4>5
    <3>3. QED  BY <3>1, <3>2
  <2>5. A(k + 1) = A(k) \cup {a}
    BY <2>1
  <2> HIDE DEF A
  <2>6. /\ Canonical(c.out) /\ (c.out # <<>> => Last(c.out)[2] + 1 < c.cursor) /\ lo <= c.cursor
        /\ (\A x \in A(k) : x \in Int /\ x < c.cursor) /\ Covered(c.out) = (lo .. c.cursor - 1) \ A(k)
    BY <2>3
  <2> HIDE DEF Good, a, c, d
  <2>7. /\ d.cursor = a + 1 /\ Canonical(d.out)
        /\ d.out # <<>> => Last(d.out)[2] + 1 < d.cursor
        /\ Covered(d.out) = (lo .. a) \ (A(k) \cup {a})
    BY <1>0, <2>2, <2>4, <2>6, GapOne
  <2>8. \A x \in A(k + 1) : x \in Int /\ x < a + 1
    BY <2>2, <2>3, <2>4, <2>5, <2>6
  <2>9. lo <= a + 1 /\ a + 1 <= hi + 1 /\ (a + 1) - 1 = a
    BY <1>0, <2>2
  <2>10. Good(k + 1)
    <3>1. Covered(d.out) = (lo .. d.cursor - 1) \ A(k + 1)
      BY <2>5, <2>7, <2>9
    <3>2. d.cursor = IF k + 1 = 0 THEN lo ELSE q[k + 1][1] + 1
      BY <2>1, <2>7 DEF a
    <3>3. \A x \in A(k + 1) : x \in Int /\ x < d.cursor
      BY <2>7, <2>8
    <3>4. lo <= d.cursor /\ d.cursor <= hi + 1
      BY <2>7, <2>9
    <3>5. QED  BY <2>7, <3>1, <3>2, <3>3, <3>4 DEF Good, d
  <2>11. QED  BY <2>1, <2>10
<1>8. n \in T
  <2> HIDE DEF T
  <2>1. 0 .. n \subseteq T
    BY <1>3, <1>6, <1>7, UpTo
  <2>2. QED  BY <1>3, <2>1
<1>9. Good(n) /\ g[n] \in States
  <2> HIDE DEF Good
  <2> QED  BY <1>2, <1>3, <1>8
<1>10. A(n) = inside
  <2>1. \A x \in A(n) : x \in inside
    BY <1>4
  <2>2. \A x \in inside : x \in A(n)
    BY <1>5
  <2>3. QED  BY <2>1, <2>2
<1> HIDE DEF A
<1>11. IsRest(GapEnd(g[n], hi), lo, hi, A(n))
  <2>1. CutUp(g[n], lo, hi, A(n))
    BY <1>9 DEF CutUp
  <2>2. QED  BY <1>0, <1>9, <2>1, GapLast
<1>12. (lo .. hi) \ A(n) = (lo .. hi) \ known
  BY <1>10 DEF inside
<1>13. QED  BY <1>2, <1>11, <1>12 DEF IsRest, lo, hi

-----------------------------------------------------------------------------
(* Networks *)

Of(net, hosts) == IF hosts THEN Hosts(net) ELSE Whole(net)

LEMMA SpaceFinite ==
  /\ IsFiniteSet(Space) /\ IsFiniteSet(Networks)
  /\ Space \subseteq Nat
<1> DEFINE s == Size[0]
           P == Space \X PrefixLengths
           f == [x \in P |-> Network(x[1], x[2])]
<1>0. Bits \in Nat /\ 0 \in PrefixLengths
  BY TargetsAssumption DEF PrefixLengths
<1>1. s \in Nat \ {0}
  BY <1>0, Sizes
<1>2. IsFiniteSet(Space) /\ Space \subseteq Nat
  <2> HIDE DEF s
  <2>1. Space = 0 .. s - 1
    BY DEF Space, s
  <2>2. 0 \in Int /\ s - 1 \in Int
    BY <1>1
  <2>3. IsFiniteSet(0 .. s - 1)
    BY <2>2, FS_Interval
  <2>4. QED  BY <1>1, <2>1, <2>3
<1>3. IsFiniteSet(PrefixLengths)
  <2>1. 0 \in Int /\ Bits \in Int
    BY <1>0
  <2>2. QED  BY <2>1, FS_Interval DEF PrefixLengths
<1>4. IsFiniteSet(P)
  BY <1>2, <1>3, FS_Product
<1>5. f \in Surjection(P, Networks)
  <2>1. ASSUME NEW x \in P PROVE Network(x[1], x[2]) \in Networks
    BY DEF Networks
  <2>2. f \in [P -> Networks]
    BY <2>1
  <2>3. ASSUME NEW net \in Networks PROVE \E x \in P : f[x] = net
    <3>1. PICK a \in Space, p \in PrefixLengths : net = Network(a, p)
      BY DEF Networks
    <3>2. <<a, p>> \in P /\ f[<<a, p>>] = Network(a, p)
      OBVIOUS
    <3>3. QED  BY <3>1, <3>2
  <2> HIDE DEF f, P
  <2>4. QED  BY <2>2, <2>3 DEF Surjection
<1>6. IsFiniteSet(Networks)
  <2> HIDE DEF f, P
  <2> QED  BY <1>4, <1>5, FS_Surjection
<1>7. QED  BY <1>2, <1>6

LEMMA NetworkType ==
  ASSUME NEW net \in Networks
  PROVE  /\ net.base \in Int /\ net.prefix \in PrefixLengths
         /\ Size[net.prefix] \in Nat \ {0} /\ (Size[net.prefix] > 2 <=> net.prefix < Bits - 1)
<1>1. PICK a \in Space, p \in PrefixLengths : net = Network(a, p)
  BY DEF Networks
<1>2. Size[p] \in Nat \ {0} /\ (Size[p] > 2 <=> p < Bits - 1) /\ a \in Nat
  BY Sizes, SpaceFinite
<1>3. a - (a % Size[p]) \in Int
  <2> DEFINE s == Size[p]
  <2>1. s \in Nat \ {0}
    BY <1>2
  <2> HIDE DEF s
  <2>2. a - (a % s) \in Int
    BY <1>2, <2>1
  <2>3. QED  BY <2>2 DEF s
<1>4. net.base = a - (a % Size[p]) /\ net.prefix = p
  BY <1>1 DEF Network
<1>5. QED  BY <1>2, <1>3, <1>4

\* _bounds: the usable addresses, also of a /31 and of a /32.
LEMMA BoundsAre ==
  ASSUME NEW net \in Networks, NEW hosts \in BOOLEAN
  PROVE  /\ Bounds(net, hosts) \in Pairs /\ Bounds(net, hosts)[1] <= Bounds(net, hosts)[2]
         /\ Bounds(net, hosts)[1] .. Bounds(net, hosts)[2] = Of(net, hosts)
<1> DEFINE b == net.base
           s == Size[net.prefix]
           o == IF hosts /\ net.prefix < Bits - 1 THEN 1 ELSE 0
           i == Bounds(net, hosts)
<1>1. b \in Int /\ s \in Nat \ {0} /\ (s > 2 <=> net.prefix < Bits - 1)
  BY NetworkType
<1>2. i = <<b + o, b + s - 1 - o>>
  BY DEF Bounds
<1>3. o = IF hosts /\ s > 2 THEN 1 ELSE 0
  BY <1>1
<1>4. Whole(net) = b .. b + s - 1
  BY DEF Whole
<1>5. Hosts(net) = IF s > 2 THEN Whole(net) \ {b, b + s - 1} ELSE Whole(net)
  BY DEF Hosts
<1> HIDE DEF b, s, o, i
<1>6. i \in Pairs /\ i[1] = b + o /\ i[2] = b + s - 1 - o /\ i[1] <= i[2]
  BY <1>1, <1>2, <1>3 DEF Pairs
<1>7. b + o .. b + s - 1 - o = Of(net, hosts)
  <2>1. CASE hosts /\ s > 2
    <3>1. b + 1 .. b + s - 1 - 1 = (b .. b + s - 1) \ {b, b + s - 1}
      BY <1>1, <2>1
    <3>2. QED  BY <1>3, <1>4, <1>5, <2>1, <3>1 DEF Of
  <2>2. CASE ~(hosts /\ s > 2)
    <3>1. b + 0 .. b + s - 1 - 0 = b .. b + s - 1
      BY <1>1
    <3>2. QED  BY <1>3, <1>4, <1>5, <2>2, <3>1 DEF Of
  <2>3. QED  BY <2>1, <2>2
<1>8. QED  BY <1>6, <1>7 DEF i

\* The merged bounds of the declared networks.
LEMMA Declared ==
  ASSUME NEW declared \in SUBSET Networks, NEW hosts \in BOOLEAN
  PROVE  LET plan == MergeIntervals({Bounds(net, hosts) : net \in declared}) IN
         /\ plan \in Plans /\ Canonical(plan)
         /\ Covered(plan) = UNION {Of(net, hosts) : net \in declared}
<1> DEFINE S == {Bounds(net, hosts) : net \in declared}
           f == [net \in declared |-> Bounds(net, hosts)]
<1>1. \A net \in declared : /\ Bounds(net, hosts) \in Pairs
                            /\ Bounds(net, hosts)[1] <= Bounds(net, hosts)[2]
                            /\ Bounds(net, hosts)[1] .. Bounds(net, hosts)[2] = Of(net, hosts)
  BY BoundsAre
<1>2. S \in SUBSET Pairs /\ Valid(S)
  BY <1>1 DEF Valid
<1>3. IsFiniteSet(S)
  <2>1. f \in Surjection(declared, S)
    BY DEF Surjection
  <2>2. IsFiniteSet(declared)
    BY SpaceFinite, FS_Subset
  <2> HIDE DEF f, S
  <2>3. QED  BY <2>1, <2>2, FS_Surjection
<1>4. Union(S) = UNION {Of(net, hosts) : net \in declared}
  BY <1>1 DEF Union
<1> HIDE DEF S
<1>5. /\ MergeIntervals(S) \in Plans /\ Canonical(MergeIntervals(S))
      /\ Covered(MergeIntervals(S)) = Union(S)
  BY <1>2, <1>3, Merging
<1>6. QED  BY <1>4, <1>5 DEF S

-----------------------------------------------------------------------------
(* The planner *)

LEMMA SingleCover ==
  ASSUME NEW A \in SUBSET Int
  PROVE  Singles(A) \in SUBSET Pairs /\ Valid(Singles(A)) /\ Union(Singles(A)) = A
<1>1. \A a \in A : <<a, a>>[1] = a /\ <<a, a>>[2] = a /\ a .. a = {a} /\ a \in Int /\ a <= a
  OBVIOUS
<1>2. Singles(A) \in SUBSET Pairs
  BY DEF Singles, Pairs
<1>3. Valid(Singles(A))
  BY <1>1 DEF Singles, Valid
<1>4. ASSUME NEW x \in Union(Singles(A)) PROVE x \in A
  <2>1. PICK i \in Singles(A) : x \in i[1] .. i[2]
    BY DEF Union
  <2>2. PICK a \in A : i = <<a, a>>
    BY DEF Singles
  <2>3. i[1] = a /\ i[2] = a
    BY <2>2
  <2>4. QED  BY <1>1, <2>1, <2>3
<1>5. ASSUME NEW x \in A PROVE x \in Union(Singles(A))
  <2>1. <<x, x>> \in Singles(A) /\ <<x, x>>[1] = x /\ <<x, x>>[2] = x /\ x \in x .. x
    BY <1>1 DEF Singles
  <2> DEFINE i == <<x, x>>
  <2>2. i \in Singles(A) /\ x \in i[1] .. i[2]
    BY <2>1
  <2> HIDE DEF i
  <2>3. QED  BY <2>2 DEF Union
<1>6. QED  BY <1>2, <1>3, <1>4, <1>5

\* The gaps of a plan, one interval after the other.
LEMMA GapsOfPlan ==
  ASSUME NEW plan \in Plans, Canonical(plan), NEW known
  PROVE  LET gaps == FlattenSeq([n \in DOMAIN plan |-> Gaps(plan[n], known)]) IN
         gaps \in Plans /\ Canonical(gaps) /\ Covered(gaps) = Covered(plan) \ known
<1> DEFINE n == Len(plan)
           ss == [k \in DOMAIN plan |-> Gaps(plan[k], known)]
<1>0. /\ n \in Nat /\ DOMAIN plan = 1 .. n
      /\ \A k \in 1 .. n : /\ plan[k] \in Pairs /\ plan[k][1] \in Int /\ plan[k][2] \in Int
                           /\ plan[k][1] <= plan[k][2]
  BY PlanElements DEF Canonical
<1>1. \A k \in 1 .. n : /\ Gaps(plan[k], known) \in Plans /\ Canonical(Gaps(plan[k], known))
                        /\ Covered(Gaps(plan[k], known)) = (plan[k][1] .. plan[k][2]) \ known
  <2> HIDE DEF n
  <2> QED  BY <1>0, Gapping
<1>2. ss \in Seq(Plans) /\ Len(ss) = n /\ \A k \in 1 .. n : ss[k] = Gaps(plan[k], known)
  <2> HIDE DEF n
  <2>1. ss \in [1 .. n -> Plans]
    BY <1>0, <1>1
  <2>2. DOMAIN ss = 1 .. n /\ \A k \in 1 .. n : ss[k] = Gaps(plan[k], known)
    BY <1>0
  <2> HIDE DEF ss
  <2>3. ss \in Seq(Plans)
    BY <1>0, <2>1, SeqDef
  <2>4. Len(ss) = n
    BY <1>0, <2>2, <2>3, LenProperties
  <2>5. QED  BY <2>2, <2>3, <2>4
<1> HIDE DEF ss
<1>3. \A k \in 1 .. n : /\ Canonical(ss[k])
                        /\ Covered(ss[k]) = (plan[k][1] .. plan[k][2]) \ known
  BY <1>1, <1>2
<1>4. ASSUME NEW j \in 1 .. n, NEW k \in 1 .. n, j < k
      PROVE  Separate(Covered(ss[j]), Covered(ss[k]))
  <2>1. plan[j][2] + 1 < plan[k][1]
    BY <1>4, Apart
  <2> HIDE DEF n
  <2>2. plan[j][1] \in Int /\ plan[j][2] \in Int /\ plan[k][1] \in Int /\ plan[k][2] \in Int
    BY <1>0
  <2>3. /\ \A x \in Covered(ss[j]) : x \in Int /\ x <= plan[j][2]
        /\ \A y \in Covered(ss[k]) : y \in Int /\ plan[k][1] <= y
    BY <1>3, <2>2
  <2>4. ASSUME NEW x \in Covered(ss[j]), NEW y \in Covered(ss[k]) PROVE x + 1 < y
    BY <2>1, <2>2, <2>3
  <2>5. QED  BY <2>4 DEF Separate
<1>5. /\ FlattenSeq(ss) \in Plans /\ Canonical(FlattenSeq(ss))
      /\ \A x : x \in Covered(FlattenSeq(ss)) <=> \E k \in 1 .. n : x \in Covered(ss[k])
  <2> HIDE DEF n
  <2>1. /\ \A k \in 1 .. Len(ss) : Canonical(ss[k])
        /\ \A j, k \in 1 .. Len(ss) : j < k => Separate(Covered(ss[j]), Covered(ss[k]))
    BY <1>2, <1>3, <1>4
  <2>2. QED  BY <1>2, <2>1, Concatenation
<1>6. ASSUME NEW x PROVE x \in Covered(FlattenSeq(ss)) <=> x \in Covered(plan) /\ x \notin known
  <2>1. x \in Covered(plan) <=> x \in Int /\ \E k \in 1 .. n : plan[k][1] <= x /\ x <= plan[k][2]
    BY InCovered
  <2> HIDE DEF n
  <2>2. \A k \in 1 .. n : x \in Covered(ss[k]) <=>
          x \in Int /\ plan[k][1] <= x /\ x <= plan[k][2] /\ x \notin known
    BY <1>0, <1>3
  <2>3. QED  BY <1>5, <2>1, <2>2
<1>7. QED  BY <1>5, <1>6 DEF ss

Exact(plan, q, declared, known) ==
  /\ plan # Rejected <=> Allowed(q, declared)
  /\ plan # Rejected => /\ plan.intervals \in Plans /\ Canonical(plan.intervals)
                        /\ Covered(plan.intervals) = Wanted(q, declared, known)

\* plan_targets refuses what reaches outside, and plans the rest exactly.
LEMMA Planning ==
  ASSUME NEW q \in Requests, NEW declared \in SUBSET Networks, NEW known \in SUBSET Space
  PROVE  Exact(PlanTargets(q, declared, known), q, declared, known)
<1> DEFINE hosts == q.mode # "known-only"
           W == UNION {Whole(net) : net \in declared}
           within == MergeIntervals({Bounds(net, FALSE) : net \in declared})
           network == q.target.network
           whole == Bounds(network, FALSE)
           selected ==
             CASE q.target.scope = "all" -> MergeIntervals({Bounds(n, hosts) : n \in declared})
               [] q.target.scope = "subnet" -> <<Bounds(network, hosts)>>
               [] q.target.scope = "range" -> << <<q.target.first, q.target.last>> >>
           hit == {a \in known : ContainedIn(selected, a, a)}
           refused == \/ q.target.scope = "subnet" /\ ~ContainedIn(within, whole[1], whole[2])
                      \/ \E i \in ToSet(selected) : ~ContainedIn(within, i[1], i[2])
           intervals == CASE q.mode = "full" -> selected
                          [] q.mode = "known-only" -> MergeIntervals({<<a, a>> : a \in hit})
                          [] q.mode = "discovery-only" ->
                               FlattenSeq([n \in DOMAIN selected |-> Gaps(selected[n], hit)])
           asked == Asked(q.target, q.mode, declared)
           plan == PlanTargets(q, declared, known)
<1>1. /\ q.mode \in {"full", "known-only", "discovery-only"}
      /\ \/ q.target.scope = "all"
         \/ q.target.scope = "subnet" /\ q.target.network \in Networks
         \/ q.target.scope = "range" /\ q.target.first \in Space /\ q.target.last \in Space
  BY DEF Requests
<1>2. plan = IF refused THEN Rejected ELSE [is |-> "plan", intervals |-> intervals]
  BY DEF PlanTargets, Singles
<1>3. (plan # Rejected <=> ~refused) /\ (~refused => plan.intervals = intervals)
  <2> HIDE DEF refused, intervals, plan
  <2>1. [is |-> "plan", intervals |-> intervals] # Rejected
    BY DEF Rejected
  <2>2. QED  BY <1>2, <2>1
<1>4. within \in Plans /\ Canonical(within) /\ Covered(within) = W
  <2>1. /\ within \in Plans /\ Canonical(within)
        /\ Covered(within) = UNION {Of(net, FALSE) : net \in declared}
    BY Declared
  <2>2. \A net : Of(net, FALSE) = Whole(net)
    BY DEF Of
  <2> HIDE DEF within
  <2>3. QED  BY <2>1, <2>2
<1>5. asked = CASE q.target.scope = "all" -> UNION {Of(net, hosts) : net \in declared}
                [] q.target.scope = "subnet" -> Of(network, hosts)
                [] q.target.scope = "range" -> q.target.first .. q.target.last
  BY DEF Asked, Of
<1>6. \A net : Of(net, hosts) \subseteq Whole(net)
  BY DEF Of, Hosts
<1>7. /\ ~refused <=> Allowed(q, declared)
      /\ ~refused => selected \in Plans /\ Canonical(selected) /\ Covered(selected) = asked
  <2> HIDE DEF within, W
  <2>1. CASE q.target.scope = "all"
    <3>1. selected = MergeIntervals({Bounds(n, hosts) : n \in declared})
      BY <2>1
    <3>2. asked = UNION {Of(net, hosts) : net \in declared}
      BY <1>5, <2>1
    <3>3. hosts \in BOOLEAN
      OBVIOUS
    <3>4. selected \in Plans /\ Canonical(selected) /\ Covered(selected) = asked
      <4> HIDE DEF hosts, selected, asked
      <4> QED  BY <3>1, <3>2, <3>3, Declared
    <3>5. asked \subseteq W
      <4> HIDE DEF hosts, asked
      <4> QED  BY <1>6, <3>2 DEF W
    <3>6. ASSUME NEW i \in ToSet(selected) PROVE ContainedIn(within, i[1], i[2])
      <4> HIDE DEF selected, asked
      <4>1. i[1] \in Int /\ i[2] \in Int /\ i[1] <= i[2]
        BY <3>4, PlanElements DEF ToSet, Canonical
      <4>2. i[1] .. i[2] \subseteq Covered(within)
        BY <1>4, <3>4, <3>5 DEF Covered
      <4>3. QED  BY <1>4, <4>1, <4>2, Containment
    <3>7. ~refused
      <4> HIDE DEF selected
      <4> QED  BY <2>1, <3>6
    <3>8. Allowed(q, declared)
      BY <2>1 DEF Allowed
    <3>9. QED  BY <3>4, <3>7, <3>8
  <2>2. CASE q.target.scope = "subnet" /\ q.target.network \in Networks
    <3>1. selected = <<Bounds(network, hosts)>> /\ asked = Of(network, hosts)
      BY <1>5, <2>2
    <3> DEFINE i == Bounds(network, hosts)
    <3>2. /\ i \in Pairs /\ i[1] <= i[2] /\ i[1] .. i[2] = Of(network, hosts)
          /\ whole \in Pairs /\ whole[1] <= whole[2] /\ whole[1] .. whole[2] = Whole(network)
          /\ hosts \in BOOLEAN
      <4>1. hosts \in BOOLEAN /\ FALSE \in BOOLEAN /\ network \in Networks
        BY <2>2
      <4>2. Of(network, FALSE) = Whole(network)
        BY DEF Of
      <4> HIDE DEF hosts, network
      <4>3. QED  BY <4>1, <4>2, BoundsAre
    <3> HIDE DEF i, whole, hosts, selected, asked, network
    <3>3. selected \in Plans /\ Canonical(selected) /\ Covered(selected) = asked
      BY <3>1, <3>2, One DEF i
    <3>4. ToSet(selected) = {i}
      BY <3>1 DEF i, ToSet
    <3>5. ContainedIn(within, whole[1], whole[2]) <=> Whole(network) \subseteq W
      <4>1. whole[1] \in Int /\ whole[2] \in Int
        BY <3>2 DEF Pairs
      <4>2. QED  BY <1>4, <3>2, <4>1, Containment
    <3>6. Whole(network) \subseteq W => ContainedIn(within, i[1], i[2])
      <4>1. i[1] \in Int /\ i[2] \in Int
        BY <3>2 DEF Pairs
      <4>2. QED  BY <1>4, <1>6, <3>2, <4>1, Containment
    <3>7. Allowed(q, declared) <=> Whole(network) \subseteq W
      BY <2>2 DEF Allowed, W, network
    <3>8. refused <=> ~(Whole(network) \subseteq W)
      BY <2>2, <3>4, <3>5, <3>6
    <3>9. QED  BY <3>3, <3>7, <3>8
  <2>3. CASE q.target.scope = "range" /\ q.target.first \in Space /\ q.target.last \in Space
    <3> DEFINE first == q.target.first
               last == q.target.last
               i == <<first, last>>
    <3>1. selected = <<i>> /\ asked = first .. last
      BY <1>5, <2>3
    <3>2. i \in Pairs /\ i[1] = first /\ i[2] = last /\ first \in Int /\ last \in Int
      <4>1. first \in Space /\ last \in Space
        BY <2>3
      <4> HIDE DEF first, last
      <4>2. first \in Int /\ last \in Int
        BY <4>1, SpaceFinite
      <4>3. QED  BY <4>2 DEF Pairs
    <3>3. Allowed(q, declared) <=> first <= last /\ first .. last \subseteq W
      BY <2>3 DEF Allowed, W
    <3> HIDE DEF i, first, last, selected, asked
    <3>4. ToSet(selected) = {i}
      BY <3>1 DEF ToSet
    <3>5. ContainedIn(within, i[1], i[2]) <=> first <= last /\ first .. last \subseteq W
      BY <1>4, <3>2, Containment
    <3>6. refused <=> ~ContainedIn(within, i[1], i[2])
      BY <2>3, <3>4
    <3>7. first <= last => selected \in Plans /\ Canonical(selected) /\ Covered(selected) = asked
      BY <3>1, <3>2, One
    <3>8. QED  BY <3>3, <3>5, <3>6, <3>7
  <2>4. QED  BY <1>1, <2>1, <2>2, <2>3
<1> HIDE DEF refused, selected, asked, plan
<1>8. Wanted(q, declared, known) =
        CASE q.mode = "full" -> asked
          [] q.mode = "known-only" -> asked \cap known
          [] q.mode = "discovery-only" -> asked \ known
  BY DEF Wanted, asked
<1>9. ASSUME ~refused
      PROVE  /\ intervals \in Plans /\ Canonical(intervals)
             /\ Covered(intervals) = Wanted(q, declared, known)
  <2>1. selected \in Plans /\ Canonical(selected) /\ Covered(selected) = asked
    BY <1>7, <1>9
  <2>2. hit = known \cap asked /\ hit \in SUBSET Int /\ IsFiniteSet(hit)
    <3>1. \A a \in known : a \in Int /\ a <= a /\ a .. a = {a}
      BY SpaceFinite
    <3>2. \A a \in known : ContainedIn(selected, a, a) <=> a \in asked
      BY <2>1, <3>1, Containment
    <3>3. IsFiniteSet(known)
      BY SpaceFinite, FS_Subset
    <3>4. hit = known \cap asked /\ hit \in SUBSET Int /\ hit \in SUBSET known
      BY <3>1, <3>2
    <3> HIDE DEF hit
    <3>5. QED  BY <3>3, <3>4, FS_Subset
  <2> HIDE DEF hit
  <2>3. CASE q.mode = "full"
    BY <1>8, <2>1, <2>3
  <2>4. CASE q.mode = "known-only"
    <3>1. intervals = MergeIntervals(Singles(hit))
      BY <2>4 DEF Singles
    <3> HIDE DEF intervals
    <3>2. Singles(hit) \in SUBSET Pairs /\ Valid(Singles(hit)) /\ Union(Singles(hit)) = hit
      BY <2>2, SingleCover
    <3>3. IsFiniteSet(Singles(hit))
      BY <2>2, SinglesFinite
    <3>4. intervals \in Plans /\ Canonical(intervals) /\ Covered(intervals) = hit
      BY <3>1, <3>2, <3>3, Merging
    <3>5. Wanted(q, declared, known) = hit
      BY <1>8, <2>2, <2>4
    <3>6. QED  BY <3>4, <3>5
  <2>5. CASE q.mode = "discovery-only"
    <3>1. intervals = FlattenSeq([n \in DOMAIN selected |-> Gaps(selected[n], hit)])
      BY <2>5
    <3> HIDE DEF intervals
    <3>2. intervals \in Plans /\ Canonical(intervals) /\ Covered(intervals) = asked \ hit
      BY <2>1, <3>1, GapsOfPlan
    <3>3. Wanted(q, declared, known) = asked \ hit
      BY <1>8, <2>2, <2>5
    <3>4. QED  BY <3>2, <3>3
  <2>6. QED  BY <1>1, <2>3, <2>4, <2>5
<1> HIDE DEF intervals
<1>10. QED  BY <1>3, <1>7, <1>9 DEF Exact, plan

-----------------------------------------------------------------------------
(* The inductive invariant: what a run has planned, and what the rows hold *)

Row == [job : Nat, intervals : Plans]

RunInv ==
  \/ run = NoRun
  \/ /\ run.request \in Requests /\ run.inventory \in Inventories /\ run # NoRun
     /\ run.runs = Accepted(run.plan, run.approved)
     /\ Exact(run.plan, run.request, run.inventory.declared, run.inventory.known)
     /\ job < MaxJobs

RowInv ==
  /\ \A row \in rows : /\ row \in Row /\ row.job \in 1 .. job
                       /\ row.intervals # <<>> /\ Canonical(row.intervals)
  /\ \A r, s \in rows : r # s => Covered(r.intervals) \cap Covered(s.intervals) = {}

IInv == inventory \in Inventories /\ job \in Nat /\ RunInv /\ RowInv

LEMMA InventoryType ==
  ASSUME NEW i \in Inventories
  PROVE  i.declared \in SUBSET Networks /\ i.known \in SUBSET Space
<1>1. i \in [declared : SUBSET Networks, known : SUBSET Space]
  BY CoverageAssumption
<1>2. QED  BY <1>1

\* What is saved with a plan: every old row without its addresses, and a row
\* of the job with them.
LEMMA Cutting ==
  ASSUME RowInv, job \in Nat, NEW intervals \in Plans, Canonical(intervals),
         NEW row \in rows, NEW cut, cut = [row EXCEPT !.intervals = Remaining(@, intervals)]
  PROVE  /\ cut \in Row /\ cut.job = row.job /\ Canonical(cut.intervals)
         /\ Covered(cut.intervals) = Covered(row.intervals) \ Covered(intervals)
<1>1. row \in Row /\ Canonical(row.intervals) /\ row.intervals \in Plans
  BY DEF RowInv, Row
<1> DEFINE rest == Remaining(row.intervals, intervals)
<1>2. /\ rest \in Plans /\ Canonical(rest)
      /\ Covered(rest) = Covered(row.intervals) \ Covered(intervals)
  BY <1>1, Remainders
<1> HIDE DEF rest
<1>3. cut = [row EXCEPT !.intervals = rest]
  BY DEF rest
<1>4. cut \in Row /\ cut.job = row.job /\ cut.intervals = rest
  BY <1>1, <1>2, <1>3 DEF Row
<1>5. QED  BY <1>2, <1>4

LEMMA Saving ==
  ASSUME RowInv, job \in Nat, job' = job + 1, NEW intervals \in Plans, Canonical(intervals),
         SaveDiscoveryCoverage(intervals)
  PROVE  /\ RowInv'
         /\ \A row \in rows' :
              \/ row.job = job + 1 /\ row.intervals = intervals
              \/ \E old \in rows : /\ row.job = old.job
                                   /\ Covered(row.intervals) = Covered(old.intervals) \ Covered(intervals)
         /\ intervals # <<>> => [job |-> job + 1, intervals |-> intervals] \in rows'
         /\ \A old \in rows : Covered(old.intervals) \ Covered(intervals) # {} =>
              \E row \in rows' : /\ row.job = old.job
                                 /\ Covered(row.intervals) = Covered(old.intervals) \ Covered(intervals)
<1> DEFINE new == [job |-> job + 1, intervals |-> intervals]
           Left(row) == [row EXCEPT !.intervals = Remaining(@, intervals)]
           cuts == {row \in {Left(r) : r \in rows} : row.intervals # <<>>}
           News == IF intervals = <<>> THEN {} ELSE {new}
<1>1. rows' = cuts \cup News
  BY DEF SaveDiscoveryCoverage
<1>2. \A row \in rows : /\ Left(row) \in Row /\ Left(row).job = row.job /\ Canonical(Left(row).intervals)
                        /\ Covered(Left(row).intervals) = Covered(row.intervals) \ Covered(intervals)
  <2>1. ASSUME NEW row \in rows
        PROVE  /\ Left(row) \in Row /\ Left(row).job = row.job /\ Canonical(Left(row).intervals)
               /\ Covered(Left(row).intervals) = Covered(row.intervals) \ Covered(intervals)
    <3> DEFINE c == Left(row)
    <3>1. c = [row EXCEPT !.intervals = Remaining(@, intervals)]
      OBVIOUS
    <3> HIDE DEF c
    <3>2. /\ c \in Row /\ c.job = row.job /\ Canonical(c.intervals)
          /\ Covered(c.intervals) = Covered(row.intervals) \ Covered(intervals)
      BY <3>1, Cutting
    <3>3. QED  BY <3>2 DEF c
  <2>2. QED  BY <2>1
<1> HIDE DEF Left
<1>3. new \in Row /\ new.job = job + 1 /\ new.intervals = intervals
  BY DEF Row
<1> HIDE DEF new
<1>4. \A row \in rows' : (row = new /\ intervals # <<>>) \/ \E old \in rows : row = Left(old) /\ row.intervals # <<>>
  BY <1>1
<1>5. ASSUME NEW row \in rows'
      PROVE  /\ row \in Row /\ row.job \in 1 .. job' /\ row.intervals # <<>> /\ Canonical(row.intervals)
  <2>1. CASE row = new /\ intervals # <<>>
    BY <1>3, <2>1
  <2>2. CASE \E old \in rows : row = Left(old) /\ row.intervals # <<>>
    <3>1. PICK old \in rows : row = Left(old) /\ row.intervals # <<>>
      BY <2>2
    <3>2. old.job \in 1 .. job
      BY DEF RowInv
    <3>3. old.job \in 1 .. job + 1
      BY <3>2
    <3>4. QED  BY <1>2, <3>1, <3>3
  <2>3. QED  BY <1>4, <2>1, <2>2
<1>6. ASSUME NEW r \in rows', NEW s \in rows', r # s
      PROVE  Covered(r.intervals) \cap Covered(s.intervals) = {}
  <2>1. CASE r = new \/ s = new
    <3>1. ASSUME NEW old \in rows PROVE Covered(new.intervals) \cap Covered(Left(old).intervals) = {}
      BY <1>2, <1>3
    <3>2. QED  BY <1>4, <1>6, <2>1, <3>1
  <2>2. CASE r # new /\ s # new
    <3>1. PICK p \in rows : r = Left(p)
      BY <1>4, <2>2
    <3>2. PICK q \in rows : s = Left(q)
      BY <1>4, <2>2
    <3>3. Covered(p.intervals) \cap Covered(q.intervals) = {}
      BY <1>6, <3>1, <3>2 DEF RowInv
    <3>4. QED  BY <1>2, <3>1, <3>2, <3>3
  <2>3. QED  BY <2>1, <2>2
<1>7. RowInv'
  BY <1>5, <1>6 DEF RowInv
<1>8. \A row \in rows' :
        \/ row.job = job + 1 /\ row.intervals = intervals
        \/ \E old \in rows : /\ row.job = old.job
                             /\ Covered(row.intervals) = Covered(old.intervals) \ Covered(intervals)
  <2> HIDE DEF cuts, News
  <2> QED  BY <1>2, <1>3, <1>4
<1>9. intervals # <<>> => new \in rows'
  BY <1>1
<1>10. ASSUME NEW old \in rows, Covered(old.intervals) \ Covered(intervals) # {}
       PROVE  \E row \in rows' : /\ row.job = old.job
                                 /\ Covered(row.intervals) = Covered(old.intervals) \ Covered(intervals)
  <2>1. Left(old).job = old.job /\ Covered(Left(old).intervals) = Covered(old.intervals) \ Covered(intervals)
    BY <1>2
  <2>2. Left(old).intervals # <<>>
    <3>1. Covered(<<>>) = {}
      BY Nothing DEF EmptyPlan
    <3>2. QED  BY <1>10, <2>1, <3>1
  <2>3. Left(old) \in rows'
    BY <1>1, <2>2
  <2> HIDE DEF cuts, News
  <2>4. QED  BY <2>1, <2>3
<1>11. QED
  <2> HIDE DEF cuts, News
  <2> QED  BY <1>7, <1>8, <1>9, <1>10 DEF new

\* Whatever is requested, edited, completed or abandoned, a run holds an exact
\* plan of its own request and inventory, and the rows are canonical, disjoint
\* and of completed jobs (start_request, save_discovery_coverage).
THEOREM Invariant == Spec => []IInv
<1>1. Init => IInv
  <2> SUFFICES ASSUME Init PROVE IInv
    OBVIOUS
  <2>1. inventory \in Inventories /\ run = NoRun /\ rows = {} /\ job = 0
    BY DEF Init
  <2>2. QED  BY <2>1 DEF IInv, RunInv, RowInv
<1>2. IInv /\ [Next]_vars => IInv'
  <2> SUFFICES ASSUME IInv, [Next]_vars PROVE IInv'
    OBVIOUS
  <2>0. inventory \in Inventories /\ job \in Nat /\ RunInv /\ RowInv /\ MaxJobs \in Nat
    BY CoverageAssumption DEF IInv
  <2>1. ASSUME Edit PROVE IInv'
    <3>1. inventory' \in Inventories /\ run' = run /\ rows' = rows /\ job' = job
      BY <2>1 DEF Edit
    <3>2. QED  BY <2>0, <3>1 DEF IInv, RunInv, RowInv
  <2>2. ASSUME NEW q \in Requests, NEW approved \in BOOLEAN, Start(q, approved) PROVE IInv'
    <3> DEFINE plan == PlanTargets(q, inventory.declared, inventory.known)
    <3>1. /\ job < MaxJobs /\ inventory' = inventory /\ rows' = rows /\ job' = job
          /\ run' = [request |-> q, approved |-> approved, inventory |-> inventory,
                     plan |-> plan, runs |-> Accepted(plan, approved)]
      BY <2>2 DEF Start
    <3>2. Exact(plan, q, inventory.declared, inventory.known)
      <4>1. inventory.declared \in SUBSET Networks /\ inventory.known \in SUBSET Space
        BY <2>0, InventoryType
      <4>2. QED  BY <4>1, Planning
    <3> HIDE DEF plan
    <3>3. /\ run'.request = q /\ run'.inventory = inventory /\ run'.plan = plan
          /\ run'.runs = Accepted(plan, approved) /\ run'.approved = approved
      BY <3>1
    <3>4. run' # NoRun
      BY <3>1 DEF NoRun
    <3>5. RunInv'
      BY <2>0, <3>1, <3>2, <3>3, <3>4 DEF RunInv
    <3>6. RowInv'
      BY <2>0, <3>1 DEF RowInv
    <3>7. QED  BY <2>0, <3>1, <3>5, <3>6 DEF IInv
  <2>3. ASSUME Complete PROVE IInv'
    <3>1. /\ run.runs /\ job' = job + 1 /\ run' = NoRun /\ inventory' = inventory
          /\ IF run.request.mode # "known-only"
             THEN SaveDiscoveryCoverage(run.plan.intervals) ELSE rows' = rows
      BY <2>3 DEF Complete
    <3>2. run.plan.intervals \in Plans /\ Canonical(run.plan.intervals)
      <4>1. run # NoRun
        <5>1. NoRun.runs = FALSE
          BY DEF NoRun
        <5>2. QED  BY <3>1, <5>1
      <4>2. /\ run.runs = Accepted(run.plan, run.approved)
            /\ Exact(run.plan, run.request, run.inventory.declared, run.inventory.known)
        BY <2>0, <4>1 DEF RunInv
      <4>3. run.plan # Rejected
        BY <3>1, <4>2 DEF Accepted
      <4>4. QED  BY <4>2, <4>3 DEF Exact
    <3>3. RowInv'
      <4>1. CASE run.request.mode # "known-only"
        BY <2>0, <3>1, <3>2, <4>1, Saving
      <4>2. CASE run.request.mode = "known-only"
        <5>1. rows' = rows
          BY <3>1, <4>2
        <5>2. \A row \in rows : row.job \in 1 .. job => row.job \in 1 .. job + 1
          BY <2>0
        <5>3. QED  BY <2>0, <3>1, <5>1, <5>2 DEF RowInv
      <4>3. QED  BY <4>1, <4>2
    <3>4. QED  BY <2>0, <3>1, <3>3 DEF IInv, RunInv
  <2>4. ASSUME Abandon PROVE IInv'
    <3>1. run' = NoRun /\ inventory' = inventory /\ rows' = rows /\ job' = job
      BY <2>4 DEF Abandon
    <3>2. QED  BY <2>0, <3>1 DEF IInv, RunInv, RowInv
  <2>5. CASE UNCHANGED vars
    BY <2>0, <2>5 DEF vars, IInv, RunInv, RowInv
  <2>6. QED  BY <2>1, <2>2, <2>3, <2>4, <2>5 DEF Next
<1>3. QED  BY <1>1, <1>2, PTL DEF Spec

\* A request is refused exactly when it reaches outside the declared networks, or
\* asks by hand for more than may be scanned unconfirmed; an accepted one visits each address it asks for once, and counts them right,
\* for any number of bits and whatever is declared and known (plan_targets).
THEOREM Plans_Exact == Spec => []PlansAreExact
<1>1. IInv => PlansAreExact
  <2> SUFFICES ASSUME IInv, run # NoRun
               PROVE  LET declared == run.inventory.declared
                          wanted   == Wanted(run.request, declared, run.inventory.known) IN
                      /\ run.runs <=> /\ Allowed(run.request, declared)
                                      /\ run.approved \/ Cardinality(wanted) <= Threshold
                      /\ run.runs => /\ Covered(run.plan.intervals) = wanted
                                     /\ Total(run.plan.intervals) = Cardinality(wanted)
    BY DEF PlansAreExact
  <2> DEFINE plan == run.plan
             allowed == Allowed(run.request, run.inventory.declared)
             wanted == Wanted(run.request, run.inventory.declared, run.inventory.known)
  <2>1. /\ run.runs = Accepted(plan, run.approved)
        /\ Exact(plan, run.request, run.inventory.declared, run.inventory.known)
    BY DEF IInv, RunInv
  <2>2. /\ plan # Rejected <=> allowed
        /\ plan # Rejected => Covered(plan.intervals) = wanted
    BY <2>1 DEF Exact
  <2>3. plan # Rejected => Total(plan.intervals) = Cardinality(wanted)
    <3>1. ASSUME plan # Rejected PROVE Total(plan.intervals) = Cardinality(Covered(plan.intervals))
      BY <2>1, <3>1, Counting DEF Exact
    <3>2. QED  BY <2>2, <3>1
  <2> HIDE DEF plan, allowed, wanted
  <2>4. run.runs <=> allowed /\ (run.approved \/ Cardinality(wanted) <= Threshold)
    BY <2>1, <2>2, <2>3 DEF Accepted
  <2>5. run.runs => plan # Rejected
    BY <2>1 DEF Accepted
  <2>6. QED  BY <2>2, <2>3, <2>4, <2>5 DEF plan, allowed, wanted
<1>2. QED  BY <1>1, Invariant, PTL

\* Every stored row is in canonical form, none is empty, and no address is in
\* two of them, after any number of scans (save_discovery_coverage).
THEOREM Rows_Canonical == Spec => []RowsAreCanonical
<1>1. IInv => RowsAreCanonical
  BY DEF IInv, RowInv, RowsAreCanonical
<1>2. QED  BY <1>1, Invariant, PTL

-----------------------------------------------------------------------------
(* The rows implement the marks *)

\* The instance speaks of the same addresses and requests.
LEMMA Names ==
  /\ Latest!Space = Space /\ Latest!Requests = Requests
  /\ \A q, d : Latest!Allowed(q, d) = Allowed(q, d)
  /\ \A q, d, k : Latest!Wanted(q, d, k) = Wanted(q, d, k)
<1>1. Latest!PrefixLengths = PrefixLengths
  BY DEF Latest!PrefixLengths, PrefixLengths
<1>2. Latest!Size = Size
  BY DEF Latest!Size, Size, Latest!PrefixLengths, PrefixLengths
<1>3. Latest!Space = Space
  BY <1>2 DEF Latest!Space, Space
<1>4. Latest!Networks = Networks
  BY <1>1, <1>2, <1>3 DEF Latest!Networks, Networks, Latest!Network, Network
<1>5. Latest!Requests = Requests
  BY <1>3, <1>4 DEF Latest!Requests, Requests
<1>6. \A net : Latest!Whole(net) = Whole(net) /\ Latest!Hosts(net) = Hosts(net)
  BY <1>2 DEF Latest!Whole, Whole, Latest!Hosts, Hosts
<1>7. \A q, d : Latest!Allowed(q, d) = Allowed(q, d)
  BY <1>6 DEF Latest!Allowed, Allowed
<1>8. \A t, m, d : Latest!Asked(t, m, d) = Asked(t, m, d)
  BY <1>6 DEF Latest!Asked, Asked
<1>9. \A q, d, k : Latest!Wanted(q, d, k) = Wanted(q, d, k)
  BY <1>8 DEF Latest!Wanted, Wanted
<1>10. QED  BY <1>3, <1>5, <1>7, <1>9

Disjoint(R) == \A r, s \in R : r # s => Covered(r.intervals) \cap Covered(s.intervals) = {}
CoveringIn(R, a) == {row \in R : a \in Covered(row.intervals)}
MarkIn(R, a) == IF CoveringIn(R, a) = {} THEN 0 ELSE (CHOOSE row \in CoveringIn(R, a) : TRUE).job

\* An address is marked by the one row that covers it.
LEMMA MarkIs ==
  ASSUME NEW R, Disjoint(R), NEW a
  PROVE  /\ CoveringIn(R, a) = {} => MarkIn(R, a) = 0
         /\ \A row \in R : a \in Covered(row.intervals) => MarkIn(R, a) = row.job
<1>1. ASSUME NEW row \in R, a \in Covered(row.intervals) PROVE MarkIn(R, a) = row.job
  <2> DEFINE C == CoveringIn(R, a)
             r == CHOOSE r \in C : TRUE
  <2>1. row \in C
    BY <1>1 DEF CoveringIn
  <2>2. r \in C
    BY <2>1
  <2>3. r = row
    <3> HIDE DEF r
    <3>1. r \in R /\ a \in Covered(r.intervals)
      BY <2>2 DEF CoveringIn
    <3>2. QED  BY <1>1, <3>1 DEF Disjoint
  <2>4. MarkIn(R, a) = IF C = {} THEN 0 ELSE r.job
    BY DEF MarkIn
  <2> HIDE DEF C, r
  <2>5. QED  BY <2>1, <2>3, <2>4
<1>2. QED  BY <1>1 DEF MarkIn

\* The rows of a completed scan implement the marks, address by address: no cut
\* loses an address, invents one, or leaves it with an older scan.
THEOREM Latest_Wins == Spec => LatestWins
<1> DEFINE asked  == IF run.runs THEN [request |-> run.request, inventory |-> run.inventory]
                     ELSE [request |-> "none"]
           latest == [a \in Space |-> IF Covering(a) = {} THEN 0
                                      ELSE (CHOOSE row \in Covering(a) : TRUE).job]
           marks(R) == [a \in Space |-> MarkIn(R, a)]
<1>0. latest = marks(rows) /\ latest' = marks(rows')
  BY DEF Covering, CoveringIn, MarkIn
<1>1. Init => Latest!Init
  <2> SUFFICES ASSUME Init PROVE Latest!Init
    OBVIOUS
  <2>1. run = NoRun /\ rows = {}
    BY DEF Init
  <2>2. asked = [request |-> "none"]
    BY <2>1 DEF NoRun
  <2>3. latest = [a \in Latest!Space |-> 0]
    <3>1. \A a : Covering(a) = {}
      BY <2>1 DEF Covering
    <3>2. QED  BY <3>1, Names
  <2>4. QED  BY <2>2, <2>3 DEF Latest!Init, Latest!NoScan
<1>2. IInv /\ IInv' /\ [Next]_vars => [Latest!Next]_<<asked, latest>>
  <2> SUFFICES ASSUME IInv, IInv', [Next]_vars PROVE [Latest!Next]_<<asked, latest>>
    OBVIOUS
  <2>0. /\ inventory \in Inventories /\ job \in Nat /\ MaxJobs \in Nat /\ RunInv /\ RowInv
        /\ Disjoint(rows) /\ Disjoint(rows')
    BY CoverageAssumption DEF IInv, RowInv, Disjoint
  <2>a. NoRun.runs = FALSE
    BY DEF NoRun
  <2>b. \A q, i : [request |-> q, inventory |-> i] # [request |-> "none"]
    OBVIOUS
  <2> HIDE DEF latest
  <2>1. ASSUME Edit PROVE UNCHANGED <<asked, latest>>
    BY <1>0, <2>1 DEF Edit
  <2>2. ASSUME NEW q \in Requests, NEW approved \in BOOLEAN, Start(q, approved)
        PROVE [Latest!Next]_<<asked, latest>>
    <3> DEFINE plan == PlanTargets(q, inventory.declared, inventory.known)
    <3>1. /\ run = NoRun /\ rows' = rows
          /\ run' = [request |-> q, approved |-> approved, inventory |-> inventory,
                     plan |-> plan, runs |-> Accepted(plan, approved)]
      BY <2>2 DEF Start
    <3>2. Exact(plan, q, inventory.declared, inventory.known)
      <4>1. inventory.declared \in SUBSET Networks /\ inventory.known \in SUBSET Space
        BY <2>0, InventoryType
      <4>2. QED  BY <4>1, Planning
    <3> HIDE DEF plan
    <3>3. asked = [request |-> "none"] /\ latest' = latest
      BY <1>0, <2>a, <3>1
    <3>4. CASE ~Accepted(plan, approved)
      <4>1. asked' = [request |-> "none"]
        BY <3>1, <3>4
      <4>2. QED  BY <3>3, <4>1
    <3>5. CASE Accepted(plan, approved)
      <4>1. asked' = [request |-> q, inventory |-> inventory]
        BY <3>1, <3>5
      <4>2. Allowed(q, inventory.declared)
        BY <3>2, <3>5 DEF Exact, Accepted
      <4> HIDE DEF asked
      <4>3. /\ asked' \in [request : Latest!Requests, inventory : Inventories]
            /\ Latest!Allowed(asked'.request, asked'.inventory.declared)
        BY <2>0, <4>1, <4>2, Names
      <4>4. Latest!Ask
        BY <3>3, <4>3 DEF Latest!Ask, Latest!NoScan, asked, latest
      <4>5. QED  BY <4>4 DEF Latest!Next
    <3>6. QED  BY <3>4, <3>5
  <2>3. ASSUME Complete PROVE Latest!Next
    <3>1. /\ run.runs /\ job' = job + 1 /\ run' = NoRun
          /\ IF run.request.mode # "known-only"
             THEN SaveDiscoveryCoverage(run.plan.intervals) ELSE rows' = rows
      BY <2>3 DEF Complete
    <3>2. run # NoRun
      BY <2>a, <3>1
    <3>3. /\ run.plan # Rejected /\ job < MaxJobs
          /\ Exact(run.plan, run.request, run.inventory.declared, run.inventory.known)
      BY <2>0, <3>1, <3>2 DEF RunInv, Accepted
    <3> DEFINE intervals == run.plan.intervals
               wanted == Wanted(run.request, run.inventory.declared, run.inventory.known)
    <3>4. intervals \in Plans /\ Canonical(intervals) /\ Covered(intervals) = wanted
      BY <3>1, <3>3 DEF Exact
    <3>5. /\ asked = [request |-> run.request, inventory |-> run.inventory]
          /\ asked' = [request |-> "none"] /\ asked # [request |-> "none"]
      BY <2>a, <2>b, <3>1
    <3>6. job + 1 \in 1 .. MaxJobs
      BY <2>0, <3>3
    <3>7. ASSUME NEW a \in Space PROVE latest[a] < job + 1
      <4>1. latest[a] = MarkIn(rows, a)
        BY <1>0
      <4>2. CASE CoveringIn(rows, a) = {}
        BY <2>0, <4>1, <4>2, MarkIs
      <4>3. CASE CoveringIn(rows, a) # {}
        <5>1. PICK row \in rows : a \in Covered(row.intervals)
          BY <4>3 DEF CoveringIn
        <5>2. latest[a] = row.job /\ row.job \in 1 .. job
          BY <2>0, <4>1, <5>1, MarkIs DEF RowInv
        <5>3. QED  BY <2>0, <5>2
      <4>4. QED  BY <4>2, <4>3
    <3> HIDE DEF intervals, wanted
    <3>8. latest' = IF run.request.mode = "known-only" THEN latest
                    ELSE [a \in Space |-> IF a \in wanted THEN job + 1 ELSE latest[a]]
      <4>1. CASE run.request.mode = "known-only"
        BY <1>0, <3>1, <4>1
      <4>2. CASE run.request.mode # "known-only"
        <5>1. SaveDiscoveryCoverage(intervals)
          BY <3>1, <4>2 DEF intervals
        <5>2. /\ \A row \in rows' :
                   \/ row.job = job + 1 /\ row.intervals = intervals
                   \/ \E old \in rows : /\ row.job = old.job
                                        /\ Covered(row.intervals) = Covered(old.intervals) \ wanted
              /\ intervals # <<>> => [job |-> job + 1, intervals |-> intervals] \in rows'
              /\ \A old \in rows : Covered(old.intervals) \ wanted # {} =>
                   \E row \in rows' : /\ row.job = old.job
                                      /\ Covered(row.intervals) = Covered(old.intervals) \ wanted
          BY <2>0, <3>1, <3>4, <5>1, Saving
        <5>3. ASSUME NEW a \in Space
              PROVE  MarkIn(rows', a) = IF a \in wanted THEN job + 1 ELSE MarkIn(rows, a)
          <6>1. CASE a \in wanted
            <7> DEFINE new == [job |-> job + 1, intervals |-> intervals]
            <7>1. intervals # <<>>
              BY <3>4, <6>1, Nothing DEF EmptyPlan
            <7>2. new \in rows' /\ new.job = job + 1 /\ a \in Covered(new.intervals)
              BY <3>4, <5>2, <6>1, <7>1
            <7> HIDE DEF new
            <7>3. MarkIn(rows', a) = job + 1
              BY <2>0, <7>2, MarkIs
            <7>4. QED  BY <6>1, <7>3
          <6>2. CASE a \notin wanted /\ CoveringIn(rows, a) # {}
            <7>1. PICK old \in rows : a \in Covered(old.intervals)
              BY <6>2 DEF CoveringIn
            <7>2. PICK row \in rows' : /\ row.job = old.job
                                       /\ Covered(row.intervals) = Covered(old.intervals) \ wanted
              BY <5>2, <6>2, <7>1
            <7>3. MarkIn(rows, a) = old.job
              BY <2>0, <7>1, MarkIs
            <7>4. MarkIn(rows', a) = row.job
              BY <2>0, <6>2, <7>1, <7>2, MarkIs
            <7>5. QED  BY <6>2, <7>2, <7>3, <7>4
          <6>3. CASE a \notin wanted /\ CoveringIn(rows, a) = {}
            <7>1. CoveringIn(rows', a) = {}
              BY <3>4, <5>2, <6>3 DEF CoveringIn
            <7>2. MarkIn(rows', a) = 0 /\ MarkIn(rows, a) = 0
              BY <2>0, <6>3, <7>1, MarkIs
            <7>3. QED  BY <6>3, <7>2
          <6>4. QED  BY <6>1, <6>2, <6>3
        <5>4. QED  BY <1>0, <4>2, <5>3
      <4>3. QED  BY <4>1, <4>2
    <3>9. Latest!Complete
      <4>1. /\ asked # Latest!NoScan /\ asked' = Latest!NoScan
            /\ asked.request = run.request /\ asked.inventory = run.inventory
        BY <3>5 DEF Latest!NoScan
      <4>2. \A a \in Latest!Space : latest[a] < job + 1
        BY <3>7, Names
      <4>3. latest' = IF asked.request.mode = "known-only" THEN latest ELSE
              LET w == Latest!Wanted(asked.request, asked.inventory.declared, asked.inventory.known) IN
              [a \in Latest!Space |-> IF a \in w THEN job + 1 ELSE latest[a]]
        BY <3>8, <4>1, Names DEF wanted
      <4> HIDE DEF asked
      <4>4. \E j \in 1 .. MaxJobs :
              /\ \A a \in Latest!Space : latest[a] < j
              /\ latest' = IF asked.request.mode = "known-only" THEN latest ELSE
                   LET w == Latest!Wanted(asked.request, asked.inventory.declared, asked.inventory.known) IN
                   [a \in Latest!Space |-> IF a \in w THEN j ELSE latest[a]]
        BY <3>6, <4>2, <4>3
      <4>5. QED  BY <4>1, <4>4 DEF Latest!Complete, asked, latest
    <3>10. QED  BY <3>9 DEF Latest!Next
  <2>4. ASSUME Abandon PROVE [Latest!Next]_<<asked, latest>>
    <3>1. run' = NoRun /\ rows' = rows
      BY <2>4 DEF Abandon
    <3>2. asked' = [request |-> "none"] /\ latest' = latest
      BY <1>0, <2>a, <3>1
    <3>3. CASE asked = [request |-> "none"]
      BY <3>2, <3>3
    <3>4. CASE asked # [request |-> "none"]
      <4> HIDE DEF asked
      <4>1. Latest!Abandon
        BY <3>2, <3>4 DEF Latest!Abandon, Latest!NoScan, asked, latest
      <4>2. QED  BY <4>1 DEF Latest!Next
    <3>5. QED  BY <3>3, <3>4
  <2>5. CASE UNCHANGED vars
    BY <1>0, <2>5 DEF vars
  <2>6. QED  BY <2>1, <2>2, <2>3, <2>4, <2>5 DEF Next
<1>3. QED
  BY <1>1, <1>2, Invariant, PTL DEF Spec, LatestWins, Latest!Spec

=============================================================================
