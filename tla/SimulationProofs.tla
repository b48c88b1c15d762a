-------------------------- MODULE SimulationProofs --------------------------
(***************************************************************************)
(* What the shadow ledger is worth, for any number of calls, users, orders *)
(* and seedings: it balances, and unless one of the mishaps of Simulation  *)
(* happened it is right.                                                   *)
(***************************************************************************)
EXTENDS Drift, WellFoundedInduction, FiniteSetTheorems, TLAPS

(* Induction over sets of numbers.                                         *)
Below == {pair \in Nat \X Nat : pair[1] < pair[2]}

(* The order of the natural numbers has no infinite descent.               *)
LEMMA BelowWellFounded == IsWellFoundedOn(Below, Nat)
  BY NatLessThanWellFounded DEF OpToRel, Below

(* Induction over Nat, for a set instead of a predicate.                   *)
LEMMA SetInduction ==
  ASSUME NEW T \in SUBSET Nat, 0 \in T, \A n \in T : n + 1 \in T
  PROVE  T = Nat
<1>1. SUFFICES ASSUME Nat \ T # {} PROVE FALSE
  OBVIOUS
<1>2. PICK x \in Nat \ T : \A y \in Nat \ T : ~ (<<y, x>> \in Below)
  BY <1>1, BelowWellFounded, WFMin
<1>3. x # 0 /\ x - 1 \in Nat
  BY <1>2
<1>4. x - 1 \in T
  <2>1. SUFFICES ASSUME x - 1 \in Nat \ T PROVE FALSE
    BY <1>3
  <2>2. <<x - 1, x>> \in Below
    BY <1>3 DEF Below
  <2> QED
    BY <1>2, <2>1, <2>2
<1> QED
  BY <1>2, <1>3, <1>4

-----------------------------------------------------------------------------
(***************************************************************************)
(* Sums over a finite set.  Partial(f, S, g): g gives the sum of f over    *)
(* each subset of S, whichever element is taken first.                     *)
(***************************************************************************)
Folded(f, g) ==
  g = [T \in DOMAIN g |->
         IF T = {} THEN 0
         ELSE LET x == CHOOSE x \in T : TRUE IN f[x] + g[T \ {x}]]

Partial(f, S, g) ==
  /\ g \in [SUBSET S -> Int]
  /\ g[{}] = 0
  /\ \A T \in SUBSET S : \A x \in T : g[T] = f[x] + g[T \ {x}]

UpTo(S, n) == {T \in SUBSET S : Cardinality(T) <= n}

(* The recursion of the fold has a solution.                               *)
LEMMA FoldExists ==
  ASSUME NEW S, IsFiniteSet(S), NEW f \in [S -> Int]
  PROVE  \E g \in [SUBSET S -> Int] : Folded(f, g)
<1> DEFINE N == {n \in Nat : \E g \in [UpTo(S, n) -> Int] : Folded(f, g)}
<1>1. \A T \in SUBSET S : IsFiniteSet(T) /\ Cardinality(T) \in Nat
  BY FS_Subset, FS_CardinalityType
<1>2. 0 \in N
  <2> DEFINE g == [T \in UpTo(S, 0) |-> 0]
  <2>1. \A T \in UpTo(S, 0) : T = {}
    BY <1>1, FS_EmptySet DEF UpTo
  <2>2. g \in [UpTo(S, 0) -> Int] /\ Folded(f, g)
    BY <2>1 DEF Folded
  <2> QED
    BY <2>2
<1>3. ASSUME NEW n \in N PROVE n + 1 \in N
  <2>1. PICK g \in [UpTo(S, n) -> Int] : Folded(f, g)
    OBVIOUS
  <2> DEFINE First(T) == CHOOSE x \in T : TRUE
             h == [T \in UpTo(S, n + 1) |->
                     IF T = {} THEN 0 ELSE f[First(T)] + g[T \ {First(T)}]]
  <2>2. \A T \in UpTo(S, n + 1) \ {{}} : First(T) \in T /\ First(T) \in S
    BY DEF UpTo
  <2>3. \A T \in UpTo(S, n + 1) \ {{}} : T \ {First(T)} \in UpTo(S, n)
    <3> SUFFICES ASSUME NEW T \in UpTo(S, n + 1) \ {{}} PROVE T \ {First(T)} \in UpTo(S, n)
      OBVIOUS
    <3>1. Cardinality(T \ {First(T)}) = Cardinality(T) - 1
      BY <1>1, <2>2, FS_RemoveElement DEF UpTo
    <3> QED
      BY <1>1, <3>1 DEF UpTo
  <2>4. h \in [UpTo(S, n + 1) -> Int]
    BY <2>2, <2>3
  <2>5. \A T \in UpTo(S, n) : T \in UpTo(S, n + 1) /\ h[T] = g[T]
    <3> SUFFICES ASSUME NEW T \in UpTo(S, n) PROVE T \in UpTo(S, n + 1) /\ h[T] = g[T]
      OBVIOUS
    <3>1. T \in UpTo(S, n + 1)
      BY <1>1 DEF UpTo
    <3>2. g[T] = IF T = {} THEN 0 ELSE f[First(T)] + g[T \ {First(T)}]
      BY <2>1 DEF Folded
    <3> QED
      BY <3>1, <3>2
  <2>6. \A T \in UpTo(S, n + 1) :
          h[T] = IF T = {} THEN 0 ELSE f[First(T)] + h[T \ {First(T)}]
    <3> SUFFICES ASSUME NEW T \in UpTo(S, n + 1)
                 PROVE  h[T] = IF T = {} THEN 0 ELSE f[First(T)] + h[T \ {First(T)}]
      OBVIOUS
    <3>1. h[T] = IF T = {} THEN 0 ELSE f[First(T)] + g[T \ {First(T)}]
      OBVIOUS
    <3> HIDE DEF h, First
    <3> QED
      BY <2>3, <2>5, <3>1
  <2> HIDE DEF h
  <2>7. Folded(f, h)
    BY <2>4, <2>6 DEF Folded
  <2>8. \E t \in [UpTo(S, n + 1) -> Int] : Folded(f, t)
    BY <2>4, <2>7
  <2> QED
    BY <2>8
<1>4. N = Nat
  <2>1. N \in SUBSET Nat
    OBVIOUS
  <2> HIDE DEF N
  <2> QED
    BY <1>2, <1>3, <2>1, SetInduction
<1>5. Cardinality(S) \in N /\ UpTo(S, Cardinality(S)) = SUBSET S
  BY <1>1, <1>4, FS_Subset DEF UpTo
<1> QED
  BY <1>5

(* It takes the elements in some order; any other comes to the same.       *)
LEMMA FoldInAnyOrder ==
  ASSUME NEW S, IsFiniteSet(S), NEW f \in [S -> Int],
         NEW g \in [SUBSET S -> Int], Folded(f, g)
  PROVE  Partial(f, S, g)
<1> DEFINE First(T) == CHOOSE x \in T : TRUE
           Any(T) == \A x \in T : g[T] = f[x] + g[T \ {x}]
           N == {n \in Nat : \A T \in SUBSET S : Cardinality(T) = n => Any(T)}
<1>1. \A T \in SUBSET S : IsFiniteSet(T) /\ Cardinality(T) \in Nat
  BY FS_Subset, FS_CardinalityType
<1>2. \A T \in SUBSET S : g[T] = IF T = {} THEN 0 ELSE f[First(T)] + g[T \ {First(T)}]
  BY DEF Folded
<1>3. 0 \in N
  BY <1>1, FS_EmptySet
<1>4. ASSUME NEW n \in N PROVE n + 1 \in N
  <2>1. SUFFICES ASSUME NEW T \in SUBSET S, Cardinality(T) = n + 1, NEW x \in T
                 PROVE  g[T] = f[x] + g[T \ {x}]
    OBVIOUS
  <2>2. PICK c \in T : g[T] = f[c] + g[T \ {c}]
    <3>1. First(T) \in T
      OBVIOUS
    <3> QED
      BY <1>2, <3>1
  <2>3. CASE x = c
    BY <2>2, <2>3
  <2>4. CASE x # c
    <3>1. /\ T \ {c} \in SUBSET S /\ x \in T \ {c}
          /\ T \ {x} \in SUBSET S /\ c \in T \ {x}
          /\ (T \ {c}) \ {x} = (T \ {x}) \ {c} /\ (T \ {c}) \ {x} \in SUBSET S
      BY <2>4
    <3>2. Cardinality(T \ {c}) = n /\ Cardinality(T \ {x}) = n
      <4>1. c \in T /\ x \in T /\ IsFiniteSet(T)
        BY <1>1
      <4>2. Cardinality(T \ {c}) = Cardinality(T) - 1 /\ Cardinality(T \ {x}) = Cardinality(T) - 1
        BY <4>1, FS_RemoveElement
      <4> QED
        BY <2>1, <4>2
    <3>3. Any(T \ {c}) /\ Any(T \ {x})
      BY <3>1, <3>2
    <3>4. /\ g[T \ {c}] = f[x] + g[(T \ {c}) \ {x}]
          /\ g[T \ {x}] = f[c] + g[(T \ {x}) \ {c}]
      BY <3>1, <3>3
    <3>5. f[x] \in Int /\ f[c] \in Int /\ g[(T \ {c}) \ {x}] \in Int
      BY <3>1
    <3>6. g[T] = f[c] + (f[x] + g[(T \ {c}) \ {x}])
      BY <2>2, <3>4
    <3>7. f[x] + g[T \ {x}] = f[x] + (f[c] + g[(T \ {c}) \ {x}])
      BY <3>1, <3>4
    <3> QED
      BY <3>5, <3>6, <3>7
  <2> QED
    BY <2>3, <2>4
<1>5. N = Nat
  <2>1. N \in SUBSET Nat
    OBVIOUS
  <2> HIDE DEF N
  <2> QED
    BY <1>3, <1>4, <2>1, SetInduction
<1>6. \A T \in SUBSET S : Any(T)
  <2> SUFFICES ASSUME NEW T \in SUBSET S PROVE Any(T)
    OBVIOUS
  <2>1. Cardinality(T) \in N
    BY <1>1, <1>5
  <2> QED
    BY <2>1
<1> QED
  BY <1>2, <1>6 DEF Partial

LEMMA SumIs ==
  ASSUME NEW S, IsFiniteSet(S), NEW f \in [S -> Int]
  PROVE  \E g : Partial(f, S, g) /\ SumFunction(f) = g[S]
<1> DEFINE Fold(g) ==
             g = [T \in SUBSET S |->
                    IF T = {} THEN 0 ELSE LET x == CHOOSE x \in T : TRUE IN f[x] + g[T \ {x}]]
           sum == CHOOSE g : Fold(g)
<1>1. \E g : Fold(g)
  <2>1. PICK g \in [SUBSET S -> Int] : Folded(f, g)
    BY FoldExists
  <2>2. DOMAIN g = SUBSET S
    OBVIOUS
  <2>3. Fold(g)
    BY <2>1, <2>2 DEF Folded
  <2> HIDE DEF Fold
  <2> QED
    BY <2>3
<1>2. Fold(sum)
  BY <1>1
<1>3. sum \in [SUBSET S -> Int] /\ Folded(f, sum)
  <2>1. PICK g \in [SUBSET S -> Int] : Folded(f, g)
    BY FoldExists
  <2>2. Partial(f, S, g)
    BY <2>1, FoldInAnyOrder
  <2> DEFINE N == {n \in Nat : \A T \in SUBSET S : Cardinality(T) = n => sum[T] = g[T]}
  <2>3. \A T \in SUBSET S : IsFiniteSet(T) /\ Cardinality(T) \in Nat
    BY FS_Subset, FS_CardinalityType
  <2> HIDE DEF sum
  <2>4. 0 \in N
    BY <1>2, <2>2, <2>3, FS_EmptySet DEF Partial
  <2>5. ASSUME NEW n \in N PROVE n + 1 \in N
    <3>1. SUFFICES ASSUME NEW T \in SUBSET S, Cardinality(T) = n + 1 PROVE sum[T] = g[T]
      OBVIOUS
    <3> DEFINE x == CHOOSE x \in T : TRUE
    <3>2. T # {} /\ x \in T
      <4>1. T # {}
        BY <2>3, <3>1, FS_EmptySet
      <4> QED
        BY <4>1
    <3>3. Cardinality(T \ {x}) = n
      <4>1. Cardinality(T \ {x}) = Cardinality(T) - 1
        BY <2>3, <3>2, FS_RemoveElement
      <4> QED
        BY <3>1, <4>1
    <3>4. sum[T] = f[x] + sum[T \ {x}]
      BY <1>2, <3>2
    <3> HIDE DEF x
    <3> QED
      BY <2>2, <3>2, <3>3, <3>4 DEF Partial
  <2>6. N = Nat
    <3>1. N \in SUBSET Nat
      OBVIOUS
    <3> HIDE DEF N
    <3> QED
      BY <2>4, <2>5, <3>1, SetInduction
  <2>7. \A T \in SUBSET S : sum[T] = g[T]
    <3> SUFFICES ASSUME NEW T \in SUBSET S PROVE sum[T] = g[T]
      OBVIOUS
    <3>1. Cardinality(T) \in N
      BY <2>3, <2>6
    <3> QED
      BY <3>1
  <2>8. sum = g
    BY <1>2, <2>7
  <2> QED
    BY <2>1, <2>8
<1>4. SumFunction(f) = sum[S]
  BY DEF SumFunction, SumFunctionOnSet, FoldFunctionOnSet, MapThenFoldSet
<1> QED
  BY <1>3, <1>4, FoldInAnyOrder

(* What the proofs below use of a sum.                                     *)
LEMMA SumOfNone ==
  ASSUME NEW f \in [{} -> Int]
  PROVE  SumFunction(f) = 0
<1>1. IsFiniteSet({})
  BY FS_EmptySet
<1> QED
  BY <1>1, SumIs DEF Partial

LEMMA SumIsInt ==
  ASSUME NEW S, IsFiniteSet(S), NEW f \in [S -> Int]
  PROVE  SumFunction(f) \in Int
<1>1. PICK g : Partial(f, S, g) /\ SumFunction(f) = g[S]
  BY SumIs
<1> QED
  BY <1>1 DEF Partial

(* Where two functions agree, so do their sums.                            *)
LEMMA PartialsAgree ==
  ASSUME NEW S, NEW f \in [S -> Int], NEW g, Partial(f, S, g),
         NEW R, NEW e \in [R -> Int], NEW h, Partial(e, R, h),
         NEW T, IsFiniteSet(T), T \subseteq S, T \subseteq R, \A x \in T : f[x] = e[x]
  PROVE  g[T] = h[T]
<1> DEFINE N == {n \in Nat : \A U \in SUBSET T : Cardinality(U) = n => g[U] = h[U]}
<1>1. \A U \in SUBSET T : IsFiniteSet(U) /\ Cardinality(U) \in Nat
  BY FS_Subset, FS_CardinalityType
<1>2. 0 \in N
  BY <1>1, FS_EmptySet DEF Partial
<1>3. ASSUME NEW n \in N PROVE n + 1 \in N
  <2>1. SUFFICES ASSUME NEW U \in SUBSET T, Cardinality(U) = n + 1 PROVE g[U] = h[U]
    OBVIOUS
  <2>2. U # {}
    BY <1>1, <2>1, FS_EmptySet
  <2>3. PICK x \in U : TRUE
    BY <2>2
  <2>4. Cardinality(U \ {x}) = Cardinality(U) - 1
    BY <1>1, FS_RemoveElement
  <2>5. g[U \ {x}] = h[U \ {x}]
    BY <2>1, <2>4
  <2>6. U \in SUBSET S /\ U \in SUBSET R
    OBVIOUS
  <2>7. g[U] = f[x] + g[U \ {x}] /\ h[U] = e[x] + h[U \ {x}]
    BY <2>6 DEF Partial
  <2> QED
    BY <2>5, <2>7
<1>4. N = Nat
  <2>1. N \in SUBSET Nat
    OBVIOUS
  <2> HIDE DEF N
  <2> QED
    BY <1>2, <1>3, <2>1, SetInduction
<1>5. Cardinality(T) \in N
  BY <1>1, <1>4
<1> QED
  BY <1>5

(* One element more.                                                       *)
LEMMA SumWith ==
  ASSUME NEW S, IsFiniteSet(S), NEW f \in [S -> Int], NEW x \in S,
         NEW e \in [S \ {x} -> Int], \A y \in S \ {x} : e[y] = f[y]
  PROVE  SumFunction(f) = f[x] + SumFunction(e)
<1>1. IsFiniteSet(S \ {x})
  BY FS_RemoveElement
<1>2. PICK g : Partial(f, S, g) /\ SumFunction(f) = g[S]
  BY SumIs
<1>3. PICK h : Partial(e, S \ {x}, h) /\ SumFunction(e) = h[S \ {x}]
  BY <1>1, SumIs
<1>4. g[S \ {x}] = h[S \ {x}]
  BY <1>1, <1>2, <1>3, PartialsAgree
<1>5. g[S] = f[x] + g[S \ {x}]
  BY <1>2 DEF Partial
<1> QED
  BY <1>2, <1>3, <1>4, <1>5

LEMMA SumJoined ==
  ASSUME NEW S, IsFiniteSet(S), NEW f \in [S -> Int], NEW x, x \notin S,
         NEW T, T = S \cup {x}, NEW e \in [T -> Int], \A y \in S : e[y] = f[y]
  PROVE  SumFunction(e) = e[x] + SumFunction(f)
<1>1. IsFiniteSet(T) /\ x \in T /\ T \ {x} = S
  BY FS_AddElement
<1>2. f \in [T \ {x} -> Int] /\ \A y \in T \ {x} : f[y] = e[y]
  BY <1>1
<1> QED
  BY <1>1, <1>2, SumWith

LEMMA SumsJoined ==
  ASSUME NEW S, IsFiniteSet(S), NEW x, x \notin S, NEW T, T = S \cup {x}
  PROVE  \A f \in [S -> Int] : \A e \in [T -> Int] :
           (\A y \in S : e[y] = f[y]) => SumFunction(e) = e[x] + SumFunction(f)
<1> SUFFICES ASSUME NEW f \in [S -> Int], NEW e \in [T -> Int], \A y \in S : e[y] = f[y]
             PROVE  SumFunction(e) = e[x] + SumFunction(f)
  OBVIOUS
<1> QED
  BY SumJoined

(* One entry changed.                                                      *)
LEMMA SumAt ==
  ASSUME NEW S, IsFiniteSet(S), NEW f \in [S -> Int], NEW x \in S,
         NEW e \in [S -> Int], \A y \in S \ {x} : e[y] = f[y]
  PROVE  SumFunction(e) = SumFunction(f) + e[x] - f[x]
<1> DEFINE rest == [y \in S \ {x} |-> f[y]]
<1>1. rest \in [S \ {x} -> Int]
  OBVIOUS
<1>2. SumFunction(f) = f[x] + SumFunction(rest)
  BY <1>1, SumWith
<1>3. SumFunction(e) = e[x] + SumFunction(rest)
  BY <1>1, SumWith
<1>4. SumFunction(rest) \in Int /\ e[x] \in Int /\ f[x] \in Int
  BY <1>1, FS_RemoveElement, SumIsInt
<1> QED
  BY <1>2, <1>3, <1>4

(* What holds of every entry holds of the sums.                            *)
LEMMA SumsCompare ==
  ASSUME NEW S, IsFiniteSet(S), NEW f \in [S -> Int], NEW e \in [S -> Int], NEW d \in [S -> Int],
         \A x \in S : f[x] + e[x] >= d[x]
  PROVE  SumFunction(f) + SumFunction(e) >= SumFunction(d)
<1>1. PICK g : Partial(f, S, g) /\ SumFunction(f) = g[S]
  BY SumIs
<1>2. PICK h : Partial(e, S, h) /\ SumFunction(e) = h[S]
  BY SumIs
<1>3. PICK k : Partial(d, S, k) /\ SumFunction(d) = k[S]
  BY SumIs
<1> DEFINE N == {n \in Nat : \A T \in SUBSET S : Cardinality(T) = n => g[T] + h[T] >= k[T]}
<1>4. \A T \in SUBSET S : IsFiniteSet(T) /\ Cardinality(T) \in Nat
  BY FS_Subset, FS_CardinalityType
<1>5. 0 \in N
  <2>1. SUFFICES ASSUME NEW T \in SUBSET S, Cardinality(T) = 0 PROVE g[T] + h[T] >= k[T]
    OBVIOUS
  <2>2. T = {}
    BY <1>4, <2>1, FS_EmptySet
  <2> QED
    BY <1>1, <1>2, <1>3, <2>2 DEF Partial
<1>6. ASSUME NEW n \in N PROVE n + 1 \in N
  <2>1. SUFFICES ASSUME NEW T \in SUBSET S, Cardinality(T) = n + 1 PROVE g[T] + h[T] >= k[T]
    OBVIOUS
  <2>2. T # {}
    BY <1>4, <2>1, FS_EmptySet
  <2>3. PICK x \in T : TRUE
    BY <2>2
  <2>4. Cardinality(T \ {x}) = Cardinality(T) - 1
    BY <1>4, FS_RemoveElement
  <2>5. T \ {x} \in SUBSET S /\ g[T \ {x}] + h[T \ {x}] >= k[T \ {x}]
    BY <2>1, <2>4
  <2>6. /\ g[T] = f[x] + g[T \ {x}] /\ h[T] = e[x] + h[T \ {x}] /\ k[T] = d[x] + k[T \ {x}]
        /\ g[T \ {x}] \in Int /\ h[T \ {x}] \in Int /\ k[T \ {x}] \in Int
        /\ f[x] \in Int /\ e[x] \in Int /\ d[x] \in Int /\ f[x] + e[x] >= d[x]
    BY <1>1, <1>2, <1>3, <2>5 DEF Partial
  <2> QED
    BY <2>5, <2>6
<1>7. N = Nat
  <2>1. N \in SUBSET Nat
    OBVIOUS
  <2> HIDE DEF N
  <2> QED
    BY <1>5, <1>6, <2>1, SetInduction
<1>8. Cardinality(S) \in N
  BY <1>4, <1>7
<1>9. g[S] + h[S] >= k[S]
  BY <1>8
<1> QED
  BY <1>1, <1>2, <1>3, <1>9

LEMMA SumOfZeros ==
  ASSUME NEW S, IsFiniteSet(S), NEW f \in [S -> Int], \A x \in S : f[x] = 0
  PROVE  SumFunction(f) = 0
<1> DEFINE none == [T \in SUBSET S |-> 0]
<1>1. Partial(f, S, none)
  BY DEF Partial
<1>2. PICK g : Partial(f, S, g) /\ SumFunction(f) = g[S]
  BY SumIs
<1>3. g[S] = none[S]
  <2> HIDE DEF none
  <2> QED
    BY <1>1, <1>2, PartialsAgree
<1> QED
  BY <1>2, <1>3

-----------------------------------------------------------------------------
(***************************************************************************)
(* What each operation of the shadow ledger makes of a user: what it owns, *)
(* what is held aside for it, and whether it is trusted.                   *)
(***************************************************************************)
Shadows ==
  [ cash : Int, shares : [Instruments -> Int], heldCash : Int,
    heldShares : [Instruments -> Int], outstanding : Int, seeded : BOOLEAN,
    uncertain : BOOLEAN ]

IsLedger(l) ==
  l \in [ generation : Nat, users : [DOMAIN l.users -> Shadows],
          prices : [Instruments -> Int \cup {Unlearnt}] ]

Bought(order) == IF order.side = "BUY" THEN order.size ELSE - order.size

Fills(d) == d # NoExecution /\ d.status = "FILLED"

CashMove(order, d) == IF Fills(d) THEN - (d.price * Bought(order)) ELSE 0

SharesMove(order, d, i) ==
  IF Fills(d) /\ i = order.instrumentId THEN Bought(order) ELSE 0

HeldFor(held_, i) == IF held_.order.instrumentId = i THEN held_.heldShares ELSE 0

SameTrust(before, after) ==
  after.seeded = before.seeded /\ after.uncertain = before.uncertain

SameHoldings(before, after) ==
  after.cash = before.cash /\ after.shares = before.shares

Moved(before, after, order, d) ==
  /\ after.cash = before.cash + CashMove(order, d)
  /\ \A i \in Instruments : after.shares[i] = before.shares[i] + SharesMove(order, d, i)

Held(before, after, reservation) ==
  /\ after.outstanding = before.outstanding + 1
  /\ after.heldCash = before.heldCash + reservation.heldCash
  /\ \A i \in Instruments :
       after.heldShares[i] = before.heldShares[i] + HeldFor(reservation, i)

Released(before, after, reservation) ==
  /\ after.outstanding = before.outstanding - 1
  /\ after.heldCash = before.heldCash - reservation.heldCash
  /\ \A i \in Instruments :
       after.heldShares[i] = before.heldShares[i] - HeldFor(reservation, i)

(* g is l, but for its prices and for user u.                              *)
DiffersAt(l, g, u) ==
  /\ IsLedger(g)
  /\ g.generation = l.generation
  /\ DOMAIN g.users = DOMAIN l.users
  /\ \A v \in DOMAIN l.users \ {u} : g.users[v] = l.users[v]

LEMMA ReserveIs ==
  ASSUME NEW l, IsLedger(l), NEW r \in Reservations, Shadowed(l, r.order.userId)
  PROVE  LET u == r.order.userId  g == reserve(l, r) IN
         /\ DiffersAt(l, g, u) /\ g.prices = l.prices
         /\ SameTrust(l.users[u], g.users[u]) /\ SameHoldings(l.users[u], g.users[u])
         /\ Held(l.users[u], g.users[u], r)
<1> DEFINE u == r.order.userId  g == reserve(l, r)  i == r.order.instrumentId
           before == l.users[u]
           n == before.outstanding + 1  c == before.heldCash + r.heldCash
           k == before.heldShares[i] + r.heldShares
           after == [before EXCEPT !.outstanding = n, !.heldCash = c,
                                   !.heldShares = [before.heldShares EXCEPT ![i] = k]]
<1>1. u \in DOMAIN l.users /\ before \in Shadows /\ i \in Instruments
  BY DEF IsLedger, Shadowed, Reservations, Orders
<1>2. g = [l EXCEPT !.users = [l.users EXCEPT ![u] = after]]
  <2>1. g = [l EXCEPT !.users[u].outstanding = n, !.users[u].heldCash = c,
                      !.users[u].heldShares[i] = k]
    BY DEF reserve, Shadowed
  <2> HIDE DEF n, c, k, g
  <2> QED
    BY <1>1, <2>1 DEF IsLedger, Shadows
<1>3. after \in Shadows
  <2>1. n \in Int /\ c \in Int /\ k \in Int
    BY <1>1 DEF Shadows, Reservations
  <2> HIDE DEF n, c, k
  <2> QED
    BY <1>1, <2>1 DEF Shadows
<1>4. DiffersAt(l, g, u) /\ g.prices = l.prices /\ g.users[u] = after
  <2> HIDE DEF after, g
  <2> QED
    BY <1>1, <1>2, <1>3 DEF DiffersAt, IsLedger
<1>5. SameTrust(before, after) /\ SameHoldings(before, after) /\ Held(before, after, r)
  BY <1>1 DEF SameTrust, SameHoldings, Held, HeldFor, Shadows, Reservations
<1> QED
  BY <1>4, <1>5

LEMMA ReleaseIs ==
  ASSUME NEW l, IsLedger(l), NEW r \in Reservations, Shadowed(l, r.order.userId)
  PROVE  LET u == r.order.userId  g == release(l, r) IN
         /\ DiffersAt(l, g, u) /\ g.prices = l.prices
         /\ SameTrust(l.users[u], g.users[u]) /\ SameHoldings(l.users[u], g.users[u])
         /\ Released(l.users[u], g.users[u], r)
<1> DEFINE u == r.order.userId  g == release(l, r)  i == r.order.instrumentId
           before == l.users[u]
           n == before.outstanding - 1  c == before.heldCash - r.heldCash
           k == before.heldShares[i] - r.heldShares
           after == [before EXCEPT !.outstanding = n, !.heldCash = c,
                                   !.heldShares = [before.heldShares EXCEPT ![i] = k]]
<1>1. u \in DOMAIN l.users /\ before \in Shadows /\ i \in Instruments
  BY DEF IsLedger, Shadowed, Reservations, Orders
<1>2. g = [l EXCEPT !.users = [l.users EXCEPT ![u] = after]]
  <2>1. g = [l EXCEPT !.users[u].outstanding = n, !.users[u].heldCash = c,
                      !.users[u].heldShares[i] = k]
    BY DEF release
  <2> HIDE DEF n, c, k, g
  <2> QED
    BY <1>1, <2>1 DEF IsLedger, Shadows
<1>3. after \in Shadows
  <2>1. n \in Int /\ c \in Int /\ k \in Int
    BY <1>1 DEF Shadows, Reservations
  <2> HIDE DEF n, c, k
  <2> QED
    BY <1>1, <2>1 DEF Shadows
<1>4. DiffersAt(l, g, u) /\ g.prices = l.prices /\ g.users[u] = after
  <2> HIDE DEF after, g
  <2> QED
    BY <1>1, <1>2, <1>3 DEF DiffersAt, IsLedger
<1>5. SameTrust(before, after) /\ SameHoldings(before, after) /\ Released(before, after, r)
  BY <1>1 DEF SameTrust, SameHoldings, Released, HeldFor, Shadows, Reservations
<1> QED
  BY <1>4, <1>5

LEMMA FillIs ==
  ASSUME NEW l, IsLedger(l), NEW order \in Orders, Shadowed(l, order.userId),
         NEW d \in Decisions, Fills(d)
  PROVE  LET u == order.userId  g == Fill(l, order, d.price) IN
         /\ DiffersAt(l, g, u) /\ g.prices = l.prices
         /\ SameTrust(l.users[u], g.users[u]) /\ Moved(l.users[u], g.users[u], order, d)
         /\ g.users[u].outstanding = l.users[u].outstanding
         /\ g.users[u].heldCash = l.users[u].heldCash
         /\ g.users[u].heldShares = l.users[u].heldShares
<1> DEFINE u == order.userId  g == Fill(l, order, d.price)  i == order.instrumentId
           before == l.users[u]
           c == before.cash - d.price * Bought(order)
           k == before.shares[i] + Bought(order)
           after == [before EXCEPT !.cash = c, !.shares = [before.shares EXCEPT ![i] = k]]
<1>1. /\ u \in DOMAIN l.users /\ before \in Shadows /\ i \in Instruments
      /\ Bought(order) \in Int /\ d.price \in Int
  BY DEF IsLedger, Shadowed, Orders, Bought, Decisions
<1>2. g = [l EXCEPT !.users = [l.users EXCEPT ![u] = after]]
  <2>1. g = [l EXCEPT !.users[u].cash = c, !.users[u].shares[i] = k]
    BY DEF Fill, Bought
  <2> HIDE DEF c, k, g
  <2> QED
    BY <1>1, <2>1 DEF IsLedger, Shadows
<1>3. d.price * Bought(order) \in Int
  BY <1>1
<1>4. c \in Int /\ k \in Int
  <2> HIDE DEF Bought
  <2>1. before.cash \in Int /\ before.shares[i] \in Int
    BY <1>1 DEF Shadows
  <2> QED
    BY <1>1, <1>3, <2>1
<1>5. after \in Shadows
  <2> HIDE DEF c, k
  <2> QED
    BY <1>1, <1>4 DEF Shadows
<1>6. DiffersAt(l, g, u) /\ g.prices = l.prices /\ g.users[u] = after
  <2> HIDE DEF after, g
  <2> QED
    BY <1>1, <1>2, <1>5 DEF DiffersAt, IsLedger
<1>7. Moved(before, after, order, d)
  <2> DEFINE spent == d.price * Bought(order)  some == Bought(order)
  <2>1. c = before.cash + (- spent) /\ k = before.shares[i] + some
    <3>1. before.cash \in Int /\ spent \in Int
      BY <1>1, <1>3 DEF Shadows
    <3> HIDE DEF spent
    <3>2. c = before.cash - spent
      BY DEF spent
    <3> QED
      BY <3>1, <3>2
  <2>2. CashMove(order, d) = - spent
    BY DEF CashMove
  <2>3. \A j \in Instruments : SharesMove(order, d, j) = IF j = i THEN some ELSE 0
    BY DEF SharesMove
  <2>4. after.cash = c /\ \A j \in Instruments : after.shares[j] = IF j = i THEN k ELSE before.shares[j]
    <3> HIDE DEF c, k
    <3> QED
      BY <1>1 DEF Shadows
  <2>5. \A j \in Instruments : before.shares[j] \in Int
    BY <1>1 DEF Shadows
  <2> HIDE DEF c, k, spent, some, after, i, before
  <2> QED
    BY <2>1, <2>2, <2>3, <2>4, <2>5 DEF Moved
<1>8. /\ SameTrust(before, after) /\ after.outstanding = before.outstanding
      /\ after.heldCash = before.heldCash /\ after.heldShares = before.heldShares
  <2> HIDE DEF c, k
  <2> QED
    BY <1>1 DEF SameTrust, Shadows
<1> QED
  BY <1>6, <1>7, <1>8

(* A response may teach a price, of what was ordered.                      *)
Learns(l, g, order, d) ==
  \A i \in Instruments :
    \/ g.prices[i] = l.prices[i]
    \/ d # NoExecution /\ order.type = "MARKET" /\ i = order.instrumentId /\ g.prices[i] = d.price

LEMMA LearntIs ==
  ASSUME NEW l, IsLedger(l), NEW r \in Reservations, NEW d \in Decisions \cup {NoExecution}
  PROVE  LET g == Learnt(l, r, d) IN
         /\ IsLedger(g) /\ g.users = l.users /\ g.generation = l.generation
         /\ Learns(l, g, r.order, d)
<1>1. CASE d # NoExecution /\ r.order.type = "MARKET"
  <2> DEFINE g == Learnt(l, r, d)  i == r.order.instrumentId  price == d.price
  <2>1. price \in Int /\ i \in Instruments
    BY <1>1 DEF Decisions, Reservations, Orders
  <2>2. g = [l EXCEPT !.prices = [l.prices EXCEPT ![i] = price]]
    BY <1>1 DEF Learnt
  <2> HIDE DEF price, i
  <2>3. IsLedger(g) /\ g.users = l.users /\ g.generation = l.generation
    BY <2>1, <2>2 DEF IsLedger
  <2>4. \A j \in Instruments : g.prices[j] = IF j = i THEN price ELSE l.prices[j]
    BY <2>1, <2>2 DEF IsLedger
  <2>5. Learns(l, g, r.order, d)
    <3> HIDE DEF g
    <3> QED
      BY <1>1, <2>4 DEF Learns, i, price
  <2> QED
    BY <2>3, <2>5
<1>2. CASE ~ (d # NoExecution /\ r.order.type = "MARKET")
  BY <1>2 DEF Learnt, Learns
<1> QED
  BY <1>1, <1>2

LEMMA SettleIs ==
  ASSUME NEW l, IsLedger(l), NEW r \in Reservations, NEW d \in Decisions \cup {NoExecution}
  PROVE  LET u == r.order.userId  g == settle(l, r, d) IN
         /\ IsLedger(g) /\ g.generation = l.generation
         /\ Learns(l, g, r.order, d)
         /\ ~ Current(l, r) => g.users = l.users
         /\ Current(l, r) =>
              /\ DiffersAt(l, g, u)
              /\ SameTrust(l.users[u], g.users[u])
              /\ Released(l.users[u], g.users[u], r)
              /\ Moved(l.users[u], g.users[u], r.order, d)
<1> DEFINE u == r.order.userId  g == settle(l, r, d)  p == Learnt(l, r, d)  q == release(p, r)
<1>1. /\ IsLedger(p) /\ p.users = l.users /\ p.generation = l.generation
      /\ Learns(l, p, r.order, d)
  BY LearntIs
<1>2. CASE ~ Current(l, r)
  BY <1>1, <1>2 DEF settle
<1>3. CASE Current(l, r)
  <2> HIDE DEF p
  <2>1. Shadowed(p, u) /\ Shadowed(l, u)
    BY <1>1, <1>3 DEF Current, Shadowed
  <2>2. /\ DiffersAt(p, q, u) /\ q.prices = p.prices
        /\ SameTrust(p.users[u], q.users[u]) /\ SameHoldings(p.users[u], q.users[u])
        /\ Released(p.users[u], q.users[u], r)
    BY <1>1, <2>1, ReleaseIs
  <2>3. CASE ~ Fills(d)
    <3>1. g = q
      BY <1>3, <2>3 DEF settle, Fills, p
    <3> HIDE DEF q, g
    <3>2. l.users[u].cash \in Int /\ \A i \in Instruments : l.users[u].shares[i] \in Int
      BY <2>1 DEF IsLedger, Shadows, Shadowed
    <3>3. Moved(l.users[u], q.users[u], r.order, d)
      <4>1. CashMove(r.order, d) = 0 /\ \A i \in Instruments : SharesMove(r.order, d, i) = 0
        BY <2>3 DEF CashMove, SharesMove
      <4>2. q.users[u].cash = l.users[u].cash /\ q.users[u].shares = l.users[u].shares
        BY <1>1, <2>2 DEF SameHoldings
      <4> HIDE DEF u
      <4> QED
        BY <3>2, <4>1, <4>2 DEF Moved
    <3> QED
      BY <1>1, <1>3, <2>2, <3>1, <3>3 DEF DiffersAt, Learns, g
  <2>4. CASE Fills(d)
    <3>1. g = Fill(q, r.order, d.price)
      BY <1>3, <2>4 DEF settle, Fills, p
    <3> HIDE DEF q, g
    <3>2. IsLedger(q) /\ Shadowed(q, u) /\ r.order \in Orders /\ d \in Decisions
      BY <2>1, <2>2, <2>4 DEF DiffersAt, Shadowed, Reservations, Fills
    <3>3. /\ DiffersAt(q, g, u) /\ g.prices = q.prices
          /\ SameTrust(q.users[u], g.users[u]) /\ Moved(q.users[u], g.users[u], r.order, d)
          /\ g.users[u].outstanding = q.users[u].outstanding
          /\ g.users[u].heldCash = q.users[u].heldCash
          /\ g.users[u].heldShares = q.users[u].heldShares
      BY <2>4, <3>1, <3>2, FillIs
    <3>4. DiffersAt(l, g, u)
      BY <1>1, <2>2, <3>3 DEF DiffersAt
    <3>5. Learns(l, g, r.order, d)
      BY <1>1, <2>2, <3>3 DEF Learns
    <3>6. SameTrust(l.users[u], g.users[u]) /\ Released(l.users[u], g.users[u], r)
      BY <1>1, <2>2, <3>3 DEF SameTrust, Released
    <3>7. Moved(l.users[u], g.users[u], r.order, d)
      BY <1>1, <2>2, <3>3 DEF Moved, SameHoldings
    <3> QED
      BY <1>3, <3>4, <3>5, <3>6, <3>7 DEF DiffersAt, g
  <2> QED
    BY <2>3, <2>4
<1> QED
  BY <1>2, <1>3

LEMMA LoseIs ==
  ASSUME NEW l, IsLedger(l), NEW r \in Reservations
  PROVE  LET u == r.order.userId  g == lose(l, r) IN
         /\ IsLedger(g) /\ g.generation = l.generation /\ g.prices = l.prices
         /\ ~ Current(l, r) => g.users = l.users
         /\ Current(l, r) =>
              /\ DiffersAt(l, g, u)
              /\ g.users[u].uncertain /\ g.users[u].seeded = l.users[u].seeded
              /\ Released(l.users[u], g.users[u], r)
<1> DEFINE u == r.order.userId  q == release(l, r)
<1>1. CASE ~ Current(l, r)
  BY <1>1 DEF lose
<1>2. CASE Current(l, r)
  <2>1. Shadowed(l, u)
    BY <1>2 DEF Current
  <2>2. /\ DiffersAt(l, q, u) /\ q.prices = l.prices /\ Released(l.users[u], q.users[u], r)
        /\ SameTrust(l.users[u], q.users[u])
    BY <2>1, ReleaseIs
  <2>3. lose(l, r) = [q EXCEPT !.users = [q.users EXCEPT ![u] = [q.users[u] EXCEPT !.uncertain = TRUE]]]
    BY <1>2 DEF lose
  <2> HIDE DEF q
  <2> DEFINE after == [q.users[u] EXCEPT !.uncertain = TRUE]
             g == [q EXCEPT !.users = [q.users EXCEPT ![u] = after]]
  <2>4. u \in DOMAIN q.users /\ q.users[u] \in Shadows
    BY <2>1, <2>2 DEF DiffersAt, IsLedger, Shadowed
  <2>5. /\ after \in Shadows /\ after.uncertain
        /\ after.outstanding = q.users[u].outstanding /\ after.heldCash = q.users[u].heldCash
        /\ after.heldShares = q.users[u].heldShares /\ after.seeded = l.users[u].seeded
    BY <2>2, <2>4 DEF Shadows, SameTrust
  <2> HIDE DEF after
  <2>6. DiffersAt(l, g, u) /\ g.prices = l.prices /\ g.users[u] = after
    BY <2>2, <2>4, <2>5 DEF DiffersAt, IsLedger
  <2>7. Released(l.users[u], after, r)
    BY <2>2, <2>5 DEF Released
  <2>8. lose(l, r) = g
    BY <2>3 DEF after
  <2> HIDE DEF g
  <2> QED
    BY <1>2, <2>5, <2>6, <2>7, <2>8 DEF DiffersAt
<1> QED
  BY <1>1, <1>2

LEMMA SeedIs ==
  ASSUME NEW l, IsLedger(l), NEW generation, NEW u, NEW p \in Portfolios
  PROVE  LET g == seed(l, generation, u, p) IN
         /\ IsLedger(g) /\ g.generation = l.generation /\ g.prices = l.prices
         /\ ~ (generation = l.generation /\ Shadowed(l, u)) => g = l
         /\ generation = l.generation /\ Shadowed(l, u) =>
              /\ DiffersAt(l, g, u)
              /\ g.users[u].cash = p.cash /\ g.users[u].shares = p.shares /\ g.users[u].seeded
              /\ g.users[u].outstanding = l.users[u].outstanding
              /\ g.users[u].heldCash = l.users[u].heldCash
              /\ g.users[u].heldShares = l.users[u].heldShares
<1>1. CASE ~ (generation = l.generation /\ Shadowed(l, u))
  BY <1>1 DEF seed
<1>2. CASE generation = l.generation /\ Shadowed(l, u)
  <2> DEFINE before == l.users[u]
             sure == before.outstanding > 0
             after == [before EXCEPT !.cash = p.cash, !.shares = p.shares, !.seeded = TRUE,
                                     !.uncertain = sure]
             g == [l EXCEPT !.users = [l.users EXCEPT ![u] = after]]
  <2>1. u \in DOMAIN l.users /\ before \in Shadows
    BY <1>2 DEF IsLedger, Shadowed
  <2>2. sure \in BOOLEAN /\ p.cash \in Int /\ p.shares \in [Instruments -> Int]
    BY <2>1 DEF Shadows, Portfolios
  <2>3. seed(l, generation, u, p) = g
    <3> DEFINE a1 == [before EXCEPT !.cash = p.cash]
               a2 == [a1 EXCEPT !.shares = p.shares]
               a3 == [a2 EXCEPT !.seeded = TRUE]
               With(a) == [l EXCEPT !.users = [l.users EXCEPT ![u] = a]]
    <3>1. seed(l, generation, u, p) = [l EXCEPT !.users[u].cash = p.cash, !.users[u].shares = p.shares,
                                                !.users[u].seeded = TRUE, !.users[u].uncertain = sure]
      BY <1>2 DEF seed
    <3> HIDE DEF sure
    <3>2. [l EXCEPT !.users[u].cash = p.cash, !.users[u].shares = p.shares] = With(a2)
      BY <2>1 DEF IsLedger, Shadows
    <3>3. a2 \in Shadows
      BY <2>1, <2>2 DEF Shadows
    <3> HIDE DEF a2
    <3>4. [With(a2) EXCEPT !.users[u].seeded = TRUE, !.users[u].uncertain = sure]
            = With([a3 EXCEPT !.uncertain = sure])
      BY <2>1, <3>3 DEF IsLedger, Shadows
    <3>5. after = [a3 EXCEPT !.uncertain = sure]
      BY <2>1 DEF Shadows, a2
    <3> HIDE DEF a3, after, With
    <3> QED
      BY <3>1, <3>2, <3>4, <3>5 DEF With
  <2> HIDE DEF sure
  <2>4. /\ after \in Shadows /\ after.cash = p.cash /\ after.shares = p.shares
        /\ after.outstanding = before.outstanding /\ after.heldCash = before.heldCash
        /\ after.heldShares = before.heldShares /\ after.seeded
    BY <2>1, <2>2 DEF Shadows
  <2> HIDE DEF after
  <2>5. DiffersAt(l, g, u) /\ g.prices = l.prices /\ g.users[u] = after
    BY <2>1, <2>4 DEF DiffersAt, IsLedger
  <2> HIDE DEF g
  <2> QED
    BY <1>2, <2>3, <2>4, <2>5 DEF DiffersAt, g
<1> QED
  BY <1>1, <1>2

LEMMA ReseedIs ==
  ASSUME NEW l, IsLedger(l), NEW users
  PROVE  LET g == reseed(l, users) IN
         /\ IsLedger(g) /\ g.generation = l.generation + 1 /\ g.prices = l.prices
         /\ g.users = [u \in users |-> blank]
<1> DEFINE g == reseed(l, users)  shadows == [u \in users |-> blank]
<1>1. blank \in Shadows
  BY DEF blank, Shadows, NoShares
<1>2. shadows \in [users -> Shadows] /\ DOMAIN shadows = users
  BY <1>1
<1>3. g = [generation |-> l.generation + 1, users |-> shadows, prices |-> l.prices]
  <2>1. g = [l EXCEPT !.generation = l.generation + 1, !.users = shadows]
    BY DEF reseed
  <2> HIDE DEF shadows, g
  <2> QED
    BY <2>1 DEF IsLedger
<1>4. IsLedger(g) /\ g.generation = l.generation + 1 /\ g.prices = l.prices /\ g.users = shadows
  <2>1. /\ g.generation = l.generation + 1 /\ g.prices = l.prices /\ g.users = shadows
        /\ g.generation \in Nat /\ g.prices \in [Instruments -> Int \cup {Unlearnt}]
    <3> HIDE DEF shadows, g
    <3> QED
      BY <1>3 DEF IsLedger
  <2>2. g.users \in [DOMAIN g.users -> Shadows]
    BY <1>2, <2>1
  <2> HIDE DEF shadows, g
  <2> QED
    BY <1>3, <2>1, <2>2 DEF IsLedger
<1> QED
  BY <1>4

-----------------------------------------------------------------------------
(***************************************************************************)
(* What the API decides, and what the service reserves.                    *)
(***************************************************************************)
Cost(order) == Close[order.instrumentId] * order.size

Covers(own, order) ==
  IF order.side = "BUY" THEN own.cash >= Cost(order)
  ELSE own.shares[order.instrumentId] >= order.size

DecidedFor(order, d) ==
  /\ order.type = "MARKET" => d.price = Close[order.instrumentId]
  /\ Fills(d) => order.type = "MARKET"

LEMMA CostIs ==
  ASSUME NEW order \in Orders
  PROVE  /\ Cost(order) \in Nat \ {0} /\ order.size \in Nat \ {0}
         /\ Close[order.instrumentId] \in Nat /\ order.instrumentId \in Instruments
<1>1. /\ order.size \in Nat \ {0} /\ order.instrumentId \in Instruments
      /\ Close[order.instrumentId] \in Nat \ {0}
  BY SimulationAssumption DEF Orders
<1>2. \A a, b \in Nat \ {0} : a * b \in Nat \ {0}
  OBVIOUS
<1> QED
  BY <1>1, <1>2 DEF Cost

LEMMA DecisionIs ==
  ASSUME portfolio \in [Users -> Portfolios], NEW order \in Orders
  PROVE  LET d == Decision(order) IN
         /\ d \in Decisions /\ d # NoExecution /\ DecidedFor(order, d)
         /\ order.type = "MARKET" =>
              /\ Fills(d) <=> Covers(portfolio[order.userId], order)
              /\ ~ Fills(d) => d.status = "REJECTED"
<1> DEFINE d == Decision(order)  own == portfolio[order.userId]  i == order.instrumentId
           price == executed(order.type, order.price, Close[i])
           covers == covered(order.side, order.size, price, own.cash, own.shares[i])
<1>1. /\ order.type \in ORDER_TYPES /\ order.price \in Nat /\ Close[i] \in Nat
      /\ order.size \in Nat
  BY CostIs DEF Orders
<1>2. price \in Int /\ (order.type = "MARKET" => price = Close[i])
  BY <1>1 DEF executed
<1>3. /\ d.price = price
      /\ d.status = IF covers THEN accepted(order.type) ELSE "REJECTED"
      /\ d = [price |-> d.price, status |-> d.status]
  BY DEF Decision, decide
<1>4. d.status \in ORDER_STATUSES /\ (d.status = "FILLED" <=> covers /\ order.type = "MARKET")
  BY <1>1, <1>3 DEF accepted, ORDER_STATUSES, ORDER_TYPES
<1> HIDE DEF d, price, covers
<1>5. d \in Decisions /\ d # NoExecution
  BY <1>2, <1>3, <1>4, NothingIsNothing DEF Decisions
<1>6. DecidedFor(order, d)
  BY <1>2, <1>3, <1>4 DEF DecidedFor, Fills
<1>7. ASSUME order.type = "MARKET"
      PROVE  /\ Fills(d) <=> Covers(own, order)
             /\ ~ Fills(d) => d.status = "REJECTED"
  <2>1. covers <=> Covers(own, order)
    BY <1>2, <1>7 DEF covers, covered, Covers, Cost
  <2> QED
    BY <1>3, <1>4, <1>5, <1>7, <2>1 DEF Fills
<1> QED
  BY <1>5, <1>6, <1>7 DEF d

LEMMA ExecutedIs ==
  ASSUME portfolio \in [Users -> Portfolios], NEW order \in Orders, NEW after,
         after = Executed(order)
  PROVE  /\ after \in [Users -> Portfolios]
         /\ \A u \in Users \ {order.userId} : after[u] = portfolio[u]
         /\ Moved(portfolio[order.userId], after[order.userId], order, Decision(order))
<1> DEFINE d == Decision(order)  u == order.userId  i == order.instrumentId  own == portfolio[u]
           c == own.cash - d.price * Bought(order)
           k == own.shares[i] + Bought(order)
           new == [own EXCEPT !.cash = c, !.shares = [own.shares EXCEPT ![i] = k]]
<1>1. d \in Decisions /\ d # NoExecution
  BY DecisionIs
<1>2. /\ u \in Users /\ i \in Instruments /\ own \in Portfolios
      /\ own.cash \in Int /\ own.shares \in [Instruments -> Int]
      /\ d.price \in Int /\ Bought(order) \in Int
  BY <1>1 DEF Orders, Portfolios, Bought, Decisions
<1>3. d.price * Bought(order) \in Int
  BY <1>2
<1>4. CASE ~ Fills(d)
  <2>1. after = portfolio
    BY <1>1, <1>4 DEF Executed, Fills
  <2>2. CashMove(order, d) = 0 /\ \A j \in Instruments : SharesMove(order, d, j) = 0
    BY <1>4 DEF CashMove, SharesMove
  <2> HIDE DEF d
  <2>3. Moved(own, own, order, d)
    BY <1>2, <2>2 DEF Moved
  <2> QED
    BY <2>1, <2>3 DEF d
<1>5. CASE Fills(d)
  <2>1. after = [portfolio EXCEPT ![u].cash = c, ![u].shares[i] = k]
    BY <1>5 DEF Executed, Fills, Bought
  <2>2. c \in Int /\ k \in Int
    <3> HIDE DEF d, Bought
    <3> QED
      BY <1>2, <1>3
  <2>3. CashMove(order, d) = c - own.cash
    <3> DEFINE spent == d.price * Bought(order)
    <3>1. CashMove(order, d) = - spent /\ c = own.cash - spent /\ spent \in Int
      BY <1>3, <1>5 DEF CashMove
    <3> HIDE DEF spent, c
    <3> QED
      BY <1>2, <3>1
  <2>4. \A j \in Instruments : SharesMove(order, d, j) = IF j = i THEN k - own.shares[i] ELSE 0
    <3> DEFINE some == Bought(order)
    <3>1. /\ some \in Int /\ k = own.shares[i] + some
          /\ \A j \in Instruments : SharesMove(order, d, j) = IF j = i THEN some ELSE 0
      BY <1>2, <1>5 DEF SharesMove
    <3>2. own.shares[i] \in Int
      BY <1>2
    <3> HIDE DEF some, k, own, d, i
    <3>3. k - own.shares[i] = some
      BY <3>1, <3>2
    <3> QED
      BY <3>1, <3>3
  <2> HIDE DEF c, k, d
  <2>5. after = [portfolio EXCEPT ![u] = new]
    BY <1>2, <2>1 DEF Portfolios
  <2>6. /\ new \in Portfolios /\ new.cash = c
        /\ \A j \in Instruments : new.shares[j] = IF j = i THEN k ELSE own.shares[j]
    BY <1>2, <2>2 DEF Portfolios
  <2>7. Moved(own, new, order, d)
    BY <1>2, <2>2, <2>3, <2>4, <2>6 DEF Moved
  <2> HIDE DEF new
  <2> QED
    BY <1>2, <2>5, <2>6, <2>7 DEF d
<1> QED
  BY <1>4, <1>5

(* Whatever is expected to fill holds aside what it will take.             *)
Holds(r) ==
  IF r.expectation = "FILLED"
  THEN /\ r.order.type = "MARKET"
       /\ r.heldCash = IF r.order.side = "BUY" THEN Cost(r.order) ELSE 0
       /\ r.heldShares = IF r.order.side = "SELL" THEN r.order.size ELSE 0
  ELSE r.heldCash = 0 /\ r.heldShares = 0

PricesAreCloses(l) == \A i \in Instruments : l.prices[i] \in {Unlearnt, Close[i]}

LEMMA ReservationIs ==
  ASSUME NEW l, IsLedger(l), PricesAreCloses(l), NEW order \in Orders
  PROVE  LET r == Reservation(l, order)  u == order.userId IN
         /\ r \in Reservations /\ r.order = order /\ r.generation = l.generation /\ Holds(r)
         /\ r.expectation # "UNKNOWN" => order.type = "MARKET" /\ Trusted(l, u)
         /\ r.expectation = "FILLED" => Covered(l.users[u], order, Close[order.instrumentId])
         /\ r.expectation = "REJECTED" =>
              /\ ~ Covered(l.users[u], order, Close[order.instrumentId])
              /\ l.users[u].outstanding = 0
<1> DEFINE r == Reservation(l, order)  u == order.userId  i == order.instrumentId
           e == expect(l, order)
<1>1. /\ Cost(order) \in Nat /\ order.size \in Nat /\ i \in Instruments
      /\ order.side \in {"BUY", "SELL"}
      /\ order.type \in {"MARKET", "LIMIT"}
  BY CostIs DEF Orders, SIDES, ORDER_TYPES
<1>2. e \in Expectations
  BY DEF expect, Expectations
<1>3. e # "UNKNOWN" => order.type = "MARKET" /\ Trusted(l, u) /\ l.prices[i] = Close[i]
  BY <1>1 DEF expect, PricesAreCloses
<1>4. /\ e = "FILLED" => Covered(l.users[u], order, Close[i])
      /\ e = "REJECTED" => ~ Covered(l.users[u], order, Close[i]) /\ l.users[u].outstanding = 0
  BY <1>3 DEF expect
<1> HIDE DEF e
<1> DEFINE c == IF e = "FILLED" /\ order.side = "BUY" THEN l.prices[i] * order.size ELSE 0
           k == IF e = "FILLED" /\ order.side = "SELL" THEN order.size ELSE 0
<1>5. r = [generation |-> l.generation, order |-> order, expectation |-> e,
           heldCash |-> c, heldShares |-> k]
  BY DEF Reservation, e
<1>6. c = (IF e = "FILLED" /\ order.side = "BUY" THEN Cost(order) ELSE 0)
  BY <1>3 DEF Cost
<1>7. c \in Nat /\ k \in Nat
  <2> HIDE DEF c
  <2> QED
    BY <1>1, <1>6
<1> HIDE DEF c, k, r
<1>8. r \in Reservations
  BY <1>2, <1>5, <1>7 DEF Reservations, IsLedger
<1>9. Holds(r)
  BY <1>3, <1>5, <1>6 DEF Holds, k
<1> QED
  BY <1>3, <1>4, <1>5, <1>8, <1>9 DEF r

-----------------------------------------------------------------------------
(***************************************************************************)
(* Types, and with them what follows from where a call is.                 *)
(***************************************************************************)
Positions == {"unsent", "sent", "executed", "late", "done"}

Attempts ==
  [ order : Orders \cup {NoOrder}, expected : Expectations,
    actual : ORDER_STATUSES \cup {"none"} ]

Reads ==
  [ user : Users, generation : Nat, for : {"all", "one"}, seen : Portfolios \cup {NoOrder} ]

ServiceOK ==
  /\ IsLedger(ledger) /\ ledger.generation \in 0..MaxGenerations
  /\ DOMAIN ledger.users \in Rosters \cup {{}}
  /\ PricesAreCloses(ledger)
  /\ reseeding \subseteq Users
  /\ reads \subseteq Reads

WorldOK ==
  /\ portfolio \in [Users -> Portfolios]
  /\ beside \in [Slots -> SUBSET Slots]
  /\ filled \subseteq Slots
  /\ mishaps \subseteq {"overtaken", "reset", "overlap", "late"}

CallsTyped ==
  /\ at \in [Slots -> Positions]
  /\ held \in [Slots -> Reservations \cup {NoReservation}]
  /\ execution \in [Slots -> Decisions \cup {NoExecution}]
  /\ row \in [Slots -> Attempts]
  /\ IsFiniteSet(InFlight)

CallOK(s) ==
  /\ s \in InFlight <=> held[s] # NoReservation
  /\ s \in InFlight => held[s].generation <= ledger.generation /\ Holds(held[s])
  /\ execution[s] # NoExecution =>
       at[s] = "executed" /\ DecidedFor(held[s].order, execution[s])
  /\ at[s] = "late" => row[s].order \in Orders
  /\ at[s] \in {"unsent", "sent"} => s \notin filled
  /\ at[s] \in {"unsent", "sent", "executed"} => row[s] = NoRow

SimTypes == ServiceOK /\ WorldOK /\ CallsTyped /\ \A s \in Slots : CallOK(s)

(* All that the properties speak of: a check for drift may lose an answer. *)
simVars == <<service, calls, portfolio, history>>

LEMMA InitTypes == Init => SimTypes
<1> SUFFICES ASSUME Init PROVE SimTypes
  OBVIOUS
<1>1. IsLedger(ledger) /\ ledger.generation = 0 /\ DOMAIN ledger.users = {} /\ PricesAreCloses(ledger)
  BY DEF Init, empty, IsLedger, PricesAreCloses
<1>2. ServiceOK
  BY <1>1, SimulationAssumption DEF Init, ServiceOK
<1>3. WorldOK
  BY SimulationAssumption DEF Init, WorldOK
<1>4. InFlight = {}
  BY DEF Init, InFlight
<1>5. NoRow \in Attempts
  BY DEF NoRow, Attempts, Expectations
<1>6. CallsTyped
  BY <1>4, <1>5, FS_EmptySet DEF Init, CallsTyped, Positions
<1>7. ASSUME NEW s \in Slots PROVE CallOK(s)
  BY <1>4 DEF Init, CallOK
<1> QED
  BY <1>2, <1>3, <1>6, <1>7 DEF SimTypes

(* Who is in flight is of some user, and ordered something.                *)
LEMMA FlightIs ==
  ASSUME SimTypes, NEW s \in Slots, s \in InFlight
  PROVE  /\ held[s] \in Reservations /\ held[s].order \in Orders
         /\ UserOf(s) \in Users /\ UserOf(s) = held[s].order.userId
  BY DEF SimTypes, CallsTyped, CallOK, Reservations, Orders, UserOf

(* Calls that a step leaves alone stay as they were.                       *)
LEMMA OthersOK ==
  ASSUME SimTypes, NEW t \in Slots,
         at'[t] = at[t], held'[t] = held[t], execution'[t] = execution[t], row'[t] = row[t],
         t \in filled' <=> t \in filled,
         ledger'.generation \in Nat, ledger'.generation >= ledger.generation
  PROVE  CallOK(t)'
<1>1. CallOK(t)
  BY DEF SimTypes
<1>2. t \in InFlight' <=> t \in InFlight
  BY DEF InFlight
<1>3. t \in InFlight => held[t].generation \in Nat /\ ledger.generation \in Nat
  BY FlightIs DEF Reservations, SimTypes, ServiceOK
<1>4. t \in InFlight => held'[t].generation <= ledger'.generation
  BY <1>1, <1>3 DEF CallOK
<1>5. Holds(held[t]) => Holds(held'[t])
  OBVIOUS
<1>6. DecidedFor(held[t].order, execution[t]) => DecidedFor(held'[t].order, execution'[t])
  OBVIOUS
<1> QED
  BY <1>1, <1>2, <1>4, <1>5, <1>6 DEF CallOK

(***************************************************************************)
(* A call that comes back: what it makes of the ledger, of its row, and of *)
(* the reads.                                                              *)
(***************************************************************************)
Returning(s) == Answer(s) \/ Lose(s)

Settled(s) ==
  LET u == UserOf(s) IN
  /\ IsLedger(ledger') /\ ledger'.generation = ledger.generation
  /\ DOMAIN ledger'.users = DOMAIN ledger.users
  /\ \A v \in DOMAIN ledger.users \ {u} : ledger'.users[v] = ledger.users[v]
  /\ PricesAreCloses(ledger')
  /\ ~ Current(ledger, held[s]) => ledger'.users = ledger.users
  /\ Current(ledger, held[s]) =>
       /\ Released(ledger.users[u], ledger'.users[u], held[s])
       /\ \/ ledger'.users[u].uncertain
          \/ /\ SameTrust(ledger.users[u], ledger'.users[u])
             /\ Moved(ledger.users[u], ledger'.users[u], held[s].order, execution[s])

LEMMA ReturningSettles ==
  ASSUME SimTypes, NEW s \in Slots, Returning(s)
  PROVE  s \in InFlight /\ Settled(s)
<1>1. s \in InFlight
  BY DEF Returning, Answer, Lose, InFlight
<1>2. /\ IsLedger(ledger) /\ PricesAreCloses(ledger) /\ held[s] \in Reservations
      /\ execution[s] \in Decisions \cup {NoExecution}
      /\ execution[s] # NoExecution => DecidedFor(held[s].order, execution[s])
      /\ UserOf(s) = held[s].order.userId
  BY <1>1, FlightIs DEF SimTypes, ServiceOK, CallsTyped, CallOK
<1>3. CASE Answer(s)
  <2>1. ledger' = settle(ledger, held[s], execution[s])
    BY <1>3 DEF Answer, Returned
  <2>2. /\ IsLedger(ledger') /\ ledger'.generation = ledger.generation
        /\ Learns(ledger, ledger', held[s].order, execution[s])
        /\ ~ Current(ledger, held[s]) => ledger'.users = ledger.users
        /\ Current(ledger, held[s]) =>
              /\ DiffersAt(ledger, ledger', UserOf(s))
              /\ SameTrust(ledger.users[UserOf(s)], ledger'.users[UserOf(s)])
              /\ Released(ledger.users[UserOf(s)], ledger'.users[UserOf(s)], held[s])
              /\ Moved(ledger.users[UserOf(s)], ledger'.users[UserOf(s)], held[s].order,
                       execution[s])
    BY <1>2, <2>1, SettleIs
  <2>3. PricesAreCloses(ledger')
    BY <1>2, <2>2 DEF Learns, PricesAreCloses, DecidedFor
  <2> QED
    BY <1>1, <2>2, <2>3 DEF Settled, DiffersAt
<1>4. CASE Lose(s)
  <2>1. ledger' = lose(ledger, held[s])
    BY <1>4 DEF Lose, Returned
  <2>2. /\ IsLedger(ledger') /\ ledger'.generation = ledger.generation
        /\ ledger'.prices = ledger.prices
        /\ ~ Current(ledger, held[s]) => ledger'.users = ledger.users
        /\ Current(ledger, held[s]) =>
              /\ DiffersAt(ledger, ledger', UserOf(s))
              /\ ledger'.users[UserOf(s)].uncertain
              /\ Released(ledger.users[UserOf(s)], ledger'.users[UserOf(s)], held[s])
    BY <1>2, <2>1, LoseIs
  <2>3. PricesAreCloses(ledger')
    BY <1>2, <2>2 DEF PricesAreCloses
  <2> QED
    BY <1>1, <2>2, <2>3 DEF Settled, DiffersAt
<1> QED
  BY <1>3, <1>4 DEF Returning

LEMMA ReturningIs ==
  ASSUME SimTypes, NEW s \in Slots, Returning(s)
  PROVE  /\ \E position \in {"late", "done"} : at' = [at EXCEPT ![s] = position]
         /\ held' = [held EXCEPT ![s] = NoReservation]
         /\ execution' = [execution EXCEPT ![s] = NoExecution]
         /\ \E actual \in ORDER_STATUSES \cup {"none"} :
              /\ row' = [row EXCEPT ![s] = [order |-> held[s].order,
                                            expected |-> held[s].expectation,
                                            actual |-> actual]]
              /\ actual # "none" => execution[s] # NoExecution /\ actual = execution[s].status
         /\ \/ UNCHANGED <<reseeding, reads>>
            \/ /\ needsReseed(ledger', UserOf(s))
               /\ reseeding' = reseeding \cup {UserOf(s)}
               /\ reads' = reads \cup {Asked(UserOf(s), ledger'.generation, "one")}
         /\ UNCHANGED <<portfolio, filled, beside, mishaps>>
<1>1. execution[s] \in Decisions \cup {NoExecution}
  BY DEF SimTypes, CallsTyped
<1>2. CASE Answer(s)
  <2> DEFINE actual == IF execution[s] = NoExecution THEN "none" ELSE execution[s].status
  <2>1. /\ at' = [at EXCEPT ![s] = "done"]
        /\ Returned(s, settle(ledger, held[s], execution[s]), actual)
        /\ UNCHANGED <<portfolio, filled, beside, mishaps>>
    BY <1>2 DEF Answer, history
  <2>2. /\ actual \in ORDER_STATUSES \cup {"none"}
        /\ actual # "none" => execution[s] # NoExecution /\ actual = execution[s].status
    BY <1>1 DEF Decisions
  <2> HIDE DEF actual
  <2> QED
    BY <2>1, <2>2 DEF Returned
<1>3. CASE Lose(s)
  BY <1>3 DEF Lose, Returned, history
<1> QED
  BY <1>2, <1>3 DEF Returning

Placing(s) == \E order \in Menu : place(s, order)

Executing(s) == Execute(s) \/ LateCommit(s)

Reading == \E read \in reads : ReadPortfolio(read) \/ seedUser(read) \/ FailRead(read)

Seeding == \E roster \in Rosters : seedUsers(roster)

LEMMA NextIs ==
  ASSUME [Next]_simVars
  PROVE  \/ Seeding \/ Reading
         \/ \E s \in Slots : Placing(s) \/ Executing(s) \/ Shed(s) \/ Returning(s)
         \/ UNCHANGED simVars
  BY DEF Next, Seeding, Reading, Placing, Executing, Returning

(* The ledger that a read leaves.                                          *)
LEMMA ReadingIs ==
  ASSUME SimTypes, Reading
  PROVE  /\ IsLedger(ledger') /\ ledger'.generation = ledger.generation
         /\ ledger'.prices = ledger.prices /\ DOMAIN ledger'.users = DOMAIN ledger.users
         /\ reads' \subseteq Reads /\ reseeding' \subseteq reseeding
         /\ UNCHANGED <<calls, portfolio, history>>
<1>1. PICK read \in reads : ReadPortfolio(read) \/ seedUser(read) \/ FailRead(read)
  BY DEF Reading
<1>2. /\ read \in Reads /\ reads \subseteq Reads /\ IsLedger(ledger)
      /\ portfolio[read.user] \in Portfolios
  BY DEF SimTypes, ServiceOK, WorldOK, Reads
<1>3. CASE ReadPortfolio(read)
  <2>1. [read EXCEPT !.seen = portfolio[read.user]] \in Reads
    BY <1>2 DEF Reads
  <2> QED
    BY <1>2, <1>3, <2>1 DEF ReadPortfolio
<1>4. CASE FailRead(read)
  BY <1>2, <1>4 DEF FailRead, Landed
<1>5. CASE seedUser(read)
  <2>1. /\ ledger' = seed(ledger, read.generation, read.user, read.seen)
        /\ read.seen \in Portfolios /\ Landed(read)
    BY <1>2, <1>5 DEF seedUser, Reads
  <2>2. /\ IsLedger(ledger') /\ ledger'.generation = ledger.generation
        /\ ledger'.prices = ledger.prices /\ DOMAIN ledger'.users = DOMAIN ledger.users
    BY <1>2, <2>1, SeedIs DEF DiffersAt
  <2> QED
    BY <1>2, <2>1, <2>2 DEF Landed
<1> QED
  BY <1>1, <1>3, <1>4, <1>5

LEMMA SeedingIs ==
  ASSUME SimTypes, NEW roster \in Rosters, seedUsers(roster)
  PROVE  /\ IsLedger(ledger') /\ ledger'.generation = ledger.generation + 1
         /\ ledger'.generation \in 0..MaxGenerations
         /\ ledger'.prices = ledger.prices /\ ledger'.users = [u \in roster |-> blank]
         /\ reads' = reads \cup {Asked(u, ledger.generation + 1, "all") : u \in roster}
         /\ roster \subseteq Users
         /\ Note("reset", InFlight # {})
         /\ UNCHANGED <<reseeding, calls, portfolio, filled, beside>>
<1>1. /\ IsLedger(ledger) /\ ledger.generation \in 0..MaxGenerations
      /\ ledger.generation < MaxGenerations
      /\ ledger' = reseed(ledger, roster)
  BY DEF SimTypes, ServiceOK, seedUsers
<1>2. /\ IsLedger(ledger') /\ ledger'.generation = ledger.generation + 1
      /\ ledger'.prices = ledger.prices /\ ledger'.users = [u \in roster |-> blank]
  BY <1>1, ReseedIs
<1>3. ledger.generation + 1 \in 0..MaxGenerations
  BY <1>1, SimulationAssumption
<1> QED
  BY <1>2, <1>3, SimulationAssumption DEF seedUsers

LEMMA PlacingIs ==
  ASSUME SimTypes, NEW s \in Slots, NEW order \in Menu, place(s, order)
  PROVE  LET r == Reservation(ledger, order)  u == order.userId IN
         /\ order \in Orders /\ r \in Reservations /\ r.order = order
         /\ r.generation = ledger.generation /\ Holds(r)
         /\ at[s] = "unsent" /\ at' = [at EXCEPT ![s] = "sent"]
         /\ held' = [held EXCEPT ![s] = r]
         /\ beside' = [beside EXCEPT ![s] = InFlight]
         /\ IsLedger(ledger') /\ ledger'.generation = ledger.generation
         /\ ledger'.prices = ledger.prices /\ DOMAIN ledger'.users = DOMAIN ledger.users
         /\ \A v \in DOMAIN ledger.users \ {u} : ledger'.users[v] = ledger.users[v]
         /\ u \in DOMAIN ledger.users =>
              /\ SameTrust(ledger.users[u], ledger'.users[u])
              /\ SameHoldings(ledger.users[u], ledger'.users[u])
              /\ Held(ledger.users[u], ledger'.users[u], r)
         /\ Note("overlap", reads # {})
         /\ UNCHANGED <<reseeding, reads, execution, row, portfolio, filled>>
<1> DEFINE r == Reservation(ledger, order)  u == order.userId
<1>1. IsLedger(ledger) /\ PricesAreCloses(ledger) /\ order \in Orders
  BY SimulationAssumption DEF SimTypes, ServiceOK
<1>2. r \in Reservations /\ r.order = order /\ r.generation = ledger.generation /\ Holds(r)
  BY <1>1, ReservationIs
<1>3. ledger' = reserve(ledger, r)
  BY DEF place
<1> HIDE DEF r
<1>4. /\ IsLedger(ledger') /\ ledger'.generation = ledger.generation
      /\ ledger'.prices = ledger.prices /\ DOMAIN ledger'.users = DOMAIN ledger.users
      /\ \A v \in DOMAIN ledger.users \ {u} : ledger'.users[v] = ledger.users[v]
      /\ u \in DOMAIN ledger.users =>
           /\ SameTrust(ledger.users[u], ledger'.users[u])
           /\ SameHoldings(ledger.users[u], ledger'.users[u])
           /\ Held(ledger.users[u], ledger'.users[u], r)
  <2>1. CASE Shadowed(ledger, u)
    <3>1. /\ DiffersAt(ledger, ledger', u) /\ ledger'.prices = ledger.prices
          /\ SameTrust(ledger.users[u], ledger'.users[u])
          /\ SameHoldings(ledger.users[u], ledger'.users[u])
          /\ Held(ledger.users[u], ledger'.users[u], r)
      BY <1>1, <1>2, <1>3, <2>1, ReserveIs
    <3> QED
      BY <3>1 DEF DiffersAt
  <2>2. CASE ~ Shadowed(ledger, u)
    <3>1. ledger' = ledger
      BY <1>2, <1>3, <2>2 DEF reserve
    <3> QED
      BY <1>1, <2>2, <3>1 DEF Shadowed
  <2> QED
    BY <2>1, <2>2
<1> QED
  BY <1>1, <1>2, <1>4 DEF place, r

(* What the API makes of an order, in flight or given up.                  *)
LEMMA ExecutingIs ==
  ASSUME SimTypes, NEW s \in Slots, Executing(s)
  PROVE  \E order \in Orders :
           LET d == Decision(order) IN
           /\ d \in Decisions /\ d # NoExecution /\ DecidedFor(order, d)
           /\ portfolio' \in [Users -> Portfolios]
           /\ \A u \in Users \ {order.userId} : portfolio'[u] = portfolio[u]
           /\ Moved(portfolio[order.userId], portfolio'[order.userId], order, d)
           /\ filled' = IF Fills(d) THEN filled \cup {s} ELSE filled
           /\ \/ /\ at[s] = "sent" /\ at' = [at EXCEPT ![s] = "executed"]
                 /\ order = held[s].order
                 /\ execution' = [execution EXCEPT ![s] = d]
                 /\ Note("overtaken", Overtakes(s))
              \/ /\ at[s] = "late" /\ at' = [at EXCEPT ![s] = "done"]
                 /\ order = row[s].order
                 /\ execution' = execution
                 /\ Note("late", TRUE)
           /\ UNCHANGED <<service, held, row, beside>>
<1>1. portfolio \in [Users -> Portfolios]
  BY DEF SimTypes, WorldOK
<1>2. ASSUME NEW order \in Orders, portfolio' = Executed(order), Filling(s, order)
      PROVE  LET d == Decision(order) IN
             /\ d \in Decisions /\ d # NoExecution /\ DecidedFor(order, d)
             /\ portfolio' \in [Users -> Portfolios]
             /\ \A u \in Users \ {order.userId} : portfolio'[u] = portfolio[u]
             /\ Moved(portfolio[order.userId], portfolio'[order.userId], order, d)
             /\ filled' = IF Fills(d) THEN filled \cup {s} ELSE filled
  <2>1. /\ Decision(order) \in Decisions /\ Decision(order) # NoExecution
        /\ DecidedFor(order, Decision(order))
    BY <1>1, DecisionIs
  <2>2. /\ portfolio' \in [Users -> Portfolios]
        /\ \A u \in Users \ {order.userId} : portfolio'[u] = portfolio[u]
        /\ Moved(portfolio[order.userId], portfolio'[order.userId], order, Decision(order))
    BY <1>1, <1>2, ExecutedIs
  <2> QED
    BY <1>2, <2>1, <2>2 DEF Filling, Fills
<1>3. CASE Execute(s)
  <2>1. at[s] = "sent" /\ s \in InFlight
    BY <1>3 DEF Execute, InFlight
  <2>2. held[s].order \in Orders /\ portfolio' = Executed(held[s].order) /\ Filling(s, held[s].order)
    BY <1>3, <2>1, FlightIs DEF Execute
  <2> QED
    BY <1>2, <1>3, <2>1, <2>2 DEF Execute
<1>4. CASE LateCommit(s)
  <2>1. at[s] = "late" /\ row[s].order \in Orders
    BY <1>4 DEF LateCommit, SimTypes, CallOK
  <2>2. portfolio' = Executed(row[s].order) /\ Filling(s, row[s].order)
    BY <1>4 DEF LateCommit
  <2> QED
    BY <1>2, <1>4, <2>1, <2>2 DEF LateCommit
<1> QED
  BY <1>3, <1>4 DEF Executing

LEMMA NextKeepsTypes == SimTypes /\ [Next]_simVars => SimTypes'
<1> SUFFICES ASSUME SimTypes, [Next]_simVars PROVE SimTypes'
  OBVIOUS
<1>1. /\ ServiceOK /\ WorldOK /\ CallsTyped /\ \A s \in Slots : CallOK(s)
      /\ IsLedger(ledger) /\ ledger.generation \in Nat
      /\ MaxGenerations \in Nat /\ ledger.generation \in 0..MaxGenerations
  BY SimulationAssumption DEF SimTypes, ServiceOK
<1>2. CASE Seeding
  <2>1. PICK roster \in Rosters : seedUsers(roster)
    BY <1>2 DEF Seeding
  <2>2. /\ IsLedger(ledger') /\ ledger'.generation = ledger.generation + 1
        /\ ledger'.generation \in 0..MaxGenerations
        /\ ledger'.prices = ledger.prices /\ ledger'.users = [u \in roster |-> blank]
        /\ reads' = reads \cup {Asked(u, ledger.generation + 1, "all") : u \in roster}
        /\ roster \subseteq Users
        /\ Note("reset", InFlight # {})
        /\ UNCHANGED <<reseeding, calls, portfolio, filled, beside>>
    BY <2>1, SeedingIs
  <2>3. \A u \in roster : Asked(u, ledger.generation + 1, "all") \in Reads
    BY <1>1, <2>2 DEF Asked, Reads
  <2>4. ServiceOK'
    BY <1>1, <2>2, <2>3 DEF ServiceOK, PricesAreCloses
  <2>5. WorldOK' /\ InFlight' = InFlight /\ CallsTyped'
    BY <1>1, <2>2 DEF WorldOK, CallsTyped, Note, calls, InFlight
  <2>6. \A t \in Slots : CallOK(t)'
    BY <1>1, <2>2, OthersOK DEF calls
  <2> QED
    BY <2>4, <2>5, <2>6 DEF SimTypes
<1>3. CASE Reading
  <2>1. /\ IsLedger(ledger') /\ ledger'.generation = ledger.generation
        /\ ledger'.prices = ledger.prices /\ DOMAIN ledger'.users = DOMAIN ledger.users
        /\ reads' \subseteq Reads /\ reseeding' \subseteq reseeding
        /\ UNCHANGED <<calls, portfolio, history>>
    BY <1>3, ReadingIs
  <2>2. ServiceOK'
    BY <1>1, <2>1 DEF ServiceOK, PricesAreCloses
  <2>3. WorldOK' /\ InFlight' = InFlight /\ CallsTyped'
    BY <1>1, <2>1 DEF WorldOK, CallsTyped, history, calls, InFlight
  <2>4. \A t \in Slots : CallOK(t)'
    BY <1>1, <2>1, OthersOK DEF calls, history
  <2> QED
    BY <2>2, <2>3, <2>4 DEF SimTypes
<1>4. ASSUME NEW s \in Slots, Placing(s) PROVE SimTypes'
  <2>1. PICK order \in Menu : place(s, order)
    BY <1>4 DEF Placing
  <2> DEFINE r == Reservation(ledger, order)
  <2>2. /\ order \in Orders /\ r \in Reservations /\ r.order = order
        /\ r.generation = ledger.generation /\ Holds(r)
        /\ at[s] = "unsent" /\ at' = [at EXCEPT ![s] = "sent"]
        /\ held' = [held EXCEPT ![s] = r]
        /\ beside' = [beside EXCEPT ![s] = InFlight]
        /\ IsLedger(ledger') /\ ledger'.generation = ledger.generation
        /\ ledger'.prices = ledger.prices /\ DOMAIN ledger'.users = DOMAIN ledger.users
        /\ Note("overlap", reads # {})
        /\ UNCHANGED <<reseeding, reads, execution, row, portfolio, filled>>
    BY <2>1, PlacingIs
  <2> HIDE DEF r
  <2>3. ServiceOK'
    BY <1>1, <2>2 DEF ServiceOK, PricesAreCloses
  <2>4. WorldOK'
    BY <1>1, <2>2 DEF WorldOK, Note, InFlight
  <2>5. InFlight' = InFlight \cup {s}
    BY <1>1, <2>2 DEF CallsTyped, InFlight
  <2>6. IsFiniteSet(InFlight')
    BY <1>1, <2>5, FS_AddElement DEF CallsTyped
  <2>7. CallsTyped'
    BY <1>1, <2>2, <2>6 DEF CallsTyped, Positions
  <2>8. ASSUME NEW t \in Slots \ {s} PROVE CallOK(t)'
    BY <1>1, <2>2, OthersOK DEF CallsTyped
  <2>9. CallOK(s)'
    <3>1. /\ at'[s] = "sent" /\ held'[s] = r /\ execution'[s] = execution[s] /\ row'[s] = row[s]
          /\ s \in InFlight'
      BY <1>1, <2>2, <2>5 DEF CallsTyped
    <3>2. CallOK(s)
      BY <1>1
    <3>3. r # NoReservation
      BY <2>2, NothingIsNothing
    <3>4. Holds(held'[s])
      BY <2>2, <3>1
    <3> QED
      BY <1>1, <2>2, <3>1, <3>2, <3>3, <3>4 DEF CallOK
  <2> QED
    BY <2>3, <2>4, <2>7, <2>8, <2>9 DEF SimTypes
<1>5. ASSUME NEW s \in Slots, Executing(s) PROVE SimTypes'
  <2>1. PICK order \in Orders, d \in Decisions :
          /\ d # NoExecution /\ DecidedFor(order, d)
          /\ portfolio' \in [Users -> Portfolios]
          /\ filled' = IF Fills(d) THEN filled \cup {s} ELSE filled
          /\ \/ /\ at[s] = "sent" /\ at' = [at EXCEPT ![s] = "executed"]
                /\ order = held[s].order
                /\ execution' = [execution EXCEPT ![s] = d]
                /\ Note("overtaken", Overtakes(s))
             \/ /\ at[s] = "late" /\ at' = [at EXCEPT ![s] = "done"]
                /\ order = row[s].order
                /\ execution' = execution
                /\ Note("late", TRUE)
          /\ UNCHANGED <<service, held, row, beside>>
    BY <1>5, ExecutingIs
  <2>2. ServiceOK'
    BY <1>1, <2>1 DEF ServiceOK, service
  <2>3. WorldOK'
    BY <1>1, <2>1 DEF WorldOK, Note
  <2>4. InFlight' = InFlight
    BY <1>1, <2>1 DEF CallsTyped, InFlight
  <2>5. CallsTyped'
    BY <1>1, <2>1, <2>4 DEF CallsTyped, Positions
  <2>6. ASSUME NEW t \in Slots \ {s} PROVE CallOK(t)'
    <3>1. /\ at'[t] = at[t] /\ held'[t] = held[t] /\ execution'[t] = execution[t]
          /\ row'[t] = row[t] /\ (t \in filled' <=> t \in filled)
      BY <1>1, <2>1 DEF CallsTyped
    <3> QED
      BY <1>1, <2>1, <3>1, OthersOK DEF service
  <2>7. CallOK(s)'
    <3>1. CallOK(s) /\ (s \in InFlight' <=> s \in InFlight) /\ held' = held /\ row' = row
          /\ ledger' = ledger
      BY <1>1, <2>1, <2>4 DEF service
    <3>2. Holds(held[s]) => Holds(held'[s])
      BY <3>1
    <3>3. CASE at[s] = "sent"
      <4>1. at'[s] = "executed" /\ execution'[s] = d /\ order = held[s].order
        BY <1>1, <2>1, <3>3 DEF CallsTyped
      <4>2. DecidedFor(held'[s].order, execution'[s])
        BY <2>1, <3>1, <4>1
      <4> QED
        BY <3>1, <3>2, <3>3, <4>1, <4>2 DEF CallOK
    <3>4. CASE at[s] = "late"
      <4>1. at'[s] = "done" /\ execution'[s] = execution[s]
        BY <1>1, <2>1, <3>4 DEF CallsTyped
      <4> QED
        BY <3>1, <3>2, <3>4, <4>1 DEF CallOK
    <3> QED
      BY <2>1, <3>3, <3>4
  <2> QED
    BY <2>2, <2>3, <2>5, <2>6, <2>7 DEF SimTypes
<1>6. ASSUME NEW s \in Slots, Shed(s) PROVE SimTypes'
  <2>1. /\ at[s] = "sent" /\ at' = [at EXCEPT ![s] = "executed"]
        /\ UNCHANGED <<ledger, reseeding, reads, held, execution, row, portfolio, filled, beside, mishaps>>
    BY <1>6 DEF Shed, service, history
  <2>2. ServiceOK' /\ WorldOK'
    BY <1>1, <2>1 DEF ServiceOK, WorldOK
  <2>3. InFlight' = InFlight
    BY <1>1, <2>1 DEF CallsTyped, InFlight
  <2>4. CallsTyped'
    BY <1>1, <2>1, <2>3 DEF CallsTyped, Positions
  <2>5. ASSUME NEW t \in Slots \ {s} PROVE CallOK(t)'
    BY <1>1, <2>1, OthersOK DEF CallsTyped
  <2>6. CallOK(s)'
    <3>1. CallOK(s) /\ at'[s] = "executed" /\ (s \in InFlight' <=> s \in InFlight)
      BY <1>1, <2>1, <2>3 DEF CallsTyped
    <3>2. /\ Holds(held[s]) => Holds(held'[s])
          /\ DecidedFor(held[s].order, execution[s]) => DecidedFor(held'[s].order, execution'[s])
      BY <2>1
    <3> QED
      BY <2>1, <3>1, <3>2 DEF CallOK
  <2> QED
    BY <2>2, <2>4, <2>5, <2>6 DEF SimTypes
<1>7. ASSUME NEW s \in Slots, Returning(s) PROVE SimTypes'
  <2>1. s \in InFlight /\ Settled(s) /\ UserOf(s) \in Users
    BY <1>7, ReturningSettles, FlightIs
  <2>2. PICK position \in {"late", "done"}, actual \in ORDER_STATUSES \cup {"none"} :
         /\ at' = [at EXCEPT ![s] = position]
         /\ held' = [held EXCEPT ![s] = NoReservation]
         /\ execution' = [execution EXCEPT ![s] = NoExecution]
         /\ row' = [row EXCEPT ![s] = [order |-> held[s].order,
                                       expected |-> held[s].expectation,
                                       actual |-> actual]]
         /\ \/ UNCHANGED <<reseeding, reads>>
            \/ /\ reseeding' = reseeding \cup {UserOf(s)}
               /\ reads' = reads \cup {Asked(UserOf(s), ledger'.generation, "one")}
         /\ UNCHANGED <<portfolio, filled, beside, mishaps>>
    BY <1>7, ReturningIs
  <2>3. /\ IsLedger(ledger') /\ ledger'.generation = ledger.generation
        /\ DOMAIN ledger'.users = DOMAIN ledger.users
        /\ PricesAreCloses(ledger')
    BY <2>1 DEF Settled
  <2>4. Asked(UserOf(s), ledger'.generation, "one") \in Reads
    BY <1>1, <2>1, <2>3 DEF Asked, Reads
  <2>5. ServiceOK'
    BY <1>1, <2>1, <2>2, <2>3, <2>4 DEF ServiceOK
  <2>6. WorldOK'
    BY <1>1, <2>2 DEF WorldOK
  <2>7. InFlight' = InFlight \ {s}
    BY <1>1, <2>2 DEF CallsTyped, InFlight
  <2>8. IsFiniteSet(InFlight')
    BY <1>1, <2>7, FS_RemoveElement DEF CallsTyped
  <2>9. [order |-> held[s].order, expected |-> held[s].expectation, actual |-> actual] \in Attempts
    BY <2>1, FlightIs DEF Attempts, Reservations
  <2>10. CallsTyped'
    BY <1>1, <2>2, <2>8, <2>9 DEF CallsTyped, Positions
  <2>11. ASSUME NEW t \in Slots \ {s} PROVE CallOK(t)'
    BY <1>1, <2>2, <2>3, OthersOK DEF CallsTyped
  <2>12. CallOK(s)'
    <3>1. /\ at'[s] = position /\ held'[s] = NoReservation /\ execution'[s] = NoExecution
          /\ row'[s].order = held[s].order /\ s \notin InFlight'
      BY <1>1, <2>2, <2>7 DEF CallsTyped
    <3>2. held[s].order \in Orders
      BY <2>1, FlightIs
    <3> QED
      BY <3>1, <3>2 DEF CallOK
  <2> QED
    BY <2>5, <2>6, <2>10, <2>11, <2>12 DEF SimTypes
<1>8. CASE UNCHANGED simVars
  BY <1>1, <1>8 DEF SimTypes, ServiceOK, WorldOK, CallsTyped, CallOK, InFlight, simVars, service,
     calls, history
<1> QED
  BY <1>2, <1>3, <1>4, <1>5, <1>6, <1>7, <1>8, NextIs

-----------------------------------------------------------------------------
(***************************************************************************)
(* The books balance.                                                      *)
(***************************************************************************)
Balanced(u) ==
  /\ ledger.users[u].outstanding = Cardinality(Owed(u))
  /\ ledger.users[u].heldCash = SumFunction([s \in Owed(u) |-> held[s].heldCash])
  /\ \A i \in Instruments :
       ledger.users[u].heldShares[i] = SumFunction([s \in Owed(u) |-> SharesHeld(s, i)])

Balance == \A u \in DOMAIN ledger.users : Balanced(u)

LEMMA OwedIs ==
  ASSUME SimTypes, NEW u
  PROVE  /\ IsFiniteSet(Owed(u)) /\ Owed(u) \subseteq Slots
         /\ [s \in Owed(u) |-> held[s].heldCash] \in [Owed(u) -> Int]
         /\ \A i \in Instruments : [s \in Owed(u) |-> SharesHeld(s, i)] \in [Owed(u) -> Int]
<1>1. Owed(u) \subseteq InFlight /\ InFlight \subseteq Slots /\ IsFiniteSet(InFlight)
  BY DEF Owed, InFlight, SimTypes, CallsTyped
<1>2. IsFiniteSet(Owed(u))
  BY <1>1, FS_Subset
<1>3. \A s \in Owed(u) : held[s].heldCash \in Int /\ held[s].heldShares \in Int
  BY <1>1, FlightIs DEF Reservations
<1> QED
  BY <1>1, <1>2, <1>3 DEF SharesHeld

(* Nobody's books change by what leaves them alone.                        *)
LEMMA SameBooks ==
  ASSUME SimTypes, NEW u, Balanced(u), Owed(u)' = Owed(u),
         \A s \in Owed(u) : held'[s] = held[s],
         ledger'.users[u].outstanding = ledger.users[u].outstanding,
         ledger'.users[u].heldCash = ledger.users[u].heldCash,
         ledger'.users[u].heldShares = ledger.users[u].heldShares
  PROVE  Balanced(u)'
<1>1. [s \in Owed(u)' |-> held'[s].heldCash] = [s \in Owed(u) |-> held[s].heldCash]
  OBVIOUS
<1>2. \A i : [s \in Owed(u)' |-> SharesHeld(s, i)'] = [s \in Owed(u) |-> SharesHeld(s, i)]
  BY DEF SharesHeld
<1> QED
  BY <1>1, <1>2 DEF Balanced

LEMMA PlacingBalances ==
  ASSUME SimTypes, Balance, NEW s \in Slots, Placing(s)
  PROVE  Balance'
<1>1. PICK order \in Menu : place(s, order)
  BY DEF Placing
<1> DEFINE r == Reservation(ledger, order)  u == order.userId
<1>2. /\ order \in Orders /\ r \in Reservations /\ r.order = order
      /\ r.generation = ledger.generation
      /\ at[s] = "unsent" /\ at' = [at EXCEPT ![s] = "sent"]
      /\ held' = [held EXCEPT ![s] = r]
      /\ ledger'.generation = ledger.generation
      /\ DOMAIN ledger'.users = DOMAIN ledger.users
      /\ \A v \in DOMAIN ledger.users \ {u} : ledger'.users[v] = ledger.users[v]
      /\ u \in DOMAIN ledger.users => Held(ledger.users[u], ledger'.users[u], r)
  BY <1>1, PlacingIs
<1> HIDE DEF r
<1>3. /\ held'[s] = r /\ \A t \in Slots \ {s} : held'[t] = held[t]
      /\ InFlight' = InFlight \cup {s} /\ s \notin InFlight
  BY <1>2 DEF SimTypes, CallsTyped, InFlight
<1>4. \A v : Owed(v)' = IF v = u THEN Owed(v) \cup {s} ELSE Owed(v)
  BY <1>2, <1>3 DEF Owed, UserOf, InFlight
<1>5. \A v : s \notin Owed(v)
  BY <1>3 DEF Owed
<1>6. ASSUME NEW v \in DOMAIN ledger.users \ {u} PROVE Balanced(v)'
  BY <1>2, <1>3, <1>4, <1>5, <1>6, OwedIs, SameBooks DEF Balance
<1>7. ASSUME u \in DOMAIN ledger.users PROVE Balanced(u)'
  <2> DEFINE S == Owed(u)  T == Owed(u) \cup {s}
             cash == [t \in S |-> held[t].heldCash]
             cashNow == [t \in T |-> held'[t].heldCash]
  <2>1. /\ IsFiniteSet(S) /\ S \subseteq Slots \ {s} /\ cash \in [S -> Int]
        /\ Owed(u)' = T /\ T \ {s} = S /\ s \in T /\ IsFiniteSet(T)
    BY <1>4, <1>5, OwedIs, FS_AddElement
  <2>2. /\ Balanced(u) /\ ledger.users[u] \in Shadows
        /\ Held(ledger.users[u], ledger'.users[u], r)
    BY <1>2, <1>7 DEF Balance, SimTypes, ServiceOK, IsLedger
  <2>3. Cardinality(T) = Cardinality(S) + 1
    BY <1>5, <2>1, FS_AddElement
  <2>4. r.heldCash \in Int /\ \A i \in Instruments : HeldFor(r, i) \in Int
    BY <1>2 DEF Reservations, HeldFor
  <2>5. \A t \in S : held'[t] = held[t] /\ \A i \in Instruments : SharesHeld(t, i)' = SharesHeld(t, i)
    BY <1>3, <2>1 DEF SharesHeld
  <2>6. /\ held'[s].heldCash = r.heldCash
        /\ \A i \in Instruments : SharesHeld(s, i)' = HeldFor(r, i)
    BY <1>3 DEF SharesHeld, HeldFor
  <2>12. T = S \cup {s} /\ s \notin S
    BY <2>1
  <2> HIDE DEF S, T
  <2>7. SumFunction(cashNow) = r.heldCash + SumFunction(cash)
    <3>1. cashNow \in [T -> Int] /\ cashNow[s] = r.heldCash /\ \A t \in S : cashNow[t] = cash[t]
      <4>1. \A t \in T : t \in S \/ t = s
        BY <2>1
      <4>2. \A t \in S : held[t].heldCash \in Int
        BY <2>1
      <4> QED
        BY <2>1, <2>4, <2>5, <2>6, <4>1, <4>2
    <3> HIDE DEF cash, cashNow
    <3> QED
      BY <2>1, <2>12, <3>1, SumJoined
  <2>8. ASSUME NEW i \in Instruments
        PROVE  SumFunction([t \in T |-> SharesHeld(t, i)'])
                 = HeldFor(r, i) + SumFunction([t \in S |-> SharesHeld(t, i)])
    <3> DEFINE shares == [t \in S |-> SharesHeld(t, i)]
               sharesNow == [t \in T |-> SharesHeld(t, i)']
    <3>1. shares \in [S -> Int]
      BY OwedIs DEF S
    <3>2. /\ sharesNow \in [T -> Int] /\ sharesNow[s] = HeldFor(r, i)
          /\ \A t \in S : sharesNow[t] = shares[t]
      <4>1. \A t \in T : t \in S \/ t = s
        BY <2>1
      <4>2. \A t \in S : SharesHeld(t, i) \in Int
        BY <3>1
      <4> QED
        BY <2>1, <2>4, <2>5, <2>6, <4>1, <4>2
    <3> HIDE DEF shares, sharesNow
    <3>3. IsFiniteSet(S) /\ s \notin S /\ sharesNow \in [S \cup {s} -> Int]
          /\ \A t \in S : sharesNow[t] = shares[t]
      BY <2>1, <2>12, <3>2
    <3>4. SumFunction(sharesNow) = sharesNow[s] + SumFunction(shares)
      BY <3>1, <3>3, SumJoined
    <3> QED
      BY <3>2, <3>4 DEF shares, sharesNow
  <2>9. /\ ledger.users[u].outstanding = Cardinality(S)
        /\ ledger.users[u].heldCash = SumFunction(cash)
        /\ ledger.users[u].heldCash \in Int
        /\ \A i \in Instruments :
             /\ ledger.users[u].heldShares[i] = SumFunction([t \in S |-> SharesHeld(t, i)])
             /\ ledger.users[u].heldShares[i] \in Int
    BY <2>2 DEF Balanced, Shadows, S
  <2>10. /\ ledger'.users[u].outstanding = Cardinality(T)
         /\ ledger'.users[u].heldCash = SumFunction(cashNow)
    BY <2>2, <2>3, <2>4, <2>7, <2>9 DEF Held
  <2>11. \A i \in Instruments :
           ledger'.users[u].heldShares[i] = SumFunction([t \in T |-> SharesHeld(t, i)'])
    <3>1. SUFFICES ASSUME NEW i \in Instruments
                   PROVE  ledger'.users[u].heldShares[i]
                            = SumFunction([t \in T |-> SharesHeld(t, i)'])
      OBVIOUS
    <3> DEFINE sum == SumFunction([t \in S |-> SharesHeld(t, i)])
               sumNow == SumFunction([t \in T |-> SharesHeld(t, i)'])
    <3>2. sumNow = HeldFor(r, i) + sum
      BY <2>8
    <3>3. ledger.users[u].heldShares[i] = sum /\ sum \in Int
      BY <2>9
    <3>4. HeldFor(r, i) \in Int
      BY <2>4
    <3>5. ledger'.users[u].heldShares[i] = ledger.users[u].heldShares[i] + HeldFor(r, i)
      BY <2>2 DEF Held
    <3> HIDE DEF sum, sumNow
    <3>6. ledger'.users[u].heldShares[i] = sumNow
      BY <3>2, <3>3, <3>4, <3>5
    <3> QED
      BY <3>6 DEF sumNow
  <2> QED
    BY <2>1, <2>10, <2>11 DEF Balanced
<1> QED
  BY <1>2, <1>6, <1>7 DEF Balance

LEMMA ReturningBalances ==
  ASSUME SimTypes, Balance, NEW s \in Slots, Returning(s)
  PROVE  Balance'
<1>9. PICK u : u = UserOf(s)
  OBVIOUS
<1>1. s \in InFlight /\ Settled(s) /\ held[s] \in Reservations /\ u = held[s].order.userId
  BY <1>9, ReturningSettles, FlightIs
<1>2. /\ \A t \in Slots \ {s} : held'[t] = held[t]
      /\ InFlight' = InFlight \ {s}
  BY ReturningIs DEF SimTypes, CallsTyped, InFlight
<1>3. /\ ledger'.generation = ledger.generation
      /\ DOMAIN ledger'.users = DOMAIN ledger.users
      /\ \A v \in DOMAIN ledger.users \ {u} : ledger'.users[v] = ledger.users[v]
      /\ ~ Current(ledger, held[s]) => ledger'.users = ledger.users
      /\ Current(ledger, held[s]) => Released(ledger.users[u], ledger'.users[u], held[s])
  BY <1>1, <1>9 DEF Settled
<1>4. \A v : Owed(v)' = Owed(v) \ {s}
  BY <1>2, <1>3 DEF Owed, UserOf, InFlight
<1>5. \A v : s \in Owed(v) <=> v = u /\ held[s].generation = ledger.generation
  BY <1>1, <1>9 DEF Owed
<1>6. ASSUME NEW v \in DOMAIN ledger.users, s \notin Owed(v) PROVE Balanced(v)'
  <2>1. Owed(v)' = Owed(v) /\ \A t \in Owed(v) : held'[t] = held[t]
    BY <1>2, <1>4, <1>6, OwedIs
  <2>2. ledger'.users[v] = ledger.users[v]
    BY <1>1, <1>3, <1>5, <1>6 DEF Current
  <2> QED
    BY <2>1, <2>2, SameBooks DEF Balance
<1>7. ASSUME u \in DOMAIN ledger.users, s \in Owed(u) PROVE Balanced(u)'
  <2> DEFINE S == Owed(u)  T == Owed(u) \ {s}
             cash == [t \in S |-> held[t].heldCash]
             cashNow == [t \in T |-> held'[t].heldCash]
  <2>1. /\ IsFiniteSet(S) /\ S \subseteq Slots /\ cash \in [S -> Int]
        /\ Owed(u)' = T /\ S = T \cup {s} /\ s \notin T
    <3>1. IsFiniteSet(S) /\ S \subseteq Slots /\ cash \in [S -> Int]
      BY OwedIs
    <3>2. S = T \cup {s} /\ s \notin T
      BY <1>7
    <3> QED
      BY <1>4, <3>1, <3>2
  <2>2. /\ Balanced(u) /\ ledger.users[u] \in Shadows
        /\ Released(ledger.users[u], ledger'.users[u], held[s])
    BY <1>1, <1>3, <1>5, <1>7 DEF Balance, SimTypes, ServiceOK, IsLedger, Current, Shadowed
  <2>3. IsFiniteSet(T) /\ Cardinality(T) = Cardinality(S) - 1 /\ Cardinality(S) \in Int
    BY <1>7, <2>1, FS_RemoveElement, FS_CardinalityType
  <2>4. held[s].heldCash \in Int /\ \A i \in Instruments : HeldFor(held[s], i) \in Int
    BY <1>1 DEF Reservations, HeldFor
  <2>5. \A t \in T : held'[t] = held[t] /\ \A i \in Instruments : SharesHeld(t, i)' = SharesHeld(t, i)
    BY <1>2, <2>1 DEF SharesHeld
  <2>6. \A i \in Instruments : SharesHeld(s, i) = HeldFor(held[s], i)
    BY DEF SharesHeld, HeldFor
  <2>7. \A i \in Instruments : [t \in S |-> SharesHeld(t, i)] \in [S -> Int]
    BY OwedIs
  <2> HIDE DEF S, T
  <2>8. SumFunction(cash) = held[s].heldCash + SumFunction(cashNow) /\ SumFunction(cashNow) \in Int
    <3>1. /\ cash \in [T \cup {s} -> Int] /\ cash[s] = held[s].heldCash
          /\ cashNow \in [T -> Int] /\ \A t \in T : cash[t] = cashNow[t]
      <4>1. \A t \in T : t \in S
        BY <2>1
      <4> QED
        BY <2>1, <2>5, <4>1
    <3> HIDE DEF cash, cashNow
    <3>2. SumFunction(cashNow) \in Int
      BY <2>3, <3>1, SumIsInt
    <3>3. s \notin T /\ IsFiniteSet(T)
      BY <2>1, <2>3
    <3>4. SumFunction(cash) = cash[s] + SumFunction(cashNow)
      BY <3>1, <3>3, SumJoined
    <3> QED
      BY <3>1, <3>2, <3>4
  <2>9. ASSUME NEW i \in Instruments
        PROVE  /\ SumFunction([t \in S |-> SharesHeld(t, i)])
                    = HeldFor(held[s], i) + SumFunction([t \in T |-> SharesHeld(t, i)'])
               /\ SumFunction([t \in T |-> SharesHeld(t, i)']) \in Int
    <3> DEFINE shares == [t \in S |-> SharesHeld(t, i)]
               sharesNow == [t \in T |-> SharesHeld(t, i)']
    <3>1. /\ shares \in [T \cup {s} -> Int] /\ shares[s] = HeldFor(held[s], i)
          /\ sharesNow \in [T -> Int] /\ \A t \in T : shares[t] = sharesNow[t]
      <4>1. \A t \in T : t \in S
        BY <2>1
      <4> QED
        BY <2>1, <2>5, <2>6, <2>7, <4>1
    <3> HIDE DEF shares, sharesNow
    <3>2. SumFunction(sharesNow) \in Int
      BY <2>3, <3>1, SumIsInt
    <3>3. s \notin T /\ IsFiniteSet(T)
      BY <2>1, <2>3
    <3>4. SumFunction(shares) = shares[s] + SumFunction(sharesNow)
      BY <3>1, <3>3, SumJoined
    <3> QED
      BY <3>1, <3>2, <3>4 DEF shares, sharesNow
  <2>10. /\ ledger.users[u].outstanding = Cardinality(S)
         /\ ledger.users[u].heldCash = SumFunction(cash)
         /\ ledger.users[u].heldCash \in Int
    BY <2>2 DEF Balanced, Shadows, S
  <2>11. /\ ledger'.users[u].outstanding = Cardinality(T)
         /\ ledger'.users[u].heldCash = SumFunction(cashNow)
    BY <2>2, <2>3, <2>4, <2>8, <2>10 DEF Released
  <2>12. ASSUME NEW i \in Instruments
         PROVE  ledger'.users[u].heldShares[i] = SumFunction([t \in T |-> SharesHeld(t, i)'])
    <3> DEFINE sum == SumFunction([t \in S |-> SharesHeld(t, i)])
               sumNow == SumFunction([t \in T |-> SharesHeld(t, i)'])
    <3>1. sum = HeldFor(held[s], i) + sumNow /\ sumNow \in Int
      BY <2>9
    <3>2. ledger.users[u].heldShares[i] = sum
      BY <2>2 DEF Balanced, S
    <3>3. HeldFor(held[s], i) \in Int
      BY <2>4
    <3>4. ledger'.users[u].heldShares[i] = ledger.users[u].heldShares[i] - HeldFor(held[s], i)
      BY <2>2 DEF Released
    <3> HIDE DEF sum, sumNow
    <3>5. ledger'.users[u].heldShares[i] = sumNow
      BY <3>1, <3>2, <3>3, <3>4
    <3> QED
      BY <3>5 DEF sumNow
  <2> QED
    BY <2>1, <2>11, <2>12 DEF Balanced
<1>8. ASSUME NEW v \in DOMAIN ledger.users, s \in Owed(v) PROVE v = u
  BY <1>5, <1>8
<1> QED
  BY <1>3, <1>6, <1>7, <1>8 DEF Balance

(* A shadow that is new owes nothing: nothing of its generation is out.    *)
LEMMA SeedingBalances ==
  ASSUME SimTypes, Seeding
  PROVE  Balance'
<1>1. PICK roster \in Rosters : seedUsers(roster)
  BY DEF Seeding
<1>2. /\ ledger'.generation = ledger.generation + 1
      /\ ledger'.users = [u \in roster |-> blank]
      /\ UNCHANGED calls
  BY <1>1, SeedingIs
<1>3. DOMAIN ledger'.users = roster
  BY <1>2
<1>9. SUFFICES ASSUME NEW u \in roster PROVE Balanced(u)'
  BY <1>3 DEF Balance
<1>4. Owed(u)' = {}
  <2>1. \A s \in InFlight : /\ held[s].generation \in Nat /\ ledger.generation \in Nat
                            /\ held[s].generation <= ledger.generation
    BY FlightIs DEF InFlight, Reservations, SimTypes, ServiceOK, CallOK
  <2>2. \A s \in InFlight : held[s].generation # ledger.generation + 1
    BY <2>1
  <2> QED
    BY <1>2, <2>2 DEF Owed, InFlight, calls
<1>5. Cardinality({}) = 0
  BY FS_EmptySet
<1>6. \A f \in [{} -> Int] : SumFunction(f) = 0
  BY SumOfNone
<1>7. /\ [s \in Owed(u)' |-> held'[s].heldCash] \in [{} -> Int]
      /\ \A i : [s \in Owed(u)' |-> SharesHeld(s, i)'] \in [{} -> Int]
  BY <1>4
<1>8. /\ ledger'.users[u].outstanding = 0 /\ ledger'.users[u].heldCash = 0
      /\ \A i \in Instruments : ledger'.users[u].heldShares[i] = 0
  BY <1>2 DEF blank, NoShares
<1>10. SumFunction([s \in Owed(u)' |-> held'[s].heldCash]) = 0
  BY <1>6, <1>7
<1>11. \A i \in Instruments : SumFunction([s \in Owed(u)' |-> SharesHeld(s, i)']) = 0
  BY <1>6, <1>7
<1> QED
  BY <1>4, <1>5, <1>8, <1>10, <1>11 DEF Balanced

LEMMA NextBalances == SimTypes /\ Balance /\ [Next]_simVars => Balance'
<1> SUFFICES ASSUME SimTypes, Balance, [Next]_simVars PROVE Balance'
  OBVIOUS
<1>1. \A u : Owed(u) \subseteq Slots
  BY OwedIs
<1>2. CASE Seeding
  BY <1>2, SeedingBalances
<1>3. CASE Reading
  <2>1. /\ ledger'.generation = ledger.generation /\ DOMAIN ledger'.users = DOMAIN ledger.users
        /\ UNCHANGED calls
    BY <1>3, ReadingIs
  <2>2. \A u : Owed(u)' = Owed(u)
    BY <2>1 DEF Owed, InFlight, UserOf, calls
  <2>3. ASSUME NEW u \in DOMAIN ledger.users
        PROVE  /\ ledger'.users[u].outstanding = ledger.users[u].outstanding
               /\ ledger'.users[u].heldCash = ledger.users[u].heldCash
               /\ ledger'.users[u].heldShares = ledger.users[u].heldShares
    <3>1. PICK read \in reads : ReadPortfolio(read) \/ seedUser(read) \/ FailRead(read)
      BY <1>3 DEF Reading
    <3>2. CASE ledger' = ledger
      BY <3>2
    <3>3. CASE seedUser(read)
      <4>1. /\ ledger' = seed(ledger, read.generation, read.user, read.seen)
            /\ read.seen \in Portfolios /\ IsLedger(ledger)
        BY <3>1, <3>3 DEF seedUser, SimTypes, ServiceOK, Reads
      <4>2. \/ ledger' = ledger
            \/ /\ DiffersAt(ledger, ledger', read.user)
               /\ ledger'.users[read.user].outstanding = ledger.users[read.user].outstanding
               /\ ledger'.users[read.user].heldCash = ledger.users[read.user].heldCash
               /\ ledger'.users[read.user].heldShares = ledger.users[read.user].heldShares
        BY <4>1, SeedIs
      <4> QED
        BY <4>2 DEF DiffersAt
    <3> QED
      BY <3>1, <3>2, <3>3 DEF ReadPortfolio, FailRead
  <2>4. ASSUME NEW u \in DOMAIN ledger.users PROVE Balanced(u)'
    <3>1. \A t \in Owed(u) : held'[t] = held[t]
      BY <2>1 DEF calls
    <3>2. Balanced(u)
      BY DEF Balance
    <3> QED
      BY <2>2, <2>3, <3>1, <3>2, SameBooks
  <2> QED
    BY <2>1, <2>4 DEF Balance
<1>4. ASSUME NEW s \in Slots, Executing(s) \/ Shed(s) PROVE Balance'
  <2>1. ledger' = ledger /\ held' = held /\ InFlight' = InFlight
    <3>1. CASE Executing(s)
      BY <3>1 DEF Executing, Execute, LateCommit, service, SimTypes, CallsTyped, InFlight
    <3>2. CASE Shed(s)
      BY <3>2 DEF Shed, service, SimTypes, CallsTyped, InFlight
    <3> QED
      BY <1>4, <3>1, <3>2
  <2>2. \A u : Owed(u)' = Owed(u)
    BY <2>1 DEF Owed, UserOf
  <2>3. ASSUME NEW u \in DOMAIN ledger.users PROVE Balanced(u)'
    BY <2>1, <2>2, SameBooks DEF Balance
  <2> QED
    BY <2>1, <2>3 DEF Balance
<1>5. CASE UNCHANGED simVars
  <2>1. ledger' = ledger /\ held' = held /\ InFlight' = InFlight
    BY <1>5 DEF simVars, service, calls, InFlight
  <2>2. \A u : Owed(u)' = Owed(u)
    BY <2>1 DEF Owed, UserOf
  <2>3. ASSUME NEW u \in DOMAIN ledger.users PROVE Balanced(u)'
    BY <2>1, <2>2, SameBooks DEF Balance
  <2> QED
    BY <2>1, <2>3 DEF Balance
<1> QED
  BY <1>2, <1>3, <1>4, <1>5, NextIs, PlacingBalances, ReturningBalances

LEMMA InitBalances == Init => Balance
<1>1. Init => DOMAIN ledger.users = {}
  BY DEF Init, empty
<1> QED
  BY <1>1 DEF Balance

LEMMA TypesSuffice == SimTypes => TypeOK
<1> SUFFICES ASSUME SimTypes PROVE TypeOK
  OBVIOUS
<1>1. ledger.prices \in [Instruments -> {Unlearnt} \cup Nat]
  <2>1. \A i \in Instruments : ledger.prices[i] \in {Unlearnt} \cup Nat
    BY SimulationAssumption DEF SimTypes, ServiceOK, PricesAreCloses
  <2>2. ledger.prices \in [Instruments -> Int \cup {Unlearnt}]
    BY DEF SimTypes, ServiceOK, IsLedger
  <2> QED
    BY <2>1, <2>2
<1> QED
  BY <1>1 DEF SimTypes, ServiceOK, WorldOK, CallOK, TypeOK

(* A step of the checks for drift is a step of the simulation, or none.    *)
LEMMA StepsOfDrift == [Next]_vars \/ [DriftNext]_allVars => [Next]_simVars
<1>1. [Next]_vars => [Next]_simVars
  BY DEF vars, simVars
<1>2. (\E u \in Users : readBalance(u)) => UNCHANGED simVars
  BY DEF readBalance, simVars
<1>3. checkDrift \/ compare => UNCHANGED simVars
  BY DEF checkDrift, compare, vars, simVars
<1>4. UNCHANGED allVars => UNCHANGED simVars
  BY DEF allVars, vars, simVars
<1> QED
  BY <1>1, <1>2, <1>3, <1>4 DEF DriftNext

-----------------------------------------------------------------------------
(***************************************************************************)
(* The shadow is right: while only overtaking happened, what a trusted     *)
(* user owns in the shadow, and what its executed orders are to add to it, *)
(* is what it owns at the API; and a portfolio read is what the user still *)
(* owns, for it has nothing in flight.                                     *)
(***************************************************************************)
Fresh == mishaps \subseteq {"overtaken"}

CashOut(s) == CashMove(held[s].order, execution[s])

SharesOut(s, i) == SharesMove(held[s].order, execution[s], i)

Agrees(u) ==
  /\ ledger.users[u].cash + SumFunction([s \in Owed(u) |-> CashOut(s)]) = portfolio[u].cash
  /\ \A i \in Instruments :
       ledger.users[u].shares[i] + SumFunction([s \in Owed(u) |-> SharesOut(s, i)])
         = portfolio[u].shares[i]

Timely == \A s \in InFlight : held[s].generation = ledger.generation

AllQuiet(u) == \A s \in InFlight : UserOf(s) # u

ReadsHold ==
  \A read \in reads :
    AllQuiet(read.user) /\ read.seen \in {NoOrder, portfolio[read.user]}

TrustIsEarned == \A u \in DOMAIN ledger.users : Trusted(ledger, u) => Agrees(u)

InStep == Timely /\ ReadsHold /\ TrustIsEarned

LEMMA MovesAreInts ==
  ASSUME NEW order \in Orders, NEW d \in Decisions \cup {NoExecution}
  PROVE  /\ CashMove(order, d) \in Int
         /\ \A i \in Instruments : SharesMove(order, d, i) \in Int
<1>1. Bought(order) \in Int
  BY CostIs DEF Bought
<1>2. d # NoExecution => d.price \in Int
  BY DEF Decisions
<1>3. \A a, b \in Int : a * b \in Int
  OBVIOUS
<1>4. d # NoExecution => d.price * Bought(order) \in Int
  BY <1>1, <1>2, <1>3
<1> DEFINE spent == d.price * Bought(order)
<1> HIDE DEF spent
<1>5. CashMove(order, d) = IF Fills(d) THEN - spent ELSE 0
  BY DEF CashMove, spent
<1>6. Fills(d) => spent \in Int
  BY <1>4 DEF spent, Fills
<1> QED
  BY <1>1, <1>5, <1>6 DEF SharesMove

LEMMA OutIs ==
  ASSUME SimTypes, NEW u
  PROVE  /\ [s \in Owed(u) |-> CashOut(s)] \in [Owed(u) -> Int]
         /\ \A i \in Instruments : [s \in Owed(u) |-> SharesOut(s, i)] \in [Owed(u) -> Int]
<1>1. ASSUME NEW s \in Owed(u)
      PROVE  CashOut(s) \in Int /\ \A i \in Instruments : SharesOut(s, i) \in Int
  <2>1. s \in InFlight /\ s \in Slots
    BY DEF Owed, InFlight
  <2>2. held[s].order \in Orders /\ execution[s] \in Decisions \cup {NoExecution}
    BY <2>1, FlightIs DEF SimTypes, CallsTyped
  <2> QED
    BY <2>2, MovesAreInts DEF CashOut, SharesOut
<1> QED
  BY <1>1

(* What agrees goes on to agree when a step leaves it alone.               *)
LEMMA SameAgrees ==
  ASSUME SimTypes, NEW u, Agrees(u), Owed(u)' = Owed(u),
         \A s \in Owed(u) : held'[s] = held[s] /\ execution'[s] = execution[s],
         SameHoldings(ledger.users[u], ledger'.users[u]), portfolio'[u] = portfolio[u]
  PROVE  Agrees(u)'
<1>1. [s \in Owed(u)' |-> CashOut(s)'] = [s \in Owed(u) |-> CashOut(s)]
  BY DEF CashOut
<1>2. \A i : [s \in Owed(u)' |-> SharesOut(s, i)'] = [s \in Owed(u) |-> SharesOut(s, i)]
  BY DEF SharesOut
<1> QED
  BY <1>1, <1>2 DEF Agrees, SameHoldings

LEMMA PlacingAgrees ==
  ASSUME SimTypes, NEW s \in Slots, NEW u \in DOMAIN ledger.users, Agrees(u),
         s \notin InFlight, InFlight' = InFlight \cup {s}, \A t \in Slots \ {s} : held'[t] = held[t],
         UserOf(s)' = u, held'[s].generation = ledger.generation,
         ledger'.generation = ledger.generation, execution' = execution,
         execution[s] = NoExecution,
         SameHoldings(ledger.users[u], ledger'.users[u]), portfolio' = portfolio
  PROVE  Agrees(u)'
<1> DEFINE S == Owed(u)  T == S \cup {s}
<1>1. Owed(u)' = S \cup {s} /\ s \notin S
  BY DEF Owed, UserOf, InFlight
<1>2. IsFiniteSet(S) /\ S \subseteq Slots \ {s}
  BY <1>1, OwedIs
<1>3. CashOut(s)' = 0 /\ \A i : SharesOut(s, i)' = 0
  BY DEF CashOut, SharesOut, CashMove, SharesMove, Fills
<1>4. \A t \in S : CashOut(t)' = CashOut(t) /\ \A i : SharesOut(t, i)' = SharesOut(t, i)
  BY <1>2 DEF CashOut, SharesOut
<1>5. /\ [t \in S |-> CashOut(t)] \in [S -> Int]
      /\ \A i \in Instruments : [t \in S |-> SharesOut(t, i)] \in [S -> Int]
  BY OutIs
<1>10. /\ IsFiniteSet(S) /\ s \notin S /\ T = S \cup {s} /\ s \in T
       /\ \A t \in T : t \in S \/ t = s
  BY <1>1, <1>2
<1> HIDE DEF S, T
<1>11. \A f \in [S -> Int] : \A e \in [T -> Int] :
         (\A t \in S : e[t] = f[t]) => SumFunction(e) = e[s] + SumFunction(f)
  BY <1>10, SumsJoined, Z3
<1>6. SumFunction([t \in T |-> CashOut(t)']) = SumFunction([t \in S |-> CashOut(t)])
  <2> DEFINE out == [t \in S |-> CashOut(t)]  outNow == [t \in T |-> CashOut(t)']
  <2>1. /\ out \in [S -> Int] /\ outNow \in [T -> Int] /\ outNow[s] = 0
        /\ \A t \in S : outNow[t] = out[t]
    BY <1>3, <1>4, <1>5, <1>10
  <2> HIDE DEF out, outNow
  <2>2. SumFunction(outNow) = outNow[s] + SumFunction(out)
    BY <1>11, <2>1
  <2>3. SumFunction(out) \in Int
    BY <1>2, <2>1, SumIsInt
  <2>4. SumFunction(outNow) = SumFunction(out)
    BY <2>1, <2>2, <2>3
  <2> QED
    BY <2>4 DEF out, outNow
<1>7. ASSUME NEW i \in Instruments
      PROVE  SumFunction([t \in T |-> SharesOut(t, i)'])
               = SumFunction([t \in S |-> SharesOut(t, i)])
  <2> DEFINE out == [t \in S |-> SharesOut(t, i)]
             outNow == [t \in T |-> SharesOut(t, i)']
  <2>1. /\ out \in [S -> Int] /\ outNow \in [T -> Int] /\ outNow[s] = 0
        /\ \A t \in S : outNow[t] = out[t]
    BY <1>3, <1>4, <1>5, <1>10
  <2> HIDE DEF out, outNow
  <2>2. SumFunction(outNow) = outNow[s] + SumFunction(out)
    BY <1>11, <2>1
  <2>3. SumFunction(out) \in Int
    BY <1>2, <2>1, SumIsInt
  <2>4. SumFunction(outNow) = SumFunction(out)
    BY <2>1, <2>2, <2>3
  <2> QED
    BY <2>4 DEF out, outNow
<1>8. SumFunction([t \in Owed(u)' |-> CashOut(t)'])
        = SumFunction([t \in Owed(u) |-> CashOut(t)])
  BY <1>1, <1>6 DEF S, T
<1>9. \A i \in Instruments : SumFunction([t \in Owed(u)' |-> SharesOut(t, i)'])
                                = SumFunction([t \in Owed(u) |-> SharesOut(t, i)])
  BY <1>1, <1>7 DEF S, T
<1> QED
  BY <1>8, <1>9 DEF Agrees, SameHoldings

LEMMA ReturningAgrees ==
  ASSUME SimTypes, NEW s \in Slots, NEW u \in DOMAIN ledger.users, Agrees(u),
         s \in Owed(u), InFlight' = InFlight \ {s},
         \A t \in Slots \ {s} : held'[t] = held[t] /\ execution'[t] = execution[t],
         ledger'.generation = ledger.generation, ledger'.users[u] \in Shadows,
         Moved(ledger.users[u], ledger'.users[u], held[s].order, execution[s]),
         portfolio' = portfolio
  PROVE  Agrees(u)'
<1> DEFINE S == Owed(u) \ {s}  T == S \cup {s}
<1>1. Owed(u)' = S /\ s \notin S /\ Owed(u) = S \cup {s}
  BY DEF Owed, UserOf, InFlight
<1>2. IsFiniteSet(S) /\ S \subseteq Slots \ {s}
  BY OwedIs, FS_RemoveElement
<1>3. \A t \in S : CashOut(t)' = CashOut(t) /\ \A i \in Instruments : SharesOut(t, i)' = SharesOut(t, i)
  BY <1>2 DEF CashOut, SharesOut
<1>4. /\ [t \in T |-> CashOut(t)] \in [T -> Int]
      /\ \A i \in Instruments : [t \in T |-> SharesOut(t, i)] \in [T -> Int]
  BY <1>1, OutIs
<1>5. /\ ledger.users[u].cash \in Int
      /\ \A i \in Instruments : ledger.users[u].shares[i] \in Int
  BY DEF SimTypes, ServiceOK, IsLedger, Shadows
<1>6. /\ ledger'.users[u].cash = ledger.users[u].cash + CashOut(s)
      /\ \A i \in Instruments :
           ledger'.users[u].shares[i] = ledger.users[u].shares[i] + SharesOut(s, i)
  BY DEF Moved, CashOut, SharesOut
<1>10. /\ IsFiniteSet(S) /\ s \notin S /\ T = S \cup {s} /\ s \in T
       /\ \A t \in T : t \in S \/ t = s
  BY <1>1, <1>2
<1> HIDE DEF S, T
<1>11. \A f \in [S -> Int] : \A e \in [T -> Int] :
         (\A t \in S : e[t] = f[t]) => SumFunction(e) = e[s] + SumFunction(f)
  BY <1>10, SumsJoined, Z3
<1>7. /\ ledger.users[u].cash + SumFunction([t \in T |-> CashOut(t)]) = portfolio[u].cash
      /\ \A i \in Instruments :
           ledger.users[u].shares[i] + SumFunction([t \in T |-> SharesOut(t, i)])
             = portfolio[u].shares[i]
  BY <1>1 DEF Agrees, T
<1>8. ledger'.users[u].cash + SumFunction([t \in S |-> CashOut(t)']) = portfolio[u].cash
  <2> DEFINE out == [t \in T |-> CashOut(t)]  outNow == [t \in S |-> CashOut(t)']
  <2>1. /\ out \in [T -> Int] /\ outNow \in [S -> Int] /\ out[s] = CashOut(s)
        /\ out[s] \in Int /\ \A t \in S : out[t] = outNow[t]
    BY <1>3, <1>4, <1>10
  <2>2. ledger.users[u].cash + SumFunction(out) = portfolio[u].cash
    BY <1>7
  <2> HIDE DEF out, outNow
  <2>3. SumFunction(out) = out[s] + SumFunction(outNow)
    BY <1>11, <2>1
  <2>4. SumFunction(outNow) \in Int
    BY <1>2, <2>1, SumIsInt
  <2>5. ledger'.users[u].cash + SumFunction(outNow) = portfolio[u].cash
    BY <1>5, <1>6, <2>1, <2>2, <2>3, <2>4
  <2> QED
    BY <2>5 DEF outNow
<1>9. ASSUME NEW i \in Instruments
      PROVE  ledger'.users[u].shares[i] + SumFunction([t \in S |-> SharesOut(t, i)'])
               = portfolio[u].shares[i]
  <2> DEFINE out == [t \in T |-> SharesOut(t, i)]
             outNow == [t \in S |-> SharesOut(t, i)']
  <2>1. /\ out \in [T -> Int] /\ outNow \in [S -> Int] /\ out[s] = SharesOut(s, i)
        /\ out[s] \in Int /\ \A t \in S : out[t] = outNow[t]
    BY <1>3, <1>4, <1>10
  <2>2. ledger.users[u].shares[i] + SumFunction(out) = portfolio[u].shares[i]
    BY <1>7
  <2> HIDE DEF out, outNow
  <2>3. SumFunction(out) = out[s] + SumFunction(outNow)
    BY <1>11, <2>1
  <2>4. SumFunction(outNow) \in Int
    BY <1>2, <2>1, SumIsInt
  <2>5. ledger'.users[u].shares[i] + SumFunction(outNow) = portfolio[u].shares[i]
    BY <1>5, <1>6, <2>1, <2>2, <2>3, <2>4
  <2> QED
    BY <2>5 DEF outNow
<1> QED
  BY <1>1, <1>8, <1>9 DEF Agrees

LEMMA ExecutingAgrees ==
  ASSUME SimTypes, NEW s \in Slots, NEW u \in DOMAIN ledger.users, Agrees(u),
         s \in Owed(u), execution[s] = NoExecution, Owed(u)' = Owed(u),
         NEW d \in Decisions, execution'[s] = d,
         \A t \in Slots \ {s} : execution'[t] = execution[t],
         held' = held, ledger' = ledger, u \in Users, portfolio' \in [Users -> Portfolios],
         Moved(portfolio[u], portfolio'[u], held[s].order, d)
  PROVE  Agrees(u)'
<1> DEFINE S == Owed(u)
<1>1. /\ IsFiniteSet(S) /\ S \subseteq Slots /\ s \in S
      /\ held[s].order \in Orders /\ portfolio[u] \in Portfolios
  BY OwedIs, FlightIs DEF SimTypes, WorldOK, Owed
<1>2. /\ CashOut(s) = 0 /\ CashOut(s)' = CashMove(held[s].order, d)
      /\ \A i : SharesOut(s, i) = 0 /\ SharesOut(s, i)' = SharesMove(held[s].order, d, i)
  BY DEF CashOut, SharesOut, CashMove, SharesMove, Fills
<1>3. \A t \in S \ {s} : CashOut(t)' = CashOut(t) /\ \A i : SharesOut(t, i)' = SharesOut(t, i)
  BY <1>1 DEF CashOut, SharesOut
<1>4. /\ [t \in S |-> CashOut(t)] \in [S -> Int]
      /\ \A i \in Instruments : [t \in S |-> SharesOut(t, i)] \in [S -> Int]
  BY OutIs
<1>5. /\ ledger.users[u].cash \in Int
      /\ \A i \in Instruments : ledger.users[u].shares[i] \in Int
  BY DEF SimTypes, ServiceOK, IsLedger, Shadows
<1>6. /\ CashMove(held[s].order, d) \in Int
      /\ \A i \in Instruments : SharesMove(held[s].order, d, i) \in Int
  BY <1>1, MovesAreInts
<1>7. /\ portfolio'[u].cash = portfolio[u].cash + CashMove(held[s].order, d)
      /\ \A i \in Instruments :
           portfolio'[u].shares[i] = portfolio[u].shares[i] + SharesMove(held[s].order, d, i)
  BY DEF Moved
<1>8. /\ ledger.users[u].cash + SumFunction([t \in S |-> CashOut(t)]) = portfolio[u].cash
      /\ \A i \in Instruments :
           ledger.users[u].shares[i] + SumFunction([t \in S |-> SharesOut(t, i)])
             = portfolio[u].shares[i]
  BY DEF Agrees
<1> HIDE DEF S
<1>9. ledger.users[u].cash + SumFunction([t \in S |-> CashOut(t)']) = portfolio'[u].cash
  <2> DEFINE out == [t \in S |-> CashOut(t)]  outNow == [t \in S |-> CashOut(t)']
  <2>1. /\ out \in [S -> Int] /\ outNow \in [S -> Int] /\ out[s] = 0
        /\ outNow[s] = CashMove(held[s].order, d) /\ outNow[s] \in Int
        /\ \A t \in S \ {s} : outNow[t] = out[t]
    <3>1. \A t \in S : CashOut(t)' \in Int
      <4>1. \A t \in S : CashOut(t) \in Int
        BY <1>4
      <4> QED
        BY <1>2, <1>3, <1>6, <4>1
    <3> QED
      BY <1>1, <1>2, <1>3, <1>4, <1>6, <3>1
  <2>2. ledger.users[u].cash + SumFunction(out) = portfolio[u].cash
    BY <1>8
  <2> HIDE DEF out, outNow
  <2>3. SumFunction(outNow) = SumFunction(out) + outNow[s] - out[s]
    <3>1. IsFiniteSet(S) /\ s \in S
      BY <1>1
    <3> QED
      BY <2>1, <3>1, SumAt
  <2>4. SumFunction(out) \in Int
    BY <1>1, <2>1, SumIsInt
  <2>5. ledger.users[u].cash + SumFunction(outNow) = portfolio'[u].cash
    BY <1>5, <1>7, <2>1, <2>2, <2>3, <2>4
  <2> QED
    BY <2>5 DEF outNow
<1>10. ASSUME NEW i \in Instruments
       PROVE  ledger.users[u].shares[i] + SumFunction([t \in S |-> SharesOut(t, i)'])
                = portfolio'[u].shares[i]
  <2> DEFINE out == [t \in S |-> SharesOut(t, i)]  outNow == [t \in S |-> SharesOut(t, i)']
  <2>1. /\ out \in [S -> Int] /\ outNow \in [S -> Int] /\ out[s] = 0
        /\ outNow[s] = SharesMove(held[s].order, d, i) /\ outNow[s] \in Int
        /\ \A t \in S \ {s} : outNow[t] = out[t]
    <3>1. \A t \in S : SharesOut(t, i)' \in Int
      <4>1. \A t \in S : SharesOut(t, i) \in Int
        BY <1>4
      <4> QED
        BY <1>2, <1>3, <1>6, <4>1
    <3> QED
      BY <1>1, <1>2, <1>3, <1>4, <1>6, <3>1
  <2>2. ledger.users[u].shares[i] + SumFunction(out) = portfolio[u].shares[i]
    BY <1>8
  <2> HIDE DEF out, outNow
  <2>3. SumFunction(outNow) = SumFunction(out) + outNow[s] - out[s]
    <3>1. IsFiniteSet(S) /\ s \in S
      BY <1>1
    <3> QED
      BY <2>1, <3>1, SumAt
  <2>4. SumFunction(out) \in Int
    BY <1>1, <2>1, SumIsInt
  <2>5. ledger.users[u].shares[i] + SumFunction(outNow) = portfolio'[u].shares[i]
    BY <1>5, <1>7, <2>1, <2>2, <2>3, <2>4
  <2> QED
    BY <2>5 DEF outNow
<1> QED
  BY <1>9, <1>10 DEF Agrees, S

LEMMA MishapsStay == SimTypes /\ [Next]_simVars => mishaps \subseteq mishaps'
<1> SUFFICES ASSUME SimTypes, [Next]_simVars PROVE mishaps \subseteq mishaps'
  OBVIOUS
<1>1. \A what, happens : Note(what, happens) => mishaps \subseteq mishaps'
  BY DEF Note
<1>2. Seeding => mishaps \subseteq mishaps'
  BY <1>1 DEF Seeding, seedUsers
<1>3. Reading => mishaps \subseteq mishaps'
  BY ReadingIs DEF history
<1>4. ASSUME NEW s \in Slots
      PROVE  /\ Placing(s) => mishaps \subseteq mishaps'
             /\ Executing(s) => mishaps \subseteq mishaps'
             /\ Shed(s) => mishaps \subseteq mishaps'
             /\ Returning(s) => mishaps \subseteq mishaps'
  BY <1>1 DEF Placing, place, Executing, Execute, LateCommit, Shed, Returning, Answer, Lose, history
<1>5. UNCHANGED simVars => mishaps \subseteq mishaps'
  BY DEF simVars, history
<1> QED
  BY <1>2, <1>3, <1>4, <1>5, NextIs

LEMMA NothingOut ==
  ASSUME SimTypes, NEW u, Owed(u) = {}
  PROVE  /\ SumFunction([s \in Owed(u) |-> CashOut(s)]) = 0
         /\ \A i \in Instruments : SumFunction([s \in Owed(u) |-> SharesOut(s, i)]) = 0
BY SumOfNone, OutIs

LEMMA ReadingInStep ==
  ASSUME SimTypes, SimTypes', InStep, Reading
  PROVE  InStep'
<1>1. /\ IsLedger(ledger') /\ ledger'.generation = ledger.generation
      /\ DOMAIN ledger'.users = DOMAIN ledger.users
      /\ UNCHANGED <<calls, portfolio, history>>
  BY ReadingIs
<1>2. InFlight' = InFlight /\ held' = held /\ execution' = execution /\ portfolio' = portfolio
  BY <1>1 DEF calls, InFlight
<1>3. Timely'
  BY <1>1, <1>2 DEF InStep, Timely
<1>4. PICK read \in reads : ReadPortfolio(read) \/ seedUser(read) \/ FailRead(read)
  BY DEF Reading
<1>5. AllQuiet(read.user) /\ read.seen \in {NoOrder, portfolio[read.user]} /\ read \in Reads
  BY <1>4 DEF InStep, ReadsHold, SimTypes, ServiceOK
<1>6. \A v : AllQuiet(v) => AllQuiet(v)'
  BY <1>2 DEF AllQuiet, UserOf
<1>7. ReadsHold'
  <2>1. CASE ReadPortfolio(read)
    <3> DEFINE seen == [read EXCEPT !.seen = portfolio[read.user]]
    <3>1. seen.user = read.user /\ seen.seen = portfolio[read.user]
      BY <1>5 DEF Reads
    <3>2. reads' = (reads \ {read}) \cup {seen}
      BY <2>1 DEF ReadPortfolio
    <3> HIDE DEF seen
    <3> QED
      BY <1>2, <1>5, <1>6, <3>1, <3>2 DEF InStep, ReadsHold
  <2>2. CASE seedUser(read) \/ FailRead(read)
    <3>1. reads' \subseteq reads
      BY <2>2 DEF seedUser, FailRead, Landed
    <3> QED
      BY <1>2, <1>6, <3>1 DEF InStep, ReadsHold
  <2> QED
    BY <1>4, <2>1, <2>2
<1>8. \A u : Owed(u)' = Owed(u)
  BY <1>1, <1>2 DEF Owed, UserOf
<1>9. ASSUME NEW u \in DOMAIN ledger.users, ledger'.users[u] = ledger.users[u],
             Trusted(ledger', u)
      PROVE  Agrees(u)'
  <2>1. Trusted(ledger, u)
    BY <1>9 DEF Trusted, Shadowed
  <2>2. Agrees(u)
    BY <2>1 DEF InStep, TrustIsEarned
  <2> QED
    BY <1>2, <1>8, <1>9, <2>2, SameAgrees DEF SameHoldings
<1>10. CASE ledger' = ledger
  <2>1. ASSUME NEW u \in DOMAIN ledger.users, Trusted(ledger', u) PROVE Agrees(u)'
    BY <1>9, <1>10, <2>1
  <2>2. TrustIsEarned'
    BY <1>10, <2>1 DEF TrustIsEarned
  <2> QED
    BY <1>3, <1>7, <2>2 DEF InStep
<1>11. CASE seedUser(read)
  <2>1. /\ ledger' = seed(ledger, read.generation, read.user, read.seen)
        /\ read.seen \in Portfolios /\ IsLedger(ledger) /\ read.seen = portfolio[read.user]
    BY <1>5, <1>11 DEF seedUser, SimTypes, ServiceOK, Reads
  <2>2. \/ ledger' = ledger
        \/ /\ DiffersAt(ledger, ledger', read.user)
           /\ ledger'.users[read.user].cash = read.seen.cash
           /\ ledger'.users[read.user].shares = read.seen.shares
    BY <2>1, SeedIs
  <2>3. Owed(read.user) = {}
    BY <1>5 DEF AllQuiet, Owed
  <2>4. Agrees(read.user)' \/ ledger' = ledger
    <3>1. ASSUME NEW u, u = read.user, ledger' # ledger PROVE Agrees(u)'
      <4>1. Owed(u)' = {}
        BY <1>8, <2>3, <3>1
      <4>2. /\ SumFunction([s \in Owed(u)' |-> CashOut(s)']) = 0
            /\ \A i \in Instruments : SumFunction([s \in Owed(u)' |-> SharesOut(s, i)']) = 0
        BY <4>1, <1>8, NothingOut, <1>2 DEF CashOut, SharesOut
      <4>3. /\ ledger'.users[u].cash = portfolio'[u].cash
            /\ ledger'.users[u].shares = portfolio'[u].shares
            /\ portfolio[u] \in Portfolios
        BY <1>2, <2>1, <2>2, <3>1
      <4>4. /\ portfolio'[u].cash \in Int
            /\ \A i \in Instruments : portfolio'[u].shares[i] \in Int
        BY <1>2, <4>3 DEF Portfolios
      <4> QED
        BY <4>2, <4>3, <4>4 DEF Agrees
    <3> QED
      BY <3>1
  <2>5. TrustIsEarned'
    <3>1. CASE ledger' = ledger
      BY <1>10, <3>1 DEF InStep
    <3>2. CASE ledger' # ledger
      BY <1>1, <1>9, <2>2, <2>4, <3>2 DEF TrustIsEarned, DiffersAt
    <3> QED
      BY <3>1, <3>2
  <2> QED
    BY <1>3, <1>7, <2>5 DEF InStep
<1> QED
  BY <1>4, <1>10, <1>11 DEF ReadPortfolio, FailRead

LEMMA SeedingInStep ==
  ASSUME SimTypes, InStep, Fresh', Seeding
  PROVE  InStep'
<1>1. PICK roster \in Rosters : seedUsers(roster)
  BY DEF Seeding
<1>2. /\ ledger'.users = [u \in roster |-> blank]
      /\ reads' = reads \cup {Asked(u, ledger.generation + 1, "all") : u \in roster}
      /\ Note("reset", InFlight # {})
      /\ UNCHANGED <<reseeding, calls, portfolio, filled, beside>>
  BY <1>1, SeedingIs
<1>3. InFlight = {} /\ InFlight' = InFlight
  BY <1>2 DEF Note, Fresh, calls, InFlight
<1>4. Timely'
  BY <1>3 DEF Timely
<1>5. \A read \in reads' : read \in reads \/ read.seen = NoOrder
  BY <1>2 DEF Asked
<1>6. ReadsHold'
  BY <1>2, <1>3, <1>5 DEF InStep, ReadsHold, AllQuiet
<1>7. DOMAIN ledger'.users = roster /\ \A u \in roster : ledger'.users[u].seeded = FALSE
  BY <1>2 DEF blank
<1>8. TrustIsEarned'
  BY <1>7 DEF TrustIsEarned, Trusted
<1> QED
  BY <1>4, <1>6, <1>8 DEF InStep

LEMMA PlacingInStep ==
  ASSUME SimTypes, InStep, Fresh', NEW s \in Slots, Placing(s)
  PROVE  InStep'
<1>1. PICK order \in Menu : place(s, order)
  BY DEF Placing
<1> DEFINE r == Reservation(ledger, order)  u == order.userId
<1>2. /\ order \in Orders /\ r \in Reservations /\ r.order = order
      /\ r.generation = ledger.generation
      /\ at[s] = "unsent" /\ at' = [at EXCEPT ![s] = "sent"]
      /\ held' = [held EXCEPT ![s] = r]
      /\ ledger'.generation = ledger.generation
      /\ DOMAIN ledger'.users = DOMAIN ledger.users
      /\ \A v \in DOMAIN ledger.users \ {u} : ledger'.users[v] = ledger.users[v]
      /\ u \in DOMAIN ledger.users =>
           /\ SameTrust(ledger.users[u], ledger'.users[u])
           /\ SameHoldings(ledger.users[u], ledger'.users[u])
      /\ Note("overlap", reads # {})
      /\ UNCHANGED <<reseeding, reads, execution, row, portfolio, filled>>
  BY <1>1, PlacingIs
<1> HIDE DEF r
<1>3. /\ held'[s] = r /\ \A t \in Slots \ {s} : held'[t] = held[t]
      /\ InFlight' = InFlight \cup {s} /\ s \notin InFlight
      /\ execution[s] = NoExecution
  BY <1>2 DEF SimTypes, CallsTyped, CallOK, InFlight
<1>4. reads' = {}
  BY <1>2 DEF Note, Fresh
<1>5. ReadsHold'
  BY <1>4 DEF ReadsHold
<1>6. Timely'
  BY <1>2, <1>3 DEF InStep, Timely, InFlight
<1>7. \A v : v # u => Owed(v)' = Owed(v)
  BY <1>2, <1>3 DEF Owed, UserOf, InFlight
<1>8. UserOf(s)' = u
  BY <1>2, <1>3 DEF UserOf
<1>9. ASSUME NEW v \in DOMAIN ledger.users, Trusted(ledger', v) PROVE Agrees(v)'
  <2>1. Trusted(ledger, v)
    BY <1>2, <1>9 DEF Trusted, Shadowed, SameTrust
  <2>2. Agrees(v)
    BY <2>1 DEF InStep, TrustIsEarned
  <2>3. CASE v = u
    <3>1. SameHoldings(ledger.users[v], ledger'.users[v]) /\ UserOf(s)' = v
          /\ held'[s].generation = ledger.generation
      BY <1>2, <1>3, <1>8, <2>3
    <3> QED
      BY <1>2, <1>3, <2>2, <3>1, PlacingAgrees
  <2>4. CASE v # u
    <3>1. \A t \in Owed(v) : held'[t] = held[t] /\ execution'[t] = execution[t]
      BY <1>2, <1>3, OwedIs DEF Owed
    <3>2. SameHoldings(ledger.users[v], ledger'.users[v]) /\ portfolio' = portfolio
      BY <1>2, <2>4 DEF SameHoldings
    <3> QED
      BY <1>7, <2>2, <2>4, <3>1, <3>2, SameAgrees
  <2> QED
    BY <2>3, <2>4
<1>10. TrustIsEarned'
  BY <1>2, <1>9 DEF TrustIsEarned
<1> QED
  BY <1>5, <1>6, <1>10 DEF InStep

LEMMA ExecutingInStep ==
  ASSUME SimTypes, InStep, Fresh', NEW s \in Slots, Executing(s)
  PROVE  InStep'
<1>1. PICK order \in Orders, d \in Decisions :
        /\ portfolio' \in [Users -> Portfolios]
        /\ \A u \in Users \ {order.userId} : portfolio'[u] = portfolio[u]
        /\ Moved(portfolio[order.userId], portfolio'[order.userId], order, d)
        /\ \/ /\ at[s] = "sent" /\ at' = [at EXCEPT ![s] = "executed"]
              /\ order = held[s].order
              /\ execution' = [execution EXCEPT ![s] = d]
           \/ Note("late", TRUE)
        /\ UNCHANGED <<service, held, row, beside>>
  BY ExecutingIs
<1> DEFINE u == order.userId
<1>2. /\ at[s] = "sent" /\ at' = [at EXCEPT ![s] = "executed"]
      /\ order = held[s].order
      /\ execution' = [execution EXCEPT ![s] = d]
  BY <1>1 DEF Note, Fresh
<1>3. s \in InFlight /\ InFlight' = InFlight /\ UserOf(s) = u /\ u \in Users
  BY <1>2 DEF SimTypes, CallsTyped, InFlight, UserOf, Orders
<1>4. /\ execution[s] = NoExecution /\ execution'[s] = d
      /\ \A t \in Slots \ {s} : execution'[t] = execution[t]
  BY <1>2 DEF SimTypes, CallsTyped, CallOK
<1>5. ledger' = ledger /\ reads' = reads /\ held' = held
  BY <1>1 DEF service
<1>6. Timely'
  BY <1>3, <1>5 DEF InStep, Timely
<1>7. ReadsHold'
  <2>1. \A v : AllQuiet(v)' = AllQuiet(v)
    BY <1>3, <1>5 DEF AllQuiet, UserOf
  <2>2. ~ AllQuiet(u)
    BY <1>3 DEF AllQuiet
  <2>3. \A read \in reads : read.user \in Users
    BY DEF SimTypes, ServiceOK, Reads
  <2> QED
    BY <1>1, <1>5, <2>1, <2>2, <2>3 DEF InStep, ReadsHold
<1>8. \A v : Owed(v)' = Owed(v)
  BY <1>3, <1>5 DEF Owed, UserOf
<1>9. ASSUME NEW v \in DOMAIN ledger.users, Trusted(ledger, v) PROVE Agrees(v)'
  <2>1. Agrees(v) /\ v \in Users
    BY <1>9, SimulationAssumption DEF InStep, TrustIsEarned, SimTypes, ServiceOK
  <2>2. CASE v = u
    <3>1. s \in Owed(v)
      BY <1>3, <2>2 DEF InStep, Timely, Owed
    <3>2. Moved(portfolio[v], portfolio'[v], held[s].order, d)
      BY <1>1, <1>2, <2>2
    <3> QED
      BY <1>1, <1>4, <1>5, <1>8, <2>1, <3>1, <3>2, ExecutingAgrees
  <2>3. CASE v # u
    <3>1. \A t \in Owed(v) : held'[t] = held[t] /\ execution'[t] = execution[t]
      BY <1>3, <1>4, <1>5, <2>3, OwedIs DEF Owed
    <3>2. SameHoldings(ledger.users[v], ledger'.users[v]) /\ portfolio'[v] = portfolio[v]
      BY <1>1, <1>5, <2>1, <2>3 DEF SameHoldings
    <3> QED
      BY <1>8, <2>1, <3>1, <3>2, SameAgrees
  <2> QED
    BY <2>2, <2>3
<1>10. TrustIsEarned'
  BY <1>5, <1>9 DEF TrustIsEarned
<1> QED
  BY <1>6, <1>7, <1>10 DEF InStep

LEMMA ReturningInStep ==
  ASSUME SimTypes, SimTypes', Balance', InStep, NEW s \in Slots, Returning(s)
  PROVE  InStep'
<1>1. PICK u : u = UserOf(s)
  OBVIOUS
<1>2. /\ s \in InFlight /\ Settled(s) /\ held[s] \in Reservations /\ u = held[s].order.userId
      /\ u \in Users /\ held[s].generation = ledger.generation
  BY <1>1, ReturningSettles, FlightIs DEF InStep, Timely
<1>3. /\ \A t \in Slots \ {s} : held'[t] = held[t] /\ execution'[t] = execution[t]
      /\ InFlight' = InFlight \ {s}
  BY ReturningIs DEF SimTypes, CallsTyped, InFlight
<1>4. /\ ledger'.generation = ledger.generation
      /\ DOMAIN ledger'.users = DOMAIN ledger.users
      /\ \A v \in DOMAIN ledger.users \ {u} : ledger'.users[v] = ledger.users[v]
      /\ u \in DOMAIN ledger.users =>
           /\ Released(ledger.users[u], ledger'.users[u], held[s])
           /\ \/ ledger'.users[u].uncertain
              \/ /\ SameTrust(ledger.users[u], ledger'.users[u])
                 /\ Moved(ledger.users[u], ledger'.users[u], held[s].order, execution[s])
  BY <1>1, <1>2 DEF Settled, Current, Shadowed
<1>5. /\ \/ UNCHANGED <<reseeding, reads>>
         \/ /\ needsReseed(ledger', u)
            /\ reads' = reads \cup {Asked(u, ledger'.generation, "one")}
      /\ portfolio' = portfolio
  BY <1>1, ReturningIs
<1>6. Timely'
  BY <1>3, <1>4 DEF InStep, Timely, InFlight
<1>7. \A v : AllQuiet(v) => AllQuiet(v)'
  BY <1>3 DEF AllQuiet, UserOf, InFlight
<1>8. ASSUME needsReseed(ledger', u) PROVE AllQuiet(u)'
  <2>1. Balanced(u)' /\ ledger'.users[u].outstanding = 0
    BY <1>8 DEF needsReseed, Shadowed, Balance
  <2>2. IsFiniteSet(Owed(u)') /\ Cardinality(Owed(u)') = 0
    <3>1. IsFiniteSet(InFlight')
      BY DEF SimTypes, CallsTyped
    <3>2. Owed(u)' \subseteq InFlight'
      BY DEF Owed
    <3> QED
      BY <2>1, <3>1, <3>2, FS_Subset DEF Balanced
  <2>3. Owed(u)' = {}
    BY <2>2, FS_EmptySet
  <2> QED
    BY <1>6, <2>3 DEF Timely, Owed, AllQuiet
<1>9. ReadsHold'
  <2>1. CASE reads' = reads
    BY <1>5, <1>7, <2>1 DEF InStep, ReadsHold
  <2>2. CASE needsReseed(ledger', u) /\ reads' = reads \cup {Asked(u, ledger'.generation, "one")}
    <3>1. AllQuiet(u)'
      BY <1>8, <2>2
    <3>2. \A read \in reads' : read \in reads \/ (read.user = u /\ read.seen = NoOrder)
      BY <2>2 DEF Asked
    <3> QED
      BY <1>5, <1>7, <3>1, <3>2 DEF InStep, ReadsHold
  <2> QED
    BY <1>5, <2>1, <2>2
<1>10. ASSUME NEW v \in DOMAIN ledger.users, Trusted(ledger', v) PROVE Agrees(v)'
  <2>1. CASE v = u
    <3>1. /\ Released(ledger.users[v], ledger'.users[v], held[s])
          /\ SameTrust(ledger.users[v], ledger'.users[v])
          /\ Moved(ledger.users[v], ledger'.users[v], held[s].order, execution[s])
      BY <1>4, <1>10, <2>1 DEF Trusted
    <3>2. Agrees(v)
      BY <1>10, <3>1 DEF Trusted, Shadowed, SameTrust, InStep, TrustIsEarned
    <3>3. s \in Owed(v)
      BY <1>1, <1>2, <2>1 DEF Owed
    <3>4. ledger'.users[v] \in Shadows
      BY <1>4 DEF SimTypes, ServiceOK, IsLedger
    <3> QED
      BY <1>3, <1>4, <1>5, <3>1, <3>2, <3>3, <3>4, ReturningAgrees
  <2>2. CASE v # u
    <3>1. ledger'.users[v] = ledger.users[v]
      BY <1>4, <2>2
    <3>2. Agrees(v)
      BY <1>10, <3>1 DEF Trusted, Shadowed, InStep, TrustIsEarned
    <3>3. s \notin Owed(v)
      BY <1>1, <2>2 DEF Owed
    <3>4. Owed(v)' = Owed(v) /\ \A t \in Owed(v) : held'[t] = held[t] /\ execution'[t] = execution[t]
      <4>1. \A t \in Owed(v) : t \in Slots \ {s}
        BY <3>3, OwedIs
      <4> QED
        BY <1>3, <1>4, <3>3, <4>1 DEF Owed, UserOf, InFlight
    <3>5. SameHoldings(ledger.users[v], ledger'.users[v]) /\ portfolio'[v] = portfolio[v]
      BY <1>5, <3>1 DEF SameHoldings
    <3> QED
      BY <3>2, <3>4, <3>5, SameAgrees
  <2> QED
    BY <2>1, <2>2
<1>11. TrustIsEarned'
  BY <1>4, <1>10 DEF TrustIsEarned
<1> QED
  BY <1>6, <1>9, <1>11 DEF InStep

LEMMA NextInStep ==
  SimTypes /\ Balance /\ (Fresh => InStep) /\ [Next]_simVars => (Fresh => InStep)'
<1> SUFFICES ASSUME SimTypes, Balance, Fresh => InStep, [Next]_simVars, Fresh' PROVE InStep'
  OBVIOUS
<1>1. SimTypes' /\ Balance'
  BY NextKeepsTypes, NextBalances
<1>2. InStep
  BY MishapsStay DEF Fresh
<1>3. \A u : Owed(u) \subseteq Slots
  BY OwedIs
<1>4. CASE /\ ledger' = ledger /\ held' = held /\ InFlight' = InFlight /\ execution' = execution
           /\ reads' = reads /\ portfolio' = portfolio
  <2>1. Timely' /\ ReadsHold'
    BY <1>2, <1>4 DEF InStep, Timely, ReadsHold, AllQuiet, UserOf
  <2>2. \A u : Owed(u)' = Owed(u)
    BY <1>4 DEF Owed, UserOf
  <2>3. ASSUME NEW u \in DOMAIN ledger.users, Trusted(ledger, u) PROVE Agrees(u)'
    BY <1>2, <1>4, <2>2, <2>3, SameAgrees DEF InStep, TrustIsEarned, SameHoldings
  <2>4. TrustIsEarned'
    BY <1>4, <2>3 DEF TrustIsEarned
  <2> QED
    BY <2>1, <2>4 DEF InStep
<1>5. ASSUME NEW s \in Slots, Shed(s) PROVE InStep'
  BY <1>4, <1>5 DEF Shed, service, SimTypes, CallsTyped, InFlight
<1>6. CASE UNCHANGED simVars
  BY <1>4, <1>6 DEF simVars, service, calls, InFlight
<1> QED
  BY <1>1, <1>2, <1>5, <1>6, NextIs, SeedingInStep, ReadingInStep, PlacingInStep,
     ExecutingInStep, ReturningInStep

LEMMA InitInStep == Init => InStep
BY DEF Init, empty, InStep, Timely, InFlight, ReadsHold, TrustIsEarned

LEMMA InStepSuffices == SimTypes /\ Balance /\ InStep => ShadowMatches
<1> SUFFICES ASSUME SimTypes, Balance, InStep, NEW u \in DOMAIN ledger.users, Trusted(ledger, u),
                    ledger.users[u].outstanding = 0
             PROVE  /\ ledger.users[u].cash = portfolio[u].cash
                    /\ ledger.users[u].shares = portfolio[u].shares
  BY DEF ShadowMatches
<1>1. Owed(u) = {}
  BY OwedIs, FS_EmptySet DEF Balance, Balanced
<1>2. Agrees(u)
  BY DEF InStep, TrustIsEarned
<1>3. /\ ledger.users[u] \in Shadows /\ portfolio[u] \in Portfolios
  BY SimulationAssumption DEF SimTypes, ServiceOK, IsLedger, WorldOK
<1>4. /\ SumFunction([s \in Owed(u) |-> CashOut(s)]) = 0
      /\ \A i \in Instruments : SumFunction([s \in Owed(u) |-> SharesOut(s, i)]) = 0
  BY <1>1, NothingOut
<1>5. /\ ledger.users[u].cash = portfolio[u].cash
      /\ \A i \in Instruments : ledger.users[u].shares[i] = portfolio[u].shares[i]
  <2>1. /\ ledger.users[u].cash \in Int
        /\ \A i \in Instruments : ledger.users[u].shares[i] \in Int
    BY <1>3 DEF Shadows
  <2>2. /\ ledger.users[u].cash + 0 = portfolio[u].cash
        /\ \A i \in Instruments : ledger.users[u].shares[i] + 0 = portfolio[u].shares[i]
    BY <1>2, <1>4 DEF Agrees
  <2> QED
    BY <2>1, <2>2
<1> QED
  BY <1>3, <1>5 DEF Shadows, Portfolios

-----------------------------------------------------------------------------
(***************************************************************************)
(* Refusals hold: without mishaps, an order that was expected to be        *)
(* refused is still not covered when the API looks at it, for whatever its *)
(* user sent after it has to wait for it.                                  *)
(***************************************************************************)
Calm == mishaps = {}

RefusalOK(s) ==
  /\ at[s] = "sent" /\ held[s].expectation = "REJECTED" =>
       /\ held[s].order.type = "MARKET"
       /\ ~ Covers(portfolio[UserOf(s)], held[s].order)
       /\ \A t \in InFlight \ {s} : UserOf(t) = UserOf(s) => s \in beside[t]
  /\ at[s] = "executed" /\ held[s].expectation = "REJECTED" => ~ Fills(execution[s])
  /\ row[s].expected = "REJECTED" => row[s].actual # "FILLED"

RefusalsOK == \A s \in Slots : RefusalOK(s)

(* What the shadow says of a user that is trusted, with nothing out.       *)
LEMMA StandingStillIs ==
  ASSUME SimTypes, Balance, InStep, NEW u, Trusted(ledger, u), ledger.users[u].outstanding = 0,
         NEW order \in Orders, order.userId = u
  PROVE  /\ Covered(ledger.users[u], order, Close[order.instrumentId])
              <=> Covers(portfolio[u], order)
         /\ AllQuiet(u)
<1>1. u \in DOMAIN ledger.users /\ Balanced(u)
  BY DEF Trusted, Shadowed, Balance
<1>2. Owed(u) = {}
  BY <1>1, OwedIs, FS_EmptySet DEF Balanced
<1>3. AllQuiet(u)
  BY <1>2 DEF AllQuiet, Owed, InStep, Timely
<1>4. /\ ledger.users[u].cash = portfolio[u].cash
      /\ ledger.users[u].shares = portfolio[u].shares
  BY <1>1, InStepSuffices DEF ShadowMatches
<1>5. /\ [s \in Owed(u) |-> held[s].heldCash] \in [{} -> Int]
      /\ \A i \in Instruments : [s \in Owed(u) |-> SharesHeld(s, i)] \in [{} -> Int]
  BY <1>2
<1>6. /\ ledger.users[u].heldCash = 0
      /\ \A i \in Instruments : ledger.users[u].heldShares[i] = 0
  BY <1>1, <1>5, SumOfNone DEF Balanced
<1>7. /\ ledger.users[u].cash \in Int /\ order.instrumentId \in Instruments
      /\ \A i \in Instruments : ledger.users[u].shares[i] \in Int
  BY <1>1, CostIs DEF SimTypes, ServiceOK, IsLedger, Shadows
<1>8. /\ ledger.users[u].cash - ledger.users[u].heldCash = portfolio[u].cash
      /\ ledger.users[u].shares[order.instrumentId]
           - ledger.users[u].heldShares[order.instrumentId]
           = portfolio[u].shares[order.instrumentId]
  BY <1>4, <1>6, <1>7
<1> QED
  BY <1>3, <1>8 DEF Covered, Covers, Cost

(* Who is left alone stays as it was.                                      *)
LEMMA SameRefusal ==
  ASSUME NEW t \in Slots, RefusalOK(t), at'[t] = at[t], held'[t] = held[t],
         execution'[t] = execution[t], row'[t] = row[t],
         at[t] = "sent" => portfolio'[UserOf(t)] = portfolio[UserOf(t)],
         \A o \in InFlight' \ {t} :
           \/ t \in beside'[o]
           \/ o \in InFlight /\ held'[o] = held[o] /\ beside'[o] = beside[o]
  PROVE  RefusalOK(t)'
<1>1. UserOf(t)' = UserOf(t)
  BY DEF UserOf
<1>2. \A o : held'[o] = held[o] => UserOf(o)' = UserOf(o)
  BY DEF UserOf
<1>3. ASSUME at[t] = "sent", held[t].expectation = "REJECTED"
      PROVE  /\ held'[t].order.type = "MARKET"
             /\ ~ Covers(portfolio'[UserOf(t)'], held'[t].order)
             /\ \A o \in InFlight' \ {t} : UserOf(o)' = UserOf(t)' => t \in beside'[o]
  <2>1. /\ held[t].order.type = "MARKET"
        /\ ~ Covers(portfolio[UserOf(t)], held[t].order)
        /\ \A o \in InFlight \ {t} : UserOf(o) = UserOf(t) => t \in beside[o]
    BY <1>3 DEF RefusalOK
  <2>2. ~ Covers(portfolio'[UserOf(t)'], held'[t].order)
    BY <1>1, <1>3, <2>1
  <2> QED
    BY <1>1, <1>2, <2>1, <2>2
<1>4. ~ Fills(execution[t]) => ~ Fills(execution'[t])
  OBVIOUS
<1> QED
  BY <1>3, <1>4 DEF RefusalOK

LEMMA PlacingRefuses ==
  ASSUME SimTypes, Balance, InStep, RefusalsOK, NEW s \in Slots, Placing(s)
  PROVE  RefusalsOK'
<1>1. PICK order \in Menu : place(s, order)
  BY DEF Placing
<1> DEFINE r == Reservation(ledger, order)  u == order.userId
<1>2. /\ order \in Orders /\ r \in Reservations /\ r.order = order
      /\ at[s] = "unsent" /\ at' = [at EXCEPT ![s] = "sent"]
      /\ held' = [held EXCEPT ![s] = r]
      /\ beside' = [beside EXCEPT ![s] = InFlight]
      /\ UNCHANGED <<reseeding, reads, execution, row, portfolio, filled>>
  BY <1>1, PlacingIs
<1>3. r.expectation = "REJECTED" =>
        /\ order.type = "MARKET" /\ Trusted(ledger, u) /\ ledger.users[u].outstanding = 0
        /\ ~ Covered(ledger.users[u], order, Close[order.instrumentId])
  BY <1>2, ReservationIs DEF SimTypes, ServiceOK
<1> HIDE DEF r
<1>4. /\ held'[s] = r /\ at'[s] = "sent" /\ row'[s] = NoRow /\ UserOf(s)' = u
      /\ \A t \in Slots \ {s} : held'[t] = held[t] /\ at'[t] = at[t] /\ beside'[t] = beside[t]
      /\ InFlight' = InFlight \cup {s} /\ s \notin InFlight /\ beside'[s] = InFlight
  BY <1>2 DEF SimTypes, CallsTyped, WorldOK, CallOK, InFlight, UserOf
<1>5. ASSUME NEW t \in Slots \ {s} PROVE RefusalOK(t)'
  <2>1. CASE at[t] = "sent"
    <3>1. t \in beside'[s]
      BY <1>4, <2>1 DEF InFlight
    <3>2. \A o \in InFlight' \ {t} :
            \/ t \in beside'[o]
            \/ o \in InFlight /\ held'[o] = held[o] /\ beside'[o] = beside[o]
      BY <1>4, <3>1 DEF InFlight
    <3> QED
      BY <1>2, <1>4, <3>2, SameRefusal DEF RefusalsOK
  <2>2. CASE at[t] # "sent"
    <3>1. ~ Fills(execution[t]) => ~ Fills(execution'[t])
      BY <1>2
    <3> QED
      BY <1>2, <1>4, <2>2, <3>1 DEF RefusalsOK, RefusalOK
  <2> QED
    BY <2>1, <2>2
<1>6. RefusalOK(s)'
  <2>1. ASSUME r.expectation = "REJECTED"
        PROVE  /\ r.order.type = "MARKET" /\ ~ Covers(portfolio[u], r.order)
               /\ \A t \in InFlight : UserOf(t) # u
    BY <1>2, <1>3, <2>1, StandingStillIs DEF AllQuiet
  <2>2. \A t \in InFlight' \ {s} : UserOf(t)' = UserOf(t) /\ t \in InFlight
    BY <1>4 DEF UserOf, InFlight
  <2>3. held'[s].expectation = "REJECTED" =>
          /\ held'[s].order.type = "MARKET"
          /\ ~ Covers(portfolio'[UserOf(s)'], held'[s].order)
          /\ \A t \in InFlight' \ {s} : UserOf(t)' # UserOf(s)'
    BY <1>2, <1>4, <2>1, <2>2
  <2> QED
    BY <1>4, <2>3 DEF RefusalOK, NoRow
<1> QED
  BY <1>5, <1>6 DEF RefusalsOK

LEMMA ExecutingRefuses ==
  ASSUME SimTypes, RefusalsOK, Calm', NEW s \in Slots, Executing(s)
  PROVE  RefusalsOK'
<1>1. PICK order \in Orders :
        LET d == Decision(order) IN
        /\ portfolio' \in [Users -> Portfolios]
        /\ \A u \in Users \ {order.userId} : portfolio'[u] = portfolio[u]
        /\ \/ /\ at[s] = "sent" /\ at' = [at EXCEPT ![s] = "executed"]
              /\ order = held[s].order
              /\ execution' = [execution EXCEPT ![s] = d]
              /\ Note("overtaken", Overtakes(s))
           \/ Note("late", TRUE)
        /\ UNCHANGED <<service, held, row, beside>>
  BY ExecutingIs
<1> DEFINE d == Decision(order)  u == order.userId
<1>2. /\ at[s] = "sent" /\ at' = [at EXCEPT ![s] = "executed"]
      /\ order = held[s].order
      /\ execution' = [execution EXCEPT ![s] = d]
      /\ ~ Overtakes(s)
  BY <1>1 DEF Note, Calm
<1>3. /\ held' = held /\ row' = row /\ beside' = beside /\ InFlight' = InFlight /\ s \in InFlight
      /\ at'[s] = "executed" /\ execution'[s] = d /\ UserOf(s) = u
      /\ \A t \in Slots \ {s} : at'[t] = at[t] /\ execution'[t] = execution[t]
  BY <1>1, <1>2 DEF SimTypes, CallsTyped, InFlight, UserOf
<1>4. order.type = "MARKET" => (Fills(d) <=> Covers(portfolio[u], order))
  BY DecisionIs DEF SimTypes, WorldOK
<1> HIDE DEF d
<1>5. ASSUME NEW t \in Slots \ {s} PROVE RefusalOK(t)'
  <2>1. RefusalOK(t)
    BY DEF RefusalsOK
  <2>2. CASE at[t] = "sent" /\ held[t].expectation = "REJECTED" /\ UserOf(t) = u
    <3>1. t \in beside[s]
      BY <1>3, <2>1, <2>2 DEF RefusalOK
    <3>2. Overtakes(s)
      BY <1>3, <2>2, <3>1 DEF Overtakes
    <3> QED
      BY <1>2, <3>2
  <2>3. CASE at[t] = "sent" /\ UserOf(t) # u
    <3>1. UserOf(t) \in Users
      BY <2>3, FlightIs DEF InFlight
    <3>2. portfolio'[UserOf(t)] = portfolio[UserOf(t)]
      BY <1>1, <2>3, <3>1
    <3> QED
      BY <1>3, <2>1, <3>2, SameRefusal
  <2>4. CASE at[t] # "sent" \/ held[t].expectation # "REJECTED"
    <3>1. ~ Fills(execution[t]) => ~ Fills(execution'[t])
      BY <1>3
    <3> QED
      BY <1>3, <2>1, <2>4, <3>1 DEF RefusalOK
  <2> QED
    BY <2>2, <2>3, <2>4
<1>6. RefusalOK(s)'
  <2>1. RefusalOK(s)
    BY DEF RefusalsOK
  <2>2. held[s].expectation = "REJECTED" => ~ Fills(execution'[s])
    BY <1>2, <1>3, <1>4, <2>1 DEF RefusalOK
  <2> QED
    BY <1>3, <2>1, <2>2 DEF RefusalOK
<1> QED
  BY <1>5, <1>6 DEF RefusalsOK

LEMMA ReturningRefuses ==
  ASSUME SimTypes, RefusalsOK, NEW s \in Slots, Returning(s)
  PROVE  RefusalsOK'
<1>1. s \in InFlight
  BY ReturningSettles
<1>2. PICK position \in {"late", "done"}, actual \in ORDER_STATUSES \cup {"none"} :
       /\ at' = [at EXCEPT ![s] = position]
       /\ held' = [held EXCEPT ![s] = NoReservation]
       /\ execution' = [execution EXCEPT ![s] = NoExecution]
       /\ row' = [row EXCEPT ![s] = [order |-> held[s].order,
                                     expected |-> held[s].expectation,
                                     actual |-> actual]]
       /\ actual # "none" => execution[s] # NoExecution /\ actual = execution[s].status
       /\ UNCHANGED <<portfolio, filled, beside, mishaps>>
  BY ReturningIs
<1>3. /\ InFlight' = InFlight \ {s} /\ at'[s] = position
      /\ row'[s].expected = held[s].expectation /\ row'[s].actual = actual
      /\ \A t \in Slots \ {s} :
           at'[t] = at[t] /\ held'[t] = held[t] /\ execution'[t] = execution[t] /\ row'[t] = row[t]
  BY <1>2 DEF SimTypes, CallsTyped, InFlight
<1>4. ASSUME NEW t \in Slots \ {s} PROVE RefusalOK(t)'
  <2>1. \A o \in InFlight' \ {t} :
          o \in InFlight /\ held'[o] = held[o] /\ beside'[o] = beside[o]
    BY <1>2, <1>3 DEF InFlight
  <2> QED
    BY <1>2, <1>3, <2>1, SameRefusal DEF RefusalsOK
<1>5. RefusalOK(s)'
  <2>1. RefusalOK(s) /\ (execution[s] # NoExecution => at[s] = "executed")
    BY DEF RefusalsOK, SimTypes, CallOK
  <2>2. held[s].expectation = "REJECTED" => actual # "FILLED"
    BY <1>2, <2>1 DEF RefusalOK, Fills
  <2> QED
    BY <1>3, <2>2 DEF RefusalOK
<1> QED
  BY <1>4, <1>5 DEF RefusalsOK

LEMMA NextRefuses ==
  /\ SimTypes /\ Balance /\ (Fresh => InStep) /\ (Calm => RefusalsOK) /\ [Next]_simVars
  => (Calm => RefusalsOK)'
<1> SUFFICES ASSUME SimTypes, Balance, Fresh => InStep, Calm => RefusalsOK, [Next]_simVars, Calm'
             PROVE  RefusalsOK'
  OBVIOUS
<1>1. InStep /\ RefusalsOK
  BY MishapsStay DEF Fresh, Calm
<1>2. CASE UNCHANGED <<calls, portfolio, beside>>
  BY <1>1, <1>2 DEF RefusalsOK, RefusalOK, calls, InFlight, UserOf
<1>3. Seeding \/ Reading => UNCHANGED <<calls, portfolio, beside>>
  BY SeedingIs, ReadingIs DEF Seeding, history
<1>4. ASSUME NEW s \in Slots, Shed(s) PROVE RefusalsOK'
  <2>1. /\ at[s] = "sent" /\ at' = [at EXCEPT ![s] = "executed"]
        /\ UNCHANGED <<held, execution, row, portfolio, beside>>
    BY <1>4 DEF Shed, history
  <2>2. /\ InFlight' = InFlight /\ at'[s] = "executed" /\ execution[s] = NoExecution
        /\ \A t \in Slots \ {s} : at'[t] = at[t]
    BY <2>1 DEF SimTypes, CallsTyped, CallOK, InFlight
  <2>3. ASSUME NEW t \in Slots \ {s} PROVE RefusalOK(t)'
    BY <1>1, <2>1, <2>2, SameRefusal DEF RefusalsOK
  <2>4. RefusalOK(s)'
    <3>1. ~ Fills(execution'[s])
      BY <2>1, <2>2 DEF Fills
    <3> QED
      BY <1>1, <2>1, <2>2, <3>1 DEF RefusalsOK, RefusalOK
  <2> QED
    BY <2>3, <2>4 DEF RefusalsOK
<1>5. UNCHANGED simVars => UNCHANGED <<calls, portfolio, beside>>
  BY DEF simVars, history
<1> QED
  BY <1>1, <1>2, <1>3, <1>4, <1>5, NextIs, PlacingRefuses, ExecutingRefuses, ReturningRefuses

LEMMA InitRefuses == Init => RefusalsOK
BY DEF Init, RefusalsOK, RefusalOK, NoRow

LEMMA RefusalsSuffice == (Calm => RefusalsOK) => RefusalsHold
BY DEF Calm, RefusalsOK, RefusalOK, RefusalsHold

-----------------------------------------------------------------------------
(***************************************************************************)
(* What spoils an expected fill: while only overtaking happened, the cash  *)
(* and the shares that expected fills still wait for are there, unless an  *)
(* order filled beside one for which nothing had been held aside.          *)
(***************************************************************************)
Spoilt(s) ==
  \E other \in filled :
    /\ other \in beside[s] \/ s \in beside[other]
    /\ OwnerOf(other) = OwnerOf(s)
    /\ ExpectationOf(other) # "FILLED"

Awaiting(s) == at[s] = "sent" /\ held[s].expectation = "FILLED"

CashAwaited(s) == IF Awaiting(s) THEN held[s].heldCash ELSE 0

SharesAwaited(s, i) == IF Awaiting(s) THEN SharesHeld(s, i) ELSE 0

CashIsThere(u) == portfolio[u].cash >= SumFunction([s \in Owed(u) |-> CashAwaited(s)])

SharesAreThere(u, i) ==
  portfolio[u].shares[i] >= SumFunction([s \in Owed(u) |-> SharesAwaited(s, i)])

Funded(s) ==
  IF held[s].order.side = "BUY" THEN CashIsThere(UserOf(s))
  ELSE SharesAreThere(UserOf(s), held[s].order.instrumentId)

FillOK(s) ==
  /\ Awaiting(s) /\ ~ Spoilt(s) => Funded(s)
  /\ at[s] = "executed" /\ held[s].expectation = "FILLED" /\ execution[s] # NoExecution =>
       Fills(execution[s]) \/ Spoilt(s)
  /\ Fills(execution[s]) => s \in filled
  /\ row[s].expected = "FILLED" /\ row[s].actual = "REJECTED" => Spoilt(s)

Overlapping == \A s, t \in InFlight : s # t => s \in beside[t] \/ t \in beside[s]

FillsOK == Overlapping /\ \A s \in Slots : FillOK(s)

(* Sums that a step makes smaller, or that what is there allows for.       *)
LEMMA LessAwaited ==
  ASSUME NEW S, IsFiniteSet(S), NEW f \in [S -> Int], NEW x \in S,
         NEW e \in [S -> Int], \A y \in S \ {x} : e[y] = f[y],
         NEW a \in Int, NEW b \in Int, a >= SumFunction(f), b >= a + e[x] - f[x]
  PROVE  b >= SumFunction(e)
<1>1. SumFunction(e) = SumFunction(f) + e[x] - f[x]
  BY SumAt
<1>2. SumFunction(f) \in Int /\ e[x] \in Int /\ f[x] \in Int
  BY SumIsInt
<1> QED
  BY <1>1, <1>2

LEMMA OneAwaitedLess ==
  ASSUME NEW S, IsFiniteSet(S), NEW x, x \notin S, NEW T, T = S \cup {x},
         NEW f \in [T -> Int], NEW e \in [S -> Int], \A y \in S : f[y] = e[y],
         NEW a \in Int, a >= SumFunction(f), f[x] >= 0
  PROVE  a >= SumFunction(e)
<1>1. SumFunction(f) = f[x] + SumFunction(e)
  BY SumsJoined, Z3
<1>2. SumFunction(e) \in Int /\ f[x] \in Int
  BY SumIsInt
<1> QED
  BY <1>1, <1>2

LEMMA OneAwaitedMore ==
  ASSUME NEW S, IsFiniteSet(S), NEW x, x \notin S, NEW T, T = S \cup {x},
         NEW f \in [S -> Int], NEW e \in [T -> Int], \A y \in S : e[y] = f[y],
         NEW a \in Int, a >= SumFunction(f) + e[x]
  PROVE  a >= SumFunction(e)
<1>1. SumFunction(e) = e[x] + SumFunction(f)
  BY SumsJoined, Z3
<1>2. SumFunction(f) \in Int /\ e[x] \in Int
  BY SumIsInt
<1> QED
  BY <1>1, <1>2

LEMMA AwaitedAtLeast ==
  ASSUME NEW S, IsFiniteSet(S), NEW f \in [S -> Int], \A y \in S : f[y] >= 0, NEW x \in S
  PROVE  SumFunction(f) >= f[x]
<1> DEFINE none == [y \in S |-> 0]  only == [y \in S |-> IF y = x THEN f[x] ELSE 0]
<1>1. f[x] \in Int /\ none \in [S -> Int] /\ only \in [S -> Int]
  OBVIOUS
<1>2. /\ \A y \in S \ {x} : only[y] = none[y]
      /\ only[x] = f[x] /\ none[x] = 0
      /\ \A y \in S : none[y] = 0
      /\ \A y \in S : f[y] + none[y] >= only[y]
  BY <1>1
<1> HIDE DEF none, only
<1>3. SumFunction(none) = 0
  BY <1>1, <1>2, SumOfZeros
<1>4. SumFunction(only) = SumFunction(none) + only[x] - none[x]
  BY <1>1, <1>2, SumAt
<1>5. SumFunction(f) + SumFunction(none) >= SumFunction(only)
  BY <1>1, <1>2, SumsCompare
<1>6. SumFunction(f) \in Int
  BY SumIsInt
<1> QED
  BY <1>1, <1>2, <1>3, <1>4, <1>5, <1>6

LEMMA AwaitedIs ==
  ASSUME SimTypes, NEW u
  PROVE  /\ [s \in Owed(u) |-> CashAwaited(s)] \in [Owed(u) -> Int]
         /\ \A i \in Instruments : [s \in Owed(u) |-> SharesAwaited(s, i)] \in [Owed(u) -> Int]
         /\ \A s \in Owed(u) : /\ CashAwaited(s) >= 0
                               /\ \A i \in Instruments : SharesAwaited(s, i) >= 0
<1>1. ASSUME NEW s \in Owed(u) PROVE held[s].heldCash \in Nat /\ held[s].heldShares \in Nat
  BY OwedIs, FlightIs DEF Owed, Reservations
<1>2. ASSUME NEW s \in Owed(u)
      PROVE  /\ CashAwaited(s) \in Int /\ CashAwaited(s) >= 0
             /\ \A i \in Instruments : SharesAwaited(s, i) \in Int /\ SharesAwaited(s, i) >= 0
  BY <1>1 DEF CashAwaited, SharesAwaited, SharesHeld
<1> QED
  BY <1>2

(* Who a call is for, what was expected of it, and what it overlapped when *)
(* it was sent, are settled for good.                                      *)
LEMMA CallsKeep ==
  ASSUME SimTypes, [Next]_simVars, NEW s \in Slots, at[s] # "unsent"
  PROVE  /\ OwnerOf(s)' = OwnerOf(s) /\ ExpectationOf(s)' = ExpectationOf(s)
         /\ beside'[s] = beside[s] /\ at'[s] # "unsent"
<1>1. CASE UNCHANGED <<at, held, row, beside>>
  BY <1>1 DEF OwnerOf, ExpectationOf, UserOf, InFlight
<1>2. Seeding \/ Reading \/ UNCHANGED simVars => UNCHANGED <<at, held, row, beside>>
  BY SeedingIs, ReadingIs DEF Seeding, history, simVars, calls
<1>3. ASSUME NEW t \in Slots, Placing(t)
      PROVE  /\ OwnerOf(s)' = OwnerOf(s) /\ ExpectationOf(s)' = ExpectationOf(s)
             /\ beside'[s] = beside[s] /\ at'[s] # "unsent"
  <2>1. /\ t # s /\ at'[s] = at[s] /\ held'[s] = held[s] /\ row' = row /\ beside'[s] = beside[s]
    BY <1>3, PlacingIs DEF Placing, SimTypes, CallsTyped, WorldOK
  <2> QED
    BY <2>1 DEF OwnerOf, ExpectationOf, UserOf, InFlight
<1>4. ASSUME NEW t \in Slots, Executing(t) \/ Shed(t)
      PROVE  /\ OwnerOf(s)' = OwnerOf(s) /\ ExpectationOf(s)' = ExpectationOf(s)
             /\ beside'[s] = beside[s] /\ at'[s] # "unsent"
  <2>1. /\ at'[s] # "unsent" /\ held' = held /\ row' = row /\ beside' = beside
        /\ s \in InFlight' <=> s \in InFlight
    <3>1. CASE Executing(t)
      BY <3>1 DEF Executing, Execute, LateCommit, SimTypes, CallsTyped, InFlight
    <3>2. CASE Shed(t)
      BY <3>2 DEF Shed, history, SimTypes, CallsTyped, InFlight
    <3> QED
      BY <1>4, <3>1, <3>2
  <2> QED
    BY <2>1 DEF OwnerOf, ExpectationOf, UserOf
<1>5. ASSUME NEW t \in Slots, Returning(t)
      PROVE  /\ OwnerOf(s)' = OwnerOf(s) /\ ExpectationOf(s)' = ExpectationOf(s)
             /\ beside'[s] = beside[s] /\ at'[s] # "unsent"
  <2>1. PICK position \in {"late", "done"}, actual \in ORDER_STATUSES \cup {"none"} :
         /\ at' = [at EXCEPT ![t] = position]
         /\ held' = [held EXCEPT ![t] = NoReservation]
         /\ row' = [row EXCEPT ![t] = [order |-> held[t].order,
                                       expected |-> held[t].expectation,
                                       actual |-> actual]]
         /\ UNCHANGED <<portfolio, filled, beside, mishaps>>
    BY <1>5, ReturningIs
  <2>2. t \in InFlight
    BY <1>5, ReturningSettles
  <2>3. CASE t = s
    BY <2>1, <2>2, <2>3 DEF OwnerOf, ExpectationOf, UserOf, InFlight, SimTypes, CallsTyped
  <2>4. CASE t # s
    BY <2>1, <2>4 DEF OwnerOf, ExpectationOf, UserOf, InFlight, SimTypes, CallsTyped
  <2> QED
    BY <2>3, <2>4
<1>6. UNCHANGED <<at, held, row, beside>> => at'[s] # "unsent"
  OBVIOUS
<1> QED
  BY <1>1, <1>2, <1>3, <1>4, <1>5, NextIs

LEMMA FilledStays ==
  SimTypes /\ [Next]_simVars => filled \subseteq filled'
<1> SUFFICES ASSUME SimTypes, [Next]_simVars PROVE filled \subseteq filled'
  OBVIOUS
<1>1. Seeding \/ Reading => filled' = filled
  BY SeedingIs, ReadingIs DEF Seeding, history
<1>2. ASSUME NEW s \in Slots
      PROVE  /\ Placing(s) \/ Shed(s) \/ Returning(s) => filled' = filled
             /\ Executing(s) => filled \subseteq filled'
  BY DEF Placing, place, Shed, history, Returning, Answer, Lose, Executing, Execute, LateCommit, Filling
<1> QED
  BY <1>1, <1>2, NextIs DEF simVars, history

LEMMA SpoiltStays ==
  ASSUME SimTypes, [Next]_simVars, NEW s \in Slots, at[s] # "unsent", Spoilt(s)
  PROVE  Spoilt(s)'
<1>1. PICK other \in filled :
        /\ other \in beside[s] \/ s \in beside[other]
        /\ OwnerOf(other) = OwnerOf(s)
        /\ ExpectationOf(other) # "FILLED"
  BY DEF Spoilt
<1>2. other \in Slots /\ at[other] # "unsent"
  BY DEF SimTypes, WorldOK, CallOK
<1>3. /\ OwnerOf(other)' = OwnerOf(other) /\ ExpectationOf(other)' = ExpectationOf(other)
      /\ beside'[other] = beside[other] /\ OwnerOf(s)' = OwnerOf(s) /\ beside'[s] = beside[s]
      /\ other \in filled'
  BY <1>2, CallsKeep, FilledStays
<1> QED
  BY <1>1, <1>3 DEF Spoilt

(* An order that fills beside one, unforeseen, spoils it.                  *)
LEMMA UnforeseenSpoils ==
  ASSUME Overlapping, NEW s \in InFlight, NEW t \in InFlight, s # t, UserOf(s) = UserOf(t),
         t \in filled, held[t].expectation # "FILLED"
  PROVE  Spoilt(s)
BY DEF Overlapping, Spoilt, OwnerOf, ExpectationOf

(* What is there for a user stays there.                                   *)
FundsKept(u) ==
  /\ CashIsThere(u) => CashIsThere(u)'
  /\ \A i \in Instruments : SharesAreThere(u, i) => SharesAreThere(u, i)'

LEMMA FundsSame ==
  ASSUME SimTypes, NEW u, portfolio'[u] = portfolio[u], Owed(u)' = Owed(u),
         \A s \in Owed(u) : at'[s] = at[s] /\ held'[s] = held[s]
  PROVE  FundsKept(u)
<1>1. [s \in Owed(u)' |-> CashAwaited(s)'] = [s \in Owed(u) |-> CashAwaited(s)]
  BY DEF CashAwaited, Awaiting
<1>2. \A i : [s \in Owed(u)' |-> SharesAwaited(s, i)'] = [s \in Owed(u) |-> SharesAwaited(s, i)]
  BY DEF SharesAwaited, SharesHeld, Awaiting
<1> QED
  BY <1>1, <1>2 DEF FundsKept, CashIsThere, SharesAreThere

LEMMA FundsSpent ==
  ASSUME SimTypes, NEW u, NEW s \in Owed(u), Owed(u)' = Owed(u),
         \A t \in Owed(u) : held'[t] = held[t],
         \A t \in Owed(u) \ {s} : at'[t] = at[t], at'[s] = "executed",
         portfolio[u] \in Portfolios, portfolio'[u] \in Portfolios,
         portfolio'[u].cash >= portfolio[u].cash - CashAwaited(s),
         \A i \in Instruments :
           portfolio'[u].shares[i] >= portfolio[u].shares[i] - SharesAwaited(s, i)
  PROVE  FundsKept(u)
<1> DEFINE S == Owed(u)
<1>1. IsFiniteSet(S) /\ s \in S /\ Owed(u)' = S
  BY OwedIs
<1>2. /\ [t \in S |-> CashAwaited(t)] \in [S -> Int]
      /\ \A i \in Instruments : [t \in S |-> SharesAwaited(t, i)] \in [S -> Int]
  BY AwaitedIs
<1>3. /\ CashAwaited(s)' = 0 /\ \A t \in S \ {s} : CashAwaited(t)' = CashAwaited(t)
      /\ \A i \in Instruments :
           SharesAwaited(s, i)' = 0 /\ \A t \in S \ {s} : SharesAwaited(t, i)' = SharesAwaited(t, i)
  BY DEF CashAwaited, SharesAwaited, SharesHeld, Awaiting
<1>4. /\ portfolio[u].cash \in Int /\ portfolio'[u].cash \in Int
      /\ \A i \in Instruments : portfolio[u].shares[i] \in Int /\ portfolio'[u].shares[i] \in Int
  BY DEF Portfolios
<1> HIDE DEF S
<1>5. ASSUME CashIsThere(u) PROVE CashIsThere(u)'
  <2> DEFINE f == [t \in S |-> CashAwaited(t)]  e == [t \in S |-> CashAwaited(t)']
  <2>1. /\ f \in [S -> Int] /\ e \in [S -> Int] /\ e[s] = 0 /\ f[s] = CashAwaited(s)
        /\ f[s] \in Int /\ \A t \in S \ {s} : e[t] = f[t]
    BY <1>1, <1>2, <1>3
  <2>2. portfolio[u].cash >= SumFunction(f)
    BY <1>5 DEF CashIsThere, S
  <2> HIDE DEF f, e
  <2>3. portfolio'[u].cash >= portfolio[u].cash + e[s] - f[s]
    BY <1>4, <2>1
  <2>4. portfolio'[u].cash >= SumFunction(e)
    BY <1>1, <1>4, <2>1, <2>2, <2>3, LessAwaited
  <2> QED
    BY <1>1, <2>4 DEF CashIsThere, e
<1>6. ASSUME NEW i \in Instruments, SharesAreThere(u, i) PROVE SharesAreThere(u, i)'
  <2> DEFINE f == [t \in S |-> SharesAwaited(t, i)]  e == [t \in S |-> SharesAwaited(t, i)']
  <2>1. /\ f \in [S -> Int] /\ e \in [S -> Int] /\ e[s] = 0 /\ f[s] = SharesAwaited(s, i)
        /\ f[s] \in Int /\ \A t \in S \ {s} : e[t] = f[t]
    BY <1>1, <1>2, <1>3
  <2>2. portfolio[u].shares[i] >= SumFunction(f)
    BY <1>6 DEF SharesAreThere, S
  <2> HIDE DEF f, e
  <2>3. portfolio'[u].shares[i] >= portfolio[u].shares[i] + e[s] - f[s]
    BY <1>4, <2>1
  <2>4. portfolio'[u].shares[i] >= SumFunction(e)
    BY <1>1, <1>4, <2>1, <2>2, <2>3, LessAwaited
  <2> QED
    BY <1>1, <2>4 DEF SharesAreThere, e
<1> QED
  BY <1>5, <1>6 DEF FundsKept

LEMMA FundsReturned ==
  ASSUME SimTypes, NEW u, NEW s \in Owed(u), Owed(u)' = Owed(u) \ {s},
         \A t \in Owed(u) \ {s} : held'[t] = held[t] /\ at'[t] = at[t],
         portfolio[u] \in Portfolios, portfolio'[u] = portfolio[u]
  PROVE  FundsKept(u)
<1> DEFINE S == Owed(u) \ {s}  T == Owed(u)
<1>1. IsFiniteSet(S) /\ s \notin S /\ Owed(u)' = S /\ T = S \cup {s} /\ s \in T
  BY OwedIs, FS_RemoveElement
<1>2. /\ [t \in T |-> CashAwaited(t)] \in [T -> Int]
      /\ \A i \in Instruments : [t \in T |-> SharesAwaited(t, i)] \in [T -> Int]
      /\ CashAwaited(s) >= 0 /\ \A i \in Instruments : SharesAwaited(s, i) >= 0
  BY AwaitedIs
<1>3. /\ \A t \in S : CashAwaited(t)' = CashAwaited(t)
      /\ \A i \in Instruments : \A t \in S : SharesAwaited(t, i)' = SharesAwaited(t, i)
      /\ \A t \in S : t \in T
  BY DEF CashAwaited, SharesAwaited, SharesHeld, Awaiting
<1>4. /\ portfolio[u].cash \in Int /\ \A i \in Instruments : portfolio[u].shares[i] \in Int
  BY DEF Portfolios
<1> HIDE DEF S, T
<1>5. ASSUME CashIsThere(u) PROVE CashIsThere(u)'
  <2> DEFINE f == [t \in T |-> CashAwaited(t)]  e == [t \in S |-> CashAwaited(t)']
  <2>1. /\ f \in [T -> Int] /\ e \in [S -> Int] /\ f[s] >= 0 /\ \A t \in S : f[t] = e[t]
    BY <1>1, <1>2, <1>3
  <2>2. portfolio[u].cash >= SumFunction(f)
    BY <1>5 DEF CashIsThere, T
  <2> HIDE DEF f, e
  <2>3. portfolio[u].cash >= SumFunction(e)
    BY <1>1, <1>4, <2>1, <2>2, OneAwaitedLess, Z3
  <2> QED
    BY <1>1, <2>3 DEF CashIsThere, e
<1>6. ASSUME NEW i \in Instruments, SharesAreThere(u, i) PROVE SharesAreThere(u, i)'
  <2> DEFINE f == [t \in T |-> SharesAwaited(t, i)]  e == [t \in S |-> SharesAwaited(t, i)']
  <2>1. /\ f \in [T -> Int] /\ e \in [S -> Int] /\ f[s] >= 0 /\ \A t \in S : f[t] = e[t]
    BY <1>1, <1>2, <1>3
  <2>2. portfolio[u].shares[i] >= SumFunction(f)
    BY <1>6 DEF SharesAreThere, T
  <2> HIDE DEF f, e
  <2>3. portfolio[u].shares[i] >= SumFunction(e)
    BY <1>1, <1>4, <2>1, <2>2, OneAwaitedLess, Z3
  <2> QED
    BY <1>1, <2>3 DEF SharesAreThere, e
<1> QED
  BY <1>5, <1>6 DEF FundsKept

LEMMA FundsFor ==
  ASSUME SimTypes, NEW u, NEW s, s \notin Owed(u), Owed(u)' = Owed(u) \cup {s},
         \A t \in Owed(u) : held'[t] = held[t] /\ at'[t] = at[t],
         portfolio[u] \in Portfolios, portfolio'[u] = portfolio[u],
         CashAwaited(s)' \in Int, \A i \in Instruments : SharesAwaited(s, i)' \in Int
  PROVE  /\ portfolio[u].cash >= SumFunction([t \in Owed(u) |-> CashAwaited(t)]) + CashAwaited(s)'
              => CashIsThere(u)'
         /\ \A i \in Instruments :
              portfolio[u].shares[i]
                >= SumFunction([t \in Owed(u) |-> SharesAwaited(t, i)]) + SharesAwaited(s, i)'
              => SharesAreThere(u, i)'
<1> DEFINE S == Owed(u)  T == Owed(u) \cup {s}
<1>1. IsFiniteSet(S) /\ s \notin S /\ Owed(u)' = T /\ T = S \cup {s} /\ s \in T
  BY OwedIs
<1>2. /\ [t \in S |-> CashAwaited(t)] \in [S -> Int]
      /\ \A i \in Instruments : [t \in S |-> SharesAwaited(t, i)] \in [S -> Int]
  BY AwaitedIs
<1>3. /\ \A t \in S : CashAwaited(t)' = CashAwaited(t)
      /\ \A i \in Instruments : \A t \in S : SharesAwaited(t, i)' = SharesAwaited(t, i)
      /\ \A t \in T : t \in S \/ t = s
  BY DEF CashAwaited, SharesAwaited, SharesHeld, Awaiting
<1>4. /\ portfolio[u].cash \in Int /\ \A i \in Instruments : portfolio[u].shares[i] \in Int
  BY DEF Portfolios
<1> HIDE DEF S, T
<1>5. ASSUME portfolio[u].cash >= SumFunction([t \in S |-> CashAwaited(t)]) + CashAwaited(s)'
      PROVE  CashIsThere(u)'
  <2> DEFINE f == [t \in S |-> CashAwaited(t)]  e == [t \in T |-> CashAwaited(t)']
  <2>1. /\ f \in [S -> Int] /\ e \in [T -> Int] /\ e[s] = CashAwaited(s)' /\ \A t \in S : e[t] = f[t]
    BY <1>1, <1>2, <1>3
  <2>2. portfolio[u].cash >= SumFunction(f) + e[s]
    BY <1>5, <2>1
  <2> HIDE DEF f, e
  <2>3. portfolio[u].cash >= SumFunction(e)
    BY <1>1, <1>4, <2>1, <2>2, OneAwaitedMore, Zenon
  <2> QED
    BY <1>1, <2>3 DEF CashIsThere, e
<1>6. ASSUME NEW i \in Instruments,
             portfolio[u].shares[i]
               >= SumFunction([t \in S |-> SharesAwaited(t, i)]) + SharesAwaited(s, i)'
      PROVE  SharesAreThere(u, i)'
  <2> DEFINE f == [t \in S |-> SharesAwaited(t, i)]  e == [t \in T |-> SharesAwaited(t, i)']
  <2>1. /\ f \in [S -> Int] /\ e \in [T -> Int] /\ e[s] = SharesAwaited(s, i)'
        /\ \A t \in S : e[t] = f[t]
    BY <1>1, <1>2, <1>3
  <2>2. portfolio[u].shares[i] >= SumFunction(f) + e[s]
    BY <1>6, <2>1
  <2> HIDE DEF f, e
  <2>3. portfolio[u].shares[i] >= SumFunction(e)
    BY <1>1, <1>4, <2>1, <2>2, OneAwaitedMore, Zenon
  <2> QED
    BY <1>1, <2>3 DEF SharesAreThere, e
<1> QED
  BY <1>5, <1>6 DEF S

(* What the shadow has left is there, besides all that is awaited.         *)
LEMMA LeftIsThere ==
  ASSUME SimTypes, Balance, InStep, NEW u \in DOMAIN ledger.users, Trusted(ledger, u),
         \A s \in Owed(u) : held[s].expectation # "FILLED" => ~ Fills(execution[s])
  PROVE  LET left == ledger.users[u] IN
         /\ portfolio[u].cash
              >= SumFunction([s \in Owed(u) |-> CashAwaited(s)]) + (left.cash - left.heldCash)
         /\ \A i \in Instruments :
              portfolio[u].shares[i]
                >= SumFunction([s \in Owed(u) |-> SharesAwaited(s, i)])
                     + (left.shares[i] - left.heldShares[i])
<1> DEFINE S == Owed(u)
<1>1. /\ IsFiniteSet(S) /\ S \subseteq Slots /\ Agrees(u) /\ Balanced(u)
      /\ ledger.users[u] \in Shadows
  BY OwedIs DEF InStep, TrustIsEarned, Balance, SimTypes, ServiceOK, IsLedger
<1>2. /\ [s \in S |-> held[s].heldCash] \in [S -> Int]
      /\ [s \in S |-> CashOut(s)] \in [S -> Int]
      /\ [s \in S |-> CashAwaited(s)] \in [S -> Int]
      /\ \A i \in Instruments :
           /\ [s \in S |-> SharesHeld(s, i)] \in [S -> Int]
           /\ [s \in S |-> SharesOut(s, i)] \in [S -> Int]
           /\ [s \in S |-> SharesAwaited(s, i)] \in [S -> Int]
  BY OwedIs, OutIs, AwaitedIs
<1>3. ASSUME NEW s \in S
      PROVE  /\ held[s].heldCash + CashOut(s) >= CashAwaited(s)
             /\ \A i \in Instruments : SharesHeld(s, i) + SharesOut(s, i) >= SharesAwaited(s, i)
  <2>1. /\ s \in Slots /\ s \in InFlight /\ held[s] \in Reservations /\ held[s].order \in Orders
        /\ Holds(held[s]) /\ held[s].heldCash \in Nat /\ held[s].heldShares \in Nat
    BY <1>1, FlightIs DEF Owed, SimTypes, CallOK, Reservations
  <2>2. /\ execution[s] # NoExecution => at[s] = "executed" /\ DecidedFor(held[s].order, execution[s])
        /\ at[s] \in {"sent", "executed"}
    BY <2>1 DEF SimTypes, CallOK, InFlight
  <2>3. CASE ~ Fills(execution[s])
    BY <2>1, <2>3 DEF CashOut, SharesOut, CashMove, SharesMove, CashAwaited, SharesAwaited, SharesHeld
  <2>4. CASE Fills(execution[s])
    <3>1. at[s] = "executed" /\ held[s].expectation = "FILLED"
      BY <2>2, <2>4 DEF Fills
    <3>2. CashAwaited(s) = 0 /\ \A i \in Instruments : SharesAwaited(s, i) = 0
      BY <3>1 DEF CashAwaited, SharesAwaited, Awaiting
    <3>3. /\ held[s].heldCash = IF held[s].order.side = "BUY" THEN Cost(held[s].order) ELSE 0
          /\ held[s].heldShares = IF held[s].order.side = "SELL" THEN held[s].order.size ELSE 0
          /\ execution[s].price = Close[held[s].order.instrumentId]
      BY <2>1, <2>2, <2>4, <3>1 DEF Holds, DecidedFor, Fills
    <3>4. /\ Cost(held[s].order) \in Nat /\ held[s].order.size \in Nat
          /\ Close[held[s].order.instrumentId] \in Nat /\ held[s].order.side \in {"BUY", "SELL"}
      BY <2>1, CostIs DEF Orders, SIDES
    <3>5. CashOut(s) = IF held[s].order.side = "BUY" THEN - Cost(held[s].order)
                       ELSE Cost(held[s].order)
      <4>1. CashOut(s) = - (Close[held[s].order.instrumentId] * Bought(held[s].order))
        BY <2>4, <3>3 DEF CashOut, CashMove
      <4>2. \A a, b \in Nat : - (a * (- b)) = a * b
        OBVIOUS
      <4> QED
        BY <3>4, <4>1, <4>2 DEF Bought, Cost
    <3>6. \A i \in Instruments :
            SharesOut(s, i) = IF i = held[s].order.instrumentId THEN Bought(held[s].order) ELSE 0
      BY <2>4 DEF SharesOut, SharesMove
    <3>7. held[s].heldCash + CashOut(s) >= 0
      BY <3>3, <3>4, <3>5
    <3>8. \A i \in Instruments : SharesHeld(s, i) + SharesOut(s, i) >= 0
      <4>1. held[s].heldShares + Bought(held[s].order) >= 0
        BY <3>3, <3>4 DEF Bought
      <4>2. ASSUME NEW i \in Instruments PROVE SharesHeld(s, i) + SharesOut(s, i) >= 0
        <5>1. CASE i = held[s].order.instrumentId
          <6>1. SharesHeld(s, i) = held[s].heldShares /\ SharesOut(s, i) = Bought(held[s].order)
            BY <3>6, <5>1 DEF SharesHeld
          <6> QED
            BY <4>1, <6>1
        <5>2. CASE i # held[s].order.instrumentId
          <6>1. SharesHeld(s, i) = 0 /\ SharesOut(s, i) = 0
            BY <3>6, <5>2 DEF SharesHeld
          <6> QED
            BY <6>1
        <5> QED
          BY <5>1, <5>2
      <4> QED
        BY <4>2
    <3> QED
      BY <3>2, <3>7, <3>8
  <2> QED
    BY <2>3, <2>4
<1>4. /\ ledger.users[u].cash \in Int /\ ledger.users[u].heldCash \in Int
      /\ \A i \in Instruments :
           ledger.users[u].shares[i] \in Int /\ ledger.users[u].heldShares[i] \in Int
  BY <1>1 DEF Shadows
<1>5. /\ ledger.users[u].heldCash = SumFunction([s \in S |-> held[s].heldCash])
      /\ ledger.users[u].cash + SumFunction([s \in S |-> CashOut(s)]) = portfolio[u].cash
      /\ \A i \in Instruments :
           /\ ledger.users[u].heldShares[i] = SumFunction([s \in S |-> SharesHeld(s, i)])
           /\ ledger.users[u].shares[i] + SumFunction([s \in S |-> SharesOut(s, i)])
                = portfolio[u].shares[i]
  BY <1>1 DEF Balanced, Agrees
<1> HIDE DEF S
<1>6. portfolio[u].cash
        >= SumFunction([s \in S |-> CashAwaited(s)])
             + (ledger.users[u].cash - ledger.users[u].heldCash)
  <2> DEFINE f == [s \in S |-> held[s].heldCash]  e == [s \in S |-> CashOut(s)]
             d == [s \in S |-> CashAwaited(s)]
  <2>1. /\ f \in [S -> Int] /\ e \in [S -> Int] /\ d \in [S -> Int]
        /\ \A s \in S : f[s] + e[s] >= d[s]
    BY <1>2, <1>3
  <2>2. /\ ledger.users[u].heldCash = SumFunction(f)
        /\ ledger.users[u].cash + SumFunction(e) = portfolio[u].cash
    BY <1>5
  <2> HIDE DEF f, e, d
  <2>3. SumFunction(f) + SumFunction(e) >= SumFunction(d)
    BY <1>1, <2>1, SumsCompare
  <2>4. SumFunction(f) \in Int /\ SumFunction(e) \in Int /\ SumFunction(d) \in Int
    BY <1>1, <2>1, SumIsInt
  <2>5. portfolio[u].cash >= SumFunction(d) + (ledger.users[u].cash - ledger.users[u].heldCash)
    BY <1>4, <2>2, <2>3, <2>4
  <2> QED
    BY <2>5 DEF d
<1>7. ASSUME NEW i \in Instruments
      PROVE  portfolio[u].shares[i]
               >= SumFunction([s \in S |-> SharesAwaited(s, i)])
                    + (ledger.users[u].shares[i] - ledger.users[u].heldShares[i])
  <2> DEFINE f == [s \in S |-> SharesHeld(s, i)]  e == [s \in S |-> SharesOut(s, i)]
             d == [s \in S |-> SharesAwaited(s, i)]
  <2>1. /\ f \in [S -> Int] /\ e \in [S -> Int] /\ d \in [S -> Int]
        /\ \A s \in S : f[s] + e[s] >= d[s]
    BY <1>2, <1>3
  <2>2. /\ ledger.users[u].heldShares[i] = SumFunction(f)
        /\ ledger.users[u].shares[i] + SumFunction(e) = portfolio[u].shares[i]
    BY <1>5
  <2> HIDE DEF f, e, d
  <2>3. SumFunction(f) + SumFunction(e) >= SumFunction(d)
    BY <1>1, <2>1, SumsCompare
  <2>4. SumFunction(f) \in Int /\ SumFunction(e) \in Int /\ SumFunction(d) \in Int
    BY <1>1, <2>1, SumIsInt
  <2>5. portfolio[u].shares[i]
          >= SumFunction(d) + (ledger.users[u].shares[i] - ledger.users[u].heldShares[i])
    BY <1>4, <2>2, <2>3, <2>4
  <2> QED
    BY <2>5 DEF d
<1> QED
  BY <1>6, <1>7 DEF S

(* Who is left alone stays as it was, if what it needs is kept.            *)
LEMMA SameFill ==
  ASSUME SimTypes, [Next]_simVars, NEW t \in Slots, FillOK(t), at'[t] = at[t],
         held'[t] = held[t], execution'[t] = execution[t], row'[t] = row[t],
         at[t] = "sent" /\ ~ Spoilt(t)' => FundsKept(UserOf(t))
  PROVE  FillOK(t)'
<1>1. CallOK(t) /\ filled \subseteq filled' /\ (at[t] # "unsent" /\ Spoilt(t) => Spoilt(t)')
  BY FilledStays, SpoiltStays DEF SimTypes
<1>2. CASE at[t] = "unsent"
  <2>1. row'[t].expected = "UNKNOWN" /\ execution'[t] = NoExecution
    BY <1>1, <1>2 DEF CallOK, NoRow
  <2> QED
    BY <1>2, <2>1 DEF FillOK, Awaiting, Fills
<1>3. CASE at[t] # "unsent"
  <2>1. ASSUME Awaiting(t)', ~ Spoilt(t)' PROVE Funded(t)'
    <3>1. Awaiting(t) /\ ~ Spoilt(t) /\ t \in InFlight
      BY <1>1, <1>3, <2>1 DEF Awaiting, InFlight
    <3>2. Funded(t) /\ FundsKept(UserOf(t))
      BY <2>1, <3>1 DEF FillOK, Awaiting
    <3>3. held[t].order.instrumentId \in Instruments
      BY <3>1, FlightIs DEF Orders
    <3>4. ASSUME NEW u, u = UserOf(t) PROVE Funded(t)'
      <4>1. UserOf(t)' = u
        BY <3>4 DEF UserOf
      <4>2. CASE held[t].order.side = "BUY"
        BY <3>2, <3>4, <4>1, <4>2 DEF Funded, FundsKept
      <4>3. CASE held[t].order.side # "BUY"
        BY <3>2, <3>3, <3>4, <4>1, <4>3 DEF Funded, FundsKept
      <4> QED
        BY <4>2, <4>3
    <3> QED
      BY <3>4
  <2>2. Fills(execution'[t]) <=> Fills(execution[t])
    OBVIOUS
  <2> QED
    BY <1>1, <1>3, <2>1, <2>2 DEF FillOK
<1> QED
  BY <1>2, <1>3

LEMMA ShedFills ==
  ASSUME SimTypes, InStep, FillsOK, [Next]_simVars, NEW s \in Slots, Shed(s)
  PROVE  FillsOK'
<1>1. /\ at[s] = "sent" /\ at' = [at EXCEPT ![s] = "executed"]
      /\ UNCHANGED <<ledger, held, execution, row, portfolio, filled, beside>>
  BY DEF Shed, service, history
<1>2. /\ InFlight' = InFlight /\ s \in InFlight /\ at'[s] = "executed"
      /\ execution[s] = NoExecution /\ row[s] = NoRow
      /\ \A t \in Slots \ {s} : at'[t] = at[t]
  BY <1>1 DEF SimTypes, CallsTyped, CallOK, InFlight
<1>3. Overlapping'
  BY <1>1, <1>2 DEF FillsOK, Overlapping
<1>4. \A u : Owed(u)' = Owed(u)
  BY <1>1, <1>2 DEF Owed, UserOf
<1>5. ASSUME NEW u \in Users PROVE FundsKept(u)
  <2>1. CASE s \in Owed(u)
    <3>1. /\ portfolio'[u] = portfolio[u] /\ portfolio[u] \in Portfolios
          /\ portfolio[u].cash \in Int /\ \A i \in Instruments : portfolio[u].shares[i] \in Int
      BY <1>1 DEF SimTypes, WorldOK, Portfolios
    <3>2. /\ CashAwaited(s) \in Int /\ CashAwaited(s) >= 0
          /\ \A i \in Instruments : SharesAwaited(s, i) \in Int /\ SharesAwaited(s, i) >= 0
      BY <1>2, FlightIs DEF CashAwaited, SharesAwaited, SharesHeld, Reservations
    <3>3. /\ portfolio'[u].cash >= portfolio[u].cash - CashAwaited(s)
          /\ \A i \in Instruments :
               portfolio'[u].shares[i] >= portfolio[u].shares[i] - SharesAwaited(s, i)
      BY <3>1, <3>2
    <3>4. /\ \A t \in Owed(u) : held'[t] = held[t]
          /\ \A t \in Owed(u) \ {s} : at'[t] = at[t]
      BY <1>1, <1>2, OwedIs
    <3> QED
      BY <1>2, <1>4, <2>1, <3>1, <3>3, <3>4, FundsSpent
  <2>2. CASE s \notin Owed(u)
    <3>1. \A t \in Owed(u) : at'[t] = at[t] /\ held'[t] = held[t]
      BY <1>1, <1>2, <2>2, OwedIs
    <3> QED
      BY <1>1, <1>4, <3>1, FundsSame
  <2> QED
    BY <2>1, <2>2
<1>6. ASSUME NEW t \in Slots \ {s} PROVE FillOK(t)'
  <2>1. at[t] = "sent" => UserOf(t) \in Users
    BY FlightIs DEF InFlight
  <2> QED
    BY <1>1, <1>2, <1>5, <2>1, SameFill DEF FillsOK
<1>7. FillOK(s)'
  <2>1. execution'[s] = NoExecution
    BY <1>1, <1>2
  <2> QED
    BY <1>1, <1>2, <2>1 DEF FillOK, Awaiting, Fills, NoRow
<1> QED
  BY <1>3, <1>6, <1>7 DEF FillsOK

LEMMA ReturningFills ==
  ASSUME SimTypes, InStep, FillsOK, [Next]_simVars, NEW s \in Slots, Returning(s)
  PROVE  FillsOK'
<1>1. s \in InFlight /\ ledger'.generation = ledger.generation
  BY ReturningSettles DEF Settled
<1>2. PICK position \in {"late", "done"}, actual \in ORDER_STATUSES \cup {"none"} :
       /\ at' = [at EXCEPT ![s] = position]
       /\ held' = [held EXCEPT ![s] = NoReservation]
       /\ execution' = [execution EXCEPT ![s] = NoExecution]
       /\ row' = [row EXCEPT ![s] = [order |-> held[s].order,
                                     expected |-> held[s].expectation,
                                     actual |-> actual]]
       /\ actual # "none" => execution[s] # NoExecution /\ actual = execution[s].status
       /\ UNCHANGED <<portfolio, filled, beside, mishaps>>
  BY ReturningIs
<1>3. /\ InFlight' = InFlight \ {s} /\ at'[s] = position /\ execution'[s] = NoExecution
      /\ row'[s].expected = held[s].expectation /\ row'[s].actual = actual
      /\ \A t \in Slots \ {s} :
           at'[t] = at[t] /\ held'[t] = held[t] /\ execution'[t] = execution[t] /\ row'[t] = row[t]
  BY <1>2 DEF SimTypes, CallsTyped, InFlight
<1>4. Overlapping'
  BY <1>2, <1>3 DEF FillsOK, Overlapping
<1>5. \A u : Owed(u)' = Owed(u) \ {s}
  BY <1>1, <1>3 DEF Owed, UserOf, InFlight
<1>6. ASSUME NEW u \in Users PROVE FundsKept(u)
  <2>1. \A t \in Owed(u) \ {s} : held'[t] = held[t] /\ at'[t] = at[t]
    BY <1>3, OwedIs
  <2>2. portfolio'[u] = portfolio[u] /\ portfolio[u] \in Portfolios
    BY <1>2 DEF SimTypes, WorldOK
  <2>3. CASE s \in Owed(u)
    BY <1>5, <2>1, <2>2, <2>3, FundsReturned
  <2>4. CASE s \notin Owed(u)
    <3>1. Owed(u)' = Owed(u) /\ \A t \in Owed(u) : at'[t] = at[t] /\ held'[t] = held[t]
      BY <1>5, <2>1, <2>4
    <3> QED
      BY <2>2, <3>1, FundsSame
  <2> QED
    BY <2>3, <2>4
<1>7. ASSUME NEW t \in Slots \ {s} PROVE FillOK(t)'
  <2>1. at[t] = "sent" => UserOf(t) \in Users
    BY FlightIs DEF InFlight
  <2> QED
    BY <1>3, <1>6, <2>1, SameFill DEF FillsOK
<1>8. FillOK(s)'
  <2>1. FillOK(s) /\ at[s] # "unsent" /\ (execution[s] # NoExecution => at[s] = "executed")
    BY <1>1 DEF FillsOK, SimTypes, CallOK, InFlight
  <2>2. held[s].expectation = "FILLED" /\ actual = "REJECTED" => Spoilt(s)
    BY <1>2, <2>1 DEF FillOK, Fills
  <2>3. Spoilt(s) => Spoilt(s)'
    BY <2>1, SpoiltStays
  <2> QED
    BY <1>3, <2>2, <2>3 DEF FillOK, Awaiting, Fills
<1> QED
  BY <1>4, <1>7, <1>8 DEF FillsOK

LEMMA PlacingFills ==
  ASSUME SimTypes, Balance, InStep, FillsOK, [Next]_simVars, NEW s \in Slots, Placing(s)
  PROVE  FillsOK'
<1>1. PICK order \in Menu : place(s, order)
  BY DEF Placing
<1> DEFINE r == Reservation(ledger, order)  u == order.userId  i == order.instrumentId
<1>2. /\ order \in Orders /\ r \in Reservations /\ r.order = order /\ Holds(r)
      /\ r.generation = ledger.generation
      /\ at[s] = "unsent" /\ at' = [at EXCEPT ![s] = "sent"]
      /\ held' = [held EXCEPT ![s] = r]
      /\ beside' = [beside EXCEPT ![s] = InFlight]
      /\ ledger'.generation = ledger.generation
      /\ UNCHANGED <<reseeding, reads, execution, row, portfolio, filled>>
  BY <1>1, PlacingIs
<1>3. r.expectation = "FILLED" => Trusted(ledger, u) /\ Covered(ledger.users[u], order, Close[i])
  BY <1>2, ReservationIs DEF SimTypes, ServiceOK
<1> HIDE DEF r
<1>4. /\ held'[s] = r /\ at'[s] = "sent" /\ row'[s] = NoRow /\ execution'[s] = NoExecution
      /\ UserOf(s)' = u /\ u \in Users /\ i \in Instruments /\ order.side \in {"BUY", "SELL"}
      /\ \A t \in Slots \ {s} :
           /\ held'[t] = held[t] /\ at'[t] = at[t] /\ beside'[t] = beside[t]
           /\ execution'[t] = execution[t] /\ row'[t] = row[t]
      /\ InFlight' = InFlight \cup {s} /\ s \notin InFlight /\ beside'[s] = InFlight
  BY <1>2, CostIs DEF SimTypes, CallsTyped, WorldOK, CallOK, InFlight, UserOf, Orders, SIDES
<1>5. Overlapping'
  BY <1>4 DEF FillsOK, Overlapping, InFlight
<1>6. \A v : Owed(v)' = IF v = u THEN Owed(v) \cup {s} ELSE Owed(v)
  BY <1>2, <1>4 DEF Owed, UserOf, InFlight
<1>7. /\ \A v : s \notin Owed(v)
      /\ \A v : \A t \in Owed(v) : t \in Slots \ {s} /\ held'[t] = held[t] /\ at'[t] = at[t]
  <2>1. \A v : s \notin Owed(v)
    BY <1>4 DEF Owed
  <2> QED
    BY <1>4, <2>1, OwedIs
<1>8. /\ portfolio'[u] = portfolio[u] /\ portfolio[u] \in Portfolios
      /\ portfolio[u].cash \in Int /\ \A k \in Instruments : portfolio[u].shares[k] \in Int
  BY <1>2, <1>4 DEF SimTypes, WorldOK, Portfolios
<1>9. /\ CashAwaited(s)' = IF r.expectation = "FILLED" /\ order.side = "BUY" THEN Cost(order) ELSE 0
      /\ \A k \in Instruments :
           SharesAwaited(s, k)' =
             IF r.expectation = "FILLED" /\ order.side = "SELL" /\ k = i THEN order.size ELSE 0
      /\ Cost(order) \in Nat /\ order.size \in Nat
  <2>1. Cost(order) \in Nat /\ order.size \in Nat
    BY <1>2, CostIs
  <2>2. CASE r.expectation = "FILLED"
    BY <1>2, <1>4, <2>1, <2>2 DEF Holds, CashAwaited, SharesAwaited, SharesHeld, Awaiting
  <2>3. CASE r.expectation # "FILLED"
    BY <1>2, <1>4, <2>1, <2>3 DEF Holds, CashAwaited, SharesAwaited, SharesHeld, Awaiting
  <2> QED
    BY <2>2, <2>3
<1>10. /\ portfolio[u].cash >= SumFunction([t \in Owed(u) |-> CashAwaited(t)]) + CashAwaited(s)'
            => CashIsThere(u)'
       /\ \A k \in Instruments :
            portfolio[u].shares[k]
              >= SumFunction([t \in Owed(u) |-> SharesAwaited(t, k)]) + SharesAwaited(s, k)'
            => SharesAreThere(u, k)'
  <2>1. CashAwaited(s)' \in Int /\ \A k \in Instruments : SharesAwaited(s, k)' \in Int
    BY <1>9
  <2>2. Owed(u)' = Owed(u) \cup {s}
    BY <1>6
  <2>3. s \notin Owed(u) /\ \A t \in Owed(u) : held'[t] = held[t] /\ at'[t] = at[t]
    BY <1>7
  <2>4. portfolio'[u] = portfolio[u] /\ portfolio[u] \in Portfolios
    BY <1>8
  <2> QED
    BY <2>1, <2>2, <2>3, <2>4, FundsFor
<1>11. ASSUME NEW t \in InFlight', at'[t] = "sent", UserOf(t)' = u, ~ Spoilt(t)',
              r.expectation = "FILLED"
       PROVE  /\ order.side = "BUY" => CashIsThere(u)'
              /\ order.side = "SELL" => SharesAreThere(u, i)'
  <2>1. ASSUME NEW o \in Owed(u), held[o].expectation # "FILLED", Fills(execution[o]) PROVE FALSE
    <3>1. /\ o \in InFlight /\ o \in Slots \ {s} /\ UserOf(o) = u /\ CallOK(o) /\ FillOK(o)
      BY <1>7 DEF Owed, SimTypes, FillsOK
    <3>2. at[o] = "executed" /\ o \in filled
      BY <2>1, <3>1 DEF CallOK, Fills, FillOK
    <3>3. /\ o \in InFlight' /\ UserOf(o)' = u /\ o # t /\ o \in filled'
          /\ held'[o].expectation # "FILLED"
      BY <1>2, <1>4, <1>11, <2>1, <3>1, <3>2 DEF UserOf
    <3>4. Spoilt(t)'
      <4>1. Overlapping' /\ t \in InFlight' /\ o \in InFlight' /\ t # o /\ UserOf(t)' = UserOf(o)'
        BY <1>5, <1>11, <3>3
      <4> QED
        BY <3>3, <4>1 DEF Overlapping, Spoilt, OwnerOf, ExpectationOf
    <3> QED
      BY <1>11, <3>4
  <2>2. u \in DOMAIN ledger.users /\ Trusted(ledger, u)
    BY <1>3, <1>11 DEF Trusted, Shadowed
  <2> DEFINE left == ledger.users[u]
  <2>3. /\ portfolio[u].cash
             >= SumFunction([o \in Owed(u) |-> CashAwaited(o)]) + (left.cash - left.heldCash)
        /\ portfolio[u].shares[i]
             >= SumFunction([o \in Owed(u) |-> SharesAwaited(o, i)])
                  + (left.shares[i] - left.heldShares[i])
    BY <1>4, <2>1, <2>2, LeftIsThere
  <2>4. /\ left.cash \in Int /\ left.heldCash \in Int
        /\ left.shares[i] \in Int /\ left.heldShares[i] \in Int
    BY <1>4, <2>2 DEF SimTypes, ServiceOK, IsLedger, Shadows
  <2>5. /\ SumFunction([o \in Owed(u) |-> CashAwaited(o)]) \in Int
        /\ SumFunction([o \in Owed(u) |-> SharesAwaited(o, i)]) \in Int
    BY <1>4, OwedIs, AwaitedIs, SumIsInt
  <2>6. /\ order.side = "BUY" => left.cash - left.heldCash >= Cost(order)
        /\ order.side = "SELL" => left.shares[i] - left.heldShares[i] >= order.size
    BY <1>3, <1>11 DEF Covered, Cost
  <2> HIDE DEF left
  <2>7. ASSUME order.side = "BUY" PROVE CashIsThere(u)'
    <3>1. CashAwaited(s)' = Cost(order)
      BY <1>9, <1>11, <2>7
    <3>2. portfolio[u].cash >= SumFunction([o \in Owed(u) |-> CashAwaited(o)]) + CashAwaited(s)'
      BY <1>8, <1>9, <2>3, <2>4, <2>5, <2>6, <2>7, <3>1
    <3> QED
      BY <1>10, <3>2
  <2>8. ASSUME order.side = "SELL" PROVE SharesAreThere(u, i)'
    <3>1. SharesAwaited(s, i)' = order.size
      BY <1>4, <1>9, <1>11, <2>8
    <3>2. portfolio[u].shares[i]
            >= SumFunction([o \in Owed(u) |-> SharesAwaited(o, i)]) + SharesAwaited(s, i)'
      BY <1>4, <1>8, <1>9, <2>3, <2>4, <2>5, <2>6, <2>8, <3>1
    <3> QED
      BY <1>4, <1>10, <3>2
  <2> QED
    BY <2>7, <2>8
<1>12. ASSUME NEW t \in InFlight', at'[t] = "sent", UserOf(t)' = u, ~ Spoilt(t)'
       PROVE  FundsKept(u)
  <2>1. ASSUME CashIsThere(u) PROVE CashIsThere(u)'
    <3>1. CASE r.expectation = "FILLED" /\ order.side = "BUY"
      BY <1>11, <1>12, <3>1
    <3>2. CASE ~ (r.expectation = "FILLED" /\ order.side = "BUY")
      <4>1. CashAwaited(s)' = 0
        BY <1>9, <3>2
      <4>2. SumFunction([o \in Owed(u) |-> CashAwaited(o)]) \in Int
        BY OwedIs, AwaitedIs, SumIsInt
      <4>3. portfolio[u].cash >= SumFunction([o \in Owed(u) |-> CashAwaited(o)]) + CashAwaited(s)'
        BY <1>8, <2>1, <4>1, <4>2 DEF CashIsThere
      <4> QED
        BY <1>10, <4>3
    <3> QED
      BY <3>1, <3>2
  <2>2. ASSUME NEW k \in Instruments, SharesAreThere(u, k) PROVE SharesAreThere(u, k)'
    <3>1. CASE r.expectation = "FILLED" /\ order.side = "SELL" /\ k = i
      BY <1>11, <1>12, <3>1
    <3>2. CASE ~ (r.expectation = "FILLED" /\ order.side = "SELL" /\ k = i)
      <4>1. SharesAwaited(s, k)' = 0
        BY <1>9, <3>2
      <4>2. SumFunction([o \in Owed(u) |-> SharesAwaited(o, k)]) \in Int
        BY OwedIs, AwaitedIs, SumIsInt
      <4>3. portfolio[u].shares[k]
              >= SumFunction([o \in Owed(u) |-> SharesAwaited(o, k)]) + SharesAwaited(s, k)'
        BY <1>8, <2>2, <4>1, <4>2 DEF SharesAreThere
      <4> QED
        BY <1>10, <4>3
    <3> QED
      BY <3>1, <3>2
  <2> QED
    BY <2>1, <2>2 DEF FundsKept
<1>13. ASSUME NEW t \in Slots \ {s} PROVE FillOK(t)'
  <2>1. ASSUME at[t] = "sent", ~ Spoilt(t)' PROVE FundsKept(UserOf(t))
    <3>1. t \in InFlight' /\ at'[t] = "sent" /\ UserOf(t)' = UserOf(t)
      BY <1>4, <2>1 DEF InFlight, UserOf
    <3>2. CASE UserOf(t) = u
      BY <1>12, <2>1, <3>1, <3>2
    <3>3. CASE UserOf(t) # u
      <4>1. ASSUME NEW v, v = UserOf(t) PROVE FundsKept(v)
        <5>1. Owed(v)' = Owed(v) /\ portfolio'[v] = portfolio[v]
          BY <1>2, <1>6, <3>3, <4>1
        <5> QED
          BY <1>7, <5>1, FundsSame
      <4> QED
        BY <4>1
    <3> QED
      BY <3>2, <3>3
  <2> QED
    BY <1>4, <2>1, SameFill DEF FillsOK
<1>14. FillOK(s)'
  <2>1. ASSUME Awaiting(s)', ~ Spoilt(s)' PROVE Funded(s)'
    <3>1. s \in InFlight' /\ at'[s] = "sent" /\ r.expectation = "FILLED" /\ held'[s].order = order
      BY <1>2, <1>4, <2>1 DEF Awaiting
    <3>2. /\ order.side = "BUY" => CashIsThere(u)'
          /\ order.side = "SELL" => SharesAreThere(u, i)'
      BY <1>4, <1>11, <2>1, <3>1
    <3>3. ASSUME NEW v, v = u PROVE Funded(s)'
      BY <1>4, <3>1, <3>2, <3>3 DEF Funded
    <3> QED
      BY <3>3
  <2> QED
    BY <1>4, <2>1 DEF FillOK, Fills, NoRow
<1> QED
  BY <1>5, <1>13, <1>14 DEF FillsOK

(* A fill takes no more than was held for it.                              *)
LEMMA FillTakesWhatIsHeld ==
  ASSUME NEW r \in Reservations, Holds(r), NEW d \in Decisions, DecidedFor(r.order, d),
         Fills(d) => r.expectation = "FILLED"
  PROVE  /\ CashMove(r.order, d) + r.heldCash >= 0
         /\ \A i \in Instruments : SharesMove(r.order, d, i) + HeldFor(r, i) >= 0
<1> DEFINE order == r.order
<1>1. /\ order \in Orders /\ r.heldCash \in Nat /\ r.heldShares \in Nat
  BY DEF Reservations
<1>2. /\ Cost(order) \in Nat /\ order.size \in Nat /\ Close[order.instrumentId] \in Nat
      /\ order.side \in {"BUY", "SELL"}
  BY <1>1, CostIs DEF Orders, SIDES
<1>3. CASE ~ Fills(d)
  BY <1>1, <1>3 DEF CashMove, SharesMove, HeldFor
<1>4. CASE Fills(d)
  <2>1. /\ r.heldCash = IF order.side = "BUY" THEN Cost(order) ELSE 0
        /\ r.heldShares = IF order.side = "SELL" THEN order.size ELSE 0
        /\ d.price = Close[order.instrumentId]
    BY <1>4 DEF Holds, DecidedFor
  <2>2. CashMove(order, d) = IF order.side = "BUY" THEN - Cost(order) ELSE Cost(order)
    <3>1. CashMove(order, d) = - (Close[order.instrumentId] * Bought(order))
      BY <1>4, <2>1 DEF CashMove
    <3>2. \A a, b \in Nat : - (a * (- b)) = a * b
      OBVIOUS
    <3> QED
      BY <1>2, <3>1, <3>2 DEF Bought, Cost
  <2>3. Bought(order) + r.heldShares >= 0
    BY <1>2, <2>1 DEF Bought
  <2>4. CashMove(order, d) + r.heldCash >= 0
    BY <1>2, <2>1, <2>2
  <2>5. ASSUME NEW i \in Instruments PROVE SharesMove(order, d, i) + HeldFor(r, i) >= 0
    <3>1. CASE i = order.instrumentId
      <4>1. SharesMove(order, d, i) = Bought(order) /\ HeldFor(r, i) = r.heldShares
        BY <1>4, <3>1 DEF SharesMove, HeldFor
      <4> QED
        BY <2>3, <4>1
    <3>2. CASE i # order.instrumentId
      <4>1. SharesMove(order, d, i) = 0 /\ HeldFor(r, i) = 0
        BY <1>4, <3>2 DEF SharesMove, HeldFor
      <4> QED
        BY <4>1
    <3> QED
      BY <3>1, <3>2
  <2> QED
    BY <2>4, <2>5
<1> QED
  BY <1>3, <1>4

LEMMA ExecutingFills ==
  ASSUME SimTypes, InStep, FillsOK, [Next]_simVars, Fresh', NEW s \in Slots, Executing(s)
  PROVE  FillsOK'
<1>1. PICK order \in Orders :
        LET d == Decision(order) IN
        /\ d \in Decisions /\ d # NoExecution /\ DecidedFor(order, d)
        /\ portfolio' \in [Users -> Portfolios]
        /\ \A v \in Users \ {order.userId} : portfolio'[v] = portfolio[v]
        /\ Moved(portfolio[order.userId], portfolio'[order.userId], order, d)
        /\ filled' = IF Fills(d) THEN filled \cup {s} ELSE filled
        /\ \/ /\ at[s] = "sent" /\ at' = [at EXCEPT ![s] = "executed"]
              /\ order = held[s].order
              /\ execution' = [execution EXCEPT ![s] = d]
           \/ Note("late", TRUE)
        /\ UNCHANGED <<service, held, row, beside>>
  BY ExecutingIs
<1> DEFINE d == Decision(order)  u == order.userId
<1>2. /\ at[s] = "sent" /\ at' = [at EXCEPT ![s] = "executed"]
      /\ order = held[s].order
      /\ execution' = [execution EXCEPT ![s] = d]
  BY <1>1 DEF Note, Fresh
<1>3. d \in Decisions /\ d # NoExecution /\ DecidedFor(order, d)
  BY <1>1
<1>4. order.type = "MARKET" => (Fills(d) <=> Covers(portfolio[u], order))
  BY DecisionIs DEF SimTypes, WorldOK
<1>5. /\ Moved(portfolio[u], portfolio'[u], order, d)
      /\ filled' = IF Fills(d) THEN filled \cup {s} ELSE filled
  BY <1>1
<1> HIDE DEF d
<1>6. /\ held' = held /\ row' = row /\ beside' = beside /\ ledger' = ledger
      /\ InFlight' = InFlight /\ s \in InFlight
      /\ at'[s] = "executed" /\ execution'[s] = d /\ UserOf(s) = u /\ u \in Users
      /\ row[s] = NoRow
      /\ \A t \in Slots \ {s} : at'[t] = at[t] /\ execution'[t] = execution[t]
  BY <1>1, <1>2 DEF service, SimTypes, CallsTyped, CallOK, InFlight, UserOf, Orders
<1>7. Overlapping'
  BY <1>6 DEF FillsOK, Overlapping
<1>8. \A v : Owed(v)' = Owed(v)
  BY <1>6 DEF Owed, UserOf
<1>9. s \in Owed(u) /\ held[s] \in Reservations /\ Holds(held[s])
  BY <1>6, FlightIs DEF InStep, Timely, Owed, SimTypes, CallOK
<1>10. ASSUME NEW v \in Users \ {u} PROVE FundsKept(v)
  <2>1. \A t \in Owed(v) : at'[t] = at[t] /\ held'[t] = held[t]
    BY <1>6, <1>10, OwedIs DEF Owed
  <2> QED
    BY <1>1, <1>8, <1>10, <2>1, FundsSame
<1>11. ASSUME Fills(d) => held[s].expectation = "FILLED" PROVE FundsKept(u)
  <2>1. /\ CashMove(order, d) + held[s].heldCash >= 0
        /\ \A k \in Instruments : SharesMove(order, d, k) + HeldFor(held[s], k) >= 0
    BY <1>2, <1>3, <1>9, <1>11, FillTakesWhatIsHeld
  <2>2. /\ held[s].heldCash \in Int /\ CashMove(order, d) \in Int
        /\ \A k \in Instruments : HeldFor(held[s], k) \in Int /\ SharesMove(order, d, k) \in Int
    BY <1>3, <1>9, MovesAreInts DEF Reservations, HeldFor
  <2>3. CashAwaited(s) = held[s].heldCash
        /\ \A k \in Instruments : SharesAwaited(s, k) = HeldFor(held[s], k)
    BY <1>2, <1>9 DEF CashAwaited, SharesAwaited, SharesHeld, HeldFor, Awaiting, Holds
  <2>4. /\ portfolio[u] \in Portfolios /\ portfolio'[u] \in Portfolios
        /\ portfolio[u].cash \in Int /\ \A k \in Instruments : portfolio[u].shares[k] \in Int
    BY <1>1, <1>6 DEF SimTypes, WorldOK, Portfolios
  <2>5. /\ portfolio'[u].cash = portfolio[u].cash + CashMove(order, d)
        /\ \A k \in Instruments :
             portfolio'[u].shares[k] = portfolio[u].shares[k] + SharesMove(order, d, k)
    BY <1>5 DEF Moved
  <2>6. portfolio'[u].cash >= portfolio[u].cash - CashAwaited(s)
    BY <2>1, <2>2, <2>3, <2>4, <2>5
  <2>7. ASSUME NEW k \in Instruments
        PROVE  portfolio'[u].shares[k] >= portfolio[u].shares[k] - SharesAwaited(s, k)
    <3>1. /\ SharesMove(order, d, k) + HeldFor(held[s], k) >= 0
          /\ HeldFor(held[s], k) \in Int /\ SharesMove(order, d, k) \in Int
          /\ SharesAwaited(s, k) = HeldFor(held[s], k) /\ portfolio[u].shares[k] \in Int
          /\ portfolio'[u].shares[k] = portfolio[u].shares[k] + SharesMove(order, d, k)
      BY <2>1, <2>2, <2>3, <2>4, <2>5
    <3> QED
      BY <3>1
  <2>8. /\ \A t \in Owed(u) : held'[t] = held[t]
        /\ \A t \in Owed(u) \ {s} : at'[t] = at[t]
        /\ Owed(u)' = Owed(u)
    BY <1>6, <1>8, OwedIs
  <2> QED
    BY <1>6, <1>9, <2>4, <2>6, <2>7, <2>8, FundsSpent
<1>12. ASSUME NEW t \in Slots \ {s} PROVE FillOK(t)'
  <2>1. ASSUME at[t] = "sent", ~ Spoilt(t)' PROVE FundsKept(UserOf(t))
    <3>1. t \in InFlight /\ t \in InFlight' /\ UserOf(t) \in Users
      BY <1>6, <2>1, FlightIs DEF InFlight
    <3>2. CASE UserOf(t) # u
      <4>1. ASSUME NEW v, v = UserOf(t) PROVE FundsKept(v)
        BY <1>10, <3>1, <3>2, <4>1
      <4> QED
        BY <4>1
    <3>3. CASE UserOf(t) = u
      <4>1. ASSUME Fills(d), held[s].expectation # "FILLED" PROVE FALSE
        <5>1. /\ s \in filled' /\ Overlapping' /\ t \in InFlight' /\ s \in InFlight' /\ t # s
              /\ UserOf(t)' = UserOf(s)' /\ held'[s].expectation # "FILLED"
          BY <1>5, <1>6, <1>7, <3>1, <3>3, <4>1 DEF UserOf
        <5>2. Spoilt(t)'
          BY <5>1 DEF Overlapping, Spoilt, OwnerOf, ExpectationOf
        <5> QED
          BY <2>1, <5>2
      <4>2. ASSUME NEW v, v = UserOf(t) PROVE FundsKept(v)
        BY <1>11, <3>3, <4>1, <4>2
      <4> QED
        BY <4>2
    <3> QED
      BY <3>2, <3>3
  <2> QED
    BY <1>6, <2>1, SameFill DEF FillsOK
<1>13. FillOK(s)'
  <2>1. FillOK(s)
    BY DEF FillsOK
  <2>2. ASSUME held[s].expectation = "FILLED", ~ Spoilt(s) PROVE Fills(d)
    <3>1. Funded(s)
      BY <1>2, <2>1, <2>2 DEF FillOK, Awaiting
    <3>2. /\ order.type = "MARKET"
          /\ held[s].heldCash = IF order.side = "BUY" THEN Cost(order) ELSE 0
          /\ held[s].heldShares = IF order.side = "SELL" THEN order.size ELSE 0
      BY <1>2, <1>9, <2>2 DEF Holds
    <3>3. /\ order.instrumentId \in Instruments /\ Cost(order) \in Int /\ order.size \in Int
          /\ order.side \in {"BUY", "SELL"}
          /\ portfolio[u].cash \in Int /\ portfolio[u].shares[order.instrumentId] \in Int
      <4>1. order.instrumentId \in Instruments /\ Cost(order) \in Int /\ order.size \in Int
        BY CostIs
      <4>2. portfolio[u] \in Portfolios /\ order.side \in {"BUY", "SELL"}
        BY <1>6 DEF SimTypes, WorldOK, Orders, SIDES
      <4> QED
        BY <4>1, <4>2 DEF Portfolios
    <3> DEFINE S == Owed(u)
    <3>4. IsFiniteSet(S) /\ s \in S
      BY <1>9, OwedIs
    <3>5. /\ [t \in S |-> CashAwaited(t)] \in [S -> Int]
          /\ [t \in S |-> SharesAwaited(t, order.instrumentId)] \in [S -> Int]
          /\ \A t \in S : CashAwaited(t) >= 0 /\ SharesAwaited(t, order.instrumentId) >= 0
      BY <3>3, AwaitedIs
    <3>6. Awaiting(s)
      BY <1>2, <2>2 DEF Awaiting
    <3> HIDE DEF S
    <3>7. CASE order.side = "BUY"
      <4> DEFINE f == [t \in S |-> CashAwaited(t)]
      <4>1. f \in [S -> Int] /\ f[s] = Cost(order) /\ \A t \in S : f[t] >= 0
        BY <1>2, <3>2, <3>4, <3>5, <3>6, <3>7 DEF CashAwaited
      <4>2. portfolio[u].cash >= SumFunction(f)
        BY <1>2, <1>6, <3>1, <3>7 DEF Funded, CashIsThere, S
      <4> HIDE DEF f
      <4>3. SumFunction(f) >= f[s] /\ SumFunction(f) \in Int
        BY <3>4, <4>1, AwaitedAtLeast, SumIsInt
      <4>4. portfolio[u].cash >= Cost(order)
        BY <3>3, <4>1, <4>2, <4>3
      <4> QED
        BY <1>4, <3>2, <3>7, <4>4 DEF Covers
    <3>8. CASE order.side = "SELL"
      <4> DEFINE f == [t \in S |-> SharesAwaited(t, order.instrumentId)]
      <4>1. f \in [S -> Int] /\ f[s] = order.size /\ \A t \in S : f[t] >= 0
        BY <1>2, <3>2, <3>4, <3>5, <3>6, <3>8 DEF SharesAwaited, SharesHeld
      <4>2. portfolio[u].shares[order.instrumentId] >= SumFunction(f)
        BY <1>2, <1>6, <3>1, <3>8 DEF Funded, SharesAreThere, S
      <4> HIDE DEF f
      <4>3. SumFunction(f) >= f[s] /\ SumFunction(f) \in Int
        BY <3>4, <4>1, AwaitedAtLeast, SumIsInt
      <4>4. portfolio[u].shares[order.instrumentId] >= order.size
        BY <3>3, <4>1, <4>2, <4>3
      <4> QED
        BY <1>4, <3>2, <3>8, <4>4 DEF Covers
    <3> QED
      BY <3>3, <3>7, <3>8
  <2>3. Spoilt(s) => Spoilt(s)'
    BY <1>2, SpoiltStays
  <2>4. /\ held'[s].expectation = "FILLED" => Fills(execution'[s]) \/ Spoilt(s)'
        /\ Fills(execution'[s]) => s \in filled'
    <3>1. execution'[s] = d /\ held'[s] = held[s]
      BY <1>6
    <3>2. /\ held[s].expectation = "FILLED" => Fills(d) \/ Spoilt(s)'
          /\ Fills(d) => s \in filled'
      BY <1>5, <2>2, <2>3
    <3> QED
      BY <3>1, <3>2
  <2> QED
    BY <1>6, <2>4 DEF FillOK, Awaiting, NoRow
<1> QED
  BY <1>7, <1>12, <1>13 DEF FillsOK

LEMMA NextFills ==
  /\ SimTypes /\ Balance /\ (Fresh => InStep) /\ (Fresh => FillsOK) /\ [Next]_simVars
  => (Fresh => FillsOK)'
<1> SUFFICES ASSUME SimTypes, Balance, Fresh => InStep, Fresh => FillsOK, [Next]_simVars, Fresh'
             PROVE  FillsOK'
  OBVIOUS
<1>1. InStep /\ FillsOK
  BY MishapsStay DEF Fresh
<1>2. ASSUME UNCHANGED <<calls, portfolio, filled, beside>>, ledger'.generation = ledger.generation
      PROVE  FillsOK'
  <2>1. /\ InFlight' = InFlight /\ Overlapping'
        /\ at' = at /\ held' = held /\ execution' = execution /\ row' = row
    BY <1>1, <1>2 DEF calls, InFlight, FillsOK, Overlapping
  <2>2. \A u : Owed(u)' = Owed(u)
    BY <1>2, <2>1 DEF Owed, UserOf
  <2>3. ASSUME NEW u PROVE FundsKept(u)
    BY <1>2, <2>1, <2>2, FundsSame
  <2>4. ASSUME NEW t \in Slots PROVE FillOK(t)'
    BY <1>1, <2>1, <2>3, SameFill DEF FillsOK
  <2> QED
    BY <2>1, <2>4 DEF FillsOK
<1>3. CASE Seeding
  <2>1. PICK roster \in Rosters : seedUsers(roster)
    BY <1>3 DEF Seeding
  <2>2. Note("reset", InFlight # {}) /\ UNCHANGED <<calls, portfolio, filled, beside>>
    BY <2>1, SeedingIs
  <2>3. /\ InFlight = {} /\ InFlight' = InFlight
        /\ at' = at /\ held' = held /\ execution' = execution /\ row' = row
    BY <2>2 DEF Note, Fresh, calls, InFlight
  <2>4. ASSUME NEW t \in Slots PROVE FillOK(t)'
    <3>1. at[t] # "sent"
      BY <2>3 DEF InFlight
    <3> QED
      BY <1>1, <2>3, <3>1, SameFill DEF FillsOK
  <2> QED
    BY <2>3, <2>4 DEF FillsOK, Overlapping
<1>4. CASE Reading
  BY <1>2, <1>4, ReadingIs DEF history
<1>5. CASE UNCHANGED simVars
  BY <1>2, <1>5 DEF simVars, service, history
<1> QED
  BY <1>1, <1>3, <1>4, <1>5, NextIs, PlacingFills, ExecutingFills, ShedFills, ReturningFills

LEMMA InitFills == Init => FillsOK
BY DEF Init, FillsOK, FillOK, Overlapping, InFlight, Awaiting, Fills, NoRow

LEMMA FillsSuffice == (Fresh => FillsOK) => OnlyUnforeseenFillsSpoil
BY DEF Fresh, FillsOK, FillOK, Spoilt, OnlyUnforeseenFillsSpoil

-----------------------------------------------------------------------------
(***************************************************************************)
(* What a simulation goes through, and the service with it.                *)
(***************************************************************************)
SimInv ==
  /\ SimTypes /\ Balance
  /\ Fresh => InStep /\ FillsOK
  /\ Calm => RefusalsOK

LEMMA InitSimInv == Init => SimInv
BY InitTypes, InitBalances, InitInStep, InitFills, InitRefuses DEF SimInv

LEMMA NextSimInv == SimInv /\ [Next]_simVars => SimInv'
<1> SUFFICES ASSUME SimInv, [Next]_simVars PROVE SimInv'
  OBVIOUS
<1>1. SimTypes /\ Balance /\ (Fresh => InStep) /\ (Fresh => FillsOK) /\ (Calm => RefusalsOK)
  BY DEF SimInv
<1>2. SimTypes' /\ Balance'
  BY <1>1, NextKeepsTypes, NextBalances
<1>3. (Fresh => InStep)' /\ (Fresh => FillsOK)' /\ (Calm => RefusalsOK)'
  BY <1>1, NextInStep, NextFills, NextRefuses
<1> QED
  BY <1>2, <1>3 DEF SimInv

LEMMA SimInvHolds == Spec \/ DriftSpec => []SimInv
<1>1. SimInv /\ [Next]_vars => SimInv'
  BY NextSimInv, StepsOfDrift
<1>2. SimInv /\ [DriftNext]_allVars => SimInv'
  BY NextSimInv, StepsOfDrift
<1>3. DriftInit => Init
  BY DEF DriftInit
<1> QED
  BY <1>1, <1>2, <1>3, InitSimInv, PTL DEF Spec, DriftSpec

(* What a user's shadow holds aside is what its unsettled orders reserved  *)
(* of it: place() counts an order in once, and what settles or loses it    *)
(* counts it out once, unless the shadow is another by then.               *)
THEOREM TheBooksBalance == Spec \/ DriftSpec => []BooksBalance
<1>1. SimInv => BooksBalance
  BY TypesSuffice DEF SimInv, Balance, Balanced, BooksBalance
<1> QED
  BY <1>1, SimInvHolds, PTL

(* A user that is trusted, with nothing in flight, owns in the shadow what *)
(* it owns at the API, whatever was lost, shed or overtaken: only an order *)
(* that is sent while a portfolio is read, a reset under way, or a commit  *)
(* after the call was given up can make the shadow wrong.                  *)
THEOREM TheShadowIsRight == Spec \/ DriftSpec => []ShadowIsRight
<1>1. SimInv => ShadowIsRight
  BY InStepSuffices DEF SimInv, ShadowIsRight, Fresh
<1> QED
  BY <1>1, SimInvHolds, PTL

(* Without mishaps, what place() expects to be refused is refused.         *)
THEOREM RefusalsAreCertain == Spec \/ DriftSpec => []RefusalsHold
<1>1. SimInv => RefusalsHold
  BY RefusalsSuffice DEF SimInv
<1> QED
  BY <1>1, SimInvHolds, PTL

(* What place() expects to fill fills, unless the user had an order beside *)
(* it that filled and for which the shadow had held nothing aside.         *)
THEOREM FillsAreForeseen == Spec \/ DriftSpec => []OnlyUnforeseenFillsSpoil
<1>1. SimInv => OnlyUnforeseenFillsSpoil
  BY FillsSuffice DEF SimInv
<1> QED
  BY <1>1, SimInvHolds, PTL

-----------------------------------------------------------------------------
(***************************************************************************)
(* Drift is evidence.  As long as nothing filled since a check began, all  *)
(* it read is what it remembers; with one fill since, who has the cash it  *)
(* remembers was not the one that moved.                                   *)
(***************************************************************************)
DriftTyped ==
  \E users \in SUBSET Users : \E answered \in SUBSET users :
    drift \in [ before : [users -> Int], left : SUBSET users, apiCash : [answered -> Int],
                fills : Nat ]

StillTrue ==
  LET reads_ == DOMAIN drift.apiCash IN
  /\ Cardinality(filled) >= drift.fills
  /\ Cardinality(filled) = drift.fills =>
       /\ \A u \in DOMAIN drift.before : portfolio[u].cash = drift.before[u]
       /\ \A u \in reads_ : drift.apiCash[u] = drift.before[u]
  /\ Cardinality(filled) = drift.fills + 1 =>
       \A u \in reads_ :
         portfolio[u].cash = drift.before[u] => drift.apiCash[u] = drift.before[u]

DriftInv ==
  /\ IsFiniteSet(filled)
  /\ drift # NoCheck => DriftTyped
  /\ drift # NoCheck /\ Fresh => StillTrue
  /\ DriftIsEvidence

LEMMA FreshIs == SimTypes => (Fresh <=> mishaps \cap {"late", "reset", "overlap"} = {})
BY DEF SimTypes, WorldOK, Fresh

(* A step adds a fill at most, which moves the cash of one user.           *)
LEMMA FillsMoveCash ==
  ASSUME SimTypes, [Next]_simVars, IsFiniteSet(filled)
  PROVE  /\ IsFiniteSet(filled')
         /\ \/ filled' = filled /\ \A u \in Users : portfolio'[u].cash = portfolio[u].cash
            \/ /\ Cardinality(filled') = Cardinality(filled) + 1
               /\ \E moved \in Users :
                    /\ portfolio'[moved].cash # portfolio[moved].cash
                    /\ \A u \in Users \ {moved} : portfolio'[u].cash = portfolio[u].cash
            \/ ~ Fresh'
<1>1. CASE UNCHANGED <<portfolio, filled>>
  BY <1>1
<1>2. Seeding \/ Reading \/ UNCHANGED simVars => UNCHANGED <<portfolio, filled>>
  BY SeedingIs, ReadingIs DEF Seeding, simVars, history
<1>3. ASSUME NEW s \in Slots, Placing(s) \/ Shed(s) \/ Returning(s)
      PROVE  UNCHANGED <<portfolio, filled>>
  BY <1>3 DEF Placing, place, Shed, history, Returning, Answer, Lose
<1>4. ASSUME NEW s \in Slots, Executing(s)
      PROVE  /\ IsFiniteSet(filled')
             /\ \/ filled' = filled /\ \A u \in Users : portfolio'[u].cash = portfolio[u].cash
                \/ /\ Cardinality(filled') = Cardinality(filled) + 1
                   /\ \E moved \in Users :
                        /\ portfolio'[moved].cash # portfolio[moved].cash
                        /\ \A u \in Users \ {moved} : portfolio'[u].cash = portfolio[u].cash
                \/ ~ Fresh'
  <2>1. PICK order \in Orders :
          LET d == Decision(order) IN
          /\ d \in Decisions /\ d # NoExecution /\ DecidedFor(order, d)
          /\ \A u \in Users \ {order.userId} : portfolio'[u] = portfolio[u]
          /\ Moved(portfolio[order.userId], portfolio'[order.userId], order, d)
          /\ filled' = IF Fills(d) THEN filled \cup {s} ELSE filled
          /\ at[s] = "sent" \/ Note("late", TRUE)
    BY <1>4, ExecutingIs
  <2> DEFINE d == Decision(order)  u == order.userId
  <2>2. /\ DecidedFor(order, d) /\ \A v \in Users \ {u} : portfolio'[v] = portfolio[v]
        /\ portfolio'[u].cash = portfolio[u].cash + CashMove(order, d)
        /\ filled' = IF Fills(d) THEN filled \cup {s} ELSE filled
    BY <2>1 DEF Moved
  <2> HIDE DEF d
  <2>3. /\ u \in Users /\ portfolio[u].cash \in Int /\ order.side \in {"BUY", "SELL"}
    BY DEF Orders, SIDES, SimTypes, WorldOK, Portfolios
  <2>4. IsFiniteSet(filled')
    BY <2>2, FS_AddElement
  <2>5. CASE ~ Fills(d)
    BY <2>2, <2>3, <2>4, <2>5 DEF CashMove
  <2>6. CASE Fills(d)
    <3>1. CASE at[s] = "sent"
      <4>1. s \notin filled
        BY <3>1 DEF SimTypes, CallOK
      <4>2. Cardinality(filled') = Cardinality(filled) + 1
        BY <2>2, <2>6, <4>1, FS_AddElement
      <4>3. CashMove(order, d) \in Int /\ CashMove(order, d) # 0
        <5>1. CashMove(order, d) = - (Close[order.instrumentId] * Bought(order))
          BY <2>2, <2>6 DEF CashMove, DecidedFor
        <5>2. /\ Close[order.instrumentId] \in Nat \ {0} /\ order.size \in Nat \ {0}
          BY CostIs, SimulationAssumption
        <5>3. \A a, b \in Nat \ {0} : /\ a * b \in Int /\ a * b # 0
                                      /\ a * (- b) \in Int /\ a * (- b) # 0
          OBVIOUS
        <5> DEFINE spent == Close[order.instrumentId] * Bought(order)
        <5>4. spent \in Int /\ spent # 0
          BY <5>2, <5>3 DEF Bought
        <5> HIDE DEF spent
        <5>5. CashMove(order, d) = - spent
          BY <5>1 DEF spent
        <5> QED
          BY <5>4, <5>5
      <4>4. portfolio'[u].cash # portfolio[u].cash
        BY <2>2, <2>3, <4>3
      <4> QED
        BY <2>2, <2>3, <2>4, <4>2, <4>4
    <3>2. CASE Note("late", TRUE)
      BY <2>4, <3>2 DEF Note, Fresh
    <3> QED
      BY <2>1, <3>1, <3>2
  <2> QED
    BY <2>5, <2>6
<1> QED
  BY <1>1, <1>2, <1>3, <1>4, NextIs

LEMMA StillTrueStays ==
  ASSUME SimInv, DriftInv, [Next]_simVars, drift # NoCheck, drift' = drift, Fresh'
  PROVE  StillTrue'
<1>1. SimTypes /\ IsFiniteSet(filled) /\ DriftTyped
  BY DEF SimInv, DriftInv
<1>2. Fresh /\ StillTrue
  BY <1>1, MishapsStay DEF Fresh, DriftInv
<1>3. /\ drift.fills \in Nat /\ DOMAIN drift.before \subseteq Users
      /\ DOMAIN drift.apiCash \subseteq DOMAIN drift.before
  BY <1>1 DEF DriftTyped
<1>4. Cardinality(filled) \in Nat
  BY <1>1, FS_CardinalityType
<1>5. CASE filled' = filled /\ \A u \in Users : portfolio'[u].cash = portfolio[u].cash
  BY <1>2, <1>3, <1>5 DEF StillTrue
<1>6. CASE /\ Cardinality(filled') = Cardinality(filled) + 1
           /\ \E moved \in Users :
                /\ portfolio'[moved].cash # portfolio[moved].cash
                /\ \A u \in Users \ {moved} : portfolio'[u].cash = portfolio[u].cash
  <2>1. PICK moved \in Users :
          /\ portfolio'[moved].cash # portfolio[moved].cash
          /\ \A u \in Users \ {moved} : portfolio'[u].cash = portfolio[u].cash
    BY <1>6
  <2>2. Cardinality(filled') >= drift.fills + 1
    BY <1>2, <1>3, <1>4, <1>6 DEF StillTrue
  <2>3. ASSUME Cardinality(filled') = drift.fills + 1, NEW u \in DOMAIN drift.apiCash,
               portfolio'[u].cash = drift.before[u]
        PROVE  drift.apiCash[u] = drift.before[u]
    <3>1. Cardinality(filled) = drift.fills
      BY <1>3, <1>4, <1>6, <2>3
    <3> QED
      BY <1>2, <2>3, <3>1 DEF StillTrue
  <2>4. /\ Cardinality(filled') >= drift.fills /\ Cardinality(filled') # drift.fills
    BY <1>3, <1>4, <1>6, <2>2
  <2> QED
    BY <2>3, <2>4 DEF StillTrue
<1> QED
  BY <1>1, <1>5, <1>6, FillsMoveCash

(* What a check remembers of a user is what the user owns.                 *)
LEMMA ReadableMatch ==
  ASSUME SimInv, Fresh
  PROVE  \A u \in Readable : ledger.users[u].cash = portfolio[u].cash
<1>1. ShadowMatches
  BY InStepSuffices DEF SimInv
<1> QED
  BY <1>1 DEF ShadowMatches, Readable, Still, Trusted, Shadowed

LEMMA ReadableTyped ==
  ASSUME SimTypes
  PROVE  /\ Readable \subseteq Users
         /\ \A u \in Readable : ledger.users[u].cash \in Int
<1>1. DOMAIN ledger.users \subseteq Users
  BY SimulationAssumption DEF SimTypes, ServiceOK
<1>2. \A u \in DOMAIN ledger.users : ledger.users[u] \in Shadows
  BY DEF SimTypes, ServiceOK, IsLedger
<1> QED
  BY <1>1, <1>2 DEF Readable, Shadows

LEMMA CheckKeepsDriftInv == SimInv /\ DriftInv /\ checkDrift => DriftInv'
<1> SUFFICES ASSUME SimInv, DriftInv, checkDrift PROVE DriftInv'
  OBVIOUS
<1> DEFINE noted == [u \in Readable |-> ledger.users[u].cash]
           answers == [u \in {} |-> 0]
<1>1. /\ drift' = [before |-> noted, left |-> Readable, apiCash |-> answers,
                   fills |-> Cardinality(filled)]
      /\ portfolio' = portfolio /\ filled' = filled /\ mishaps' = mishaps
      /\ drifted' = drifted
  BY DEF checkDrift, vars, history
<1>2. SimTypes /\ IsFiniteSet(filled) /\ DriftIsEvidence
  BY DEF SimInv, DriftInv
<1>3. Cardinality(filled) \in Nat
  BY <1>2, FS_CardinalityType
<1>4. noted \in [Readable -> Int] /\ answers \in [{} -> Int]
  BY <1>2, ReadableTyped
<1>5. \A u \in Readable : noted[u] = ledger.users[u].cash
  OBVIOUS
<1>6. DOMAIN noted = Readable /\ DOMAIN answers = {}
  OBVIOUS
<1> HIDE DEF noted, answers
<1>7. DriftTyped'
  <2>1. Readable \in SUBSET Users /\ {} \in SUBSET Readable
    BY <1>2, ReadableTyped
  <2>2. drift' \in [ before : [Readable -> Int], left : SUBSET Readable,
                     apiCash : [{} -> Int], fills : Nat ]
    BY <1>1, <1>3, <1>4
  <2> QED
    BY <2>1, <2>2 DEF DriftTyped
<1>8. Fresh' => StillTrue'
  <2> SUFFICES ASSUME Fresh' PROVE StillTrue'
    OBVIOUS
  <2>1. Fresh
    BY <1>1 DEF Fresh
  <2>2. \A u \in Readable : portfolio[u].cash = noted[u]
    BY <1>5, <2>1, ReadableMatch
  <2> QED
    BY <1>1, <1>3, <1>6, <2>2 DEF StillTrue
<1> QED
  BY <1>1, <1>2, <1>7, <1>8 DEF DriftInv, DriftIsEvidence

LEMMA ReadKeepsDriftInv ==
  ASSUME SimInv, DriftInv, NEW u \in Users, readBalance(u)
  PROVE  DriftInv'
<1>1. SimTypes /\ IsFiniteSet(filled) /\ DriftIsEvidence /\ DriftTyped
  BY DEF SimInv, DriftInv, readBalance
<1>2. /\ portfolio' = portfolio /\ filled' = filled /\ mishaps' = mishaps
      /\ drifted' = drifted /\ u \in drift.left /\ drift # NoCheck
  BY DEF readBalance, history
<1>0. PICK users \in SUBSET Users : \E answered \in SUBSET users :
        drift \in [ before : [users -> Int], left : SUBSET users, apiCash : [answered -> Int],
                    fills : Nat ]
  BY <1>1 DEF DriftTyped
<1>3. PICK answered \in SUBSET users :
        drift \in [ before : [users -> Int], left : SUBSET users, apiCash : [answered -> Int],
                    fills : Nat ]
  BY <1>0
<1>4. CASE drift' = [drift EXCEPT !.left = @ \ {u}]
  <2>1. /\ drift'.before = drift.before /\ drift'.apiCash = drift.apiCash
        /\ drift'.fills = drift.fills
    BY <1>3, <1>4
  <2>2. drift' \in [ before : [users -> Int], left : SUBSET users, apiCash : [answered -> Int],
                     fills : Nat ]
    BY <1>3, <1>4
  <2>3. DriftTyped'
    BY <2>2 DEF DriftTyped
  <2>4. Fresh' => StillTrue'
    BY <1>2, <2>1 DEF DriftInv, StillTrue, Fresh
  <2> QED
    BY <1>1, <1>2, <2>3, <2>4 DEF DriftInv, DriftIsEvidence
<1>5. CASE drift' = [drift EXCEPT
                       !.left = @ \ {u},
                       !.apiCash = [v \in DOMAIN @ \cup {u} |->
                                      IF v = u THEN portfolio[u].cash ELSE @[v]]]
  <2> DEFINE answers == [v \in answered \cup {u} |->
                           IF v = u THEN portfolio[u].cash ELSE drift.apiCash[v]]
  <2>1. /\ drift'.before = drift.before /\ drift'.apiCash = answers
        /\ drift'.fills = drift.fills /\ drift'.left = drift.left \ {u}
        /\ DOMAIN drift.apiCash = answered
    BY <1>3, <1>5
  <2>2. portfolio[u].cash \in Int
    BY <1>1 DEF SimTypes, WorldOK, Portfolios
  <2>3. answers \in [answered \cup {u} -> Int] /\ u \in users
    BY <1>2, <1>3, <2>2
  <2>4. drift' \in [ before : [users -> Int], left : SUBSET users,
                     apiCash : [answered \cup {u} -> Int], fills : Nat ]
    <3> HIDE DEF answers
    <3>1. drift' = [drift EXCEPT !.left = @ \ {u}, !.apiCash = answers]
      BY <1>3, <1>5 DEF answers
    <3> QED
      BY <1>3, <2>3, <3>1
  <2>5. DriftTyped'
    BY <2>3, <2>4 DEF DriftTyped
  <2>6. Fresh' => StillTrue'
    <3> SUFFICES ASSUME Fresh' PROVE StillTrue'
      OBVIOUS
    <3>1. StillTrue
      BY <1>2 DEF DriftInv, Fresh
    <3>2. /\ DOMAIN answers = answered \cup {u}
          /\ answers[u] = portfolio[u].cash
          /\ \A v \in answered \ {u} : answers[v] = drift.apiCash[v]
      OBVIOUS
    <3>3. DOMAIN drift.before = users
      BY <1>3
    <3> HIDE DEF answers
    <3>4. Cardinality(filled) = drift.fills =>
            \A v \in answered \cup {u} : answers[v] = drift.before[v]
      BY <2>1, <2>3, <3>1, <3>2, <3>3 DEF StillTrue
    <3>5. Cardinality(filled) = drift.fills + 1 =>
            \A v \in answered \cup {u} :
              portfolio[v].cash = drift.before[v] => answers[v] = drift.before[v]
      BY <2>1, <3>1, <3>2 DEF StillTrue
    <3> QED
      BY <1>2, <2>1, <3>1, <3>2, <3>4, <3>5 DEF StillTrue
  <2> QED
    BY <1>1, <1>2, <2>5, <2>6 DEF DriftInv, DriftIsEvidence
<1> QED
  BY <1>4, <1>5 DEF readBalance

LEMMA CompareKeepsDriftInv == SimInv /\ DriftInv /\ compare => DriftInv'
<1> SUFFICES ASSUME SimInv, DriftInv, compare PROVE DriftInv'
  OBVIOUS
<1> DEFINE users == compared(drift.before, ledger.users, drift.apiCash)
           crossed == Cardinality(filled) >= drift.fills + 2
           wrong == {v \in users : drift.before[v] # drift.apiCash[v]}
<1>1. /\ drifted' = drifted \cup {[crossed |-> crossed] : u \in wrong}
      /\ drift' = NoCheck /\ filled' = filled /\ mishaps' = mishaps /\ drift # NoCheck
  BY DEF compare, vars, history
<1>2. SimTypes /\ IsFiniteSet(filled) /\ DriftIsEvidence /\ DriftTyped
  BY <1>1 DEF SimInv, DriftInv
<1>3. drift.fills \in Nat /\ Cardinality(filled) \in Nat
  BY <1>2, FS_CardinalityType DEF DriftTyped
<1>4. ASSUME Fresh, ~ crossed, NEW v \in wrong
      PROVE  FALSE
  <2>1. StillTrue
    BY <1>1, <1>4 DEF DriftInv
  <2>2. /\ v \in DOMAIN drift.apiCash /\ v \in Readable
        /\ drift.before[v] = ledger.users[v].cash
        /\ drift.before[v] # drift.apiCash[v]
    BY DEF compared, Readable
  <2>3. portfolio[v].cash = drift.before[v]
    BY <1>4, <2>2, ReadableMatch
  <2>4. Cardinality(filled) = drift.fills \/ Cardinality(filled) = drift.fills + 1
    BY <1>3, <1>4, <2>1 DEF StillTrue
  <2> QED
    BY <2>1, <2>2, <2>3, <2>4 DEF StillTrue
<1> HIDE DEF wrong, crossed
<1>5. Fresh /\ ~ crossed => wrong = {}
  BY <1>4
<1>6. Fresh <=> mishaps \cap {"late", "reset", "overlap"} = {}
  BY <1>2, FreshIs
<1>7. ASSUME NEW finding \in drifted'
      PROVE  mishaps' \cap {"late", "reset", "overlap"} # {} \/ finding.crossed
  <2>1. CASE finding \in drifted
    BY <1>1, <1>2, <2>1 DEF DriftIsEvidence
  <2>2. CASE finding \in {[crossed |-> crossed] : u \in wrong}
    <3>1. finding.crossed = crossed /\ wrong # {}
      BY <2>2
    <3>2. CASE crossed
      BY <3>1, <3>2
    <3>3. CASE ~ crossed
      BY <1>1, <1>5, <1>6, <3>1, <3>3
    <3> QED
      BY <3>2, <3>3
  <2> QED
    BY <1>1, <1>7, <2>1, <2>2
<1> QED
  BY <1>1, <1>2, <1>7 DEF DriftInv, DriftIsEvidence

LEMMA NextKeepsDriftInv == SimInv /\ DriftInv /\ [DriftNext]_allVars => DriftInv'
<1> SUFFICES ASSUME SimInv, DriftInv, [DriftNext]_allVars PROVE DriftInv'
  OBVIOUS
<1>1. ASSUME Next, drifted = {}, UNCHANGED driftVars
      PROVE  DriftInv'
  <2>1. [Next]_simVars /\ SimTypes /\ IsFiniteSet(filled)
    BY <1>1 DEF SimInv, DriftInv
  <2>2. IsFiniteSet(filled')
    BY <1>1, <2>1, FillsMoveCash
  <2>3. drift' = drift /\ drifted' = {}
    BY <1>1 DEF driftVars
  <2>4. drift' # NoCheck => DriftTyped'
    BY <2>3 DEF DriftInv, DriftTyped
  <2>5. drift' # NoCheck /\ Fresh' => StillTrue'
    BY <2>1, <2>3, StillTrueStays
  <2> QED
    BY <2>2, <2>3, <2>4, <2>5 DEF DriftInv, DriftIsEvidence
<1>2. ASSUME UNCHANGED allVars
      PROVE  DriftInv'
  BY <1>2 DEF allVars, vars, history, driftVars, DriftInv, DriftTyped, StillTrue, DriftIsEvidence, Fresh
<1> QED
  BY <1>1, <1>2, CheckKeepsDriftInv, ReadKeepsDriftInv, CompareKeepsDriftInv DEF DriftNext

(* What checkDrift() reports is evidence: of something the service does    *)
(* not count on, or of two fills at least while it was reading.            *)
THEOREM DriftIsReal == DriftSpec => []DriftIsEvidence
<1>1. DriftInit => DriftInv
  BY FS_EmptySet DEF DriftInit, Init, DriftInv, DriftIsEvidence
<1>2. DriftInv => DriftIsEvidence
  BY DEF DriftInv
<1> QED
  BY <1>1, <1>2, SimInvHolds, NextKeepsDriftInv, PTL DEF DriftSpec
=============================================================================
