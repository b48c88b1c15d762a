---------------------------- MODULE OrdersProofs ----------------------------
(***************************************************************************)
(* What the running total of module Ledger computes (it is an integer, and *)
(* one more entry adds that entry), and what a placement and a             *)
(* cancellation do to the table's rows, whoever performs them: facts about *)
(* operators, with no state, that hold for every value of the constants.   *)
(* Induction is over sets of numbers: a set that holds 0 and is closed     *)
(* under successor is Nat, because < is well founded on Nat.               *)
(***************************************************************************)
EXTENDS Orders, WellFoundedInduction, TLAPS

Below == {pair \in Nat \X Nat : pair[1] < pair[2]}

(* The order of the natural numbers has no infinite descent.               *)
LEMMA BelowWellFounded == IsWellFoundedOn(Below, Nat)
  BY NatLessThanWellFounded DEF OpToRel, Below

(* Induction over Nat, for a set instead of a predicate.                   *)
LEMMA SetInduction ==
  ASSUME NEW T \in SUBSET Nat, 0 \in T, \A n \in T : n + 1 \in T
  PROVE  T = Nat
<1>1. SUFFICES ASSUME Nat \ T # {} PROVE FALSE
  OBVIOUS
<1>2. PICK x \in Nat \ T : \A y \in Nat \ T : ~ (<<y, x>> \in Below)
  BY <1>1, BelowWellFounded, WFMin
<1>3. x # 0 /\ x - 1 \in Nat
  BY <1>2
<1>4. x - 1 \in T
  <2>1. SUFFICES ASSUME x - 1 \in Nat \ T PROVE FALSE
    BY <1>3
  <2>2. <<x - 1, x>> \in Below
    BY <1>3 DEF Below
  <2> QED
    BY <1>2, <2>1, <2>2
<1> QED
  BY <1>2, <1>3, <1>4

-----------------------------------------------------------------------------
(***************************************************************************)
(* s is the function that Total(d) defines, as far as its first n entries. *)
(***************************************************************************)
Totals(s, d, n) ==
  s = [i \in 0..n |-> IF i = 0 THEN 0 ELSE s[i - 1] + d[i]]

(* There is such a function, into the integers, for integer entries.       *)
LEMMA TotalsExist ==
  ASSUME NEW d, NEW N \in Nat, \A i \in 1..N : d[i] \in Int
  PROVE  \E s \in [0..N -> Int] : Totals(s, d, N)
<1> DEFINE T == {n \in Nat : n <= N => \E s \in [0..n -> Int] : Totals(s, d, n)}
<1>1. 0 \in T
  <2>1. [i \in 0..0 |-> 0] \in [0..0 -> Int] /\ Totals([i \in 0..0 |-> 0], d, 0)
    BY DEF Totals
  <2> QED
    BY <2>1
<1>2. ASSUME NEW n \in T PROVE n + 1 \in T
  <2>1. SUFFICES ASSUME n + 1 <= N
                 PROVE  \E s \in [0..(n + 1) -> Int] : Totals(s, d, n + 1)
    OBVIOUS
  <2>2. PICK s \in [0..n -> Int] : Totals(s, d, n)
    BY <2>1
  <2> DEFINE t == [i \in 0..(n + 1) |-> IF i = n + 1 THEN s[n] + d[n + 1] ELSE s[i]]
  <2>3. t \in [0..(n + 1) -> Int]
    BY <2>1
  <2>4. \A i \in 0..(n + 1) : t[i] = IF i = 0 THEN 0 ELSE t[i - 1] + d[i]
    <3>1. \A i \in 0..n : s[i] = IF i = 0 THEN 0 ELSE s[i - 1] + d[i]
      BY <2>2 DEF Totals
    <3> QED
      BY <3>1
  <2>5. Totals(t, d, n + 1)
    BY <2>3, <2>4 DEF Totals
  <2> QED
    BY <2>3, <2>5
<1>3. N \in T
  <2> HIDE DEF T
  <2>1. T \in SUBSET Nat
    BY DEF T
  <2> QED
    BY <1>1, <1>2, <2>1, SetInduction
<1> QED
  BY <1>3

(* Two of them agree as far as their entries agree.                        *)
LEMMA TotalsAgree ==
  ASSUME NEW d, NEW e, NEW m \in Nat, NEW n \in Nat, m <= n,
         NEW s, Totals(s, d, m), NEW t, Totals(t, e, n),
         \A i \in 1..m : d[i] = e[i]
  PROVE  s[m] = t[m]
<1> DEFINE T == {k \in Nat : k <= m => s[k] = t[k]}
<1>1. \A i \in 0..m : s[i] = IF i = 0 THEN 0 ELSE s[i - 1] + d[i]
  BY DEF Totals
<1>2. \A i \in 0..n : t[i] = IF i = 0 THEN 0 ELSE t[i - 1] + e[i]
  BY DEF Totals
<1>3. 0 \in T
  BY <1>1, <1>2
<1>4. ASSUME NEW k \in T PROVE k + 1 \in T
  <2>1. SUFFICES ASSUME k + 1 <= m PROVE s[k + 1] = t[k + 1]
    OBVIOUS
  <2>2. k + 1 \in 0..m /\ k + 1 \in 0..n /\ k + 1 \in 1..m /\ k + 1 # 0
    BY <2>1
  <2>3. s[k + 1] = s[k] + d[k + 1] /\ t[k + 1] = t[k] + e[k + 1]
    BY <1>1, <1>2, <2>2
  <2>4. s[k] = t[k] /\ d[k + 1] = e[k + 1]
    BY <2>1, <2>2
  <2> QED
    BY <2>3, <2>4
<1>5. m \in T
  <2> HIDE DEF T
  <2>1. T \in SUBSET Nat
    BY DEF T
  <2> QED
    BY <1>3, <1>4, <2>1, SetInduction
<1> QED
  BY <1>5

(* Total(d) is the last value of the function that defines it.             *)
LEMMA TotalIsLast ==
  ASSUME NEW d \in Seq(Int), NEW s \in [0..Len(d) -> Int], Totals(s, d, Len(d))
  PROVE  Total(d) = s[Len(d)]
<1> DEFINE t == CHOOSE t : Totals(t, d, Len(d))
<1>1. Totals(t, d, Len(d))
  OBVIOUS
<1>2. Total(d) = t[Len(d)]
  BY DEF Total, Totals
<1> HIDE DEF t
<1>3. Len(d) \in Nat
  OBVIOUS
<1> QED
  BY <1>1, <1>2, <1>3, TotalsAgree

(***************************************************************************)
(* The total of a sequence of integers is an integer.                      *)
(***************************************************************************)
THEOREM TotalIsInt ==
  ASSUME NEW d \in Seq(Int)
  PROVE  Total(d) \in Int
<1>1. \A i \in 1..Len(d) : d[i] \in Int
  OBVIOUS
<1>2. PICK s \in [0..Len(d) -> Int] : Totals(s, d, Len(d))
  BY <1>1, TotalsExist
<1> QED
  BY <1>2, TotalIsLast

(***************************************************************************)
(* One more entry adds that entry: e is d and one entry more.              *)
(***************************************************************************)
THEOREM TotalOfOneMore ==
  ASSUME NEW d \in Seq(Int), NEW e \in Seq(Int), Len(e) = Len(d) + 1,
         \A i \in 1..Len(d) : e[i] = d[i]
  PROVE  Total(e) = Total(d) + e[Len(e)]
<1>1. /\ Len(d) \in Nat /\ Len(e) \in Nat /\ Len(d) <= Len(e)
      /\ \A i \in 1..Len(d) : d[i] \in Int
      /\ \A i \in 1..Len(e) : e[i] \in Int
      /\ \A i \in 1..Len(d) : d[i] = e[i]
  OBVIOUS
<1>2. PICK s \in [0..Len(d) -> Int] : Totals(s, d, Len(d))
  BY <1>1, TotalsExist
<1>3. PICK t \in [0..Len(e) -> Int] : Totals(t, e, Len(e))
  BY <1>1, TotalsExist
<1>4. Total(d) = s[Len(d)] /\ Total(e) = t[Len(e)]
  BY <1>2, <1>3, TotalIsLast
<1>5. s[Len(d)] = t[Len(d)]
  BY ONLY <1>1, <1>2, <1>3, TotalsAgree
<1>6. t[Len(e)] = t[Len(e) - 1] + e[Len(e)]
  <2>1. \A i \in 0..Len(e) : t[i] = IF i = 0 THEN 0 ELSE t[i - 1] + e[i]
    BY <1>3 DEF Totals
  <2>2. Len(e) \in 0..Len(e) /\ Len(e) # 0
    BY ONLY <1>1, Len(e) = Len(d) + 1
  <2> QED
    BY ONLY <2>1, <2>2
<1> QED
  BY <1>4, <1>5, <1>6

(***************************************************************************)
(* The total of naturals is a natural, and no entry exceeds it.            *)
(***************************************************************************)
THEOREM TotalOfNats ==
  ASSUME NEW d \in Seq(Nat)
  PROVE  Total(d) \in Nat /\ \A i \in 1..Len(d) : d[i] <= Total(d)
<1>1. d \in Seq(Int) /\ Len(d) \in Nat /\ \A i \in 1..Len(d) : d[i] \in Nat
  OBVIOUS
<1>2. PICK s \in [0..Len(d) -> Int] : Totals(s, d, Len(d))
  BY <1>1, TotalsExist
<1>3. \A i \in 0..Len(d) : s[i] = IF i = 0 THEN 0 ELSE s[i - 1] + d[i]
  BY <1>2 DEF Totals
<1> DEFINE T == {k \in Nat : k <= Len(d) => s[k] \in Nat /\ \A i \in 1..k : d[i] <= s[k]}
<1>4. 0 \in T
  BY <1>1, <1>3
<1>5. ASSUME NEW k \in T PROVE k + 1 \in T
  <2>1. SUFFICES ASSUME k + 1 <= Len(d)
                 PROVE  s[k + 1] \in Nat /\ \A i \in 1..(k + 1) : d[i] <= s[k + 1]
    OBVIOUS
  <2>2. /\ k \in Nat /\ k + 1 \in 0..Len(d) /\ k + 1 \in 1..Len(d) /\ k + 1 # 0
        /\ (k + 1) - 1 = k
    BY <1>1, <2>1
  <2>3. s[k] \in Nat /\ \A i \in 1..k : d[i] <= s[k]
    BY <1>1, <2>1, <2>2
  <2> HIDE DEF T
  <2>4. s[k + 1] = s[k] + d[k + 1]
    BY ONLY <1>3, <2>2
  <2>5. d[k + 1] \in Nat
    BY <1>1, <2>2
  <2>6. s[k + 1] \in Nat
    BY <2>3, <2>4, <2>5
  <2>7. ASSUME NEW i \in 1..(k + 1) PROVE d[i] <= s[k + 1]
    <3>1. CASE i = k + 1
      BY <2>3, <2>4, <2>5, <3>1
    <3>2. CASE i # k + 1
      <4>1. i \in 1..k /\ d[i] \in Nat
        BY <1>1, <2>2, <3>2
      <4>2. d[i] <= s[k]
        BY <2>3, <4>1
      <4> QED
        BY <2>3, <2>4, <2>5, <4>1, <4>2
    <3> QED
      BY <3>1, <3>2
  <2> QED
    BY <2>6, <2>7
<1>6. Len(d) \in T
  <2> HIDE DEF T
  <2>1. T \in SUBSET Nat
    BY DEF T
  <2> QED
    BY <1>1, <1>4, <1>5, <2>1, SetInduction
<1> QED
  BY <1>1, <1>2, <1>6, TotalIsLast

(***************************************************************************)
(* The total of zeros is zero.                                             *)
(***************************************************************************)
THEOREM TotalOfZeros ==
  ASSUME NEW d \in Seq(Int), \A i \in 1..Len(d) : d[i] = 0
  PROVE  Total(d) = 0
<1>1. Len(d) \in Nat /\ \A i \in 1..Len(d) : d[i] \in Int
  OBVIOUS
<1>2. PICK s \in [0..Len(d) -> Int] : Totals(s, d, Len(d))
  BY <1>1, TotalsExist
<1>3. \A i \in 0..Len(d) : s[i] = IF i = 0 THEN 0 ELSE s[i - 1] + d[i]
  BY <1>2 DEF Totals
<1> DEFINE T == {k \in Nat : k <= Len(d) => s[k] = 0}
<1>4. 0 \in T
  BY <1>1, <1>3
<1>5. ASSUME NEW k \in T PROVE k + 1 \in T
  <2>1. SUFFICES ASSUME k + 1 <= Len(d) PROVE s[k + 1] = 0
    OBVIOUS
  <2>2. /\ k \in Nat /\ k + 1 \in 0..Len(d) /\ k + 1 \in 1..Len(d) /\ k + 1 # 0
        /\ (k + 1) - 1 = k
    BY <1>1, <2>1
  <2>3. s[k + 1] = s[k] + d[k + 1] /\ s[k] = 0 /\ d[k + 1] = 0
    BY <1>1, <1>3, <2>1, <2>2
  <2> QED
    BY <2>3
<1>6. Len(d) \in T
  <2> HIDE DEF T
  <2>1. T \in SUBSET Nat
    BY DEF T
  <2> QED
    BY <1>1, <1>4, <1>5, <2>1, SetInduction
<1> QED
  BY <1>1, <1>2, <1>6, TotalIsLast

-----------------------------------------------------------------------------
(***************************************************************************)
(* Amounts, and the columns the views sum.                                 *)
(***************************************************************************)
(* The product of two amounts is an amount.                                *)
LEMMA ProductOfNats ==
  ASSUME NEW m \in Nat, NEW n \in Nat
  PROVE  m * n \in Nat
  OBVIOUS

(* What a row adds to a balance is an integer.                             *)
LEMMA DeltasAreInt ==
  ASSUME NEW row \in Rows, NEW u, NEW i
  PROVE  CashDelta(row, u) \in Int /\ ShareDelta(row, u, i) \in Int
<1>1. row.price \in Nat /\ row.size \in Nat
  BY MaxInt4Assumption DEF Rows
<1>2. row.price * row.size \in Int
  BY <1>1
<1> QED
  BY <1>1, <1>2 DEF CashDelta, ShareDelta

(* So the columns the views sum are sequences of integers.                 *)
CashColumn(rows, u) == [n \in 1..Len(rows) |-> CashDelta(rows[n], u)]
ShareColumn(rows, u, i) == [n \in 1..Len(rows) |-> ShareDelta(rows[n], u, i)]

LEMMA ColumnsAreInt ==
  ASSUME NEW rows \in Seq(Rows), NEW u, NEW i
  PROVE  /\ CashColumn(rows, u) \in Seq(Int)
         /\ Len(CashColumn(rows, u)) = Len(rows)
         /\ ShareColumn(rows, u, i) \in Seq(Int)
         /\ Len(ShareColumn(rows, u, i)) = Len(rows)
<1>1. \A n \in 1..Len(rows) : rows[n] \in Rows
  OBVIOUS
<1>2. Len(rows) \in Nat
  OBVIOUS
<1>3. CashColumn(rows, u) \in [1..Len(rows) -> Int]
  BY <1>1, DeltasAreInt DEF CashColumn
<1>4. ShareColumn(rows, u, i) \in [1..Len(rows) -> Int]
  BY <1>1, DeltasAreInt DEF ShareColumn
<1> QED
  BY <1>2, <1>3, <1>4

(***************************************************************************)
(* Balances are integers.                                                  *)
(***************************************************************************)
THEOREM BalancesAreInt ==
  ASSUME NEW rows \in Seq(Rows), NEW u, NEW i
  PROVE  AvailableCash(rows, u) \in Int /\ HeldShares(rows, u, i) \in Int
<1>1. /\ AvailableCash(rows, u) = Total(CashColumn(rows, u))
      /\ HeldShares(rows, u, i) = Total(ShareColumn(rows, u, i))
  BY DEF AvailableCash, HeldShares, CashColumn, ShareColumn
<1> QED
  BY <1>1, ColumnsAreInt, TotalIsInt

(***************************************************************************)
(* A row appended to the table moves each balance by what the row adds.    *)
(***************************************************************************)
THEOREM BalancesOfOneMore ==
  ASSUME NEW rows \in Seq(Rows), NEW row \in Rows, NEW u, NEW i
  PROVE  /\ AvailableCash(Append(rows, row), u)
              = AvailableCash(rows, u) + CashDelta(row, u)
         /\ HeldShares(Append(rows, row), u, i)
              = HeldShares(rows, u, i) + ShareDelta(row, u, i)
<1> DEFINE more == Append(rows, row)
<1>1. /\ more \in Seq(Rows)
      /\ Len(more) = Len(rows) + 1
      /\ \A n \in 1..Len(rows) : more[n] = rows[n]
      /\ more[Len(more)] = row
      /\ Len(more) \in 1..Len(more)
      /\ \A n \in 1..Len(rows) : n \in 1..Len(more)
  OBVIOUS
<1> HIDE DEF more
<1>2. Total(CashColumn(more, u))
        = Total(CashColumn(rows, u)) + CashDelta(row, u)
  <2>1. \A n \in 1..Len(rows) : CashColumn(more, u)[n] = CashColumn(rows, u)[n]
    BY <1>1 DEF CashColumn
  <2>2. CashColumn(more, u)[Len(more)] = CashDelta(row, u)
    BY <1>1 DEF CashColumn
  <2>3. /\ CashColumn(rows, u) \in Seq(Int) /\ Len(CashColumn(rows, u)) = Len(rows)
        /\ CashColumn(more, u) \in Seq(Int) /\ Len(CashColumn(more, u)) = Len(more)
    BY <1>1, ColumnsAreInt
  <2> QED
    BY <1>1, <2>1, <2>2, <2>3, TotalOfOneMore
<1>3. Total(ShareColumn(more, u, i))
        = Total(ShareColumn(rows, u, i)) + ShareDelta(row, u, i)
  <2>1. \A n \in 1..Len(rows) : ShareColumn(more, u, i)[n] = ShareColumn(rows, u, i)[n]
    BY <1>1 DEF ShareColumn
  <2>2. ShareColumn(more, u, i)[Len(more)] = ShareDelta(row, u, i)
    BY <1>1 DEF ShareColumn
  <2>3. /\ ShareColumn(rows, u, i) \in Seq(Int) /\ Len(ShareColumn(rows, u, i)) = Len(rows)
        /\ ShareColumn(more, u, i) \in Seq(Int) /\ Len(ShareColumn(more, u, i)) = Len(more)
    BY <1>1, ColumnsAreInt
  <2> QED
    BY <1>1, <2>1, <2>2, <2>3, TotalOfOneMore
<1> QED
  BY <1>2, <1>3 DEF AvailableCash, HeldShares, CashColumn, ShareColumn, more

(* A row cancelled is a row.                                               *)
LEMMA CancelledIsRow ==
  ASSUME NEW row \in Rows
  PROVE  [row EXCEPT !.status = "CANCELLED"] \in Rows
<1>1. "CANCELLED" \in ORDER_STATUSES
  BY DEF ORDER_STATUSES
<1> QED
  BY <1>1 DEF Rows

(***************************************************************************)
(* Cancelling a NEW row moves no balance: neither status is FILLED.        *)
(***************************************************************************)
CancelledAt(rows, n) == [rows EXCEPT ![n].status = "CANCELLED"]

THEOREM CancelMovesNoBalance ==
  ASSUME NEW rows \in Seq(Rows), NEW n \in 1..Len(rows),
         rows[n].status \in CANCELLABLE, NEW u, NEW i
  PROVE  /\ CancelledAt(rows, n) \in Seq(Rows)
         /\ Len(CancelledAt(rows, n)) = Len(rows)
         /\ AvailableCash(CancelledAt(rows, n), u) = AvailableCash(rows, u)
         /\ HeldShares(CancelledAt(rows, n), u, i) = HeldShares(rows, u, i)
<1> DEFINE new == CancelledAt(rows, n)
<1>1. rows[n].status = "NEW"
  BY DEF CANCELLABLE, canTransition, TRANSITIONS
<1>2. new = [rows EXCEPT ![n] = [rows[n] EXCEPT !.status = "CANCELLED"]]
  BY DEF CancelledAt
<1>3. rows[n] \in Rows /\ [rows[n] EXCEPT !.status = "CANCELLED"] \in Rows
  <2>1. rows[n] \in Rows
    OBVIOUS
  <2> QED
    BY <2>1, CancelledIsRow
<1>4. new \in Seq(Rows) /\ Len(new) = Len(rows)
  BY <1>2, <1>3
<1>5. \A m \in 1..Len(rows) :
        /\ CashDelta(new[m], u) = CashDelta(rows[m], u)
        /\ ShareDelta(new[m], u, i) = ShareDelta(rows[m], u, i)
  <2> TAKE m \in 1..Len(rows)
  <2>1. CASE m # n
    BY <1>2, <2>1
  <2>2. CASE m = n
    <3>1. new[m] = [rows[n] EXCEPT !.status = "CANCELLED"]
      BY <1>2, <2>2
    <3>2. new[m].status = "CANCELLED"
      BY <1>3, <3>1 DEF Rows
    <3> QED
      BY <1>1, <2>2, <3>2 DEF CashDelta, ShareDelta
  <2> QED
    BY <2>1, <2>2
<1> HIDE DEF new
<1>6. AvailableCash(new, u) = AvailableCash(rows, u)
  BY <1>4, <1>5 DEF AvailableCash
<1>7. HeldShares(new, u, i) = HeldShares(rows, u, i)
  BY <1>4, <1>5 DEF HeldShares
<1> QED
  BY <1>4, <1>6, <1>7 DEF new
-----------------------------------------------------------------------------
(* A body that passed the checks of a placement becomes a row.             *)
WellPlaced(body, key, close) ==
  /\ body \in Bodies /\ key \in Keys /\ close \in Prices
  /\ Tradable(body)
  /\ sizeOf(body, close) # NoSize

(* The bounds on the operands bound the quotient.                          *)
LEMMA WholeShares ==
  ASSUME NEW amount \in Nat, NEW price \in Nat, BuysWholeShares(amount, price)
  PROVE  amount \div price \in 1..MaxInt4
<1> DEFINE q == amount \div price
           r == amount % price
<1>1. MaxInt4 \in Nat
  BY MaxInt4Assumption
<1>2. amount >= price /\ amount < price * (MaxInt4 + 1)
  BY DEF BuysWholeShares
<1>3. price > 0
  BY <1>1, <1>2
<1>4. q \in Int /\ r \in Int /\ r >= 0 /\ r < price /\ amount = price * q + r
  BY <1>3
<1> HIDE DEF q, r
<1>5. q >= 1
  <2>1. ASSUME q <= 0 PROVE FALSE
    <3>1. price * q <= 0
      BY <1>3, <1>4, <2>1
    <3> QED
      BY <1>2, <1>4, <3>1
  <2> QED
    BY <1>4, <2>1
<1>6. q <= MaxInt4
  <2>1. ASSUME q >= MaxInt4 + 1 PROVE FALSE
    <3>1. price * q >= price * (MaxInt4 + 1)
      BY <1>1, <1>3, <1>4, <2>1
    <3> QED
      BY <1>1, <1>2, <1>4, <3>1
  <2> QED
    BY <1>1, <1>4, <2>1
<1> QED
  BY <1>1, <1>4, <1>5, <1>6 DEF q

LEMMA SizeFits ==
  ASSUME NEW body, NEW key, NEW close, WellPlaced(body, key, close)
  PROVE  sizeOf(body, close) \in 1..MaxInt4
<1>1. /\ body.size \in 0..MaxInt4 /\ body.amount \in Nat /\ body.price \in Nat
      /\ close \in Nat /\ MaxInt4 \in Nat
  BY OrdersAssumption, MaxInt4Assumption DEF WellPlaced
<1> DEFINE price == IF body.price # Absent THEN body.price ELSE close
<1>2. price \in Nat
  BY <1>1
<1>3. BuysWholeShares(body.amount, price) => body.amount \div price \in 1..MaxInt4
  BY <1>1, <1>2, WholeShares
<1>4. resolveSize(body.size, body.amount, price) # NoSize
  BY DEF WellPlaced, sizeOf
<1> HIDE DEF price
<1>5. resolveSize(body.size, body.amount, price) \in 1..MaxInt4
  BY <1>1, <1>3, <1>4 DEF resolveSize, NoSize, Absent
<1> QED
  BY <1>5 DEF sizeOf, price

LEMMA PlacedIsRow ==
  ASSUME NEW id \in Ids, NEW body, NEW key, NEW close,
         NEW cash \in Int, NEW shares \in Int, WellPlaced(body, key, close)
  PROVE  RowOf(id, body, key, close, cash, shares) \in Rows
<1>1. /\ body.userId \in Users /\ body.instrumentId \in Instruments
      /\ body.side \in SIDES /\ body.type \in ORDER_TYPES
      /\ body.price \in Nat /\ close \in Nat /\ key \in Keys
  BY OrdersAssumption DEF WellPlaced, Tradable
<1>2. sizeOf(body, close) \in 1..MaxInt4
  BY SizeFits
<1> QED
  BY <1>1, <1>2 DEF RowOf, Rows, Sides, decide, executed, accepted, ORDER_STATUSES

(***************************************************************************)
(* A row decided on the balances it is appended to overdraws nobody and    *)
(* oversells nothing.                                                      *)
(***************************************************************************)
THEOREM PlacedKeepsBalances ==
  ASSUME NEW rows \in Seq(Rows), NEW id \in Ids, NEW body, NEW key, NEW close,
         WellPlaced(body, key, close), NEW u, NEW i,
         NEW row, row = RowOf(id, body, key, close,
                              AvailableCash(rows, body.userId),
                              HeldShares(rows, body.userId, body.instrumentId))
  PROVE  /\ \/ CashDelta(row, u) >= 0
            \/ AvailableCash(rows, u) + CashDelta(row, u) >= 0
         /\ \/ ShareDelta(row, u, i) >= 0
            \/ HeldShares(rows, u, i) + ShareDelta(row, u, i) >= 0
<1>1. /\ row.price \in Nat /\ row.size \in Nat
      /\ row.side = body.side /\ row.side \in SIDES
      /\ row.userId = body.userId /\ row.instrumentId = body.instrumentId
      /\ row.status = "FILLED" =>
           covered(body.side, row.size, row.price, AvailableCash(rows, body.userId),
                   HeldShares(rows, body.userId, body.instrumentId))
  <2>1. row \in Rows
    BY PlacedIsRow, BalancesAreInt
  <2> QED
    BY <2>1, OrdersAssumption, MaxInt4Assumption
    DEF WellPlaced, Rows, RowOf, decide, accepted
<1>2. /\ row.price * row.size \in Nat
      /\ AvailableCash(rows, body.userId) \in Int
      /\ HeldShares(rows, body.userId, body.instrumentId) \in Int
  BY <1>1, ProductOfNats, BalancesAreInt
<1>3. \/ CashDelta(row, u) >= 0
      \/ AvailableCash(rows, u) + CashDelta(row, u) >= 0
  <2>1. CASE row.userId # u \/ row.status # "FILLED" \/ row.side = "SELL"
    BY <1>1, <1>2, <2>1 DEF CashDelta
  <2>2. CASE row.userId = u /\ row.status = "FILLED" /\ row.side = "BUY"
    <3>1. CashDelta(row, u) = -(row.price * row.size)
      BY <2>2 DEF CashDelta
    <3>2. AvailableCash(rows, u) >= row.price * row.size
      BY <1>1, <2>2 DEF covered
    <3> QED
      BY <1>1, <1>2, <2>2, <3>1, <3>2
  <2> QED
    BY <1>1, <2>1, <2>2 DEF SIDES
<1>4. \/ ShareDelta(row, u, i) >= 0
      \/ HeldShares(rows, u, i) + ShareDelta(row, u, i) >= 0
  <2>1. CASE \/ row.userId # u \/ row.instrumentId # i
             \/ row.status # "FILLED" \/ row.side = "BUY"
    BY <1>1, <2>1 DEF ShareDelta
  <2>2. CASE /\ row.userId = u /\ row.instrumentId = i
             /\ row.status = "FILLED" /\ row.side = "SELL"
    <3>1. ShareDelta(row, u, i) = -row.size
      BY <2>2 DEF ShareDelta
    <3>2. HeldShares(rows, u, i) >= row.size
      BY <1>1, <2>2 DEF covered
    <3> QED
      BY <1>1, <1>2, <2>2, <3>1, <3>2
  <2> QED
    BY <1>1, <2>1, <2>2 DEF SIDES
<1> QED
  BY <1>3, <1>4
=============================================================================
