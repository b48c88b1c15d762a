--------------------------- MODULE PortfolioProofs ---------------------------
(***************************************************************************)
(* A portfolio is of one instant, and its columns agree, for any number of *)
(* readers next to any writers that keep the contract of AtomicOrders.     *)
(***************************************************************************)
EXTENDS Portfolio, OrdersProofs

(***************************************************************************)
(* What Postgres' ROUND does to a quotient: it is on the same side of an   *)
(* integer as the quotient, or on the integer.                             *)
(***************************************************************************)
LEMMA QuotientBounds ==
  ASSUME NEW n \in Nat, NEW d \in Nat \ {0}
  PROVE  /\ n \div d \in Nat
         /\ (n \div d) * d <= n
         /\ n < (n \div d + 1) * d
<1> DEFINE q == n \div d  r == n % d
<1>1. q \in Int /\ r \in 0..(d - 1) /\ n = d * q + r
  OBVIOUS
<1> HIDE DEF q, r
<1>2. d * q <= n /\ n < d * q + d
  BY <1>1
<1>3. d * q = q * d /\ (q + 1) * d = q * d + d
  BY <1>1
<1>4. q >= 0
  <2>1. ASSUME q <= -1 PROVE FALSE
    <3>1. d * q <= -d
      BY <1>1, <2>1
    <3> QED
      BY <1>1, <1>2, <3>1
  <2> QED
    BY <1>1, <2>1
<1> QED
  BY <1>1, <1>2, <1>3, <1>4 DEF q

LEMMA ProductsKeepOrder ==
  ASSUME NEW a \in Int, NEW b \in Int, NEW d \in Nat \ {0}
  PROVE  a * d < b * d <=> a < b
<1>1. a * d \in Int /\ b * d \in Int
  OBVIOUS
<1>2. CASE a < b
  <2>1. (b - a) * d >= d
    BY <1>2
  <2>2. (b - a) * d = b * d - a * d
    OBVIOUS
  <2> QED
    BY <1>1, <1>2, <2>1, <2>2
<1>3. CASE ~ (a < b)
  <2>1. (a - b) * d >= 0
    BY <1>3
  <2>2. (a - b) * d = a * d - b * d
    OBVIOUS
  <2> QED
    BY <1>1, <1>3, <2>1, <2>2
<1> QED
  BY <1>2, <1>3

(* A rounded quotient of naturals against an integer.                      *)
LEMMA RoundedAgainst ==
  ASSUME NEW n \in Nat, NEW d \in Nat \ {0}, NEW m \in Nat
  PROVE  /\ RoundDiv(n, d) \in Nat
         /\ n <= m * d => RoundDiv(n, d) <= m
         /\ n >= m * d => RoundDiv(n, d) >= m
<1> DEFINE e == 2 * d  k == 2 * n + d  q == k \div e
<1>1. k \in Nat /\ e \in Nat \ {0}
  OBVIOUS
<1>2. RoundDiv(n, d) = q
  BY DEF RoundDiv, Abs
<1>3. m * d \in Nat /\ m * e = 2 * (m * d) /\ (m + 1) * e = 2 * (m * d) + 2 * d
  OBVIOUS
<1>4. q \in Nat /\ q * e <= k /\ k < (q + 1) * e
  <2> HIDE DEF e, k
  <2> QED
    BY <1>1, QuotientBounds
<1>5. ASSUME n <= m * d PROVE q <= m
  <2>1. k < (m + 1) * e
    BY <1>3, <1>5
  <2>2. q * e < (m + 1) * e
    <3> HIDE DEF q, e, k
    <3>1. q * e \in Int /\ (m + 1) * e \in Int
      BY <1>1, <1>4
    <3> QED
      BY <1>1, <1>4, <2>1, <3>1
  <2> HIDE DEF q, e, k
  <2>3. q < m + 1
    BY <1>1, <1>4, <2>2, ProductsKeepOrder
  <2> QED
    BY <1>4, <2>3
<1>6. ASSUME n >= m * d PROVE q >= m
  <2>1. m * e <= k
    BY <1>3, <1>6
  <2>2. m * e < (q + 1) * e
    <3> HIDE DEF q, e, k
    <3>1. m * e \in Int /\ (q + 1) * e \in Int
      BY <1>1, <1>4
    <3> QED
      BY <1>1, <1>4, <2>1, <3>1
  <2> HIDE DEF q, e, k
  <2>3. m < q + 1
    BY <1>1, <1>4, <2>2, ProductsKeepOrder
  <2> QED
    BY <1>4, <2>3
<1> QED
  BY <1>2, <1>4, <1>5, <1>6

(* It has the sign of its dividend, or is zero.                            *)
LEMMA RoundedSign ==
  ASSUME NEW n \in Int, NEW d \in Nat \ {0}
  PROVE  /\ RoundDiv(n, d) \in Int
         /\ RoundDiv(n, d) > 0 => n > 0
         /\ RoundDiv(n, d) < 0 => n < 0
<1> DEFINE k == 2 * Abs(n) + d  e == 2 * d
<1>1. Abs(n) \in Nat
  BY DEF Abs
<1>2. k \in Nat /\ e \in Nat \ {0}
  BY <1>1
<1>3. k \div e \in Nat
  <2> HIDE DEF k, e
  <2> QED
    BY <1>2, QuotientBounds
<1>4. RoundDiv(n, d) = IF n < 0 THEN -(k \div e) ELSE k \div e
  BY DEF RoundDiv
<1>5. RoundDiv(0, d) = 0
  BY RoundedAgainst
<1> HIDE DEF k, e
<1> QED
  BY <1>3, <1>4, <1>5

-----------------------------------------------------------------------------
(***************************************************************************)
(* The two sums of a position.  What was bought for something was bought.  *)
(***************************************************************************)
LEMMA SumsOfPosition ==
  ASSUME NEW rows \in Seq(Rows), NEW u, NEW i
  PROVE  /\ sharesBought(rows, u, i) \in Nat /\ paid(rows, u, i) \in Nat
         /\ paid(rows, u, i) > 0 => sharesBought(rows, u, i) > 0
         /\ paid(rows, u, i) > 0 => Bought(rows, u, i) # {}
<1> DEFINE B == Bought(rows, u, i)
           sizes == [n \in 1..Len(rows) |-> IF n \in B THEN rows[n].size ELSE 0]
           costs == [n \in 1..Len(rows) |->
                       IF n \in B THEN rows[n].price * rows[n].size ELSE 0]
<1>1. /\ Len(rows) \in Nat
      /\ \A n \in 1..Len(rows) : rows[n].size \in Nat \ {0} /\ rows[n].price \in Nat
  <2>1. \A n \in 1..Len(rows) : rows[n] \in Rows
    OBVIOUS
  <2> QED
    BY <2>1, MaxInt4Assumption DEF Rows
<1>2. \A n \in 1..Len(rows) : rows[n].price * rows[n].size \in Nat
  BY <1>1, ProductOfNats
<1>3. B \subseteq 1..Len(rows)
  BY DEF Bought
<1>4. sharesBought(rows, u, i) = Total(sizes) /\ paid(rows, u, i) = Total(costs)
  BY DEF sharesBought, paid
<1> HIDE DEF B
<1>5. /\ sizes \in Seq(Nat) /\ Len(sizes) = Len(rows)
      /\ costs \in Seq(Nat) /\ Len(costs) = Len(rows)
  <2>1. sizes \in [1..Len(rows) -> Nat]
    BY <1>1
  <2>2. costs \in [1..Len(rows) -> Nat]
    BY <1>2
  <2> HIDE DEF sizes, costs
  <2>3. sizes \in Seq(Nat) /\ Len(sizes) = Len(rows)
    BY <1>1, <2>1
  <2>4. costs \in Seq(Nat) /\ Len(costs) = Len(rows)
    BY <1>1, <2>2
  <2> QED
    BY <2>3, <2>4
<1>6. Total(sizes) \in Nat /\ Total(costs) \in Nat
  BY <1>5, TotalOfNats
<1>7. ASSUME B = {} PROVE Total(costs) = 0
  <2>1. \A n \in 1..Len(rows) : costs[n] = 0
    BY <1>7
  <2> HIDE DEF costs
  <2>2. costs \in Seq(Int) /\ \A n \in 1..Len(costs) : costs[n] = 0
    BY <1>5, <2>1
  <2> QED
    BY <2>2, TotalOfZeros
<1>8. ASSUME NEW n \in B PROVE Total(sizes) > 0
  <2>1. n \in 1..Len(rows) /\ sizes[n] \in Nat \ {0}
    BY <1>1, <1>3
  <2> HIDE DEF sizes
  <2>2. sizes[n] <= Total(sizes)
    BY <1>5, <2>1, TotalOfNats
  <2> QED
    BY <1>6, <2>1, <2>2
<1> HIDE DEF sizes, costs
<1>9. Total(costs) > 0 => B # {} /\ Total(sizes) > 0
  BY <1>6, <1>7, <1>8
<1> QED
  BY <1>4, <1>6, <1>9 DEF B

(***************************************************************************)
(* The columns of a position, whatever the rows and the closes: its market *)
(* value and its average cost are on the side of each other that its       *)
(* return says.                                                            *)
(***************************************************************************)
LEMMA ColumnsAgree ==
  ASSUME NEW rows \in Seq(Rows), NEW at \in Quotes, NEW u, NEW i \in Instruments,
         NEW pct, pct = totalReturnPct(rows, at, u, i), pct # NoPrice
  PROVE  LET value == marketValue(rows, at, u, i)
             cost  == HeldShares(rows, u, i) * avgCost(rows, u, i)
         IN  (pct > 0 => value >= cost) /\ (pct < 0 => value <= cost)
<1> DEFINE bought == sharesBought(rows, u, i)  cost == paid(rows, u, i)
           held == HeldShares(rows, u, i)  gain == (at[i] * bought - cost) * 10000
<1>1. /\ held > 0 /\ cost > 0 /\ at[i] # NoClose
      /\ pct = RoundDiv(gain, cost)
  BY DEF totalReturnPct
<1>2. at[i] \in Nat
  <2>1. at \in [Instruments -> Prices \cup {NoClose}] /\ Prices \subseteq Nat
    BY PortfolioAssumption, OrdersAssumption
  <2>2. at[i] \in Prices \cup {NoClose}
    BY <2>1
  <2>3. at[i] # NoClose
    BY <1>1
  <2> QED
    BY ONLY <2>1, <2>2, <2>3
<1>3. held \in Nat \ {0}
  BY <1>1, BalancesAreInt
<1>4. cost \in Nat \ {0} /\ bought \in Nat \ {0} /\ Bought(rows, u, i) # {}
  BY <1>1, SumsOfPosition
<1>5. /\ marketValue(rows, at, u, i) = held * at[i]
      /\ avgCost(rows, u, i) = RoundDiv(cost, bought)
  BY <1>1, <1>4 DEF marketValue, avgCost
<1> HIDE DEF bought, cost, held
<1>6. at[i] * bought \in Nat
  BY <1>2, <1>4, ProductOfNats
<1>7. gain \in Int
  BY <1>4, <1>6
<1>8. RoundDiv(cost, bought) \in Nat
  BY <1>2, <1>4, RoundedAgainst
<1>9. ASSUME pct > 0
      PROVE  held * at[i] >= held * RoundDiv(cost, bought)
  <2>1. gain > 0
    <3> HIDE DEF gain
    <3> QED
      BY <1>1, <1>4, <1>7, <1>9, RoundedSign
  <2>2. cost <= at[i] * bought
    BY <1>4, <1>6, <2>1
  <2>3. RoundDiv(cost, bought) <= at[i]
    BY <1>2, <1>4, <2>2, RoundedAgainst
  <2> HIDE DEF gain
  <2>4. \A a \in Nat, b \in Nat : b <= a => held * a >= held * b
    BY <1>3
  <2> QED
    BY <1>2, <1>8, <2>3, <2>4
<1>10. ASSUME pct < 0
       PROVE  held * at[i] <= held * RoundDiv(cost, bought)
  <2>1. gain < 0
    <3> HIDE DEF gain
    <3> QED
      BY <1>1, <1>4, <1>7, <1>10, RoundedSign
  <2>2. cost >= at[i] * bought
    BY <1>4, <1>6, <2>1
  <2>3. RoundDiv(cost, bought) >= at[i]
    BY <1>2, <1>4, <2>2, RoundedAgainst
  <2> HIDE DEF gain
  <2>4. \A a \in Nat, b \in Nat : b <= a => held * a >= held * b
    BY <1>3
  <2> QED
    BY <1>2, <1>8, <2>3, <2>4
<1> QED
  BY <1>5, <1>9, <1>10 DEF held

-----------------------------------------------------------------------------
(***************************************************************************)
(* The inductive invariant.  A reader between its two statements holds a   *)
(* snapshot, and the portfolio of that snapshot was true while it was in   *)
(* flight; an answered reader answered with such a portfolio; and whatever *)
(* was true for a while is the portfolio of some rows at some closes.      *)
(***************************************************************************)
Snapshots == [orders : Seq(Rows), closes : Quotes]

FolioTypes ==
  /\ orders \in Seq(Rows)
  /\ closes \in Quotes
  /\ past \subseteq Quotes
  /\ rpc \in [Readers -> InFlight \cup {"unsent", "answered"}]
  /\ user \in [Readers -> Asked]
  /\ snapshot \in [Readers -> Snapshots \cup {NoSnapshot}]
  /\ cash \in [Readers -> Int]
  /\ answer = [q \in Readers |-> answer[q]]
  /\ seen = [q \in Readers |-> seen[q]]

ReaderHolds(q) ==
  /\ snapshot[q] # NoSnapshot <=> rpc[q] = "cashRead"
  /\ answer[q].code \in {0, 200, 404, 500}
  /\ answer[q].code = 0 <=> rpc[q] # "answered"

CashIsOfSnapshot(q) ==
  rpc[q] = "cashRead" =>
    /\ cash[q] = AvailableCash(snapshot[q].orders, user[q])
    /\ PortfolioOf(snapshot[q].orders, snapshot[q].closes, user[q]) \in seen[q]

AnswerWasTrue(q) ==
  answer[q].code = 200 => answer[q].portfolio \in seen[q]

SeenWereTrue(q) ==
  \A p \in seen[q] : \E rows \in Seq(Rows), at \in Quotes : p = PortfolioOf(rows, at, user[q])

FolioInv ==
  /\ FolioTypes
  /\ \A q \in Readers : /\ ReaderHolds(q) /\ CashIsOfSnapshot(q)
                        /\ AnswerWasTrue(q) /\ SeenWereTrue(q)

(***************************************************************************)
(* The writers keep the table well formed.                                 *)
(***************************************************************************)
(* AtomicOrders reads the same ledger by the same rules.                   *)
LEMMA SameLedger ==
  ASSUME NEW rows, NEW u, NEW i, NEW k
  PROVE  /\ API!AvailableCash(rows, u) = AvailableCash(rows, u)
         /\ API!HeldShares(rows, u, i) = HeldShares(rows, u, i)
         /\ API!KeyTaken(rows, u, k) <=> KeyTaken(rows, u, k)
<1>1. \A d : API!Total(d) = Total(d)
  BY DEF API!Total, Total
<1>2. \A row : API!CashDelta(row, u) = CashDelta(row, u)
  BY DEF API!CashDelta, CashDelta
<1>3. \A row : API!ShareDelta(row, u, i) = ShareDelta(row, u, i)
  BY DEF API!ShareDelta, ShareDelta
<1>4. API!AvailableCash(rows, u) = AvailableCash(rows, u)
  BY <1>1, <1>2 DEF API!AvailableCash, AvailableCash
<1>5. API!HeldShares(rows, u, i) = HeldShares(rows, u, i)
  BY <1>1, <1>3 DEF API!HeldShares, HeldShares
<1>6. API!KeyTaken(rows, u, k) <=> KeyTaken(rows, u, k)
  BY DEF API!KeyTaken, KeyTaken
<1> QED
  BY <1>4, <1>5, <1>6

LEMMA SameRules ==
  ASSUME NEW id, NEW b, NEW k, NEW at, NEW c, NEW s
  PROVE  /\ API!sizeOf(b, at) = sizeOf(b, at)
         /\ API!NoSize = NoSize
         /\ API!Tradable(b) <=> Tradable(b)
         /\ API!RowOf(id, b, k, at, c, s) = RowOf(id, b, k, at, c, s)
         /\ API!CANCELLABLE = CANCELLABLE
         /\ API!Ids = Ids
<1>1. API!Absent = Absent /\ API!NoSize = NoSize
  BY DEF API!Absent, Absent, API!NoSize, NoSize
<1>2. \A size, amount, price :
        API!resolveSize(size, amount, price) = resolveSize(size, amount, price)
  BY <1>1 DEF API!resolveSize, resolveSize, API!OneOf, OneOf,
     API!BuysWholeShares, BuysWholeShares
<1>3. API!sizeOf(b, at) = sizeOf(b, at)
  BY <1>1, <1>2 DEF API!sizeOf, sizeOf
<1>4. \A size : API!decide(b, size, at, c, s) = decide(b, size, at, c, s)
  BY <1>1 DEF API!decide, decide, API!executed, executed, API!covered,
     covered, API!accepted, accepted
<1>5. API!RowOf(id, b, k, at, c, s) = RowOf(id, b, k, at, c, s)
  BY <1>3, <1>4 DEF API!RowOf, RowOf
<1>6. API!CANCELLABLE = CANCELLABLE
  BY DEF API!CANCELLABLE, CANCELLABLE, API!canTransition, canTransition,
     API!TRANSITIONS, TRANSITIONS, API!ORDER_STATUSES, ORDER_STATUSES
<1>7. (API!Tradable(b) <=> Tradable(b)) /\ API!Ids = Ids
  BY DEF API!Tradable, Tradable, API!Ids, Ids
<1> QED
  BY <1>1, <1>3, <1>5, <1>6, <1>7

LEMMA WritersKeepRows ==
  ASSUME FolioTypes, Write
  PROVE  orders' \in Seq(Rows) /\ UNCHANGED <<closes, readers>>
<1>1. CASE \E id \in Ids, b \in Bodies, k \in Keys, at \in past :
             /\ b.instrumentId \in Instruments /\ at[b.instrumentId] # NoClose
             /\ API!Place(id, b, k, at[b.instrumentId])
  <2>1. PICK id \in Ids, b \in Bodies, k \in Keys, at \in past :
               /\ b.instrumentId \in Instruments /\ at[b.instrumentId] # NoClose
               /\ API!Place(id, b, k, at[b.instrumentId])
    BY <1>1
  <2> DEFINE close == at[b.instrumentId]
             cash1 == AvailableCash(orders, b.userId)
             shares1 == HeldShares(orders, b.userId, b.instrumentId)
             row == RowOf(id, b, k, close, cash1, shares1)
  <2>2. close \in Prices
    <3>1. at \in [Instruments -> Prices \cup {NoClose}]
      BY PortfolioAssumption DEF FolioTypes
    <3>2. at[b.instrumentId] \in Prices \cup {NoClose}
      BY <2>1, <3>1
    <3>3. at[b.instrumentId] # NoClose
      BY <2>1
    <3> QED
      BY ONLY <3>2, <3>3
  <2> HIDE DEF close
  <2>3. API!Place(id, b, k, close)
    BY <2>1 DEF close
  <2>4. /\ Tradable(b) /\ sizeOf(b, close) # NoSize
        /\ orders' = Append(orders, row)
    BY <2>3, SameLedger, SameRules DEF API!Place
  <2>5. cash1 \in Int /\ shares1 \in Int
    BY BalancesAreInt DEF FolioTypes
  <2>6. row \in Rows
    BY <2>2, <2>4, <2>5, PlacedIsRow DEF WellPlaced
  <2> HIDE DEF row
  <2> QED
    BY <2>4, <2>6 DEF FolioTypes, Write
<1>2. CASE \E n \in 1..Len(orders) : API!Cancel(n)
  <2>1. PICK n \in 1..Len(orders) : API!Cancel(n)
    BY <1>2
  <2>2. orders[n].status \in CANCELLABLE /\ orders' = CancelledAt(orders, n)
    BY <2>1, SameRules DEF API!Cancel, CancelledAt
  <2> QED
    BY <2>2, CancelMovesNoBalance DEF FolioTypes, Write
<1> QED
  BY <1>1, <1>2 DEF Write

(***************************************************************************)
(* A step seen by one reader: what it had seen it has still seen, and what *)
(* is true after the step too while it is in flight.                       *)
(***************************************************************************)
LEMMA Witnessed ==
  ASSUME Witness, user' = user, NEW q \in Readers
  PROVE  /\ seen' = [p \in Readers |-> seen'[p]]
         /\ seen[q] \subseteq seen'[q]
         /\ rpc'[q] \in InFlight => PortfolioOf(orders', closes', user[q]) \in seen'[q]
         /\ \A p \in seen'[q] : p \in seen[q] \/ p = PortfolioOf(orders', closes', user[q])
  BY DEF Witness

(* The steps of readers leave table, market and names alone.               *)
Reads(q) ==
  Send(q) \/ userExists(q) \/ availableCash(q) \/ holdings(q) \/ Starve(q)

LEMMA ReadersKeepTable ==
  ASSUME NEW q \in Readers, Reads(q)
  PROVE  UNCHANGED <<orders, closes, user>>
  BY DEF Reads, Send, userExists, availableCash, holdings, Starve

LEMMA NextOnTable ==
  ASSUME FolioTypes, Next
  PROVE  /\ orders' \in Seq(Rows) /\ closes' \in Quotes /\ user' = user
         /\ past' \subseteq Quotes
         /\ UNCHANGED readers \/ \E q \in Readers : Reads(q)
<1>1. CASE \E q \in Readers : Reads(q)
  BY <1>1, ReadersKeepTable DEF FolioTypes, Next, Witness
<1>2. CASE Write
  BY <1>2, WritersKeepRows DEF FolioTypes, Next, Witness, readers
<1>3. CASE MarketMoves
  BY <1>3 DEF FolioTypes, Next, Witness, MarketMoves, readers
<1> QED
  BY <1>1, <1>2, <1>3 DEF Next, Reads

-----------------------------------------------------------------------------
(***************************************************************************)
(* One step of one reader: the types, and what it leaves to the others.    *)
(***************************************************************************)
ReaderTypes ==
  /\ rpc \in [Readers -> InFlight \cup {"unsent", "answered"}]
  /\ snapshot \in [Readers -> Snapshots \cup {NoSnapshot}]
  /\ cash \in [Readers -> Int]
  /\ answer = [q \in Readers |-> answer[q]]

OthersStay(q) ==
  \A p \in Readers \ {q} : /\ rpc'[p] = rpc[p] /\ snapshot'[p] = snapshot[p]
                           /\ cash'[p] = cash[p] /\ answer'[p] = answer[p]

(* An answer ends the request, whatever it says.                           *)
LEMMA AnswerEnds ==
  ASSUME ReaderTypes, NEW q \in Readers, NEW with, Answer(q, with)
  PROVE  /\ ReaderTypes' /\ OthersStay(q)
         /\ rpc'[q] = "answered" /\ snapshot'[q] = NoSnapshot /\ answer'[q] = with
  BY DEF ReaderTypes, OthersStay, Answer, Goto, InFlight

LEMMA ReadsOnReaders ==
  ASSUME FolioTypes, NEW q \in Readers, Reads(q)
  PROVE  ReaderTypes' /\ OthersStay(q)
<1>1. ReaderTypes
  BY DEF FolioTypes, ReaderTypes
<1>2. CASE Send(q)
  BY <1>1, <1>2 DEF Send, Goto, ReaderTypes, OthersStay, InFlight
<1>3. CASE userExists(q)
  <2>1. CASE user[q] \in Users
    BY <1>1, <1>3, <2>1, AnswerEnds DEF userExists, Goto, ReaderTypes, OthersStay, InFlight
  <2>2. CASE user[q] \notin Users
    BY <1>1, <1>3, <2>2, AnswerEnds DEF userExists
  <2> QED
    BY <2>1, <2>2
<1>4. CASE availableCash(q)
  <2>1. [orders |-> orders, closes |-> closes] \in Snapshots
    BY DEF FolioTypes, Snapshots
  <2>2. AvailableCash(orders, user[q]) \in Int
    BY BalancesAreInt DEF FolioTypes
  <2> QED
    BY <1>1, <1>4, <2>1, <2>2
    DEF availableCash, Goto, ReaderTypes, OthersStay, InFlight
<1>5. CASE holdings(q) \/ Starve(q)
  BY <1>1, <1>5, AnswerEnds DEF holdings, Starve
<1> QED
  BY <1>2, <1>3, <1>4, <1>5 DEF Reads

(***************************************************************************)
(* What the step does for the reader itself.                               *)
(***************************************************************************)
LEMMA ReadHolds ==
  ASSUME FolioTypes, NEW q \in Readers, ReaderHolds(q), Reads(q)
  PROVE  ReaderHolds(q)'
<1>1. ReaderTypes
  BY DEF FolioTypes, ReaderTypes
<1>2. CASE Send(q)
  BY <1>1, <1>2 DEF Send, Goto, ReaderTypes, ReaderHolds
<1>3. CASE userExists(q)
  <2>1. CASE user[q] \in Users /\ Goto(q, "begun") /\ UNCHANGED <<snapshot, cash, answer>>
    BY <1>1, <1>3, <2>1 DEF userExists, Goto, ReaderTypes, ReaderHolds
  <2>2. CASE Answer(q, [code |-> 404])
    BY <1>1, <2>2, AnswerEnds DEF ReaderHolds
  <2> QED
    BY <1>3, <2>1, <2>2 DEF userExists
<1>4. CASE availableCash(q)
  <2>1. [orders |-> orders, closes |-> closes] # NoSnapshot
    BY PortfolioAssumption DEF FolioTypes
  <2> QED
    BY <1>1, <1>4, <2>1 DEF availableCash, Goto, ReaderTypes, ReaderHolds
<1>5. CASE holdings(q) \/ Starve(q)
  <2>1. PICK with : Answer(q, with) /\ with.code \in {200, 500}
    BY <1>5 DEF holdings, Starve
  <2> QED
    BY <1>1, <2>1, AnswerEnds DEF ReaderHolds
<1> QED
  BY <1>2, <1>3, <1>4, <1>5 DEF Reads

LEMMA ReadIsOfSnapshot ==
  ASSUME FolioTypes, NEW q \in Readers, ReaderHolds(q), CashIsOfSnapshot(q),
         Reads(q), Witness
  PROVE  CashIsOfSnapshot(q)'
<1>1. ReaderTypes /\ UNCHANGED <<orders, closes, user>>
  BY ReadersKeepTable DEF FolioTypes, ReaderTypes
<1>2. CASE availableCash(q)
  <2>1. /\ rpc'[q] = "cashRead"
        /\ snapshot'[q].orders = orders' /\ snapshot'[q].closes = closes'
        /\ cash'[q] = AvailableCash(orders, user[q])
    BY <1>1, <1>2 DEF availableCash, Goto, ReaderTypes
  <2>2. PortfolioOf(orders', closes', user[q]) \in seen'[q]
    BY <1>1, <2>1, Witnessed DEF InFlight
  <2> QED
    BY <1>1, <2>1, <2>2 DEF CashIsOfSnapshot
<1>3. CASE Send(q)
  BY <1>1, <1>3 DEF Send, Goto, ReaderTypes, CashIsOfSnapshot
<1>4. CASE userExists(q)
  <2>1. rpc'[q] # "cashRead"
    BY <1>1, <1>4, AnswerEnds DEF userExists, Goto, ReaderTypes
  <2> QED
    BY <2>1 DEF CashIsOfSnapshot
<1>5. CASE holdings(q) \/ Starve(q)
  <2>1. rpc'[q] # "cashRead"
    BY <1>1, <1>5, AnswerEnds DEF holdings, Starve
  <2> QED
    BY <2>1 DEF CashIsOfSnapshot
<1> QED
  BY <1>2, <1>3, <1>4, <1>5 DEF Reads

LEMMA ReadWasTrue ==
  ASSUME FolioTypes, NEW q \in Readers, CashIsOfSnapshot(q), AnswerWasTrue(q),
         Reads(q), Witness
  PROVE  AnswerWasTrue(q)'
<1>1. ReaderTypes /\ UNCHANGED <<orders, closes, user>> /\ seen[q] \subseteq seen'[q]
  BY ReadersKeepTable, Witnessed DEF FolioTypes, ReaderTypes
<1>2. CASE answer' = answer
  BY <1>1, <1>2 DEF AnswerWasTrue
<1>3. CASE \E code \in {404, 500} : Answer(q, [code |-> code])
  BY <1>1, <1>3, AnswerEnds DEF AnswerWasTrue
<1>4. CASE /\ rpc[q] = "cashRead"
           /\ Answer(q, [code |-> 200,
                         portfolio |-> Folio(cash[q],
                                         positionsOf(snapshot[q].orders,
                                                     snapshot[q].closes, user[q]))])
  <2>1. answer'[q].portfolio
          = Folio(cash[q], positionsOf(snapshot[q].orders, snapshot[q].closes, user[q]))
    BY <1>1, <1>4, AnswerEnds
  <2>2. answer'[q].portfolio
          = PortfolioOf(snapshot[q].orders, snapshot[q].closes, user[q])
    BY <1>4, <2>1 DEF CashIsOfSnapshot, PortfolioOf
  <2> QED
    BY <1>1, <1>4, <2>2 DEF CashIsOfSnapshot, AnswerWasTrue
<1> QED
  BY <1>2, <1>3, <1>4 DEF Reads, Send, userExists, availableCash, holdings, Starve

(***************************************************************************)
(* A step that leaves a reader alone: what it has seen only grows.         *)
(***************************************************************************)
LEMMA LeftAlone ==
  ASSUME Witness, user' = user, NEW q \in Readers,
         ReaderHolds(q), CashIsOfSnapshot(q), AnswerWasTrue(q),
         rpc'[q] = rpc[q], snapshot'[q] = snapshot[q],
         cash'[q] = cash[q], answer'[q] = answer[q]
  PROVE  ReaderHolds(q)' /\ CashIsOfSnapshot(q)' /\ AnswerWasTrue(q)'
<1>1. seen[q] \subseteq seen'[q]
  BY Witnessed
<1> QED
  BY <1>1 DEF ReaderHolds, CashIsOfSnapshot, AnswerWasTrue

LEMMA InitFolioInv == Init => FolioInv
<1> SUFFICES ASSUME Init PROVE FolioInv
  OBVIOUS
<1>1. FolioTypes
  BY OrdersAssumption DEF Init, FolioTypes, InFlight
<1>2. ASSUME NEW q \in Readers
      PROVE  ReaderHolds(q) /\ CashIsOfSnapshot(q) /\ AnswerWasTrue(q) /\ SeenWereTrue(q)
  BY DEF Init, NoAnswer, ReaderHolds, CashIsOfSnapshot, AnswerWasTrue, SeenWereTrue
<1> QED
  BY <1>1, <1>2 DEF FolioInv

LEMMA NextKeepsFolioInv == FolioInv /\ [Next]_vars => FolioInv'
<1> SUFFICES ASSUME FolioInv, [Next]_vars PROVE FolioInv'
  OBVIOUS
<1>1. CASE UNCHANGED vars
  BY <1>1 DEF vars, readers, FolioInv, FolioTypes, ReaderHolds, CashIsOfSnapshot,
     AnswerWasTrue, SeenWereTrue
<1>2. CASE Next
  <2>1. FolioTypes /\ Witness
    BY <1>2 DEF FolioInv, Next
  <2>2. /\ orders' \in Seq(Rows) /\ closes' \in Quotes /\ user' = user
        /\ past' \subseteq Quotes
        /\ UNCHANGED readers \/ \E q \in Readers : Reads(q)
    BY <1>2, <2>1, NextOnTable
  <2>3. FolioTypes'
    <3>1. ReaderTypes'
      <4>1. CASE UNCHANGED readers
        BY <2>1, <4>1 DEF FolioTypes, ReaderTypes, readers
      <4>2. CASE \E q \in Readers : Reads(q)
        BY <2>1, <4>2, ReadsOnReaders
      <4> QED
        BY <2>2, <4>1, <4>2
    <3>2. user' \in [Readers -> Asked] /\ seen' = [q \in Readers |-> seen'[q]]
      BY <2>1, <2>2 DEF FolioTypes, Witness
    <3> QED
      BY <2>2, <3>1, <3>2 DEF FolioTypes, ReaderTypes
  <2>4. ASSUME NEW q \in Readers
        PROVE  ReaderHolds(q)' /\ CashIsOfSnapshot(q)' /\ AnswerWasTrue(q)'
    <3>1. ReaderHolds(q) /\ CashIsOfSnapshot(q) /\ AnswerWasTrue(q)
      BY DEF FolioInv
    <3>2. CASE Reads(q)
      BY <2>1, <3>1, <3>2, ReadHolds, ReadIsOfSnapshot, ReadWasTrue
    <3>3. CASE ~ Reads(q)
      <4>1. /\ rpc'[q] = rpc[q] /\ snapshot'[q] = snapshot[q]
            /\ cash'[q] = cash[q] /\ answer'[q] = answer[q]
        <5>1. CASE UNCHANGED readers
          BY <5>1 DEF readers
        <5>2. CASE \E p \in Readers : Reads(p)
          BY <2>1, <3>3, <5>2, ReadsOnReaders DEF OthersStay
        <5> QED
          BY <2>2, <5>1, <5>2
      <4> QED
        BY <2>1, <2>2, <3>1, <4>1, LeftAlone
    <3> QED
      BY <3>2, <3>3
  <2>5. ASSUME NEW q \in Readers
        PROVE  SeenWereTrue(q)'
    <3> SUFFICES ASSUME NEW p \in seen'[q]
                 PROVE  \E rows \in Seq(Rows), at \in Quotes :
                          p = PortfolioOf(rows, at, user[q])
      BY <2>2 DEF SeenWereTrue
    <3>1. p \in seen[q] \/ p = PortfolioOf(orders', closes', user[q])
      BY <2>1, <2>2, Witnessed
    <3>2. SeenWereTrue(q)
      BY DEF FolioInv
    <3> QED
      BY <2>2, <3>1, <3>2 DEF SeenWereTrue
  <2> QED
    BY <2>3, <2>4, <2>5 DEF FolioInv
<1> QED
  BY <1>1, <1>2

(* The invariant holds of every execution.                                 *)
LEMMA FolioInvariance == Spec => []FolioInv
  BY InitFolioInv, NextKeepsFolioInv, PTL DEF Spec

-----------------------------------------------------------------------------
(***************************************************************************)
(* A portfolio that is answered was true at one instant while it was asked *)
(* for: cash, positions and total are of one table and one market.         *)
(***************************************************************************)
THEOREM OneInstant == Spec => []AnswerIsOfOneInstant
<1>1. FolioInv => AnswerIsOfOneInstant
  BY DEF FolioInv, FolioTypes, ReaderHolds, AnswerWasTrue, AnswerIsOfOneInstant, TypeOK
<1> QED
  BY <1>1, FolioInvariance, PTL

(***************************************************************************)
(* And its positions agree with themselves although their columns are      *)
(* rounded apart: at any prices, for any history of orders.                *)
(***************************************************************************)
THEOREM ColumnsOfAnswersAgree == Spec => []ReturnsAgree
<1>1. FolioInv => ReturnsAgree
  <2> SUFFICES ASSUME FolioInv, NEW q \in Readers, answer[q].code = 200,
                      NEW i \in DOMAIN answer[q].portfolio.positions,
                      NEW p, p = answer[q].portfolio.positions[i],
                      p.totalReturnPct # NoPrice
               PROVE  /\ p.totalReturnPct > 0 => p.marketValue >= p.quantity * p.avgCost
                      /\ p.totalReturnPct < 0 => p.marketValue <= p.quantity * p.avgCost
    BY DEF ReturnsAgree
  <2>1. PICK rows \in Seq(Rows), at \in Quotes :
               answer[q].portfolio = PortfolioOf(rows, at, user[q])
    BY DEF FolioInv, AnswerWasTrue, SeenWereTrue
  <2>2. answer[q].portfolio.positions = positionsOf(rows, at, user[q])
    BY <2>1 DEF PortfolioOf, Folio
  <2>3. /\ i \in Instruments
        /\ p.quantity = HeldShares(rows, user[q], i)
        /\ p.marketValue = marketValue(rows, at, user[q], i)
        /\ p.avgCost = avgCost(rows, user[q], i)
        /\ p.totalReturnPct = totalReturnPct(rows, at, user[q], i)
    BY <2>2 DEF positionsOf, Held
  <2> HIDE DEF FolioInv
  <2> QED
    BY <2>3, ColumnsAgree
<1> QED
  BY <1>1, FolioInvariance, PTL
=============================================================================
