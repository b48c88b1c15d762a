----------------------------- MODULE Portfolio ------------------------------
(***************************************************************************)
(* PortfolioService.forUser next to the writers of the orders table.  The  *)
(* two folds are read by two statements of a REPEATABLE READ transaction,  *)
(* whose snapshot is that of its first statement.  The writers are steps   *)
(* of AtomicOrders, which Placement implements.                            *)
(***************************************************************************)
EXTENDS Orders, FiniteSets, Functions

CONSTANTS
  Readers,        \* GET /users/:id/portfolio requests
  Asked,          \* the user ids they name, known or not
  Quotes,         \* the latest_closes the market goes through
  NoClose,        \* an instrument without market data
  NoSnapshot,
  NoPrice         \* a null column of a position

ASSUME PortfolioAssumption ==
  /\ Quotes \subseteq [Instruments -> Prices \cup {NoClose}]
  /\ NoClose \notin Prices
  /\ NoSnapshot \notin [orders : Seq(Rows), closes : Quotes]

VARIABLES
  orders,         \* committed rows of table orders
  closes,         \* view latest_closes
  past,           \* history: every latest_closes there has been
  rpc, user,      \* where each reader is, and the user it names
  snapshot,       \* what its transaction sees
  cash,           \* what its first statement returned
  answer,         \* status code and portfolio
  seen            \* history: the portfolios that were true since it was sent

readers == <<rpc, user, snapshot, cash, answer>>
vars == <<orders, closes, past, readers, seen>>

-----------------------------------------------------------------------------
(***************************************************************************)
(* The columns of holdings.  Postgres rounds halves away from zero; the    *)
(* return is computed from the cost before it is rounded, in hundredths.   *)
(***************************************************************************)
Abs(n) == IF n < 0 THEN -n ELSE n

RoundDiv(n, d) ==
  LET q == (2 * Abs(n) + d) \div (2 * d) IN IF n < 0 THEN -q ELSE q

Bought(rows, u, i) ==
  {n \in 1..Len(rows) : /\ rows[n].userId = u /\ rows[n].instrumentId = i
                        /\ rows[n].status = "FILLED" /\ rows[n].side = "BUY"}

(* SUM over the rows of Bought, of their sizes and of what they cost.      *)
sharesBought(rows, u, i) ==
  Total([n \in 1..Len(rows) |-> IF n \in Bought(rows, u, i) THEN rows[n].size ELSE 0])

paid(rows, u, i) ==
  Total([n \in 1..Len(rows) |->
           IF n \in Bought(rows, u, i) THEN rows[n].price * rows[n].size ELSE 0])

(* Mutant of avgCost: the mean of the prices, whatever was bought at each. *)
avgPrice(rows, u, i) ==
  IF Bought(rows, u, i) = {} THEN NoPrice
  ELSE RoundDiv(SumFunctionOnSet([n \in 1..Len(rows) |-> rows[n].price],
                                 Bought(rows, u, i)),
                Cardinality(Bought(rows, u, i)))

avgCost(rows, u, i) ==
  IF Bought(rows, u, i) = {} THEN NoPrice
  ELSE RoundDiv(paid(rows, u, i), sharesBought(rows, u, i))

marketValue(rows, at, u, i) ==
  HeldShares(rows, u, i) * (IF at[i] = NoClose THEN 0 ELSE at[i])

totalReturnPct(rows, at, u, i) ==
  LET bought == sharesBought(rows, u, i)  cost == paid(rows, u, i) IN
  IF HeldShares(rows, u, i) > 0 /\ cost > 0 /\ at[i] # NoClose
  THEN RoundDiv((at[i] * bought - cost) * 10000, cost)
  ELSE NoPrice

(***************************************************************************)
(* A position for every instrument but cash whose net is not zero.         *)
(***************************************************************************)
Held(rows, u) == {i \in Instruments \ Currency : HeldShares(rows, u, i) # 0}

positionsOf(rows, at, u) ==
  [ i \in Held(rows, u) |->
      [ quantity       |-> HeldShares(rows, u, i),
        marketValue    |-> marketValue(rows, at, u, i),
        avgCost        |-> avgCost(rows, u, i),
        totalReturnPct |-> totalReturnPct(rows, at, u, i) ] ]

Folio(cashRead, positions) ==
  [ availableCash |-> cashRead,
    positions     |-> positions,
    totalValue    |->
      cashRead + SumFunction([i \in DOMAIN positions |-> positions[i].marketValue]) ]

PortfolioOf(rows, at, u) == Folio(AvailableCash(rows, u), positionsOf(rows, at, u))

-----------------------------------------------------------------------------
NoAnswer == [code |-> 0]

InFlight == {"asking", "begun", "cashRead"}

Init ==
  /\ orders = SeedOrders
  /\ closes \in Quotes
  /\ past = {closes}
  /\ rpc = [q \in Readers |-> "unsent"]
  /\ user \in [Readers -> Asked]
  /\ snapshot = [q \in Readers |-> NoSnapshot]
  /\ cash = [q \in Readers |-> 0]
  /\ answer = [q \in Readers |-> NoAnswer]
  /\ seen = [q \in Readers |-> {}]

Goto(q, at) == rpc' = [rpc EXCEPT ![q] = at]

Answer(q, with) ==
  /\ Goto(q, "answered")
  /\ answer' = [answer EXCEPT ![q] = with]
  /\ snapshot' = [snapshot EXCEPT ![q] = NoSnapshot]
  /\ cash' = [cash EXCEPT ![q] = 0]

Send(q) ==
  /\ rpc[q] = "unsent"
  /\ Goto(q, "asking")
  /\ UNCHANGED <<orders, closes, user, snapshot, cash, answer>>

(***************************************************************************)
(* userExists runs before the transaction, on a connection of its own.     *)
(***************************************************************************)
userExists(q) ==
  /\ rpc[q] = "asking"
  /\ \/ /\ user[q] \in Users
        /\ Goto(q, "begun")
        /\ UNCHANGED <<snapshot, cash, answer>>
     \/ /\ user[q] \notin Users
        /\ Answer(q, [code |-> 404])
  /\ UNCHANGED <<orders, closes, user>>

availableCash(q) ==
  /\ rpc[q] = "begun"
  /\ snapshot' = [snapshot EXCEPT ![q] = [orders |-> orders, closes |-> closes]]
  /\ cash' = [cash EXCEPT ![q] = AvailableCash(orders, user[q])]
  /\ Goto(q, "cashRead")
  /\ UNCHANGED <<orders, closes, user, answer>>

(* Mutant of holdings: READ COMMITTED, the statement sees what is stored.  *)
holdingsOfNow(q) ==
  /\ rpc[q] = "cashRead"
  /\ Answer(q, [code |-> 200,
                portfolio |-> Folio(cash[q], positionsOf(orders, closes, user[q]))])
  /\ UNCHANGED <<orders, closes, user>>

(***************************************************************************)
(* One position outside int4 fails the query, and the whole portfolio.     *)
(***************************************************************************)
holdings(q) ==
  LET at == snapshot[q] IN
  /\ rpc[q] = "cashRead"
  /\ \/ /\ \A i \in Instruments : FitsInt4(HeldShares(at.orders, user[q], i))
        /\ Answer(q, [code |-> 200,
                      portfolio |-> Folio(cash[q],
                                          positionsOf(at.orders, at.closes, user[q]))])
     \/ /\ \E i \in Instruments : ~ FitsInt4(HeldShares(at.orders, user[q], i))
        /\ Answer(q, [code |-> 500])
  /\ UNCHANGED <<orders, closes, user>>

(***************************************************************************)
(* No connection (P2024), or a transaction out of its default waits        *)
(* (P2028): nothing here maps either.                                      *)
(***************************************************************************)
Starve(q) ==
  /\ rpc[q] \in InFlight
  /\ Answer(q, [code |-> 500])
  /\ UNCHANGED <<orders, closes, user>>

-----------------------------------------------------------------------------
(* The writers.  A placement decides at a close that the market has had,   *)
(* maybe not the one it has by the time the row is committed.              *)
API == INSTANCE AtomicOrders

Write ==
  /\ \/ \E id \in Ids, b \in Bodies, key \in Keys, at \in past :
          /\ b.instrumentId \in Instruments /\ at[b.instrumentId] # NoClose
          /\ API!Place(id, b, key, at[b.instrumentId])
     \/ \E n \in 1..Len(orders) : API!Cancel(n)
  /\ UNCHANGED <<closes, readers>>

MarketMoves ==
  /\ closes' \in Quotes
  /\ UNCHANGED <<orders, readers>>

(* History, for the properties only: what would have been a true answer.   *)
Witness ==
  /\ past' = past \cup {closes'}
  /\ seen' = [q \in Readers |->
                IF rpc'[q] \in InFlight
                THEN seen[q] \cup {PortfolioOf(orders', closes', user[q])}
                ELSE seen[q]]

Next ==
  /\ \/ \E q \in Readers : \/ Send(q) \/ userExists(q) \/ availableCash(q)
                           \/ holdings(q) \/ Starve(q)
     \/ Write
     \/ MarketMoves
  /\ Witness

Spec == Init /\ [][Next]_vars
-----------------------------------------------------------------------------
TypeOK ==
  /\ orders \in Seq(Rows)
  /\ closes \in Quotes
  /\ rpc \in [Readers -> InFlight \cup {"unsent", "answered"}]
  /\ user \in [Readers -> Asked]
  /\ \A q \in Readers :
       /\ snapshot[q] # NoSnapshot <=> rpc[q] = "cashRead"
       /\ cash[q] \in Int
       /\ answer[q].code \in {0, 200, 404, 500}
       /\ answer[q].code = 0 <=> rpc[q] # "answered"

(***************************************************************************)
(* A portfolio is of one instant, and of one while it was asked for: the   *)
(* cash, the positions and the total were all true together, so an order   *)
(* that fills in between is in both halves of the total or in neither      *)
(* (portfolio.service.ts:38), and one that was answered before is in it.   *)
(* Types are part of it.                                                   *)
(***************************************************************************)
AnswerIsOfOneInstant ==
  /\ TypeOK
  /\ \A q \in Readers : answer[q].code = 200 => answer[q].portfolio \in seen[q]

(***************************************************************************)
(* The columns of a position agree although they are rounded apart: a      *)
(* position shown as a gain is worth at least its average cost, one shown  *)
(* as a loss at most (portfolio.repository.ts:68).                         *)
(***************************************************************************)
ReturnsAgree ==
  \A q \in Readers :
    answer[q].code = 200 =>
      \A i \in DOMAIN answer[q].portfolio.positions :
        LET p == answer[q].portfolio.positions[i] IN
        p.totalReturnPct # NoPrice =>
          /\ p.totalReturnPct > 0 => p.marketValue >= p.quantity * p.avgCost
          /\ p.totalReturnPct < 0 => p.marketValue <= p.quantity * p.avgCost
=============================================================================
