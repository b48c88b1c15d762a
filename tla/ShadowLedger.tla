---------------------------- MODULE ShadowLedger ----------------------------
(***************************************************************************)
(* The shadow ledger of src/tools/src/simulation/shadow-ledger.ts: what    *)
(* the harness believes each user owns, what its unsettled orders hold     *)
(* aside, and what it expects of the next one.  Every operation is one     *)
(* synchronous call, so each is a function from a ledger to a ledger.      *)
(***************************************************************************)
EXTENDS Integers

CONSTANTS
  Instruments,
  Unlearnt,       \* the price of an instrument no response has named yet
  NoExecution     \* a response that carries no order

ASSUME ShadowLedgerAssumption == Unlearnt \notin Int

NoShares == [i \in Instruments |-> 0]

blank ==
  [ cash |-> 0, shares |-> NoShares, heldCash |-> 0, heldShares |-> NoShares,
    outstanding |-> 0, seeded |-> FALSE, uncertain |-> FALSE ]

empty ==
  [ generation |-> 0,
    users      |-> [u \in {} |-> blank],
    prices     |-> [i \in Instruments |-> Unlearnt] ]

Shadowed(ledger, user) == user \in DOMAIN ledger.users

-----------------------------------------------------------------------------
reseed(ledger, users) ==
  [ledger EXCEPT !.generation = @ + 1, !.users = [u \in users |-> blank]]

seed(ledger, generation, user, portfolio) ==
  IF generation = ledger.generation /\ Shadowed(ledger, user)
  THEN [ledger EXCEPT !.users[user].cash = portfolio.cash,
                      !.users[user].shares = portfolio.shares,
                      !.users[user].seeded = TRUE,
                      !.users[user].uncertain = ledger.users[user].outstanding > 0]
  ELSE ledger

(***************************************************************************)
(* expect: an opinion only on a MARKET order of a trusted user at a known  *)
(* price; a refusal only with nothing else in flight.                      *)
(***************************************************************************)
Trusted(ledger, user) ==
  /\ Shadowed(ledger, user)
  /\ ledger.users[user].seeded
  /\ ~ ledger.users[user].uncertain

Covered(user, order, price) ==
  IF order.side = "BUY"
  THEN user.cash - user.heldCash >= price * order.size
  ELSE user.shares[order.instrumentId] - user.heldShares[order.instrumentId]
         >= order.size

(* Mutant of expect: a refusal is expected whatever else is in flight.     *)
expectRefusals(ledger, order) ==
  LET price == ledger.prices[order.instrumentId] IN
  IF order.type = "LIMIT" \/ price = Unlearnt \/ ~ Trusted(ledger, order.userId)
  THEN "UNKNOWN"
  ELSE IF Covered(ledger.users[order.userId], order, price) THEN "FILLED"
  ELSE "REJECTED"

expect(ledger, order) ==
  LET price == ledger.prices[order.instrumentId] IN
  IF order.type = "LIMIT" \/ price = Unlearnt \/ ~ Trusted(ledger, order.userId)
  THEN "UNKNOWN"
  ELSE IF Covered(ledger.users[order.userId], order, price) THEN "FILLED"
  ELSE IF ledger.users[order.userId].outstanding = 0 THEN "REJECTED"
  ELSE "UNKNOWN"

(***************************************************************************)
(* reserve: the reservation, and the ledger that holds it.  Only an order  *)
(* that is expected to fill holds anything.                                *)
(***************************************************************************)
(* Mutant of Reservation: nothing is held aside.                           *)
holdNothing(ledger, order) ==
  [ generation  |-> ledger.generation,
    order       |-> order,
    expectation |-> expect(ledger, order),
    heldCash    |-> 0,
    heldShares  |-> 0 ]

Reservation(ledger, order) ==
  LET fills == expect(ledger, order) = "FILLED" IN
  [ generation  |-> ledger.generation,
    order       |-> order,
    expectation |-> expect(ledger, order),
    heldCash    |-> IF fills /\ order.side = "BUY"
                    THEN ledger.prices[order.instrumentId] * order.size ELSE 0,
    heldShares  |-> IF fills /\ order.side = "SELL" THEN order.size ELSE 0 ]

reserve(ledger, held) ==
  LET u == held.order.userId IN
  IF Shadowed(ledger, u)
  THEN [ledger EXCEPT
          !.users[u].outstanding = @ + 1,
          !.users[u].heldCash = @ + held.heldCash,
          !.users[u].heldShares[held.order.instrumentId] = @ + held.heldShares]
  ELSE ledger

(***************************************************************************)
(* release: only of the generation that reserved it.                       *)
(***************************************************************************)
(* Mutant of Current: a reservation of a shadow thrown away is released.   *)
anyGeneration(ledger, held) == Shadowed(ledger, held.order.userId)

Current(ledger, held) ==
  /\ held.generation = ledger.generation
  /\ Shadowed(ledger, held.order.userId)

release(ledger, held) ==
  LET u == held.order.userId IN
  [ledger EXCEPT
     !.users[u].outstanding = @ - 1,
     !.users[u].heldCash = @ - held.heldCash,
     !.users[u].heldShares[held.order.instrumentId] = @ - held.heldShares]

(***************************************************************************)
(* settle: learn the price of a MARKET response, give back what was held,  *)
(* and adopt the fill the target reports.                                  *)
(***************************************************************************)
Learnt(ledger, held, execution) ==
  IF execution # NoExecution /\ held.order.type = "MARKET"
  THEN [ledger EXCEPT !.prices[held.order.instrumentId] = execution.price]
  ELSE ledger

Fill(ledger, order, price) ==
  LET shares == IF order.side = "BUY" THEN order.size ELSE - order.size IN
  [ledger EXCEPT !.users[order.userId].cash = @ - price * shares,
                 !.users[order.userId].shares[order.instrumentId] = @ + shares]

settle(ledger, held, execution) ==
  LET learnt == Learnt(ledger, held, execution) IN
  IF ~ Current(ledger, held) THEN learnt
  ELSE IF execution # NoExecution /\ execution.status = "FILLED"
  THEN Fill(release(learnt, held), held.order, execution.price)
  ELSE release(learnt, held)

(* Mutant of lose: the user is still trusted.                              *)
loseTrusting(ledger, held) ==
  IF Current(ledger, held) THEN release(ledger, held) ELSE ledger

lose(ledger, held) ==
  IF Current(ledger, held)
  THEN [release(ledger, held) EXCEPT !.users[held.order.userId].uncertain = TRUE]
  ELSE ledger

needsReseed(ledger, user) ==
  /\ Shadowed(ledger, user)
  /\ ledger.users[user].outstanding = 0
  /\ ledger.users[user].uncertain \/ ~ ledger.users[user].seeded
=============================================================================
