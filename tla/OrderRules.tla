----------------------------- MODULE OrderRules -----------------------------
(***************************************************************************)
(* The pure rules of src/src/orders/order-rules.ts: how an order gets its  *)
(* size, what it executes at, whether it is covered, and which transitions *)
(* of its status exist.  Money is an integer number of centavos and an     *)
(* amount that the request leaves out is Absent; the DTO admits no zero,   *)
(* so zero is free to stand for `undefined`.                               *)
(***************************************************************************)
EXTENDS Integers

CONSTANT MaxInt4        \* MAX_INT4, the widest size the column takes

ASSUME MaxInt4Assumption == MaxInt4 \in Nat \ {0}

Absent == 0
NoSize == 0             \* an OrderRuleError was thrown instead of a size

SIDES == {"BUY", "SELL"}
ORDER_TYPES == {"MARKET", "LIMIT"}
ORDER_STATUSES == {"NEW", "FILLED", "REJECTED", "CANCELLED"}

(* Mutant of TRANSITIONS: a FILLED order may be cancelled too.             *)
filledIsCancellable ==
  [status \in ORDER_STATUSES |->
     IF status \in {"NEW", "FILLED"} THEN {"CANCELLED"} ELSE {}]

TRANSITIONS ==
  [status \in ORDER_STATUSES |-> IF status = "NEW" THEN {"CANCELLED"} ELSE {}]

canTransition(from, to) == to \in TRANSITIONS[from]

CANCELLABLE == {status \in ORDER_STATUSES : canTransition(status, "CANCELLED")}

(***************************************************************************)
(* resolveSize: exactly one of size and amount, then either the size as it *)
(* came or the whole shares the amount buys, bounded on the operands.      *)
(***************************************************************************)
OneOf(size, amount) == (size = Absent) # (amount = Absent)

(* Mutant of BuysWholeShares: no upper bound on the operands.              *)
buysAnyShares(amount, price) == price > 0 /\ amount >= price

BuysWholeShares(amount, price) ==
  /\ amount >= price
  /\ amount < price * (MaxInt4 + 1)

resolveSize(size, amount, price) ==
  IF OneOf(size, amount) /\ size # Absent
  THEN size
  ELSE IF OneOf(size, amount) /\ BuysWholeShares(amount, price)
       THEN amount \div price
       ELSE NoSize

(***************************************************************************)
(* decide: a LIMIT order executes at its own price and a MARKET order at   *)
(* the close; a buy needs the cash, a sale needs the shares.               *)
(***************************************************************************)
executed(type, price, close) ==
  IF type = "LIMIT" /\ price # Absent THEN price ELSE close

(* A mutant of covered: a sale is covered by one share less than it sells. *)
coveredButOne(side, size, price, availableCash, heldShares) ==
  IF side = "BUY" THEN availableCash >= price * size ELSE heldShares + 1 >= size

covered(side, size, price, availableCash, heldShares) ==
  IF side = "BUY" THEN availableCash >= price * size ELSE heldShares >= size

accepted(type) == IF type = "MARKET" THEN "FILLED" ELSE "NEW"

decide(body, size, close, availableCash, heldShares) ==
  LET price == executed(body.type, body.price, close)
  IN  [ price  |-> price,
        status |-> IF covered(body.side, size, price, availableCash, heldShares)
                   THEN accepted(body.type) ELSE "REJECTED" ]
=============================================================================
