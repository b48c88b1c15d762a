--------------------------- MODULE OrderPromises ---------------------------
(***************************************************************************)
(* The committed rows of table orders, and what is promised of them by     *)
(* whoever writes them: the abstract API (module AtomicOrders), and the    *)
(* service, statement by statement (module Placement).                     *)
(***************************************************************************)
EXTENDS Orders

VARIABLE orders

(***************************************************************************)
(* No user's cash is taken below zero, nor below what the seed left them   *)
(* if that was already negative: placements decided in any order never     *)
(* spend the same balance twice (orders.service.ts:105).                   *)
(***************************************************************************)
NoOverdraft == Solvent(orders)

(***************************************************************************)
(* Nor is any position taken below zero, or below the short position of    *)
(* the seed, which new orders cannot enlarge (README.md:148).              *)
(***************************************************************************)
NoOversell == Covered(orders)

(***************************************************************************)
(* One row per user and idempotency key.                                   *)
(***************************************************************************)
OneRowPerKey == UniqueKeys(orders)

(***************************************************************************)
(* The log of orders is append-only but for one transition: a row, once    *)
(* there, keeps its place and everything in it, except that NEW may become *)
(* CANCELLED, once and for all.                                            *)
(***************************************************************************)
HistoryStands ==
  [][ /\ Len(orders') >= Len(orders)
      /\ \A n \in 1..Len(orders) : OnlyCancels(orders[n], orders'[n]) ]_orders
=============================================================================
