------------------------------- MODULE Outage -------------------------------
(***************************************************************************)
(* What db_pause promises of the database: one outage at a time.  It is    *)
(* asked for, and comes or is spared; it ends by itself, unless it gets    *)
(* stuck, and then it only ends by rescue.                                 *)
(***************************************************************************)
VARIABLE outage

Init == outage = "none"

Ask == outage = "none" /\ outage' = "asked"
Come == outage = "asked" /\ outage' = "here"
Spare == outage = "asked" /\ outage' = "none"
End == outage = "here" /\ outage' = "none"
Stick == outage = "here" /\ outage' = "stuck"
Rescue == outage = "stuck" /\ outage' = "none"

Next == Ask \/ Come \/ Spare \/ End \/ Stick \/ Rescue

Spec == Init /\ [][Next]_outage
=============================================================================
