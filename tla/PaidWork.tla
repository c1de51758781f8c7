------------------------------ MODULE PaidWork ------------------------------
(***************************************************************************)
(* What the product promises about one piece of paid work, whichever of    *)
(* its handlers, sweeps and buttons gets there first: credits are held     *)
(* when the work is accepted; the hold ends exactly once, as a charge in   *)
(* the same step that makes the result the merchant's, or as a refund with *)
(* no result; and it does end.                                             *)
(***************************************************************************)

VARIABLES
    hold,        \* the credits of the work: none, open, settled or refunded
    delivered    \* the merchant has the result

work == <<hold, delivered>>

Init == hold = "none" /\ delivered = FALSE

Accept == hold = "none" /\ hold' = "open" /\ UNCHANGED delivered

Deliver == hold = "open" /\ hold' = "settled" /\ delivered' = TRUE

GiveBack == hold = "open" /\ hold' = "refunded" /\ UNCHANGED delivered

\* The merchant throws away a result that was paid for.
Discard == hold = "settled" /\ delivered' = FALSE /\ UNCHANGED hold

Next == Accept \/ Deliver \/ GiveBack \/ Discard

Safety == Init /\ [][Next]_work

\* No hold stays open for ever.
Closes == hold = "open" ~> hold # "open"
=============================================================================
