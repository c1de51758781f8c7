--------------------------- MODULE MCManualRefund ---------------------------
(* Small instances of ManualRefund: two tickets on one payment.              *)
EXTENDS ManualRefund, TLC

CONSTANTS t1, t2

\* Together they ask for more than the payment brought in and more than the
\* balance: the second is cut down or refused here, or refused by Stripe.
MCAmount == t1 :> 3 @@ t2 :> 3

CallSymmetry == Permutations(Calls)
=============================================================================
