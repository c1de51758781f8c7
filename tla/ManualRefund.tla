---------------------------- MODULE ManualRefund ----------------------------
(***************************************************************************)
(* Refunds of one card payment by an operator: refundCreditsAction,        *)
(* completeManualRefund and abandonManualRefund, each a series of          *)
(* statements on the ledger and calls to Stripe, on the same ticket from   *)
(* several browser tabs.  The credits are locked first, Stripe pays the    *)
(* card, and only a refund that succeeded settles the hold.                *)
(*                                                                         *)
(* Stripe is the outside world: it pays at most what it received, answers  *)
(* a repeated idempotency key with the first answer, a refusal too, until  *)
(* the key expires, and moves a pending refund to succeeded or failed.  One*)
(* credit is worth one minor unit; Amount[t] is what ticket t asks for.    *)
(*                                                                         *)
(* The runbook keeps two things apart, and the model with it: an operator  *)
(* abandons a ticket only when no refund request on it is under way, and   *)
(* no request outlives its idempotency key (24 hours).  Stripe does not    *)
(* store a refusal of the API key, but the API key is not changed while    *)
(* requests on a ticket overlap, so they are answered alike.               *)
(***************************************************************************)
EXTENDS Integers, Sequences, FiniteSetsExt

CONSTANTS
    Tickets,     \* refund ids the operator types
    Partial,     \* those that may claw back what is left of the balance
    Calls,       \* requests that can be under way at once
    Received,    \* what the payment brought in
    Amount,      \* what each ticket asks for
    Credits,     \* the workspace's balance
    MaxFaults    \* lost answers and dead requests

VARIABLES
    balance,     \* the workspace's spendable credits
    pin,         \* the amount each ticket locked: its RESERVE row
    hold,        \* how that row ended
    refunds,     \* Stripe's refunds carrying the ticket in their metadata
    key,         \* Stripe's memory of the ticket's idempotency key
    audit,       \* the pending-refund audit row's pointer
    call,        \* what each request is in the middle of
    told,        \* the operator was told the ticket is settled
    faults

vars == <<balance, pin, hold, refunds, key, audit, call, told, faults>>

Status == {"pending", "succeeded", "failed"}
Nothing == [id |-> 0, status |-> "none"]
Refused == [id |-> 0, status |-> "refused"]
Idle == [op |-> "none", ticket |-> "none", pc |-> "idle", seen |-> Nothing]

Places == {"check", "hold", "look", "create", "finish", "release"}
Lesser(a, b) == IF a <= b THEN a ELSE b

Live(t) == \E i \in DOMAIN refunds[t] : refunds[t][i] # "failed"
Paid(t) == \E i \in DOMAIN refunds[t] : refunds[t][i] = "succeeded"

\* What the live refunds of the payment add up to.
Returned ==
    MapThenSumSet(LAMBDA t : pin[t] * Cardinality({i \in DOMAIN refunds[t] : refunds[t][i] # "failed"}),
                  Tickets)

On(p, op, pc) == call[p].op \in op /\ call[p].pc = pc
T(p) == call[p].ticket

UnderWay(ops, t) == \E p \in Calls : call[p].op \in ops /\ call[p].ticket = t

Goes(p, pc) == call' = [call EXCEPT ![p].pc = pc]
Ends(p) == call' = [call EXCEPT ![p] = Idle]
Sees(p, refund, pc) == call' = [call EXCEPT ![p].pc = pc, ![p].seen = refund]

Ledger == <<balance, pin, hold>>
Stripe == <<refunds, key>>

Fault == faults < MaxFaults /\ faults' = faults + 1

-----------------------------------------------------------------------------
\* refundCreditsAction up to the hold.

Begin(p, op, t, pc) ==
    call' = [call EXCEPT ![p] = [op |-> op, ticket |-> t, pc |-> pc, seen |-> Nothing]]

\* Mutant: a hold that is already there goes straight on to Stripe.
RefundUnlooked(p, t) ==
    /\ call[p] = Idle /\ ~UnderWay({"abandon"}, t)
    /\ \/ hold[t] = "none" /\ Begin(p, "refund", t, "check")
       \/ hold[t] = "open" /\ Begin(p, "refund", t, "create")
    /\ UNCHANGED <<Ledger, Stripe, audit, told, faults>>

\* readLedgerState: a settled or released ticket answers at once; an open hold
\* is resumed, and a resumed ticket asks Stripe before it creates anything.
Refund(p, t) ==
    /\ call[p] = Idle /\ ~UnderWay({"abandon"}, t)
    /\ \/ hold[t] = "none" /\ Begin(p, "refund", t, "check")
       \/ hold[t] = "open" /\ Begin(p, "refund", t, "look")
    /\ UNCHANGED <<Ledger, Stripe, audit, told, faults>>

\* The payment still has that much left; if not, nothing was done.
CheckPayment(p) ==
    /\ On(p, {"refund"}, "check")
    /\ IF Amount[T(p)] <= Received - Returned THEN Goes(p, "hold") ELSE Ends(p)
    /\ UNCHANGED <<Ledger, Stripe, audit, told, faults>>

Cost(t) == IF t \in Partial THEN Lesser(Amount[t], balance) ELSE Amount[t]

\* One transaction locks the credits and pins the amount in the row's reason.
\* Whoever comes second meets the unique key and takes the state over.
HoldCredits(p) ==
    /\ On(p, {"refund"}, "hold")
    /\ LET t == T(p) IN
       \/ /\ hold[t] = "none" /\ Cost(t) > 0 /\ Cost(t) <= balance
          /\ balance' = balance - Cost(t)
          /\ pin' = [pin EXCEPT ![t] = Cost(t)]
          /\ hold' = [hold EXCEPT ![t] = "open"]
          /\ Goes(p, "create")
       \/ /\ hold[t] = "none" /\ ~(Cost(t) > 0 /\ Cost(t) <= balance)
          /\ Ends(p) /\ UNCHANGED Ledger
       \/ hold[t] = "open" /\ Goes(p, "look") /\ UNCHANGED Ledger
       \/ hold[t] \in {"settled", "released"} /\ Ends(p) /\ UNCHANGED Ledger
    /\ UNCHANGED <<Stripe, audit, told, faults>>

-----------------------------------------------------------------------------
\* completeManualRefund and abandonManualRefund begin where a hold is open.

Complete(p, t) ==
    /\ call[p] = Idle /\ hold[t] = "open"
    /\ Begin(p, "complete", t, "look")
    /\ UNCHANGED <<Ledger, Stripe, audit, told, faults>>

Abandon(p, t) ==
    /\ call[p] = Idle /\ hold[t] = "open" /\ ~UnderWay({"refund"}, t)
    /\ Begin(p, "abandon", t, "look")
    /\ UNCHANGED <<Ledger, Stripe, audit, told, faults>>

\* findStripeRefund: the refund the audit row names, else the newest one that
\* carries the ticket.
Found(t) ==
    LET i == IF audit[t] # 0 THEN audit[t] ELSE Len(refunds[t])
    IN  IF i = 0 THEN Nothing ELSE [id |-> i, status |-> refunds[t][i]]

\* Mutant: a refund that is only pending may be abandoned.
NextAfterPendingIsNothing(op, refund) ==
    CASE op = "abandon" /\ refund.status \in {"none", "failed", "pending"} -> "release"
      [] op = "refund" /\ refund = Nothing -> "create"
      [] op # "abandon" /\ refund # Nothing -> "finish"
      [] OTHER -> "end"

\* What a look leads to: an abandoned ticket is released only if Stripe has no
\* refund for it or says the refund failed; a resumed one is created only if
\* Stripe has none; a found one is finished by its status.
NextAfter(op, refund) ==
    CASE op = "abandon" /\ refund.status \in {"none", "failed"} -> "release"
      [] op = "refund" /\ refund = Nothing -> "create"
      [] op # "abandon" /\ refund # Nothing -> "finish"
      [] OTHER -> "end"

Look(p) ==
    /\ On(p, {"refund", "complete", "abandon"}, "look")
    /\ LET refund == Found(T(p))
           pc == NextAfter(call[p].op, refund)
       IN  IF pc = "end" THEN Ends(p) ELSE Sees(p, refund, pc)
    /\ UNCHANGED <<Ledger, Stripe, audit, told, faults>>

-----------------------------------------------------------------------------
\* stripe.refunds.create.

\* What Stripe answers: what the ticket's idempotency key remembers, a refusal
\* too; else a refusal, of the request or of the account's API key, or a new
\* refund that does not exceed what the payment has left.
Answers(t) ==
    IF key[t] # Nothing THEN {key[t]}
    ELSE {Refused} \cup
         {[id |-> Len(refunds[t]) + 1, status |-> status] :
             status \in {s \in Status : Returned + pin[t] <= Received}}

StripeAnswers(t, answer) ==
    /\ answer \in Answers(t)
    /\ key' = [key EXCEPT ![t] = answer]
    /\ refunds' = IF key[t] = Nothing /\ answer # Refused
                  THEN [refunds EXCEPT ![t] = Append(@, answer.status)] ELSE refunds

Create(p) ==
    /\ On(p, {"refund"}, "create")
    /\ \E answer \in Answers(T(p)) \ {Refused} :
          /\ StripeAnswers(T(p), answer)
          /\ Sees(p, answer, "finish")
    /\ UNCHANGED <<Ledger, audit, told, faults>>

\* The request is carried out and its answer lost: the hold stays.
CreateUnclear(p) ==
    /\ On(p, {"refund"}, "create")
    /\ Fault
    /\ \E answer \in Answers(T(p)) : StripeAnswers(T(p), answer)
    /\ Ends(p)
    /\ UNCHANGED <<Ledger, audit, told>>

\* stripeDefinitelyRefused.
CreateRefused(p) ==
    /\ On(p, {"refund"}, "create")
    /\ StripeAnswers(T(p), Refused)
    /\ Goes(p, "release")
    /\ UNCHANGED <<Ledger, audit, told, faults>>

-----------------------------------------------------------------------------
\* finishRefund, and the release of a ticket.

Close(t, end) == hold' = [hold EXCEPT ![t] = IF @ = "open" THEN end ELSE @]

\* Mutant: pending is as good as succeeded.
SettlesAccepted(status) == status \in {"pending", "succeeded"}

Settles(status) == status = "succeeded"

\* Mutant: a settlement that fails is swallowed.
FinishSwallows(p) ==
    /\ On(p, {"refund", "complete"}, "finish") /\ Settles(call[p].seen.status)
    /\ Close(T(p), "settled") \/ UNCHANGED hold
    /\ told' = [told EXCEPT ![T(p)] = TRUE]
    /\ Ends(p)
    /\ UNCHANGED <<balance, pin, Stripe, audit, faults>>

\* The settlement is a no-op on a closed hold, and the operator is told either
\* way.
FinishSettled(p) ==
    /\ On(p, {"refund", "complete"}, "finish") /\ Settles(call[p].seen.status)
    /\ Close(T(p), "settled")
    /\ told' = [told EXCEPT ![T(p)] = TRUE]
    /\ Ends(p)
    /\ UNCHANGED <<balance, pin, Stripe, audit, faults>>

\* The audit row is best effort.
FinishPending(p) ==
    /\ On(p, {"refund", "complete"}, "finish")
    /\ call[p].seen.status = "pending" /\ ~Settles("pending")
    /\ \/ audit' = [audit EXCEPT ![T(p)] = call[p].seen.id] /\ UNCHANGED faults
       \/ Fault /\ UNCHANGED audit
    /\ Ends(p)
    /\ UNCHANGED <<Ledger, Stripe, told>>

\* refundReservation: a failed refund, a refusal, or an abandoned ticket.
Release(p) ==
    /\ \/ On(p, {"refund", "complete"}, "finish") /\ call[p].seen.status = "failed"
       \/ On(p, {"refund", "abandon"}, "release")
    /\ Close(T(p), "released")
    /\ balance' = IF hold[T(p)] = "open" THEN balance + pin[T(p)] ELSE balance
    /\ Ends(p)
    /\ UNCHANGED <<pin, Stripe, audit, told, faults>>

\* The request dies, or a read or a write of it fails, at any point.
Dies(p) ==
    /\ call[p] # Idle
    /\ Fault
    /\ Ends(p)
    /\ UNCHANGED <<Ledger, Stripe, audit, told>>

-----------------------------------------------------------------------------
\* Stripe in its own time.

RefundEnds(t, i) ==
    /\ i \in DOMAIN refunds[t] /\ refunds[t][i] = "pending"
    /\ \E status \in {"succeeded", "failed"} : refunds' = [refunds EXCEPT ![t][i] = status]
    /\ UNCHANGED <<Ledger, key, audit, call, told, faults>>

KeyExpires(t) ==
    /\ key[t] # Nothing
    /\ ~UnderWay({"refund"}, t)
    /\ key' = [key EXCEPT ![t] = Nothing]
    /\ UNCHANGED <<Ledger, refunds, audit, call, told, faults>>

Init ==
    /\ balance = Credits
    /\ pin = [t \in Tickets |-> 0]
    /\ hold = [t \in Tickets |-> "none"]
    /\ refunds = [t \in Tickets |-> <<>>]
    /\ key = [t \in Tickets |-> Nothing]
    /\ audit = [t \in Tickets |-> 0]
    /\ call = [p \in Calls |-> Idle]
    /\ told = [t \in Tickets |-> FALSE]
    /\ faults = 0

Operator(p) ==
    \/ \E t \in Tickets : Refund(p, t) \/ Complete(p, t) \/ Abandon(p, t)
    \/ CheckPayment(p) \/ HoldCredits(p) \/ Look(p)
    \/ Create(p) \/ CreateUnclear(p) \/ CreateRefused(p)
    \/ FinishSettled(p) \/ FinishPending(p) \/ Release(p) \/ Dies(p)

Next ==
    \/ \E p \in Calls : Operator(p)
    \/ \E t \in Tickets : KeyExpires(t) \/ \E i \in DOMAIN refunds[t] : RefundEnds(t, i)

Spec == Init /\ [][Next]_vars

-----------------------------------------------------------------------------
\* Properties.

\* One ticket, one refund at Stripe, though its answers get lost and its key
\* expires between two attempts.
OneRefund == \A t \in Tickets : Len(refunds[t]) <= 1

\* The money and the credits never both go, and never both stay: a released
\* ticket has no refund on its way, a refund on its way has its credits locked
\* or charged.
NeverBoth == \A t \in Tickets : Live(t) => hold[t] \in {"open", "settled"}

\* Charged credits were paid out at Stripe.
ChargedIsPaid == \A t \in Tickets : hold[t] = "settled" => Paid(t)

\* An operator who reads that a ticket is settled finds it settled.
TellsTruth == \A t \in Tickets : told[t] => hold[t] = "settled"
=============================================================================
