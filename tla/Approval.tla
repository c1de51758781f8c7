------------------------------ MODULE Approval ------------------------------
(***************************************************************************)
(* One approval card of Otto: a consent that may be spent once.            *)
(*                                                                         *)
(* A click holds credits under the first attempt the ledger has not        *)
(* finished, then claims the card, then lets the approved tool and the     *)
(* model run, and settles or refunds (withLlmBudget around ottoApprove).   *)
(* Clicks race, a server dies between any two of these steps, and an hour  *)
(* later the reaper refunds what is left open and retires cards whose run  *)
(* never ended, on three different kinds of evidence.                      *)
(***************************************************************************)
EXTENDS Naturals, FiniteSets

CONSTANTS
    Requests,      \* clicks on Approve that may be under way at once
    MaxAttempts,   \* bound: attempts of the card the ledger hears of
    MaxClicks,     \* bound: clicks in one behaviour
    Faults,        \* the kinds of fault a run considers
    MaxFaults      \* bound: faults in one behaviour

FaultKinds ==
    {"crash",   \* the web server or the worker dies
     "blip",    \* a database statement rejects, whether or not it took
     "slow"}    \* a click is still running when its hold is an hour old

ASSUME ShapeAssumption ==
    /\ MaxAttempts \in Nat \ {0} /\ MaxClicks \in Nat /\ MaxFaults \in Nat
    /\ Faults \subseteq FaultKinds

Attempts == 1..MaxAttempts

VARIABLES
    card,      \* payload.status
    mark,      \* payload.attempt, where the search for an attempt starts
    approved,  \* payload.approvedAt: absent, recent or an hour old
    verdict,   \* payload.chargeVerdict
    hold,      \* the ledger rows of each attempt: stale is an open RESERVE of an
               \* hour ago, reaped a REFUND with the reaper's reason
    tool,      \* how often the approved tool has run
    toolHeld,  \* it has held credits of its own
    told,      \* what the thread says of the run
    saidFree,  \* it was said that nothing was charged
    talked,    \* somebody else wrote in the thread since the claim: the merchant,
               \* or a note to a click that came to nothing
    req,       \* what each click is doing
    sweep,     \* what the reaper is doing
    used       \* clicks and faults so far

paper == <<card, mark, approved, verdict>>
thread == <<told, saidFree, talked>>
acts == <<tool, toolHeld>>
vars == <<paper, hold, acts, thread, req, sweep, used>>

Places == {"idle", "choose", "reserve", "claim", "lose", "retry", "tool", "model",
           "settle", "refund", "degrade", "dead", "finish"}
Idle == [pc |-> "idle", n |-> 0, end |-> "none"]
NoSweep == [pc |-> "idle", todo |-> {}]

-----------------------------------------------------------------------------
\* Building blocks.

At(r, pc) == req[r].pc = pc
Goes(r, pc) == req' = [req EXCEPT ![r].pc = pc]
\* The run is over for the meter: it settles or refunds on its way to the end.
Ends(r, pc, end) == req' = [req EXCEPT ![r].pc = pc, ![r].end = end]
Leaves(r) == req' = [req EXCEPT ![r] = Idle]

Count(k) == used' = [used EXCEPT ![k] = @ + 1]
FaultsLeft == Cardinality({g \in Faults \X (1..MaxFaults) : g[2] <= used[g[1]]}) < MaxFaults
Fault(f) == f \in Faults /\ FaultsLeft /\ Count(f)

Finalized(n) == hold[n] \in {"settled", "refunded", "reaped"}
Working(n) == \E r \in Requests : req[r].n = n
Open(n) == hold[n] \in {"open", "stale"}

\* refundReservation and settleCredits: the first finalizer stands.
Finalize(n, as) == hold' = IF Open(n) THEN [hold EXCEPT ![n] = as] ELSE hold

\* chargedNothingProven and otherHoldsSince look for another hold since this one.
NoOtherHold(n) == ~toolHeld /\ \A m \in Attempts : m > n => hold[m] = "none"

\* A click that came to nothing says so in the thread, best effort.
Noted == talked' \in {talked, approved # "no"}

-----------------------------------------------------------------------------
\* A click.

\* The card is read.
Click(r) ==
    /\ At(r, "idle")
    /\ used["click"] < MaxClicks
    /\ card = "pending"
    /\ Count("click")
    /\ Goes(r, "choose")
    /\ UNCHANGED <<paper, hold, acts, thread, sweep>>

\* chooseApproveAttempt: the first attempt without a finalizer; or the ask has
\* expired.
Choose(r) ==
    /\ At(r, "choose")
    /\ \/ \E n \in mark..MaxAttempts :
             /\ req' = [req EXCEPT ![r].pc = "reserve", ![r].n = n]
             /\ \/ ~Finalized(n) /\ (\A m \in mark..(n - 1) : Finalized(m)) /\ UNCHANGED used
                \/ n = mark /\ Fault("blip")
          /\ UNCHANGED card
       \/ /\ card' = IF card = "pending" THEN "expired" ELSE card
          /\ Leaves(r)
          /\ UNCHANGED used
    /\ UNCHANGED <<mark, approved, verdict, hold, acts, thread, sweep>>

\* The hold comes first.  A reference that was held before, a cap or a balance
\* answers the click.
Reserve(r) ==
    /\ At(r, "reserve")
    /\ LET n == req[r].n
       IN  \/ hold[n] = "none" /\ hold' = [hold EXCEPT ![n] = "open"] /\ Goes(r, "claim")
              /\ UNCHANGED talked
           \/ UNCHANGED hold /\ Leaves(r) /\ Noted
    /\ UNCHANGED <<paper, acts, told, saidFree, sweep, used>>

\* Mutant: the card is stamped without asking whether it is still pending.
ClaimAnyway(r) ==
    /\ At(r, "claim")
    /\ card' = "approved" /\ approved' = "recent" /\ talked' \in BOOLEAN
    /\ Goes(r, "tool")
    /\ UNCHANGED <<mark, verdict, hold, acts, told, saidFree, sweep, used>>

\* claimApprovalCard spends the consent; if its write rejects it may still
\* have taken.  A message of the last minutes counts as one since the claim.
Claim(r) ==
    /\ At(r, "claim")
    /\ \/ /\ card = "pending"
          /\ card' = "approved" /\ approved' = "recent" /\ talked' \in BOOLEAN
          /\ \/ Goes(r, "tool") /\ UNCHANGED used
             \/ Goes(r, "lose") /\ Fault("blip")
       \/ /\ UNCHANGED <<card, approved, talked>>
          /\ Goes(r, "lose")
          /\ \/ card # "pending" /\ UNCHANGED used
             \/ Fault("blip")
    /\ UNCHANGED <<mark, verdict, hold, acts, told, saidFree, sweep>>

\* Not claimed: the whole hold goes back and nothing runs.
Lose(r) ==
    /\ At(r, "lose")
    /\ Finalize(req[r].n, "refunded")
    /\ Goes(r, "retry")
    /\ UNCHANGED <<paper, acts, thread, sweep, used>>

\* retireApprovalAttempt, best effort.
Retry(r) ==
    /\ At(r, "retry")
    /\ \/ /\ mark' = IF card = "pending" /\ req[r].n < MaxAttempts THEN req[r].n + 1 ELSE mark
          /\ UNCHANGED used
       \/ UNCHANGED mark /\ Fault("blip")
    /\ Leaves(r)
    /\ UNCHANGED <<card, approved, verdict, hold, acts, thread, sweep>>

-----------------------------------------------------------------------------
\* The run, and how it ends.

\* The approved tool goes first, under its own hold if it is a paid one.
Tool(r) ==
    /\ At(r, "tool")
    /\ \/ tool' = tool + 1 /\ toolHeld' \in {toolHeld, TRUE} /\ Goes(r, "model")
       \/ Ends(r, "refund", "dead") /\ UNCHANGED acts
    /\ UNCHANGED <<paper, hold, thread, sweep, used>>

\* The model answers, runs out of turns with or without usage, or fails.
Model(r) ==
    /\ At(r, "model")
    /\ \/ \E end \in {"finish", "degrade"} : Ends(r, "settle", end)
       \/ \E end \in {"dead", "degrade"} : Ends(r, "refund", end)
    /\ UNCHANGED <<paper, hold, acts, thread, sweep, used>>

Settle(r) ==
    /\ At(r, "settle")
    /\ Finalize(req[r].n, "settled")
    /\ Goes(r, req[r].end)
    /\ UNCHANGED <<paper, acts, thread, sweep, used>>

Refund(r) ==
    /\ At(r, "refund")
    /\ Finalize(req[r].n, "refunded")
    /\ Goes(r, req[r].end)
    /\ UNCHANGED <<paper, acts, thread, sweep, used>>

\* Out of turns: the thread is told, and told that it was free only on proof.
Degrade(r) ==
    /\ At(r, "degrade")
    /\ told' = "note"
    /\ LET n == req[r].n
       IN  saidFree' \in {saidFree, saidFree \/ (hold[n] \in {"refunded", "reaped"} /\ NoOtherHold(n))}
    /\ Leaves(r)
    /\ UNCHANGED <<paper, hold, acts, talked, sweep, used>>

\* Mutant: a refunded turn is taken for a free action.
DeadUnproven(r) ==
    /\ At(r, "dead")
    /\ IF card = "approved" THEN card' = "failed" /\ verdict' = "zero"
                            ELSE UNCHANGED <<card, verdict>>
    /\ told' = "note"
    /\ Leaves(r)
    /\ UNCHANGED <<mark, approved, hold, acts, saidFree, talked, sweep, used>>

\* The consent is spent and the run died: markApprovalFailed, a note and the
\* answer to the click say so, the first two best effort.
Dead(r) ==
    /\ At(r, "dead")
    /\ \E v \in {"unknown"} \cup (IF NoOtherHold(req[r].n) THEN {"zero"} ELSE {}),
          marked, noted \in BOOLEAN :
          /\ IF marked /\ card = "approved" THEN card' = "failed" /\ verdict' = v
                                            ELSE UNCHANGED <<card, verdict>>
          /\ told' = IF noted THEN "note" ELSE told
          /\ saidFree' = (saidFree \/ v = "zero")
          /\ IF marked /\ noted THEN UNCHANGED used ELSE Fault("blip")
    /\ Leaves(r)
    /\ UNCHANGED <<mark, approved, hold, acts, talked, sweep>>

\* The reply, or the note that another turn moved the thread first.
Finish(r) ==
    /\ At(r, "finish")
    /\ told' = "reply"
    /\ Leaves(r)
    /\ UNCHANGED <<paper, hold, acts, saidFree, talked, sweep, used>>

\* A statement of the way out rejects: the outer catch leaves a note, best
\* effort, and what was to be written stays unwritten.
Throws(r) ==
    /\ Fault("blip")
    /\ \/ At(r, "lose") /\ Noted /\ UNCHANGED told
       \/ /\ req[r].pc \in {"settle", "refund", "degrade", "finish"}
          /\ told' \in {told, "note"}
          /\ UNCHANGED talked
    /\ Leaves(r)
    /\ UNCHANGED <<paper, hold, acts, saidFree, sweep>>

\* The server dies: the click is over and nothing more is written.
Dies(r) ==
    /\ ~At(r, "idle")
    /\ Fault("crash")
    /\ Leaves(r)
    /\ UNCHANGED <<paper, hold, acts, thread, sweep>>

-----------------------------------------------------------------------------
\* The same card from elsewhere.

\* ottoReject; or the post is approved on its own screen, which settles the
\* card without a run.
Decide ==
    /\ card = "pending"
    /\ card' \in {"rejected", "approved"}
    /\ UNCHANGED <<mark, approved, verdict, hold, acts, thread, req, sweep, used>>

Talk ==
    /\ approved # "no" /\ ~talked
    /\ talked' = TRUE
    /\ UNCHANGED <<paper, hold, acts, told, saidFree, req, sweep, used>>

-----------------------------------------------------------------------------
\* An hour later.

HoldAges(n) ==
    /\ hold[n] = "open"
    /\ hold' = [hold EXCEPT ![n] = "stale"]
    /\ \/ ~Working(n) /\ UNCHANGED used
       \/ Working(n) /\ Fault("slow")
    /\ UNCHANGED <<paper, acts, thread, req, sweep>>

ClaimAges ==
    /\ approved = "recent"
    /\ approved' = "old"
    /\ \/ (\A r \in Requests : At(r, "idle")) /\ UNCHANGED used
       \/ (\E r \in Requests : ~At(r, "idle")) /\ Fault("slow")
    /\ UNCHANGED <<card, mark, verdict, hold, acts, thread, req, sweep>>

\* retireApprovalCard.
RetireCard ==
    IF card = "approved" THEN card' = "failed" /\ verdict' = "unknown"
                         ELSE UNCHANGED <<card, verdict>>

\* Mutant: only the holds of claimed cards are looked at.
SweepClaimed ==
    /\ sweep.pc = "idle"
    /\ sweep' = [pc |-> "holds",
                 todo |-> {n \in Attempts : hold[n] = "stale" /\ card = "approved"}]
    /\ UNCHANGED <<paper, hold, acts, thread, req, used>>

\* Pass 1 reads the open holds of an hour ago ...
SweepHolds ==
    /\ sweep.pc = "idle"
    /\ sweep' = [pc |-> "holds", todo |-> {n \in Attempts : hold[n] = "stale"}]
    /\ UNCHANGED <<paper, hold, acts, thread, req, used>>

\* Mutant: the card follows, whoever finalized the hold.
SweepHoldRegardless ==
    /\ sweep.pc = "holds"
    /\ \E n \in sweep.todo :
          /\ Finalize(n, "reaped")
          /\ sweep' = [pc |-> "retire", todo |-> sweep.todo \ {n}]
    /\ UNCHANGED <<paper, acts, thread, req, used>>

\* ... refunds each ...
SweepHold ==
    /\ sweep.pc = "holds"
    /\ \E n \in sweep.todo :
          /\ Finalize(n, "reaped")
          /\ sweep' = [pc |-> IF Open(n) THEN "retire" ELSE "holds",
                       todo |-> sweep.todo \ {n}]
    /\ UNCHANGED <<paper, acts, thread, req, used>>

\* ... and, if the refund was its own, retires the card, best effort.
SweepRetire ==
    /\ sweep.pc = "retire"
    /\ sweep' = [sweep EXCEPT !.pc = "holds"]
    /\ \/ RetireCard /\ UNCHANGED used
       \/ UNCHANGED <<card, verdict>> /\ Fault("blip")
    /\ UNCHANGED <<mark, approved, hold, acts, thread, req>>

\* Mutant: no second pass.
SweepOrphanNever ==
    /\ sweep.pc = "holds" /\ sweep.todo = {}
    /\ sweep' = [sweep EXCEPT !.pc = "cards"]
    /\ UNCHANGED <<paper, hold, acts, thread, req, used>>

\* Pass 2: a refund of the reaper's, of any attempt, over an approved card.
SweepOrphan ==
    /\ sweep.pc = "holds" /\ sweep.todo = {}
    /\ sweep' = [sweep EXCEPT !.pc = "cards"]
    /\ \/ /\ IF \E n \in Attempts : hold[n] = "reaped" THEN RetireCard ELSE UNCHANGED <<card, verdict>>
          /\ UNCHANGED used
       \/ UNCHANGED <<card, verdict>> /\ Fault("blip")
    /\ UNCHANGED <<mark, approved, hold, acts, thread, req>>

\* Pass 3 finds that an hour after the claim the thread has not moved ...
SweepThread ==
    /\ sweep.pc = "cards"
    /\ sweep' = IF approved = "old" /\ told = "nothing" /\ ~talked
                THEN [sweep EXCEPT !.pc = "card"] ELSE NoSweep
    /\ UNCHANGED <<paper, hold, acts, thread, req, used>>

\* ... and retires the card, best effort, whatever the thread says by then.
SweepCard ==
    /\ sweep.pc = "card"
    /\ sweep' = NoSweep
    /\ \/ RetireCard /\ UNCHANGED used
       \/ UNCHANGED <<card, verdict>> /\ Fault("blip")
    /\ UNCHANGED <<mark, approved, hold, acts, thread, req>>

\* The tick fails or the worker dies; the next one starts over.
SweepDies ==
    /\ sweep.pc # "idle"
    /\ Fault("crash") \/ Fault("blip")
    /\ sweep' = NoSweep
    /\ UNCHANGED <<paper, hold, acts, thread, req>>

-----------------------------------------------------------------------------
Init ==
    /\ card = "pending" /\ mark = 1 /\ approved = "no" /\ verdict = "none"
    /\ hold = [n \in Attempts |-> "none"]
    /\ tool = 0 /\ toolHeld = FALSE
    /\ told = "nothing" /\ saidFree = FALSE /\ talked = FALSE
    /\ req = [r \in Requests |-> Idle]
    /\ sweep = NoSweep
    /\ used = [k \in FaultKinds \cup {"click"} |-> 0]

Step(r) ==
    \/ Choose(r) \/ Reserve(r) \/ Claim(r) \/ Lose(r) \/ Retry(r)
    \/ Tool(r) \/ Model(r) \/ Settle(r) \/ Refund(r)
    \/ Degrade(r) \/ Dead(r) \/ Finish(r)

Sweep == SweepHolds \/ SweepHold \/ SweepRetire \/ SweepOrphan \/ SweepThread \/ SweepCard
Hour == ClaimAges \/ \E n \in Attempts : HoldAges(n)

Next ==
    \/ \E r \in Requests : Click(r) \/ Step(r) \/ Throws(r) \/ Dies(r)
    \/ Decide \/ Talk
    \/ Hour \/ Sweep \/ SweepDies

Spec == Init /\ [][Next]_vars

\* A click that does not die goes on, time passes, the reaper runs.
FairSpec ==
    /\ Spec
    /\ \A r \in Requests : WF_vars(Step(r))
    /\ WF_vars(ClaimAges) /\ \A n \in Attempts : WF_vars(HoldAges(n))
    /\ WF_vars(Sweep)

-----------------------------------------------------------------------------
\* Properties.

TypeOK ==
    /\ card \in {"pending", "approved", "failed", "expired", "rejected"}
    /\ mark \in Attempts
    /\ approved \in {"no", "recent", "old"}
    /\ verdict \in {"none", "zero", "unknown"}
    /\ hold \in [Attempts -> {"none", "open", "stale", "settled", "refunded", "reaped"}]
    /\ tool \in Nat /\ toolHeld \in BOOLEAN
    /\ told \in {"nothing", "note", "reply"}
    /\ saidFree \in BOOLEAN /\ talked \in BOOLEAN
    /\ req \in [Requests -> [pc : Places, n : 0..MaxAttempts,
                             end : {"none", "finish", "degrade", "dead"}]]
    /\ sweep \in [pc : {"idle", "holds", "retire", "cards", "card"}, todo : SUBSET Attempts]
    /\ used \in [FaultKinds \cup {"click"} -> Nat]

\* What the merchant approved runs once, however often and from wherever the
\* button is pressed, and only for a card that said yes.
RunsOnce == tool <= 1 /\ (tool = 1 => card \in {"approved", "failed"})

\* Told that nothing was charged, on the card or in the thread, the merchant
\* finds no charge: neither for a turn nor for the tool that ran before it.
FreeMeansFree ==
    verdict = "zero" \/ saidFree => ~toolHeld /\ \A n \in Attempts : hold[n] # "settled"

\* A run that was charged and answered keeps its card, but for two ways to lose
\* it: an earlier attempt at the same card leaked, or the run was still at work
\* an hour after its claim and answered between the third pass's look at the
\* thread and its write.
PaidRunStands ==
    [][card = "approved" /\ card' = "failed" /\ told = "reply" /\ (\E n \in Attempts : hold[n] = "settled")
       => \/ \E n \in Attempts : hold[n] = "reaped"
          \/ sweep.pc = "card" /\ used["slow"] > 0]_vars

\* No hold stays open, whatever died.
HoldsClose == \A n \in Attempts : Open(n) ~> ~Open(n)

\* A card does not go on reading approved over a run that never ended: it ends
\* up failed, or the thread says what happened, or the run was charged for.
\* A merchant who goes on talking may hide a run whose hold went back, as the
\* third pass accepts, but not one whose hold the reaper had to refund.
StrandedIsTold ==
    card = "approved" /\ approved # "no" ~>
        \/ card # "approved" \/ told # "nothing"
        \/ \E n \in Attempts : hold[n] = "settled"
        \/ talked /\ \A n \in Attempts : hold[n] # "reaped"

\* A run that was charged and answered keeps its card.
SuccessStands ==
    [][told = "reply" /\ (\E n \in Attempts : hold[n] = "settled") => ~(card = "approved" /\ card' = "failed")]_vars
=============================================================================
