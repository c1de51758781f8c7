------------------------------ MODULE Research ------------------------------
(***************************************************************************)
(* One deep-research card, from the merchant's approval to its end:        *)
(* approveResearch opens the job and sends its message, handleResearch     *)
(* holds the credits, runs the agent and delivers the report in the same   *)
(* transaction that charges for it, and two sweeps tidy up after an hour:  *)
(* one the job and its card (reapStaleResearchJobs), the other the hold    *)
(* (reapStaleLlmReservations).                                             *)
(*                                                                         *)
(* The queue delivers the message at most once (retryLimit 0).  Every      *)
(* action is one database statement or transaction, one call to the queue, *)
(* or the agent's run.  Faults, each as often as MaxFaults says:           *)
(*   crash  a server or worker process dies between two steps;             *)
(*   blip   a statement is refused and throws;                             *)
(*   lost   the work is done but its answer is lost, and the caller throws.*)
(***************************************************************************)
EXTENDS Naturals

CONSTANTS
    Clicks,        \* requests that press Approve on the card
    MaxFaults      \* faults of each kind

ASSUME FaultsAreCounted == MaxFaults \in Nat

VARIABLES
    card,          \* the RESEARCH_CARD message's payload.status
    job,           \* ResearchJob.status
    jobOld,        \* the job row was last written an hour ago
    report,        \* the thread holds the RESEARCH_REPORT
    hold,          \* the reservation research:<cardId>
    holdOld,       \* it was made an hour ago
    truncated,     \* the agent used up its steps without a report
    message,       \* the queue's message for the job
    click,         \* where each approval is
    worker,        \* where the handler is
    reaper,        \* where the job sweep is
    stranded,      \* it stopped with the job failed and the card not yet written
    faults         \* faults so far, by kind

vars == <<card, job, jobOld, report, hold, holdOld, truncated, message, click,
          worker, reaper, stranded, faults>>

Kinds == {"crash", "blip", "lost"}

TypeOK ==
    /\ card \in {"planned", "running", "done", "failed"}
    /\ job \in {"none", "queued", "running", "done", "failed"}
    /\ hold \in {"none", "open", "settled", "refunded"}
    /\ message \in {"none", "ready", "active", "gone"}
    /\ click \in [Clicks -> {"idle", "opening", "sending", "tracking", "failing", "over"}]
    /\ worker \in {"idle", "claim", "reserve", "run", "deliver", "truncate",
                   "giveBack", "yield", "failCard", "failJob"}
    /\ reaper \in {"idle", "running", "queued", "card"}
    /\ <<jobOld, report, holdOld, truncated>> \in BOOLEAN \X BOOLEAN \X BOOLEAN \X BOOLEAN
    /\ stranded \in BOOLEAN
    /\ faults \in [Kinds -> 0..MaxFaults]

Fault(kind) ==
    /\ faults[kind] < MaxFaults
    /\ faults' = [faults EXCEPT ![kind] = @ + 1]

NoFault == UNCHANGED faults

\* An approval goes on, and everything but the parts it names stays put.
ClickGoes(c, place) == click' = [click EXCEPT ![c] = place]
RunStands == UNCHANGED <<hold, holdOld, report, truncated>>

-----------------------------------------------------------------------------
\* approveResearch.

\* The card read planned and the balance covered the estimate.
Approve(c) ==
    /\ click[c] = "idle" /\ card = "planned"
    /\ ClickGoes(c, "opening")
    /\ UNCHANGED <<card, job, jobOld, message, worker, reaper, stranded, faults>> /\ RunStands

\* Under the thread's lock the card is read again; the job is created and the
\* card set running in one transaction.
Open(c) ==
    /\ click[c] = "opening"
    /\ IF card = "planned"
       THEN job' = "queued" /\ card' = "running" /\ ClickGoes(c, "sending")
       ELSE UNCHANGED <<job, card>> /\ ClickGoes(c, "over")
    /\ UNCHANGED <<jobOld, message, worker, reaper, stranded, faults>> /\ RunStands

Send(c) ==
    /\ click[c] = "sending"
    /\ message' = "ready"
    /\ ClickGoes(c, "tracking")
    /\ UNCHANGED <<card, job, jobOld, worker, reaper, stranded, faults>> /\ RunStands

\* The queue answers with an error, with or without the message accepted.
SendThrows(c) ==
    /\ click[c] = "sending"
    /\ \/ Fault("blip") /\ UNCHANGED message
       \/ Fault("lost") /\ message' = "ready"
    /\ ClickGoes(c, "failing")
    /\ UNCHANGED <<card, job, jobOld, worker, reaper, stranded>> /\ RunStands

\* queueJobId is written, best effort: all that matters is the row's new time.
Track(c) ==
    /\ click[c] = "tracking"
    /\ jobOld' = (jobOld /\ job = "queued")
    /\ ClickGoes(c, "over")
    /\ UNCHANGED <<card, job, message, worker, reaper, stranded, faults>> /\ RunStands

\* failQueuedResearch asks nothing of the job it fails.
FailQueued(c) ==
    /\ click[c] = "failing"
    /\ job' = "failed" /\ card' = "failed"
    /\ ClickGoes(c, "over")
    /\ UNCHANGED <<jobOld, message, worker, reaper, stranded, faults>> /\ RunStands

ClickDies(c) ==
    /\ click[c] \notin {"idle", "over"}
    /\ Fault("crash")
    /\ ClickGoes(c, "over")
    /\ UNCHANGED <<card, job, jobOld, message, worker, reaper, stranded>> /\ RunStands

-----------------------------------------------------------------------------
\* handleResearch, withLlmBudget and deliverResearch.

Take ==
    /\ message = "ready"
    /\ message' = "active" /\ worker' = "claim"
    /\ UNCHANGED <<card, job, jobOld, click, reaper, stranded, faults>> /\ RunStands

\* The handler goes on; its message is gone with its last step.
WorkerGoes(place) ==
    /\ worker' = place
    /\ message' = IF place = "idle" THEN "gone" ELSE message

ClaimRow ==
    /\ worker = "claim"
    /\ IF job = "queued"
       THEN job' = "running" /\ jobOld' = FALSE /\ WorkerGoes("reserve")
       ELSE UNCHANGED <<job, jobOld>> /\ WorkerGoes("idle")
    /\ UNCHANGED <<card, click, reaper, stranded, faults>> /\ RunStands

\* The whole tier's worst case is held before the agent runs; a refusal leads
\* to failResearch.
Reserve ==
    /\ worker = "reserve"
    /\ \/ hold = "none" /\ hold' = "open" /\ WorkerGoes("run") /\ NoFault
       \/ UNCHANGED hold /\ WorkerGoes("failCard") /\ NoFault
       \/ hold = "none" /\ hold' = "open" /\ WorkerGoes("failCard") /\ Fault("lost")
    /\ UNCHANGED <<card, job, jobOld, holdOld, report, truncated, click, reaper, stranded>>

\* The agent writes its report, uses up its steps, or fails.
Run ==
    /\ worker = "run"
    /\ \E place \in {"deliver", "truncate", "giveBack"} : WorkerGoes(place)
    /\ UNCHANGED <<card, job, jobOld, click, reaper, stranded, faults>> /\ RunStands

\* Mutant: the settlement believes itself although a refund came first.
DeliverUnread ==
    /\ worker = "deliver"
    /\ hold # "none" /\ job = "running"
    /\ hold' = (IF hold = "open" THEN "settled" ELSE hold)
    /\ job' = "done" /\ report' = TRUE /\ card' = "done"
    /\ WorkerGoes("idle")
    /\ UNCHANGED <<jobOld, holdOld, truncated, click, reaper, stranded, faults>>

\* Charge, DONE, report and card in one transaction, and only while the hold
\* is not refunded and the job is still running.
Delivered ==
    /\ hold = "open" /\ job = "running"
    /\ hold' = "settled" /\ job' = "done" /\ report' = TRUE /\ card' = "done"

\* SettleLostToRefund or a refused statement ("giveBack"), ResearchDeliveryLost
\* ("yield"), or a commit whose answer is lost.
Deliver ==
    /\ worker = "deliver"
    /\ \/ Delivered /\ WorkerGoes("idle") /\ NoFault
       \/ Delivered /\ WorkerGoes("giveBack") /\ Fault("lost")
       \/ /\ UNCHANGED <<hold, job, report, card>>
          /\ \/ hold = "refunded" /\ WorkerGoes("giveBack") /\ NoFault
             \/ hold = "open" /\ job # "running" /\ WorkerGoes("yield") /\ NoFault
             \/ WorkerGoes("giveBack") /\ Fault("blip")
    /\ UNCHANGED <<jobOld, holdOld, truncated, click, reaper, stranded>>

\* usageOnError: a run that used up its steps is charged without a report.
Truncate ==
    /\ worker = "truncate"
    /\ WorkerGoes("failCard")
    /\ \/ /\ hold' = IF hold = "open" THEN "settled" ELSE hold
          /\ truncated' = (hold = "open")
          /\ NoFault
       \/ UNCHANGED <<hold, truncated>> /\ Fault("blip")
    /\ UNCHANGED <<card, job, jobOld, holdOld, report, click, reaper, stranded>>

\* refundReservation is a no-op on a hold that is already closed.  Refused, it
\* throws in place of whatever led here.
GiveBack ==
    /\ worker \in {"giveBack", "yield"}
    /\ \/ /\ hold' = IF hold = "open" THEN "refunded" ELSE hold
          /\ WorkerGoes(IF worker = "yield" THEN "idle" ELSE "failCard")
          /\ NoFault
       \/ UNCHANGED hold /\ WorkerGoes("failCard") /\ Fault("blip")
    /\ UNCHANGED <<card, job, jobOld, holdOld, report, truncated, click, reaper, stranded>>

\* failResearch: the card, then the job, whatever they say now.
FailCard ==
    /\ worker = "failCard"
    /\ card' = "failed"
    /\ WorkerGoes("failJob")
    /\ UNCHANGED <<job, jobOld, click, reaper, stranded, faults>> /\ RunStands

FailJob ==
    /\ worker = "failJob"
    /\ job' = "failed"
    /\ WorkerGoes("idle")
    /\ UNCHANGED <<card, jobOld, click, reaper, stranded, faults>> /\ RunStands

\* The process dies, or a statement outside withLlmBudget throws: the queue
\* does not deliver the message again.
WorkerStops ==
    /\ worker # "idle"
    /\ Fault("crash") \/ (worker \in {"claim", "failCard", "failJob"} /\ Fault("blip"))
    /\ WorkerGoes("idle")
    /\ UNCHANGED <<card, job, jobOld, click, reaper, stranded>> /\ RunStands

-----------------------------------------------------------------------------
\* Time and the two sweeps.

JobAges ==
    /\ job \in {"queued", "running"} /\ ~jobOld
    /\ jobOld' = TRUE
    /\ UNCHANGED <<card, job, message, click, worker, reaper, stranded, faults>> /\ RunStands

HoldAges ==
    /\ hold = "open" /\ ~holdOld
    /\ holdOld' = TRUE
    /\ UNCHANGED <<card, job, jobOld, report, hold, truncated, message, click,
                   worker, reaper, stranded, faults>>

\* A running row an hour old, or a queued one whose message is not live.
ReapRead ==
    /\ reaper = "idle" /\ jobOld
    /\ job = "running" \/ (job = "queued" /\ message \notin {"ready", "active"})
    /\ reaper' = job
    /\ UNCHANGED <<card, job, jobOld, message, click, worker, stranded, faults>> /\ RunStands

\* Mutant: the job's row is all the sweep writes.
ReapJobOnly ==
    /\ reaper \in {"running", "queued"}
    /\ job' = IF job = reaper /\ jobOld THEN "failed" ELSE job
    /\ reaper' = "idle"
    /\ UNCHANGED <<card, jobOld, message, click, worker, stranded, faults>> /\ RunStands

ReapJob ==
    /\ reaper \in {"running", "queued"}
    /\ IF job = reaper /\ jobOld
       THEN job' = "failed" /\ reaper' = "card"
       ELSE UNCHANGED job /\ reaper' = "idle"
    /\ UNCHANGED <<card, jobOld, message, click, worker, stranded, faults>> /\ RunStands

ReapCard ==
    /\ reaper = "card"
    /\ card' = "failed" /\ reaper' = "idle"
    /\ UNCHANGED <<job, jobOld, message, click, worker, stranded, faults>> /\ RunStands

\* The sweep's process dies, or one of its statements is refused and throws out
\* of the sweep.  Between its two writes the job is no longer found by the next.
ReaperStops ==
    /\ reaper # "idle"
    /\ Fault("crash") \/ Fault("blip")
    /\ stranded' = (stranded \/ reaper = "card")
    /\ reaper' = "idle"
    /\ UNCHANGED <<card, job, jobOld, message, click, worker>> /\ RunStands

\* Mutant: the hold of a job that is no longer running is left alone.
SweepRunning ==
    /\ hold = "open" /\ holdOld /\ job = "running"
    /\ hold' = "refunded"
    /\ UNCHANGED <<card, job, jobOld, report, holdOld, truncated, message, click,
                   worker, reaper, stranded, faults>>

\* reapStaleLlmReservations, pass 1: an hour-old hold with no finalizer.
SweepHold ==
    /\ hold = "open" /\ holdOld
    /\ hold' = "refunded"
    /\ UNCHANGED <<card, job, jobOld, report, holdOld, truncated, message, click,
                   worker, reaper, stranded, faults>>

-----------------------------------------------------------------------------
Init ==
    /\ card = "planned" /\ job = "none" /\ hold = "none" /\ message = "none"
    /\ jobOld = FALSE /\ holdOld = FALSE /\ report = FALSE /\ truncated = FALSE /\ stranded = FALSE
    /\ click = [c \in Clicks |-> "idle"]
    /\ worker = "idle" /\ reaper = "idle"
    /\ faults = [k \in Kinds |-> 0]

Approval(c) ==
    Approve(c) \/ Open(c) \/ Send(c) \/ SendThrows(c) \/ Track(c) \/ FailQueued(c) \/ ClickDies(c)

Handling ==
    Take \/ ClaimRow \/ Reserve \/ Run \/ Deliver \/ Truncate \/ GiveBack \/ FailCard \/ FailJob

Sweeping == JobAges \/ HoldAges \/ ReapRead \/ ReapJob \/ ReapCard \/ SweepHold

Next == (\E c \in Clicks : Approval(c)) \/ Handling \/ WorkerStops \/ Sweeping \/ ReaperStops

Spec == Init /\ [][Next]_vars

\* Requests under way and the handler go on; time passes and the two sweeps run
\* every few minutes.  Nobody has to press Approve.
Fairness ==
    /\ \A c \in Clicks :
          WF_vars(Open(c) \/ Send(c) \/ SendThrows(c) \/ Track(c) \/ FailQueued(c))
    /\ WF_vars(Handling)
    /\ WF_vars(JobAges) /\ WF_vars(HoldAges) /\ WF_vars(SweepHold)
    /\ WF_vars(ReapRead \/ ReapJob \/ ReapCard)

FairSpec == Spec /\ Fairness

-----------------------------------------------------------------------------
\* Properties.

\* What the credits bought: the report, or a run that used up its steps, which
\* the product charges for.
Work == INSTANCE PaidWork WITH delivered <- report \/ truncated

\* The card's credits are held once and the hold ends once: charged in the
\* step that delivers, refunded only with nothing delivered.  The hour-old
\* hold's refund, the job sweep and a long run may meet in any order
\* (SettleLostToRefund, ResearchDeliveryLost).
KeepsThePromise == Work!Safety

\* Every hold is closed, whichever process died on the way.
HoldCloses == Work!Closes

\* A card that says failed has no report and no charge for one.  The exception
\* is an answer that was lost: the handler or the approval then fails what was
\* in fact delivered.
FailedIsFree ==
    (job = "failed" \/ card = "failed") /\ faults["lost"] = 0 => ~report

\* An ended card stays as it ended, but for a lost answer.
EndsStand ==
    [][faults["lost"] > 0 \/ card \in {"planned", "running"}]_card

\* The card does not say "Researching..." for ever, unless a job sweep stopped,
\* by a crash or a refused statement, between its two writes: it writes the job
\* first and the card second, and no later sweep looks at a failed job's card.
CardEnds == card = "running" ~> card # "running" \/ stranded
=============================================================================
