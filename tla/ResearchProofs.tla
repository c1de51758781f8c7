--------------------------- MODULE ResearchProofs ---------------------------
(***************************************************************************)
(* Research, for any number of requests and faults: type correctness, the  *)
(* charge that comes with the report or not at all, and what a lost answer *)
(* alone can undo.                                                         *)
(***************************************************************************)
EXTENDS Research, TLAPS

Clean == faults["lost"] = 0

\* What the hold's end says about the result, and where it can still be open.
MoneyAgrees ==
    /\ hold = "settled" <=> (report \/ truncated)
    /\ worker \in {"run", "deliver", "truncate"} => hold \in {"open", "refunded"}

\* Nothing of the run exists while the card is planned, and one request opens
\* it: the message is sent by that request and handled once.
OpenedOnce ==
    /\ card = "planned" =>
          /\ job = "none" /\ message = "none" /\ worker = "idle" /\ reaper = "idle"
          /\ \A c \in Clicks : click[c] \in {"idle", "opening", "over"}
    /\ \A c, d \in Clicks :
          click[c] \in {"sending", "failing"} /\ click[d] \in {"sending", "failing"} => c = d
    /\ \A c \in Clicks : click[c] = "sending" => message = "none" /\ worker = "idle"
    /\ worker # "idle" => message = "active"
    /\ reaper = "card" => job = "failed"

\* As long as no answer was lost.
CleanAgrees ==
    Clean =>
    /\ \A c \in Clicks : click[c] = "failing" => message = "none" /\ worker = "idle"
    /\ worker \notin {"idle", "claim"} => job \in {"running", "failed"}
    /\ report =>
          /\ card = "done" /\ job = "done" /\ worker = "idle" /\ message # "ready"
          /\ \A c \in Clicks : click[c] \notin {"sending", "failing"}
    /\ card = "done" => report
    /\ card = "failed" =>
          \/ job = "failed"
          \/ job = "running" /\ worker \in {"failJob", "idle"} /\ message \in {"active", "gone"}

IInv == TypeOK /\ MoneyAgrees /\ OpenedOnce /\ CleanAgrees

-----------------------------------------------------------------------------
\* A fault of one kind leaves the count of the others alone.
LEMMA FaultCounts ==
    ASSUME faults \in [Kinds -> 0..MaxFaults], NEW k \in Kinds, Fault(k)
    PROVE  /\ faults' \in [Kinds -> 0..MaxFaults]
           /\ k # "lost" => (Clean' <=> Clean)
           /\ k = "lost" => ~Clean'
  BY FaultsAreCounted DEF Fault, Kinds, Clean

LEMMA InitEstablishes == Init => IInv
<1> SUFFICES ASSUME Init PROVE IInv
  OBVIOUS
<1> USE DEF Init
<1>1. TypeOK
  <2>1. faults \in [Kinds -> 0..MaxFaults]
    BY FaultsAreCounted
  <2>2. <<jobOld, report, holdOld, truncated>> \in BOOLEAN \X BOOLEAN \X BOOLEAN \X BOOLEAN
    OBVIOUS
  <2> QED
    BY <2>1, <2>2 DEF TypeOK
<1>2. MoneyAgrees /\ OpenedOnce
  BY DEF MoneyAgrees, OpenedOnce
<1>3. CleanAgrees
  BY DEF CleanAgrees
<1> QED
  BY <1>1, <1>2, <1>3 DEF IInv

\* The state's types are kept by every step.
LEMMA StepKeepsTypes == TypeOK /\ [Next]_vars => TypeOK'
<1> SUFFICES ASSUME TypeOK, [Next]_vars PROVE TypeOK'
  OBVIOUS
<1>f. \A k \in Kinds : Fault(k) => faults' \in [Kinds -> 0..MaxFaults]
  BY FaultCounts DEF TypeOK
<1>k. "crash" \in Kinds /\ "blip" \in Kinds /\ "lost" \in Kinds
  BY DEF Kinds
<1> USE DEF TypeOK, RunStands, NoFault, ClickGoes, WorkerGoes
<1>1. ASSUME NEW c \in Clicks, Approval(c) PROVE TypeOK'
  <2>1. CASE Approve(c) \/ Open(c) \/ Send(c) \/ Track(c) \/ FailQueued(c)
    BY <2>1 DEF Approve, Open, Send, Track, FailQueued
  <2>2. CASE SendThrows(c) \/ ClickDies(c)
    BY <2>2, <1>f, <1>k DEF SendThrows, ClickDies
  <2> QED BY <1>1, <2>1, <2>2 DEF Approval
<1>2. CASE Take \/ ClaimRow \/ Run \/ FailCard \/ FailJob
  BY <1>2 DEF Take, ClaimRow, Run, FailCard, FailJob
<1>3. CASE Reserve
  BY <1>3, <1>f, <1>k DEF Reserve
<1>4. CASE Deliver
  <2>1. faults' \in [Kinds -> 0..MaxFaults]
    BY <1>4, <1>f, <1>k DEF Deliver
  <2> QED
    BY <1>4, <2>1 DEF Deliver, Delivered
<1>5. CASE Truncate \/ GiveBack
  <2>1. faults' \in [Kinds -> 0..MaxFaults]
    BY <1>5, <1>f, <1>k DEF Truncate, GiveBack
  <2>2. hold' \in {"none", "open", "settled", "refunded"}
    BY <1>5 DEF Truncate, GiveBack
  <2>3. truncated' \in BOOLEAN
    BY <1>5 DEF Truncate, GiveBack
  <2>4. worker' \in {"idle", "failCard"} /\ message' \in {message, "gone"}
    BY <1>5 DEF Truncate, GiveBack
  <2> QED
    BY <1>5, <2>1, <2>2, <2>3, <2>4 DEF Truncate, GiveBack
<1>6. CASE WorkerStops \/ ReaperStops
  BY <1>6, <1>f, <1>k DEF WorkerStops, ReaperStops
<1>7. CASE Sweeping
  BY <1>7 DEF Sweeping, JobAges, HoldAges, ReapRead, ReapJob, ReapCard, SweepHold
<1>8. CASE UNCHANGED vars
  BY <1>8 DEF vars
<1> QED
  BY <1>1, <1>2, <1>3, <1>4, <1>5, <1>6, <1>7, <1>8 DEF Next, Handling

\* The approval's steps.
LEMMA ApprovalKeeps ==
    ASSUME IInv, NEW c \in Clicks, Approval(c)
    PROVE  MoneyAgrees' /\ OpenedOnce' /\ CleanAgrees'
<1> USE DEF IInv, TypeOK, RunStands, ClickGoes, MoneyAgrees, OpenedOnce, CleanAgrees
<1>k. "crash" \in Kinds /\ "blip" \in Kinds /\ "lost" \in Kinds
  BY DEF Kinds
<1>1. CASE Approve(c)
  BY <1>1 DEF Approve, Clean
<1>2. CASE Open(c)
  BY <1>2 DEF Open, Clean
<1>3. CASE Send(c)
  BY <1>3 DEF Send, Clean
<1>4. CASE SendThrows(c)
  BY <1>4, <1>k, FaultCounts DEF SendThrows
<1>5. CASE Track(c)
  BY <1>5 DEF Track, Clean
<1>6. CASE FailQueued(c)
  BY <1>6 DEF FailQueued, Clean
<1>7. CASE ClickDies(c)
  BY <1>7, <1>k, FaultCounts DEF ClickDies
<1> QED
  BY <1>1, <1>2, <1>3, <1>4, <1>5, <1>6, <1>7 DEF Approval

\* The handler's steps.
LEMMA HandlingKeeps ==
    ASSUME IInv, Handling \/ WorkerStops
    PROVE  MoneyAgrees' /\ OpenedOnce' /\ CleanAgrees'
<1> USE DEF IInv, TypeOK, RunStands, NoFault, WorkerGoes, MoneyAgrees, OpenedOnce, CleanAgrees
<1>k. "crash" \in Kinds /\ "blip" \in Kinds /\ "lost" \in Kinds
  BY DEF Kinds
<1>1. CASE Take
  BY <1>1 DEF Take, Clean
<1>2. CASE ClaimRow
  BY <1>2 DEF ClaimRow, Clean
<1>3. CASE Reserve
  <2>1. CASE NoFault
    BY <1>3, <2>1 DEF Reserve, Clean
  <2>2. CASE Fault("lost")
    BY <1>3, <2>2, <1>k, FaultCounts DEF Reserve
  <2> QED BY <1>3, <2>1, <2>2 DEF Reserve
<1>4. CASE Run
  BY <1>4 DEF Run, Clean
<1>5. CASE Deliver
  BY <1>5, <1>k, FaultCounts DEF Deliver, Delivered, Clean
<1>6. CASE Truncate
  <2>1. hold \in {"open", "refunded"} /\ ~report /\ ~truncated /\ worker = "truncate"
    BY <1>6 DEF Truncate
  <2>2. Clean' => Clean
    BY <1>6, <1>k, FaultCounts DEF Truncate, Clean
  <2>3. /\ worker' = "failCard"
        /\ UNCHANGED <<card, job, message, report, click, reaper>>
        /\ \/ hold' = hold /\ truncated' = FALSE /\ hold = "refunded"
           \/ hold' = "settled" /\ truncated' = TRUE
           \/ hold' = hold /\ truncated' = FALSE
    BY <1>6, <2>1 DEF Truncate
  <2> QED
    BY <2>1, <2>2, <2>3
<1>7. CASE GiveBack
  BY <1>7, <1>k, FaultCounts DEF GiveBack, Clean
<1>8. CASE FailCard
  BY <1>8 DEF FailCard, Clean
<1>9. CASE FailJob
  BY <1>9 DEF FailJob, Clean
<1>10. CASE WorkerStops
  BY <1>10, <1>k, FaultCounts DEF WorkerStops
<1> QED
  BY <1>1, <1>2, <1>3, <1>4, <1>5, <1>6, <1>7, <1>8, <1>9, <1>10 DEF Handling

\* The sweeps and the passing of time.
LEMMA SweepingKeeps ==
    ASSUME IInv, Sweeping \/ ReaperStops \/ UNCHANGED vars
    PROVE  MoneyAgrees' /\ OpenedOnce' /\ CleanAgrees'
<1> USE DEF IInv, TypeOK, RunStands, MoneyAgrees, OpenedOnce, CleanAgrees
<1>k. "crash" \in Kinds /\ "blip" \in Kinds
  BY DEF Kinds
<1>1. CASE JobAges \/ HoldAges
  BY <1>1 DEF JobAges, HoldAges, Clean
<1>2. CASE ReapRead
  BY <1>2 DEF ReapRead, Clean
<1>3. CASE ReapJob
  BY <1>3 DEF ReapJob, Clean
<1>4. CASE ReapCard
  BY <1>4 DEF ReapCard, Clean
<1>5. CASE SweepHold
  BY <1>5 DEF SweepHold, Clean
<1>6. CASE ReaperStops
  BY <1>6, <1>k, FaultCounts DEF ReaperStops
<1>7. CASE UNCHANGED vars
  BY <1>7 DEF vars, Clean
<1> QED
  BY <1>1, <1>2, <1>3, <1>4, <1>5, <1>6, <1>7 DEF Sweeping

\* The inductive invariant.
THEOREM RunAgrees == Spec => []IInv
<1>1. IInv /\ [Next]_vars => IInv'
  <2> SUFFICES ASSUME IInv, [Next]_vars PROVE IInv'
    OBVIOUS
  <2>1. TypeOK'
    BY StepKeepsTypes DEF IInv
  <2>2. MoneyAgrees' /\ OpenedOnce' /\ CleanAgrees'
    BY ApprovalKeeps, HandlingKeeps, SweepingKeeps DEF Next
  <2> QED
    BY <2>1, <2>2 DEF IInv
<1> QED
  BY InitEstablishes, <1>1, PTL DEF Spec

-----------------------------------------------------------------------------
\* The state stays well typed.
THEOREM TypeCorrect == Spec => []TypeOK
<1>1. IInv => TypeOK
  BY DEF IInv
<1> QED
  BY RunAgrees, <1>1, PTL

\* A failed card or job has no report, unless an answer was lost: the sweep,
\* the handler and the approval may fail the card in any order, and none does
\* so after the report was delivered.
THEOREM NoReportIfFailed == Spec => []FailedIsFree
<1>1. IInv => FailedIsFree
  BY DEF IInv, CleanAgrees, FailedIsFree, Clean
<1> QED
  BY RunAgrees, <1>1, PTL

\* An ended card stays as it ended, unless an answer was lost.
THEOREM CardStands == Spec => EndsStand
<1>1. IInv /\ [Next]_vars => [faults["lost"] > 0 \/ card \in {"planned", "running"}]_card
  <2> SUFFICES ASSUME IInv, [Next]_vars, Clean, card \in {"done", "failed"} PROVE card' = card
    BY DEF IInv, TypeOK, Clean, Kinds
  <2> USE DEF IInv, TypeOK, OpenedOnce, CleanAgrees, RunStands
  <2>1. ASSUME NEW c \in Clicks, Approval(c) PROVE card' = card
    BY <2>1 DEF Approval, Approve, Open, Send, SendThrows, Track, FailQueued, ClickDies
  <2>2. CASE Handling \/ WorkerStops
    BY <2>2 DEF Handling, WorkerStops, Take, ClaimRow, Reserve, Run, Deliver, Delivered,
                Truncate, GiveBack, FailCard, FailJob
  <2>3. CASE Sweeping \/ ReaperStops \/ UNCHANGED vars
    BY <2>3 DEF Sweeping, JobAges, HoldAges, ReapRead, ReapJob, ReapCard, SweepHold,
                ReaperStops, vars
  <2> QED
    BY <2>1, <2>2, <2>3 DEF Next
<1> QED
  BY RunAgrees, <1>1, PTL DEF Spec, EndsStand

\* The hold is charged in the step that delivers the report or that ends a run
\* which used up its steps, refunded only with neither, and never both:
\* Research implements PaidWork's safety.
THEOREM ResearchKeepsThePromise == Spec => KeepsThePromise
<1> USE DEF Work!work
<1>1. Init => Work!Init
  BY DEF Init, Work!Init
<1>2. IInv /\ [Next]_vars => [Work!Next]_(Work!work)
  <2> SUFFICES ASSUME IInv, [Next]_vars PROVE [Work!Next]_(Work!work)
    OBVIOUS
  <2> USE DEF IInv, TypeOK, MoneyAgrees, Work!Next, Work!Accept, Work!Deliver,
              Work!GiveBack, Work!Discard
  <2>1. ASSUME NEW c \in Clicks, Approval(c) PROVE UNCHANGED <<hold, report, truncated>>
    BY <2>1 DEF Approval, Approve, Open, Send, SendThrows, Track, FailQueued, ClickDies, RunStands
  <2>2. CASE Take \/ ClaimRow \/ Run \/ FailCard \/ FailJob \/ WorkerStops
    BY <2>2 DEF Take, ClaimRow, Run, FailCard, FailJob, WorkerStops, RunStands
  <2>3. CASE Reserve
    BY <2>3 DEF Reserve
  <2>4. CASE Deliver
    BY <2>4 DEF Deliver, Delivered
  <2>5. CASE Truncate
    BY <2>5 DEF Truncate
  <2>6. CASE GiveBack
    BY <2>6 DEF GiveBack
  <2>7. CASE Sweeping \/ ReaperStops
    BY <2>7 DEF Sweeping, ReaperStops, JobAges, HoldAges, ReapRead, ReapJob, ReapCard,
                SweepHold, RunStands
  <2>8. CASE UNCHANGED vars
    BY <2>8 DEF vars
  <2> QED
    BY <2>1, <2>2, <2>3, <2>4, <2>5, <2>6, <2>7, <2>8 DEF Next, Handling
<1> QED
  BY RunAgrees, <1>1, <1>2, PTL DEF Spec, KeepsThePromise, Work!Safety
=============================================================================
