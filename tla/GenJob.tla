------------------------------- MODULE GenJob -------------------------------
(***************************************************************************)
(* One paid generation job, from startGen to the end of its credits.       *)
(*                                                                         *)
(* The web server inserts the row, the hold and the queue message in one   *)
(* transaction, and may cancel the job or delete its project.  Workers     *)
(* deliver messages to handleGen, whose awaits are the steps below; a      *)
(* message is redelivered when its handler throws, when its worker dies,   *)
(* and when the queue's expiry passes while the handler still runs.  A     *)
(* reaper sweeps rows nobody finishes.  Jobs meet only in the balance,     *)
(* which CreditLedger models, so one job stands for all.                   *)
(***************************************************************************)
EXTENDS Naturals, FiniteSets

CONSTANTS
    Workers,       \* delivery slots of the worker processes
    Kinds,         \* what is ordered: "IMAGE", "VIDEO" or either
    Faults,        \* the kinds of fault a run considers
    ImageFaults,   \* bound: faults in one behaviour of an image ...
    VideoFaults,   \* ... and of a video
    MaxMessages,   \* bound: queue messages of the job that exist at once
    MaxCalls,      \* bound: calls to the engine in one behaviour
    RetryLimit     \* GEN_RETRY_LIMIT

FaultKinds ==
    {"crash",     \* a worker dies
     "overrun",   \* a delivery outlives expireInSeconds and is handed out again
     "blip",      \* a database statement rejects
     "storage"}   \* every attempt to store the outputs fails

ASSUME ShapeAssumption ==
    /\ Kinds \subseteq {"IMAGE", "VIDEO"}
    /\ Faults \subseteq FaultKinds
    /\ ImageFaults \in Nat /\ VideoFaults \in Nat /\ RetryLimit \in Nat
    /\ MaxMessages \in Nat \ {0} /\ MaxCalls \in Nat \ {0}

Messages == 1..MaxMessages
Calls == 1..MaxCalls

VARIABLES
    kind,      \* GenJob.kind
    status,    \* GenJob.status, "none" before startGen, "gone" once deleted
    claims,    \* how often the row was claimed: the identity of startedAt
    outputs,   \* GenJob.generationIds is not empty
    task,      \* videoOptions.providerTask: the call whose video is awaited
    old,       \* which clocks have run out: of the row, its claim, its task
    hold,      \* the ledger rows under the job's id
    message,   \* the job's one terminal message in the chat thread
    engine,    \* what became of each call to the generation engine
    queue,     \* pg-boss messages that carry the job's id
    worker,    \* what each delivery slot is doing
    sweep,     \* the claim the reaper read before its conditional write
    absorbed,  \* a worker threw a result away as already refunded
    faults     \* how many faults of each kind happened

row == <<kind, status, claims, outputs, task>>
job == <<row, old, hold, message>>
vars == <<job, engine, queue, worker, sweep, absorbed, faults>>

InFlight == {"QUEUED", "GENERATING"}
\* Where a delivery can be: at its next statement, or at its way out.
Places == {"idle", "claim", "call", "calling", "marker", "poll", "clear", "store",
           "discard", "finish", "resume", "tellResult", "tellError", "tellFailed",
           "throw", "followUp", "ack", "nack"}
Free == [state |-> "free", tries |-> 0, carried |-> 0]
Idle == [pc |-> "idle", msg |-> 0, eff |-> 0, task |-> 0, call |-> 0,
         committed |-> FALSE, last |-> FALSE]

-----------------------------------------------------------------------------
\* Building blocks.

At(w, pc) == worker[w].pc = pc

\* Where a delivery only has to tell the thread and answer the queue, what it
\* knew of the job is forgotten.
Closing == {"tellResult", "tellError", "tellFailed", "ack", "nack"}
Goes(w, pc) ==
    worker' = [worker EXCEPT ![w] =
        IF pc \in Closing THEN [Idle EXCEPT !.pc = pc, !.msg = worker[w].msg]
        ELSE [worker[w] EXCEPT !.pc = pc]]
\* From here on a failure is the last one: the call was billed (spent, charged),
\* or the error is permanent.
GoesLast(w, pc) == worker' = [worker EXCEPT ![w].pc = pc, ![w].last = TRUE]

FaultLimit == IF kind = "IMAGE" THEN ImageFaults ELSE VideoFaults
Fault(f) ==
    /\ f \in Faults
    /\ Cardinality({g \in Faults \X (1..FaultLimit) : g[2] <= faults[g[1]]}) < FaultLimit
    /\ faults' = [faults EXCEPT ![f] = @ + 1]

\* settleCredits and refundReservation: whichever finalizer comes first stands.
Settle == hold' = IF hold = "open" THEN "settled" ELSE hold
Refund == hold' = IF hold = "open" THEN "refunded" ELSE hold

Larger(a, b) == IF a >= b THEN a ELSE b
\* effectiveRetryCount.
Effective(m) == Larger(queue[m].tries, queue[m].carried)

\* The message goes back to the queue, or to the dead letters.
Retried(m) ==
    IF queue[m].tries < RetryLimit
    THEN [queue EXCEPT ![m].state = "ready", ![m].tries = @ + 1]
    ELSE [queue EXCEPT ![m] = Free]

LiveMessage == \E m \in Messages : queue[m].state # "free"

\* isGenRowStale: a video that was submitted is judged by its submission.
RowStale == IF task # 0 THEN "task" \in old ELSE "claim" \in old

-----------------------------------------------------------------------------
\* The web server.

\* startGen: row, hold and message commit together.
StartGen ==
    /\ status = "none"
    /\ status' = "QUEUED"
    /\ hold' = "open"
    /\ queue' = [queue EXCEPT ![1].state = "ready"]
    /\ UNCHANGED <<kind, claims, outputs, task, old, message, engine, worker, sweep, absorbed, faults>>

\* cancelGenJob: its chat message shares the unique index with the worker's.
CancelGenJob ==
    /\ status = "QUEUED"
    /\ message = "none"
    /\ status' = "CANCELLED"
    /\ Refund
    /\ message' = "error"
    /\ UNCHANGED <<kind, claims, outputs, task, old, engine, queue, worker, sweep, absorbed, faults>>

\* deleteProject refuses while the job is GENERATING, and otherwise takes the
\* row, its outputs and its messages away.
DeleteProject ==
    /\ status \in {"QUEUED", "DONE", "FAILED", "CANCELLED"}
    /\ status' = "gone"
    /\ outputs' = FALSE
    /\ IF status = "QUEUED" THEN Refund ELSE UNCHANGED hold
    /\ message' = "none"
    /\ UNCHANGED <<kind, claims, task, old, engine, queue, worker, sweep, absorbed, faults>>

-----------------------------------------------------------------------------
\* A delivery: the handler reads the row once and decides on that reading.

\* The first statements of handleGen, up to the decision what kind of delivery
\* this is.  A queued job may be put off in favour of another merchant's.
Fetch(w, m) ==
    /\ At(w, "idle")
    /\ queue[m].state = "ready"
    /\ queue' = [queue EXCEPT ![m].state = "active"]
    /\ \E pc \in IF status \in {"gone", "DONE"} THEN {"ack"}
                  ELSE IF outputs THEN {"resume"}
                  ELSE IF status \in {"FAILED", "CANCELLED"} THEN {"ack"}
                  ELSE IF status = "QUEUED" /\ "row" \notin old THEN {"begin", "followUp"}
                  ELSE {"begin"} :
          worker' = [worker EXCEPT ![w] =
              IF pc = "ack" THEN [Idle EXCEPT !.pc = pc, !.msg = m]
              ELSE [pc |-> IF pc # "begin" THEN pc ELSE IF task # 0 THEN "poll" ELSE "claim",
                    msg |-> m, eff |-> Effective(m), task |-> task, call |-> 0,
                    committed |-> pc = "resume", last |-> FALSE]]
    /\ UNCHANGED <<job, engine, sweep, absorbed, faults>>

\* The reads of elements and lineage that come before the poll and the claim.
ReadInputsFails(w) ==
    /\ worker[w].pc \in {"poll", "claim"}
    /\ Fault("blip")
    /\ Goes(w, "throw")
    /\ UNCHANGED <<job, engine, queue, sweep, absorbed>>

\* The compare-and-set from QUEUED to GENERATING, and what losing it means.
Claim(w) ==
    /\ At(w, "claim")
    /\ \/ /\ status = "QUEUED"
          /\ status' = "GENERATING"
          /\ claims' = claims + 1
          /\ old' = old \ {"claim"}
          /\ Goes(w, "call")
          /\ UNCHANGED hold
       \/ /\ status = "GENERATING" /\ "claim" \in old /\ ~outputs
          /\ status' = "FAILED"
          /\ Refund
          /\ Goes(w, "tellError")
          /\ UNCHANGED <<claims, old>>
       \/ /\ status # "QUEUED"
          /\ ~(status = "GENERATING" /\ "claim" \in old /\ ~outputs)
          /\ Goes(w, "ack")
          /\ UNCHANGED <<status, claims, old, hold>>
    /\ UNCHANGED <<kind, outputs, task, message, engine, queue, sweep, absorbed, faults>>

\* A gate before the paid call throws: a reference cannot be reached, or the
\* list of disabled models cannot be read.
RefuseToSpend(w) ==
    /\ At(w, "call")
    /\ Goes(w, "throw")
    /\ UNCHANGED <<job, engine, queue, sweep, absorbed, faults>>

\* Mutant: a gate ends the job and forgets the hold.
FailClosedKeepsHold(w) ==
    /\ worker[w].pc \in {"claim", "call"}
    /\ status \in InFlight /\ ~outputs
    /\ status' = "FAILED"
    /\ Goes(w, "tellError")
    /\ UNCHANGED <<kind, hold, claims, outputs, task, old, message, engine, queue, sweep, absorbed, faults>>

\* failClosedWithRefund, from a gate before the claim (project or shot gone) or
\* after it (model disabled, an element deleted).  A settled hold rolls the
\* write back.
FailClosed(w) ==
    /\ worker[w].pc \in {"claim", "call"}
    /\ IF status \in InFlight /\ ~outputs /\ hold # "settled"
       THEN status' = "FAILED" /\ Refund /\ Goes(w, "tellError")
       ELSE UNCHANGED <<status, hold>> /\ Goes(w, "ack")
    /\ UNCHANGED <<kind, claims, outputs, task, old, message, engine, queue, sweep, absorbed, faults>>

-----------------------------------------------------------------------------
\* The paid call.

\* provider.generate or provider.submitVideo leaves for the engine.
Call(w) ==
    /\ At(w, "call")
    /\ \E n \in Calls :
          /\ engine[n] = "none" /\ \A k \in 1..(n - 1) : engine[k] # "none"
          /\ engine' = [engine EXCEPT ![n] = "open"]
          /\ worker' = [worker EXCEPT ![w].pc = "calling", ![w].call = n]
    /\ UNCHANGED <<job, queue, sweep, absorbed, faults>>

\* The engine refuses the order (nothing is billed; a refusal of what the
\* merchant sent is permanent), takes it, or leaves the worker without a usable
\* answer, which counts as billed.
Answer(w) ==
    /\ At(w, "calling")
    /\ \/ /\ engine' = [engine EXCEPT ![worker[w].call] = "free"]
          /\ Goes(w, "throw") \/ GoesLast(w, "throw")
       \/ UNCHANGED engine /\ GoesLast(w, "throw")
       \/ /\ kind = "IMAGE"
          /\ engine' = [engine EXCEPT ![worker[w].call] = "made"]
          /\ \E pc \in {"store", "throw"} : GoesLast(w, pc)
       \/ kind = "VIDEO" /\ UNCHANGED engine /\ GoesLast(w, "marker")
    /\ UNCHANGED <<job, queue, sweep, absorbed, faults>>

\* The engine finishes a video on its own time.
EngineEnds(n) ==
    /\ kind = "VIDEO"
    /\ engine[n] = "open"
    /\ \A w \in Workers : ~(At(w, "calling") /\ worker[w].call = n)
    /\ \E end \in {"made", "free"} : engine' = [engine EXCEPT ![n] = end]
    /\ UNCHANGED <<job, queue, worker, sweep, absorbed, faults>>

\* persistVideoProviderTaskWithRetry, only while the row is GENERATING.
PersistTask(w) ==
    /\ At(w, "marker")
    /\ \/ /\ status = "GENERATING"
          /\ task' = worker[w].call
          /\ old' = old \ {"task"}
          /\ Goes(w, "followUp")
          /\ UNCHANGED <<absorbed, faults>>
       \/ /\ status # "GENERATING"
          /\ absorbed' = TRUE
          /\ Goes(w, "ack")
          /\ UNCHANGED <<task, old, faults>>
       \/ Fault("blip") /\ Goes(w, "throw") /\ UNCHANGED <<task, old, absorbed>>
    /\ UNCHANGED <<kind, status, claims, outputs, hold, message, engine, queue, sweep>>

\* Mutant: pending for too long is taken for a video the engine gave up.
PollGivesUp(w) ==
    /\ At(w, "poll")
    /\ IF "task" \in old THEN Goes(w, "clear") ELSE Goes(w, "followUp")
    /\ UNCHANGED <<job, engine, queue, sweep, absorbed, faults>>

\* provider.pollVideo looks once.  A lost answer reads as pending, and pending
\* for too long is thrown as billed; so is a video that cannot be downloaded.
Poll(w) ==
    /\ At(w, "poll")
    /\ \/ IF "task" \in old THEN GoesLast(w, "throw") ELSE Goes(w, "followUp")
       \/ engine[worker[w].task] = "made" /\ \E pc \in {"store", "throw"} : GoesLast(w, pc)
       \/ engine[worker[w].task] = "free" /\ Goes(w, "clear")
    /\ UNCHANGED <<job, engine, queue, sweep, absorbed, faults>>

\* clearVideoProviderTaskBestEffort, then a plain throw: submit a new video.
ClearTask(w) ==
    /\ At(w, "clear")
    /\ \/ task' = (IF status = "GENERATING" THEN 0 ELSE task) /\ UNCHANGED faults
       \/ Fault("blip") /\ UNCHANGED task
    /\ Goes(w, "throw")
    /\ UNCHANGED <<kind, status, claims, outputs, old, hold, message, engine, queue, sweep, absorbed>>

-----------------------------------------------------------------------------
\* Delivering.

\* Mutant: the commit does not ask whether the row is still its own.
StoreUnguarded(w) ==
    /\ At(w, "store")
    /\ outputs' = TRUE
    /\ Settle
    /\ worker' = [worker EXCEPT ![w].pc = "finish", ![w].committed = TRUE]
    /\ UNCHANGED <<kind, status, claims, task, old, message, engine, queue, sweep, absorbed, faults>>

\* The commit: outputs, their marker and the charge, if the row is still
\* GENERATING and empty; a row that is not rolls all of it back.
Store(w) ==
    /\ At(w, "store")
    /\ \/ /\ status = "GENERATING" /\ ~outputs
          /\ outputs' = TRUE
          /\ Settle
          /\ worker' = [worker EXCEPT ![w].pc = "finish", ![w].committed = TRUE]
          /\ UNCHANGED faults
       \/ /\ ~(status = "GENERATING" /\ ~outputs)
          /\ Goes(w, "discard")
          /\ UNCHANGED <<outputs, hold, faults>>
       \/ Fault("storage") /\ Goes(w, "throw") /\ UNCHANGED <<outputs, hold>>
    /\ UNCHANGED <<kind, status, claims, task, old, message, engine, queue, sweep, absorbed>>

\* REDELIVERY_DISCARD: another delivery's outputs, or a refund that came first.
DiscardOutputs(w) ==
    /\ At(w, "discard")
    /\ absorbed' = (absorbed \/ ~outputs)
    /\ Goes(w, "ack")
    /\ UNCHANGED <<job, engine, queue, sweep, faults>>

\* The unconditional write of DONE.
Finish(w) ==
    /\ At(w, "finish")
    /\ \/ /\ status # "gone"
          /\ status' = "DONE"
          /\ Goes(w, "tellResult")
          /\ UNCHANGED faults
       \/ status = "gone" /\ Goes(w, "throw") /\ UNCHANGED <<status, faults>>
       \/ Fault("blip") /\ Goes(w, "throw") /\ UNCHANGED status
    /\ UNCHANGED <<kind, claims, outputs, task, old, hold, message, engine, queue, sweep, absorbed>>

\* resumeCommittedGenJob in a delivery.
Resume(w) ==
    /\ At(w, "resume")
    /\ \/ /\ hold = "refunded"
          /\ IF status \in InFlight THEN status' = "FAILED" /\ Goes(w, "tellError")
                                    ELSE UNCHANGED status /\ Goes(w, "ack")
          /\ UNCHANGED <<hold, faults>>
       \/ /\ hold # "refunded" /\ status # "gone"
          /\ status' = "DONE"
          /\ Settle
          /\ Goes(w, "tellResult")
          /\ UNCHANGED faults
       \/ /\ hold # "refunded" /\ status = "gone"
          /\ Goes(w, "throw")
          /\ UNCHANGED <<status, hold, faults>>
       \/ Fault("blip") /\ Goes(w, "throw") /\ UNCHANGED <<status, hold>>
    /\ UNCHANGED <<kind, claims, outputs, task, old, message, engine, queue, sweep, absorbed>>

\* appendCoworkResult: at most one terminal message; a failure is swallowed.
Tell(w) ==
    /\ worker[w].pc \in {"tellResult", "tellError", "tellFailed"}
    /\ \/ /\ message' = (IF message = "none" /\ status # "gone"
                         THEN IF At(w, "tellResult") THEN "result" ELSE "error"
                         ELSE message)
          /\ UNCHANGED faults
       \/ Fault("blip") /\ UNCHANGED message
    /\ Goes(w, IF At(w, "tellFailed") THEN "nack" ELSE "ack")
    /\ UNCHANGED <<row, old, hold, engine, queue, sweep, absorbed>>

-----------------------------------------------------------------------------
\* The end of a delivery.

Final(w) ==
    ~worker[w].committed /\ (worker[w].last \/ worker[w].eff >= RetryLimit)

\* The catch: fail and refund for good, or put the row back for a retry.
Catch(w) ==
    /\ At(w, "throw")
    /\ \/ /\ Final(w)
          /\ IF status \in InFlight THEN status' = "FAILED" /\ Refund
                                    ELSE UNCHANGED <<status, hold>>
          /\ Goes(w, "tellFailed")
          /\ UNCHANGED faults
       \/ /\ ~Final(w)
          /\ status' = IF status \in InFlight THEN "QUEUED" ELSE status
          /\ Goes(w, "nack")
          /\ UNCHANGED <<hold, faults>>
       \/ Fault("blip") /\ Goes(w, "nack") /\ UNCHANGED <<status, hold>>
    /\ UNCHANGED <<kind, claims, outputs, task, old, message, engine, queue, sweep, absorbed>>

\* A deferred job or an awaited video: the dispatcher sends the next message
\* before the queue completes this one.
FollowUp(w) ==
    /\ At(w, "followUp")
    /\ \E m \in Messages :
          /\ queue[m].state = "free"
          /\ queue' = [queue EXCEPT ![m] =
                 [state |-> "ready", tries |-> 0, carried |-> worker[w].eff]]
    /\ Goes(w, "ack")
    /\ UNCHANGED <<job, engine, sweep, absorbed, faults>>

\* The handler returned or threw; a delivery that expired has no message left.
Complete(w) ==
    /\ worker[w].pc \in {"ack", "nack"}
    /\ LET m == worker[w].msg
       IN  queue' = IF m = 0 THEN queue
                    ELSE IF At(w, "ack") THEN [queue EXCEPT ![m] = Free] ELSE Retried(m)
    /\ worker' = [worker EXCEPT ![w] = Idle]
    /\ UNCHANGED <<job, engine, sweep, absorbed, faults>>

\* The worker dies at any of its steps; its message stays active.
Crash(w) ==
    /\ ~At(w, "idle")
    /\ Fault("crash")
    /\ worker' = [worker EXCEPT ![w] = Idle]
    /\ UNCHANGED <<job, engine, queue, sweep, absorbed>>

\* The queue's expiry: of a message whose worker is gone, or of one whose
\* handler still runs and does not notice.
Expire(m) ==
    /\ queue[m].state = "active"
    /\ queue' = Retried(m)
    /\ \/ /\ \A w \in Workers : worker[w].msg # m
          /\ UNCHANGED <<worker, faults>>
       \/ \E w \in Workers :
             /\ worker[w].msg = m
             /\ Fault("overrun")
             /\ worker' = [worker EXCEPT ![w].msg = 0]
    /\ UNCHANGED <<job, engine, sweep, absorbed>>

-----------------------------------------------------------------------------
\* The sweeps.

\* reapStaleGenJobs reads a stale row and remembers which claim it saw ...
ReapRead ==
    /\ sweep = 0
    /\ status = "GENERATING" /\ ~outputs /\ RowStale
    /\ sweep' = claims
    /\ UNCHANGED <<job, engine, queue, worker, absorbed, faults>>

\* Mutant: the reaper ends the row and forgets the hold.
ReapKeepsHold ==
    /\ sweep # 0
    /\ sweep' = 0
    /\ status = "GENERATING" /\ ~outputs /\ claims = sweep
    /\ status' = "FAILED"
    /\ UNCHANGED <<kind, hold, message, claims, outputs, task, old, engine, queue, worker, absorbed, faults>>

\* Mutant: the reaper does not look again for outputs before it writes.
ReapBlindly ==
    /\ sweep # 0
    /\ sweep' = 0
    /\ status = "GENERATING" /\ claims = sweep
    /\ status' = "FAILED"
    /\ Refund
    /\ message' = IF message = "none" THEN "error" ELSE message
    /\ UNCHANGED <<kind, claims, outputs, task, old, engine, queue, worker, absorbed, faults>>

\* ... and ends it if it is still that claim.
ReapWrite ==
    /\ sweep # 0
    /\ sweep' = 0
    /\ IF status = "GENERATING" /\ ~outputs /\ claims = sweep
       THEN /\ status' = "FAILED"
            /\ Refund
            /\ message' = IF message = "none" THEN "error" ELSE message
       ELSE UNCHANGED <<status, hold, message>>
    /\ UNCHANGED <<kind, claims, outputs, task, old, engine, queue, worker, absorbed, faults>>

\* Mutant: a queued row is left alone once a video was submitted for it.
ReapQueuedUnsubmitted ==
    /\ status = "QUEUED" /\ ~outputs /\ "row" \in old /\ ~LiveMessage /\ task = 0
    /\ status' = "FAILED"
    /\ Refund
    /\ message' = IF message = "none" THEN "error" ELSE message
    /\ UNCHANGED <<kind, claims, outputs, task, old, engine, queue, worker, sweep, absorbed, faults>>

\* A row that was queued long ago and has no message left.
ReapQueued ==
    /\ status = "QUEUED" /\ ~outputs /\ "row" \in old /\ ~LiveMessage
    /\ status' = "FAILED"
    /\ Refund
    /\ message' = IF message = "none" THEN "error" ELSE message
    /\ UNCHANGED <<kind, claims, outputs, task, old, engine, queue, worker, sweep, absorbed, faults>>

\* A row with outputs that nobody finished: resumeCommittedGenJob.
ReapCommitted ==
    /\ status \in InFlight /\ outputs /\ "claim" \in old
    /\ status' = IF hold = "refunded" THEN "FAILED" ELSE "DONE"
    /\ Settle
    /\ message' = IF message # "none" THEN message
                  ELSE IF hold = "refunded" THEN "error" ELSE "result"
    /\ UNCHANGED <<kind, claims, outputs, task, old, engine, queue, worker, sweep, absorbed, faults>>

\* Mutant: only results are told again, endings are not.
RedeliverOnlyResults ==
    /\ message = "none"
    /\ status = "DONE" /\ outputs /\ message' = "result"
    /\ UNCHANGED <<row, old, hold, engine, queue, worker, sweep, absorbed, faults>>

\* redeliverGenThreadResults: the message a swallowed failure left out.
RedeliverResult ==
    /\ message = "none"
    /\ \/ status = "DONE" /\ outputs /\ message' = "result"
       \/ status = "FAILED" /\ message' = "error"
    /\ UNCHANGED <<row, old, hold, engine, queue, worker, sweep, absorbed, faults>>

\* A clock runs out: 45 minutes for the row, 35 or 45 for the claim, 15 or 65
\* for the task.
Ages(clock) ==
    /\ clock \notin old
    /\ clock = "row" => status # "none"
    /\ clock = "claim" => claims > 0
    /\ clock = "task" => task # 0
    /\ old' = old \cup {clock}
    /\ UNCHANGED <<row, hold, message, engine, queue, worker, sweep, absorbed, faults>>

-----------------------------------------------------------------------------
Init ==
    /\ kind \in Kinds
    /\ status = "none" /\ claims = 0 /\ outputs = FALSE /\ task = 0
    /\ old = {}
    /\ hold = "none"
    /\ message = "none"
    /\ engine = [n \in Calls |-> "none"]
    /\ queue = [m \in Messages |-> Free]
    /\ worker = [w \in Workers |-> Idle]
    /\ sweep = 0
    /\ absorbed = FALSE
    /\ faults = [f \in FaultKinds |-> 0]

Step(w) ==
    \/ ReadInputsFails(w) \/ Claim(w) \/ RefuseToSpend(w) \/ FailClosed(w)
    \/ Call(w) \/ Answer(w) \/ PersistTask(w) \/ Poll(w) \/ ClearTask(w)
    \/ Store(w) \/ DiscardOutputs(w) \/ Finish(w) \/ Resume(w) \/ Tell(w)
    \/ Catch(w) \/ FollowUp(w) \/ Complete(w)

Reaper == ReapRead \/ ReapWrite \/ ReapQueued \/ ReapCommitted

Next ==
    \/ StartGen \/ CancelGenJob \/ DeleteProject
    \/ \E w \in Workers : Step(w) \/ Crash(w) \/ \E m \in Messages : Fetch(w, m)
    \/ \E m \in Messages : Expire(m)
    \/ \E n \in Calls : EngineEnds(n)
    \/ Reaper \/ RedeliverResult
    \/ \E clock \in {"row", "claim", "task"} : Ages(clock)

Spec == Init /\ [][Next]_vars

\* Time passes, the reaper sweeps, and a worker that does not die goes on.
FairSpec ==
    /\ Spec
    /\ WF_vars(Reaper) /\ WF_vars(RedeliverResult)
    /\ \A clock \in {"row", "claim", "task"} : WF_vars(Ages(clock))
    /\ \A w \in Workers : WF_vars(Step(w)) /\ WF_vars(\E m \in Messages : Fetch(w, m))
    /\ \A m \in Messages : WF_vars(Expire(m))

-----------------------------------------------------------------------------
\* Properties.

TypeOK ==
    /\ kind \in Kinds
    /\ status \in {"none", "QUEUED", "GENERATING", "DONE", "FAILED", "CANCELLED", "gone"}
    /\ claims \in Nat
    /\ outputs \in BOOLEAN
    /\ task \in 0..MaxCalls
    /\ old \subseteq {"row", "claim", "task"}
    /\ hold \in {"none", "open", "settled", "refunded"}
    /\ message \in {"none", "result", "error"}
    /\ engine \in [Calls -> {"none", "open", "made", "free"}]
    /\ queue \in [Messages -> [state : {"free", "ready", "active"},
                               tries : 0..RetryLimit, carried : Nat]]
    /\ worker \in [Workers -> [pc : Places, msg : 0..MaxMessages, eff : Nat,
                               task : 0..MaxCalls, call : 0..MaxCalls,
                               committed : BOOLEAN, last : BOOLEAN]]
    /\ sweep \in Nat
    /\ absorbed \in BOOLEAN
    /\ faults \in [FaultKinds -> Nat]

\* Whatever gets there first, the credits of the job and its result move
\* together: PaidWork.
Work == INSTANCE PaidWork WITH delivered <- outputs
KeepsThePromise == Work!Safety

\* No hold stays open for ever: some handler, button or sweep closes it.
HoldCloses == Work!Closes

\* The chat thread of an ended job is not left waiting for its last message.
ThreadIsTold ==
    status \in {"DONE", "FAILED"} /\ message = "none" ~> message # "none" \/ status = "gone"

\* FAILED and CANCELLED tell the merchant one thing, "you were not charged".
EndedMeansRefunded == status \in {"FAILED", "CANCELLED"} => hold = "refunded"

\* The engine is never asked again while an earlier order is billed or may
\* still come to be billed.
OneLiveCall == Cardinality({n \in Calls : engine[n] \in {"open", "made"}}) <= 1

\* A result is thrown away only when the merchant already has the credits back.
AbsorbedMeansRefunded == absorbed => hold = "refunded"

\* The thread's one terminal message tells the truth about the money.
MessageIsTrue ==
    /\ message = "result" => hold = "settled"
    /\ message = "error" => hold = "refunded"

\* Some faults break these four: a statement that rejects and, for a video, a
\* worker that dies or a delivery that expires (one run shows it of
\* EndedMeansRefunded).  Short of those they hold: an ended job was refunded ...
Undisturbed ==
    /\ faults["blip"] = 0
    /\ kind = "VIDEO" => faults["crash"] = 0 /\ faults["overrun"] = 0
EndsRefunded == Undisturbed => EndedMeansRefunded
\* ... the engine has at most one order of the job that costs something ...
OrdersOnce == Undisturbed => OneLiveCall
\* ... no result is thrown away that the merchant still pays for ...
AbsorbsRefunded == Undisturbed => AbsorbedMeansRefunded
\* ... and the thread does not lie.
TellsTruth == Undisturbed => MessageIsTrue
=============================================================================
