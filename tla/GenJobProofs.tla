---------------------------- MODULE GenJobProofs ----------------------------
(***************************************************************************)
(* The theorems about GenJob, for any number of delivery slots, messages,  *)
(* calls, faults and retries: its state stays well typed, the credits of   *)
(* a job and its result move together as PaidWork promises, and short of   *)
(* some faults the job is ordered once and nobody is told a lie.           *)
(*                                                                         *)
(* PaidWork's steps are not inductive by themselves: that a terminal write *)
(* gives the credits back, or leaves a charge alone, depends on what the   *)
(* row, the hold and every delivery's memory of a commit say of each       *)
(* other.  MoneyInv is that agreement.                                     *)
(*                                                                         *)
(* What Undisturbed promises rests on more: that one delivery at a time    *)
(* works for the job, and that whatever the engine may still bill is the   *)
(* order this delivery, or the row, knows of.  CalmInv says who may be     *)
(* where, and the lemmas OneMovesOn and WorldMovesOn reduce every step to  *)
(* what it does to the delivery that moves.                                *)
(***************************************************************************)
EXTENDS GenJob, FiniteSetTheorems, TLAPS

Slots == [pc : Places, msg : 0..MaxMessages, eff : Nat,
          task : 0..MaxCalls, call : 0..MaxCalls,
          committed : BOOLEAN, last : BOOLEAN]
Packets == [state : {"free", "ready", "active"}, tries : 0..RetryLimit, carried : Nat]

\* A delivery that knows of a commit, or is about to act on one.
PastCommit(w) == worker[w].committed \/ worker[w].pc \in {"finish", "resume"}

\* What the row and the hold say of each other:
RowInv ==
    \* a stored result is paid for;
    /\ outputs => hold = "settled"
    \* there is a hold exactly if there is a job;
    /\ status = "none" <=> hold = "none"
    \* a job under way without a result still has its hold, and no other job has;
    /\ status \in InFlight /\ ~outputs <=> hold = "open"
    \* a refund ends the job.
    /\ hold = "refunded" => status \in {"FAILED", "CANCELLED", "gone"}

\* Who knows of a commit knows of a charge.
CommitInv == \A w \in Workers : PastCommit(w) => hold = "settled"

MoneyInv == TypeOK /\ RowInv /\ CommitInv

-----------------------------------------------------------------------------
\* Building blocks.

\* An idle slot remembers nothing.
LEMMA IdleShape ==
    Idle \in Slots /\ Idle.pc = "idle" /\ Idle.msg = 0 /\ Idle.committed = FALSE
<1>1. 0 \in 0..MaxMessages /\ 0 \in 0..MaxCalls /\ 0 \in Nat
  BY ShapeAssumption
<1> QED
  BY <1>1 DEF Idle, Slots, Places

\* Goes keeps a slot well formed and never makes it remember a commit.
LEMMA GoesShape ==
    ASSUME worker \in [Workers -> Slots], NEW w \in Workers, NEW pc \in Places, Goes(w, pc)
    PROVE  /\ worker' \in [Workers -> Slots]
           /\ worker'[w].pc = pc
           /\ worker'[w].committed => worker[w].committed
           /\ \A v \in Workers \ {w} : worker'[v] = worker[v]
<1>1. worker[w] \in Slots
  OBVIOUS
<1>2. CASE pc \in Closing
  <2> DEFINE r == [Idle EXCEPT !.pc = pc, !.msg = worker[w].msg]
  <2>1. r \in Slots /\ r.pc = pc /\ ~r.committed
    BY <1>1, IdleShape DEF Slots
  <2>2. worker' = [worker EXCEPT ![w] = r]
    BY <1>2 DEF Goes
  <2> QED
    BY <2>1, <2>2
<1>3. CASE pc \notin Closing
  <2>1. worker' = [worker EXCEPT ![w] = [worker[w] EXCEPT !.pc = pc]]
    BY <1>3 DEF Goes
  <2> QED
    BY <1>1, <2>1 DEF Slots
<1> QED
  BY <1>2, <1>3

\* So does GoesLast.
LEMMA GoesLastShape ==
    ASSUME worker \in [Workers -> Slots], NEW w \in Workers, NEW pc \in Places, GoesLast(w, pc)
    PROVE  /\ worker' \in [Workers -> Slots]
           /\ worker'[w].pc = pc
           /\ worker'[w].committed => worker[w].committed
           /\ \A v \in Workers \ {w} : worker'[v] = worker[v]
<1> DEFINE r == [worker[w] EXCEPT !.pc = pc, !.last = TRUE]
<1>1. worker[w] \in Slots
  OBVIOUS
<1>2. r \in Slots /\ r.pc = pc /\ r.committed = worker[w].committed
  BY <1>1 DEF Slots
<1>3. worker' = [worker EXCEPT ![w] = r]
  BY <1>1 DEF GoesLast, Slots
<1> HIDE DEF r
<1> QED
  BY <1>2, <1>3

\* Putting a message back, or dropping it, keeps the queue well formed.
LEMMA RetriedShape ==
    ASSUME queue \in [Messages -> Packets], NEW m \in Messages
    PROVE  Retried(m) \in [Messages -> Packets]
<1>1. queue[m] \in Packets /\ queue[m].tries \in 0..RetryLimit
  BY DEF Packets
<1>2. CASE queue[m].tries < RetryLimit
  <2> DEFINE r == [queue[m] EXCEPT !.state = "ready", !.tries = @ + 1]
  <2>1. queue[m].tries + 1 \in 0..RetryLimit
    BY <1>1, <1>2, ShapeAssumption
  <2>2. r \in Packets
    BY <1>1, <2>1 DEF Packets
  <2>3. Retried(m) = [queue EXCEPT ![m] = r]
    BY <1>2, <1>1 DEF Retried, Packets
  <2> QED
    BY <2>2, <2>3
<1>3. CASE ~(queue[m].tries < RetryLimit)
  <2>1. Free \in Packets
    BY ShapeAssumption DEF Free, Packets
  <2> QED
    BY <1>3, <2>1 DEF Retried
<1> QED
  BY <1>2, <1>3

\* A fault is counted.
LEMMA FaultShape ==
    ASSUME faults \in [FaultKinds -> Nat], NEW f \in FaultKinds, Fault(f)
    PROVE  faults' \in [FaultKinds -> Nat]
  BY DEF Fault

\* What the steps of a delivery do to the slots, in one place.
LEMMA SlotMoves ==
    ASSUME worker \in [Workers -> Slots], NEW w \in Workers
    PROVE  \A pc \in Places : Goes(w, pc) \/ GoesLast(w, pc) => worker' \in [Workers -> Slots]
  BY GoesShape, GoesLastShape

\* The engine and the constants' bounds, as the provers need them.
LEMMA Bounds ==
    /\ 0 \in 0..MaxCalls /\ Calls \subseteq 0..MaxCalls /\ Messages \subseteq 0..MaxMessages
    /\ 0 \in 0..MaxMessages /\ 0 \in 0..RetryLimit /\ 1 \in Messages
  BY ShapeAssumption DEF Calls, Messages

-----------------------------------------------------------------------------
\* Types.

LEMMA TypeInit == Init => TypeOK
<1> SUFFICES ASSUME Init PROVE TypeOK
  OBVIOUS
<1>1. worker \in [Workers -> Slots]
  BY IdleShape DEF Init
<1>2. queue \in [Messages -> Packets]
  BY Bounds DEF Init, Free, Packets
<1> QED
  BY <1>1, <1>2, Bounds DEF Init, TypeOK, Slots, Packets

LEMMA TypeStep == TypeOK /\ [Next]_vars => TypeOK'
<1> SUFFICES ASSUME TypeOK, [Next]_vars PROVE TypeOK'
  OBVIOUS
<1> USE DEF Slots, Packets
<1>t. /\ worker \in [Workers -> Slots]
      /\ queue \in [Messages -> Packets]
      /\ faults \in [FaultKinds -> Nat]
      /\ Faults \subseteq FaultKinds
  BY ShapeAssumption DEF TypeOK
<1>f. \A f \in FaultKinds : Fault(f) => faults' \in [FaultKinds -> Nat]
  BY <1>t, FaultShape
<1>r. \A m \in Messages : Retried(m) \in [Messages -> Packets]
  BY <1>t, RetriedShape
<1>1. CASE StartGen
  BY <1>1, <1>t, Bounds DEF StartGen, TypeOK, job, row, Refund
<1>2. CASE CancelGenJob
  BY <1>2, <1>t, Bounds DEF CancelGenJob, TypeOK, job, row, Refund
<1>3. CASE DeleteProject
  BY <1>3, <1>t, Bounds DEF DeleteProject, TypeOK, job, row, Refund
<1>4. ASSUME NEW w \in Workers, Step(w) PROVE TypeOK'
  <2>m. \A pc \in Places : Goes(w, pc) \/ GoesLast(w, pc) => worker' \in [Workers -> Slots]
    BY <1>t, SlotMoves
  <2>1. CASE ReadInputsFails(w)
    <3>1. worker' \in [Workers -> Slots]
      BY <2>1, <2>m DEF ReadInputsFails, Places
    <3> QED
      BY <2>1, <3>1, <1>f DEF ReadInputsFails, TypeOK, job, row, Refund, Settle, FaultKinds
  <2>2. CASE Claim(w)
    <3>1. worker' \in [Workers -> Slots]
      BY <2>2, <2>m DEF Claim, Places
    <3>2. claims' \in Nat
      BY <2>2 DEF Claim, TypeOK
    <3>3. old' \subseteq {"row", "claim", "task"}
      BY <2>2 DEF Claim, TypeOK
    <3>4. hold' \in {"none", "open", "settled", "refunded"}
      BY <2>2 DEF Claim, TypeOK, Refund
    <3>5. status' \in {"none", "QUEUED", "GENERATING", "DONE", "FAILED", "CANCELLED", "gone"}
      BY <2>2 DEF Claim, TypeOK
    <3> QED
      BY <2>2, <3>1, <3>2, <3>3, <3>4, <3>5 DEF Claim, TypeOK
  <2>3. CASE RefuseToSpend(w)
    <3>1. worker' \in [Workers -> Slots]
      BY <2>3, <2>m DEF RefuseToSpend, Places
    <3> QED
      BY <2>3, <3>1, <1>f DEF RefuseToSpend, TypeOK, job, row, Refund, Settle, FaultKinds
  <2>4. CASE FailClosed(w)
    <3>1. worker' \in [Workers -> Slots]
      BY <2>4, <2>m DEF FailClosed, Places
    <3> QED
      BY <2>4, <3>1, <1>f DEF FailClosed, TypeOK, job, row, Refund, Settle, FaultKinds
  <2>5. CASE Call(w)
    <3>1. PICK n \in Calls : /\ engine' = [engine EXCEPT ![n] = "open"]
                             /\ worker' = [worker EXCEPT ![w].pc = "calling", ![w].call = n]
      BY <2>5 DEF Call
    <3>2. n \in 0..MaxCalls /\ "calling" \in Places
      BY Bounds DEF Places
    <3>3. worker' \in [Workers -> Slots]
      <4> DEFINE r == [worker[w] EXCEPT !.pc = "calling", !.call = n]
      <4>0. worker[w] \in Slots
        BY <1>t
      <4>1. r \in Slots
        BY <4>0, <3>2
      <4>2. worker' = [worker EXCEPT ![w] = r]
        BY <1>t, <3>1
      <4> QED
        BY <1>t, <4>1, <4>2
    <3>4. engine' \in [Calls -> {"none", "open", "made", "free"}]
      BY <3>1 DEF TypeOK
    <3> QED
      BY <2>5, <3>3, <3>4 DEF Call, TypeOK, job, row
  <2>6. CASE Answer(w)
    <3>1. worker' \in [Workers -> Slots]
      BY <2>6, <2>m DEF Answer, Places
    <3> QED
      BY <2>6, <3>1, <1>f DEF Answer, TypeOK, job, row, Refund, Settle, FaultKinds
  <2>7. CASE PersistTask(w)
    <3>1. "followUp" \in Places /\ "ack" \in Places /\ "throw" \in Places
      BY DEF Places
    <3>2. worker' \in [Workers -> Slots]
      BY <2>7, <2>m, <3>1 DEF PersistTask
    <3>3. worker[w].call \in 0..MaxCalls
      BY <1>t
    <3>4. task' \in 0..MaxCalls /\ old' \subseteq {"row", "claim", "task"}
      BY <2>7, <3>3 DEF PersistTask, TypeOK
    <3>5. absorbed' \in BOOLEAN /\ faults' \in [FaultKinds -> Nat]
      BY <2>7, <1>t, <1>f DEF PersistTask, TypeOK, FaultKinds
    <3> QED
      BY <2>7, <3>2, <3>4, <3>5 DEF PersistTask, TypeOK
  <2>8. CASE Poll(w)
    <3>1. worker' \in [Workers -> Slots]
      BY <2>8, <2>m DEF Poll, Places
    <3> QED
      BY <2>8, <3>1, <1>f DEF Poll, TypeOK, job, row, Refund, Settle, FaultKinds
  <2>9. CASE ClearTask(w)
    <3>1. worker' \in [Workers -> Slots]
      BY <2>9, <2>m DEF ClearTask, Places
    <3> QED
      BY <2>9, <3>1, <1>f, Bounds DEF ClearTask, TypeOK, job, row, Refund, Settle, FaultKinds
  <2>10. CASE Store(w)
    <3>1. "finish" \in Places /\ "discard" \in Places /\ "throw" \in Places
      BY DEF Places
    <3>2. worker' \in [Workers -> Slots]
      BY <2>10, <2>m, <1>t, <3>1 DEF Store
    <3>3. /\ outputs' \in BOOLEAN /\ faults' \in [FaultKinds -> Nat]
          /\ hold' \in {"none", "open", "settled", "refunded"}
      BY <2>10, <1>t, <1>f DEF Store, TypeOK, Settle, FaultKinds
    <3> QED
      BY <2>10, <3>2, <3>3 DEF Store, TypeOK
  <2>11. CASE DiscardOutputs(w)
    <3>1. worker' \in [Workers -> Slots]
      BY <2>11, <2>m DEF DiscardOutputs, Places
    <3> QED
      BY <2>11, <3>1, <1>f DEF DiscardOutputs, TypeOK, job, row, Refund, Settle, FaultKinds
  <2>12. CASE Finish(w)
    <3>1. worker' \in [Workers -> Slots]
      BY <2>12, <2>m DEF Finish, Places
    <3> QED
      BY <2>12, <3>1, <1>f DEF Finish, TypeOK, job, row, Refund, Settle, FaultKinds
  <2>13. CASE Resume(w)
    <3>1. worker' \in [Workers -> Slots]
      BY <2>13, <2>m DEF Resume, Places
    <3> QED
      BY <2>13, <3>1, <1>f DEF Resume, TypeOK, job, row, Refund, Settle, FaultKinds
  <2>14. CASE Tell(w)
    <3>1. worker' \in [Workers -> Slots]
      BY <2>14, <2>m DEF Tell, Places
    <3> QED
      BY <2>14, <3>1, <1>f DEF Tell, TypeOK, job, row, Refund, Settle, FaultKinds
  <2>15. CASE Catch(w)
    <3>1. worker' \in [Workers -> Slots]
      BY <2>15, <2>m DEF Catch, Places
    <3> QED
      BY <2>15, <3>1, <1>f DEF Catch, TypeOK, job, row, Refund, Settle, FaultKinds
  <2>16. CASE FollowUp(w)
    BY <2>16, <2>m, <1>t, <1>f, Bounds DEF FollowUp, TypeOK, job, row, Refund, Settle, Places, FaultKinds
  <2>17. CASE Complete(w)
    <3>1. worker' \in [Workers -> Slots]
      BY <2>17, <1>t, IdleShape DEF Complete
    <3>2. worker[w].msg = 0 \/ worker[w].msg \in Messages
      BY <1>t, ShapeAssumption DEF Messages
    <3>3. Free \in Packets
      BY Bounds DEF Free
    <3>4. queue' \in [Messages -> Packets]
      BY <2>17, <1>t, <1>r, <3>2, <3>3 DEF Complete
    <3> QED
      BY <2>17, <3>1, <3>4 DEF Complete, TypeOK, job, row
  <2> QED
    BY <1>4, <2>1, <2>2, <2>3, <2>4, <2>5, <2>6, <2>7, <2>8, <2>9, <2>10, <2>11, <2>12, <2>13, <2>14, <2>15, <2>16, <2>17 DEF Step
<1>5. ASSUME NEW w \in Workers, Crash(w) PROVE TypeOK'
  BY <1>5, <1>t, <1>f, IdleShape DEF Crash, TypeOK, job, row, FaultKinds
<1>6. ASSUME NEW w \in Workers, NEW m \in Messages, Fetch(w, m) PROVE TypeOK'
  <2>1. queue' \in [Messages -> Packets]
    BY <1>6, <1>t DEF Fetch
  <2>2. Effective(m) \in Nat /\ task \in 0..MaxCalls /\ m \in 0..MaxMessages
    <3>1. queue[m].tries \in Nat /\ queue[m].carried \in Nat
      BY <1>t, ShapeAssumption
    <3> QED
      BY <3>1, Bounds DEF Effective, Larger, TypeOK
  <2>3. PICK pc \in {"ack", "resume", "begin", "followUp"} :
          worker' = [worker EXCEPT ![w] =
              IF pc = "ack" THEN [Idle EXCEPT !.pc = pc, !.msg = m]
              ELSE [pc |-> IF pc # "begin" THEN pc ELSE IF task # 0 THEN "poll" ELSE "claim",
                    msg |-> m, eff |-> Effective(m), task |-> task, call |-> 0,
                    committed |-> pc = "resume", last |-> FALSE]]
    <3> DEFINE S == IF status \in {"gone", "DONE"} THEN {"ack"}
                      ELSE IF outputs THEN {"resume"}
                      ELSE IF status \in {"FAILED", "CANCELLED"} THEN {"ack"}
                      ELSE IF status = "QUEUED" /\ "row" \notin old THEN {"begin", "followUp"}
                      ELSE {"begin"}
    <3>1. S \subseteq {"ack", "resume", "begin", "followUp"}
      OBVIOUS
    <3>2. \E pc \in S : worker' = [worker EXCEPT ![w] =
              IF pc = "ack" THEN [Idle EXCEPT !.pc = pc, !.msg = m]
              ELSE [pc |-> IF pc # "begin" THEN pc ELSE IF task # 0 THEN "poll" ELSE "claim",
                    msg |-> m, eff |-> Effective(m), task |-> task, call |-> 0,
                    committed |-> pc = "resume", last |-> FALSE]]
      BY <1>6 DEF Fetch
    <3> HIDE DEF S
    <3> QED
      BY <3>1, <3>2
  <2>4. CASE pc = "ack"
    <3> DEFINE r == [Idle EXCEPT !.pc = pc, !.msg = m]
    <3>1. r \in Slots
      BY <2>2, <2>4, IdleShape DEF Places
    <3>2. worker' = [worker EXCEPT ![w] = r]
      BY <2>3, <2>4
    <3> QED
      BY <1>6, <1>t, <2>1, <3>1, <3>2 DEF Fetch, TypeOK, job, row
  <2>5. CASE pc # "ack"
    <3> DEFINE next == IF pc # "begin" THEN pc ELSE IF task # 0 THEN "poll" ELSE "claim"
               r == [pc |-> next, msg |-> m, eff |-> Effective(m), task |-> task, call |-> 0,
                     committed |-> pc = "resume", last |-> FALSE]
    <3>1. next \in Places /\ (pc = "resume") \in BOOLEAN /\ FALSE \in BOOLEAN
      BY <2>3 DEF Places
    <3> HIDE DEF next
    <3>2. r \in Slots
      BY <2>2, <3>1, Bounds
    <3>3. worker' = [worker EXCEPT ![w] = r]
      BY <2>3, <2>5 DEF next
    <3> HIDE DEF r
    <3>4. worker' \in [Workers -> Slots]
      BY <1>t, <3>2, <3>3
    <3> QED
      BY <1>6, <2>1, <3>4 DEF Fetch, TypeOK, job, row
  <2> QED
    BY <2>4, <2>5
<1>7. ASSUME NEW m \in Messages, Expire(m) PROVE TypeOK'
  <2>1. queue' \in [Messages -> Packets]
    BY <1>7, <1>r DEF Expire
  <2>2. worker' \in [Workers -> Slots] /\ faults' \in [FaultKinds -> Nat]
    BY <1>7, <1>t, <1>f, Bounds DEF Expire, TypeOK, FaultKinds
  <2> QED
    BY <1>7, <2>1, <2>2 DEF Expire, TypeOK, job, row
<1>8. ASSUME NEW n \in Calls, EngineEnds(n) PROVE TypeOK'
  BY <1>8 DEF EngineEnds, TypeOK, job, row
<1>9. CASE Reaper \/ RedeliverResult
  <2>1. CASE ReapRead
    BY <2>1 DEF ReapRead, TypeOK, job, row
  <2>2. CASE ReapWrite
    BY <2>2 DEF ReapWrite, TypeOK, Refund
  <2>3. CASE ReapQueued
    BY <2>3 DEF ReapQueued, TypeOK, Refund
  <2>4. CASE ReapCommitted
    BY <2>4 DEF ReapCommitted, TypeOK, Settle
  <2>5. CASE RedeliverResult
    BY <2>5 DEF RedeliverResult, TypeOK, row
  <2> QED
    BY <1>9, <2>1, <2>2, <2>3, <2>4, <2>5 DEF Reaper
<1>10. ASSUME NEW clock \in {"row", "claim", "task"}, Ages(clock) PROVE TypeOK'
  BY <1>10 DEF Ages, TypeOK, row
<1>11. CASE UNCHANGED vars
  BY <1>11 DEF vars, job, row, TypeOK
<1> QED
  BY <1>1, <1>2, <1>3, <1>4, <1>5, <1>6, <1>7, <1>8, <1>9, <1>10, <1>11 DEF Next

-----------------------------------------------------------------------------
\* Money.

\* Only storing the outputs, and the reading that finds them, take a delivery
\* past the commit.
LEMMA NoNewCommit ==
    ASSUME worker \in [Workers -> Slots], NEW w \in Workers
    PROVE  \A pc \in Places \ {"finish", "resume"} :
             Goes(w, pc) \/ GoesLast(w, pc) => \A v \in Workers : PastCommit(v)' => PastCommit(v)
  BY GoesShape, GoesLastShape DEF PastCommit

\* A step of PaidWork, or none.
WorkStep == [Work!Next]_(Work!work)

LEMMA MoneyInit == Init => MoneyInv /\ Work!Init
<1> SUFFICES ASSUME Init PROVE MoneyInv /\ Work!Init
  OBVIOUS
<1>1. TypeOK
  BY TypeInit
<1>2. RowInv /\ Work!Init
  BY DEF Init, RowInv, InFlight, Work!Init
<1>3. CommitInv
  BY IdleShape DEF Init, CommitInv, PastCommit
<1> QED
  BY <1>1, <1>2, <1>3 DEF MoneyInv

LEMMA MoneyStep == MoneyInv /\ [Next]_vars => MoneyInv' /\ WorkStep
<1> SUFFICES ASSUME TypeOK, RowInv, CommitInv, [Next]_vars
             PROVE  TypeOK' /\ RowInv' /\ CommitInv' /\ WorkStep
  BY DEF MoneyInv
<1> DEFINE Good == RowInv' /\ CommitInv' /\ WorkStep
           Quiet == UNCHANGED <<status, outputs, hold>>
           NoNew == \A v \in Workers : PastCommit(v)' => PastCommit(v)
<1>t. TypeOK' /\ worker \in [Workers -> Slots]
  BY TypeStep DEF TypeOK, Slots
<1>q. ASSUME Quiet, NoNew PROVE Good
  <2>1. RowInv'
    BY <1>q DEF RowInv
  <2>2. CommitInv'
    BY <1>q DEF CommitInv
  <2>3. WorkStep
    BY <1>q DEF WorkStep, Work!work
  <2> QED
    BY <2>1, <2>2, <2>3
<1>1. CASE StartGen
  <2>1. NoNew
    BY <1>1 DEF StartGen, PastCommit
  <2>2. RowInv'
    BY <1>1 DEF StartGen, RowInv, TypeOK, InFlight, Refund
  <2>3. CommitInv'
    BY <1>1, <2>1 DEF StartGen, RowInv, CommitInv, PastCommit, InFlight, Refund
  <2>4. WorkStep
    BY <1>1 DEF StartGen, RowInv, TypeOK, InFlight, WorkStep, Work!Next, Work!work, Work!Accept, Work!GiveBack, Work!Discard, Refund
  <2> QED
    BY <1>t, <2>2, <2>3, <2>4
<1>2. CASE CancelGenJob
  <2>1. NoNew
    BY <1>2 DEF CancelGenJob, PastCommit
  <2>2. RowInv'
    BY <1>2 DEF CancelGenJob, RowInv, TypeOK, InFlight, Refund
  <2>3. CommitInv'
    BY <1>2, <2>1 DEF CancelGenJob, RowInv, CommitInv, PastCommit, InFlight, Refund
  <2>4. WorkStep
    BY <1>2 DEF CancelGenJob, RowInv, TypeOK, InFlight, WorkStep, Work!Next, Work!work, Work!Accept, Work!GiveBack, Work!Discard, Refund
  <2> QED
    BY <1>t, <2>2, <2>3, <2>4
<1>3. CASE DeleteProject
  <2>1. NoNew
    BY <1>3 DEF DeleteProject, PastCommit
  <2>2. RowInv'
    BY <1>3 DEF DeleteProject, RowInv, TypeOK, InFlight, Refund
  <2>3. CommitInv'
    BY <1>3, <2>1 DEF DeleteProject, RowInv, CommitInv, PastCommit, InFlight, Refund
  <2>4. WorkStep
    BY <1>3 DEF DeleteProject, RowInv, TypeOK, InFlight, WorkStep, Work!Next, Work!work, Work!Accept, Work!GiveBack, Work!Discard, Refund
  <2> QED
    BY <1>t, <2>2, <2>3, <2>4
<1>4. ASSUME NEW w \in Workers, Step(w) PROVE Good
  <2>m. \A pc \in Places \ {"finish", "resume"} : Goes(w, pc) \/ GoesLast(w, pc) => NoNew
    BY <1>t, NoNewCommit
  <2>1. CASE ReadInputsFails(w)
    <3>1. NoNew
      BY <2>1, <2>m DEF ReadInputsFails, Places
    <3>2. Quiet
      BY <2>1 DEF ReadInputsFails, job, row
    <3> QED
      BY <3>1, <3>2, <1>q
  <2>2. CASE Claim(w)
    <3>1. NoNew
      BY <2>2, <2>m DEF Claim, Places
    <3> QED
      BY <2>2, <3>1 DEF Claim, At, TypeOK, RowInv, CommitInv, InFlight, PastCommit, WorkStep, Work!Next, Work!work, Work!Accept, Work!Deliver, Work!GiveBack, Work!Discard, job, row, Refund, Settle
  <2>3. CASE RefuseToSpend(w)
    <3>1. NoNew
      BY <2>3, <2>m DEF RefuseToSpend, Places
    <3>2. Quiet
      BY <2>3 DEF RefuseToSpend, job, row
    <3> QED
      BY <3>1, <3>2, <1>q
  <2>4. CASE FailClosed(w)
    <3>1. NoNew
      BY <2>4, <2>m DEF FailClosed, Places
    <3> QED
      BY <2>4, <3>1 DEF FailClosed, At, TypeOK, RowInv, CommitInv, InFlight, PastCommit, WorkStep, Work!Next, Work!work, Work!Accept, Work!Deliver, Work!GiveBack, Work!Discard, job, row, Refund, Settle
  <2>5. CASE Call(w)
    <3>1. NoNew
      BY <2>5, <1>t DEF Call, PastCommit, Slots
    <3>2. Quiet
      BY <2>5 DEF Call, job, row
    <3> QED
      BY <3>1, <3>2, <1>q
  <2>6. CASE Answer(w)
    <3>1. NoNew
      BY <2>6, <2>m DEF Answer, Places
    <3>2. Quiet
      BY <2>6 DEF Answer, job, row
    <3> QED
      BY <3>1, <3>2, <1>q
  <2>7. CASE PersistTask(w)
    <3>1. NoNew
      BY <2>7, <2>m DEF PersistTask, Places
    <3>2. Quiet
      BY <2>7 DEF PersistTask, job, row
    <3> QED
      BY <3>1, <3>2, <1>q
  <2>8. CASE Poll(w)
    <3>1. NoNew
      BY <2>8, <2>m DEF Poll, Places
    <3>2. Quiet
      BY <2>8 DEF Poll, job, row
    <3> QED
      BY <3>1, <3>2, <1>q
  <2>9. CASE ClearTask(w)
    <3>1. NoNew
      BY <2>9, <2>m DEF ClearTask, Places
    <3>2. Quiet
      BY <2>9 DEF ClearTask, job, row
    <3> QED
      BY <3>1, <3>2, <1>q
  <2>10. CASE Store(w)
    <3>1. CASE status = "GENERATING" /\ ~outputs /\ outputs' = TRUE
      <4>1. hold = "open" /\ hold' = "settled" /\ UNCHANGED status
        BY <2>10, <3>1 DEF Store, RowInv, InFlight, Settle
      <4> QED
        BY <3>1, <4>1 DEF RowInv, CommitInv, InFlight, WorkStep, Work!Next, Work!Deliver
    <3>2. CASE UNCHANGED <<outputs, hold>> /\ (Goes(w, "discard") \/ Goes(w, "throw"))
      <4>1. NoNew
        BY <3>2, <2>m DEF Places
      <4>2. Quiet
        BY <2>10, <3>2 DEF Store
      <4> QED
        BY <4>1, <4>2, <1>q
    <3> QED
      BY <2>10, <3>1, <3>2 DEF Store
  <2>11. CASE DiscardOutputs(w)
    <3>1. NoNew
      BY <2>11, <2>m DEF DiscardOutputs, Places
    <3>2. Quiet
      BY <2>11 DEF DiscardOutputs, job, row
    <3> QED
      BY <3>1, <3>2, <1>q
  <2>12. CASE Finish(w)
    <3>1. NoNew
      BY <2>12, <2>m DEF Finish, Places
    <3> QED
      BY <2>12, <3>1 DEF Finish, At, TypeOK, RowInv, CommitInv, InFlight, PastCommit, WorkStep, Work!Next, Work!work, Work!Accept, Work!Deliver, Work!GiveBack, Work!Discard, job, row, Refund, Settle
  <2>13. CASE Resume(w)
    <3>1. NoNew
      BY <2>13, <2>m DEF Resume, Places
    <3> QED
      BY <2>13, <3>1 DEF Resume, At, TypeOK, RowInv, CommitInv, InFlight, PastCommit, WorkStep, Work!Next, Work!work, Work!Accept, Work!Deliver, Work!GiveBack, Work!Discard, job, row, Refund, Settle
  <2>14. CASE Tell(w)
    <3>1. NoNew
      BY <2>14, <2>m DEF Tell, Places
    <3>2. Quiet
      BY <2>14 DEF Tell, job, row
    <3> QED
      BY <3>1, <3>2, <1>q
  <2>15. CASE Catch(w)
    <3>1. NoNew
      BY <2>15, <2>m DEF Catch, Places
    <3> QED
      BY <2>15, <3>1 DEF Catch, At, TypeOK, RowInv, CommitInv, InFlight, PastCommit, WorkStep, Work!Next, Work!work, Work!Accept, Work!Deliver, Work!GiveBack, Work!Discard, job, row, Refund, Settle
  <2>16. CASE FollowUp(w)
    <3>1. NoNew
      BY <2>16, <2>m DEF FollowUp, Places
    <3>2. Quiet
      BY <2>16 DEF FollowUp, job, row
    <3> QED
      BY <3>1, <3>2, <1>q
  <2>17. CASE Complete(w)
    <3>1. NoNew
      BY <2>17, <1>t, IdleShape DEF Complete, PastCommit
    <3>2. Quiet
      BY <2>17 DEF Complete, job, row
    <3> QED
      BY <3>1, <3>2, <1>q
  <2> QED
    BY <1>4, <2>1, <2>2, <2>3, <2>4, <2>5, <2>6, <2>7, <2>8, <2>9, <2>10, <2>11, <2>12, <2>13, <2>14, <2>15, <2>16, <2>17 DEF Step
<1>5. ASSUME NEW w \in Workers, Crash(w) PROVE Good
  <2>1. NoNew
    BY <1>5, <1>t, IdleShape DEF Crash, PastCommit
  <2>2. Quiet
    BY <1>5 DEF Crash, job, row
  <2> QED
    BY <2>1, <2>2, <1>q
<1>6. ASSUME NEW w \in Workers, NEW m \in Messages, Fetch(w, m) PROVE Good
  <2>1. Quiet
    BY <1>6 DEF Fetch, job, row
  <2>2. CASE outputs
    BY <2>1, <2>2 DEF RowInv, CommitInv, WorkStep, Work!work
  <2>3. CASE ~outputs
    <3>1. PICK pc \in {"ack", "begin", "followUp"} :
            worker' = [worker EXCEPT ![w] =
                IF pc = "ack" THEN [Idle EXCEPT !.pc = pc, !.msg = m]
                ELSE [pc |-> IF pc # "begin" THEN pc ELSE IF task # 0 THEN "poll" ELSE "claim",
                      msg |-> m, eff |-> Effective(m), task |-> task, call |-> 0,
                      committed |-> pc = "resume", last |-> FALSE]]
      BY <1>6, <2>3 DEF Fetch
    <3>2. ~PastCommit(w)'
      <4>1. CASE pc = "ack"
        <5> DEFINE r == [Idle EXCEPT !.pc = pc, !.msg = m]
        <5>1. ~r.committed /\ r.pc = "ack"
          BY <4>1, IdleShape DEF Slots
        <5>2. worker'[w] = r
          BY <1>t, <3>1, <4>1
        <5> QED
          BY <5>1, <5>2 DEF PastCommit
      <4>2. CASE pc # "ack"
        <5>1. /\ worker'[w].committed = (pc = "resume")
              /\ worker'[w].pc \in {"followUp", "poll", "claim"}
          BY <1>t, <3>1, <4>2
        <5> QED
          BY <5>1, <3>1 DEF PastCommit
      <4> QED
        BY <4>1, <4>2
    <3>3. NoNew
      BY <1>6, <1>t, <3>1, <3>2 DEF PastCommit
    <3> QED
      BY <2>1, <3>3, <1>q
  <2> QED
    BY <2>2, <2>3
<1>7. ASSUME NEW m \in Messages, Expire(m) PROVE Good
  <2>1. NoNew
    BY <1>7, <1>t DEF Expire, PastCommit, Slots
  <2>2. Quiet
    BY <1>7 DEF Expire, job, row
  <2> QED
    BY <2>1, <2>2, <1>q
<1>8. ASSUME NEW n \in Calls, EngineEnds(n) PROVE Good
  BY <1>8, <1>q DEF EngineEnds, PastCommit, job, row
<1>9. CASE Reaper \/ RedeliverResult
  <2>1. NoNew
    BY <1>9 DEF Reaper, ReapRead, ReapWrite, ReapQueued, ReapCommitted, RedeliverResult, PastCommit
  <2>2. CASE ReapRead \/ RedeliverResult
    BY <2>1, <2>2, <1>t, <1>q DEF ReapRead, RedeliverResult, job, row
  <2>3. CASE ReapWrite
    BY <2>1, <2>3 DEF ReapWrite, TypeOK, RowInv, CommitInv, InFlight, PastCommit, WorkStep, Work!Next, Work!work, Work!Accept, Work!Deliver, Work!GiveBack, Work!Discard, job, row, Refund, Settle
  <2>4. CASE ReapQueued
    BY <2>1, <2>4 DEF ReapQueued, TypeOK, RowInv, CommitInv, InFlight, PastCommit, WorkStep, Work!Next, Work!work, Work!Accept, Work!Deliver, Work!GiveBack, Work!Discard, job, row, Refund, Settle
  <2>5. CASE ReapCommitted
    BY <2>1, <2>5 DEF ReapCommitted, TypeOK, RowInv, CommitInv, InFlight, PastCommit, WorkStep, Work!Next, Work!work, Work!Accept, Work!Deliver, Work!GiveBack, Work!Discard, job, row, Refund, Settle
  <2> QED
    BY <1>9, <2>2, <2>3, <2>4, <2>5 DEF Reaper
<1>10. ASSUME NEW clock \in {"row", "claim", "task"}, Ages(clock) PROVE Good
  BY <1>10, <1>q DEF Ages, PastCommit, row
<1>11. CASE UNCHANGED vars
  BY <1>11, <1>t, <1>q DEF vars, job, row, PastCommit
<1> QED
  BY <1>t, <1>1, <1>2, <1>3, <1>4, <1>5, <1>6, <1>7, <1>8, <1>9, <1>10, <1>11 DEF Next

-----------------------------------------------------------------------------
\* Undisturbed.  Short of the faults that Undisturbed names, one delivery at a
\* time works for the job: it claimed the row, or awaits its video.
Owned == {"call", "calling", "marker", "poll", "clear", "store", "discard"}
Fails(w) == At(w, "throw") /\ ~worker[w].committed
Unpaid(w) == worker[w].pc \in Owned \/ Fails(w)
Works(w) == Unpaid(w) \/ At(w, "finish")

\* It fails for now: nothing was billed, so the job goes back to the queue.
Retries(w) == Fails(w) /\ ~worker[w].last

\* The calls that are billed or may still come to be.
Owed == {n \in Calls : engine[n] \in {"open", "made"}}

\* What is so of the job while delivery w is where it is.
Placed(w) ==
    /\ Works(w) => status # "QUEUED"
    /\ Unpaid(w) => hold # "settled"
    /\ worker[w].pc \in {"finish", "resume"} => worker[w].committed
    /\ At(w, "store") => worker[w].last
    /\ At(w, "throw") /\ worker[w].committed => status = "gone"
    /\ At(w, "discard") => status \notin InFlight
    /\ At(w, "tellResult") => hold = "settled"
    /\ worker[w].pc \in {"tellError", "tellFailed"} => hold = "refunded"
    /\ kind = "IMAGE" => worker[w].pc \notin {"marker", "poll", "clear"}
    /\ status = "GENERATING" /\ (worker[w].pc \in {"call", "calling"} \/ Retries(w)) => task = 0
    /\ worker[w].pc \in {"call", "clear"} \/ Retries(w) => Owed = {}
    /\ worker[w].pc \in {"calling", "marker"} => Owed \subseteq {worker[w].call}
    /\ At(w, "poll") => /\ Owed \subseteq {worker[w].task}
                        /\ status = "GENERATING" => task = worker[w].task

\* Nothing happens before there is a job.
Before == status = "none" =>
    /\ \A w \in Workers : At(w, "idle")
    /\ \A m \in Messages : queue[m].state = "free"
    /\ task = 0 /\ Owed = {}

\* A video has one message, and who has it has not answered for it yet.
Carries(w) == worker[w].pc \notin {"idle", "ack"}
OneMessage == kind = "VIDEO" =>
    /\ \A v, w \in Workers : Carries(v) /\ Carries(w) => v = w
    /\ \A m, n \in Messages : queue[m].state = "ready" /\ queue[n].state = "ready" => m = n
    /\ \A m \in Messages, w \in Workers : queue[m].state = "ready" => ~Carries(w)
    /\ \A m \in Messages : queue[m].state = "active"
           => \E w \in Workers : worker[w].pc # "idle" /\ worker[w].msg = m

OneWorks == \A v, w \in Workers : Works(v) /\ Works(w) => v = w
OneOrder == \A m, n \in Owed : m = n
ImagesAreNow == kind = "IMAGE" => task = 0

\* A job in the queue starts from nothing, and a video nobody works for is the
\* one the row names.
FromNothing == status = "QUEUED" => ~outputs /\ task = 0 /\ Owed = {}
Awaited == kind = "VIDEO" /\ status = "GENERATING" /\ (\A w \in Workers : ~Works(w))
    => Owed \subseteq {task}

Calm ==
    /\ Before /\ OneMessage /\ OneWorks /\ OneOrder /\ ImagesAreNow /\ FromNothing /\ Awaited
    /\ \A w \in Workers : Placed(w)
    /\ EndedMeansRefunded /\ AbsorbedMeansRefunded /\ MessageIsTrue

CalmInv == MoneyInv /\ (Undisturbed => Calm)

-----------------------------------------------------------------------------
\* What a step does to the deliveries that are not part of it: nothing begins
\* again, and money that moved stays where it is ...
Spares ==
    /\ kind' = kind
    /\ status' = "GENERATING" => status \in InFlight
    /\ status = "gone" => status' = "gone"
    /\ hold \in {"settled", "refunded"} => hold' = hold
\* ... and, unless it is the step of the one that works, the rest of the job too.
Quiet ==
    /\ Owed' \subseteq Owed /\ task' = task
    /\ hold' = "settled" => hold = "settled"
    /\ status' = "QUEUED" => status = "QUEUED"

\* The delivery is where it was, with what it knew; it may have lost its message.
Rests(v) ==
    /\ worker'[v].pc = worker[v].pc /\ worker'[v].committed = worker[v].committed
    /\ worker'[v].last = worker[v].last
    /\ worker'[v].call = worker[v].call /\ worker'[v].task = worker[v].task

LEMMA RestsWorks ==
    ASSUME NEW v \in Workers, Rests(v)
    PROVE  /\ Works(v)' <=> Works(v)
           /\ Unpaid(v)' <=> Unpaid(v)
           /\ Retries(v)' <=> Retries(v)
           /\ Carries(v)' <=> Carries(v)
  BY DEF Rests, Works, Unpaid, Fails, Retries, Carries, At

\* A delivery at rest is still rightly placed.
LEMMA RestsPlaced ==
    ASSUME NEW v \in Workers, Placed(v), Rests(v), Spares, Works(v) => Quiet
    PROVE  Placed(v)'
<1>r. /\ Works(v)' <=> Works(v)
      /\ Unpaid(v)' <=> Unpaid(v)
      /\ Retries(v)' <=> Retries(v)
  BY RestsWorks
<1>1. /\ Works(v)' => status' # "QUEUED"
      /\ Unpaid(v)' => hold' # "settled"
  BY <1>r DEF Placed, Quiet, Works
<1>2. /\ worker'[v].pc \in {"finish", "resume"} => worker'[v].committed
      /\ At(v, "store")' => worker'[v].last
      /\ At(v, "throw")' /\ worker'[v].committed => status' = "gone"
      /\ At(v, "tellResult")' => hold' = "settled"
      /\ worker'[v].pc \in {"tellError", "tellFailed"} => hold' = "refunded"
      /\ kind' = "IMAGE" => worker'[v].pc \notin {"marker", "poll", "clear"}
  BY DEF Placed, Rests, Spares, At
<1>3. worker[v].pc \in Owned \/ Retries(v) => Quiet
  BY DEF Works, Unpaid, Retries
<1>4. At(v, "discard")' => status' \notin InFlight
  BY <1>3 DEF Placed, Rests, Spares, Quiet, At, Owned, InFlight
<1>5. status' = "GENERATING" /\ Works(v) => status = "GENERATING"
  BY DEF Placed, Spares, InFlight
<1>6. /\ status' = "GENERATING" /\ (worker'[v].pc \in {"call", "calling"} \/ Retries(v)') => task' = 0
      /\ worker'[v].pc \in {"call", "clear"} \/ Retries(v)' => Owed' = {}
  <2>1. worker[v].pc \in {"call", "calling", "clear"} \/ Retries(v) => Works(v) /\ Quiet
    BY <1>3 DEF Owned, Works, Unpaid, Retries
  <2> QED
    BY <2>1, <1>r, <1>5 DEF Placed, Rests, Quiet
<1>7. /\ worker'[v].pc \in {"calling", "marker"} => Owed' \subseteq {worker'[v].call}
      /\ At(v, "poll")' => /\ Owed' \subseteq {worker'[v].task}
                           /\ status' = "GENERATING" => task' = worker'[v].task
  <2>1. worker[v].pc \in {"calling", "marker", "poll"} => Works(v) /\ Quiet
    BY <1>3 DEF Owned, Works, Unpaid
  <2> QED
    BY <2>1, <1>5 DEF Placed, Rests, Quiet, At
<1> QED
  BY <1>1, <1>2, <1>4, <1>6, <1>7 DEF Placed

\* A hold that is gone, though nobody was charged, was refunded.
LEMMA EndedWithoutCharge ==
    ASSUME MoneyInv, status # "none", status \notin InFlight, hold # "settled"
    PROVE  hold = "refunded"
  BY DEF MoneyInv, RowInv, TypeOK

\* Nobody is about to act on a job that is not there.
LEMMA SomebodyIsBusy ==
    ASSUME Calm, NEW w \in Workers, ~At(w, "idle")
    PROVE  status # "none"
  BY DEF Calm, Before

LEMMA SameEngine ==
    ASSUME UNCHANGED engine
    PROVE  Owed' = Owed
  BY DEF Owed

\* Whoever moves with its message in hand leaves the queue as it should be.
LEMMA MessageStays ==
    ASSUME OneMessage, NEW w \in Workers, Carries(w),
           UNCHANGED <<kind, queue>>, worker'[w].pc # "idle", worker'[w].msg = worker[w].msg,
           \A v \in Workers \ {w} : worker'[v] = worker[v]
    PROVE  OneMessage'
<1> SUFFICES ASSUME kind = "VIDEO"
             PROVE  /\ \A u, v \in Workers : Carries(u)' /\ Carries(v)' => u = v
                    /\ \A m \in Messages : queue[m].state # "ready"
                    /\ \A m \in Messages : queue[m].state = "active"
                           => \E v \in Workers : worker'[v].pc # "idle" /\ worker'[v].msg = m
  BY DEF OneMessage
<1>1. \A v \in Workers \ {w} : ~Carries(v) /\ ~Carries(v)'
  BY DEF OneMessage, Carries
<1>2. \A v \in Workers : worker'[v].msg = worker[v].msg
  OBVIOUS
<1> QED
  BY <1>1, <1>2 DEF OneMessage

\* A delivery moves, the others do not: what is left to show of its step.
LEMMA OneMovesOn ==
    ASSUME MoneyInv, MoneyInv', Calm, NEW w \in Workers,
           status # "none", status' # "none",
           \A v \in Workers \ {w} : worker'[v] = worker[v],
           Spares, Works(w) \/ Quiet,
           status' = "QUEUED" => (status = "QUEUED" /\ Quiet) \/ (~outputs' /\ task' = 0 /\ Owed' = {}),
           status = "QUEUED" /\ status' = "GENERATING" => Works(w)',
           Works(w)' => Works(w) \/ \A v \in Workers : ~Works(v),
           Works(w) => Works(w)' \/ status' # "GENERATING" \/ kind = "IMAGE" \/ Owed' \subseteq {task'},
           Placed(w)', OneMessage', OneOrder', ImagesAreNow',
           EndedMeansRefunded', AbsorbedMeansRefunded', MessageIsTrue'
    PROVE  Calm'
<1>1. ASSUME NEW v \in Workers \ {w} PROVE Rests(v)
  BY DEF Rests
<1>2. ASSUME NEW v \in Workers \ {w} PROVE Placed(v)' /\ (Works(v)' <=> Works(v))
  <2>1. Works(v) => Quiet
    BY DEF Calm, OneWorks
  <2> QED
    BY <1>1, <2>1, RestsPlaced, RestsWorks DEF Calm
<1>3. \A v \in Workers : Placed(v)'
  BY <1>2
<1>4. OneWorks'
  BY <1>2 DEF Calm, OneWorks
<1>5. Before'
  BY DEF Before
<1>6. FromNothing'
  <2>1. CASE status' = "QUEUED" /\ status = "QUEUED" /\ Quiet
    <3>1. hold = "open" /\ task' = 0 /\ Owed' = {}
      BY <2>1 DEF Calm, FromNothing, Quiet, MoneyInv, RowInv, InFlight
    <3>2. hold' # "settled"
      BY <2>1, <3>1 DEF Quiet
    <3> QED
      BY <3>1, <3>2 DEF FromNothing, MoneyInv, RowInv
  <2> QED
    BY <2>1 DEF FromNothing
<1>7. Awaited'
  <2> SUFFICES ASSUME kind = "VIDEO", status' = "GENERATING", \A v \in Workers : ~Works(v)'
               PROVE  Owed' \subseteq {task'}
    BY DEF Awaited, Spares
  <2>1. CASE Works(w)
    BY <2>1
  <2>2. CASE ~Works(w)
    <3>1. \A v \in Workers : ~Works(v)
      BY <2>2, <1>2
    <3>2. status = "GENERATING"
      BY DEF Spares, InFlight
    <3> QED
      BY <2>2, <3>1, <3>2 DEF Calm, Awaited, Quiet
  <2> QED
    BY <2>1, <2>2
<1> QED
  BY <1>3, <1>4, <1>5, <1>6, <1>7 DEF Calm

\* A step of the merchant, the sweeps, the engine or the clock: no delivery moves.
LEMMA WorldMovesOn ==
    ASSUME MoneyInv, MoneyInv', Calm, status # "none" => status' # "none",
           \A v \in Workers : Rests(v),
           Spares, Quiet, status' = "GENERATING" => status = "GENERATING",
           status' = "none" => UNCHANGED queue,
           OneMessage', EndedMeansRefunded', AbsorbedMeansRefunded', MessageIsTrue'
    PROVE  Calm'
<1>1. ASSUME NEW v \in Workers PROVE Placed(v)' /\ (Works(v)' <=> Works(v))
  BY RestsPlaced, RestsWorks DEF Calm
<1>2. OneWorks'
  BY <1>1 DEF Calm, OneWorks
<1>3. Before'
  BY DEF Calm, Before, Quiet, Rests, At
<1>4. FromNothing'
  <2>1. status' = "QUEUED" => hold = "open"
    BY DEF Calm, FromNothing, Quiet, MoneyInv, RowInv, InFlight
  <2>2. status' = "QUEUED" => hold' # "settled"
    BY <2>1 DEF Quiet
  <2> QED
    BY <2>2 DEF Calm, FromNothing, Quiet, MoneyInv, RowInv
<1>5. Awaited'
  BY <1>1 DEF Calm, Awaited, Quiet, Spares
<1>6. OneOrder' /\ ImagesAreNow'
  BY DEF Calm, OneOrder, ImagesAreNow, Quiet, Spares
<1> QED
  BY <1>1, <1>2, <1>3, <1>4, <1>5, <1>6 DEF Calm

\* No delivery and no message changes.
LEMMA NobodyMoves ==
    ASSUME Calm, UNCHANGED <<kind, queue, worker>>
    PROVE  OneMessage' /\ \A v \in Workers : Rests(v)
<1>1. OneMessage'
  BY DEF Calm, OneMessage, Carries
<1> QED
  BY <1>1 DEF Rests

\* The steps outside the deliveries.
LEMMA WorldKeepsCalm ==
    ASSUME MoneyInv, MoneyInv', Calm,
           \/ CancelGenJob \/ DeleteProject \/ Reaper \/ RedeliverResult
           \/ \E n \in Calls : EngineEnds(n)
           \/ \E clock \in {"row", "claim", "task"} : Ages(clock)
    PROVE  Calm'
<1> USE DEF job, row
<1>r. RowInv /\ RowInv' /\ EndedMeansRefunded /\ MessageIsTrue /\ AbsorbedMeansRefunded
  BY DEF MoneyInv, Calm
<1>n. UNCHANGED engine => Owed' = Owed
  BY SameEngine
<1>u. ASSUME UNCHANGED <<kind, status, hold, message, queue, worker, task, absorbed>>, Owed' \subseteq Owed
      PROVE  Calm'
  <2>1. Spares /\ Quiet
    BY <1>u DEF Spares, Quiet, InFlight
  <2>2. EndedMeansRefunded' /\ AbsorbedMeansRefunded' /\ MessageIsTrue'
    BY <1>r, <1>u DEF EndedMeansRefunded, AbsorbedMeansRefunded, MessageIsTrue
  <2>3. OneMessage' /\ \A v \in Workers : Rests(v)
    BY <1>u, NobodyMoves
  <2> QED
    BY <1>u, <2>1, <2>2, <2>3, WorldMovesOn
<1>1. CASE CancelGenJob
  <2>1. /\ UNCHANGED <<kind, queue, worker, task, engine, absorbed>>
        /\ status = "QUEUED" /\ status' = "CANCELLED" /\ message' = "error"
    BY <1>1 DEF CancelGenJob
  <2>2. hold = "open" /\ hold' = "refunded"
    BY <1>1, <2>1 DEF CancelGenJob, Refund, Calm, FromNothing, MoneyInv, RowInv, InFlight
  <2>3. Spares /\ Quiet
    BY <1>n, <2>1, <2>2 DEF Spares, Quiet
  <2>4. EndedMeansRefunded' /\ AbsorbedMeansRefunded' /\ MessageIsTrue'
    BY <2>1, <2>2 DEF EndedMeansRefunded, AbsorbedMeansRefunded, MessageIsTrue
  <2> QED
    BY <2>1, <2>3, <2>4, NobodyMoves, WorldMovesOn
<1>2. CASE DeleteProject
  <2>1. /\ UNCHANGED <<kind, queue, worker, task, engine, absorbed>>
        /\ status # "none" /\ status' = "gone" /\ message' = "none"
    BY <1>2 DEF DeleteProject
  <2>2. hold \in {"settled", "refunded"} => hold' = hold
    BY <1>2 DEF DeleteProject, Refund
  <2>3. hold' = "settled" => hold = "settled"
    BY <1>2 DEF DeleteProject, Refund
  <2>4. Spares /\ Quiet
    BY <1>n, <2>1, <2>2, <2>3 DEF Spares, Quiet
  <2>5. EndedMeansRefunded' /\ AbsorbedMeansRefunded' /\ MessageIsTrue'
    BY <1>r, <2>1, <2>2 DEF EndedMeansRefunded, AbsorbedMeansRefunded, MessageIsTrue
  <2> QED
    BY <2>1, <2>4, <2>5, NobodyMoves, WorldMovesOn
<1>3. CASE ReapRead
  BY <1>3, <1>n, <1>u DEF ReapRead
<1>4. CASE (ReapWrite \/ ReapQueued) /\ status' # status
  <2>1. /\ UNCHANGED <<kind, queue, worker, task, engine, absorbed>>
        /\ status \in InFlight /\ ~outputs /\ status' = "FAILED" /\ Refund
        /\ message' = IF message = "none" THEN "error" ELSE message
    BY <1>4 DEF ReapWrite, ReapQueued, InFlight
  <2>2. hold = "open" /\ hold' = "refunded" /\ status \notin {"none", "gone"}
    BY <1>r, <2>1 DEF Refund, RowInv, InFlight
  <2>3. Spares /\ Quiet
    BY <1>n, <2>1, <2>2 DEF Spares, Quiet
  <2>4. EndedMeansRefunded' /\ AbsorbedMeansRefunded' /\ MessageIsTrue'
    BY <1>r, <2>1, <2>2 DEF EndedMeansRefunded, AbsorbedMeansRefunded, MessageIsTrue
  <2> QED
    BY <2>1, <2>2, <2>3, <2>4, NobodyMoves, WorldMovesOn
<1>5. CASE (ReapWrite \/ ReapQueued) /\ status' = status
  BY <1>5, <1>n, <1>u DEF ReapWrite, ReapQueued
<1>6. CASE ReapCommitted
  <2>1. hold = "settled"
    BY <1>6, <1>r DEF ReapCommitted, RowInv
  <2>2. /\ UNCHANGED <<kind, hold, queue, worker, task, engine, absorbed>>
        /\ status \in InFlight /\ status' = "DONE" /\ message' \in {message, "result"}
    BY <1>6, <2>1 DEF ReapCommitted, Settle
  <2>3. status \notin {"none", "gone"}
    BY <2>2 DEF InFlight
  <2>4. Spares /\ Quiet
    BY <1>n, <2>2, <2>3 DEF Spares, Quiet
  <2>5. EndedMeansRefunded' /\ AbsorbedMeansRefunded'
    BY <1>r, <2>2 DEF EndedMeansRefunded, AbsorbedMeansRefunded
  <2>6. MessageIsTrue'
    <3>1. message # "error"
      BY <1>r, <2>1 DEF MessageIsTrue
    <3> QED
      BY <2>1, <2>2, <3>1 DEF MessageIsTrue
  <2> QED
    BY <2>2, <2>3, <2>4, <2>5, <2>6, NobodyMoves, WorldMovesOn
<1>7. CASE RedeliverResult
  <2>1. UNCHANGED <<kind, status, hold, queue, worker, task, engine, absorbed>>
    BY <1>7 DEF RedeliverResult
  <2>2. MessageIsTrue'
    BY <1>7, <1>r DEF RedeliverResult, MessageIsTrue, EndedMeansRefunded, RowInv
  <2>3. Spares /\ Quiet /\ EndedMeansRefunded' /\ AbsorbedMeansRefunded'
    BY <1>r, <1>n, <2>1 DEF Spares, Quiet, EndedMeansRefunded, AbsorbedMeansRefunded, InFlight
  <2> QED
    BY <2>1, <2>2, <2>3, NobodyMoves, WorldMovesOn
<1>8. ASSUME NEW n \in Calls, EngineEnds(n) PROVE Calm'
  <2>1. Owed' \subseteq Owed
    BY <1>8 DEF EngineEnds, Owed, MoneyInv, TypeOK
  <2> QED
    BY <1>8, <2>1, <1>u DEF EngineEnds
<1>9. ASSUME NEW clock \in {"row", "claim", "task"}, Ages(clock) PROVE Calm'
  BY <1>9, <1>n, <1>u DEF Ages
<1> QED
  BY <1>1, <1>2, <1>3, <1>4, <1>5, <1>6, <1>7, <1>8, <1>9 DEF Reaper

\* The job is ordered.
LEMMA StartKeepsCalm ==
    ASSUME MoneyInv, MoneyInv', Calm, StartGen
    PROVE  Calm'
<1>1. /\ status = "none" /\ status' = "QUEUED" /\ hold' = "open"
      /\ UNCHANGED <<kind, outputs, task, message, engine, worker, absorbed>>
      /\ queue' = [queue EXCEPT ![1].state = "ready"]
  BY DEF StartGen
<1>2. /\ \A w \in Workers : worker[w].pc = "idle"
      /\ \A m \in Messages : queue[m].state = "free"
      /\ task = 0 /\ Owed = {} /\ hold = "none" /\ ~outputs
  BY <1>1 DEF Calm, Before, At, MoneyInv, RowInv
<1>3. \A m \in Messages : queue'[m].state = IF m = 1 THEN "ready" ELSE "free"
  <2>1. queue \in [Messages -> Packets]
    BY DEF MoneyInv, TypeOK, Packets
  <2> QED
    BY <1>1, <1>2, <2>1 DEF Packets
<1>4. Owed' = {} /\ task' = 0
  BY <1>1, <1>2, SameEngine
<1>5. \A w \in Workers : ~Works(w)' /\ ~Carries(w)' /\ Placed(w)'
  BY <1>1, <1>2 DEF Works, Unpaid, Owned, Fails, Retries, Carries, Placed, At
<1>6. OneMessage' /\ OneWorks'
  BY <1>3, <1>5 DEF OneMessage, OneWorks
<1>7. Before' /\ FromNothing' /\ Awaited' /\ OneOrder' /\ ImagesAreNow'
  BY <1>1, <1>2, <1>4 DEF Before, FromNothing, Awaited, OneOrder, ImagesAreNow
<1>8. EndedMeansRefunded' /\ AbsorbedMeansRefunded' /\ MessageIsTrue'
  BY <1>1, <1>2 DEF Calm, EndedMeansRefunded, AbsorbedMeansRefunded, MessageIsTrue
<1> QED
  BY <1>5, <1>6, <1>7, <1>8 DEF Calm

\* A message whose worker is gone comes back, and one whose worker is not, of
\* an image only.
LEMMA ExpiryKeepsCalm ==
    ASSUME MoneyInv, MoneyInv', Calm, NEW m \in Messages, Expire(m),
           kind = "VIDEO" => ~Fault("overrun")
    PROVE  Calm'
<1>1. UNCHANGED <<kind, status, hold, message, task, engine, absorbed>> /\ queue[m].state = "active"
  BY DEF Expire, job, row
<1>2. kind = "IMAGE"
  <2>1. kind = "VIDEO" => \E w \in Workers : worker[w].msg = m
    BY <1>1 DEF Calm, OneMessage
  <2> QED
    BY <2>1, ShapeAssumption DEF Expire, MoneyInv, TypeOK
<1>3. \A v \in Workers : Rests(v)
  <2>1. worker \in [Workers -> Slots]
    BY DEF MoneyInv, TypeOK, Slots
  <2> QED
    BY <2>1 DEF Expire, Rests, Slots
<1>4. OneMessage'
  BY <1>1, <1>2 DEF OneMessage
<1>5. status # "none"
  BY <1>1 DEF Calm, Before
<1>6. Spares /\ Quiet /\ EndedMeansRefunded' /\ AbsorbedMeansRefunded' /\ MessageIsTrue'
  BY <1>1, SameEngine
     DEF Calm, Spares, Quiet, EndedMeansRefunded, AbsorbedMeansRefunded, MessageIsTrue, InFlight
<1> QED
  BY <1>1, <1>3, <1>4, <1>5, <1>6, WorldMovesOn

\* What a move of a delivery leaves of its memory.
LEMMA GoesFields ==
    ASSUME worker \in [Workers -> Slots], NEW w \in Workers, NEW pc \in Places, Goes(w, pc)
    PROVE  /\ worker'[w].pc = pc /\ worker'[w].msg = worker[w].msg
           /\ pc \in Closing => ~worker'[w].committed
           /\ pc \notin Closing => /\ worker'[w].committed = worker[w].committed
                                   /\ worker'[w].last = worker[w].last
                                   /\ worker'[w].call = worker[w].call
                                   /\ worker'[w].task = worker[w].task
           /\ \A v \in Workers \ {w} : worker'[v] = worker[v]
<1>1. worker[w] \in Slots
  OBVIOUS
<1>2. CASE pc \in Closing
  <2> DEFINE r == [Idle EXCEPT !.pc = pc, !.msg = worker[w].msg]
  <2>1. r.pc = pc /\ r.msg = worker[w].msg /\ ~r.committed
    BY <1>1, IdleShape DEF Slots
  <2>2. worker' = [worker EXCEPT ![w] = r]
    BY <1>2 DEF Goes
  <2> HIDE DEF r
  <2> QED
    BY <1>2, <2>1, <2>2
<1>3. CASE pc \notin Closing
  <2> DEFINE r == [worker[w] EXCEPT !.pc = pc]
  <2>1. /\ r.pc = pc /\ r.msg = worker[w].msg /\ r.committed = worker[w].committed
        /\ r.last = worker[w].last /\ r.call = worker[w].call /\ r.task = worker[w].task
    BY <1>1 DEF Slots
  <2>2. worker' = [worker EXCEPT ![w] = r]
    BY <1>3 DEF Goes
  <2> HIDE DEF r
  <2> QED
    BY <1>3, <2>1, <2>2
<1> QED
  BY <1>2, <1>3

LEMMA GoesLastFields ==
    ASSUME worker \in [Workers -> Slots], NEW w \in Workers, NEW pc \in Places, GoesLast(w, pc)
    PROVE  /\ worker'[w].pc = pc /\ worker'[w].msg = worker[w].msg
           /\ worker'[w].committed = worker[w].committed
           /\ worker'[w].last
           /\ worker'[w].call = worker[w].call
           /\ worker'[w].task = worker[w].task
           /\ \A v \in Workers \ {w} : worker'[v] = worker[v]
<1> DEFINE r == [worker[w] EXCEPT !.pc = pc, !.last = TRUE]
<1>1. worker[w] \in Slots
  OBVIOUS
<1>2. /\ r.pc = pc /\ r.msg = worker[w].msg /\ r.committed = worker[w].committed
      /\ r.last /\ r.call = worker[w].call /\ r.task = worker[w].task
  BY <1>1 DEF Slots
<1>3. worker' = [worker EXCEPT ![w] = r]
  BY <1>1 DEF GoesLast, Slots
<1> HIDE DEF r
<1> QED
  BY <1>2, <1>3

\* Whoever works on something that is not paid for yet knows how the job stands.
LEMMA UnpaidMeans ==
    ASSUME MoneyInv, Calm, NEW w \in Workers, Unpaid(w)
    PROVE  /\ Works(w) /\ ~At(w, "idle") /\ ~worker[w].committed
           /\ status \notin {"none", "QUEUED"}
           /\ hold # "settled" /\ ~outputs
           /\ status = "GENERATING" => hold = "open"
           /\ status \notin InFlight => hold = "refunded"
<1>1. Placed(w) /\ RowInv
  BY DEF Calm, MoneyInv
<1>2. Works(w) /\ ~At(w, "idle")
  BY DEF Works, Unpaid, Owned, Fails, At
<1>3. status # "none"
  BY <1>2, SomebodyIsBusy
<1>4. status # "QUEUED" /\ hold # "settled"
  BY <1>1, <1>2 DEF Placed
<1>5. ~worker[w].committed
  BY <1>4 DEF MoneyInv, CommitInv, PastCommit
<1>6. ~outputs /\ (status = "GENERATING" => hold = "open")
  BY <1>1, <1>4 DEF RowInv, InFlight
<1> QED
  BY <1>2, <1>3, <1>4, <1>5, <1>6, EndedWithoutCharge

\* A delivery moves and the row does not: what is left to show of its step.
LEMMA OneMovesAlone ==
    ASSUME MoneyInv, MoneyInv', Calm, NEW w \in Workers, ~At(w, "idle"),
           \A v \in Workers \ {w} : worker'[v] = worker[v],
           UNCHANGED <<kind, status, hold, task>>,
           Works(w) \/ Owed' \subseteq Owed, OneOrder',
           Works(w)' => Works(w),
           Works(w) => Works(w)' \/ status # "GENERATING" \/ kind = "IMAGE" \/ Owed' \subseteq {task},
           Placed(w)', OneMessage', AbsorbedMeansRefunded', MessageIsTrue'
    PROVE  Calm'
<1>1. status # "none"
  BY SomebodyIsBusy
<1>2. Spares
  BY DEF Spares, InFlight
<1>3. Works(w) \/ Quiet
  BY DEF Quiet
<1>4. status' = "QUEUED" => status = "QUEUED" /\ Quiet
  BY <1>3 DEF Calm, Placed
<1>5. ImagesAreNow' /\ EndedMeansRefunded'
  BY DEF Calm, ImagesAreNow, EndedMeansRefunded
<1> QED
  BY <1>1, <1>2, <1>3, <1>4, <1>5, OneMovesOn

\* Up to the paid call.
LEMMA ClaimKeepsCalm ==
    ASSUME MoneyInv, MoneyInv', Calm, NEW w \in Workers, Claim(w)
    PROVE  Calm'
<1>t. worker \in [Workers -> Slots] /\ RowInv /\ OneMessage /\ Placed(w)
      /\ EndedMeansRefunded /\ AbsorbedMeansRefunded /\ MessageIsTrue /\ ImagesAreNow /\ OneOrder
  BY DEF MoneyInv, TypeOK, Slots, Calm
<1>c. At(w, "claim") /\ Carries(w) /\ ~At(w, "idle") /\ ~Works(w)
  BY DEF Claim, At, Carries, Works, Unpaid, Owned, Fails
<1>u. UNCHANGED <<kind, outputs, task, message, engine, queue, absorbed>> /\ Owed' = Owed /\ status # "none"
  BY <1>c, SameEngine, SomebodyIsBusy DEF Claim
<1>o. OneOrder' /\ ImagesAreNow'
  BY <1>t, <1>u DEF OneOrder, ImagesAreNow
<1>1. CASE status = "QUEUED" /\ status' = "GENERATING" /\ Goes(w, "call") /\ UNCHANGED hold
  <2>1. /\ hold = "open" /\ ~outputs /\ task = 0 /\ Owed = {}
        /\ \A v \in Workers : ~Works(v)
    BY <1>1, <1>t DEF Calm, FromNothing, Placed, RowInv, InFlight
  <2>2. /\ worker'[w].pc = "call" /\ worker'[w].msg = worker[w].msg
        /\ \A v \in Workers \ {w} : worker'[v] = worker[v]
    BY <1>1, <1>t, GoesFields DEF Places, Closing
  <2>3. OneMessage'
    BY <1>c, <1>t, <1>u, <2>2, MessageStays
  <2>4. Works(w)' /\ Placed(w)'
    BY <1>1, <1>u, <2>1, <2>2 DEF Works, Unpaid, Owned, Fails, Retries, Placed, At
  <2>5. Spares /\ Quiet
    BY <1>1, <1>u, <2>1 DEF Spares, Quiet, InFlight
  <2>6. EndedMeansRefunded' /\ AbsorbedMeansRefunded' /\ MessageIsTrue'
    BY <1>1, <1>t, <1>u DEF EndedMeansRefunded, AbsorbedMeansRefunded, MessageIsTrue
  <2> QED
    BY <1>1, <1>c, <1>u, <1>o, <2>1, <2>2, <2>3, <2>4, <2>5, <2>6, OneMovesOn
<1>2. CASE status = "GENERATING" /\ ~outputs /\ status' = "FAILED" /\ Refund /\ Goes(w, "tellError")
  <2>1. hold = "open" /\ hold' = "refunded"
    BY <1>2, <1>t DEF RowInv, InFlight, Refund
  <2>2. /\ worker'[w].pc = "tellError" /\ worker'[w].msg = worker[w].msg /\ ~worker'[w].committed
        /\ \A v \in Workers \ {w} : worker'[v] = worker[v]
    BY <1>2, <1>t, GoesFields DEF Places, Closing
  <2>3. OneMessage'
    BY <1>c, <1>t, <1>u, <2>2, MessageStays
  <2>4. ~Works(w)' /\ Placed(w)'
    BY <1>2, <1>u, <2>1, <2>2 DEF Works, Unpaid, Owned, Fails, Retries, Placed, At
  <2>5. Spares /\ Quiet
    BY <1>2, <1>u, <2>1 DEF Spares, Quiet
  <2>6. EndedMeansRefunded' /\ AbsorbedMeansRefunded' /\ MessageIsTrue'
    BY <1>2, <1>t, <1>u, <2>1 DEF EndedMeansRefunded, AbsorbedMeansRefunded, MessageIsTrue
  <2> QED
    BY <1>2, <1>c, <1>u, <1>o, <2>2, <2>3, <2>4, <2>5, <2>6, OneMovesOn
<1>3. CASE Goes(w, "ack") /\ UNCHANGED <<status, hold>>
  <2>2. /\ worker'[w].pc = "ack" /\ worker'[w].msg = worker[w].msg /\ ~worker'[w].committed
        /\ \A v \in Workers \ {w} : worker'[v] = worker[v]
    BY <1>3, <1>t, GoesFields DEF Places, Closing
  <2>3. OneMessage'
    BY <1>c, <1>t, <1>u, <2>2, MessageStays
  <2>4. ~Works(w)' /\ Placed(w)'
    BY <2>2 DEF Works, Unpaid, Owned, Fails, Retries, Placed, At
  <2>5. AbsorbedMeansRefunded' /\ MessageIsTrue'
    BY <1>3, <1>t, <1>u DEF AbsorbedMeansRefunded, MessageIsTrue
  <2> QED
    BY <1>3, <1>c, <1>u, <1>o, <2>2, <2>3, <2>4, <2>5, OneMovesAlone
<1> QED
  BY <1>1, <1>2, <1>3 DEF Claim

LEMMA GateKeepsCalm ==
    ASSUME MoneyInv, MoneyInv', Calm, NEW w \in Workers, RefuseToSpend(w) \/ FailClosed(w)
    PROVE  Calm'
<1>t. worker \in [Workers -> Slots] /\ RowInv /\ OneMessage /\ Placed(w)
      /\ EndedMeansRefunded /\ AbsorbedMeansRefunded /\ MessageIsTrue /\ ImagesAreNow /\ OneOrder
  BY DEF MoneyInv, TypeOK, Slots, Calm
<1>c. worker[w].pc \in {"claim", "call"} /\ Carries(w) /\ ~At(w, "idle")
  BY DEF RefuseToSpend, FailClosed, At, Carries
<1>w. /\ At(w, "call") => Unpaid(w) /\ Works(w) /\ Owed = {} /\ (status = "GENERATING" => task = 0)
      /\ ~At(w, "call") => ~Works(w)
  BY <1>c, <1>t DEF Works, Unpaid, Owned, Fails, Placed, At
<1>u. UNCHANGED <<kind, outputs, task, message, engine, queue, absorbed>> /\ Owed' = Owed /\ status # "none"
  BY <1>c, SameEngine, SomebodyIsBusy DEF RefuseToSpend, FailClosed, job, row
<1>o. OneOrder' /\ ImagesAreNow'
  BY <1>t, <1>u DEF OneOrder, ImagesAreNow
<1>1. CASE At(w, "call") /\ Goes(w, "throw") /\ UNCHANGED <<status, hold>>
  <2>1. ~worker[w].committed /\ status # "QUEUED" /\ hold # "settled"
    BY <1>1, <1>w, UnpaidMeans
  <2>2. /\ worker'[w].pc = "throw" /\ worker'[w].msg = worker[w].msg /\ ~worker'[w].committed
        /\ \A v \in Workers \ {w} : worker'[v] = worker[v]
    BY <1>1, <1>t, <2>1, GoesFields DEF Places, Closing
  <2>3. OneMessage'
    BY <1>c, <1>t, <1>u, <2>2, MessageStays
  <2>4. Works(w)' /\ Placed(w)'
    BY <1>1, <1>u, <1>w, <2>1, <2>2 DEF Works, Unpaid, Owned, Fails, Retries, Placed, At
  <2>5. AbsorbedMeansRefunded' /\ MessageIsTrue'
    BY <1>1, <1>t, <1>u DEF AbsorbedMeansRefunded, MessageIsTrue
  <2> QED
    BY <1>1, <1>c, <1>u, <1>o, <1>w, <2>2, <2>3, <2>4, <2>5, OneMovesAlone
<1>2. CASE status \in InFlight /\ ~outputs /\ status' = "FAILED" /\ Refund /\ Goes(w, "tellError")
  <2>1. hold = "open" /\ hold' = "refunded" /\ status # "gone"
    BY <1>2, <1>t DEF RowInv, InFlight, Refund
  <2>2. /\ worker'[w].pc = "tellError" /\ worker'[w].msg = worker[w].msg /\ ~worker'[w].committed
        /\ \A v \in Workers \ {w} : worker'[v] = worker[v]
    BY <1>2, <1>t, GoesFields DEF Places, Closing
  <2>3. OneMessage'
    BY <1>c, <1>t, <1>u, <2>2, MessageStays
  <2>4. ~Works(w)' /\ Placed(w)'
    BY <1>2, <1>u, <2>1, <2>2 DEF Works, Unpaid, Owned, Fails, Retries, Placed, At
  <2>5. Spares /\ Quiet
    BY <1>2, <1>u, <2>1 DEF Spares, Quiet
  <2>6. EndedMeansRefunded' /\ AbsorbedMeansRefunded' /\ MessageIsTrue'
    BY <1>2, <1>t, <1>u, <2>1 DEF EndedMeansRefunded, AbsorbedMeansRefunded, MessageIsTrue
  <2> QED
    BY <1>2, <1>c, <1>u, <1>o, <2>2, <2>3, <2>4, <2>5, <2>6, OneMovesOn
<1>3. CASE Goes(w, "ack") /\ UNCHANGED <<status, hold>>
  <2>2. /\ worker'[w].pc = "ack" /\ worker'[w].msg = worker[w].msg /\ ~worker'[w].committed
        /\ \A v \in Workers \ {w} : worker'[v] = worker[v]
    BY <1>3, <1>t, GoesFields DEF Places, Closing
  <2>3. OneMessage'
    BY <1>c, <1>t, <1>u, <2>2, MessageStays
  <2>4. ~Works(w)' /\ Placed(w)'
    BY <2>2 DEF Works, Unpaid, Owned, Fails, Retries, Placed, At
  <2>5. AbsorbedMeansRefunded' /\ MessageIsTrue'
    BY <1>3, <1>t, <1>u DEF AbsorbedMeansRefunded, MessageIsTrue
  <2>6. Works(w) => Owed' \subseteq {task}
    BY <1>w, <1>u
  <2> QED
    BY <1>3, <1>c, <1>u, <1>o, <2>2, <2>3, <2>4, <2>5, <2>6, OneMovesAlone
<1> QED
  BY <1>1, <1>2, <1>3 DEF RefuseToSpend, FailClosed, job, row

\* From one place where nothing is paid for to another.
LEMMA OneWorksOn ==
    ASSUME MoneyInv, MoneyInv', Calm, NEW w \in Workers, Unpaid(w),
           worker'[w].msg = worker[w].msg, \A v \in Workers \ {w} : worker'[v] = worker[v],
           UNCHANGED <<kind, status, hold, task, message, queue, absorbed>>,
           OneOrder', Unpaid(w)', Placed(w)'
    PROVE  Calm'
<1>1. Works(w) /\ Works(w)' /\ ~At(w, "idle") /\ Carries(w) /\ worker'[w].pc # "idle"
  BY UnpaidMeans DEF Works, Unpaid, Owned, Fails, Carries, At
<1>2. OneMessage'
  BY <1>1, MessageStays DEF Calm
<1>3. AbsorbedMeansRefunded' /\ MessageIsTrue'
  BY DEF Calm, AbsorbedMeansRefunded, MessageIsTrue
<1> QED
  BY <1>1, <1>2, <1>3, OneMovesAlone

\* The paid call.
LEMMA CallKeepsCalm ==
    ASSUME MoneyInv, MoneyInv', Calm, NEW w \in Workers, Call(w)
    PROVE  Calm'
<1>t. worker \in [Workers -> Slots] /\ Placed(w) /\ At(w, "call")
  BY DEF MoneyInv, TypeOK, Slots, Calm, Call
<1>1. Unpaid(w) /\ Owed = {}
  BY <1>t DEF Unpaid, Owned, Placed, At
<1>2. ~worker[w].committed /\ status # "QUEUED" /\ hold # "settled"
  BY <1>1, UnpaidMeans
<1>3. PICK n \in Calls : /\ engine' = [engine EXCEPT ![n] = "open"]
                         /\ worker' = [worker EXCEPT ![w].pc = "calling", ![w].call = n]
  BY DEF Call
<1>4. UNCHANGED <<kind, status, hold, task, message, queue, absorbed>>
  BY DEF Call, job, row
<1>5. /\ worker'[w].pc = "calling" /\ worker'[w].call = n
      /\ worker'[w].msg = worker[w].msg /\ worker'[w].committed = worker[w].committed
      /\ \A v \in Workers \ {w} : worker'[v] = worker[v]
  BY <1>3, <1>t DEF Slots
<1>6. Owed' \subseteq {n}
  BY <1>1, <1>3 DEF Owed, MoneyInv, TypeOK
<1>7. OneOrder' /\ Unpaid(w)'
  BY <1>5, <1>6 DEF OneOrder, Unpaid, Owned
<1>8. Placed(w)'
  BY <1>t, <1>2, <1>4, <1>5, <1>6 DEF Placed, Works, Unpaid, Owned, Fails, Retries, At
<1> QED
  BY <1>1, <1>4, <1>5, <1>7, <1>8, OneWorksOn

LEMMA AnswerKeepsCalm ==
    ASSUME MoneyInv, MoneyInv', Calm, NEW w \in Workers, Answer(w)
    PROVE  Calm'
<1>t. worker \in [Workers -> Slots] /\ Placed(w) /\ At(w, "calling") /\ OneOrder
  BY DEF MoneyInv, TypeOK, Slots, Calm, Answer
<1>1. /\ Unpaid(w) /\ Owed \subseteq {worker[w].call}
      /\ status = "GENERATING" => task = 0
  BY <1>t DEF Unpaid, Owned, Placed, At
<1>2. ~worker[w].committed /\ status # "QUEUED" /\ hold # "settled"
  BY <1>1, UnpaidMeans
<1>3. UNCHANGED <<kind, status, hold, task, message, queue, absorbed>>
  BY DEF Answer, job, row
<1>4. CASE /\ engine' = [engine EXCEPT ![worker[w].call] = "free"]
           /\ Goes(w, "throw") \/ GoesLast(w, "throw")
  <2>1. /\ worker'[w].pc = "throw" /\ ~worker'[w].committed /\ worker'[w].msg = worker[w].msg
        /\ \A v \in Workers \ {w} : worker'[v] = worker[v]
    BY <1>4, <1>t, <1>2, GoesFields, GoesLastFields DEF Places, Closing
  <2>2. Owed' = {}
    BY <1>4, <1>1 DEF Owed, MoneyInv, TypeOK
  <2>3. OneOrder' /\ Unpaid(w)'
    BY <2>1, <2>2 DEF OneOrder, Unpaid, Fails, At
  <2>4. Placed(w)'
    BY <1>1, <1>2, <1>3, <2>1, <2>2 DEF Placed, Works, Unpaid, Owned, Fails, Retries, At
  <2> QED
    BY <1>1, <1>3, <2>1, <2>3, <2>4, OneWorksOn
<1>5. CASE /\ UNCHANGED engine \/ engine' = [engine EXCEPT ![worker[w].call] = "made"]
           /\ \/ GoesLast(w, "throw") \/ GoesLast(w, "store")
              \/ GoesLast(w, "marker") /\ kind = "VIDEO"
  <2>1. /\ worker'[w].pc \in {"throw", "store", "marker"} /\ ~worker'[w].committed
        /\ worker'[w].msg = worker[w].msg /\ worker'[w].call = worker[w].call /\ worker'[w].last
        /\ worker'[w].pc = "marker" => kind = "VIDEO"
        /\ \A v \in Workers \ {w} : worker'[v] = worker[v]
    BY <1>5, <1>t, <1>2, GoesLastFields DEF Places
  <2>2. Owed' \subseteq {worker[w].call}
    BY <1>5, <1>1 DEF Owed, MoneyInv, TypeOK
  <2>3. OneOrder' /\ Unpaid(w)'
    BY <2>1, <2>2 DEF OneOrder, Unpaid, Owned, Fails, At
  <2>4. Placed(w)'
    BY <1>2, <1>3, <2>1, <2>2 DEF Placed, Works, Unpaid, Owned, Fails, Retries, At
  <2> QED
    BY <1>1, <1>3, <2>1, <2>3, <2>4, OneWorksOn
<1> QED
  BY <1>4, <1>5 DEF Answer

LEMMA PersistKeepsCalm ==
    ASSUME MoneyInv, MoneyInv', Calm, NEW w \in Workers, PersistTask(w), ~Fault("blip")
    PROVE  Calm'
<1>t. worker \in [Workers -> Slots] /\ Placed(w) /\ At(w, "marker") /\ OneOrder /\ OneMessage
      /\ EndedMeansRefunded /\ AbsorbedMeansRefunded /\ MessageIsTrue /\ ImagesAreNow
  BY DEF MoneyInv, TypeOK, Slots, Calm, PersistTask
<1>1. Unpaid(w) /\ Owed \subseteq {worker[w].call} /\ kind # "IMAGE"
  BY <1>t DEF Unpaid, Owned, Placed, At
<1>2. /\ Works(w) /\ Carries(w) /\ ~At(w, "idle") /\ status \notin {"none", "QUEUED"}
      /\ status \notin InFlight => hold = "refunded"
  BY <1>t, <1>1, UnpaidMeans DEF Carries, At
<1>3. UNCHANGED <<kind, status, outputs, hold, message, engine, queue>> /\ Owed' = Owed
  BY SameEngine DEF PersistTask
<1>4. OneOrder' /\ ImagesAreNow' /\ EndedMeansRefunded' /\ MessageIsTrue'
  BY <1>t, <1>1, <1>3 DEF OneOrder, ImagesAreNow, EndedMeansRefunded, MessageIsTrue
<1>5. CASE /\ status = "GENERATING" /\ task' = worker[w].call
           /\ Goes(w, "followUp") /\ UNCHANGED absorbed
  <2>1. /\ worker'[w].pc = "followUp" /\ worker'[w].msg = worker[w].msg
        /\ \A v \in Workers \ {w} : worker'[v] = worker[v]
    BY <1>5, <1>t, GoesFields DEF Places, Closing
  <2>2. OneMessage'
    BY <1>t, <1>2, <1>3, <2>1, MessageStays
  <2>3. ~Works(w)' /\ Placed(w)'
    BY <2>1 DEF Placed, Works, Unpaid, Owned, Fails, Retries, At
  <2>4. AbsorbedMeansRefunded' /\ Owed' \subseteq {task'}
    BY <1>t, <1>1, <1>3, <1>5 DEF AbsorbedMeansRefunded
  <2>5. Spares
    BY <1>3 DEF Spares, InFlight
  <2> QED
    BY <1>2, <1>3, <1>4, <2>1, <2>2, <2>3, <2>4, <2>5, OneMovesOn
<1>6. CASE status # "GENERATING" /\ Goes(w, "ack") /\ UNCHANGED task
  <2>1. /\ worker'[w].pc = "ack" /\ worker'[w].msg = worker[w].msg /\ ~worker'[w].committed
        /\ \A v \in Workers \ {w} : worker'[v] = worker[v]
    BY <1>6, <1>t, GoesFields DEF Places, Closing
  <2>2. OneMessage'
    BY <1>t, <1>2, <1>3, <2>1, MessageStays
  <2>3. ~Works(w)' /\ Placed(w)'
    BY <2>1 DEF Placed, Works, Unpaid, Owned, Fails, Retries, At
  <2>4. hold' = "refunded"
    BY <1>2, <1>3, <1>6 DEF InFlight
  <2>5. AbsorbedMeansRefunded'
    BY <2>4 DEF AbsorbedMeansRefunded
  <2> QED
    BY <1>2, <1>3, <1>4, <1>6, <2>1, <2>2, <2>3, <2>5, OneMovesAlone
<1> QED
  BY <1>5, <1>6 DEF PersistTask

LEMMA PollKeepsCalm ==
    ASSUME MoneyInv, MoneyInv', Calm, NEW w \in Workers, Poll(w)
    PROVE  Calm'
<1>t. worker \in [Workers -> Slots] /\ Placed(w) /\ At(w, "poll") /\ OneOrder /\ OneMessage
      /\ AbsorbedMeansRefunded /\ MessageIsTrue
  BY DEF MoneyInv, TypeOK, Slots, Calm, Poll
<1>1. /\ Unpaid(w) /\ Owed \subseteq {worker[w].task} /\ kind # "IMAGE"
      /\ status = "GENERATING" => task = worker[w].task
  BY <1>t DEF Unpaid, Owned, Placed, At
<1>2. /\ Works(w) /\ Carries(w) /\ ~At(w, "idle") /\ ~worker[w].committed
      /\ status # "QUEUED" /\ hold # "settled"
  BY <1>t, <1>1, UnpaidMeans DEF Carries, At
<1>3. UNCHANGED <<kind, status, hold, task, message, engine, queue, absorbed>> /\ Owed' = Owed
  BY SameEngine DEF Poll, job, row
<1>4. OneOrder' /\ AbsorbedMeansRefunded' /\ MessageIsTrue'
  BY <1>t, <1>3 DEF OneOrder, AbsorbedMeansRefunded, MessageIsTrue
<1>5. CASE Goes(w, "followUp")
  <2>1. /\ worker'[w].pc = "followUp" /\ worker'[w].msg = worker[w].msg
        /\ \A v \in Workers \ {w} : worker'[v] = worker[v]
    BY <1>5, <1>t, GoesFields DEF Places, Closing
  <2>2. OneMessage'
    BY <1>t, <1>2, <1>3, <2>1, MessageStays
  <2>3. ~Works(w)' /\ Placed(w)'
    BY <2>1 DEF Placed, Works, Unpaid, Owned, Fails, Retries, At
  <2> QED
    BY <1>1, <1>2, <1>3, <1>4, <2>1, <2>2, <2>3, OneMovesAlone
<1>6. CASE GoesLast(w, "throw") \/ GoesLast(w, "store")
  <2>1. /\ worker'[w].pc \in {"throw", "store"} /\ ~worker'[w].committed
        /\ worker'[w].msg = worker[w].msg /\ worker'[w].last
        /\ \A v \in Workers \ {w} : worker'[v] = worker[v]
    BY <1>6, <1>t, <1>2, GoesLastFields DEF Places
  <2>2. Unpaid(w)'
    BY <2>1 DEF Unpaid, Owned, Fails, At
  <2>3. Placed(w)'
    BY <1>2, <1>3, <2>1 DEF Placed, Works, Unpaid, Owned, Fails, Retries, At
  <2> QED
    BY <1>1, <1>3, <1>4, <2>1, <2>2, <2>3, OneWorksOn
<1>7. CASE engine[worker[w].task] = "free" /\ Goes(w, "clear")
  <2>1. /\ worker'[w].pc = "clear" /\ ~worker'[w].committed /\ worker'[w].msg = worker[w].msg
        /\ \A v \in Workers \ {w} : worker'[v] = worker[v]
    BY <1>7, <1>t, <1>2, GoesFields DEF Places, Closing
  <2>2. Owed' = {}
    BY <1>1, <1>3, <1>7 DEF Owed
  <2>3. Unpaid(w)'
    BY <2>1 DEF Unpaid, Owned
  <2>4. Placed(w)'
    BY <1>1, <1>2, <1>3, <2>1, <2>2 DEF Placed, Works, Unpaid, Owned, Fails, Retries, At
  <2> QED
    BY <1>1, <1>3, <1>4, <2>1, <2>3, <2>4, OneWorksOn
<1> QED
  BY <1>5, <1>6, <1>7 DEF Poll

LEMMA ClearKeepsCalm ==
    ASSUME MoneyInv, MoneyInv', Calm, NEW w \in Workers, ClearTask(w), ~Fault("blip")
    PROVE  Calm'
<1>t. worker \in [Workers -> Slots] /\ Placed(w) /\ At(w, "clear") /\ OneMessage
      /\ EndedMeansRefunded /\ AbsorbedMeansRefunded /\ MessageIsTrue
  BY DEF MoneyInv, TypeOK, Slots, Calm, ClearTask
<1>1. Unpaid(w) /\ Owed = {} /\ kind # "IMAGE"
  BY <1>t DEF Unpaid, Owned, Placed, At
<1>2. /\ Works(w) /\ Carries(w) /\ ~At(w, "idle") /\ ~worker[w].committed
      /\ status \notin {"none", "QUEUED"} /\ hold # "settled"
  BY <1>t, <1>1, UnpaidMeans DEF Carries, At
<1>3. /\ UNCHANGED <<kind, status, outputs, hold, message, engine, queue, absorbed>> /\ Owed' = {}
      /\ status = "GENERATING" => task' = 0
  BY <1>1, SameEngine DEF ClearTask
<1>4. /\ worker'[w].pc = "throw" /\ ~worker'[w].committed /\ worker'[w].msg = worker[w].msg
      /\ \A v \in Workers \ {w} : worker'[v] = worker[v]
  BY <1>t, <1>2, GoesFields DEF ClearTask, Places, Closing
<1>5. OneMessage'
  BY <1>t, <1>2, <1>3, <1>4, MessageStays
<1>6. Works(w)' /\ Placed(w)'
  BY <1>1, <1>2, <1>3, <1>4 DEF Placed, Works, Unpaid, Owned, Fails, Retries, At
<1>7. OneOrder' /\ ImagesAreNow' /\ EndedMeansRefunded' /\ AbsorbedMeansRefunded' /\ MessageIsTrue'
  BY <1>t, <1>1, <1>3
     DEF OneOrder, ImagesAreNow, EndedMeansRefunded, AbsorbedMeansRefunded, MessageIsTrue
<1>8. Spares
  BY <1>3 DEF Spares, InFlight
<1> QED
  BY <1>2, <1>3, <1>4, <1>5, <1>6, <1>7, <1>8, OneMovesOn

\* Delivering.
LEMMA StoreKeepsCalm ==
    ASSUME MoneyInv, MoneyInv', Calm, NEW w \in Workers, Store(w)
    PROVE  Calm'
<1>t. worker \in [Workers -> Slots] /\ Placed(w) /\ At(w, "store") /\ OneOrder /\ OneMessage
      /\ AbsorbedMeansRefunded /\ MessageIsTrue /\ ImagesAreNow
  BY DEF MoneyInv, TypeOK, Slots, Calm, Store
<1>1. Unpaid(w) /\ worker[w].last
  BY <1>t DEF Unpaid, Owned, Placed, At
<1>2. /\ Works(w) /\ Carries(w) /\ ~At(w, "idle") /\ ~worker[w].committed
      /\ status \notin {"none", "QUEUED"} /\ hold # "settled" /\ ~outputs
      /\ status = "GENERATING" => hold = "open"
  BY <1>t, <1>1, UnpaidMeans DEF Carries, At
<1>3. UNCHANGED <<kind, status, task, message, engine, queue, absorbed>> /\ Owed' = Owed
  BY SameEngine DEF Store
<1>4. OneOrder' /\ ImagesAreNow'
  BY <1>t, <1>3 DEF OneOrder, ImagesAreNow
<1>5. CASE /\ status = "GENERATING" /\ Settle
           /\ worker' = [worker EXCEPT ![w].pc = "finish", ![w].committed = TRUE]
  <2>1. hold = "open" /\ hold' = "settled"
    BY <1>2, <1>5 DEF Settle
  <2>2. /\ worker'[w].pc = "finish" /\ worker'[w].committed /\ worker'[w].msg = worker[w].msg
        /\ \A v \in Workers \ {w} : worker'[v] = worker[v]
    BY <1>t, <1>5 DEF Slots
  <2>3. OneMessage'
    BY <1>t, <1>2, <1>3, <2>2, MessageStays
  <2>4. Works(w)' /\ Placed(w)'
    BY <1>3, <1>5, <2>2 DEF Placed, Works, Unpaid, Owned, Fails, Retries, At
  <2>5. Spares
    BY <1>3, <1>5, <2>1 DEF Spares, InFlight
  <2>6. EndedMeansRefunded' /\ AbsorbedMeansRefunded' /\ MessageIsTrue'
    BY <1>t, <1>3, <1>5, <2>1 DEF EndedMeansRefunded, AbsorbedMeansRefunded, MessageIsTrue
  <2> QED
    BY <1>2, <1>3, <1>4, <2>2, <2>3, <2>4, <2>5, <2>6, OneMovesOn
<1>6. CASE /\ UNCHANGED hold
           /\ \/ Goes(w, "throw")
              \/ Goes(w, "discard") /\ status \notin InFlight
  <2>1. /\ worker'[w].pc \in {"throw", "discard"} /\ ~worker'[w].committed
        /\ worker'[w].msg = worker[w].msg /\ worker'[w].last
        /\ worker'[w].pc = "discard" => status \notin InFlight
        /\ \A v \in Workers \ {w} : worker'[v] = worker[v]
    BY <1>6, <1>t, <1>1, <1>2, GoesFields DEF Places, Closing
  <2>2. Unpaid(w)'
    BY <2>1 DEF Unpaid, Owned, Fails, At
  <2>3. Placed(w)'
    BY <1>2, <1>3, <1>6, <2>1 DEF Placed, Works, Unpaid, Owned, Fails, Retries, At
  <2> QED
    BY <1>1, <1>3, <1>4, <1>6, <2>1, <2>2, <2>3, OneWorksOn
<1>7. ~(status = "GENERATING" /\ ~outputs) => status \notin InFlight
  BY <1>2 DEF InFlight
<1> QED
  BY <1>5, <1>6, <1>7 DEF Store

LEMMA DiscardKeepsCalm ==
    ASSUME MoneyInv, MoneyInv', Calm, NEW w \in Workers, DiscardOutputs(w)
    PROVE  Calm'
<1>t. worker \in [Workers -> Slots] /\ Placed(w) /\ At(w, "discard") /\ OneOrder /\ OneMessage /\ MessageIsTrue
  BY DEF MoneyInv, TypeOK, Slots, Calm, DiscardOutputs
<1>1. Unpaid(w) /\ status \notin InFlight
  BY <1>t DEF Unpaid, Owned, Placed, At
<1>2. Works(w) /\ Carries(w) /\ ~At(w, "idle") /\ hold = "refunded"
  BY <1>t, <1>1, UnpaidMeans DEF Carries, At
<1>3. UNCHANGED <<kind, status, hold, task, message, engine, queue>> /\ Owed' = Owed
  BY SameEngine DEF DiscardOutputs, job, row
<1>4. OneOrder' /\ AbsorbedMeansRefunded' /\ MessageIsTrue'
  BY <1>t, <1>2, <1>3 DEF OneOrder, AbsorbedMeansRefunded, MessageIsTrue
<1>5. /\ worker'[w].pc = "ack" /\ worker'[w].msg = worker[w].msg /\ ~worker'[w].committed
      /\ \A v \in Workers \ {w} : worker'[v] = worker[v]
  BY <1>t, GoesFields DEF DiscardOutputs, Places, Closing
<1>6. OneMessage'
  BY <1>t, <1>2, <1>3, <1>5, MessageStays
<1>7. ~Works(w)' /\ Placed(w)'
  BY <1>5 DEF Placed, Works, Unpaid, Owned, Fails, Retries, At
<1> QED
  BY <1>1, <1>2, <1>3, <1>4, <1>5, <1>6, <1>7, OneMovesAlone DEF InFlight

\* After the commit: the job is as good as done.
LEMMA FinishKeepsCalm ==
    ASSUME MoneyInv, MoneyInv', Calm, NEW w \in Workers, Finish(w) \/ Resume(w), ~Fault("blip")
    PROVE  Calm'
<1>t. worker \in [Workers -> Slots] /\ Placed(w) /\ OneOrder /\ OneMessage
      /\ AbsorbedMeansRefunded /\ MessageIsTrue /\ ImagesAreNow
  BY DEF MoneyInv, TypeOK, Slots, Calm
<1>1. worker[w].pc \in {"finish", "resume"} /\ worker[w].committed /\ hold = "settled"
  BY <1>t DEF Finish, Resume, Placed, At, MoneyInv, CommitInv, PastCommit
<1>2. Carries(w) /\ ~At(w, "idle") /\ status # "none"
  BY <1>1, SomebodyIsBusy DEF Carries, At
<1>3. UNCHANGED <<kind, task, hold, message, engine, queue, absorbed>> /\ Owed' = Owed
  BY <1>1, SameEngine DEF Finish, Resume, Settle
<1>4. OneOrder' /\ ImagesAreNow' /\ AbsorbedMeansRefunded' /\ MessageIsTrue'
  BY <1>t, <1>3 DEF OneOrder, ImagesAreNow, AbsorbedMeansRefunded, MessageIsTrue
<1>5. CASE status # "gone" /\ status' = "DONE" /\ Goes(w, "tellResult")
  <2>1. /\ worker'[w].pc = "tellResult" /\ worker'[w].msg = worker[w].msg /\ ~worker'[w].committed
        /\ \A v \in Workers \ {w} : worker'[v] = worker[v]
    BY <1>5, <1>t, GoesFields DEF Places, Closing
  <2>2. OneMessage'
    BY <1>t, <1>2, <1>3, <2>1, MessageStays
  <2>3. ~Works(w)' /\ Placed(w)'
    BY <1>1, <1>3, <2>1 DEF Placed, Works, Unpaid, Owned, Fails, Retries, At
  <2>4. Spares /\ Quiet /\ EndedMeansRefunded'
    BY <1>3, <1>5 DEF Spares, Quiet, EndedMeansRefunded
  <2> QED
    BY <1>2, <1>4, <1>5, <2>1, <2>2, <2>3, <2>4, OneMovesOn
<1>6. CASE status = "gone" /\ UNCHANGED status /\ Goes(w, "throw")
  <2>1. /\ worker'[w].pc = "throw" /\ worker'[w].msg = worker[w].msg /\ worker'[w].committed
        /\ \A v \in Workers \ {w} : worker'[v] = worker[v]
    BY <1>6, <1>t, <1>1, GoesFields DEF Places, Closing
  <2>2. OneMessage'
    BY <1>t, <1>2, <1>3, <2>1, MessageStays
  <2>3. ~Works(w)' /\ Placed(w)'
    BY <1>6, <2>1 DEF Placed, Works, Unpaid, Owned, Fails, Retries, At
  <2> QED
    BY <1>2, <1>3, <1>4, <1>6, <2>1, <2>2, <2>3, OneMovesAlone
<1> QED
  BY <1>1, <1>5, <1>6 DEF Finish, Resume

LEMMA TellKeepsCalm ==
    ASSUME MoneyInv, MoneyInv', Calm, NEW w \in Workers, Tell(w)
    PROVE  Calm'
<1>t. worker \in [Workers -> Slots] /\ Placed(w) /\ OneOrder /\ OneMessage
      /\ AbsorbedMeansRefunded /\ MessageIsTrue
  BY DEF MoneyInv, TypeOK, Slots, Calm
<1>1. worker[w].pc \in {"tellResult", "tellError", "tellFailed"}
  BY DEF Tell
<1>2. Carries(w) /\ ~At(w, "idle") /\ ~Works(w)
  BY <1>1, <1>t DEF Carries, At, Works, Unpaid, Owned, Fails
<1>3. UNCHANGED <<kind, status, hold, task, engine, queue, absorbed>> /\ Owed' = Owed
  BY SameEngine DEF Tell, row
<1>4. OneOrder' /\ AbsorbedMeansRefunded'
  BY <1>t, <1>3 DEF OneOrder, AbsorbedMeansRefunded
<1>5. MessageIsTrue'
  <2>1. /\ At(w, "tellResult") => hold = "settled"
        /\ ~At(w, "tellResult") => hold = "refunded"
    BY <1>1, <1>t DEF Placed, At
  <2>2. message' = message \/ message' = IF At(w, "tellResult") THEN "result" ELSE "error"
    BY DEF Tell
  <2> QED
    BY <1>t, <1>3, <2>1, <2>2 DEF MessageIsTrue
<1>6. /\ worker'[w].pc \in {"ack", "nack"} /\ worker'[w].msg = worker[w].msg /\ ~worker'[w].committed
      /\ \A v \in Workers \ {w} : worker'[v] = worker[v]
  <2>1. Goes(w, "ack") \/ Goes(w, "nack")
    BY DEF Tell
  <2> QED
    BY <1>t, <2>1, GoesFields DEF Places, Closing
<1>7. OneMessage'
  BY <1>t, <1>2, <1>3, <1>6, MessageStays
<1>8. ~Works(w)' /\ Placed(w)'
  BY <1>6 DEF Placed, Works, Unpaid, Owned, Fails, Retries, At
<1> QED
  BY <1>2, <1>3, <1>4, <1>5, <1>6, <1>7, <1>8, OneMovesAlone

\* The end of a delivery.
LEMMA CatchKeepsCalm ==
    ASSUME MoneyInv, MoneyInv', Calm, NEW w \in Workers, Catch(w), ~Fault("blip")
    PROVE  Calm'
<1>t. worker \in [Workers -> Slots] /\ Placed(w) /\ At(w, "throw") /\ OneOrder /\ OneMessage
      /\ EndedMeansRefunded /\ AbsorbedMeansRefunded /\ MessageIsTrue /\ ImagesAreNow
  BY DEF MoneyInv, TypeOK, Slots, Calm, Catch
<1>1. Carries(w) /\ ~At(w, "idle") /\ status # "none"
  BY <1>t, SomebodyIsBusy DEF Carries, At
<1>2. /\ worker[w].committed => status = "gone"
      /\ Unpaid(w) <=> ~worker[w].committed
      /\ Works(w) <=> ~worker[w].committed
  BY <1>t DEF Placed, Works, Unpaid, Owned, Fails, At
<1>3. UNCHANGED <<kind, outputs, task, message, engine, queue, absorbed>> /\ Owed' = Owed
  BY SameEngine DEF Catch
<1>4. OneOrder' /\ ImagesAreNow'
  BY <1>t, <1>3 DEF OneOrder, ImagesAreNow
<1>5. CASE Final(w) /\ Goes(w, "tellFailed")
  <2>1. /\ Unpaid(w) /\ Works(w) /\ hold # "settled" /\ status # "QUEUED"
        /\ status = "GENERATING" => hold = "open"
        /\ status \notin InFlight => hold = "refunded"
    BY <1>2, <1>5, UnpaidMeans DEF Final
  <2>2. /\ hold' = "refunded" /\ status' \notin InFlight /\ status' # "none"
        /\ status = "gone" => status' = "gone"
    <3>1. CASE status \in InFlight
      <4>1. status = "GENERATING" /\ status' = "FAILED" /\ Refund
        BY <1>t, <1>5, <2>1, <3>1 DEF Catch, InFlight
      <4> QED
        BY <2>1, <4>1 DEF Refund, InFlight
    <3>2. CASE status \notin InFlight
      BY <1>1, <1>5, <2>1, <3>2 DEF Catch, Final
    <3> QED
      BY <3>1, <3>2
  <2>3. /\ worker'[w].pc = "tellFailed" /\ worker'[w].msg = worker[w].msg /\ ~worker'[w].committed
        /\ \A v \in Workers \ {w} : worker'[v] = worker[v]
    BY <1>5, <1>t, GoesFields DEF Places, Closing
  <2>4. OneMessage'
    BY <1>t, <1>1, <1>3, <2>3, MessageStays
  <2>5. ~Works(w)' /\ Placed(w)'
    BY <2>2, <2>3 DEF Placed, Works, Unpaid, Owned, Fails, Retries, At
  <2>6. EndedMeansRefunded' /\ AbsorbedMeansRefunded' /\ MessageIsTrue'
    BY <1>t, <1>3, <2>1, <2>2 DEF EndedMeansRefunded, AbsorbedMeansRefunded, MessageIsTrue
  <2>7. Spares
    BY <1>3, <2>1, <2>2 DEF Spares, InFlight
  <2>8. status' \notin {"QUEUED", "GENERATING"}
    BY <2>2 DEF InFlight
  <2> QED
    BY <1>1, <1>4, <2>1, <2>2, <2>3, <2>4, <2>5, <2>6, <2>7, <2>8, OneMovesOn
<1>6. CASE /\ ~Final(w) /\ Goes(w, "nack") /\ UNCHANGED hold
           /\ status' = IF status \in InFlight THEN "QUEUED" ELSE status
  <2>1. /\ worker'[w].pc = "nack" /\ worker'[w].msg = worker[w].msg /\ ~worker'[w].committed
        /\ \A v \in Workers \ {w} : worker'[v] = worker[v]
    BY <1>6, <1>t, GoesFields DEF Places, Closing
  <2>2. OneMessage'
    BY <1>t, <1>1, <1>3, <2>1, MessageStays
  <2>3. ~Works(w)' /\ Placed(w)'
    BY <2>1 DEF Placed, Works, Unpaid, Owned, Fails, Retries, At
  <2>4. CASE status \in InFlight
    <3>1. Unpaid(w) /\ Works(w) /\ Retries(w)
      BY <1>2, <1>6, <1>t, <2>4 DEF Retries, Final, InFlight, Fails
    <3>2. status = "GENERATING" /\ status' = "QUEUED" /\ ~outputs /\ hold = "open"
      BY <1>6, <2>4, <3>1, UnpaidMeans DEF InFlight
    <3>3. task' = 0 /\ Owed' = {}
      BY <1>3, <1>t, <3>1, <3>2 DEF Placed
    <3>4. EndedMeansRefunded' /\ AbsorbedMeansRefunded' /\ MessageIsTrue'
      BY <1>t, <1>3, <1>6, <3>2 DEF EndedMeansRefunded, AbsorbedMeansRefunded, MessageIsTrue
    <3>5. Spares
      BY <1>3, <1>6, <3>2 DEF Spares
    <3> QED
      BY <1>1, <1>3, <1>4, <2>1, <2>2, <2>3, <3>1, <3>2, <3>3, <3>4, <3>5, OneMovesOn
  <2>5. CASE status \notin InFlight
    <3>1. UNCHANGED <<kind, status, hold, task>> /\ status # "GENERATING"
      BY <1>3, <1>6, <2>5 DEF InFlight
    <3>2. AbsorbedMeansRefunded' /\ MessageIsTrue'
      BY <1>t, <1>3, <1>6 DEF AbsorbedMeansRefunded, MessageIsTrue
    <3> QED
      BY <1>1, <1>3, <1>4, <2>1, <2>2, <2>3, <3>1, <3>2, OneMovesAlone
  <2> QED
    BY <2>4, <2>5
<1> QED
  BY <1>5, <1>6 DEF Catch

\* The dispatcher sends the next message before this one is answered for.
LEMMA FollowUpKeepsCalm ==
    ASSUME MoneyInv, MoneyInv', Calm, NEW w \in Workers, FollowUp(w)
    PROVE  Calm'
<1>t. /\ worker \in [Workers -> Slots] /\ queue \in [Messages -> Packets]
      /\ Placed(w) /\ OneOrder /\ OneMessage /\ AbsorbedMeansRefunded /\ MessageIsTrue
  BY DEF MoneyInv, TypeOK, Slots, Packets, Calm
<1>1. Carries(w) /\ ~At(w, "idle") /\ ~Works(w)
  BY DEF FollowUp, Carries, At, Works, Unpaid, Owned, Fails
<1>2. UNCHANGED <<kind, status, hold, task, message, engine, absorbed>> /\ Owed' = Owed
  BY SameEngine DEF FollowUp, job, row
<1>3. OneOrder' /\ AbsorbedMeansRefunded' /\ MessageIsTrue'
  BY <1>t, <1>2 DEF OneOrder, AbsorbedMeansRefunded, MessageIsTrue
<1>4. /\ worker'[w].pc = "ack" /\ worker'[w].msg = worker[w].msg /\ ~worker'[w].committed
      /\ \A v \in Workers \ {w} : worker'[v] = worker[v]
  BY <1>t, GoesFields DEF FollowUp, Places, Closing
<1>5. PICK m \in Messages : /\ queue[m].state = "free" /\ queue'[m].state = "ready"
                            /\ \A n \in Messages \ {m} : queue'[n] = queue[n]
  BY <1>t DEF FollowUp
<1>6. OneMessage'
  <2> SUFFICES ASSUME kind = "VIDEO"
               PROVE  /\ \A u, v \in Workers : Carries(u)' /\ Carries(v)' => u = v
                      /\ \A n, k \in Messages : queue'[n].state = "ready" /\ queue'[k].state = "ready" => n = k
                      /\ \A n \in Messages, v \in Workers : queue'[n].state = "ready" => ~Carries(v)'
                      /\ \A n \in Messages : queue'[n].state = "active"
                             => \E v \in Workers : worker'[v].pc # "idle" /\ worker'[v].msg = n
    BY <1>2 DEF OneMessage
  <2>1. \A v \in Workers : ~Carries(v)'
    BY <1>t, <1>1, <1>4 DEF OneMessage, Carries
  <2>2. \A n \in Messages : queue[n].state # "ready"
    BY <1>t, <1>1 DEF OneMessage
  <2>3. \A n \in Messages : queue'[n].state = "ready" => n = m
    BY <1>5, <2>2
  <2>4. ASSUME NEW n \in Messages, queue'[n].state = "active"
        PROVE  \E v \in Workers : worker'[v].pc # "idle" /\ worker'[v].msg = n
    <3>1. queue[n].state = "active"
      BY <1>5, <2>4
    <3>2. PICK v \in Workers : worker[v].pc # "idle" /\ worker[v].msg = n
      BY <1>t, <3>1 DEF OneMessage
    <3> QED
      BY <1>4, <3>2
  <2> QED
    BY <2>1, <2>3, <2>4
<1>7. ~Works(w)' /\ Placed(w)'
  BY <1>4 DEF Placed, Works, Unpaid, Owned, Fails, Retries, At
<1> QED
  BY <1>1, <1>2, <1>3, <1>4, <1>6, <1>7, OneMovesAlone

\* A slot that is empty again.
LEMMA IdleIsPlaced ==
    ASSUME worker \in [Workers -> Slots], NEW w \in Workers, worker' = [worker EXCEPT ![w] = Idle]
    PROVE  /\ worker'[w].pc = "idle" /\ worker'[w].msg = 0
           /\ \A v \in Workers \ {w} : worker'[v] = worker[v]
           /\ ~Works(w)' /\ ~Carries(w)' /\ Placed(w)'
<1>1. worker'[w].pc = "idle" /\ worker'[w].msg = 0 /\ ~worker'[w].committed
  BY IdleShape
<1> QED
  BY <1>1 DEF Placed, Works, Carries, Unpaid, Owned, Fails, Retries, At

\* The message is taken off the queue, or goes back to it.
LEMMA CompleteKeepsCalm ==
    ASSUME MoneyInv, MoneyInv', Calm, NEW w \in Workers, Complete(w)
    PROVE  Calm'
<1>t. /\ worker \in [Workers -> Slots] /\ queue \in [Messages -> Packets]
      /\ Placed(w) /\ OneOrder /\ OneMessage /\ AbsorbedMeansRefunded /\ MessageIsTrue
  BY DEF MoneyInv, TypeOK, Slots, Packets, Calm
<1>1. ~At(w, "idle") /\ ~Works(w) /\ (At(w, "nack") => Carries(w))
  BY DEF Complete, Carries, At, Works, Unpaid, Owned, Fails
<1>2. UNCHANGED <<kind, status, hold, task, message, engine, absorbed>> /\ Owed' = Owed
  BY SameEngine DEF Complete, job, row
<1>3. OneOrder' /\ AbsorbedMeansRefunded' /\ MessageIsTrue'
  BY <1>t, <1>2 DEF OneOrder, AbsorbedMeansRefunded, MessageIsTrue
<1>4. /\ worker'[w].pc = "idle" /\ worker'[w].msg = 0
      /\ \A v \in Workers \ {w} : worker'[v] = worker[v]
      /\ ~Works(w)' /\ ~Carries(w)' /\ Placed(w)'
  BY <1>t, IdleIsPlaced DEF Complete
<1> DEFINE m == worker[w].msg
<1>5. \A n \in Messages : /\ n # m => queue'[n] = queue[n]
                          /\ n = m => queue'[n].state = "free" \/ (At(w, "nack") /\ queue'[n].state = "ready")
  <2>1. m \in 0..MaxMessages /\ m # 0 => m \in Messages
    BY DEF Messages
  <2>2. m \in 0..MaxMessages
    BY <1>t DEF Slots
  <2>3. CASE m = 0
    <3>1. 0 \notin Messages
      BY DEF Messages
    <3> QED
      BY <2>3, <3>1 DEF Complete
  <2>4. CASE m # 0 /\ At(w, "ack")
    <3>1. queue' = [queue EXCEPT ![m] = Free]
      BY <2>4 DEF Complete
    <3>2. Free.state = "free"
      BY DEF Free
    <3> QED
      BY <1>t, <2>1, <2>2, <2>4, <3>1, <3>2
  <2>5. CASE m # 0 /\ ~At(w, "ack")
    <3>1. At(w, "nack") /\ queue' = Retried(m)
      BY <2>5 DEF Complete, At
    <3>2. queue[m] \in Packets
      BY <1>t, <2>1, <2>2, <2>5
    <3>3. CASE queue[m].tries < RetryLimit
      <4> DEFINE r == [queue[m] EXCEPT !.state = "ready", !.tries = @ + 1]
      <4>1. r.state = "ready"
        BY <3>2 DEF Packets
      <4>2. queue' = [queue EXCEPT ![m] = r]
        BY <1>t, <3>1, <3>2, <3>3 DEF Retried, Packets
      <4> HIDE DEF r
      <4> QED
        BY <1>t, <2>1, <2>2, <3>1, <4>1, <4>2
    <3>4. CASE ~(queue[m].tries < RetryLimit)
      <4>1. queue' = [queue EXCEPT ![m] = Free]
        BY <3>1, <3>4 DEF Retried
      <4>2. Free.state = "free"
        BY DEF Free
      <4> QED
        BY <1>t, <2>1, <2>2, <4>1, <4>2
    <3> QED
      BY <3>3, <3>4
  <2> QED
    BY <2>3, <2>4, <2>5
<1>6. OneMessage'
  <2> SUFFICES ASSUME kind = "VIDEO"
               PROVE  /\ \A u, v \in Workers : Carries(u)' /\ Carries(v)' => u = v
                      /\ \A n, k \in Messages : queue'[n].state = "ready" /\ queue'[k].state = "ready" => n = k
                      /\ \A n \in Messages, v \in Workers : queue'[n].state = "ready" => ~Carries(v)'
                      /\ \A n \in Messages : queue'[n].state = "active"
                             => \E v \in Workers : worker'[v].pc # "idle" /\ worker'[v].msg = n
    BY <1>2 DEF OneMessage
  <2>1. \A v \in Workers : Carries(v)' => v # w /\ Carries(v)
    BY <1>4 DEF Carries
  <2>2. \A n \in Messages : queue'[n].state = "ready" => (n = m /\ Carries(w)) \/ queue[n].state = "ready"
    BY <1>1, <1>5
  <2>3. Carries(w) => /\ \A n \in Messages : queue[n].state # "ready"
                      /\ \A v \in Workers : Carries(v) => v = w
    BY <1>t DEF OneMessage
  <2>4. \A n, k \in Messages : queue'[n].state = "ready" /\ queue'[k].state = "ready" => n = k
    BY <1>t, <2>2, <2>3 DEF OneMessage
  <2>5. \A n \in Messages, v \in Workers : queue'[n].state = "ready" => ~Carries(v)'
    BY <1>t, <2>1, <2>2, <2>3 DEF OneMessage
  <2>6. ASSUME NEW n \in Messages, queue'[n].state = "active"
        PROVE  \E v \in Workers : worker'[v].pc # "idle" /\ worker'[v].msg = n
    <3>1. n # m /\ queue[n].state = "active"
      BY <1>5, <2>6
    <3>2. PICK v \in Workers : worker[v].pc # "idle" /\ worker[v].msg = n
      BY <1>t, <3>1 DEF OneMessage
    <3> QED
      BY <1>4, <3>1, <3>2
  <2>7. \A u, v \in Workers : Carries(u)' /\ Carries(v)' => u = v
    BY <1>t, <2>1 DEF OneMessage
  <2> QED
    BY <2>4, <2>5, <2>6, <2>7
<1> HIDE DEF m
<1> QED
  BY <1>1, <1>2, <1>3, <1>4, <1>6, OneMovesAlone

\* A worker dies, of an image only.
LEMMA CrashKeepsCalm ==
    ASSUME MoneyInv, MoneyInv', Calm, NEW w \in Workers, Crash(w), kind = "IMAGE"
    PROVE  Calm'
<1>t. /\ worker \in [Workers -> Slots] /\ ~At(w, "idle")
      /\ OneOrder /\ AbsorbedMeansRefunded /\ MessageIsTrue
  BY DEF MoneyInv, TypeOK, Slots, Calm, Crash
<1>1. UNCHANGED <<kind, status, hold, task, message, engine, absorbed>> /\ Owed' = Owed
  BY SameEngine DEF Crash, job, row
<1>2. OneOrder' /\ AbsorbedMeansRefunded' /\ MessageIsTrue' /\ OneMessage'
  BY <1>t, <1>1 DEF OneOrder, AbsorbedMeansRefunded, MessageIsTrue, OneMessage
<1>3. ~Works(w)' /\ Placed(w)' /\ \A v \in Workers \ {w} : worker'[v] = worker[v]
  BY <1>t, IdleIsPlaced DEF Crash
<1> QED
  BY <1>t, <1>1, <1>2, <1>3, OneMovesAlone

\* The handler's first reading: a job under way with a task is a video to look for.
LEMMA FetchKeepsCalm ==
    ASSUME MoneyInv, MoneyInv', Calm, NEW w \in Workers, NEW m \in Messages, Fetch(w, m)
    PROVE  Calm'
<1>t. /\ worker \in [Workers -> Slots] /\ queue \in [Messages -> Packets] /\ RowInv
      /\ OneOrder /\ OneMessage /\ ImagesAreNow
      /\ EndedMeansRefunded /\ AbsorbedMeansRefunded /\ MessageIsTrue
  BY DEF MoneyInv, TypeOK, Slots, Packets, Calm
<1>1. /\ At(w, "idle") /\ queue[m].state = "ready"
      /\ queue'[m].state = "active" /\ \A n \in Messages \ {m} : queue'[n] = queue[n]
  BY <1>t DEF Fetch, Packets
<1>2. UNCHANGED <<kind, status, outputs, hold, task, message, engine, absorbed>> /\ Owed' = Owed
  BY SameEngine DEF Fetch, job, row
<1>3. status # "none" /\ ~Works(w)
  BY <1>1 DEF Calm, Before, At, Works, Unpaid, Owned, Fails
<1>4. /\ OneOrder' /\ ImagesAreNow'
      /\ EndedMeansRefunded' /\ AbsorbedMeansRefunded' /\ MessageIsTrue'
  BY <1>t, <1>2 DEF OneOrder, ImagesAreNow, EndedMeansRefunded, AbsorbedMeansRefunded, MessageIsTrue
<1>5. Spares /\ Quiet
  BY <1>2 DEF Spares, Quiet, InFlight
<1>6. /\ worker'[w].msg = m /\ \A v \in Workers \ {w} : worker'[v] = worker[v]
      /\ worker'[w].pc \in {"ack", "resume", "followUp", "claim", "poll"}
      /\ worker'[w].pc = "resume" => worker'[w].committed
      /\ worker'[w].pc = "poll" => /\ worker'[w].task = task /\ task # 0
                                   /\ status \in InFlight \/ status = "none"
                                   /\ ~outputs
  <2> DEFINE S == IF status \in {"gone", "DONE"} THEN {"ack"}
                    ELSE IF outputs THEN {"resume"}
                    ELSE IF status \in {"FAILED", "CANCELLED"} THEN {"ack"}
                    ELSE IF status = "QUEUED" /\ "row" \notin old THEN {"begin", "followUp"}
                    ELSE {"begin"}
             R(pc) == IF pc = "ack" THEN [Idle EXCEPT !.pc = pc, !.msg = m]
                      ELSE [pc |-> IF pc # "begin" THEN pc ELSE IF task # 0 THEN "poll" ELSE "claim",
                            msg |-> m, eff |-> Effective(m), task |-> task, call |-> 0,
                            committed |-> pc = "resume", last |-> FALSE]
  <2>1. \A pc \in S : /\ pc \in {"ack", "resume", "begin", "followUp"}
                      /\ pc = "begin" => (status \in InFlight \/ status = "none") /\ ~outputs
    <3>1. status \in {"none", "QUEUED", "GENERATING", "DONE", "FAILED", "CANCELLED", "gone"}
      BY DEF MoneyInv, TypeOK
    <3>2. CASE status \in {"gone", "DONE"}
      <4>1. S = {"ack"}
        BY <3>2
      <4> QED
        BY <4>1
    <3>3. CASE status \notin {"gone", "DONE"} /\ outputs
      <4>1. S = {"resume"}
        BY <3>3
      <4> QED
        BY <4>1
    <3>4. CASE status \in {"FAILED", "CANCELLED"} /\ ~outputs
      <4>1. S = {"ack"}
        BY <3>4
      <4> QED
        BY <4>1
    <3>5. CASE status \in {"none", "QUEUED", "GENERATING"} /\ ~outputs
      <4>1. S = {"begin", "followUp"} \/ S = {"begin"}
        BY <3>5
      <4> HIDE DEF S
      <4> QED
        BY <3>5, <4>1 DEF InFlight
    <3> QED
      BY <3>1, <3>2, <3>3, <3>4, <3>5
  <2>2. \E pc \in S : worker' = [worker EXCEPT ![w] = R(pc)]
    BY DEF Fetch
  <2> HIDE DEF S
  <2>3. PICK pc \in S : worker' = [worker EXCEPT ![w] = R(pc)]
    BY <2>2
  <2>4. CASE pc = "ack"
    <3>1. R(pc).pc = "ack" /\ R(pc).msg = m
      BY <2>4, IdleShape DEF Slots
    <3> HIDE DEF R
    <3> QED
      BY <1>t, <2>3, <3>1
  <2>5. CASE pc # "ack"
    <3>1. /\ R(pc).msg = m /\ R(pc).task = task /\ R(pc).committed = (pc = "resume")
          /\ R(pc).pc = IF pc # "begin" THEN pc ELSE IF task # 0 THEN "poll" ELSE "claim"
      BY <2>5
    <3> HIDE DEF R
    <3>2. worker'[w] = R(pc) /\ \A v \in Workers \ {w} : worker'[v] = worker[v]
      BY <1>t, <2>3
    <3>3. /\ R(pc).pc \in {"resume", "followUp", "claim", "poll"}
          /\ R(pc).pc = "resume" => pc = "resume"
          /\ R(pc).pc = "poll" => pc = "begin" /\ task # 0
      BY <2>1, <2>5, <3>1
    <3> QED
      BY <2>1, <3>1, <3>2, <3>3
  <2> QED
    BY <2>4, <2>5
<1>7. OneMessage'
  <2> SUFFICES ASSUME kind = "VIDEO"
               PROVE  /\ \A u, v \in Workers : Carries(u)' /\ Carries(v)' => u = v
                      /\ \A n \in Messages : queue'[n].state # "ready"
                      /\ \A n \in Messages : queue'[n].state = "active"
                             => \E v \in Workers : worker'[v].pc # "idle" /\ worker'[v].msg = n
    BY <1>2 DEF OneMessage
  <2>1. \A n \in Messages : queue'[n].state # "ready"
    BY <1>t, <1>1 DEF OneMessage
  <2>2. \A v \in Workers : ~Carries(v)
    BY <1>t, <1>1 DEF OneMessage
  <2>3. \A v \in Workers : Carries(v)' => v = w
    BY <1>6, <2>2 DEF Carries
  <2>4. ASSUME NEW n \in Messages, queue'[n].state = "active"
        PROVE  \E v \in Workers : worker'[v].pc # "idle" /\ worker'[v].msg = n
    <3>1. CASE n = m
      BY <1>6, <3>1
    <3>2. CASE n # m
      <4>1. queue[n].state = "active"
        BY <1>1, <2>4, <3>2
      <4>2. PICK v \in Workers : worker[v].pc # "idle" /\ worker[v].msg = n
        BY <1>t, <4>1 DEF OneMessage
      <4>3. v # w
        BY <1>1, <4>2 DEF At
      <4> QED
        BY <1>6, <4>2, <4>3
    <3> QED
      BY <3>1, <3>2
  <2> QED
    BY <2>1, <2>3, <2>4
<1>8. CASE worker'[w].pc # "poll"
  <2>1. ~Works(w)' /\ Placed(w)'
    BY <1>6, <1>8 DEF Placed, Works, Unpaid, Owned, Fails, Retries, At
  <2> QED
    BY <1>2, <1>3, <1>4, <1>5, <1>6, <1>7, <2>1, OneMovesOn
<1>9. CASE worker'[w].pc = "poll"
  <2>1. kind = "VIDEO"
    BY <1>6, <1>9, <1>t, ShapeAssumption DEF ImagesAreNow, MoneyInv, TypeOK
  <2>2. status = "GENERATING" /\ hold = "open"
    BY <1>3, <1>6, <1>9, <1>t DEF Calm, FromNothing, InFlight, RowInv
  <2>3. \A v \in Workers : ~Works(v)
    <3>1. \A v \in Workers : ~Carries(v)
      BY <1>t, <1>1, <2>1 DEF OneMessage
    <3> QED
      BY <3>1 DEF Carries, Works, Unpaid, Owned, Fails, At
  <2>4. Owed \subseteq {task}
    BY <2>1, <2>2, <2>3 DEF Calm, Awaited
  <2>5. Works(w)' /\ Placed(w)'
    BY <1>2, <1>6, <1>9, <2>1, <2>2, <2>4 DEF Placed, Works, Unpaid, Owned, Fails, Retries, At
  <2> QED
    BY <1>2, <1>3, <1>4, <1>5, <1>6, <1>7, <2>2, <2>3, <2>5, OneMovesOn
<1> QED
  BY <1>8, <1>9

-----------------------------------------------------------------------------
\* Faults only become more.

LEMMA FaultsCount ==
    ASSUME TypeOK, [Next]_vars, Undisturbed'
    PROVE  /\ Undisturbed /\ kind' = kind /\ ~Fault("blip")
           /\ kind = "VIDEO" => ~Fault("crash") /\ ~Fault("overrun")
<1>t. faults \in [FaultKinds -> Nat]
  BY DEF TypeOK
<1>1. kind' = kind
  <2>1. ASSUME NEW w \in Workers, Step(w) PROVE kind' = kind
    BY <2>1 DEF Step, ReadInputsFails, Claim, RefuseToSpend, FailClosed, Call, Answer, PersistTask,
                Poll, ClearTask, Store, DiscardOutputs, Finish, Resume, Tell, Catch, FollowUp, Complete, job, row
  <2>2. ASSUME NEW w \in Workers, NEW m \in Messages, Fetch(w, m) PROVE kind' = kind
    BY <2>2 DEF Fetch, job, row
  <2>3. ASSUME NEW w \in Workers, Crash(w) PROVE kind' = kind
    BY <2>3 DEF Crash, job, row
  <2>4. ASSUME NEW m \in Messages, Expire(m) PROVE kind' = kind
    BY <2>4 DEF Expire, job, row
  <2>5. CASE StartGen \/ CancelGenJob \/ DeleteProject \/ Reaper \/ RedeliverResult \/ UNCHANGED vars
    BY <2>5 DEF StartGen, CancelGenJob, DeleteProject, Reaper, ReapRead, ReapWrite, ReapQueued,
                ReapCommitted, RedeliverResult, vars, job, row
  <2>6. ASSUME NEW n \in Calls, EngineEnds(n) PROVE kind' = kind
    BY <2>6 DEF EngineEnds, job, row
  <2>7. ASSUME NEW clock \in {"row", "claim", "task"}, Ages(clock) PROVE kind' = kind
    BY <2>7 DEF Ages, row
  <2> QED
    BY <2>1, <2>2, <2>3, <2>4, <2>5, <2>6, <2>7 DEF Next
<1>2. UNCHANGED faults \/ \E f \in FaultKinds : Fault(f)
  <2>1. ASSUME NEW w \in Workers, Step(w) PROVE UNCHANGED faults \/ \E f \in FaultKinds : Fault(f)
    BY <2>1 DEF Step, ReadInputsFails, Claim, RefuseToSpend, FailClosed, Call, Answer, PersistTask,
                Poll, ClearTask, Store, DiscardOutputs, Finish, Resume, Tell, Catch, FollowUp, Complete, FaultKinds
  <2>2. ASSUME NEW w \in Workers, Crash(w) PROVE \E f \in FaultKinds : Fault(f)
    BY <2>2 DEF Crash, FaultKinds
  <2>3. ASSUME NEW w \in Workers, NEW m \in Messages, Fetch(w, m) PROVE UNCHANGED faults
    BY <2>3 DEF Fetch
  <2>4. ASSUME NEW m \in Messages, Expire(m) PROVE UNCHANGED faults \/ \E f \in FaultKinds : Fault(f)
    BY <2>4 DEF Expire, FaultKinds
  <2>5. CASE StartGen \/ CancelGenJob \/ DeleteProject \/ Reaper \/ RedeliverResult \/ UNCHANGED vars
    BY <2>5 DEF StartGen, CancelGenJob, DeleteProject, Reaper, ReapRead, ReapWrite, ReapQueued,
                ReapCommitted, RedeliverResult, vars
  <2>6. ASSUME NEW n \in Calls, EngineEnds(n) PROVE UNCHANGED faults
    BY <2>6 DEF EngineEnds
  <2>7. ASSUME NEW clock \in {"row", "claim", "task"}, Ages(clock) PROVE UNCHANGED faults
    BY <2>7 DEF Ages
  <2> QED
    BY <2>1, <2>2, <2>3, <2>4, <2>5, <2>6, <2>7 DEF Next
<1>3. \A f \in FaultKinds : Fault(f) => faults'[f] # 0
  BY <1>t DEF Fault
<1>4. \A f, g \in FaultKinds : Fault(g) /\ faults'[f] = 0 => faults[f] = 0
  BY <1>t DEF Fault
<1>5. {"blip", "crash", "overrun"} \subseteq FaultKinds
  BY DEF FaultKinds
<1>6. \A f \in FaultKinds : faults'[f] = 0 => faults[f] = 0
  BY <1>2, <1>4
<1> QED
  BY <1>1, <1>3, <1>5, <1>6 DEF Undisturbed

LEMMA CalmInit == Init => CalmInv
<1> SUFFICES ASSUME Init PROVE Calm
  BY MoneyInit DEF CalmInv
<1>1. \A w \in Workers : worker[w].pc = "idle" /\ ~worker[w].committed
  BY IdleShape DEF Init
<1>2. \A m \in Messages : queue[m].state = "free"
  BY DEF Init, Free
<1>3. Owed = {}
  BY DEF Init, Owed
<1>4. /\ task = 0 /\ status = "none" /\ message = "none" /\ ~absorbed
  BY DEF Init
<1>5. \A w \in Workers : ~Works(w) /\ ~Carries(w) /\ Placed(w)
  BY <1>1 DEF Works, Unpaid, Owned, Fails, Retries, Carries, Placed, At
<1>6. Before /\ OneMessage /\ OneWorks /\ OneOrder /\ ImagesAreNow /\ FromNothing /\ Awaited
  BY <1>1, <1>2, <1>3, <1>4, <1>5
     DEF Before, OneMessage, OneWorks, OneOrder, ImagesAreNow, FromNothing, Awaited, At
<1>7. EndedMeansRefunded /\ AbsorbedMeansRefunded /\ MessageIsTrue
  BY <1>4 DEF EndedMeansRefunded, AbsorbedMeansRefunded, MessageIsTrue
<1> QED
  BY <1>5, <1>6, <1>7 DEF Calm

LEMMA CalmStep == CalmInv /\ [Next]_vars => CalmInv'
<1> SUFFICES ASSUME MoneyInv, MoneyInv', Undisturbed => Calm, [Next]_vars, Undisturbed'
             PROVE  Calm'
  BY MoneyStep DEF CalmInv
<1>f. /\ Calm /\ ~Fault("blip")
      /\ kind = "VIDEO" => ~Fault("crash") /\ ~Fault("overrun")
  BY FaultsCount DEF MoneyInv
<1>1. CASE StartGen
  BY <1>f, <1>1, StartKeepsCalm
<1>2. ASSUME NEW w \in Workers, Step(w) PROVE Calm'
  <2>1. ~ReadInputsFails(w)
    BY <1>f DEF ReadInputsFails
  <2>2. CASE Claim(w)
    BY <1>f, <2>2, ClaimKeepsCalm
  <2>3. CASE RefuseToSpend(w) \/ FailClosed(w)
    BY <1>f, <2>3, GateKeepsCalm
  <2>4. CASE Call(w)
    BY <1>f, <2>4, CallKeepsCalm
  <2>5. CASE Answer(w)
    BY <1>f, <2>5, AnswerKeepsCalm
  <2>6. CASE PersistTask(w)
    BY <1>f, <2>6, PersistKeepsCalm
  <2>7. CASE Poll(w)
    BY <1>f, <2>7, PollKeepsCalm
  <2>8. CASE ClearTask(w)
    BY <1>f, <2>8, ClearKeepsCalm
  <2>9. CASE Store(w)
    BY <1>f, <2>9, StoreKeepsCalm
  <2>10. CASE DiscardOutputs(w)
    BY <1>f, <2>10, DiscardKeepsCalm
  <2>11. CASE Finish(w) \/ Resume(w)
    BY <1>f, <2>11, FinishKeepsCalm
  <2>12. CASE Tell(w)
    BY <1>f, <2>12, TellKeepsCalm
  <2>13. CASE Catch(w)
    BY <1>f, <2>13, CatchKeepsCalm
  <2>14. CASE FollowUp(w)
    BY <1>f, <2>14, FollowUpKeepsCalm
  <2>15. CASE Complete(w)
    BY <1>f, <2>15, CompleteKeepsCalm
  <2> QED
    BY <1>2, <2>1, <2>2, <2>3, <2>4, <2>5, <2>6, <2>7, <2>8, <2>9, <2>10, <2>11, <2>12, <2>13, <2>14, <2>15 DEF Step
<1>3. ASSUME NEW w \in Workers, Crash(w) PROVE Calm'
  <2>1. kind = "IMAGE"
    BY <1>3, <1>f, ShapeAssumption DEF Crash, MoneyInv, TypeOK
  <2> QED
    BY <1>3, <1>f, <2>1, CrashKeepsCalm
<1>4. ASSUME NEW w \in Workers, NEW m \in Messages, Fetch(w, m) PROVE Calm'
  BY <1>4, <1>f, FetchKeepsCalm
<1>5. ASSUME NEW m \in Messages, Expire(m) PROVE Calm'
  BY <1>5, <1>f, ExpiryKeepsCalm
<1>6. CASE \/ CancelGenJob \/ DeleteProject \/ Reaper \/ RedeliverResult
           \/ \E n \in Calls : EngineEnds(n)
           \/ \E clock \in {"row", "claim", "task"} : Ages(clock)
  BY <1>6, <1>f, WorldKeepsCalm
<1>7. CASE UNCHANGED vars
  <2>1. UNCHANGED <<kind, status, outputs, task, hold, message, engine, queue, worker, absorbed>> /\ Owed' = Owed
    BY <1>7, SameEngine DEF vars, job, row
  <2>2. OneMessage' /\ \A v \in Workers : Rests(v)
    BY <1>f, <2>1, NobodyMoves
  <2>3. Spares /\ Quiet
    BY <2>1 DEF Spares, Quiet, InFlight
  <2>4. EndedMeansRefunded' /\ AbsorbedMeansRefunded' /\ MessageIsTrue'
    BY <1>f, <2>1 DEF Calm, EndedMeansRefunded, AbsorbedMeansRefunded, MessageIsTrue
  <2> QED
    BY <1>f, <2>1, <2>2, <2>3, <2>4, WorldMovesOn
<1> QED
  BY <1>1, <1>2, <1>3, <1>4, <1>5, <1>6, <1>7 DEF Next

-----------------------------------------------------------------------------
\* Theorems.

\* Whatever the deliveries, the sweeps and the merchant do, the job's state
\* stays well typed; in particular a message is never tried beyond RetryLimit.
THEOREM TypeCorrect == Spec => []TypeOK
<1>1. TypeOK /\ [Next]_vars => TypeOK'
  BY TypeStep
<1> QED
  BY TypeInit, <1>1, PTL DEF Spec

\* Row, hold and deliveries never contradict each other about the money.
THEOREM MoneyAgrees == Spec => []MoneyInv
<1>1. Init => MoneyInv
  BY MoneyInit
<1>2. MoneyInv /\ [Next]_vars => MoneyInv'
  BY MoneyStep
<1> QED
  BY <1>1, <1>2, PTL DEF Spec

\* A job is charged in the very step that stores its result, refunded only
\* without one, and never both, under any number of crashes, expiries, rejected
\* statements and retries of any number of deliveries.
THEOREM JobKeepsThePromise == Spec => KeepsThePromise
<1>1. Init => MoneyInv /\ Work!Init
  BY MoneyInit
<1>2. MoneyInv /\ [Next]_vars => MoneyInv' /\ [Work!Next]_(Work!work)
  BY MoneyStep DEF WorkStep
<1> QED
  BY <1>1, <1>2, PTL DEF Spec, KeepsThePromise, Work!Safety

\* Short of the faults that break them, the four promises to the merchant hold
\* because one delivery at a time works for the job.  This is the invariant that
\* says so: who works, for which row, on which message, and what is billed.
THEOREM CalmHolds == Spec => []CalmInv
<1>1. Init => CalmInv
  BY CalmInit
<1>2. CalmInv /\ [Next]_vars => CalmInv'
  BY CalmStep
<1> QED
  BY <1>1, <1>2, PTL DEF Spec

\* A job that shows FAILED or CANCELLED, "you were not charged", was refunded.
THEOREM EndedIsRefunded == Spec => []EndsRefunded
<1>1. CalmInv => EndsRefunded
  BY DEF CalmInv, Calm, EndsRefunded
<1> QED
  BY <1>1, CalmHolds, PTL

\* The engine is never asked again while an earlier order is billed or may still
\* come to be billed, however often the message is delivered or retried.
THEOREM OrderedOnce == Spec => []OrdersOnce
<1>1. ASSUME OneOrder PROVE OneLiveCall
  <2>1. CASE Owed = {}
    BY <2>1, FS_EmptySet DEF OneLiveCall, Owed
  <2>2. CASE Owed # {}
    <3>1. PICK n \in Owed : TRUE
      BY <2>2
    <3>2. Owed = {n}
      BY <1>1, <3>1 DEF OneOrder
    <3>3. Cardinality(Owed) = 1
      BY <3>2, FS_Singleton
    <3> QED
      BY <3>3 DEF OneLiveCall, Owed
  <2> QED
    BY <2>1, <2>2
<1>2. CalmInv => OrdersOnce
  BY <1>1 DEF CalmInv, Calm, OrdersOnce
<1> QED
  BY <1>2, CalmHolds, PTL

\* A worker that throws a result away, because the row ended under it, takes
\* nothing from a merchant who still pays.
THEOREM DiscardedIsRefunded == Spec => []AbsorbsRefunded
<1>1. CalmInv => AbsorbsRefunded
  BY DEF CalmInv, Calm, AbsorbsRefunded
<1> QED
  BY <1>1, CalmHolds, PTL

\* "Here it is" is only ever said of a job that was paid, "not charged" only of
\* one that was refunded, whoever of worker, reaper and merchant writes it.
THEOREM ThreadIsTruthful == Spec => []TellsTruth
<1>1. CalmInv => TellsTruth
  BY DEF CalmInv, Calm, TellsTruth
<1> QED
  BY <1>1, CalmHolds, PTL
=============================================================================
