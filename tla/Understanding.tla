---------------------------- MODULE Understanding ----------------------------
(***************************************************************************)
(* Reading one of a merchant's files: a row of AssetUnderstanding, the     *)
(* handlers that claim it (handleUnderstand), the scanner that brings it   *)
(* back and the two sweeps, one for rows and one for holds.  The row is    *)
(* read in rounds: each round has a reservation of its own, and a new      *)
(* round begins when the ledger says that the last one was refunded.       *)
(*                                                                         *)
(* The scanner sends a message for a waiting row again and again, so a     *)
(* handler may start at any time, several at once, on a row it read        *)
(* earlier.  A handler may stop anywhere: its process dies or a statement  *)
(* throws.  Every action is one statement, one transaction or the call.    *)
(* MaxRounds bounds the rounds.                                            *)
(***************************************************************************)
EXTENDS Naturals, FiniteSets

CONSTANTS
    Handlers,      \* deliveries that can be under way at once
    MaxRounds      \* billing rounds of the row

ASSUME RoundsAreCounted == MaxRounds \in Nat \ {0}

VARIABLES
    status,        \* AssetUnderstanding.status; "gone" once the row is deleted
    rowOld,        \* the row has been RUNNING for half an hour
    moneyRef,      \* the round moneyRefId names, 0 before the first
    hold,          \* each round's reservation
    holdOld,       \* it was made an hour ago
    doneBy,        \* the round whose commit wrote DONE, 0 before that
    handler,       \* what each delivery is in the middle of
    sweeping       \* the round the hold sweep just refunded

vars == <<status, rowOld, moneyRef, hold, holdOld, doneBy, handler, sweeping>>

Rounds == 1..MaxRounds

Statuses == {"QUEUED", "RUNNING", "DONE", "FAILED", "SKIPPED", "PAUSED", "PAUSED_BALANCE", "gone"}
Ended == {"DONE", "FAILED", "SKIPPED", "gone"}

\* What the conditional writes at the end of a delivery set the row to.
Write ==
    [skip |-> "SKIPPED", drop |-> "gone", requeue |-> "QUEUED", fail |-> "FAILED",
     pause |-> "PAUSED", park |-> "PAUSED_BALANCE", close |-> "DONE"]

Places == {"idle", "claim", "check", "ensure", "reserve", "call", "refund", "commit"}
              \cup DOMAIN Write

\* seen: the round the row named when it was loaded; ref: the round this
\* delivery works under; next: the write that follows a refund.
Idle == [pc |-> "idle", seen |-> 0, ref |-> 0, next |-> "idle"]

TypeOK ==
    /\ status \in Statuses
    /\ rowOld \in BOOLEAN
    /\ moneyRef \in 0..MaxRounds
    /\ hold \in [Rounds -> {"none", "open", "settled", "refunded"}]
    /\ holdOld \in [Rounds -> BOOLEAN]
    /\ doneBy \in 0..MaxRounds
    /\ handler \in [Handlers -> [pc : Places, seen : 0..MaxRounds, ref : 0..MaxRounds,
                                 next : {"idle"} \cup DOMAIN Write]]
    /\ sweeping \in 0..MaxRounds

At(w, pc) == handler[w].pc = pc
Goes(w, pc) == handler' = [handler EXCEPT ![w].pc = pc]
Ends(w) == handler' = [handler EXCEPT ![w] = Idle]

\* The delivery refunds its round and then writes the row.
GivesUp(w, ref, write) ==
    handler' = [handler EXCEPT ![w].pc = "refund", ![w].ref = ref, ![w].next = write]

Row == <<status, rowOld>>
Money == <<moneyRef, hold, holdOld, doneBy>>

-----------------------------------------------------------------------------
\* handleUnderstand up to the provider's call.

\* The row is read first and claimed afterwards.
Load(w) ==
    /\ handler[w] = Idle /\ status \notin Ended
    /\ handler' = [handler EXCEPT ![w].pc = "claim", ![w].seen = moneyRef]
    /\ UNCHANGED <<Row, Money, sweeping>>

Claim(w) ==
    /\ At(w, "claim")
    /\ IF status = "QUEUED"
       THEN status' = "RUNNING" /\ rowOld' = FALSE /\ Goes(w, "check")
       ELSE UNCHANGED Row /\ Ends(w)
    /\ UNCHANGED <<Money, sweeping>>

\* The switch is off, metadata is missing or no address can be signed; the file
\* is too large; the file is gone; or it can be read.
Check(w) ==
    /\ At(w, "check")
    /\ \/ Goes(w, "requeue")
       \/ GivesUp(w, handler[w].seen, "skip")
       \/ GivesUp(w, handler[w].seen, "drop")
       \/ Goes(w, "ensure")
    /\ UNCHANGED <<Row, Money, sweeping>>

\* Mutant: the new round is written over whatever the row names by now.
NamesRegardless(w, seen, round) ==
    /\ moneyRef < MaxRounds
    /\ moneyRef' = moneyRef + 1 /\ rowOld' = FALSE
    /\ handler' = [handler EXCEPT ![w].pc = "reserve", ![w].ref = moneyRef + 1]

\* A round is named on the row, if it still names the one this delivery saw.
Names(w, seen, round) ==
    IF moneyRef = seen
    THEN /\ moneyRef' = round /\ rowOld' = FALSE
         /\ handler' = [handler EXCEPT ![w].pc = "reserve", ![w].ref = round]
    ELSE UNCHANGED <<moneyRef, rowOld>> /\ Ends(w)

\* ensureUnderstandingHold asks the ledger, not its memory.
EnsureFirst(w) ==
    /\ At(w, "ensure") /\ handler[w].seen = 0
    /\ Names(w, 0, 1)
    /\ UNCHANGED <<status, hold, holdOld, doneBy, sweeping>>

EnsureNew(w) ==
    /\ At(w, "ensure") /\ handler[w].seen \in 1..(MaxRounds - 1)
    /\ hold[handler[w].seen] = "refunded"
    /\ Names(w, handler[w].seen, handler[w].seen + 1)
    /\ UNCHANGED <<status, hold, holdOld, doneBy, sweeping>>

\* An open hold is used again, a missing one is made, a settled one closes.
EnsureSame(w) ==
    /\ At(w, "ensure") /\ handler[w].seen # 0
    /\ hold[handler[w].seen] # "refunded"
    /\ handler' = [handler EXCEPT
           ![w].ref = handler[w].seen,
           ![w].pc = CASE hold[handler[w].seen] = "open" -> "call"
                       [] hold[handler[w].seen] = "none" -> "reserve"
                       [] OTHER -> "close"]
    /\ UNCHANGED <<Row, Money, sweeping>>

\* The balance is judged first, so a delivery may park although another has the
\* hold by now; the unique key counts as a hold that is there already.
Reserve(w) ==
    /\ At(w, "reserve")
    /\ LET r == handler[w].ref IN
       \/ /\ hold' = [hold EXCEPT ![r] = IF @ = "none" THEN "open" ELSE @]
          /\ Goes(w, "call")
       \/ Goes(w, "park") /\ UNCHANGED hold
    /\ UNCHANGED <<Row, moneyRef, holdOld, doneBy, sweeping>>

-----------------------------------------------------------------------------
\* The call and what follows it.

\* A usable answer; a failure with retries left (the hold stays); an unreadable
\* file or the last of the retries; a broken configuration or an answer with
\* nothing usable in it, retries used up.
Call(w) ==
    /\ At(w, "call")
    /\ \/ Goes(w, "commit")
       \/ Goes(w, "requeue")
       \/ GivesUp(w, handler[w].ref, "fail")
       \/ GivesUp(w, handler[w].ref, "pause")
    /\ UNCHANGED <<Row, Money, sweeping>>

\* Mutant: the settlement is taken at its word, refunded round or not.
CommitUnread(w) ==
    /\ At(w, "commit")
    /\ LET r == handler[w].ref IN
       IF status = "RUNNING"
       THEN /\ hold' = [hold EXCEPT ![r] = IF @ = "open" THEN "settled" ELSE @]
            /\ status' = "DONE" /\ doneBy' = r
            /\ Ends(w)
       ELSE UNCHANGED <<hold, status, doneBy>> /\ Ends(w)
    /\ UNCHANGED <<rowOld, moneyRef, holdOld, sweeping>>

\* Settlement, products or facts, and DONE in one transaction.  A refunded
\* round rolls it back and requeues the row; so does a row that is not running
\* any more, and the row is then left to whoever took it.
Commit(w) ==
    /\ At(w, "commit")
    /\ LET r == handler[w].ref IN
       \/ /\ hold[r] = "refunded"
          /\ Goes(w, "requeue") /\ UNCHANGED <<hold, status, doneBy>>
       \/ /\ hold[r] # "refunded" /\ status # "RUNNING"
          /\ Ends(w) /\ UNCHANGED <<hold, status, doneBy>>
       \/ /\ hold[r] # "refunded" /\ status = "RUNNING"
          /\ hold' = [hold EXCEPT ![r] = "settled"]
          /\ status' = "DONE" /\ doneBy' = r
          /\ Ends(w)
    /\ UNCHANGED <<rowOld, moneyRef, holdOld, sweeping>>

\* refundUnderstandingHold: nothing to do without a round, or on a closed hold.
Refund(w) ==
    /\ At(w, "refund")
    /\ hold' = [r \in Rounds |->
                   IF r = handler[w].ref /\ hold[r] = "open" THEN "refunded" ELSE hold[r]]
    /\ handler' = [handler EXCEPT ![w].pc = handler[w].next]
    /\ UNCHANGED <<Row, moneyRef, holdOld, doneBy, sweeping>>

\* skip, drop, hold, fail, pauseForConfig and the two other last writes: only
\* while the row is RUNNING, though not necessarily for this delivery.
WriteRow(w) ==
    /\ handler[w].pc \in DOMAIN Write
    /\ status' = IF status = "RUNNING" THEN Write[handler[w].pc] ELSE status
    /\ Ends(w)
    /\ UNCHANGED <<rowOld, Money, sweeping>>

Stops(w) ==
    /\ handler[w] # Idle
    /\ Ends(w)
    /\ UNCHANGED <<Row, Money, sweeping>>

-----------------------------------------------------------------------------
\* The scanner, the top-up and the sweeps.

\* A paused row is tried again later, a waiting one when the balance is there.
Wake ==
    /\ status \in {"PAUSED", "PAUSED_BALANCE"}
    /\ status' = "QUEUED"
    /\ UNCHANGED <<rowOld, Money, handler, sweeping>>

RowAges ==
    /\ status = "RUNNING" /\ ~rowOld
    /\ rowOld' = TRUE
    /\ UNCHANGED <<status, Money, handler, sweeping>>

\* reapStaleUnderstanding.
ReapRow ==
    /\ status = "RUNNING" /\ rowOld
    /\ status' = "QUEUED"
    /\ UNCHANGED <<rowOld, Money, handler, sweeping>>

HoldAges(r) ==
    /\ hold[r] = "open" /\ ~holdOld[r]
    /\ holdOld' = [holdOld EXCEPT ![r] = TRUE]
    /\ UNCHANGED <<Row, moneyRef, hold, doneBy, handler, sweeping>>

\* Mutant: only the round the row still names is swept, and only if it runs.
SweepRunning(r) ==
    /\ sweeping = 0
    /\ hold[r] = "open" /\ holdOld[r] /\ moneyRef = r /\ status = "RUNNING"
    /\ hold' = [hold EXCEPT ![r] = "refunded"]
    /\ sweeping' = r
    /\ UNCHANGED <<Row, moneyRef, holdOld, doneBy, handler>>

\* reapStaleUnderstandingReservations: the refund, and then the row.
SweepHold(r) ==
    /\ sweeping = 0
    /\ hold[r] = "open" /\ holdOld[r]
    /\ hold' = [hold EXCEPT ![r] = "refunded"]
    /\ sweeping' = r
    /\ UNCHANGED <<Row, moneyRef, holdOld, doneBy, handler>>

SweepRow ==
    /\ sweeping # 0
    /\ status' = IF moneyRef = sweeping /\ status = "RUNNING" THEN "QUEUED" ELSE status
    /\ sweeping' = 0
    /\ UNCHANGED <<rowOld, Money, handler>>

SweepStops ==
    /\ sweeping # 0
    /\ sweeping' = 0
    /\ UNCHANGED <<Row, Money, handler>>

-----------------------------------------------------------------------------
Init ==
    /\ status = "QUEUED" /\ rowOld = FALSE
    /\ moneyRef = 0 /\ doneBy = 0 /\ sweeping = 0
    /\ hold = [r \in Rounds |-> "none"]
    /\ holdOld = [r \in Rounds |-> FALSE]
    /\ handler = [w \in Handlers |-> Idle]

Handling(w) ==
    \/ Claim(w) \/ Check(w) \/ EnsureFirst(w) \/ EnsureNew(w) \/ EnsureSame(w)
    \/ Reserve(w) \/ Call(w) \/ Commit(w) \/ Refund(w) \/ WriteRow(w)

Next ==
    \/ \E w \in Handlers : Load(w) \/ Handling(w) \/ Stops(w)
    \/ \E r \in Rounds : HoldAges(r) \/ SweepHold(r)
    \/ Wake \/ RowAges \/ ReapRow \/ SweepRow \/ SweepStops

Spec == Init /\ [][Next]_vars

\* Time passes and the hold sweep runs every few minutes.
Fairness ==
    /\ \A r \in Rounds : WF_vars(HoldAges(r)) /\ SF_vars(SweepHold(r))
    /\ WF_vars(SweepRow)

FairSpec == Spec /\ Fairness

-----------------------------------------------------------------------------
\* Properties.

Work(r) == INSTANCE PaidWork WITH hold <- hold[r], delivered <- doneBy = r

\* Each round's hold is settled in the step that delivers what was read, and
\* refunded only without delivery, whichever deliveries, sweeps and late
\* answers meet on the row.
KeepsThePromise ==
    /\ \A r \in Rounds : Work(r)!Init
    /\ [][\A r \in Rounds : [Work(r)!Next]_<<hold[r], doneBy = r>>]_vars

\* No round's hold stays open.
HoldCloses == \A r \in Rounds : Work(r)!Closes

\* One file, one lock: at most one round holds the merchant's credits, and the
\* file is read for at most one charge.
OneRound ==
    /\ Cardinality({r \in Rounds : hold[r] = "open"}) <= 1
    /\ \A r \in Rounds : hold[r] = "settled" =>
          status = "DONE" /\ \A q \in Rounds \ {r} : hold[q] \in {"none", "refunded"}
=============================================================================
