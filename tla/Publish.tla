------------------------------- MODULE Publish ------------------------------
(***************************************************************************)
(* One scheduled social post, from the merchant's approval to the platform *)
(* and back into the row.                                                  *)
(*                                                                         *)
(* Publishing cannot be undone and cannot be asked about afterwards: when  *)
(* the platform's answer is lost nobody knows whether the post is live.    *)
(* The worker therefore works behind locks: a stamped row, one APPLYING    *)
(* attempt per post, and a refusal while any attempt is UNCONFIRMED.  The  *)
(* scheduler, redeliveries, the reaper, the merchant's editor and the      *)
(* merchant's own switch all move while a delivery is between two awaits.  *)
(*                                                                         *)
(* PUBLISHING_AVAILABLE, the product's own switch, is taken to be on, as   *)
(* the worker's tests take it; while it is off no delivery gets past it.   *)
(***************************************************************************)
EXTENDS Naturals, FiniteSets

CONSTANTS
    Workers,       \* delivery slots of the worker processes
    Channels,      \* where the post goes: "instagram", "facebook" or either
    Faults,        \* the kinds of fault a run considers
    MaxFaults,     \* bound: faults in one behaviour
    MaxMessages,   \* bound: queue messages of the post that exist at once
    MaxAttempts,   \* bound: publish attempts somebody still refers to
    MaxApprovals,  \* bound: how often the merchant approves ...
    MaxEdits,      \* ... edits ...
    MaxFlips,      \* ... turns auto-publish or the account's connection on or off
    RetryLimit     \* PUBLISH_RETRY_LIMIT

FaultKinds ==
    {"crash",     \* a worker dies
     "blip",      \* a database statement rejects
     "overrun",   \* a delivery outlives expireInSeconds
     "outlive"}   \* a delivery outlives the reaper's cutoff

ASSUME ShapeAssumption ==
    /\ Channels \subseteq {"instagram", "facebook"}
    /\ Faults \subseteq FaultKinds
    /\ MaxFaults \in Nat /\ RetryLimit \in Nat
    /\ MaxApprovals \in Nat /\ MaxEdits \in Nat /\ MaxFlips \in Nat
    /\ MaxMessages \in Nat \ {0} /\ MaxAttempts \in Nat \ {0}

Messages == 1..MaxMessages
Attempts == 1..MaxAttempts

VARIABLES
    channel,      \* ScheduledPost.channel
    status,       \* ScheduledPost.status
    due,          \* scheduledAt has come
    stamped,      \* metaPostId is set
    auto,         \* the merchant's auto-publish switch
    authorized,   \* the connection to Meta is there, active and may publish
    claim,        \* the attempt in state APPLYING, 0 if there is none
    anchored,     \* its creationId is stored
    aged,         \* its startedAt is older than PUBLISH_STALE_MS
    unconfirmed,  \* the attempts in state UNCONFIRMED; 0 is one nobody updates
    live,         \* how many posts the platform has made of it
    desk,         \* the approval on its way: none, or its reading of the row
    queue,        \* pg-boss messages that carry the post's id
    worker,       \* what each delivery slot is doing
    sweep,        \* the attempt the reaper read, and whether it was anchored
    used          \* faults, approvals, edits and flips so far

row == <<channel, status, due, stamped, desk>>
attempt == <<claim, anchored, aged, unconfirmed>>
post == <<row, attempt, auto, authorized, live>>
vars == <<post, queue, worker, sweep, used>>

Statuses == {"DRAFT", "SCHEDULED", "PUBLISHING", "PUBLISHED", "FAILED",
             "NEEDS_ATTENTION", "CANCELLED"}
Places == {"idle", "guard", "switch", "claim", "row", "prepare", "container",
           "confirm", "send", "record", "withdraw", "refuse", "ambiguous",
           "transient", "hard", "ack", "nack"}
Free == [state |-> "free", tries |-> 0]
Idle == [pc |-> "idle", msg |-> 0, saw |-> "DRAFT", mine |-> 0, last |-> FALSE]
NoSweep == [id |-> 0, anchored |-> FALSE]

-----------------------------------------------------------------------------
\* Building blocks.

At(w, pc) == worker[w].pc = pc

\* On its way out a delivery forgets everything but its message.
Goes(w, pc) ==
    worker' = [worker EXCEPT ![w] =
        IF pc \in {"ack", "nack"} THEN [Idle EXCEPT !.pc = pc, !.msg = worker[w].msg]
        ELSE [worker[w] EXCEPT !.pc = pc]]

Counted == FaultKinds \cup {"approve", "edit", "flip"}
Count(k) == used' = [used EXCEPT ![k] = @ + 1]
FaultsLeft == Cardinality({g \in Faults \X (1..MaxFaults) : g[2] <= used[g[1]]}) < MaxFaults
Fault(f) == f \in Faults /\ FaultsLeft /\ Count(f)

\* Every write of the row moves its updatedAt, which an approval pins.
Touched == desk' = IF desk = "fresh" THEN "stale" ELSE desk
\* A compare-and-set of the status.
Move(from, to) ==
    IF status \in from THEN status' = to /\ Touched ELSE UNCHANGED <<status, desk>>
MoveUnstamped(from, to) ==
    IF status \in from /\ ~stamped THEN status' = to /\ Touched ELSE UNCHANGED <<status, desk>>

\* An attempt leaves APPLYING, if a is the one in it, and ends as FAILED ...
Release(a) ==
    IF claim = a THEN claim' = 0 /\ anchored' = FALSE /\ aged' = FALSE
                 ELSE UNCHANGED <<claim, anchored, aged>>
\* ... or as UNCONFIRMED.
LeaveUnconfirmed(a) ==
    /\ Release(a)
    /\ unconfirmed' = IF claim = a THEN unconfirmed \cup {a} ELSE unconfirmed

\* An attempt nobody refers to any more stands for every one created later.
Forgotten(a) ==
    /\ a \notin unconfirmed \cup {claim, sweep.id}
    /\ \A w \in Workers : worker[w].mine # a

Retried(m) ==
    IF queue[m].tries < RetryLimit
    THEN [queue EXCEPT ![m].state = "ready", ![m].tries = @ + 1]
    ELSE [queue EXCEPT ![m] = Free]

-----------------------------------------------------------------------------
\* The merchant.

\* approveScheduledPost reads the row and the attempts ...
ApproveRead ==
    /\ desk = "none"
    /\ used["approve"] < MaxApprovals
    /\ status \in {"DRAFT", "NEEDS_ATTENTION", "FAILED"}
    /\ unconfirmed = {}
    /\ Count("approve")
    /\ desk' = "fresh"
    /\ UNCHANGED <<channel, status, due, stamped,
                   attempt, auto, authorized, live, queue, worker, sweep>>

\* ... asks the platform about the target, and, unless that refuses, writes if
\* the row has not moved.
ApproveWrite ==
    /\ desk # "none"
    /\ desk' = "none"
    /\ \/ desk = "fresh" /\ status' = "SCHEDULED"
       \/ UNCHANGED status
    /\ UNCHANGED <<channel, due, stamped,
                   attempt, auto, authorized, live, queue, worker, sweep, used>>

\* updateScheduledPost takes a queued post back to the drafts.
Edit ==
    /\ used["edit"] < MaxEdits
    /\ status \in {"DRAFT", "SCHEDULED"}
    /\ status' = "DRAFT"
    /\ \E later \in BOOLEAN : due' = (due /\ ~later)
    /\ Touched
    /\ Count("edit")
    /\ UNCHANGED <<channel, stamped,
                   attempt, auto, authorized, live, queue, worker, sweep>>

\* cancelScheduledPost.
Cancel ==
    /\ status \in {"DRAFT", "SCHEDULED", "NEEDS_ATTENTION", "FAILED"}
    /\ status' = "CANCELLED"
    /\ Touched
    /\ UNCHANGED <<channel, due, stamped,
                   attempt, auto, authorized, live, queue, worker, sweep, used>>

\* Settings: auto-publish on or off.
Flip ==
    /\ used["flip"] < MaxFlips
    /\ auto' = ~auto
    /\ Count("flip")
    /\ UNCHANGED <<row, attempt, authorized, live, queue, worker, sweep>>

\* The merchant connects or disconnects the account, or Meta ends the connection.
Reconnect ==
    /\ used["flip"] < MaxFlips
    /\ authorized' = ~authorized
    /\ Count("flip")
    /\ UNCHANGED <<row, attempt, auto, live, queue, worker, sweep>>

-----------------------------------------------------------------------------
\* The scheduler.

\* scanDuePublishPosts and the send, for a connection that may publish.  The
\* singleton key of the send has no effect on this kind of queue: a post may be
\* queued more than once.
Scan ==
    /\ status = "SCHEDULED" /\ due /\ ~stamped /\ auto /\ authorized
    /\ \E m \in Messages :
          queue[m].state = "free" /\ queue' = [queue EXCEPT ![m].state = "ready"]
    /\ UNCHANGED <<post, worker, sweep, used>>

ComesDue ==
    /\ ~due
    /\ due' = TRUE
    /\ UNCHANGED <<channel, status, stamped, desk,
                   attempt, auto, authorized, live, queue, worker, sweep, used>>

-----------------------------------------------------------------------------
\* A delivery, up to its claim.

\* Lock 1 and the status, on the one reading of the row the handler makes.
Fetch(w, m) ==
    /\ At(w, "idle")
    /\ queue[m].state = "ready"
    /\ queue' = [queue EXCEPT ![m].state = "active"]
    /\ worker' = [worker EXCEPT ![w] =
           IF ~stamped /\ status \in {"SCHEDULED", "PUBLISHING"}
           THEN [pc |-> "guard", msg |-> m, saw |-> status, mine |-> 0,
                 last |-> queue[m].tries >= RetryLimit]
           ELSE [Idle EXCEPT !.pc = "ack", !.msg = m]]
    /\ IF stamped THEN Move({"PUBLISHING"}, "PUBLISHED") ELSE UNCHANGED <<status, desk>>
    /\ UNCHANGED <<channel, due, stamped, attempt, auto, authorized, live, sweep, used>>

\* Lock 4: the post may be live already.
Guard(w) ==
    /\ At(w, "guard")
    /\ IF unconfirmed # {}
       THEN MoveUnstamped({"SCHEDULED", "PUBLISHING"}, "NEEDS_ATTENTION") /\ Goes(w, "ack")
       ELSE UNCHANGED <<status, desk>> /\ Goes(w, "switch")
    /\ UNCHANGED <<channel, due, stamped,
                   attempt, auto, authorized, live, queue, sweep, used>>

\* Lock 5: the merchant's switch, read again; a post left mid-publish goes back
\* to waiting unless an attempt is under way.
Switch(w) ==
    /\ At(w, "switch")
    /\ IF auto
       THEN UNCHANGED <<status, desk>> /\ Goes(w, "claim")
       ELSE /\ IF worker[w].saw = "PUBLISHING" /\ claim = 0
               THEN MoveUnstamped({"PUBLISHING"}, "SCHEDULED") ELSE UNCHANGED <<status, desk>>
            /\ Goes(w, "ack")
    /\ UNCHANGED <<channel, due, stamped,
                   attempt, auto, authorized, live, queue, sweep, used>>

\* Lock 2: one APPLYING attempt per post.
Claim(w) ==
    /\ At(w, "claim")
    /\ \/ claim # 0 /\ Goes(w, "ack") /\ UNCHANGED <<claim, anchored, aged>>
       \/ /\ claim = 0
          /\ \E a \in Attempts :
                /\ Forgotten(a)
                /\ \A b \in 1..(a - 1) : ~Forgotten(b)
                /\ claim' = a
                /\ worker' = [worker EXCEPT ![w].pc = "row", ![w].mine = a]
          /\ anchored' = FALSE /\ aged' = FALSE
    /\ UNCHANGED <<row, unconfirmed, auto, authorized, live, queue, sweep, used>>

\* Mutant: the claim goes by the reading the delivery started with.
ClaimRowStale(w) ==
    /\ At(w, "row")
    /\ status' = "PUBLISHING"
    /\ Touched
    /\ Goes(w, "prepare")
    /\ UNCHANGED <<channel, due, stamped,
                   attempt, auto, authorized, live, queue, sweep, used>>

\* Mutant: the claim of the row is not asked whether it took.
ClaimRowUnheeded(w) ==
    /\ At(w, "row")
    /\ MoveUnstamped({"SCHEDULED", "PUBLISHING"}, "PUBLISHING")
    /\ Goes(w, "prepare")
    /\ UNCHANGED <<channel, due, stamped,
                   attempt, auto, authorized, live, queue, sweep, used>>

\* The compare-and-set that alone allows a call to the platform.
ClaimRow(w) ==
    /\ At(w, "row")
    /\ IF status \in {"SCHEDULED", "PUBLISHING"} /\ ~stamped
       THEN /\ status' = "PUBLISHING"
            /\ Touched
            /\ Goes(w, "prepare")
            /\ UNCHANGED attempt
       ELSE /\ Release(worker[w].mine)
            /\ unconfirmed' = unconfirmed \ {worker[w].mine}
            /\ Goes(w, "ack")
            /\ UNCHANGED <<status, desk>>
    /\ UNCHANGED <<channel, due, stamped, auto, authorized, live, queue, sweep, used>>

-----------------------------------------------------------------------------
\* A delivery at work.

\* Connection, media, page: refused, failed, or ready.  A connection that may
\* publish can still be refused for a token past its date.
Prepare(w) ==
    /\ At(w, "prepare")
    /\ \/ \E pc \in {"refuse", "transient"} : Goes(w, pc)
       \/ /\ authorized
          /\ \E pc \in {"hard", IF channel = "instagram" THEN "container" ELSE "confirm"} :
                Goes(w, pc)
    /\ UNCHANGED <<post, queue, sweep, used>>

\* The media container, its id stored on the attempt while that is APPLYING,
\* and the wait for it.
Container(w) ==
    /\ At(w, "container")
    /\ \/ \E pc \in {"transient", "hard"} : Goes(w, pc) /\ UNCHANGED anchored
       \/ /\ claim = worker[w].mine
          /\ anchored' = TRUE
          /\ \E pc \in {"confirm", "transient", "hard"} : Goes(w, pc)
    /\ UNCHANGED <<row, claim, aged,
                   unconfirmed, auto, authorized, live, queue, sweep, used>>

\* Lock 6: the switch once more, immediately before the call.
Confirm(w) ==
    /\ At(w, "confirm")
    /\ \/ Goes(w, IF auto THEN "send" ELSE "withdraw") /\ UNCHANGED used
       \/ Fault("blip") /\ Goes(w, "transient")
    /\ UNCHANGED <<post, queue, sweep>>

\* media_publish, /photos, /feed: refused in so many words, taken, or without
\* an answer that tells.
Send(w) ==
    /\ At(w, "send")
    /\ \/ \E pc \in {"transient", "hard", "ambiguous"} : Goes(w, pc) /\ UNCHANGED live
       \/ live' = live + 1 /\ \E pc \in {"record", "ambiguous"} : Goes(w, pc)
    /\ UNCHANGED <<row, attempt, auto, authorized, queue, sweep, used>>

\* Mutant: the claim is given up before what replaces it is written.
RecordTwice(w) ==
    /\ At(w, "record")
    /\ Release(worker[w].mine)
    /\ Goes(w, "ack")
    /\ UNCHANGED <<row, unconfirmed, auto, authorized, live, queue, sweep, used>>

\* The post is live.  One transaction stamps the row and ends the attempt; a
\* row or a claim that moved leaves an unconfirmed attempt instead.
Record(w) ==
    /\ At(w, "record")
    /\ \/ /\ claim = worker[w].mine /\ status = "PUBLISHING" /\ ~stamped
          /\ stamped' = TRUE /\ status' = "PUBLISHED" /\ Touched
          /\ Release(worker[w].mine)
          /\ UNCHANGED unconfirmed
       \/ /\ claim = worker[w].mine /\ ~(status = "PUBLISHING" /\ ~stamped)
          /\ LeaveUnconfirmed(worker[w].mine)
          /\ UNCHANGED <<stamped, status, desk>>
       \/ /\ claim # worker[w].mine
          /\ unconfirmed' = unconfirmed \cup {0}
          /\ MoveUnstamped({"PUBLISHING"}, "NEEDS_ATTENTION")
          /\ UNCHANGED <<stamped, claim, anchored, aged>>
    /\ Goes(w, "ack")
    /\ UNCHANGED <<channel, due, auto, authorized, live, queue, sweep, used>>

\* Switched off before the send: the claim ends and the post waits again.
Withdraw(w) ==
    /\ At(w, "withdraw")
    /\ Release(worker[w].mine)
    /\ IF claim \in {0, worker[w].mine}
       THEN MoveUnstamped({"PUBLISHING"}, "SCHEDULED") ELSE UNCHANGED <<status, desk>>
    /\ Goes(w, "ack")
    /\ UNCHANGED <<channel, due, stamped,
                   unconfirmed, auto, authorized, live, queue, sweep, used>>

\* Not authorized, or media the channel does not take.
Refuse(w) ==
    /\ At(w, "refuse")
    /\ MoveUnstamped({"PUBLISHING"}, "NEEDS_ATTENTION")
    /\ Release(worker[w].mine)
    /\ Goes(w, "ack")
    /\ UNCHANGED <<channel, due, stamped,
                   unconfirmed, auto, authorized, live, queue, sweep, used>>

\* Mutant: an ambiguous answer counts as a failure.
AmbiguousFails(w) ==
    /\ At(w, "ambiguous")
    /\ MoveUnstamped({"PUBLISHING"}, "NEEDS_ATTENTION")
    /\ Release(worker[w].mine)
    /\ Goes(w, "ack")
    /\ UNCHANGED <<channel, due, stamped,
                   unconfirmed, auto, authorized, live, queue, sweep, used>>

\* Nobody knows whether it is live; reconcileAttempt cannot tell either.
Ambiguous(w) ==
    /\ At(w, "ambiguous")
    /\ MoveUnstamped({"PUBLISHING"}, "NEEDS_ATTENTION")
    /\ LeaveUnconfirmed(worker[w].mine)
    /\ Goes(w, "ack")
    /\ UNCHANGED <<channel, due, stamped, auto, authorized, live, queue, sweep, used>>

\* A failure that may pass: free the claim and let the queue retry, or, on the
\* last try, ask the merchant.  Neither write asks what the attempt became.
Transient(w) ==
    /\ At(w, "transient")
    /\ Release(worker[w].mine)
    /\ unconfirmed' = unconfirmed \ {worker[w].mine}
    /\ IF worker[w].last
       THEN Move({"PUBLISHING"}, "NEEDS_ATTENTION") /\ Goes(w, "ack")
       ELSE UNCHANGED <<status, desk>> /\ Goes(w, "nack")
    /\ UNCHANGED <<channel, due, stamped, auto, authorized, live, queue, sweep, used>>

\* The platform or the configuration says no.
Hard(w) ==
    /\ At(w, "hard")
    /\ Release(worker[w].mine)
    /\ unconfirmed' = unconfirmed \ {worker[w].mine}
    /\ Move({"PUBLISHING"}, "FAILED")
    /\ Goes(w, "ack")
    /\ UNCHANGED <<channel, due, stamped, auto, authorized, live, queue, sweep, used>>

-----------------------------------------------------------------------------
\* The end of a delivery.

Complete(w) ==
    /\ worker[w].pc \in {"ack", "nack"}
    /\ LET m == worker[w].msg
       IN  queue' = IF m = 0 THEN queue
                    ELSE IF At(w, "ack") THEN [queue EXCEPT ![m] = Free] ELSE Retried(m)
    /\ worker' = [worker EXCEPT ![w] = Idle]
    /\ UNCHANGED <<post, sweep, used>>

\* A statement outside the guarded call rejects and the handler throws.
Throws(w) ==
    /\ worker[w].pc \in {"guard", "switch", "claim", "row", "record", "withdraw",
                         "refuse", "ambiguous", "transient", "hard"}
    /\ Fault("blip")
    /\ Goes(w, "nack")
    /\ UNCHANGED <<post, queue, sweep>>

\* The worker dies; a call that had left it may still arrive.
Crash(w) ==
    /\ ~At(w, "idle")
    /\ Fault("crash")
    /\ worker' = [worker EXCEPT ![w] = Idle]
    /\ live' \in {live, IF At(w, "send") THEN live + 1 ELSE live}
    /\ UNCHANGED <<row, attempt, auto, authorized, queue, sweep>>

\* A message whose worker is gone, or whose handler is past its time.
Expire(m) ==
    /\ queue[m].state = "active"
    /\ queue' = Retried(m)
    /\ \/ /\ \A w \in Workers : worker[w].msg # m
          /\ UNCHANGED <<worker, used>>
       \/ \E w \in Workers :
             /\ worker[w].msg = m
             /\ Fault("overrun")
             /\ worker' = [worker EXCEPT ![w].msg = 0]
    /\ UNCHANGED <<post, sweep>>

-----------------------------------------------------------------------------
\* The reaper.

\* The cutoff lies beyond every deadline, so an attempt is old only once its
\* worker is gone.
Ages ==
    /\ claim # 0 /\ ~aged
    /\ aged' = TRUE
    /\ \/ (\A w \in Workers : worker[w].mine # claim) /\ UNCHANGED used
       \/ (\E w \in Workers : worker[w].mine = claim) /\ Fault("outlive")
    /\ UNCHANGED <<row, claim, anchored,
                   unconfirmed, auto, authorized, live, queue, worker, sweep>>

\* Mutant: only attempts with a container are looked at.
ReapAnchored ==
    /\ sweep = NoSweep
    /\ claim # 0 /\ aged /\ anchored
    /\ sweep' = [id |-> claim, anchored |-> anchored]
    /\ UNCHANGED <<post, queue, worker, used>>

\* reapStalePublishAttempts reads an old attempt ...
ReapRead ==
    /\ sweep = NoSweep
    /\ claim # 0 /\ aged
    /\ sweep' = [id |-> claim, anchored |-> anchored]
    /\ UNCHANGED <<post, queue, worker, used>>

\* Mutant: the row is surfaced and the attempt is left.
ReapLeavesClaim ==
    /\ sweep # NoSweep
    /\ sweep' = NoSweep
    /\ MoveUnstamped({"PUBLISHING"}, "NEEDS_ATTENTION")
    /\ UNCHANGED <<channel, due, stamped,
                   attempt, auto, authorized, live, queue, worker, used>>

\* ... and ends it: without a container nothing was sent, otherwise nobody
\* knows.
ReapWrite ==
    /\ sweep # NoSweep
    /\ sweep' = NoSweep
    /\ IF stamped \/ (channel = "instagram" /\ ~sweep.anchored)
       THEN Release(sweep.id) /\ UNCHANGED unconfirmed
       ELSE LeaveUnconfirmed(sweep.id)
    /\ MoveUnstamped({"PUBLISHING"}, "NEEDS_ATTENTION")
    /\ UNCHANGED <<channel, due, stamped, auto, authorized, live, queue, worker, used>>

-----------------------------------------------------------------------------
Init ==
    /\ channel \in Channels
    /\ status = "DRAFT" /\ due \in BOOLEAN /\ stamped = FALSE
    /\ auto \in BOOLEAN /\ authorized \in BOOLEAN
    /\ claim = 0 /\ anchored = FALSE /\ aged = FALSE
    /\ unconfirmed = {}
    /\ live = 0
    /\ desk = "none"
    /\ queue = [m \in Messages |-> Free]
    /\ worker = [w \in Workers |-> Idle]
    /\ sweep = NoSweep
    /\ used = [k \in Counted |-> 0]

Step(w) ==
    \/ Guard(w) \/ Switch(w) \/ Claim(w) \/ ClaimRow(w)
    \/ Prepare(w) \/ Container(w) \/ Confirm(w) \/ Send(w)
    \/ Record(w) \/ Withdraw(w) \/ Refuse(w) \/ Ambiguous(w)
    \/ Transient(w) \/ Hard(w) \/ Complete(w)

Merchant == ApproveRead \/ ApproveWrite \/ Edit \/ Cancel \/ Flip \/ Reconnect
Reaper == ReapRead \/ ReapWrite

Next ==
    \/ Merchant
    \/ Scan \/ ComesDue
    \/ \E w \in Workers :
          Step(w) \/ Throws(w) \/ Crash(w) \/ \E m \in Messages : Fetch(w, m)
    \/ \E m \in Messages : Expire(m)
    \/ Ages \/ Reaper

Spec == Init /\ [][Next]_vars

\* Time passes, the scheduler and the reaper run, a worker that does not die
\* goes on.
FairSpec ==
    /\ Spec
    /\ WF_vars(Scan) /\ WF_vars(ComesDue) /\ WF_vars(Ages) /\ WF_vars(Reaper)
    /\ \A w \in Workers : WF_vars(Step(w)) /\ WF_vars(\E m \in Messages : Fetch(w, m))
    /\ \A m \in Messages : WF_vars(Expire(m))

-----------------------------------------------------------------------------
\* Properties.

TypeOK ==
    /\ channel \in Channels
    /\ status \in Statuses
    /\ due \in BOOLEAN /\ stamped \in BOOLEAN /\ auto \in BOOLEAN
    /\ authorized \in BOOLEAN
    /\ claim \in 0..MaxAttempts /\ anchored \in BOOLEAN /\ aged \in BOOLEAN
    /\ unconfirmed \subseteq 0..MaxAttempts
    /\ live \in Nat
    /\ desk \in {"none", "fresh", "stale"}
    /\ queue \in [Messages -> [state : {"free", "ready", "active"}, tries : 0..RetryLimit]]
    /\ worker \in [Workers -> [pc : Places, msg : 0..MaxMessages, saw : Statuses,
                               mine : 0..MaxAttempts, last : BOOLEAN]]
    /\ sweep \in [id : 0..MaxAttempts, anchored : BOOLEAN]
    /\ used \in [Counted -> Nat]

\* The deadlines are meant to end a delivery before the reaper's cutoff.
InTime == used["outlive"] = 0

\* The platform never gets the post twice: whatever is redelivered, lost,
\* interrupted, withdrawn, edited or approved again.
NeverTwice == InTime => live <= 1

\* At every moment at which the post is live something refuses to send it
\* again: the stamp, the claim of the delivery that sent it, or the
\* unconfirmed attempt it left.
LiveIsGuarded == InTime /\ live > 0 => stamped \/ claim # 0 \/ unconfirmed # {}

\* Nothing goes out for a post that is not being published: not for one that
\* was cancelled, edited or handed back while a delivery was on its way.  Only
\* when an interrupted attempt turned unconfirmed after the delivery had looked
\* for one may another have set the row aside under it.
SentWhilePublishing ==
    [][live' # live /\ InTime => status = "PUBLISHING" \/ unconfirmed # {}]_vars

\* A cancelled post stays cancelled and a published one published.
EndsStand ==
    [][status' # status => status \notin {"CANCELLED", "PUBLISHED"}]_vars

\* A claim is always given back, whatever became of the delivery that took it.
ClaimReleased == claim # 0 ~> claim = 0

\* An approved post whose time has come is taken up, unless the merchant turns
\* publishing off or the connection stops being one that may publish.
Attended ==
    status = "SCHEDULED" /\ due /\ auto /\ authorized
        ~> status # "SCHEDULED" \/ ~auto \/ ~authorized
=============================================================================
