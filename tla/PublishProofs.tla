---------------------------- MODULE PublishProofs ----------------------------
(***************************************************************************)
(* Publish, for any number of deliveries, messages, attempts and faults:   *)
(* type correctness, the one post at most that reaches the platform, what  *)
(* guards it, and the state the row is in while it goes out.               *)
(***************************************************************************)
EXTENDS Publish, TLAPS

\* From its claim on a delivery owns the post; past "row" it has the row too.
OwnPlaces == {"row", "prepare", "container", "confirm", "send", "record", "withdraw",
              "refuse", "ambiguous", "transient", "hard"}
Own(w) == worker[w].pc \in OwnPlaces
Past(w) == Own(w) /\ ~At(w, "row")

\* The row while its owner publishes, and once an unconfirmed attempt bars it
\* from being claimed or approved again.
Posting == status = "PUBLISHING" /\ desk # "fresh"
Barred == unconfirmed # {} /\ status \notin {"SCHEDULED", "PUBLISHING"} /\ desk # "fresh"

\* One delivery owns the post, and the claim is its own.
OwnersAgree ==
    /\ \A w \in Workers : Own(w) => worker[w].mine # 0 /\ claim = worker[w].mine /\ ~aged
    /\ \A w \in Workers : ~Own(w) => worker[w].mine = 0
    /\ \A w, v \in Workers : Own(w) /\ Own(v) => w = v

\* What the reaper read still is so when it writes.
ReaperAgrees ==
    /\ aged => claim # 0
    /\ sweep.id = 0 => sweep = NoSweep
    /\ sweep.id # 0 => claim = sweep.id /\ aged /\ sweep.anchored = anchored
    /\ claim # 0 => claim \notin unconfirmed

\* An owner that has the row has not sent the post before it is told so.
PastAgrees ==
    \A w \in Workers : Past(w) =>
        /\ ~stamped /\ (Posting \/ Barred)
        /\ worker[w].pc \notin {"record", "ambiguous"} => live = 0
        /\ worker[w].pc \in {"confirm", "send", "record", "ambiguous"} /\ channel = "instagram"
               => anchored

\* A claim whose owner is gone after it may have sent the post.
Orphaned ==
    /\ claim # 0 /\ Posting
    /\ channel = "instagram" => anchored
    /\ \A w \in Workers : ~Own(w)

\* A post that is live is stamped, still owned, orphaned or barred.
LiveAgrees ==
    /\ live <= 1
    /\ live > 0 /\ ~stamped => (\E w \in Workers : Past(w)) \/ Barred \/ Orphaned

Safe == OwnersAgree /\ ReaperAgrees /\ PastAgrees /\ LiveAgrees

\* An approval that may still be written has a row it may move.
DeskAgrees == desk = "fresh" => status \in {"DRAFT", "NEEDS_ATTENTION", "FAILED"}

IInv == TypeOK /\ DeskAgrees /\ (InTime => Safe)

-----------------------------------------------------------------------------
\* Types.

Deliveries == [pc : Places, msg : 0..MaxMessages, saw : Statuses, mine : 0..MaxAttempts,
               last : BOOLEAN]
Uses == [Counted -> Nat]

\* The step takes delivery w to pc, with this attempt its own.
Moved(w, pc, mine) ==
    /\ worker' \in [Workers -> Deliveries]
    /\ \A v \in Workers \ {w} : worker'[v] = worker[v]
    /\ worker'[w].pc = pc /\ worker'[w].mine = mine

LEMMA TypedDeliveries ==
    TypeOK =>
    /\ worker \in [Workers -> Deliveries]
    /\ \A w \in Workers :
          /\ worker[w].pc \in Places /\ worker[w].msg \in 0..MaxMessages
          /\ worker[w].saw \in Statuses /\ worker[w].mine \in 0..MaxAttempts
          /\ worker[w].last \in BOOLEAN
<1>1. TypeOK => worker \in [Workers -> Deliveries]
  BY DEF TypeOK, Deliveries
<1> QED
  BY <1>1 DEF Deliveries

LEMMA Zeros == 0 \in 0..MaxMessages /\ 0 \in 0..MaxAttempts /\ Attempts = (0..MaxAttempts) \ {0}
  BY ShapeAssumption DEF Attempts

LEMMA IdleIs ==
    Idle \in Deliveries /\ Idle.pc = "idle" /\ Idle.mine = 0
<1>1. "idle" \in Places /\ "DRAFT" \in Statuses /\ FALSE \in BOOLEAN
  BY DEF Places, Statuses
<1> QED
  BY <1>1, Zeros DEF Idle, Deliveries

\* A delivery on its way out keeps nothing but its message.
LEMMA Parting ==
    ASSUME NEW msg \in 0..MaxMessages, NEW pc \in Places
    PROVE  /\ [Idle EXCEPT !.pc = pc, !.msg = msg] \in Deliveries
           /\ [Idle EXCEPT !.pc = pc, !.msg = msg].pc = pc
           /\ [Idle EXCEPT !.pc = pc, !.msg = msg].mine = 0
  BY IdleIs DEF Deliveries

LEMMA Moves ==
    ASSUME worker \in [Workers -> Deliveries], NEW w \in Workers
    PROVE  /\ worker' = [worker EXCEPT ![w] = Idle] => Moved(w, "idle", 0)
           /\ \A pc \in Places :
                 Goes(w, pc) => Moved(w, pc, IF pc \in {"ack", "nack"} THEN 0 ELSE worker[w].mine)
           /\ \A a \in Attempts :
                 worker' = [worker EXCEPT ![w].pc = "row", ![w].mine = a] => Moved(w, "row", a)
<1>1. worker' = [worker EXCEPT ![w] = Idle] => Moved(w, "idle", 0)
  BY IdleIs DEF Moved
<1>2. ASSUME NEW pc \in {"ack", "nack"}, Goes(w, pc) PROVE Moved(w, pc, 0)
  <2>1. pc \in Places /\ worker[w].msg \in 0..MaxMessages
    BY DEF Places, Deliveries
  <2> QED
    BY <1>2, <2>1, Parting DEF Goes, Moved
<1>3. ASSUME NEW pc \in Places \ {"ack", "nack"}, Goes(w, pc)
      PROVE  Moved(w, pc, worker[w].mine)
  BY <1>3 DEF Goes, Moved, Deliveries
<1>4. "row" \in Places
  BY DEF Places
<1>5. ASSUME NEW a \in Attempts, worker' = [worker EXCEPT ![w].pc = "row", ![w].mine = a]
      PROVE  Moved(w, "row", a)
  BY <1>4, <1>5, Zeros DEF Moved, Deliveries
<1> QED
  BY <1>1, <1>2, <1>3, <1>5

\* A count goes up, and time that ran out stays so.
LEMMA Counts ==
    ASSUME TypeOK
    PROVE  /\ \A k \in {"approve", "edit", "flip"} :
                 Count(k) => used' \in Uses /\ (InTime' => InTime)
           /\ \A f \in FaultKinds \ {"outlive"} :
                 Fault(f) => used' \in Uses /\ (InTime' => InTime)
           /\ Fault("outlive") => used' \in Uses /\ ~InTime'
<1> USE DEF TypeOK, Count, Counted, FaultKinds, Uses, InTime
<1>1. \A k \in {"approve", "edit", "flip"} : Count(k) => used' \in Uses /\ (InTime' => InTime)
  OBVIOUS
<1>2. \A f \in FaultKinds \ {"outlive"} : Fault(f) => used' \in Uses /\ (InTime' => InTime)
  BY DEF Fault
<1>3. Fault("outlive") => used' \in Uses /\ ~InTime'
  BY DEF Fault
<1> QED
  BY <1>1, <1>2, <1>3

LEMMA RetriedIsTyped ==
    ASSUME TypeOK, NEW m \in Messages
    PROVE  /\ Retried(m) \in [Messages -> [state : {"free", "ready", "active"}, tries : 0..RetryLimit]]
           /\ [queue EXCEPT ![m] = Free] \in [Messages -> [state : {"free", "ready", "active"}, tries : 0..RetryLimit]]
<1>1. Free \in [state : {"free", "ready", "active"}, tries : 0..RetryLimit]
  BY ShapeAssumption DEF Free
<1>2. [queue EXCEPT ![m] = Free] \in [Messages -> [state : {"free", "ready", "active"}, tries : 0..RetryLimit]]
  BY <1>1 DEF TypeOK
<1>3. ASSUME queue[m].tries < RetryLimit
      PROVE  [queue EXCEPT ![m].state = "ready", ![m].tries = @ + 1]
                 \in [Messages -> [state : {"free", "ready", "active"}, tries : 0..RetryLimit]]
  <2>1. queue[m].tries + 1 \in 0..RetryLimit
    BY <1>3, ShapeAssumption DEF TypeOK
  <2> DEFINE r == [queue[m] EXCEPT !.state = "ready", !.tries = @ + 1]
  <2>2. queue \in [Messages -> [state : {"free", "ready", "active"}, tries : 0..RetryLimit]]
    BY DEF TypeOK
  <2>3. r \in [state : {"free", "ready", "active"}, tries : 0..RetryLimit]
    BY <2>1, <2>2
  <2>4. [queue EXCEPT ![m].state = "ready", ![m].tries = @ + 1] = [queue EXCEPT ![m] = r]
    BY <2>2
  <2> HIDE DEF r
  <2> QED
    BY <2>2, <2>3, <2>4
<1> QED
  BY <1>2, <1>3 DEF Retried

\* What the building blocks may do to the row.
LEMMA RowMoves ==
    ASSUME TypeOK, DeskAgrees, NEW from \in SUBSET Statuses,
           NEW to \in Statuses, to \notin {"SCHEDULED", "PUBLISHING"} \/ from \subseteq {"PUBLISHING"},
           Move(from, to) \/ MoveUnstamped(from, to)
    PROVE  /\ status' \in Statuses /\ desk' \in {"none", "fresh", "stale"} /\ DeskAgrees'
           /\ desk' = "fresh" => desk = "fresh"
           /\ status' = status \/ (status \in from /\ status' = to)
  BY DEF Move, MoveUnstamped, Touched, TypeOK, DeskAgrees

LEMMA InitEstablishes == Init => IInv
<1> SUFFICES ASSUME Init PROVE IInv
  OBVIOUS
<1>1. worker \in [Workers -> Deliveries]
  BY IdleIs DEF Init
<1>2. queue \in [Messages -> [state : {"free", "ready", "active"}, tries : 0..RetryLimit]]
  BY ShapeAssumption DEF Init, Free
<1>3. sweep \in [id : 0..MaxAttempts, anchored : BOOLEAN]
  BY Zeros DEF Init, NoSweep
<1>4. used \in [Counted -> Nat]
  BY DEF Init
<1>5. stamped \in BOOLEAN /\ anchored \in BOOLEAN /\ aged \in BOOLEAN /\ due \in BOOLEAN /\ auto \in BOOLEAN
      /\ authorized \in BOOLEAN
  BY DEF Init
<1>6. /\ channel \in Channels /\ status \in Statuses /\ claim \in 0..MaxAttempts
      /\ unconfirmed \subseteq 0..MaxAttempts /\ live \in Nat
      /\ desk \in {"none", "fresh", "stale"}
  BY Zeros DEF Init, Statuses
<1>7. TypeOK
  BY <1>1, <1>2, <1>3, <1>4, <1>5, <1>6 DEF TypeOK, Deliveries
<1>8. \A w \in Workers : ~Own(w) /\ worker[w].mine = 0
  BY IdleIs DEF Init, Own, OwnPlaces
<1>9. DeskAgrees /\ Safe
  BY <1>8 DEF Init, DeskAgrees, Safe, OwnersAgree, ReaperAgrees, PastAgrees, LiveAgrees, Past,
              NoSweep
<1> QED
  BY <1>7, <1>9 DEF IInv

-----------------------------------------------------------------------------
\* What keeps the post safe, by the kind of step.

LEMMA NoOthers ==
    ASSUME OwnersAgree, NEW w \in Workers, Own(w), NEW pc, NEW mine, Moved(w, pc, mine)
    PROVE  \A v \in Workers \ {w} : ~Own(v) /\ ~Own(v)' /\ worker'[v].mine = 0
  BY DEF OwnersAgree, Moved, Own

\* The owner, if there is one, stays where it is; the row may move, but not
\* out of its owner's hands and not past the bar.
LEMMA AsideIsSafe ==
    ASSUME Safe, UNCHANGED <<channel, stamped, attempt, live, sweep>>,
           \A v \in Workers :
               /\ Own(v)' <=> Own(v)
               /\ Own(v) => worker'[v].pc = worker[v].pc /\ worker'[v].mine = worker[v].mine
               /\ ~Own(v) => worker'[v].mine = 0,
           Barred => Barred',
           Posting /\ claim # 0 => Posting' \/ Barred'
    PROVE  Safe'
<1>1. OwnersAgree'
  BY DEF Safe, OwnersAgree, attempt
<1>2. ReaperAgrees'
  BY DEF Safe, ReaperAgrees, attempt, NoSweep
<1>3. \A v \in Workers : Past(v)' <=> Past(v)
  BY DEF Past, At
<1>4. PastAgrees'
  BY <1>3 DEF Safe, PastAgrees, OwnersAgree, Past, attempt
<1>5. Orphaned => Orphaned' \/ Barred'
  BY DEF Orphaned, attempt
<1>6. LiveAgrees'
  BY <1>3, <1>5 DEF Safe, LiveAgrees
<1> QED
  BY <1>1, <1>2, <1>4, <1>6 DEF Safe

\* The owner goes on.
LEMMA OwnerIsSafe ==
    ASSUME Safe, NEW w \in Workers, Past(w), NEW pc \in OwnPlaces \ {"row"},
           Moved(w, pc, worker[w].mine),
           UNCHANGED <<row, claim, aged, unconfirmed, sweep>>,
           anchored' = anchored \/ anchored' = TRUE,
           live' <= 1,
           pc \notin {"record", "ambiguous"} => live' = 0,
           pc \in {"confirm", "send", "record", "ambiguous"} /\ channel = "instagram" => anchored'
    PROVE  Safe'
<1>1. \A v \in Workers \ {w} : ~Own(v) /\ ~Own(v)' /\ worker'[v].mine = 0
  BY NoOthers DEF Safe, Past
<1>2. Own(w) /\ Own(w)' /\ Past(w)' /\ worker'[w].pc = pc /\ worker'[w].mine = worker[w].mine
  BY DEF Moved, Own, Past, At
<1>3. claim = worker[w].mine /\ claim # 0 /\ ~aged
  BY <1>2 DEF Safe, OwnersAgree
<1>4. OwnersAgree'
  BY <1>1, <1>2, <1>3 DEF OwnersAgree
<1>5. ReaperAgrees'
  BY <1>3 DEF Safe, ReaperAgrees, NoSweep
<1>6. PastAgrees'
  <2>1. ~stamped /\ (Posting \/ Barred) /\ UNCHANGED <<stamped, status, desk, channel>>
    BY DEF Safe, PastAgrees, row
  <2> QED
    BY <1>1, <1>2, <2>1 DEF PastAgrees, Posting, Barred, Past
<1>7. LiveAgrees'
  BY <1>2 DEF LiveAgrees
<1> QED
  BY <1>4, <1>5, <1>6, <1>7 DEF Safe

\* The owner is gone and its claim stays.
LEMMA OrphanIsSafe ==
    ASSUME TypeOK, Safe, NEW w \in Workers, Own(w), NEW pc, pc \notin OwnPlaces, Moved(w, pc, 0),
           UNCHANGED <<row, attempt, sweep>>,
           live' = live \/ (At(w, "send") /\ live' = live + 1)
    PROVE  Safe'
<1>1. \A v \in Workers : ~Own(v)' /\ worker'[v].mine = 0
  BY NoOthers DEF Safe, Moved, Own
<1>2. UNCHANGED <<channel, status, stamped, desk, claim, anchored, aged, unconfirmed>>
  BY DEF row, attempt
<1>3. claim # 0
  BY DEF Safe, OwnersAgree
<1>4. OwnersAgree' /\ ReaperAgrees' /\ PastAgrees'
  BY <1>1, <1>2 DEF Safe, OwnersAgree, ReaperAgrees, PastAgrees, Past, NoSweep
<1>5. LiveAgrees'
  <2>1. live' <= 1
    BY DEF Safe, PastAgrees, LiveAgrees, Past, At, OwnPlaces, TypeOK
  <2>2. CASE Past(w)
    <3>1. (Posting \/ Barred) /\ UNCHANGED <<status, desk, unconfirmed>>
      BY <1>2, <2>2 DEF Safe, PastAgrees
    <3>2. CASE Barred
      BY <2>1, <3>1, <3>2 DEF LiveAgrees, Barred
    <3>3. CASE Posting
      <4>1. live' > 0 => worker[w].pc \in {"send", "record", "ambiguous"}
        BY <2>2 DEF Safe, PastAgrees, At, TypeOK
      <4>2. live' > 0 => Orphaned'
        BY <1>1, <1>2, <1>3, <2>2, <3>3, <4>1 DEF Orphaned, Posting, Safe, PastAgrees
      <4> QED
        BY <2>1, <4>2 DEF LiveAgrees
    <3> QED
      BY <3>1, <3>2, <3>3
  <2>3. CASE ~Past(w)
    <3>1. (\A v \in Workers : ~Past(v)) /\ ~Orphaned /\ live' = live
      BY <2>3 DEF Safe, OwnersAgree, Past, Orphaned, At
    <3>2. live > 0 /\ ~stamped => Barred
      BY <3>1 DEF Safe, LiveAgrees
    <3> QED
      BY <1>2, <2>1, <3>1, <3>2 DEF LiveAgrees, Barred
  <2> QED
    BY <2>2, <2>3
<1> QED
  BY <1>4, <1>5 DEF Safe

\* The claim is given up: whatever is live by then is stamped or barred.
LEMMA ReleaseIsSafe ==
    ASSUME Safe, \A v \in Workers : ~Own(v)' /\ worker'[v].mine = 0,
           claim' = 0, aged' = FALSE, sweep' = NoSweep, live' = live,
           live > 0 /\ ~stamped' => Barred'
    PROVE  Safe'
<1>1. OwnersAgree' /\ PastAgrees'
  BY DEF OwnersAgree, PastAgrees, Past
<1>2. ReaperAgrees'
  BY DEF ReaperAgrees, NoSweep
<1>3. LiveAgrees'
  BY DEF Safe, LiveAgrees
<1> QED
  BY <1>1, <1>2, <1>3 DEF Safe

-----------------------------------------------------------------------------
\* The merchant, the clock and the scheduler.
LEMMA MerchantKeeps ==
    ASSUME IInv, Merchant \/ Scan \/ ComesDue \/ UNCHANGED vars
    PROVE  IInv'
<1>i. TypeOK /\ DeskAgrees
  BY DEF IInv
<1>n. \A v \in Workers : Safe /\ ~Own(v) => worker[v].mine = 0
  BY DEF Safe, OwnersAgree
<1> SUFFICES /\ TypeOK' /\ DeskAgrees'
             /\ UNCHANGED <<channel, stamped, attempt, live, sweep, worker>>
             /\ Barred => Barred'
             /\ Posting => Posting'
             /\ InTime' => InTime
  <2>1. Safe => Safe'
    BY <1>n, AsideIsSafe DEF Own
  <2> QED
    BY <2>1 DEF IInv
<1> USE DEF Barred, Posting, DeskAgrees
<1>1. CASE ApproveRead
  <2>1. used' \in Uses /\ (InTime' => InTime)
    BY <1>1, <1>i, Counts DEF ApproveRead
  <2> QED
    BY <1>1, <1>i, <2>1 DEF ApproveRead, TypeOK, Uses, attempt
<1>2. CASE ApproveWrite
  BY <1>2, <1>i DEF ApproveWrite, TypeOK, Statuses, InTime, attempt
<1>3. CASE Edit
  <2>1. used' \in Uses /\ (InTime' => InTime)
    BY <1>3, <1>i, Counts DEF Edit
  <2>2. due' \in BOOLEAN /\ status' = "DRAFT" /\ desk' \in {"none", "fresh", "stale"}
        /\ (desk' = "fresh" => desk = "fresh")
    BY <1>3, <1>i DEF Edit, Touched, TypeOK
  <2> QED
    BY <1>3, <1>i, <2>1, <2>2 DEF Edit, Touched, TypeOK, Statuses, Uses, attempt
<1>4. CASE Cancel
  BY <1>4, <1>i DEF Cancel, Touched, TypeOK, Statuses, InTime, attempt
<1>5. CASE Flip
  <2>1. used' \in Uses /\ (InTime' => InTime)
    BY <1>5, <1>i, Counts DEF Flip
  <2>2. auto' \in BOOLEAN
    BY <1>5, <1>i DEF Flip, TypeOK
  <2> QED
    BY <1>5, <1>i, <2>1, <2>2 DEF Flip, TypeOK, Uses, row, attempt
<1>9. CASE Reconnect
  <2>1. used' \in Uses /\ (InTime' => InTime)
    BY <1>9, <1>i, Counts DEF Reconnect
  <2>2. authorized' \in BOOLEAN
    BY <1>9, <1>i DEF Reconnect, TypeOK
  <2> QED
    BY <1>9, <1>i, <2>1, <2>2 DEF Reconnect, TypeOK, Uses, row, attempt
<1>6. CASE Scan
  <2>1. queue' \in [Messages -> [state : {"free", "ready", "active"}, tries : 0..RetryLimit]]
    BY <1>6, <1>i DEF Scan, TypeOK
  <2> QED
    BY <1>6, <1>i, <2>1 DEF Scan, TypeOK, InTime, post, row, attempt
<1>7. CASE ComesDue
  BY <1>7, <1>i DEF ComesDue, TypeOK, InTime, attempt
<1>8. CASE UNCHANGED vars
  BY <1>8, <1>i DEF vars, post, row, attempt, TypeOK, InTime
<1> QED
  BY <1>1, <1>2, <1>3, <1>4, <1>5, <1>6, <1>7, <1>8, <1>9 DEF Merchant

\* A delivery that owns nothing moves, and the row at most out of a status in
\* which nobody could own it, or past the bar.
LEMMA GuestIsSafe ==
    ASSUME Safe, NEW w \in Workers, ~Own(w), NEW pc, pc \notin OwnPlaces, Moved(w, pc, 0),
           UNCHANGED <<channel, stamped, attempt, live, sweep>>,
           Barred => Barred',
           Posting /\ claim # 0 => Posting' \/ Barred'
    PROVE  Safe'
<1>1. \A v \in Workers :
         /\ Own(v)' <=> Own(v)
         /\ Own(v) => worker'[v].pc = worker[v].pc /\ worker'[v].mine = worker[v].mine
         /\ ~Own(v) => worker'[v].mine = 0
  BY DEF Moved, Own, Safe, OwnersAgree
<1> QED
  BY <1>1, AsideIsSafe

LEMMA GuestKeeps ==
    ASSUME IInv, NEW w \in Workers,
           (\E m \in Messages : Fetch(w, m)) \/ Guard(w) \/ Switch(w) \/ Complete(w)
    PROVE  IInv'
<1>i. TypeOK /\ DeskAgrees
  BY DEF IInv
<1>t. /\ worker \in [Workers -> Deliveries]
      /\ worker[w].msg \in 0..MaxMessages /\ worker[w].saw \in Statuses
  BY <1>i, TypedDeliveries
<1>p. {"idle", "guard", "switch", "claim", "ack"} \subseteq Places
  BY DEF Places
<1>o. ~Own(w) /\ (Safe => worker[w].mine = 0)
  <2>1. worker[w].pc \in {"idle", "guard", "switch", "ack", "nack"}
    BY DEF Fetch, Guard, Switch, Complete, At
  <2> QED
    BY <2>1 DEF Safe, OwnersAgree, Own, OwnPlaces
<1>1. ASSUME NEW m \in Messages, Fetch(w, m) PROVE IInv'
  <2>1. queue' \in [Messages -> [state : {"free", "ready", "active"}, tries : 0..RetryLimit]]
    <3>1. queue \in [Messages -> [state : {"free", "ready", "active"}, tries : 0..RetryLimit]]
      BY <1>i DEF TypeOK
    <3>2. queue' = [queue EXCEPT ![m].state = "active"]
      BY <1>1 DEF Fetch
    <3> QED
      BY <3>1, <3>2
  <2>2. Moved(w, "guard", 0) \/ Moved(w, "ack", 0)
    <3>1. m \in 0..MaxMessages /\ m \in 1..MaxMessages
      BY ShapeAssumption DEF Messages
    <3>2. [pc |-> "guard", msg |-> m, saw |-> status, mine |-> 0,
           last |-> queue[m].tries >= RetryLimit] \in Deliveries
      BY <1>i, <1>p, <3>1, Zeros DEF Deliveries, TypeOK
    <3> QED
      BY <1>1, <1>t, <1>p, <3>1, <3>2, Parting DEF Fetch, Moved
  <2>3. /\ (Move({"PUBLISHING"}, "PUBLISHED") /\ stamped) \/ UNCHANGED <<status, desk>>
        /\ UNCHANGED <<channel, due, stamped, attempt, auto, authorized, live, sweep, used>>
    BY <1>1 DEF Fetch
  <2>4. /\ status' \in Statuses /\ desk' \in {"none", "fresh", "stale"} /\ DeskAgrees'
        /\ desk' = "fresh" => desk = "fresh"
        /\ status' = status \/ (stamped /\ status = "PUBLISHING" /\ status' = "PUBLISHED")
    BY <1>i, <2>3, RowMoves DEF Statuses, TypeOK, DeskAgrees
  <2>5. TypeOK'
    BY <1>i, <2>1, <2>2, <2>3, <2>4 DEF TypeOK, Moved, Deliveries, attempt
  <2>6. Safe => Safe'
    <3>1. Barred => Barred'
      BY <2>3, <2>4 DEF Barred, attempt
    <3>2. CASE ~stamped
      BY <1>o, <2>2, <2>3, <2>4, <3>1, <3>2, GuestIsSafe DEF Posting, OwnPlaces
    <3>3. CASE stamped
      \* Nobody owns a stamped row.
      <4>1. SUFFICES ASSUME Safe PROVE Safe'
        OBVIOUS
      <4>2. \A v \in Workers : ~Past(v) /\ ~Past(v)'
        BY <1>o, <2>2, <3>3, <4>1 DEF Safe, PastAgrees, Past, Own, At, Moved, OwnPlaces
      <4>3. OwnersAgree'
        BY <1>o, <2>2, <2>3, <4>1 DEF Safe, OwnersAgree, Moved, Own, OwnPlaces, attempt
      <4>4. ReaperAgrees' /\ PastAgrees' /\ LiveAgrees'
        BY <2>3, <3>3, <4>1, <4>2 DEF Safe, ReaperAgrees, PastAgrees, LiveAgrees, Barred,
                                  Orphaned, Posting, attempt, NoSweep
      <4> QED
        BY <4>3, <4>4 DEF Safe
    <3> QED
      BY <3>2, <3>3
  <2> QED
    BY <2>3, <2>4, <2>5, <2>6 DEF IInv, InTime
<1>2. CASE Guard(w)
  <2>1. Moved(w, "ack", 0) \/ (Safe => Moved(w, "switch", 0))
    BY <1>2, <1>t, <1>p, <1>o, Moves DEF Guard
  <2>m. \E pc \in Places \ OwnPlaces, mine \in 0..MaxAttempts :
           Moved(w, pc, mine) /\ (Safe => mine = 0)
    <3>1. worker[w].mine \in 0..MaxAttempts
      BY <1>i, TypedDeliveries
    <3> QED
      BY <1>2, <1>t, <1>p, <1>o, <3>1, Zeros, Moves DEF Guard, OwnPlaces
  <2>2. /\ \/ MoveUnstamped({"SCHEDULED", "PUBLISHING"}, "NEEDS_ATTENTION") /\ unconfirmed # {}
           \/ UNCHANGED <<status, desk>>
        /\ UNCHANGED <<channel, due, stamped, attempt, auto, authorized, live, queue, sweep, used>>
    BY <1>2 DEF Guard
  <2>3. /\ status' \in Statuses /\ desk' \in {"none", "fresh", "stale"} /\ DeskAgrees'
        /\ desk' = "fresh" => desk = "fresh"
        /\ status' = status \/ (unconfirmed # {} /\ status' = "NEEDS_ATTENTION")
    BY <1>i, <2>2, RowMoves DEF Statuses, TypeOK, DeskAgrees
  <2>4. TypeOK'
    BY <1>i, <2>m, <2>2, <2>3 DEF TypeOK, Moved, Deliveries, attempt
  <2>5. Safe => Safe'
    BY <1>o, <2>m, <2>2, <2>3, GuestIsSafe DEF Posting, Barred, OwnPlaces, attempt
  <2> QED
    BY <2>2, <2>3, <2>4, <2>5 DEF IInv, InTime
<1>3. CASE Switch(w)
  <2>m. \E pc \in Places \ OwnPlaces, mine \in 0..MaxAttempts :
           Moved(w, pc, mine) /\ (Safe => mine = 0)
    <3>1. worker[w].mine \in 0..MaxAttempts
      BY <1>i, TypedDeliveries
    <3> QED
      BY <1>3, <1>t, <1>p, <1>o, <3>1, Zeros, Moves DEF Switch, OwnPlaces
  <2>2. /\ \/ MoveUnstamped({"PUBLISHING"}, "SCHEDULED") /\ claim = 0
           \/ UNCHANGED <<status, desk>>
        /\ UNCHANGED <<channel, due, stamped, attempt, auto, authorized, live, queue, sweep, used>>
    BY <1>3 DEF Switch
  <2>3. /\ status' \in Statuses /\ desk' \in {"none", "fresh", "stale"} /\ DeskAgrees'
        /\ desk' = "fresh" => desk = "fresh"
        /\ status' = status \/ (claim = 0 /\ status = "PUBLISHING" /\ status' = "SCHEDULED")
    BY <1>i, <2>2, RowMoves DEF Statuses, TypeOK, DeskAgrees
  <2>4. TypeOK'
    BY <1>i, <2>m, <2>2, <2>3 DEF TypeOK, Moved, Deliveries, attempt
  <2>5. Safe => Safe'
    BY <1>o, <2>m, <2>2, <2>3, GuestIsSafe DEF Posting, Barred, OwnPlaces, attempt
  <2> QED
    BY <2>2, <2>3, <2>4, <2>5 DEF IInv, InTime
<1>4. CASE Complete(w)
  <2>1. Moved(w, "idle", 0) /\ UNCHANGED <<post, sweep, used>>
    BY <1>4, <1>t, Moves DEF Complete
  <2>2. queue' \in [Messages -> [state : {"free", "ready", "active"}, tries : 0..RetryLimit]]
    <3>1. worker[w].msg = 0 \/ worker[w].msg \in Messages
      BY <1>t, ShapeAssumption DEF Messages
    <3> QED
      BY <1>4, <1>i, <3>1, RetriedIsTyped DEF Complete, TypeOK
  <2>3. TypeOK' /\ DeskAgrees'
    <3>1. TypeOK'
      BY <1>i, <2>1, <2>2 DEF TypeOK, Moved, Deliveries, post, row, attempt
    <3>2. DeskAgrees'
      BY <1>i, <2>1, <2>2 DEF DeskAgrees, Moved, post, row, attempt
    <3> QED
      BY <3>1, <3>2
  <2>4. Safe => Safe'
    BY <1>o, <2>1, GuestIsSafe DEF post, row, attempt, Posting, Barred, OwnPlaces
  <2> QED
    BY <2>1, <2>3, <2>4 DEF IInv, InTime
<1> QED
  BY <1>1, <1>2, <1>3, <1>4

-----------------------------------------------------------------------------
\* A delivery takes the claim, and then the row.
LEMMA ClaimKeeps ==
    ASSUME IInv, NEW w \in Workers, Claim(w)
    PROVE  IInv'
<1>i. TypeOK /\ DeskAgrees
  BY DEF IInv
<1>t. worker \in [Workers -> Deliveries] /\ worker[w].mine \in 0..MaxAttempts
  BY <1>i, TypedDeliveries
<1>o. ~Own(w) /\ (Safe => worker[w].mine = 0)
  BY DEF Claim, At, Own, OwnPlaces, Safe, OwnersAgree
<1>u. UNCHANGED <<row, unconfirmed, auto, authorized, live, queue, sweep, used>>
  BY DEF Claim
<1>1. CASE claim # 0
  <2>1. Moved(w, "ack", 0) /\ UNCHANGED <<claim, anchored, aged>>
    BY <1>1, <1>t, Moves DEF Claim, Places
  <2>2. TypeOK' /\ DeskAgrees'
    <3>1. TypeOK'
      BY <1>i, <1>u, <2>1 DEF TypeOK, Moved, Deliveries, row
    <3>2. DeskAgrees'
      BY <1>i, <1>u, <2>1 DEF DeskAgrees, Moved, row
    <3> QED
      BY <3>1, <3>2
  <2>3. Safe => Safe'
    BY <1>o, <1>u, <2>1, GuestIsSafe DEF row, attempt, Posting, Barred, OwnPlaces
  <2> QED
    BY <1>u, <2>2, <2>3 DEF IInv, InTime
<1>2. CASE claim = 0
  <2>1. PICK a \in Attempts :
            /\ Forgotten(a) /\ claim' = a
            /\ worker' = [worker EXCEPT ![w].pc = "row", ![w].mine = a]
    BY <1>2 DEF Claim
  <2>2. Moved(w, "row", a) /\ claim' = a /\ anchored' = FALSE /\ aged' = FALSE
    BY <1>2, <1>t, <2>1, Moves DEF Claim
  <2>3. a \in 0..MaxAttempts /\ a # 0
    BY Zeros
  <2>4. TypeOK' /\ DeskAgrees'
    <3>1. TypeOK'
      BY <1>i, <1>u, <2>2, <2>3 DEF TypeOK, Moved, Deliveries, row
    <3>2. DeskAgrees'
      BY <1>i, <1>u, <2>2, <2>3 DEF DeskAgrees, Moved, row
    <3> QED
      BY <3>1, <3>2
  <2>5. ASSUME Safe PROVE Safe'
    \* Without a claim nobody owned the post, and the reaper holds none.
    <3>1. \A v \in Workers : ~Own(v) /\ worker[v].mine = 0
      BY <1>2, <2>5 DEF Safe, OwnersAgree
    <3>2. (\A v \in Workers \ {w} : ~Own(v)' /\ worker'[v].mine = 0)
          /\ Own(w)' /\ worker'[w].mine = a /\ worker'[w].pc = "row"
      BY <2>2, <3>1 DEF Moved, Own, OwnPlaces
    <3>3. OwnersAgree'
      BY <2>2, <2>3, <3>2 DEF OwnersAgree
    <3>4. sweep.id = 0 /\ sweep' = sweep /\ a \notin unconfirmed' /\ sweep = NoSweep
      BY <1>2, <1>u, <2>1, <2>5 DEF Safe, ReaperAgrees, Forgotten
    <3>5. ReaperAgrees'
      BY <2>2, <3>4 DEF ReaperAgrees
    <3>6. \A v \in Workers : ~Past(v) /\ ~Past(v)'
      BY <3>1, <3>2 DEF Past, At
    <3>7. PastAgrees' /\ LiveAgrees'
      BY <1>2, <1>u, <2>5, <3>6 DEF PastAgrees, LiveAgrees, Safe, Orphaned, Barred, row
    <3> QED
      BY <3>3, <3>5, <3>7 DEF Safe
  <2> QED
    BY <1>u, <2>4, <2>5 DEF IInv, InTime
<1> QED
  BY <1>1, <1>2

\* What giving up a claim does to it.
LEMMA Releases ==
    ASSUME TypeOK, NEW a \in 0..MaxAttempts, Release(a) \/ LeaveUnconfirmed(a)
    PROVE  /\ claim' \in 0..MaxAttempts /\ anchored' \in BOOLEAN /\ aged' \in BOOLEAN
           /\ LeaveUnconfirmed(a) => unconfirmed' \subseteq 0..MaxAttempts
           /\ claim = a => claim' = 0 /\ anchored' = FALSE /\ aged' = FALSE
  BY Zeros DEF Release, LeaveUnconfirmed, TypeOK

LEMMA OwnerReleases ==
    ASSUME TypeOK, Safe, NEW w \in Workers, Own(w), NEW pc, pc \notin OwnPlaces, Moved(w, pc, 0),
           Release(worker[w].mine) \/ LeaveUnconfirmed(worker[w].mine),
           UNCHANGED <<live, sweep>>, live > 0 /\ ~stamped' => Barred'
    PROVE  Safe'
<1>1. \A v \in Workers : ~Own(v)' /\ worker'[v].mine = 0
  BY NoOthers DEF Safe, Moved, Own
<1>2. claim = worker[w].mine /\ claim # 0 /\ ~aged
  BY DEF Safe, OwnersAgree
<1>3. claim' = 0 /\ aged' = FALSE
  BY <1>2, Releases DEF TypeOK
<1>4. sweep' = NoSweep
  BY <1>2 DEF Safe, ReaperAgrees
<1> QED
  BY <1>1, <1>3, <1>4, ReleaseIsSafe

LEMMA ClaimRowKeeps ==
    ASSUME IInv, NEW w \in Workers, ClaimRow(w)
    PROVE  IInv'
<1>i. TypeOK /\ DeskAgrees
  BY DEF IInv
<1>t. worker \in [Workers -> Deliveries] /\ worker[w].mine \in 0..MaxAttempts
  BY <1>i, TypedDeliveries
<1>o. Own(w) /\ ~Past(w) /\ (Safe => claim = worker[w].mine /\ claim # 0 /\ ~aged)
  BY DEF ClaimRow, At, Past, Own, OwnPlaces, Safe, OwnersAgree
<1>n. Safe => (\A v \in Workers : ~Past(v)) /\ ~Orphaned /\ (live > 0 /\ ~stamped => Barred)
  BY <1>o DEF Safe, OwnersAgree, Past, Orphaned, LiveAgrees
<1>u. UNCHANGED <<channel, due, stamped, auto, authorized, live, queue, sweep, used>>
  BY DEF ClaimRow
<1>1. CASE status \in {"SCHEDULED", "PUBLISHING"} /\ ~stamped
  <2>1. Moved(w, "prepare", worker[w].mine)
    BY <1>1, <1>t, Moves DEF ClaimRow, Places
  <2>2. /\ status' = "PUBLISHING" /\ UNCHANGED attempt
        /\ desk' \in {"none", "stale"}
    BY <1>1, <1>i DEF ClaimRow, Touched, TypeOK
  <2>3. TypeOK' /\ DeskAgrees'
    <3>1. TypeOK'
      BY <1>i, <1>t, <1>u, <2>1, <2>2 DEF TypeOK, Moved, Deliveries, attempt, Statuses
    <3>2. DeskAgrees'
      BY <1>i, <1>t, <1>u, <2>1, <2>2 DEF DeskAgrees, Moved, attempt, Statuses
    <3> QED
      BY <3>1, <3>2
  <2>4. ASSUME Safe PROVE Safe'
    <3>1. \A v \in Workers \ {w} : ~Own(v) /\ ~Own(v)' /\ worker'[v].mine = 0
      BY <1>o, <2>1, <2>4, NoOthers DEF Safe
    <3>2. Past(w)' /\ Own(w)' /\ worker'[w].pc = "prepare" /\ worker'[w].mine = worker[w].mine
      BY <2>1 DEF Moved, Past, Own, At, OwnPlaces
    <3>3. OwnersAgree'
      BY <1>o, <2>2, <2>4, <3>1, <3>2 DEF OwnersAgree, attempt
    <3>4. ReaperAgrees'
      BY <1>u, <2>2, <2>4 DEF Safe, ReaperAgrees, attempt, NoSweep
    <3>5. live = 0
      BY <1>1, <1>i, <1>n, <2>4 DEF Barred, TypeOK
    <3>6. PastAgrees'
      BY <1>1, <1>u, <2>2, <3>1, <3>2, <3>5 DEF PastAgrees, Past, Posting
    <3>7. LiveAgrees'
      BY <1>u, <3>5 DEF LiveAgrees
    <3> QED
      BY <3>3, <3>4, <3>6, <3>7 DEF Safe
  <2> QED
    BY <1>u, <2>3, <2>4 DEF IInv, InTime
<1>2. CASE ~(status \in {"SCHEDULED", "PUBLISHING"} /\ ~stamped)
  <2>1. Moved(w, "ack", 0)
    BY <1>2, <1>t, Moves DEF ClaimRow, Places
  <2>2. /\ Release(worker[w].mine) /\ unconfirmed' = unconfirmed \ {worker[w].mine}
        /\ UNCHANGED <<status, desk>>
    BY <1>2 DEF ClaimRow
  <2>3. TypeOK' /\ DeskAgrees'
    <3>1. TypeOK'
      BY <1>i, <1>t, <1>u, <2>1, <2>2, Releases DEF TypeOK, Moved, Deliveries
    <3>2. DeskAgrees'
      BY <1>i, <1>t, <1>u, <2>1, <2>2, Releases DEF DeskAgrees, Moved
    <3> QED
      BY <3>1, <3>2
  <2>4. ASSUME Safe PROVE Safe'
    <3>1. unconfirmed' = unconfirmed
      BY <1>o, <2>2, <2>4 DEF Safe, ReaperAgrees
    <3>2. live > 0 /\ ~stamped' => Barred'
      BY <1>n, <1>u, <2>2, <2>4, <3>1 DEF Barred
    <3> QED
      BY <1>i, <1>o, <1>u, <2>1, <2>2, <2>4, <3>2, OwnerReleases DEF OwnPlaces
  <2> QED
    BY <1>u, <2>3, <2>4 DEF IInv, InTime
<1> QED
  BY <1>1, <1>2

-----------------------------------------------------------------------------
\* The owner at work.
LEMMA OwnerKeeps ==
    ASSUME IInv, NEW w \in Workers, Prepare(w) \/ Container(w) \/ Confirm(w) \/ Send(w)
    PROVE  IInv'
<1>i. TypeOK /\ DeskAgrees
  BY DEF IInv
<1>t. worker \in [Workers -> Deliveries] /\ worker[w].mine \in 0..MaxAttempts
  BY <1>i, TypedDeliveries
<1>p. OwnPlaces \subseteq Places
  BY DEF OwnPlaces, Places
<1>o. Past(w) /\ (Safe => live = 0)
  <2>1. worker[w].pc \in {"prepare", "container", "confirm", "send"}
    BY DEF Prepare, Container, Confirm, Send, At
  <2> QED
    BY <2>1 DEF Past, Own, OwnPlaces, At, Safe, PastAgrees
<1>a. At(w, "confirm") \/ At(w, "send") => (Safe /\ channel = "instagram" => anchored)
  BY <1>o DEF At, Safe, PastAgrees
<1>1. CASE Prepare(w)
  <2>1. PICK pc \in {"refuse", "transient", "hard",
                     IF channel = "instagram" THEN "container" ELSE "confirm"} : Goes(w, pc)
    BY <1>1 DEF Prepare
  <2>2. pc \in OwnPlaces \ {"row", "record", "ambiguous", "send"}
        /\ (pc = "confirm" => channel # "instagram")
    BY <2>1 DEF OwnPlaces
  <2>3. Moved(w, pc, worker[w].mine)
    BY <1>t, <1>p, <2>1, <2>2, Moves DEF OwnPlaces
  <2>4. UNCHANGED <<post, queue, sweep, used>>
    BY <1>1 DEF Prepare
  <2>5. TypeOK' /\ DeskAgrees'
    <3>1. TypeOK'
      BY <1>i, <2>3, <2>4 DEF TypeOK, Moved, Deliveries, post, row, attempt
    <3>2. DeskAgrees'
      BY <1>i, <2>3, <2>4 DEF DeskAgrees, Moved, post, row, attempt
    <3> QED
      BY <3>1, <3>2
  <2>6. Safe => Safe'
    BY <1>o, <2>2, <2>3, <2>4, OwnerIsSafe DEF post, row, attempt
  <2> QED
    BY <2>4, <2>5, <2>6 DEF IInv, InTime
<1>2. CASE Container(w)
  <2>1. PICK pc \in {"confirm", "transient", "hard"} :
            /\ Goes(w, pc)
            /\ anchored' = TRUE \/ (pc # "confirm" /\ UNCHANGED anchored)
    BY <1>2 DEF Container
  <2>2. pc \in OwnPlaces \ {"row", "record", "ambiguous", "send"}
    BY <2>1 DEF OwnPlaces
  <2>3. Moved(w, pc, worker[w].mine)
    BY <1>t, <1>p, <2>1, <2>2, Moves DEF OwnPlaces
  <2>4. UNCHANGED <<row, claim, aged, unconfirmed, auto, authorized, live, queue, sweep, used>>
    BY <1>2 DEF Container
  <2>5. TypeOK' /\ DeskAgrees'
    <3>1. TypeOK'
      BY <1>i, <2>1, <2>3, <2>4 DEF TypeOK, Moved, Deliveries, row
    <3>2. DeskAgrees'
      BY <1>i, <2>1, <2>3, <2>4 DEF DeskAgrees, Moved, row
    <3> QED
      BY <3>1, <3>2
  <2>6. Safe => Safe'
    <3>1. (anchored' = anchored \/ anchored' = TRUE) /\ (pc = "confirm" => anchored')
      BY <2>1
    <3>2. Safe => live' = 0 /\ live' <= 1
      BY <1>o, <2>4
    <3> QED
      BY <1>o, <2>2, <2>3, <2>4, <3>1, <3>2, OwnerIsSafe
  <2> QED
    BY <2>4, <2>5, <2>6 DEF IInv, InTime
<1>3. CASE Confirm(w)
  <2>1. PICK pc \in {"send", "withdraw", "transient"} : Goes(w, pc)
    BY <1>3 DEF Confirm
  <2>2. pc \in OwnPlaces \ {"row", "record", "ambiguous"}
    BY <2>1 DEF OwnPlaces
  <2>3. Moved(w, pc, worker[w].mine)
    BY <1>t, <1>p, <2>1, <2>2, Moves DEF OwnPlaces
  <2>4. UNCHANGED <<post, queue, sweep>> /\ used' \in Uses /\ (InTime' => InTime)
    <3>1. UNCHANGED used \/ Fault("blip")
      BY <1>3 DEF Confirm
    <3> QED
      BY <1>3, <1>i, <3>1, Counts DEF Confirm, FaultKinds, TypeOK, Uses, InTime
  <2>5. TypeOK' /\ DeskAgrees'
    <3>1. TypeOK'
      BY <1>i, <2>3, <2>4 DEF TypeOK, Moved, Deliveries, Uses, post, row, attempt
    <3>2. DeskAgrees'
      BY <1>i, <2>3, <2>4 DEF DeskAgrees, Moved, Uses, post, row, attempt
    <3> QED
      BY <3>1, <3>2
  <2>6. Safe => Safe'
    <3>1. Safe => (channel = "instagram" => anchored)
      BY <1>3, <1>a DEF Confirm
    <3> QED
      BY <1>o, <2>2, <2>3, <2>4, <3>1, OwnerIsSafe DEF post, row, attempt
  <2> QED
    BY <2>4, <2>5, <2>6 DEF IInv
<1>4. CASE Send(w)
  <2>1. PICK pc \in {"transient", "hard", "ambiguous", "record"} :
            /\ Goes(w, pc)
            /\ UNCHANGED live \/ live' = live + 1
            /\ pc \notin {"record", "ambiguous"} => UNCHANGED live
    BY <1>4 DEF Send
  <2>2. pc \in OwnPlaces \ {"row"}
    BY <2>1 DEF OwnPlaces
  <2>3. Moved(w, pc, worker[w].mine)
    BY <1>t, <1>p, <2>1, <2>2, Moves DEF OwnPlaces
  <2>4. UNCHANGED <<row, attempt, auto, authorized, queue, sweep, used>>
    BY <1>4 DEF Send
  <2>5. TypeOK' /\ DeskAgrees'
    <3>1. TypeOK'
      BY <1>i, <2>1, <2>3, <2>4 DEF TypeOK, Moved, Deliveries, row, attempt
    <3>2. DeskAgrees'
      BY <1>i, <2>1, <2>3, <2>4 DEF DeskAgrees, Moved, row, attempt
    <3> QED
      BY <3>1, <3>2
  <2>6. Safe => Safe'
    <3>1. Safe => (channel = "instagram" => anchored)
      BY <1>4, <1>a DEF Send
    <3>2. Safe => live' <= 1 /\ (pc \notin {"record", "ambiguous"} => live' = 0)
      BY <1>o, <2>1
    <3> QED
      BY <1>o, <2>2, <2>3, <2>4, <3>1, <3>2, OwnerIsSafe DEF row, attempt
  <2> QED
    BY <2>4, <2>5, <2>6 DEF IInv, InTime
<1> QED
  BY <1>1, <1>2, <1>3, <1>4

-----------------------------------------------------------------------------
\* The owner gives the claim up.
LEMMA EndingsKeep ==
    ASSUME IInv, NEW w \in Workers,
           Record(w) \/ Withdraw(w) \/ Refuse(w) \/ Ambiguous(w) \/ Transient(w) \/ Hard(w)
    PROVE  IInv'
<1>i. TypeOK /\ DeskAgrees
  BY DEF IInv
<1>t. worker \in [Workers -> Deliveries] /\ worker[w].mine \in 0..MaxAttempts
  BY <1>i, TypedDeliveries
<1>o. Own(w) /\ Past(w)
  <2>1. worker[w].pc \in {"record", "withdraw", "refuse", "ambiguous", "transient", "hard"}
    BY DEF Record, Withdraw, Refuse, Ambiguous, Transient, Hard, At
  <2> QED
    BY <2>1 DEF Past, Own, OwnPlaces, At
<1>c. Safe => /\ claim = worker[w].mine /\ claim # 0 /\ claim \notin unconfirmed
              /\ ~stamped /\ (Posting \/ Barred)
              /\ worker[w].pc \notin {"record", "ambiguous"} => live = 0
  BY <1>o DEF Safe, OwnersAgree, ReaperAgrees, PastAgrees
<1>m. PICK pc \in {"ack", "nack"} : Moved(w, pc, 0)
  <2>1. \E pc \in {"ack", "nack"} : Goes(w, pc)
    BY DEF Record, Withdraw, Refuse, Ambiguous, Transient, Hard
  <2> QED
    BY <1>t, <2>1, Moves DEF Places
<1>q. pc \notin OwnPlaces
  BY DEF OwnPlaces
<1>u. UNCHANGED <<channel, due, auto, authorized, live, queue, sweep, used>>
  BY DEF Record, Withdraw, Refuse, Ambiguous, Transient, Hard
<1>x. \/ Release(worker[w].mine)
      \/ LeaveUnconfirmed(worker[w].mine)
      \/ UNCHANGED <<claim, anchored, aged>> /\ claim # worker[w].mine
  BY DEF Record, Withdraw, Refuse, Ambiguous, Transient, Hard
<1>r. /\ status' \in Statuses /\ desk' \in {"none", "fresh", "stale"} /\ DeskAgrees'
      /\ stamped' \in BOOLEAN /\ (desk' = "fresh" => desk = "fresh")
      /\ status' = status \/ status \in {"PUBLISHING"}
  <2>1. CASE /\ UNCHANGED stamped
             /\ \/ \E to \in {"NEEDS_ATTENTION", "SCHEDULED", "FAILED"} :
                       Move({"PUBLISHING"}, to) \/ MoveUnstamped({"PUBLISHING"}, to)
                \/ UNCHANGED <<status, desk>>
    BY <1>i, <2>1, RowMoves DEF Statuses, TypeOK, DeskAgrees
  <2>2. CASE status = "PUBLISHING" /\ stamped' = TRUE /\ status' = "PUBLISHED" /\ Touched
    BY <1>i, <2>2 DEF Touched, TypeOK, DeskAgrees, Statuses
  <2> QED
    BY <2>1, <2>2 DEF Record, Withdraw, Refuse, Ambiguous, Transient, Hard
<1>n. unconfirmed' \subseteq 0..MaxAttempts
  <2>1. \/ LeaveUnconfirmed(worker[w].mine)
        \/ unconfirmed' \in {unconfirmed, unconfirmed \cup {0}, unconfirmed \ {worker[w].mine}}
    BY DEF Record, Withdraw, Refuse, Ambiguous, Transient, Hard
  <2> QED
    BY <1>i, <1>t, <2>1, Zeros, Releases DEF TypeOK
<1>y. TypeOK'
  <2>1. claim' \in 0..MaxAttempts /\ anchored' \in BOOLEAN /\ aged' \in BOOLEAN
    BY <1>i, <1>t, <1>x, Releases DEF TypeOK
  <2> QED
    BY <1>i, <1>m, <1>u, <1>r, <1>n, <2>1 DEF TypeOK, Moved, Deliveries
<1>s. ASSUME Safe PROVE Safe'
  <2>1. live > 0 /\ ~stamped' => Barred'
    <3>1. CASE Record(w)
      <4>1. CASE stamped' = TRUE
        BY <4>1
      <4>2. CASE /\ ~(status = "PUBLISHING" /\ ~stamped)
                 /\ LeaveUnconfirmed(worker[w].mine) /\ UNCHANGED <<stamped, status, desk>>
        BY <1>c, <1>s, <4>2 DEF Posting, Barred, LeaveUnconfirmed
      <4> QED
        BY <1>c, <1>s, <3>1, <4>1, <4>2 DEF Record
    <3>2. CASE Ambiguous(w)
      <4>1. unconfirmed' # {}
        BY <1>c, <1>s, <3>2 DEF Ambiguous, LeaveUnconfirmed
      <4>2. MoveUnstamped({"PUBLISHING"}, "NEEDS_ATTENTION")
        BY <3>2 DEF Ambiguous
      <4> QED
        BY <1>c, <1>s, <4>1, <4>2 DEF MoveUnstamped, Touched, Posting, Barred
    <3>3. CASE Withdraw(w) \/ Refuse(w) \/ Transient(w) \/ Hard(w)
      <4>1. worker[w].pc \in {"withdraw", "refuse", "transient", "hard"}
        BY <3>3 DEF Withdraw, Refuse, Transient, Hard, At
      <4>2. live = 0
        BY <1>c, <1>s, <4>1
      <4> QED
        BY <4>2
    <3> QED
      BY <3>1, <3>2, <3>3
  <2> QED
    BY <1>i, <1>o, <1>c, <1>m, <1>q, <1>u, <1>x, <1>s, <2>1, OwnerReleases
<1> QED
  BY <1>u, <1>r, <1>y, <1>s DEF IInv, InTime

-----------------------------------------------------------------------------
\* What goes wrong, and the reaper.
LEMMA FaultsKeep ==
    ASSUME IInv, NEW w \in Workers, Throws(w) \/ Crash(w)
    PROVE  IInv'
<1>i. TypeOK /\ DeskAgrees
  BY DEF IInv
<1>t. worker \in [Workers -> Deliveries] /\ worker[w].mine \in 0..MaxAttempts
  BY <1>i, TypedDeliveries
<1>1. PICK pc \in {"nack", "idle"} : Moved(w, pc, 0)
  BY <1>t, Moves DEF Throws, Crash, Places
<1>2. pc \notin OwnPlaces
  BY DEF OwnPlaces
<1>3. UNCHANGED <<row, attempt, auto, authorized, queue, sweep>>
  BY DEF Throws, Crash, post
<1>4. live' = live \/ (At(w, "send") /\ live' = live + 1)
  BY DEF Throws, Crash, post
<1>5. used' \in Uses /\ (InTime' => InTime)
  BY <1>i, Counts DEF Throws, Crash, FaultKinds
<1>6. TypeOK' /\ DeskAgrees'
    <2>1. TypeOK'
        BY <1>i, <1>1, <1>3, <1>4, <1>5 DEF TypeOK, Moved, Deliveries, Uses, row, attempt
    <2>2. DeskAgrees'
        BY <1>i, <1>1, <1>3, <1>4, <1>5 DEF DeskAgrees, Moved, Uses, row, attempt
    <2> QED
        BY <2>1, <2>2
<1>7. ASSUME Safe PROVE Safe'
  <2>1. CASE Own(w)
    BY <1>i, <1>1, <1>2, <1>3, <1>4, <1>7, <2>1, OrphanIsSafe
  <2>2. CASE ~Own(w)
    <3>1. live' = live
      BY <1>4, <2>2 DEF At, Own, OwnPlaces
    <3> QED
      BY <1>1, <1>2, <1>3, <1>7, <2>2, <3>1, GuestIsSafe DEF Posting, Barred, row, attempt
  <2> QED
    BY <2>1, <2>2
<1> QED
  BY <1>5, <1>6, <1>7 DEF IInv

LEMMA ExpiryKeeps ==
    ASSUME IInv, NEW m \in Messages, Expire(m)
    PROVE  IInv'
<1>i. TypeOK /\ DeskAgrees
  BY DEF IInv
<1>t. worker \in [Workers -> Deliveries]
  BY <1>i, TypedDeliveries
<1>1. /\ worker' \in [Workers -> Deliveries]
      /\ \A v \in Workers : worker'[v].pc = worker[v].pc /\ worker'[v].mine = worker[v].mine
  <2>1. CASE UNCHANGED worker
    BY <1>t, <2>1
  <2>2. ASSUME NEW w \in Workers, worker' = [worker EXCEPT ![w].msg = 0]
        PROVE  /\ worker' \in [Workers -> Deliveries]
               /\ \A v \in Workers : worker'[v].pc = worker[v].pc /\ worker'[v].mine = worker[v].mine
    BY <1>t, <2>2, Zeros DEF Deliveries
  <2> QED
    BY <2>1, <2>2 DEF Expire
<1>2. used' \in Uses /\ (InTime' => InTime)
  <2>1. UNCHANGED used \/ Fault("overrun")
    BY DEF Expire
  <2> QED
    BY <1>i, <2>1, Counts DEF FaultKinds, TypeOK, Uses, InTime
<1>3. UNCHANGED <<post, sweep>>
      /\ queue' \in [Messages -> [state : {"free", "ready", "active"}, tries : 0..RetryLimit]]
  BY <1>i, RetriedIsTyped DEF Expire
<1>4. TypeOK' /\ DeskAgrees'
    <2>1. TypeOK'
        BY <1>i, <1>1, <1>2, <1>3 DEF TypeOK, Deliveries, Uses, post, row, attempt
    <2>2. DeskAgrees'
        BY <1>i, <1>1, <1>2, <1>3 DEF DeskAgrees, Uses, post, row, attempt
    <2> QED
        BY <2>1, <2>2
<1>5. ASSUME Safe PROVE Safe'
  <2>1. \A v \in Workers :
           /\ Own(v)' <=> Own(v)
           /\ Own(v) => worker'[v].pc = worker[v].pc /\ worker'[v].mine = worker[v].mine
           /\ ~Own(v) => worker'[v].mine = 0
    BY <1>1, <1>5 DEF Own, Safe, OwnersAgree
  <2> QED
    BY <1>3, <1>5, <2>1, AsideIsSafe DEF Posting, Barred, post, row, attempt
<1> QED
  BY <1>2, <1>4, <1>5 DEF IInv

LEMMA ReaperKeeps ==
    ASSUME IInv, Ages \/ ReapRead \/ ReapWrite
    PROVE  IInv'
<1>i. TypeOK /\ DeskAgrees
  BY DEF IInv
<1>1. CASE Ages
  <2>1. UNCHANGED <<row, claim, anchored, unconfirmed, auto, authorized, live, queue, worker, sweep>>
        /\ claim # 0 /\ aged' = TRUE
    BY <1>1 DEF Ages
  <2>2. /\ used' \in Uses /\ (InTime' => InTime)
        /\ InTime' => \A w \in Workers : worker[w].mine # claim
    <3>1. CASE UNCHANGED used /\ \A w \in Workers : worker[w].mine # claim
      BY <1>i, <3>1 DEF TypeOK, Uses, InTime
    <3>2. CASE Fault("outlive")
      BY <1>i, <3>2, Counts
    <3> QED
      BY <1>1, <3>1, <3>2 DEF Ages
  <2>3. TypeOK' /\ DeskAgrees'
    <3>1. TypeOK'
      BY <1>i, <2>1, <2>2 DEF TypeOK, Uses, row
    <3>2. DeskAgrees'
      BY <1>i, <2>1, <2>2 DEF DeskAgrees, Uses, row
    <3> QED
      BY <3>1, <3>2
  <2>4. ASSUME Safe, InTime' PROVE Safe'
    <3>1. \A v \in Workers : ~Own(v) /\ ~Own(v)' /\ worker'[v].mine = 0
      BY <2>1, <2>2, <2>4 DEF Safe, OwnersAgree, Own
    <3>2. OwnersAgree' /\ PastAgrees'
      BY <3>1 DEF OwnersAgree, PastAgrees, Past
    <3>3. ReaperAgrees'
      BY <2>1, <2>4 DEF Safe, ReaperAgrees, NoSweep
    <3>4. LiveAgrees'
      BY <2>1, <2>4, <3>1 DEF Safe, LiveAgrees, Past, Orphaned, Posting, Barred, row
    <3> QED
      BY <3>2, <3>3, <3>4 DEF Safe
  <2> QED
    BY <2>2, <2>3, <2>4 DEF IInv
<1>2. CASE ReapRead
  <2>1. UNCHANGED <<post, queue, worker, used>> /\ claim # 0 /\ aged
        /\ sweep' = [id |-> claim, anchored |-> anchored]
    BY <1>2 DEF ReapRead
  <2>2. TypeOK' /\ DeskAgrees'
    <3>1. TypeOK'
      BY <1>i, <2>1 DEF TypeOK, post, row, attempt
    <3>2. DeskAgrees'
      BY <1>i, <2>1 DEF DeskAgrees, post, row, attempt
    <3> QED
      BY <3>1, <3>2
  <2>3. ASSUME Safe PROVE Safe'
    <3>1. OwnersAgree' /\ PastAgrees' /\ LiveAgrees'
      BY <2>1, <2>3 DEF Safe, OwnersAgree, PastAgrees, LiveAgrees, Orphaned, Posting, Barred,
                        Past, Own, At, post, row, attempt
    <3>2. ReaperAgrees'
      BY <2>1, <2>3 DEF Safe, ReaperAgrees, post, attempt, NoSweep
    <3> QED
      BY <3>1, <3>2 DEF Safe
  <2> QED
    BY <2>1, <2>2, <2>3 DEF IInv, InTime
<1>3. CASE ReapWrite
  <2>1. /\ sweep # NoSweep /\ sweep' = NoSweep
        /\ UNCHANGED <<channel, due, stamped, auto, authorized, live, queue, worker, used>>
        /\ MoveUnstamped({"PUBLISHING"}, "NEEDS_ATTENTION")
    BY <1>3 DEF ReapWrite
  <2>2. \/ /\ stamped \/ (channel = "instagram" /\ ~sweep.anchored)
           /\ Release(sweep.id) /\ UNCHANGED unconfirmed
        \/ LeaveUnconfirmed(sweep.id)
    BY <1>3 DEF ReapWrite
  <2>3. /\ status' \in Statuses /\ desk' \in {"none", "fresh", "stale"} /\ DeskAgrees'
    BY <1>i, <2>1, RowMoves DEF Statuses
  <2>4. TypeOK'
    <3>1. sweep.id \in 0..MaxAttempts /\ NoSweep \in [id : 0..MaxAttempts, anchored : BOOLEAN]
      BY <1>i, Zeros DEF TypeOK, NoSweep
    <3>2. /\ claim' \in 0..MaxAttempts /\ anchored' \in BOOLEAN /\ aged' \in BOOLEAN
          /\ unconfirmed' \subseteq 0..MaxAttempts
      BY <1>i, <2>2, <3>1, Releases DEF TypeOK
    <3> QED
      BY <1>i, <2>1, <2>3, <3>1, <3>2 DEF TypeOK
  <2>5. ASSUME Safe PROVE Safe'
    <3>1. sweep.id # 0 /\ claim = sweep.id /\ aged /\ sweep.anchored = anchored
      BY <2>1, <2>5 DEF Safe, ReaperAgrees
    <3>2. \A v \in Workers : ~Own(v) /\ ~Own(v)' /\ worker'[v].mine = 0
      BY <2>1, <2>5, <3>1 DEF Safe, OwnersAgree, Own
    <3>3. claim' = 0 /\ aged' = FALSE
      BY <2>2, <3>1 DEF Release, LeaveUnconfirmed
    <3>4. ASSUME live > 0, ~stamped PROVE Barred'
      <4>1. Barred \/ Orphaned
        BY <2>5, <3>2, <3>4 DEF Safe, LiveAgrees, Past
      <4>2. unconfirmed \subseteq unconfirmed'
        BY <2>2 DEF LeaveUnconfirmed
      <4>3. CASE Barred
        BY <2>1, <4>2, <4>3 DEF Barred, MoveUnstamped
      <4>4. CASE Orphaned
        <5>1. unconfirmed' # {}
          BY <2>2, <3>1, <3>4, <4>4 DEF Orphaned, LeaveUnconfirmed
        <5> QED
          BY <2>1, <3>4, <4>4, <5>1 DEF Orphaned, Posting, Barred, MoveUnstamped, Touched
      <4> QED
        BY <4>1, <4>3, <4>4
    <3> QED
      BY <2>1, <2>5, <3>2, <3>3, <3>4, ReleaseIsSafe
  <2> QED
    BY <2>1, <2>3, <2>4, <2>5 DEF IInv, InTime
<1> QED
  BY <1>1, <1>2, <1>3

-----------------------------------------------------------------------------
\* The theorems.

LEMMA StepKeeps == IInv /\ [Next]_vars => IInv'
<1> SUFFICES ASSUME IInv, [Next]_vars PROVE IInv'
  OBVIOUS
<1>1. CASE Merchant \/ Scan \/ ComesDue \/ UNCHANGED vars
  BY <1>1, MerchantKeeps
<1>2. ASSUME NEW w \in Workers, Step(w) PROVE IInv'
  BY <1>2, GuestKeeps, ClaimKeeps, ClaimRowKeeps, OwnerKeeps, EndingsKeep DEF Step
<1>3. ASSUME NEW w \in Workers, Throws(w) \/ Crash(w) PROVE IInv'
  BY <1>3, FaultsKeep
<1>4. ASSUME NEW w \in Workers, NEW m \in Messages, Fetch(w, m) PROVE IInv'
  BY <1>4, GuestKeeps
<1>5. ASSUME NEW m \in Messages, Expire(m) PROVE IInv'
  BY <1>5, ExpiryKeeps
<1>6. CASE Ages \/ Reaper
  BY <1>6, ReaperKeeps DEF Reaper
<1> QED
  BY <1>1, <1>2, <1>3, <1>4, <1>5, <1>6 DEF Next

\* Whatever is redelivered, lost or interrupted, the claim, the row and the
\* reaper's reading agree about who owns the post.
THEOREM OwnershipAgrees == Spec => []IInv
  BY InitEstablishes, StepKeeps, PTL DEF Spec

\* Every variable keeps its type.
THEOREM TypeCorrect == Spec => []TypeOK
<1>1. IInv => TypeOK
  BY DEF IInv
<1> QED
  BY <1>1, OwnershipAgrees, PTL

\* The platform gets the post once at most, as long as no delivery outlives
\* the reaper's cutoff.
THEOREM PublishedOnce == Spec => []NeverTwice
<1>1. IInv => NeverTwice
  BY DEF IInv, NeverTwice, Safe, LiveAgrees
<1> QED
  BY <1>1, OwnershipAgrees, PTL

\* A live post is stamped, claimed or unconfirmed: something refuses to send
\* it again at every moment.
THEOREM GuardedWhileLive == Spec => []LiveIsGuarded
<1>1. IInv => LiveIsGuarded
  BY DEF IInv, LiveIsGuarded, Safe, LiveAgrees, OwnersAgree, Past, Barred, Orphaned
<1> QED
  BY <1>1, OwnershipAgrees, PTL

\* Only the owner sends, and it owns a row that is being published, unless an
\* unconfirmed attempt set it aside.
THEOREM SendsAreOwned == Spec => SentWhilePublishing
<1>1. IInv /\ [Next]_vars => [live' # live /\ InTime => status = "PUBLISHING" \/ unconfirmed # {}]_vars
  <2> SUFFICES ASSUME IInv, Next, live' # live, InTime
               PROVE  status = "PUBLISHING" \/ unconfirmed # {}
    BY DEF vars, post
  <2>1. PICK w \in Workers : At(w, "send")
    <3>1. ~Merchant /\ ~ComesDue /\ ~Reaper /\ ~Scan /\ ~Ages
         /\ ~(\E m \in Messages : Expire(m))
      BY DEF Merchant, ApproveRead, ApproveWrite, Edit, Cancel, Flip, Reconnect, Scan, ComesDue,
             Expire, Ages, Reaper, ReapRead, ReapWrite, post
    <3>2. \A w \in Workers : /\ Crash(w) => At(w, "send")
                            /\ ~Throws(w) /\ ~(\E m \in Messages : Fetch(w, m))
      <4>1. \A w \in Workers : Crash(w) => At(w, "send")
        BY DEF Crash, post
      <4>2. \A w \in Workers : ~Throws(w)
        BY DEF Throws, post
      <4>3. \A w \in Workers, m \in Messages : ~Fetch(w, m)
        BY DEF Fetch, post
      <4> QED
        BY <4>1, <4>2, <4>3
    <3>3. \A w \in Workers : Step(w) => Send(w)
      BY DEF Step, Guard, Switch, Claim, ClaimRow, Prepare, Container, Confirm, Record,
             Withdraw, Refuse, Ambiguous, Transient, Hard, Complete, post
    <3> QED
      BY <3>1, <3>2, <3>3 DEF Next, Send
  <2>2. Past(w)
    BY <2>1 DEF At, Past, Own, OwnPlaces
  <2> QED
    BY <2>2 DEF IInv, Safe, PastAgrees, Posting, Barred
<1> QED
  BY <1>1, OwnershipAgrees, PTL DEF Spec, SentWhilePublishing

\* No step of the merchant, of a delivery or of the reaper takes a post out of
\* CANCELLED or PUBLISHED.
THEOREM EndsAreFinal == Spec => EndsStand
<1>1. IInv /\ [Next]_vars => [status' # status => status \notin {"CANCELLED", "PUBLISHED"}]_vars
  <2> SUFFICES ASSUME IInv, Next, status' # status
               PROVE  status \notin {"CANCELLED", "PUBLISHED"}
    BY DEF vars, post, row
  <2>1. CASE ApproveWrite
    BY <2>1 DEF ApproveWrite, IInv, DeskAgrees
  <2>2. CASE Merchant /\ ~ApproveWrite
    BY <2>2 DEF Merchant, ApproveRead, Edit, Cancel, Flip, Reconnect, row
  <2>3. CASE Scan \/ ComesDue \/ Ages \/ Reaper
    BY <2>3 DEF Scan, ComesDue, Ages, Reaper, ReapRead, ReapWrite, MoveUnstamped, post, row
  <2>4. ASSUME NEW w \in Workers, Step(w) \/ Throws(w) \/ Crash(w) \/ \E m \in Messages : Fetch(w, m)
        PROVE  status \in {"SCHEDULED", "PUBLISHING"}
    BY <2>4 DEF Step, Fetch, Guard, Switch, Claim, ClaimRow, Prepare, Container, Confirm, Send,
                Record, Withdraw, Refuse, Ambiguous, Transient, Hard, Complete, Throws, Crash,
                Move, MoveUnstamped, post, row
  <2>5. ASSUME NEW m \in Messages, Expire(m) PROVE FALSE
    BY <2>5 DEF Expire, post, row
  <2> QED
    BY <2>1, <2>2, <2>3, <2>4, <2>5 DEF Next
<1> QED
  BY <1>1, OwnershipAgrees, PTL DEF Spec, EndsStand
=============================================================================
