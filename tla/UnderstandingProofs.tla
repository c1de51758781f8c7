------------------------ MODULE UnderstandingProofs ------------------------
(***************************************************************************)
(* Understanding, for any number of deliveries and rounds: type            *)
(* correctness, one round at a time, and each round's charge in the step   *)
(* that delivers what was read.                                            *)
(***************************************************************************)
EXTENDS Understanding, FiniteSetTheorems, TLAPS

\* A round is named only after the one before it was refunded, and nothing is
\* held for a round that was never named.
RoundsInOrder ==
    \A r \in Rounds :
        /\ r < moneyRef => hold[r] = "refunded"
        /\ r > moneyRef => hold[r] = "none"

\* A delivery works under a round that was named, and calls the provider only
\* once something was held for it.
HandlersAgree ==
    \A w \in Handlers :
        /\ handler[w].seen <= moneyRef /\ handler[w].ref <= moneyRef
        /\ handler[w].pc \in {"reserve", "call", "commit"} => handler[w].ref # 0
        /\ handler[w].pc \in {"call", "commit"} => hold[handler[w].ref] # "none"

\* The charged round is the one that wrote DONE, and DONE stays.
ChargeAgrees ==
    /\ \A r \in Rounds : hold[r] = "settled" <=> doneBy = r
    /\ doneBy # 0 => status = "DONE"

Nexts == {"idle"} \cup DOMAIN Write
Deliveries == [pc : Places, seen : 0..MaxRounds, ref : 0..MaxRounds, next : Nexts]

\* The step takes delivery w to pc, with these two rounds in hand.
Moved(w, pc, seen, ref) ==
    /\ handler' \in [Handlers -> Deliveries]
    /\ \A v \in Handlers \ {w} : handler'[v] = handler[v]
    /\ handler'[w].pc = pc /\ handler'[w].seen = seen /\ handler'[w].ref = ref

IInv == TypeOK /\ RoundsInOrder /\ HandlersAgree /\ ChargeAgrees

-----------------------------------------------------------------------------
\* The writes that end a delivery, and what they write.
LEMMA Writes ==
    /\ DOMAIN Write = {"skip", "drop", "requeue", "fail", "pause", "park", "close"}
    /\ \A pc \in DOMAIN Write : Write[pc] \in Statuses \ {"RUNNING"}
<1>1. DOMAIN Write = {"skip", "drop", "requeue", "fail", "pause", "park", "close"}
  BY DEF Write
<1>2. \A pc \in {"skip", "drop", "requeue", "fail", "pause", "park", "close"} :
         Write[pc] \in Statuses \ {"RUNNING"}
  BY DEF Write, Statuses
<1> QED
  BY <1>1, <1>2

LEMMA PlacesAre ==
    Places = {"idle", "claim", "check", "ensure", "reserve", "call", "refund", "commit",
              "skip", "drop", "requeue", "fail", "pause", "park", "close"}
  BY Writes DEF Places

LEMMA IdleIsTyped == Idle \in Deliveries
<1>1. "idle" \in Places /\ "idle" \in Nexts /\ 0 \in 0..MaxRounds
  BY RoundsAreCounted, PlacesAre DEF Nexts
<1> QED
  BY <1>1 DEF Idle, Deliveries

LEMMA TypedDeliveries == TypeOK => handler \in [Handlers -> Deliveries]
  BY DEF TypeOK, Deliveries, Nexts

\* What the four ways of moving a delivery do to its record.
LEMMA Moves ==
    ASSUME handler \in [Handlers -> Deliveries], NEW w \in Handlers
    PROVE  /\ Ends(w) => Moved(w, "idle", 0, 0)
           /\ \A pc \in Places : Goes(w, pc) => Moved(w, pc, handler[w].seen, handler[w].ref)
           /\ \A ref \in 0..MaxRounds, write \in DOMAIN Write :
                 GivesUp(w, ref, write) => Moved(w, "refund", handler[w].seen, ref)
<1>1. Ends(w) => Moved(w, "idle", 0, 0)
  BY IdleIsTyped DEF Ends, Moved, Idle
<1>2. ASSUME NEW pc \in Places, Goes(w, pc)
      PROVE  Moved(w, pc, handler[w].seen, handler[w].ref)
  BY <1>2 DEF Goes, Moved, Deliveries
<1>3. ASSUME NEW ref \in 0..MaxRounds, NEW write \in DOMAIN Write, GivesUp(w, ref, write)
      PROVE  Moved(w, "refund", handler[w].seen, ref)
  <2>1. "refund" \in Places /\ write \in Nexts
    BY PlacesAre DEF Nexts
  <2> QED
    BY <1>3, <2>1 DEF GivesUp, Moved, Deliveries
<1> QED
  BY <1>1, <1>2, <1>3

LEMMA MovesTo ==
    ASSUME handler \in [Handlers -> Deliveries], NEW w \in Handlers,
           NEW pc \in Places, NEW n \in 0..MaxRounds
    PROVE  /\ handler' = [handler EXCEPT ![w].pc = pc, ![w].seen = n]
                 => Moved(w, pc, n, handler[w].ref)
           /\ handler' = [handler EXCEPT ![w].pc = pc, ![w].ref = n]
                 => Moved(w, pc, handler[w].seen, n)
           /\ handler' = [handler EXCEPT ![w].ref = n, ![w].pc = pc]
                 => Moved(w, pc, handler[w].seen, n)
  BY DEF Moved, Deliveries

\* A delivery may move on as long as its rounds were named and the provider is
\* called for a round that is on the ledger.
LEMMA MoveAgrees ==
    ASSUME IInv, NEW w \in Handlers, NEW pc, NEW seen \in 0..MaxRounds,
           NEW ref \in 0..MaxRounds, Moved(w, pc, seen, ref),
           moneyRef' \in 0..MaxRounds, moneyRef <= moneyRef',
           seen <= moneyRef', ref <= moneyRef',
           pc \in {"reserve", "call", "commit"} => ref # 0,
           \A r \in Rounds : hold[r] # "none" => hold'[r] # "none",
           pc \in {"call", "commit"} => hold'[ref] # "none"
    PROVE  HandlersAgree'
<1>1. ASSUME NEW v \in Handlers \ {w}
      PROVE  /\ handler'[v].seen <= moneyRef' /\ handler'[v].ref <= moneyRef'
             /\ handler'[v].pc \in {"reserve", "call", "commit"} => handler'[v].ref # 0
             /\ handler'[v].pc \in {"call", "commit"} => hold'[handler'[v].ref] # "none"
  <2>1. handler'[v] = handler[v]
    BY DEF Moved
  <2>2. handler[v].seen \in 0..MaxRounds /\ handler[v].ref \in 0..MaxRounds
    BY TypedDeliveries DEF IInv, Deliveries
  <2>3. handler[v].seen <= moneyRef /\ handler[v].ref <= moneyRef
    BY DEF IInv, HandlersAgree
  <2>4. /\ handler[v].pc \in {"reserve", "call", "commit"} => handler[v].ref # 0
        /\ handler[v].pc \in {"call", "commit"} => hold[handler[v].ref] # "none"
    BY DEF IInv, HandlersAgree
  <2>5. moneyRef \in 0..MaxRounds
    BY DEF IInv, TypeOK
  <2> QED
    BY <2>1, <2>2, <2>3, <2>4, <2>5 DEF Rounds
<1> QED
  BY <1>1 DEF Moved, HandlersAgree

-----------------------------------------------------------------------------
LEMMA InitEstablishes == Init => IInv
<1> SUFFICES ASSUME Init PROVE IInv
  OBVIOUS
<1>1. handler \in [Handlers -> Deliveries]
  BY IdleIsTyped DEF Init
<1>2. TypeOK
  <2>0. status \in Statuses /\ rowOld \in BOOLEAN
    BY DEF Init, Statuses
  <2>1. moneyRef \in 0..MaxRounds /\ doneBy \in 0..MaxRounds /\ sweeping \in 0..MaxRounds
    BY RoundsAreCounted DEF Init
  <2>2. hold \in [Rounds -> {"none", "open", "settled", "refunded"}]
    BY DEF Init
  <2>3. holdOld \in [Rounds -> BOOLEAN]
    BY DEF Init
  <2> QED
    BY <1>1, <2>0, <2>1, <2>2, <2>3 DEF TypeOK, Deliveries, Nexts
<1>3. RoundsInOrder /\ HandlersAgree /\ ChargeAgrees
  BY RoundsAreCounted DEF Init, RoundsInOrder, HandlersAgree, ChargeAgrees, Idle, Rounds
<1> QED
  BY <1>2, <1>3 DEF IInv

\* A step that only moves a delivery within what the row already named.
LEMMA QuietMove ==
    ASSUME IInv, NEW w \in Handlers, NEW pc, NEW seen \in 0..MaxRounds,
           NEW ref \in 0..MaxRounds, Moved(w, pc, seen, ref),
           seen <= moneyRef, ref <= moneyRef,
           pc \in {"reserve", "call", "commit"} => ref # 0,
           pc \in {"call", "commit"} => hold[ref] # "none",
           UNCHANGED <<status, rowOld, moneyRef, hold, holdOld, doneBy, sweeping>>
    PROVE  IInv'
<1>1. moneyRef' = moneyRef /\ moneyRef \in Nat /\ moneyRef \in 0..MaxRounds
  BY RoundsAreCounted DEF IInv, TypeOK
<1>2. HandlersAgree'
  BY <1>1, MoveAgrees
<1>3. TypeOK'
  BY DEF IInv, TypeOK, Moved, Deliveries, Nexts
<1>4. RoundsInOrder' /\ ChargeAgrees'
  BY DEF IInv, RoundsInOrder, ChargeAgrees
<1> QED
  BY <1>2, <1>3, <1>4 DEF IInv

LEMMA QuietKeeps ==
    ASSUME IInv, NEW w \in Handlers,
           Load(w) \/ Check(w) \/ EnsureSame(w) \/ Call(w) \/ Stops(w)
    PROVE  IInv'
<1> DEFINE seen == handler[w].seen
           ref == handler[w].ref
<1>h. handler \in [Handlers -> Deliveries]
  BY TypedDeliveries DEF IInv
<1>t. /\ seen \in 0..MaxRounds /\ ref \in 0..MaxRounds
      /\ seen <= moneyRef /\ ref <= moneyRef
      /\ moneyRef \in 0..MaxRounds /\ 0 \in 0..MaxRounds /\ 0 <= moneyRef
  BY <1>h, RoundsAreCounted DEF IInv, HandlersAgree, TypeOK, Deliveries
<1>p. /\ ref # 0 \/ handler[w].pc \notin {"reserve", "call", "commit"}
      /\ handler[w].pc \in {"call", "commit"} => hold[ref] # "none"
  BY DEF IInv, HandlersAgree
<1> HIDE DEF seen, ref
<1>1. CASE Load(w)
  <2>1. Moved(w, "claim", moneyRef, ref)
    BY <1>1, <1>h, <1>t, MovesTo, PlacesAre DEF Load, ref
  <2> QED
    BY <1>1, <2>1, <1>t, QuietMove DEF Load, Row, Money
<1>2. CASE Check(w)
  <2>1. \/ Moved(w, "requeue", seen, ref) \/ Moved(w, "ensure", seen, ref)
        \/ Moved(w, "refund", seen, seen)
    BY <1>2, <1>h, <1>t, Moves, PlacesAre, Writes DEF Check, seen, ref
  <2> QED
    BY <1>2, <2>1, <1>t, QuietMove DEF Check, Row, Money
<1>3. CASE EnsureSame(w)
  <2>1. CASE hold[seen] = "open"
    <3>1. Moved(w, "call", seen, seen)
      BY <1>3, <2>1, <1>h, <1>t, MovesTo, PlacesAre DEF EnsureSame, seen, ref
    <3> QED
      BY <1>3, <2>1, <3>1, <1>t, QuietMove DEF EnsureSame, Row, Money, seen
  <2>2. CASE hold[seen] = "none"
    <3>1. Moved(w, "reserve", seen, seen)
      BY <1>3, <2>2, <1>h, <1>t, MovesTo, PlacesAre DEF EnsureSame, seen, ref
    <3> QED
      BY <1>3, <2>2, <3>1, <1>t, QuietMove DEF EnsureSame, Row, Money, seen
  <2>3. CASE hold[seen] \notin {"open", "none"}
    <3>1. Moved(w, "close", seen, seen)
      BY <1>3, <2>3, <1>h, <1>t, MovesTo, PlacesAre DEF EnsureSame, seen, ref
    <3> QED
      BY <1>3, <3>1, <1>t, QuietMove DEF EnsureSame, Row, Money
  <2> QED
    BY <2>1, <2>2, <2>3
<1>4. CASE Call(w)
  <2>1. \/ Moved(w, "commit", seen, ref) \/ Moved(w, "requeue", seen, ref)
        \/ Moved(w, "refund", seen, ref)
    BY <1>4, <1>h, <1>t, Moves, PlacesAre, Writes DEF Call, seen, ref
  <2>2. ref # 0 /\ hold[ref] # "none"
    BY <1>4, <1>p DEF Call, At
  <2> QED
    BY <1>4, <2>1, <2>2, <1>t, QuietMove DEF Call, Row, Money
<1>5. CASE Stops(w)
  <2>1. Moved(w, "idle", 0, 0)
    BY <1>5, <1>h, Moves DEF Stops
  <2> QED
    BY <1>5, <2>1, <1>t, QuietMove DEF Stops, Row, Money
<1> QED
  BY <1>1, <1>2, <1>3, <1>4, <1>5

\* A new round is named only over the refunded one it follows.
LEMMA NamingKeeps ==
    ASSUME IInv, NEW w \in Handlers, EnsureFirst(w) \/ EnsureNew(w)
    PROVE  IInv'
<1> DEFINE seen == handler[w].seen
<1>h. handler \in [Handlers -> Deliveries]
  BY TypedDeliveries DEF IInv
<1>t. /\ seen \in 0..MaxRounds /\ seen <= moneyRef /\ moneyRef \in 0..MaxRounds
      /\ 0 \in 0..MaxRounds /\ 0 <= moneyRef
  BY <1>h, RoundsAreCounted DEF IInv, HandlersAgree, TypeOK, Deliveries
<1>1. /\ seen < MaxRounds /\ Names(w, seen, seen + 1)
      /\ \A r \in Rounds : r = seen => hold[r] = "refunded"
      /\ UNCHANGED <<status, hold, holdOld, doneBy, sweeping>>
  BY <1>t, RoundsAreCounted DEF EnsureFirst, EnsureNew, Rounds
<1> HIDE DEF seen
<1>2. CASE moneyRef # seen
  <2>1. Moved(w, "idle", 0, 0) /\ UNCHANGED <<rowOld, moneyRef>>
    BY <1>1, <1>2, <1>h, Moves DEF Names
  <2> QED
    BY <1>1, <1>t, <2>1, QuietMove
<1>3. CASE moneyRef = seen
  <2>1. /\ Moved(w, "reserve", seen, seen + 1) /\ moneyRef' = seen + 1 /\ rowOld' = FALSE
        /\ seen + 1 \in 0..MaxRounds
    <3>1. seen + 1 \in 0..MaxRounds /\ "reserve" \in Places
      BY <1>1, <1>t, PlacesAre, RoundsAreCounted
    <3> QED
      BY <1>1, <1>3, <1>h, <3>1, MovesTo DEF Names, seen
  <2>2. HandlersAgree'
    BY <1>1, <1>3, <1>t, <2>1, MoveAgrees
  <2>3. TypeOK'
    BY <1>1, <2>1 DEF IInv, TypeOK, Moved, Deliveries, Nexts
  <2>4. RoundsInOrder' /\ ChargeAgrees'
    BY <1>1, <1>3, <1>t, <2>1 DEF IInv, RoundsInOrder, ChargeAgrees, Rounds
  <2> QED
    BY <2>2, <2>3, <2>4 DEF IInv
<1> QED
  BY <1>2, <1>3

\* The steps of a delivery that change the hold or the row.
LEMMA WritingKeeps ==
    ASSUME IInv, NEW w \in Handlers,
           Claim(w) \/ Reserve(w) \/ Commit(w) \/ Refund(w) \/ WriteRow(w)
    PROVE  IInv'
<1> DEFINE seen == handler[w].seen
           ref == handler[w].ref
           pc == handler[w].pc
<1>h. handler \in [Handlers -> Deliveries]
  BY TypedDeliveries DEF IInv
<1>t. /\ seen \in 0..MaxRounds /\ ref \in 0..MaxRounds
      /\ seen <= moneyRef /\ ref <= moneyRef
      /\ moneyRef \in 0..MaxRounds /\ 0 \in 0..MaxRounds /\ 0 <= moneyRef
      /\ moneyRef <= moneyRef
  BY <1>h, RoundsAreCounted DEF IInv, HandlersAgree, TypeOK, Deliveries
<1>p. /\ ref # 0 \/ pc \notin {"reserve", "call", "commit"}
      /\ pc \in {"call", "commit"} => hold[ref] # "none"
  BY DEF IInv, HandlersAgree
<1>i. TypeOK /\ RoundsInOrder /\ HandlersAgree /\ ChargeAgrees
  BY DEF IInv
<1> HIDE DEF seen, ref, pc
<1>1. CASE Claim(w)
  <2>1. /\ Moved(w, "check", seen, ref) \/ Moved(w, "idle", 0, 0)
        /\ UNCHANGED <<moneyRef, hold, holdOld, doneBy, sweeping>>
    BY <1>1, <1>h, Moves, PlacesAre DEF Claim, Money, seen, ref
  <2>2. /\ status' \in Statuses /\ rowOld' \in BOOLEAN
        /\ status = "DONE" => status' = "DONE"
    BY <1>1, <1>i DEF Claim, Row, TypeOK, Statuses
  <2>3. HandlersAgree'
    BY <1>t, <2>1, MoveAgrees
  <2>4. TypeOK'
    BY <1>i, <2>1, <2>2 DEF TypeOK, Moved, Deliveries, Nexts
  <2>5. RoundsInOrder' /\ ChargeAgrees'
    BY <1>i, <2>1, <2>2 DEF RoundsInOrder, ChargeAgrees
  <2> QED
    BY <2>3, <2>4, <2>5 DEF IInv
<1>2. CASE Reserve(w)
  <2>1. ref \in Rounds /\ pc = "reserve"
    BY <1>2, <1>p, <1>t DEF Reserve, At, pc, Rounds
  <2>2. /\ \/ Moved(w, "call", seen, ref) /\ hold'[ref] # "none"
           \/ Moved(w, "park", seen, ref)
        /\ \/ hold' = hold
           \/ hold[ref] = "none" /\ hold' = [hold EXCEPT ![ref] = "open"]
        /\ UNCHANGED <<status, rowOld, moneyRef, holdOld, doneBy, sweeping>>
    BY <1>2, <1>h, <1>i, <2>1, Moves, PlacesAre DEF Reserve, Row, TypeOK, seen, ref
  <2>3. hold' \in [Rounds -> {"none", "open", "settled", "refunded"}]
    BY <1>i, <2>2 DEF TypeOK
  <2>n. hold[ref] = "none" => ref = moneyRef
    BY <1>i, <1>t, <2>1 DEF RoundsInOrder, Rounds
  <2>4. /\ \A r \in Rounds : hold[r] # "none" => hold'[r] = hold[r]
        /\ \A r \in Rounds : hold'[r] # hold[r] => hold'[r] = "open" /\ r = moneyRef
    BY <1>i, <2>1, <2>2, <2>n DEF TypeOK
  <2>5. HandlersAgree'
    <3>0. /\ ref # 0 /\ moneyRef' = moneyRef
          /\ \A r \in Rounds : hold[r] # "none" => hold'[r] # "none"
      BY <2>1, <2>2, <2>4 DEF Rounds
    <3>1. CASE Moved(w, "call", seen, ref) /\ hold'[ref] # "none"
      BY <1>t, <3>0, <3>1, MoveAgrees
    <3>2. CASE Moved(w, "park", seen, ref)
      BY <1>t, <3>0, <3>2, MoveAgrees
    <3> QED
      BY <2>2, <3>1, <3>2
  <2>6. TypeOK'
    BY <1>i, <2>2, <2>3 DEF TypeOK, Moved, Deliveries, Nexts
  <2>7. RoundsInOrder'
    BY <1>i, <1>t, <2>2, <2>4 DEF RoundsInOrder, Rounds
  <2>8. ASSUME NEW r \in Rounds PROVE hold'[r] = "settled" <=> doneBy' = r
    BY <1>i, <2>2, <2>4 DEF ChargeAgrees
  <2>9. ChargeAgrees'
    BY <1>i, <2>2, <2>8 DEF ChargeAgrees
  <2> QED
    BY <2>5, <2>6, <2>7, <2>9 DEF IInv
<1>3. CASE Commit(w)
  <2>1. ref \in Rounds /\ pc = "commit" /\ hold[ref] # "none"
    BY <1>3, <1>p, <1>t DEF Commit, At, pc, Rounds
  <2>2. CASE UNCHANGED <<hold, status, doneBy>>
    <3>1. /\ Moved(w, "requeue", seen, ref) \/ Moved(w, "idle", 0, 0)
          /\ UNCHANGED <<rowOld, moneyRef, holdOld, sweeping>>
      BY <1>3, <1>h, Moves, PlacesAre DEF Commit, seen, ref
    <3> QED
      BY <2>2, <3>1, <1>t, QuietMove
  <2>3. CASE hold[ref] # "refunded" /\ status = "RUNNING"
    <3>1. /\ hold' = [hold EXCEPT ![ref] = "settled"]
          /\ status' = "DONE" /\ doneBy' = ref
          /\ Moved(w, "idle", 0, 0)
          /\ UNCHANGED <<rowOld, moneyRef, holdOld, sweeping>>
      BY <1>3, <2>3, <1>h, Moves DEF Commit, ref
    <3>2. doneBy = 0 /\ hold[ref] = "open" /\ ref = moneyRef
      BY <1>i, <1>t, <2>1, <2>3 DEF TypeOK, RoundsInOrder, ChargeAgrees, Rounds
    <3>3. \A r \in Rounds : hold[r] # "none" => hold'[r] # "none"
      BY <1>i, <3>1 DEF TypeOK
    <3>4. HandlersAgree'
      BY <1>t, <3>1, <3>3, MoveAgrees
    <3>5. TypeOK'
      BY <1>i, <1>t, <3>1 DEF TypeOK, Moved, Deliveries, Nexts, Statuses
    <3>6. RoundsInOrder' /\ ChargeAgrees'
      BY <1>i, <1>t, <2>1, <3>1, <3>2 DEF TypeOK, RoundsInOrder, ChargeAgrees, Rounds
    <3> QED
      BY <3>4, <3>5, <3>6 DEF IInv
  <2> QED
    BY <1>3, <2>2, <2>3 DEF Commit, ref
<1>4. CASE Refund(w)
  <2>1. handler[w].next \in Nexts
    BY <1>h DEF Deliveries
  <2>2. /\ handler[w].next \in Places
        /\ handler[w].next \notin {"reserve", "call", "commit"}
    BY <2>1, PlacesAre, Writes DEF Nexts
  <2>3. Moved(w, handler[w].next, seen, ref)
    BY <1>4, <1>h, <2>2, Moves DEF Refund, Goes, seen, ref
  <2>4. /\ hold' \in [Rounds -> {"none", "open", "settled", "refunded"}]
        /\ \A r \in Rounds : \/ hold'[r] = hold[r]
                             \/ r = ref /\ hold[r] = "open" /\ hold'[r] = "refunded"
        /\ UNCHANGED <<status, rowOld, moneyRef, holdOld, doneBy, sweeping>>
    BY <1>4, <1>i DEF Refund, TypeOK, Row, ref
  <2>5. HandlersAgree'
    BY <1>t, <2>2, <2>3, <2>4, MoveAgrees
  <2>6. TypeOK'
    BY <1>i, <2>3, <2>4 DEF TypeOK, Moved, Deliveries, Nexts
  <2>7. RoundsInOrder' /\ ChargeAgrees'
    BY <1>i, <2>4 DEF RoundsInOrder, ChargeAgrees
  <2> QED
    BY <2>5, <2>6, <2>7 DEF IInv
<1>5. CASE WriteRow(w)
  <2>1. Moved(w, "idle", 0, 0) /\ UNCHANGED <<rowOld, moneyRef, hold, holdOld, doneBy, sweeping>>
    BY <1>5, <1>h, Moves DEF WriteRow, Money
  <2>2. status' \in Statuses /\ (status = "DONE" => status' = "DONE")
    BY <1>5, <1>i, Writes DEF WriteRow, TypeOK
  <2>3. HandlersAgree'
    BY <1>t, <2>1, MoveAgrees
  <2>4. TypeOK'
    BY <1>i, <2>1, <2>2 DEF TypeOK, Moved, Deliveries, Nexts
  <2>5. RoundsInOrder' /\ ChargeAgrees'
    BY <1>i, <2>1, <2>2 DEF RoundsInOrder, ChargeAgrees
  <2> QED
    BY <2>3, <2>4, <2>5 DEF IInv
<1> QED
  BY <1>1, <1>2, <1>3, <1>4, <1>5

\* The scanner, the sweeps and the passing of time.
LEMMA SweepingKeeps ==
    ASSUME IInv,
           \/ \E r \in Rounds : HoldAges(r) \/ SweepHold(r)
           \/ Wake \/ RowAges \/ ReapRow \/ SweepRow \/ SweepStops \/ UNCHANGED vars
    PROVE  IInv'
<1> USE DEF IInv, TypeOK, RoundsInOrder, HandlersAgree, ChargeAgrees, Rounds, Statuses,
            Row, Money
<1>1. ASSUME NEW r \in Rounds, HoldAges(r) PROVE IInv'
  BY <1>1 DEF HoldAges
<1>2. ASSUME NEW r \in Rounds, SweepHold(r) PROVE IInv'
  BY <1>2 DEF SweepHold
<1>3. CASE Wake \/ RowAges \/ ReapRow
  BY <1>3 DEF Wake, RowAges, ReapRow
<1>4. CASE SweepRow \/ SweepStops
  <2>1. status' \in Statuses /\ (status = "DONE" => status' = "DONE")
    BY <1>4, RoundsAreCounted DEF SweepRow, SweepStops
  <2>2. sweeping' \in 0..MaxRounds /\ UNCHANGED <<rowOld, Money, handler>>
    BY <1>4, RoundsAreCounted DEF SweepRow, SweepStops
  <2> QED
    BY <2>1, <2>2
<1>5. CASE UNCHANGED vars
  BY <1>5 DEF vars
<1> QED
  BY <1>1, <1>2, <1>3, <1>4, <1>5

-----------------------------------------------------------------------------
\* The inductive invariant.
THEOREM RoundsAgree == Spec => []IInv
<1>1. IInv /\ [Next]_vars => IInv'
  BY QuietKeeps, NamingKeeps, WritingKeeps, SweepingKeeps DEF Next, Handling
<1> QED
  BY InitEstablishes, <1>1, PTL DEF Spec

-----------------------------------------------------------------------------
\* The state stays well typed.
THEOREM TypeCorrect == Spec => []TypeOK
<1>1. IInv => TypeOK
  BY DEF IInv
<1> QED
  BY RoundsAgree, <1>1, PTL

\* However many deliveries, rounds and sweeps meet on a row, at most one of its
\* rounds holds credits, and at most one is ever charged.
THEOREM OneRoundAtATime == Spec => []OneRound
<1>1. IInv => OneRound
  <2> SUFFICES ASSUME IInv PROVE OneRound
    OBVIOUS
  <2> USE DEF IInv, TypeOK, RoundsInOrder, ChargeAgrees, Rounds
  <2> DEFINE Open == {r \in Rounds : hold[r] = "open"}
  <2>1. Open \subseteq {moneyRef}
    BY RoundsAreCounted
  <2>2. IsFiniteSet({moneyRef}) /\ Cardinality({moneyRef}) = 1
    BY FS_Singleton
  <2>3. Cardinality(Open) <= 1
    BY <2>1, <2>2, FS_Subset
  <2>4. ASSUME NEW r \in Rounds, hold[r] = "settled"
        PROVE  status = "DONE" /\ \A q \in Rounds \ {r} : hold[q] \in {"none", "refunded"}
    BY <2>4, RoundsAreCounted
  <2> QED
    BY <2>3, <2>4 DEF OneRound
<1> QED
  BY RoundsAgree, <1>1, PTL

\* Every round is a piece of paid work: its hold is settled in the step that
\* makes what was read the merchant's, and refunded only without it.
THEOREM RoundsKeepThePromise == Spec => KeepsThePromise
<1>1. Init => \A r \in Rounds : Work(r)!Init
  BY RoundsAreCounted DEF Init, Rounds, Work!Init
<1>2. IInv /\ [Next]_vars => \A r \in Rounds : [Work(r)!Next]_<<hold[r], doneBy = r>>
  <2> SUFFICES ASSUME IInv, [Next]_vars, NEW r \in Rounds
               PROVE  [Work(r)!Next]_<<hold[r], doneBy = r>>
    OBVIOUS
  <2> USE DEF IInv, TypeOK, RoundsInOrder, HandlersAgree, ChargeAgrees, Rounds
  <2>1. ASSUME UNCHANGED <<hold, doneBy>> PROVE [Work(r)!Next]_<<hold[r], doneBy = r>>
    BY <2>1
  <2>2. ASSUME NEW w \in Handlers, Load(w) \/ Handling(w) \/ Stops(w)
        PROVE  [Work(r)!Next]_<<hold[r], doneBy = r>>
    <3>1. handler[w].ref <= moneyRef /\ handler[w].ref \in 0..MaxRounds
      BY TypedDeliveries DEF IInv, Deliveries, HandlersAgree
    <3> HIDE DEF HandlersAgree
    <3>2. CASE Reserve(w)
      BY <3>2 DEF Reserve, Work!Next, Work!Accept
    <3>3. CASE Refund(w)
      BY <3>3 DEF Refund, Work!Next, Work!GiveBack
    <3>4. CASE Commit(w)
      <4>1. handler[w].ref # 0 /\ hold[handler[w].ref] # "none"
        BY <3>4 DEF Commit, At, HandlersAgree
      <4>2. \/ UNCHANGED <<hold, doneBy>>
            \/ /\ hold[handler[w].ref] = "open" /\ doneBy = 0
               /\ hold' = [hold EXCEPT ![handler[w].ref] = "settled"]
               /\ doneBy' = handler[w].ref
        BY <3>1, <3>4, <4>1 DEF Commit
      <4>3. CASE r = handler[w].ref
        BY <2>1, <4>1, <4>2, <4>3 DEF Work!Next, Work!Deliver
      <4>4. CASE r # handler[w].ref
        <5>1. hold'[r] = hold[r]
          BY <4>2, <4>4
        <5>2. doneBy' = r <=> doneBy = r
          BY <4>2, <4>4
        <5> QED
          BY <5>1, <5>2
      <4> QED
        BY <4>3, <4>4
    <3> QED
      BY <2>1, <2>2, <3>2, <3>3, <3>4
      DEF Handling, Load, Claim, Check, EnsureFirst, EnsureNew, EnsureSame, Call, WriteRow,
          Stops, Money
  <2>3. ASSUME NEW q \in Rounds, HoldAges(q) \/ SweepHold(q)
        PROVE  [Work(r)!Next]_<<hold[r], doneBy = r>>
    BY <2>3 DEF HoldAges, SweepHold, Work!Next, Work!GiveBack
  <2>4. CASE Wake \/ RowAges \/ ReapRow \/ SweepRow \/ SweepStops \/ UNCHANGED vars
    BY <2>1, <2>4 DEF Wake, RowAges, ReapRow, SweepRow, SweepStops, vars, Money
  <2> QED
    BY <2>2, <2>3, <2>4 DEF Next
<1> QED
  BY RoundsAgree, <1>1, <1>2, PTL DEF Spec, KeepsThePromise
=============================================================================
