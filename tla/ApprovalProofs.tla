--------------------------- MODULE ApprovalProofs ---------------------------
(***************************************************************************)
(* Approval, for any number of clicks, attempts and faults: type           *)
(* correctness, the consent that is spent once, and what a merchant who is *)
(* told that nothing was charged finds on the ledger.                      *)
(***************************************************************************)
EXTENDS Approval, TLAPS

\* From the claim of the card on, a click is the run of the card.
RunPlaces == {"tool", "model", "settle", "refund", "degrade", "dead", "finish"}
Runs(r) == req[r].pc \in RunPlaces

NothingSettled == \A n \in Attempts : hold[n] # "settled"

\* There is one run, and none before the card says yes.
OneRun ==
    /\ \A r, s \in Requests : Runs(r) /\ Runs(s) => r = s
    /\ card = "pending" => \A r \in Requests : ~Runs(r)
    /\ \A r \in Requests : Runs(r) => card \in {"approved", "failed"}

\* The tool runs as that run's first step.
ToolAgrees ==
    /\ tool <= 1
    /\ tool = 1 => card \in {"approved", "failed"}
    /\ \A r \in Requests : At(r, "tool") => tool = 0
    /\ card = "pending" => tool = 0 /\ ~toolHeld

\* Nothing is settled until the run that settles is on its way out, and only
\* its own hold.
ChargeAgrees ==
    /\ card = "pending" => NothingSettled
    /\ \A r \in Requests : req[r].pc \in {"tool", "model", "settle", "refund", "dead"} => NothingSettled
    /\ \A r \in Requests : Runs(r) =>
          \A n \in Attempts : hold[n] = "settled" => n = req[r].n
    /\ \A r \in Requests : At(r, "settle") => req[r].end \in {"finish", "degrade"}
    /\ \A r \in Requests : At(r, "refund") => req[r].end \in {"dead", "degrade"}

\* What the merchant was told is said by a run that is over.
FreeAgrees ==
    verdict = "zero" \/ saidFree =>
        /\ card # "pending" /\ ~toolHeld /\ NothingSettled
        /\ \A r \in Requests : ~Runs(r)

IInv == TypeOK /\ OneRun /\ ToolAgrees /\ ChargeAgrees /\ FreeAgrees

Clicks == [pc : Places, n : 0..MaxAttempts, end : {"none", "finish", "degrade", "dead"}]

\* The step takes click r to pc, at attempt n, to end as said.
Moved(r, pc, n, end) ==
    /\ req' \in [Requests -> Clicks]
    /\ \A s \in Requests \ {r} : req'[s] = req[s]
    /\ req'[r].pc = pc /\ req'[r].n = n /\ req'[r].end = end

-----------------------------------------------------------------------------
\* Types.

LEMMA TypedClicks ==
    TypeOK =>
    /\ req \in [Requests -> Clicks]
    /\ \A r \in Requests :
          /\ req[r].pc \in Places /\ req[r].n \in 0..MaxAttempts
          /\ req[r].end \in {"none", "finish", "degrade", "dead"}
<1>1. TypeOK => req \in [Requests -> Clicks]
  BY DEF TypeOK, Clicks
<1> QED
  BY <1>1 DEF Clicks

LEMMA Moves ==
    ASSUME req \in [Requests -> Clicks], NEW r \in Requests
    PROVE  /\ Leaves(r) => Moved(r, "idle", 0, "none")
           /\ \A pc \in Places : Goes(r, pc) => Moved(r, pc, req[r].n, req[r].end)
           /\ \A pc \in Places, end \in {"finish", "degrade", "dead"} :
                 Ends(r, pc, end) => Moved(r, pc, req[r].n, end)
           /\ \A n \in Attempts :
                 req' = [req EXCEPT ![r].pc = "reserve", ![r].n = n]
                     => Moved(r, "reserve", n, req[r].end)
<1>0. 0 \in 0..MaxAttempts /\ Attempts \subseteq 0..MaxAttempts
  BY ShapeAssumption DEF Attempts
<1>1. Idle \in Clicks
  BY <1>0 DEF Idle, Clicks, Places
<1>2. Leaves(r) => Moved(r, "idle", 0, "none")
  BY <1>1 DEF Leaves, Moved, Idle
<1>3. ASSUME NEW pc \in Places, Goes(r, pc) PROVE Moved(r, pc, req[r].n, req[r].end)
  BY <1>3 DEF Goes, Moved, Clicks
<1>4. ASSUME NEW pc \in Places, NEW end \in {"finish", "degrade", "dead"}, Ends(r, pc, end)
      PROVE  Moved(r, pc, req[r].n, end)
  BY <1>4 DEF Ends, Moved, Clicks
<1>5. "reserve" \in Places
  BY DEF Places
<1>6. ASSUME NEW n \in Attempts, req' = [req EXCEPT ![r].pc = "reserve", ![r].n = n]
      PROVE  Moved(r, "reserve", n, req[r].end)
  BY <1>0, <1>5, <1>6 DEF Moved, Clicks
<1> QED
  BY <1>2, <1>3, <1>4, <1>6

LEMMA Counted ==
    ASSUME TypeOK
    PROVE  /\ \A f \in {"crash", "blip", "slow", "click"} :
                 Count(f) => used' \in [FaultKinds \cup {"click"} -> Nat]
           /\ \A f \in {"crash", "blip", "slow"} :
                 Fault(f) => used' \in [FaultKinds \cup {"click"} -> Nat]
  BY DEF TypeOK, Count, Fault, FaultKinds

Holds == {"none", "open", "stale", "settled", "refunded", "reaped"}

\* A finalizer closes an open hold and nothing else.
LEMMA Finalizes ==
    ASSUME TypeOK, NEW n \in 0..MaxAttempts, NEW as \in {"settled", "refunded", "reaped"},
           Finalize(n, as)
    PROVE  /\ hold' \in [Attempts -> Holds]
           /\ \A m \in Attempts : hold'[m] = "settled" => hold[m] = "settled" \/ (m = n /\ as = "settled")
  BY DEF Finalize, TypeOK, Open, Holds

LEMMA InitEstablishes == Init => IInv
<1> SUFFICES ASSUME Init PROVE IInv
  OBVIOUS
<1>1. Idle \in Clicks
  BY ShapeAssumption DEF Idle, Clicks, Places
<1>2. req \in [Requests -> Clicks]
  BY <1>1 DEF Init
<1>3. hold \in [Attempts -> Holds] /\ mark \in Attempts /\ tool \in Nat
  BY ShapeAssumption DEF Init, Holds, Attempts
<1>4. toolHeld \in BOOLEAN /\ saidFree \in BOOLEAN /\ talked \in BOOLEAN
  BY DEF Init
<1>5. used \in [FaultKinds \cup {"click"} -> Nat]
  BY DEF Init
<1>6. sweep \in [pc : {"idle", "holds", "retire", "cards", "card"}, todo : SUBSET Attempts]
  BY DEF Init, NoSweep
<1>7. TypeOK
  BY <1>2, <1>3, <1>4, <1>5, <1>6 DEF Init, TypeOK, Clicks, Holds
<1>8. OneRun /\ ToolAgrees /\ ChargeAgrees /\ FreeAgrees
  BY DEF Init, OneRun, ToolAgrees, ChargeAgrees, FreeAgrees, Runs, RunPlaces, At, Idle,
         NothingSettled
<1> QED
  BY <1>7, <1>8 DEF IInv

-----------------------------------------------------------------------------
\* The steps before and beside the run: no run begins, and nothing a run
\* relies on changes.
LEMMA AsideKeeps ==
    ASSUME IInv, NEW r \in Requests, NEW pc \in Places, NEW n \in 0..MaxAttempts, NEW end,
           ~Runs(r), pc \notin RunPlaces, Moved(r, pc, n, end),
           card' = card \/ (card = "pending" /\ card' \in {"approved", "expired"}),
           hold' \in [Attempts -> Holds],
           \A m \in Attempts : hold'[m] = "settled" => hold[m] = "settled",
           UNCHANGED <<verdict, tool, toolHeld, saidFree>>
    PROVE  OneRun' /\ ToolAgrees' /\ ChargeAgrees' /\ FreeAgrees'
<1>1. /\ ~Runs(r)' /\ ~At(r, "tool")'
      /\ \A s \in Requests : Runs(s)' => Runs(s) /\ s # r
      /\ \A s \in Requests \ {r} : req'[s] = req[s]
      /\ req'[r].pc \notin RunPlaces
  BY DEF Moved, Runs, RunPlaces, At
<1>2. OneRun'
  BY <1>1 DEF IInv, OneRun
<1>3. ToolAgrees'
  BY <1>1 DEF IInv, ToolAgrees, At, RunPlaces
<1>4. ChargeAgrees'
  BY <1>1 DEF IInv, ChargeAgrees, At, RunPlaces, Runs, NothingSettled
<1>5. FreeAgrees'
  BY <1>1 DEF IInv, FreeAgrees, NothingSettled
<1> QED
  BY <1>2, <1>3, <1>4, <1>5

LEMMA BeforeKeeps ==
    ASSUME IInv, NEW r \in Requests,
           Click(r) \/ Choose(r) \/ Reserve(r) \/ Lose(r) \/ Retry(r)
    PROVE  IInv'
<1> DEFINE n == req[r].n
           end == req[r].end
<1>i. TypeOK
  BY DEF IInv
<1>t. /\ req \in [Requests -> Clicks] /\ n \in 0..MaxAttempts /\ 0 \in 0..MaxAttempts
      /\ Attempts \subseteq 0..MaxAttempts
  BY <1>i, TypedClicks, ShapeAssumption DEF Attempts
<1>p. /\ "choose" \in Places /\ "reserve" \in Places /\ "claim" \in Places
      /\ "retry" \in Places /\ "idle" \in Places
  BY DEF Places
<1>h. hold \in [Attempts -> Holds]
  BY <1>i DEF TypeOK, Holds
<1>r. ~Runs(r)
  BY DEF Click, Choose, Reserve, Lose, Retry, At, Runs, RunPlaces
<1> HIDE DEF n, end
<1>1. CASE Click(r)
  <2>1. Moved(r, "choose", n, end)
    BY <1>1, <1>t, <1>p, Moves DEF Click, n, end
  <2>2. UNCHANGED <<paper, hold, acts, thread, sweep>>
    BY <1>1 DEF Click
  <2>3. TypeOK'
    BY <1>1, <1>i, <2>1, <2>2, Counted DEF Click, TypeOK, Moved, Clicks, paper, acts, thread
  <2> QED
    BY <1>t, <1>p, <1>h, <1>r, <2>1, <2>2, <2>3, AsideKeeps
    DEF IInv, paper, acts, thread, RunPlaces
<1>2. CASE Choose(r)
  <2>0. mark..MaxAttempts \subseteq Attempts
    BY <1>i, ShapeAssumption DEF TypeOK, Attempts
  <2>1. /\ \/ \E k \in Attempts : Moved(r, "reserve", k, end)
           \/ Moved(r, "idle", 0, "none")
        /\ card' = card \/ (card = "pending" /\ card' = "expired")
    <3>1. CASE Leaves(r) /\ card' = IF card = "pending" THEN "expired" ELSE card
      BY <1>t, <3>1, Moves
    <3>2. ASSUME NEW k \in Attempts, card' = card,
                 req' = [req EXCEPT ![r].pc = "reserve", ![r].n = k]
          PROVE  Moved(r, "reserve", k, end)
      BY <1>t, <3>2, Moves DEF end
    <3> QED
      BY <1>2, <2>0, <3>1, <3>2 DEF Choose
  <2>2. UNCHANGED <<mark, approved, verdict, hold, acts, thread, sweep>>
    BY <1>2 DEF Choose
  <2>3. used' \in [FaultKinds \cup {"click"} -> Nat]
    BY <1>2, <1>i, Counted DEF Choose, TypeOK
  <2>4. TypeOK'
    BY <1>i, <2>1, <2>2, <2>3 DEF TypeOK, Moved, Clicks, acts, thread
  <2> QED
    BY <1>t, <1>p, <1>h, <1>r, <2>1, <2>2, <2>4, AsideKeeps
    DEF IInv, acts, thread, RunPlaces
<1>3. CASE Reserve(r)
  <2>1. Moved(r, "claim", n, end) \/ Moved(r, "idle", 0, "none")
    BY <1>3, <1>t, <1>p, Moves DEF Reserve, n, end
  <2>2. /\ hold' \in [Attempts -> Holds]
        /\ \A m \in Attempts : hold'[m] = "settled" => hold[m] = "settled"
    BY <1>3, <1>h DEF Reserve, Holds
  <2>3. UNCHANGED <<paper, acts, told, saidFree, sweep, used>> /\ talked' \in BOOLEAN
    BY <1>3, <1>i DEF Reserve, Noted, TypeOK
  <2>4. TypeOK'
    BY <1>i, <2>1, <2>2, <2>3 DEF TypeOK, Moved, Clicks, Holds, paper, acts
  <2> QED
    BY <1>t, <1>p, <1>r, <2>1, <2>2, <2>3, <2>4, AsideKeeps
    DEF IInv, paper, acts, thread, RunPlaces
<1>4. CASE Lose(r)
  <2>1. Moved(r, "retry", n, end)
    BY <1>4, <1>t, <1>p, Moves DEF Lose, n, end
  <2>2. /\ hold' \in [Attempts -> Holds]
        /\ \A m \in Attempts : hold'[m] = "settled" => hold[m] = "settled"
    BY <1>4, <1>i, <1>t, Finalizes DEF Lose, n
  <2>3. UNCHANGED <<paper, acts, thread, sweep, used>>
    BY <1>4 DEF Lose
  <2>4. TypeOK'
    BY <1>i, <2>1, <2>2, <2>3 DEF TypeOK, Moved, Clicks, Holds, paper, acts, thread
  <2> QED
    BY <1>t, <1>p, <1>r, <2>1, <2>2, <2>3, <2>4, AsideKeeps
    DEF IInv, paper, acts, thread, RunPlaces
<1>5. CASE Retry(r)
  <2>1. Moved(r, "idle", 0, "none")
    BY <1>5, <1>t, Moves DEF Retry
  <2>2. mark' \in Attempts
    <3>1. mark \in Attempts /\ (n < MaxAttempts => n + 1 \in Attempts)
      BY <1>i, <1>t, ShapeAssumption DEF TypeOK, Attempts
    <3> QED
      BY <1>5, <3>1 DEF Retry, n
  <2>3. UNCHANGED <<card, approved, verdict, hold, acts, thread, sweep>>
    BY <1>5 DEF Retry
  <2>4. used' \in [FaultKinds \cup {"click"} -> Nat]
    BY <1>5, <1>i, Counted DEF Retry, TypeOK
  <2>5. TypeOK'
    BY <1>i, <2>1, <2>2, <2>3, <2>4 DEF TypeOK, Moved, Clicks, acts, thread
  <2> QED
    BY <1>t, <1>p, <1>h, <1>r, <2>1, <2>3, <2>5, AsideKeeps
    DEF IInv, acts, thread, RunPlaces
<1> QED
  BY <1>1, <1>2, <1>3, <1>4, <1>5

-----------------------------------------------------------------------------
\* A run that goes on, or leaves: the others are none of its business.
LEMMA RunKeeps ==
    ASSUME IInv, NEW r \in Requests, NEW pc \in Places, NEW n \in 0..MaxAttempts, NEW end,
           Runs(r), Moved(r, pc, n, end), pc \in RunPlaces \/ pc = "idle",
           pc \in RunPlaces => n = req[r].n,
           pc # "tool", pc = "settle" => end \in {"finish", "degrade"},
           pc = "refund" => end \in {"dead", "degrade"},
           card' \in {card, "failed"},
           hold' \in [Attempts -> Holds],
           \A m \in Attempts : hold'[m] = "settled" =>
               hold[m] = "settled" \/ (m = req[r].n /\ pc \in {"finish", "degrade"}),
           pc \in {"model", "settle", "refund", "dead"} => NothingSettled,
           tool' = tool \/ (tool = 0 /\ tool' = 1),
           verdict' # "zero" /\ ~saidFree'
    PROVE  OneRun' /\ ToolAgrees' /\ ChargeAgrees' /\ FreeAgrees'
<1>1. /\ \A s \in Requests \ {r} : ~Runs(s) /\ req'[s] = req[s]
      /\ card \in {"approved", "failed"}
  BY DEF Moved, IInv, OneRun
<1>2. \A s \in Requests \ {r} : ~Runs(s)' /\ req'[s].pc \notin RunPlaces
  BY <1>1 DEF Runs
<1>3. OneRun'
  BY <1>1, <1>2 DEF IInv, OneRun
<1>4. ToolAgrees'
  <2>1. tool <= 1 /\ tool' <= 1
    BY DEF IInv, ToolAgrees, TypeOK
  <2> QED
    BY <1>1, <1>2, <2>1 DEF Moved, ToolAgrees, At, RunPlaces
<1>5. ChargeAgrees'
  <2>1. card' # "pending"
    BY <1>1
  <2>2. pc \in {"tool", "model", "settle", "refund", "dead"} => NothingSettled'
    BY DEF NothingSettled
  <2>3. ASSUME NEW m \in Attempts, hold'[m] = "settled" PROVE m = req[r].n
    BY <2>3 DEF IInv, ChargeAgrees
  <2>4. req'[r].pc = pc /\ req'[r].n = n /\ req'[r].end = end /\ (Runs(r)' => pc \in RunPlaces)
    BY DEF Moved, Runs
  <2> QED
    BY <1>2, <2>1, <2>2, <2>3, <2>4 DEF ChargeAgrees, At, RunPlaces
<1>6. FreeAgrees'
  BY DEF FreeAgrees
<1> QED
  BY <1>3, <1>4, <1>5, <1>6

LEMMA ClaimKeeps ==
    ASSUME IInv, NEW r \in Requests, Claim(r)
    PROVE  IInv'
<1> DEFINE n == req[r].n
           end == req[r].end
<1>i. TypeOK
  BY DEF IInv
<1>t. req \in [Requests -> Clicks] /\ n \in 0..MaxAttempts
  BY <1>i, TypedClicks
<1>p. "tool" \in Places /\ "lose" \in Places
  BY DEF Places
<1>h. hold \in [Attempts -> Holds]
  BY <1>i DEF TypeOK, Holds
<1>c. ~Runs(r) /\ At(r, "claim")
  BY DEF Claim, At, Runs, RunPlaces
<1> HIDE DEF n, end
<1>1. /\ \/ Moved(r, "tool", n, end) /\ card = "pending" /\ card' = "approved"
         \/ Moved(r, "lose", n, end) /\ card' \in {card, "approved"} /\ (card' # card => card = "pending")
      /\ approved' \in {"no", "recent", "old"} /\ talked' \in BOOLEAN
      /\ UNCHANGED <<mark, verdict, hold, acts, told, saidFree, sweep>>
      /\ used' \in [FaultKinds \cup {"click"} -> Nat]
  BY <1>i, <1>t, <1>p, Moves, Counted DEF Claim, TypeOK, n, end
<1>2. TypeOK'
  BY <1>i, <1>1 DEF TypeOK, Moved, Clicks, acts
<1>3. CASE Moved(r, "lose", n, end) /\ card' \in {card, "approved"} /\ (card' # card => card = "pending")
  BY <1>1, <1>2, <1>3, <1>t, <1>p, <1>h, <1>c, AsideKeeps DEF IInv, acts, RunPlaces
<1>4. CASE Moved(r, "tool", n, end) /\ card = "pending" /\ card' = "approved"
  <2>1. /\ \A s \in Requests \ {r} : ~Runs(s) /\ req'[s] = req[s]
        /\ req'[r].pc = "tool"
    BY <1>4 DEF Moved, IInv, OneRun
  <2>2. \A s \in Requests \ {r} : ~Runs(s)' /\ req'[s].pc \notin RunPlaces
    BY <2>1 DEF Runs
  <2>3. /\ UNCHANGED <<hold, tool, toolHeld, verdict, saidFree>>
        /\ tool = 0 /\ NothingSettled /\ NothingSettled' /\ ~(verdict = "zero" \/ saidFree)
    BY <1>1, <1>4 DEF acts, IInv, ToolAgrees, ChargeAgrees, FreeAgrees, NothingSettled
  <2>4. OneRun'
    BY <1>4, <2>2 DEF OneRun
  <2>5. ToolAgrees'
    BY <1>4, <2>2, <2>3 DEF ToolAgrees, At, RunPlaces
  <2>6. ChargeAgrees'
    BY <1>4, <2>1, <2>2, <2>3 DEF ChargeAgrees, At, RunPlaces, NothingSettled
  <2>7. FreeAgrees'
    BY <2>3 DEF FreeAgrees
  <2> QED
    BY <1>2, <2>4, <2>5, <2>6, <2>7 DEF IInv
<1> QED
  BY <1>1, <1>3, <1>4

-----------------------------------------------------------------------------
LEMMA RunStepsKeep ==
    ASSUME IInv, NEW r \in Requests,
           Tool(r) \/ Model(r) \/ Settle(r) \/ Refund(r) \/ Finish(r)
    PROVE  IInv'
<1> DEFINE n == req[r].n
           end == req[r].end
<1>i. TypeOK
  BY DEF IInv
<1>t. /\ req \in [Requests -> Clicks] /\ n \in 0..MaxAttempts /\ 0 \in 0..MaxAttempts
      /\ end \in {"none", "finish", "degrade", "dead"}
  BY <1>i, TypedClicks, ShapeAssumption
<1>p. {"idle", "model", "settle", "refund", "degrade", "dead", "finish"} \subseteq Places
  BY DEF Places
<1>h. hold \in [Attempts -> Holds]
  BY <1>i DEF TypeOK, Holds
<1>r. Runs(r)
  BY DEF Tool, Model, Settle, Refund, Finish, At, Runs, RunPlaces
<1>f. verdict # "zero" /\ ~saidFree
  BY <1>r DEF IInv, FreeAgrees
<1>s. req[r].pc \in {"tool", "model", "settle", "refund", "dead"} => NothingSettled
  BY DEF IInv, ChargeAgrees
<1> HIDE DEF n, end
<1>1. CASE Tool(r)
  <2>1. /\ \/ Moved(r, "model", n, end) /\ tool' = tool + 1
           \/ Moved(r, "refund", n, "dead") /\ tool' = tool
        /\ toolHeld' \in BOOLEAN
        /\ UNCHANGED <<paper, hold, thread, sweep, used>>
    BY <1>1, <1>i, <1>t, <1>p, Moves DEF Tool, acts, TypeOK, n, end
  <2>2. tool = 0 /\ NothingSettled
    BY <1>1, <1>s DEF Tool, At, IInv, ToolAgrees
  <2>3. TypeOK'
    BY <1>i, <2>1, <2>2 DEF TypeOK, Moved, Clicks, paper, thread
  <2>4. CASE Moved(r, "model", n, end) /\ tool' = tool + 1
    BY <1>t, <1>p, <1>h, <1>r, <1>f, <2>1, <2>2, <2>3, <2>4, RunKeeps
    DEF IInv, paper, thread, RunPlaces, n
  <2>5. CASE Moved(r, "refund", n, "dead") /\ tool' = tool
    BY <1>t, <1>p, <1>h, <1>r, <1>f, <2>1, <2>2, <2>3, <2>5, RunKeeps
    DEF IInv, paper, thread, RunPlaces, n
  <2> QED
    BY <2>1, <2>4, <2>5
<1>2. CASE Model(r)
  <2>1. /\ \/ \E e \in {"finish", "degrade"} : Moved(r, "settle", n, e)
           \/ \E e \in {"dead", "degrade"} : Moved(r, "refund", n, e)
        /\ UNCHANGED <<paper, hold, acts, thread, sweep, used>>
    BY <1>2, <1>t, <1>p, Moves DEF Model, n
  <2>2. NothingSettled
    BY <1>2, <1>s DEF Model, At
  <2>3. TypeOK'
    BY <1>i, <2>1 DEF TypeOK, Moved, Clicks, paper, acts, thread
  <2>4. ASSUME NEW e \in {"finish", "degrade"}, Moved(r, "settle", n, e) PROVE IInv'
    BY <1>t, <1>p, <1>h, <1>r, <1>f, <2>1, <2>2, <2>3, <2>4, RunKeeps
    DEF IInv, paper, acts, thread, RunPlaces, n
  <2>5. ASSUME NEW e \in {"dead", "degrade"}, Moved(r, "refund", n, e) PROVE IInv'
    BY <1>t, <1>p, <1>h, <1>r, <1>f, <2>1, <2>2, <2>3, <2>5, RunKeeps
    DEF IInv, paper, acts, thread, RunPlaces, n
  <2> QED
    BY <2>1, <2>4, <2>5
<1>3. CASE Settle(r)
  <2>1. end \in {"finish", "degrade"} /\ NothingSettled
    BY <1>3, <1>s DEF Settle, At, IInv, ChargeAgrees, end
  <2>2. /\ Moved(r, end, n, end)
        /\ UNCHANGED <<paper, acts, thread, sweep, used>>
    BY <1>3, <1>t, <1>p, <2>1, Moves DEF Settle, n, end
  <2>3. /\ hold' \in [Attempts -> Holds]
        /\ \A m \in Attempts : hold'[m] = "settled" => hold[m] = "settled" \/ m = n
    BY <1>3, <1>i, <1>t, Finalizes DEF Settle, n
  <2>4. TypeOK'
    BY <1>i, <2>2, <2>3 DEF TypeOK, Moved, Clicks, Holds, paper, acts, thread
  <2> QED
    BY <1>t, <1>p, <1>r, <1>f, <2>1, <2>2, <2>3, <2>4, RunKeeps
    DEF IInv, paper, acts, thread, RunPlaces, n
<1>4. CASE Refund(r)
  <2>1. end \in {"dead", "degrade"} /\ NothingSettled
    BY <1>4, <1>s DEF Refund, At, IInv, ChargeAgrees, end
  <2>2. /\ Moved(r, end, n, end)
        /\ UNCHANGED <<paper, acts, thread, sweep, used>>
    BY <1>4, <1>t, <1>p, <2>1, Moves DEF Refund, n, end
  <2>3. /\ hold' \in [Attempts -> Holds]
        /\ \A m \in Attempts : hold'[m] = "settled" => hold[m] = "settled"
    BY <1>4, <1>i, <1>t, Finalizes DEF Refund, n
  <2>4. TypeOK'
    BY <1>i, <2>2, <2>3 DEF TypeOK, Moved, Clicks, Holds, paper, acts, thread
  <2> QED
    BY <1>t, <1>p, <1>r, <1>f, <2>1, <2>2, <2>3, <2>4, RunKeeps
    DEF IInv, paper, acts, thread, RunPlaces, n
<1>5. CASE Finish(r)
  <2>1. /\ Moved(r, "idle", 0, "none") /\ told' = "reply"
        /\ UNCHANGED <<paper, hold, acts, saidFree, talked, sweep, used>>
    BY <1>5, <1>t, Moves DEF Finish
  <2>2. TypeOK'
    BY <1>i, <2>1 DEF TypeOK, Moved, Clicks, paper, acts
  <2> QED
    BY <1>t, <1>p, <1>h, <1>r, <1>f, <2>1, <2>2, RunKeeps
    DEF IInv, paper, acts, RunPlaces
<1> QED
  BY <1>1, <1>2, <1>3, <1>4, <1>5

\* The two ways out that may say that nothing was charged.
LEMMA SayingKeeps ==
    ASSUME IInv, NEW r \in Requests, Degrade(r) \/ Dead(r)
    PROVE  IInv'
<1> DEFINE n == req[r].n
<1>i. TypeOK
  BY DEF IInv
<1>t. req \in [Requests -> Clicks] /\ n \in 0..MaxAttempts
  BY <1>i, TypedClicks
<1>r. /\ Runs(r) /\ card \in {"approved", "failed"} /\ verdict # "zero" /\ ~saidFree
      /\ \A s \in Requests \ {r} : ~Runs(s)
      /\ tool \in Nat /\ tool <= 1
  <2>1. Runs(r)
    BY DEF Degrade, Dead, At, Runs, RunPlaces
  <2> QED
    BY <2>1 DEF IInv, OneRun, FreeAgrees, ToolAgrees, TypeOK
<1>m. Moved(r, "idle", 0, "none")
  BY <1>t, Moves DEF Degrade, Dead
<1>g. \A s \in Requests : ~Runs(s)' /\ req'[s].pc \notin RunPlaces
  BY <1>r, <1>m DEF Moved, Runs, RunPlaces
\* What both know of the charge.
<1>c. /\ \A m \in Attempts : hold[m] = "settled" => m = n
      /\ At(r, "dead") => NothingSettled
  BY <1>r DEF IInv, ChargeAgrees, At
<1> HIDE DEF n
<1>1. /\ saidFree' \/ verdict' = "zero" => ~toolHeld /\ NothingSettled
      /\ card' \in {card, "failed"} /\ verdict' \in {"none", "zero", "unknown"}
      /\ saidFree' \in BOOLEAN /\ told' \in {told, "note"}
      /\ UNCHANGED <<mark, approved, hold, acts, talked, sweep>>
      /\ used' \in [FaultKinds \cup {"click"} -> Nat]
  <2>1. CASE Degrade(r)
    <3>1. /\ saidFree' = TRUE => hold[n] \in {"refunded", "reaped"} /\ ~toolHeld
          /\ saidFree' \in BOOLEAN /\ told' = "note"
          /\ UNCHANGED <<paper, hold, acts, talked, sweep, used>>
      BY <2>1, <1>i, <1>r DEF Degrade, NoOtherHold, TypeOK, n
    <3> QED
      BY <3>1, <1>c, <1>i, <1>r DEF NothingSettled, TypeOK, paper
  <2>2. CASE Dead(r)
    <3>1. NothingSettled
      BY <2>2, <1>c DEF Dead
    <3>2. PICK v \in {"unknown"} \cup (IF NoOtherHold(n) THEN {"zero"} ELSE {}) :
             /\ \/ card' = "failed" /\ verdict' = v
                \/ UNCHANGED <<card, verdict>>
             /\ told' \in {told, "note"} /\ saidFree' = (saidFree \/ v = "zero")
             /\ UNCHANGED used \/ Fault("blip")
      BY <2>2 DEF Dead, n
    <3>3. UNCHANGED <<mark, approved, hold, acts, talked, sweep>>
      BY <2>2 DEF Dead
    <3>4. used' \in [FaultKinds \cup {"click"} -> Nat]
      BY <3>2, <1>i, Counted DEF TypeOK
    <3>5. v = "zero" => ~toolHeld
      BY <3>2 DEF NoOtherHold
    <3>6. saidFree' \in BOOLEAN
      BY <3>2
    <3> QED
      BY <3>1, <3>2, <3>3, <3>4, <3>5, <3>6, <1>r, <1>i DEF TypeOK
  <2> QED
    BY <2>1, <2>2
<1>2. TypeOK'
  BY <1>i, <1>m, <1>1 DEF TypeOK, Moved, Clicks, acts
<1>3. OneRun' /\ ToolAgrees'
  BY <1>g, <1>r, <1>1 DEF OneRun, ToolAgrees, At, RunPlaces, acts
<1>4. ChargeAgrees'
  BY <1>g, <1>r, <1>1 DEF ChargeAgrees, At, RunPlaces
<1>5. FreeAgrees'
  BY <1>g, <1>r, <1>1 DEF FreeAgrees, NothingSettled, acts
<1> QED
  BY <1>2, <1>3, <1>4, <1>5 DEF IInv

LEMMA DyingKeeps ==
    ASSUME IInv, NEW r \in Requests, Throws(r) \/ Dies(r)
    PROVE  IInv'
<1>i. TypeOK
  BY DEF IInv
<1>t. req \in [Requests -> Clicks] /\ 0 \in 0..MaxAttempts
  BY <1>i, TypedClicks, ShapeAssumption
<1>1. /\ Moved(r, "idle", 0, "none")
      /\ UNCHANGED <<paper, hold, acts, saidFree, sweep>>
      /\ told' \in {told, "note"} /\ talked' \in BOOLEAN
      /\ used' \in [FaultKinds \cup {"click"} -> Nat]
  BY <1>i, <1>t, Moves, Counted DEF Throws, Dies, Noted, TypeOK, thread
<1>2. TypeOK'
  BY <1>i, <1>1 DEF TypeOK, Moved, Clicks, paper, acts
<1>3. hold \in [Attempts -> Holds] /\ "idle" \in Places
  BY <1>i DEF TypeOK, Holds, Places
<1>4. CASE Runs(r)
  <2>1. verdict # "zero" /\ ~saidFree
    BY <1>4 DEF IInv, FreeAgrees
  <2> QED
    BY <1>t, <1>1, <1>2, <1>3, <1>4, <2>1, RunKeeps DEF IInv, paper, acts, RunPlaces
<1>5. CASE ~Runs(r)
  BY <1>t, <1>1, <1>2, <1>3, <1>5, AsideKeeps DEF IInv, paper, acts, RunPlaces
<1> QED
  BY <1>4, <1>5

-----------------------------------------------------------------------------
\* What happens to the card and its holds without a click: the card may be
\* decided or retired and a hold may age or go back.
LEMMA OutsideKeeps ==
    ASSUME IInv, UNCHANGED <<req, tool, toolHeld, saidFree>>,
           \/ card' = card
           \/ card = "pending" /\ card' \in {"rejected", "approved"}
           \/ card = "approved" /\ card' = "failed",
           verdict' \in {verdict, "unknown"},
           \A m \in Attempts : hold'[m] = "settled" => hold[m] = "settled"
    PROVE  OneRun' /\ ToolAgrees' /\ ChargeAgrees' /\ FreeAgrees'
<1>1. OneRun' /\ ToolAgrees'
  BY DEF IInv, OneRun, ToolAgrees, Runs, At
<1>2. ChargeAgrees'
  BY DEF IInv, ChargeAgrees, Runs, At, NothingSettled
<1>3. FreeAgrees'
  BY DEF IInv, FreeAgrees, Runs, NothingSettled
<1> QED
  BY <1>1, <1>2, <1>3

LEMMA OutsideStepsKeep ==
    ASSUME IInv, Decide \/ Talk \/ Hour \/ Sweep \/ SweepDies \/ UNCHANGED vars
    PROVE  IInv'
<1> DEFINE Sweeps == [pc : {"idle", "holds", "retire", "cards", "card"}, todo : SUBSET Attempts]
<1>i. TypeOK
  BY DEF IInv
<1>h. hold \in [Attempts -> Holds] /\ Attempts \subseteq 0..MaxAttempts /\ sweep \in Sweeps
  BY <1>i, ShapeAssumption DEF TypeOK, Holds, Attempts
<1>n. NoSweep \in Sweeps
  BY DEF NoSweep
<1> SUFFICES /\ TypeOK'
             /\ UNCHANGED <<req, tool, toolHeld, saidFree>>
             /\ \/ card' = card
                \/ card = "pending" /\ card' \in {"rejected", "approved"}
                \/ card = "approved" /\ card' = "failed"
             /\ verdict' \in {verdict, "unknown"}
             /\ \A m \in Attempts : hold'[m] = "settled" => hold[m] = "settled"
  BY OutsideKeeps DEF IInv
<1>1. CASE Decide
  BY <1>1, <1>i DEF Decide, TypeOK, acts, thread
<1>2. CASE Talk
  BY <1>2, <1>i DEF Talk, TypeOK, paper, acts
<1>3. CASE ClaimAges
  <2>1. used' \in [FaultKinds \cup {"click"} -> Nat]
    BY <1>3, <1>i, Counted DEF ClaimAges, TypeOK
  <2> QED
    BY <1>3, <1>i, <2>1 DEF ClaimAges, TypeOK, acts, thread
<1>4. ASSUME NEW n \in Attempts, HoldAges(n)
      PROVE  /\ TypeOK' /\ UNCHANGED <<req, card, verdict, tool, toolHeld, saidFree>>
             /\ \A m \in Attempts : hold'[m] = "settled" => hold[m] = "settled"
  <2>1. used' \in [FaultKinds \cup {"click"} -> Nat]
    BY <1>4, <1>i, Counted DEF HoldAges, TypeOK
  <2>2. /\ hold' \in [Attempts -> Holds]
        /\ \A m \in Attempts : hold'[m] = "settled" => hold[m] = "settled"
    BY <1>4, <1>h DEF HoldAges, Holds
  <2> QED
    BY <1>4, <1>i, <2>1, <2>2 DEF HoldAges, TypeOK, Holds, paper, acts, thread
<1>5. CASE SweepHolds
  <2>1. sweep' \in Sweeps
    BY <1>5 DEF SweepHolds
  <2> QED
    BY <1>5, <1>i, <2>1 DEF SweepHolds, TypeOK, paper, acts, thread
<1>6. CASE SweepHold
  <2>1. PICK n \in sweep.todo : /\ Finalize(n, "reaped")
                                /\ sweep' = [pc |-> IF Open(n) THEN "retire" ELSE "holds",
                                             todo |-> sweep.todo \ {n}]
    BY <1>6 DEF SweepHold
  <2>2. n \in Attempts /\ sweep' \in Sweeps
    BY <1>h, <2>1
  <2>3. /\ hold' \in [Attempts -> Holds]
        /\ \A m \in Attempts : hold'[m] = "settled" => hold[m] = "settled"
    BY <1>h, <1>i, <2>1, <2>2, Finalizes
  <2> QED
    BY <1>6, <1>i, <2>2, <2>3 DEF SweepHold, TypeOK, Holds, paper, acts, thread
<1>7. CASE SweepRetire
  <2>1. used' \in [FaultKinds \cup {"click"} -> Nat] /\ sweep' \in Sweeps
    BY <1>7, <1>h, <1>i, Counted DEF SweepRetire, TypeOK
  <2> QED
    BY <1>7, <1>i, <2>1 DEF SweepRetire, RetireCard, TypeOK, acts, thread
<1>8. CASE SweepOrphan
  <2>1. used' \in [FaultKinds \cup {"click"} -> Nat] /\ sweep' \in Sweeps
    BY <1>8, <1>h, <1>i, Counted DEF SweepOrphan, TypeOK
  <2> QED
    BY <1>8, <1>i, <2>1 DEF SweepOrphan, RetireCard, TypeOK, acts, thread
<1>12. CASE SweepThread
  <2>1. sweep' \in Sweeps
    BY <1>12, <1>h, <1>n DEF SweepThread
  <2> QED
    BY <1>12, <1>i, <2>1 DEF SweepThread, TypeOK, paper, acts, thread
<1>9. CASE SweepCard
  <2>1. used' \in [FaultKinds \cup {"click"} -> Nat] /\ sweep' \in Sweeps
    BY <1>9, <1>n, <1>i, Counted DEF SweepCard, TypeOK
  <2> QED
    BY <1>9, <1>i, <2>1 DEF SweepCard, RetireCard, TypeOK, acts, thread
<1>10. CASE SweepDies
  <2>1. used' \in [FaultKinds \cup {"click"} -> Nat]
    BY <1>10, <1>i, Counted DEF SweepDies
  <2> QED
    BY <1>10, <1>i, <1>n, <2>1 DEF SweepDies, TypeOK, paper, acts, thread
<1>11. CASE UNCHANGED vars
  BY <1>11, <1>i DEF vars, TypeOK, paper, acts, thread
<1> QED
  BY <1>1, <1>2, <1>3, <1>4, <1>5, <1>6, <1>7, <1>8, <1>9, <1>10, <1>11, <1>12 DEF Hour, Sweep

LEMMA InvStep == IInv /\ [Next]_vars => IInv'
  BY BeforeKeeps, ClaimKeeps, RunStepsKeep, SayingKeeps, DyingKeeps, OutsideStepsKeep
  DEF Next, Step

-----------------------------------------------------------------------------
\* A run that has been answered for.

\* Nobody runs once the thread has the reply, and the reaper is about to retire
\* the card only after a refund of its own.
ReplyAgrees ==
    /\ told = "reply" => card # "pending" /\ \A r \in Requests : ~Runs(r)
    /\ sweep.pc = "retire" => \E n \in Attempts : hold[n] = "reaped"

\* A run begins with the claim of a pending card, and no card is pending again.
LEMMA NothingRestarts ==
    ASSUME TypeOK, [Next]_vars, card # "pending"
    PROVE  card' # "pending" /\ \A s \in Requests : Runs(s)' => Runs(s)
<1>t. req \in [Requests -> Clicks]
  BY TypedClicks
<1>p. {"idle", "choose", "claim", "lose", "retry"} \subseteq Places
  BY DEF Places
<1>m. ASSUME NEW r \in Requests, NEW pc, NEW n, NEW end, Moved(r, pc, n, end),
             Runs(r) \/ pc \notin RunPlaces
      PROVE  \A s \in Requests : Runs(s)' => Runs(s)
  BY <1>m DEF Moved, Runs
<1>1. ASSUME NEW r \in Requests, Click(r) \/ Choose(r) \/ Claim(r) \/ Reserve(r) \/ Lose(r) \/ Retry(r) \/ Throws(r) \/ Dies(r)
      PROVE  card' # "pending" /\ \A s \in Requests : Runs(s)' => Runs(s)
  <2>1. card' # "pending"
    BY <1>1 DEF Click, Choose, Claim, Reserve, Lose, Retry, Throws, Dies, paper
  <2>2. \/ Leaves(r) \/ Goes(r, "choose") \/ Goes(r, "claim") \/ Goes(r, "lose") \/ Goes(r, "retry")
        \/ \E n \in Attempts : req' = [req EXCEPT ![r].pc = "reserve", ![r].n = n]
    <3>1. mark..MaxAttempts \subseteq Attempts
      BY ShapeAssumption DEF TypeOK, Attempts
    <3> QED
      BY <1>1, <3>1 DEF Click, Choose, Claim, Reserve, Lose, Retry, Throws, Dies
  <2>3. \E pc \in {"idle", "choose", "claim", "lose", "retry", "reserve"} :
            \E n \in 0..MaxAttempts, end \in {"none", "finish", "degrade", "dead"} : Moved(r, pc, n, end)
    <3>1. /\ 0 \in 0..MaxAttempts /\ Attempts \subseteq 0..MaxAttempts
          /\ req[r].n \in 0..MaxAttempts /\ req[r].end \in {"none", "finish", "degrade", "dead"}
      BY TypedClicks, ShapeAssumption DEF Attempts
    <3> QED
      BY <1>t, <1>p, <2>2, <3>1, Moves
  <2> QED
    BY <1>m, <2>1, <2>3 DEF RunPlaces
<1>2. ASSUME NEW r \in Requests, Tool(r) \/ Model(r) \/ Settle(r) \/ Refund(r) \/ Degrade(r) \/ Dead(r) \/ Finish(r)
      PROVE  card' # "pending" /\ \A s \in Requests : Runs(s)' => Runs(s)
  <2>1. card' # "pending"
    BY <1>2 DEF Tool, Model, Settle, Refund, Degrade, Dead, Finish, paper
  <2>2. Runs(r)
    BY <1>2 DEF Tool, Model, Settle, Refund, Degrade, Dead, Finish, At, Runs, RunPlaces
  <2>3. \A s \in Requests \ {r} : req'[s] = req[s]
    BY <1>2, <1>t DEF Tool, Model, Settle, Refund, Degrade, Dead, Finish, Goes, Ends, Leaves
  <2> QED
    BY <2>1, <2>2, <2>3 DEF Runs
<1>3. CASE Decide \/ Talk \/ Hour \/ Sweep \/ SweepDies \/ UNCHANGED vars
  <2>1. UNCHANGED req
    BY <1>3 DEF Decide, Talk, Hour, HoldAges, ClaimAges, Sweep, SweepHolds, SweepHold, SweepRetire,
                SweepOrphan, SweepThread, SweepCard, SweepDies, vars
  <2>2. card' # "pending"
    BY <1>3 DEF Decide, Talk, Hour, HoldAges, ClaimAges, Sweep, SweepHolds, SweepHold, SweepRetire,
                SweepOrphan, SweepThread, SweepCard, SweepDies, RetireCard, vars, paper
  <2> QED
    BY <2>1, <2>2 DEF Runs
<1> QED
  BY <1>1, <1>2, <1>3 DEF Next, Step

\* A refund of the reaper's is final, like every other.
LEMMA ReapedStays ==
    ASSUME TypeOK, [Next]_vars, NEW n \in Attempts, hold[n] = "reaped"
    PROVE  hold'[n] = "reaped"
<1>h. hold \in [Attempts -> Holds]
  BY DEF TypeOK, Holds
<1>f. ASSUME NEW m, NEW as, Finalize(m, as) PROVE hold'[n] = "reaped"
  BY <1>f, <1>h DEF Finalize, Open
<1>1. ASSUME NEW r \in Requests, Click(r) \/ Step(r) \/ Throws(r) \/ Dies(r) PROVE hold'[n] = "reaped"
  <2>1. CASE Reserve(r)
    BY <2>1, <1>h DEF Reserve
  <2>2. CASE Lose(r) \/ Settle(r) \/ Refund(r)
    BY <2>2, <1>f DEF Lose, Settle, Refund
  <2>3. CASE ~(Reserve(r) \/ Lose(r) \/ Settle(r) \/ Refund(r))
    BY <1>1, <2>3 DEF Click, Step, Choose, Claim, Retry, Tool, Model, Degrade, Dead, Finish, Throws, Dies
  <2> QED
    BY <2>1, <2>2, <2>3
<1>2. CASE Decide \/ Talk \/ ClaimAges \/ SweepHolds \/ SweepRetire \/ SweepOrphan \/ SweepThread \/ SweepCard
           \/ SweepDies \/ UNCHANGED vars
  BY <1>2 DEF Decide, Talk, ClaimAges, SweepHolds, SweepRetire, SweepOrphan, SweepThread, SweepCard, SweepDies, vars
<1>3. ASSUME NEW m \in Attempts, HoldAges(m) PROVE hold'[n] = "reaped"
  BY <1>3, <1>h DEF HoldAges
<1>4. CASE SweepHold
  BY <1>4, <1>f DEF SweepHold
<1> QED
  BY <1>1, <1>2, <1>3, <1>4 DEF Next, Hour, Sweep

LEMMA ReplyKeeps ==
    ASSUME IInv, ReplyAgrees, [Next]_vars
    PROVE  ReplyAgrees'
<1>i. TypeOK
  BY DEF IInv
<1>1. told' = "reply" => card' # "pending" /\ \A r \in Requests : ~Runs(r)'
  <2>1. CASE told = "reply"
    BY <1>i, <2>1, NothingRestarts DEF ReplyAgrees
  <2>2. ASSUME NEW r \in Requests, Finish(r) PROVE card' # "pending" /\ \A s \in Requests : ~Runs(s)'
    <3>1. Runs(r)
      BY <2>2 DEF Finish, At, Runs, RunPlaces
    <3>2. card \in {"approved", "failed"} /\ \A s \in Requests \ {r} : ~Runs(s)
      BY <3>1 DEF IInv, OneRun
    <3>3. Moved(r, "idle", 0, "none")
      BY <1>i, <2>2, TypedClicks, Moves DEF Finish
    <3> QED
      BY <2>2, <3>2, <3>3 DEF Finish, paper, Moved, Runs, RunPlaces
  <2>3. told' = "reply" => told = "reply" \/ \E r \in Requests : Finish(r)
    <3>1. ASSUME NEW r \in Requests, Click(r) \/ Step(r) \/ Throws(r) \/ Dies(r), ~Finish(r), told' = "reply"
          PROVE  told = "reply"
      BY <3>1 DEF Click, Step, Choose, Claim, Retry, Reserve, Lose, Settle, Refund, Tool, Model,
                  Degrade, Dead, Throws, Dies, thread
    <3>2. CASE Decide \/ Talk \/ Hour \/ Sweep \/ SweepDies \/ UNCHANGED vars
      BY <3>2 DEF Decide, Talk, Hour, HoldAges, ClaimAges, Sweep, SweepHolds, SweepHold, SweepRetire,
                  SweepOrphan, SweepThread, SweepCard, SweepDies, vars, thread
    <3> QED
      BY <3>1, <3>2 DEF Next
  <2> QED
    BY <2>1, <2>2, <2>3
<1>2. sweep'.pc = "retire" => \E n \in Attempts : hold'[n] = "reaped"
  <2>1. CASE sweep'.pc = "retire" /\ sweep.pc = "retire"
    BY <1>i, <2>1, ReapedStays DEF ReplyAgrees
  <2>2. CASE SweepHold
    <3>1. PICK n \in sweep.todo : /\ Finalize(n, "reaped")
                                  /\ sweep' = [pc |-> IF Open(n) THEN "retire" ELSE "holds",
                                               todo |-> sweep.todo \ {n}]
      BY <2>2 DEF SweepHold
    <3>2. n \in Attempts /\ hold \in [Attempts -> Holds]
      BY <1>i DEF TypeOK, Holds
    <3>3. CASE Open(n)
      <4>1. hold'[n] = "reaped"
        BY <3>1, <3>2, <3>3 DEF Finalize
      <4> QED
        BY <3>2, <4>1
    <3>4. CASE ~Open(n)
      BY <3>1, <3>4
    <3> QED
      BY <3>3, <3>4
  <2>3. sweep'.pc = "retire" => sweep.pc = "retire" \/ SweepHold
    <3>1. ASSUME NEW r \in Requests, Click(r) \/ Step(r) \/ Throws(r) \/ Dies(r) PROVE UNCHANGED sweep
      BY <3>1 DEF Click, Step, Choose, Claim, Retry, Reserve, Lose, Settle, Refund, Tool, Model,
                  Degrade, Dead, Finish, Throws, Dies
    <3>2. CASE Decide \/ Talk \/ Hour \/ UNCHANGED vars
      BY <3>2 DEF Decide, Talk, Hour, HoldAges, ClaimAges, vars
    <3>3. CASE SweepHolds \/ SweepRetire \/ SweepOrphan \/ SweepThread \/ SweepCard \/ SweepDies
      <4>1. sweep \in [pc : {"idle", "holds", "retire", "cards", "card"}, todo : SUBSET Attempts]
        BY <1>i DEF TypeOK
      <4> QED
        BY <3>3, <4>1 DEF SweepHolds, SweepRetire, SweepOrphan, SweepThread, SweepCard, SweepDies, NoSweep
    <3> QED
      BY <3>1, <3>2, <3>3 DEF Next, Sweep
  <2> QED
    BY <2>1, <2>2, <2>3
<1> QED
  BY <1>1, <1>2 DEF ReplyAgrees

\* While a run is at work its claim is recent, unless the run is slow; and what
\* the third pass saw of the thread is so until a slow run writes in it.
LookAgrees ==
    /\ approved # "no" => card # "pending"
    /\ approved = "old" /\ used["slow"] = 0 => \A r \in Requests : ~Runs(r)
    /\ sweep.pc = "card" => approved = "old" /\ (told # "nothing" => used["slow"] > 0)

\* Which steps move what the third pass looks at.
LEMMA LookMoves ==
    ASSUME TypeOK, [Next]_vars
    PROVE  /\ \/ approved' = approved
              \/ card = "pending" /\ card' = "approved" /\ approved' = "recent"
              \/ ClaimAges
           /\ told' = told \/ \E r \in Requests : Runs(r)
           /\ sweep'.pc = "card" => sweep.pc = "card" \/ SweepThread
           /\ UNCHANGED used \/ \E k \in FaultKinds \cup {"click"} : Count(k)
<1>1. ASSUME NEW r \in Requests, Click(r) \/ Step(r) \/ Throws(r) \/ Dies(r)
      PROVE  /\ \/ approved' = approved
                \/ card = "pending" /\ card' = "approved" /\ approved' = "recent"
             /\ told' = told \/ Runs(r)
             /\ UNCHANGED sweep
             /\ UNCHANGED used \/ \E k \in FaultKinds \cup {"click"} : Count(k)
  <2>1. CASE Click(r) \/ Choose(r) \/ Reserve(r) \/ Claim(r) \/ Lose(r) \/ Retry(r)
    BY <2>1 DEF Click, Choose, Reserve, Claim, Lose, Retry, Fault, FaultKinds, paper, thread
  <2>2. CASE Tool(r) \/ Model(r) \/ Settle(r) \/ Refund(r) \/ Degrade(r) \/ Dead(r) \/ Finish(r)
    BY <2>2 DEF Tool, Model, Settle, Refund, Degrade, Dead, Finish, Fault, FaultKinds, At, Runs,
                RunPlaces, paper, thread
  <2>3. CASE Throws(r) \/ Dies(r)
    BY <2>3 DEF Throws, Dies, Fault, FaultKinds, At, Runs, RunPlaces, paper, thread
  <2> QED
    BY <1>1, <2>1, <2>2, <2>3 DEF Step
<1>2. CASE Decide \/ Talk \/ Hour \/ UNCHANGED vars
  BY <1>2 DEF Decide, Talk, Hour, HoldAges, ClaimAges, Fault, FaultKinds, vars, paper, thread
<1>3. CASE Sweep \/ SweepDies
  <2>1. UNCHANGED <<approved, told>>
    BY <1>3 DEF Sweep, SweepHolds, SweepHold, SweepRetire, SweepOrphan, SweepThread, SweepCard,
                SweepDies, paper, thread
  <2>2. UNCHANGED used \/ \E k \in FaultKinds \cup {"click"} : Count(k)
    BY <1>3 DEF Sweep, SweepHolds, SweepHold, SweepRetire, SweepOrphan, SweepThread, SweepCard,
                SweepDies, Fault, FaultKinds
  <2>3. sweep'.pc = "card" => sweep.pc = "card" \/ SweepThread
    <3>1. ASSUME NEW n, sweep' = [pc |-> IF Open(n) THEN "retire" ELSE "holds", todo |-> sweep.todo \ {n}]
          PROVE  sweep'.pc # "card"
      BY <3>1
    <3>2. CASE SweepHold
      BY <3>1, <3>2 DEF SweepHold
    <3>3. CASE SweepHolds \/ SweepCard \/ SweepDies
      BY <3>3 DEF SweepHolds, SweepCard, SweepDies, NoSweep
    <3>4. CASE SweepRetire \/ SweepOrphan
      <4>1. sweep \in [pc : {"idle", "holds", "retire", "cards", "card"}, todo : SUBSET Attempts]
        BY DEF TypeOK
      <4> QED
        BY <3>4, <4>1 DEF SweepRetire, SweepOrphan
    <3> QED
      BY <1>3, <3>2, <3>3, <3>4 DEF Sweep
  <2> QED
    BY <2>1, <2>2, <2>3
<1> QED
  BY <1>1, <1>2, <1>3 DEF Next, Hour

LEMMA LookKeeps ==
    ASSUME IInv, LookAgrees, [Next]_vars
    PROVE  LookAgrees'
<1>i. TypeOK
  BY DEF IInv
<1>s. /\ used["slow"] \in Nat
      /\ used'["slow"] = used["slow"] \/ used'["slow"] = used["slow"] + 1
  BY <1>i, LookMoves DEF TypeOK, Count, FaultKinds
<1>1. approved' # "no" => card' # "pending"
  <2>1. CASE card # "pending"
    BY <1>i, <2>1, NothingRestarts
  <2>2. CASE card = "pending"
    BY <1>i, <2>2, LookMoves DEF LookAgrees, ClaimAges
  <2> QED
    BY <2>1, <2>2
<1>2. ASSUME approved = "old"
      PROVE  /\ approved' = "old"
             /\ \A r \in Requests : Runs(r)' => Runs(r)
  BY <1>i, <1>2, LookMoves, NothingRestarts DEF LookAgrees, ClaimAges
<1>3. ASSUME approved' = "old", used'["slow"] = 0, NEW r \in Requests PROVE ~Runs(r)'
  <2>1. used["slow"] = 0
    BY <1>s, <1>3
  <2>2. CASE approved = "old"
    BY <1>2, <2>1, <2>2 DEF LookAgrees
  <2>3. CASE ClaimAges
    <3>1. UNCHANGED used \/ Fault("slow")
      BY <2>3 DEF ClaimAges
    <3>2. ~Fault("slow")
      BY <1>i, <1>3, <2>1 DEF Fault, Count, TypeOK, FaultKinds
    <3>3. At(r, "idle") /\ UNCHANGED req
      BY <2>3, <3>2 DEF ClaimAges
    <3> QED
      BY <3>3 DEF At, Runs, RunPlaces
  <2> QED
    BY <1>i, <1>3, <2>2, <2>3, LookMoves
<1>4. ASSUME sweep'.pc = "card" PROVE approved' = "old" /\ (told' # "nothing" => used'["slow"] > 0)
  <2>1. CASE sweep.pc = "card"
    <3>1. approved = "old" /\ approved' = "old"
      BY <1>2, <2>1 DEF LookAgrees
    <3>2. ASSUME told' # "nothing" PROVE used["slow"] > 0
      <4>1. CASE told # "nothing"
        BY <2>1, <4>1 DEF LookAgrees
      <4>2. CASE \E r \in Requests : Runs(r)
        BY <1>s, <3>1, <4>2 DEF LookAgrees
      <4> QED
        BY <1>i, <3>2, <4>1, <4>2, LookMoves
    <3> QED
      BY <1>s, <3>1, <3>2
  <2>2. CASE sweep.pc # "card" /\ SweepThread
    <3>1. UNCHANGED <<approved, told>>
      BY <2>2 DEF SweepThread, paper, thread
    <3>2. approved = "old" /\ told = "nothing"
      BY <1>4, <2>2 DEF SweepThread, NoSweep
    <3> QED
      BY <3>1, <3>2
  <2> QED
    BY <1>i, <1>4, <2>1, <2>2, LookMoves
<1> QED
  BY <1>1, <1>3, <1>4 DEF LookAgrees

\* Who takes an approved card for a failed run.
LEMMA ReplyStands ==
    ASSUME IInv, ReplyAgrees, LookAgrees, [Next]_vars,
           card = "approved", card' = "failed", told = "reply"
    PROVE  (\E n \in Attempts : hold[n] = "reaped") \/ (sweep.pc = "card" /\ used["slow"] > 0)
<1>1. ASSUME NEW r \in Requests, Click(r) \/ Step(r) \/ Throws(r) \/ Dies(r) PROVE FALSE
  <2>1. ~Dead(r)
    BY DEF Dead, At, ReplyAgrees, Runs, RunPlaces
  <2> QED
    BY <1>1, <2>1 DEF Click, Step, Choose, Claim, Retry, Reserve, Lose, Settle, Refund, Tool, Model,
                Degrade, Finish, Throws, Dies, paper
<1>2. ~(Decide \/ Talk \/ Hour \/ SweepHolds \/ SweepHold \/ SweepThread \/ SweepDies \/ UNCHANGED vars)
  BY DEF Decide, Talk, Hour, HoldAges, ClaimAges, SweepHolds, SweepHold, SweepThread, SweepDies, vars,
         paper
<1>3. CASE SweepCard
  BY <1>3 DEF SweepCard, LookAgrees
<1>4. CASE SweepRetire
  BY <1>4 DEF SweepRetire, ReplyAgrees
<1>5. CASE SweepOrphan
  BY <1>5 DEF SweepOrphan
<1> QED
  BY <1>1, <1>2, <1>3, <1>4, <1>5 DEF Next, Sweep

-----------------------------------------------------------------------------
\* Theorems.

\* The inductive invariant.
THEOREM RunAgrees == Spec => []IInv
  BY InitEstablishes, InvStep, PTL DEF Spec

\* The state stays well typed.
THEOREM TypeCorrect == Spec => []TypeOK
<1>1. IInv => TypeOK
  BY DEF IInv
<1> QED
  BY RunAgrees, <1>1, PTL

\* What the merchant approved runs once, and only after the card said yes,
\* however many clicks race, die or find their attempt taken.
THEOREM ConsentIsSpentOnce == Spec => []RunsOnce
<1>1. IInv => RunsOnce
  BY DEF IInv, ToolAgrees, RunsOnce
<1> QED
  BY RunAgrees, <1>1, PTL

\* A merchant who was told that nothing was charged finds no charge, then or
\* ever after: no other click can settle a hold of the same card.
THEOREM ToldFreeIsFree == Spec => []FreeMeansFree
<1>1. IInv => FreeMeansFree
  BY DEF IInv, FreeAgrees, NothingSettled, FreeMeansFree
<1> QED
  BY RunAgrees, <1>1, PTL

\* A merchant who was charged for a run and has its answer keeps the card.  The
\* sweep takes the card for that of a run that died only on a refund of the
\* reaper's, left by some attempt at the same card, or on a look at the thread
\* from before a run that was an hour old had answered.
THEOREM PaidRunKeepsItsCard == Spec => PaidRunStands
<1>1. Init => IInv /\ ReplyAgrees /\ LookAgrees
  BY InitEstablishes DEF Init, ReplyAgrees, LookAgrees, NoSweep
<1>2. IInv /\ ReplyAgrees /\ LookAgrees /\ [Next]_vars => IInv' /\ ReplyAgrees' /\ LookAgrees'
  BY InvStep, ReplyKeeps, LookKeeps
<1>3. IInv /\ ReplyAgrees /\ LookAgrees /\ [Next]_vars =>
        [card = "approved" /\ card' = "failed" /\ told = "reply" /\ (\E n \in Attempts : hold[n] = "settled")
           => \/ \E n \in Attempts : hold[n] = "reaped"
              \/ sweep.pc = "card" /\ used["slow"] > 0]_vars
  BY ReplyStands
<1> QED
  BY <1>1, <1>2, <1>3, PTL DEF Spec, PaidRunStands
=============================================================================
