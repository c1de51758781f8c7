------------------------- MODULE ManualRefundProofs -------------------------
(***************************************************************************)
(* ManualRefund, for any number of tickets, requests, lost answers and     *)
(* dead requests, whatever the amounts: one refund per ticket, credits and *)
(* card money never both back nor both kept, and the truth for the         *)
(* operator.  No assumption on the constants is needed.                    *)
(***************************************************************************)
EXTENDS ManualRefund, TLAPS

Ops == {"refund", "complete", "abandon"}
Holds == {"none", "open", "settled", "released"}
Known == [id : {1}, status : Status]
Requests == [op : Ops, ticket : Tickets, pc : Places, seen : {Nothing} \cup Known]

TypeOK ==
    /\ hold \in [Tickets -> Holds]
    /\ refunds \in [Tickets -> Seq(Status)]
    /\ key \in [Tickets -> {Nothing, Refused} \cup Known]
    /\ audit \in [Tickets -> {0, 1}]
    /\ call \in [Calls -> {Idle} \cup Requests]
    /\ told \in [Tickets -> BOOLEAN]

\* A refund a request or the key remembers is the ticket's refund, and what was
\* remembered of it is what it is or what it was while pending.
Is(t, known) ==
    /\ known \in Known /\ Len(refunds[t]) = 1
    /\ known.status \in {"pending", refunds[t][1]}

StripeAgrees ==
    \A t \in Tickets :
        /\ Len(refunds[t]) <= 1
        /\ audit[t] = 1 => Len(refunds[t]) = 1
        /\ key[t] = Refused => Len(refunds[t]) = 0
        /\ key[t] \in Known => Is(t, key[t])

LedgerAgrees ==
    \A t \in Tickets :
        /\ hold[t] = "none" => Len(refunds[t]) = 0
        /\ Live(t) => hold[t] \in {"open", "settled"}
        /\ hold[t] = "settled" => Paid(t)
        /\ told[t] => hold[t] = "settled"

\* What is so while request p is where it is.
AgreesAt(p) ==
    /\ call[p].pc \in {"check", "hold", "create"} => call[p].op = "refund"
    /\ call[p].pc \notin {"check", "hold"} => hold[T(p)] # "none"
    /\ call[p].pc = "create" =>
          key[T(p)] # Nothing \/ (Len(refunds[T(p)]) = 0 /\ hold[T(p)] = "open")
    /\ On(p, {"refund"}, "look") /\ Len(refunds[T(p)]) = 0 =>
          key[T(p)] = Refused \/ hold[T(p)] = "open"
    /\ call[p].pc = "finish" => Is(T(p), call[p].seen)
    /\ On(p, {"refund"}, "release") => key[T(p)] = Refused
    /\ On(p, {"abandon"}, "release") => ~Live(T(p))

\* A ticket is not abandoned while a refund request on it is under way.
Apart ==
    \A p, q \in Calls :
        call[p].op = "refund" /\ call[q].op = "abandon" => call[p].ticket # call[q].ticket

RequestsAgree == (\A p \in Calls : call[p] # Idle => AgreesAt(p)) /\ Apart

IInv == TypeOK /\ StripeAgrees /\ LedgerAgrees /\ RequestsAgree

-----------------------------------------------------------------------------
\* Types, and how a request moves.

Slots == {Idle} \cup Requests

\* The step leaves request p at pc with this in its hands ...
Turned(p, op, t, pc, seen) ==
    /\ call' \in [Calls -> Slots]
    /\ \A q \in Calls \ {p} : call'[q] = call[q]
    /\ call'[p] = [op |-> op, ticket |-> t, pc |-> pc, seen |-> seen]

\* ... or ends it.
Left(p) ==
    /\ call' \in [Calls -> Slots]
    /\ \A q \in Calls \ {p} : call'[q] = call[q]
    /\ call'[p] = Idle

LEMMA IdleIsNone == Idle.op = "none" /\ Idle \notin Requests
  BY DEF Idle, Requests, Ops

LEMMA Busy ==
    ASSUME TypeOK, NEW p \in Calls, call[p] # Idle
    PROVE  /\ call[p] \in Requests /\ T(p) \in Tickets /\ call[p].op \in Ops
           /\ call[p].pc \in Places /\ call[p].seen \in {Nothing} \cup Known
  BY DEF TypeOK, Requests, T

LEMMA OnIsBusy ==
    ASSUME NEW p, NEW op \in SUBSET Ops, NEW pc, On(p, op, pc)
    PROVE  call[p] # Idle
  BY IdleIsNone DEF On, Ops

LEMMA Moves ==
    ASSUME TypeOK, NEW p \in Calls
    PROVE  /\ Ends(p) => Left(p)
           /\ \A op \in Ops, t \in Tickets, pc \in Places :
                 Begin(p, op, t, pc) => Turned(p, op, t, pc, Nothing)
           /\ call[p] # Idle => \A pc \in Places :
                 Goes(p, pc) => Turned(p, call[p].op, T(p), pc, call[p].seen)
           /\ call[p] # Idle => \A pc \in Places, seen \in {Nothing} \cup Known :
                 Sees(p, seen, pc) => Turned(p, call[p].op, T(p), pc, seen)
<1>0. call \in [Calls -> Slots]
  BY DEF TypeOK, Slots
<1>1. Ends(p) => Left(p)
  BY <1>0 DEF Ends, Left, Slots
<1>2. ASSUME NEW op \in Ops, NEW t \in Tickets, NEW pc \in Places, Begin(p, op, t, pc)
      PROVE  Turned(p, op, t, pc, Nothing)
  BY <1>0, <1>2 DEF Begin, Turned, Slots, Requests
<1>3. ASSUME call[p] # Idle, NEW pc \in Places, Goes(p, pc)
      PROVE  Turned(p, call[p].op, T(p), pc, call[p].seen)
  BY <1>0, <1>3, Busy DEF Goes, Turned, Slots, Requests, T
<1>4. ASSUME call[p] # Idle, NEW pc \in Places, NEW seen \in {Nothing} \cup Known,
             Sees(p, seen, pc)
      PROVE  Turned(p, call[p].op, T(p), pc, seen)
  BY <1>0, <1>4, Busy DEF Sees, Turned, Slots, Requests, T
<1> QED
  BY <1>1, <1>2, <1>3, <1>4

\* What a history of one refund at most says.
LEMMA OneOrNone ==
    ASSUME NEW s \in Seq(Status), Len(s) <= 1
    PROVE  /\ Len(s) = 0 \/ (Len(s) = 1 /\ s[1] \in Status)
           /\ (\E i \in DOMAIN s : s[i] # "failed") <=> Len(s) = 1 /\ s[1] # "failed"
           /\ (\E i \in DOMAIN s : s[i] = "succeeded") <=> Len(s) = 1 /\ s[1] = "succeeded"
<1>1. Len(s) \in Nat /\ DOMAIN s = 1..Len(s) /\ \A i \in 1..Len(s) : s[i] \in Status
  OBVIOUS
<1>2. CASE Len(s) = 0
  BY <1>1, <1>2
<1>3. CASE Len(s) = 1
  BY <1>1, <1>3
<1> QED
  BY <1>1, <1>2, <1>3

LEMMA Histories ==
    ASSUME TypeOK, StripeAgrees, NEW t \in Tickets
    PROVE  /\ Len(refunds[t]) = 0 \/ (Len(refunds[t]) = 1 /\ refunds[t][1] \in Status)
           /\ Live(t) <=> Len(refunds[t]) = 1 /\ refunds[t][1] # "failed"
           /\ Paid(t) <=> Len(refunds[t]) = 1 /\ refunds[t][1] = "succeeded"
  BY OneOrNone DEF TypeOK, StripeAgrees, Live, Paid

LEMMA Remembered == Nothing # Refused /\ Nothing \notin Known /\ Refused \notin Known
  BY DEF Nothing, Refused, Known, Status

LEMMA InitEstablishes == Init => IInv
<1> SUFFICES ASSUME Init PROVE IInv
  OBVIOUS
<1>1. TypeOK
  BY DEF Init, TypeOK, Holds
<1>2. \A t \in Tickets : Len(refunds[t]) = 0 /\ ~Live(t)
  BY DEF Init, Live
<1>3. StripeAgrees /\ LedgerAgrees
  BY <1>2, Remembered DEF Init, StripeAgrees, LedgerAgrees
<1>4. RequestsAgree
  BY IdleIsNone DEF Init, RequestsAgree, Apart
<1> QED
  BY <1>1, <1>3, <1>4 DEF IInv

-----------------------------------------------------------------------------
\* What a step must leave to a request it does not move.
LEMMA OthersAgree ==
    ASSUME NEW q \in Calls, AgreesAt(q), call'[q] = call[q],
           hold[T(q)] # "none" => hold'[T(q)] # "none",
           \A known : Is(T(q), known) => Is(T(q), known)',
           call[q].op = "refund" =>
               /\ key[T(q)] # Nothing => key'[T(q)] = key[T(q)]
               /\ Len(refunds[T(q)]) = 0 /\ hold[T(q)] = "open" =>
                     \/ key'[T(q)] = Refused
                     \/ Len(refunds'[T(q)]) = 1 /\ key'[T(q)] # Nothing
                     \/ Len(refunds'[T(q)]) = 0 /\ hold'[T(q)] = "open"
               /\ Len(refunds'[T(q)]) = 0 => Len(refunds[T(q)]) = 0,
           call[q].op = "abandon" => (~Live(T(q)) => ~Live(T(q))')
    PROVE  AgreesAt(q)'
<1>0. T(q)' = T(q)
  BY DEF T
<1>1. (call[q].pc \in {"check", "hold", "create"} => call[q].op = "refund")'
  BY DEF AgreesAt
<1>2. (call[q].pc \notin {"check", "hold"} => hold[T(q)] # "none")'
  BY <1>0 DEF AgreesAt
<1>3. (call[q].pc = "create" =>
          key[T(q)] # Nothing \/ (Len(refunds[T(q)]) = 0 /\ hold[T(q)] = "open"))'
  BY <1>0, Remembered DEF AgreesAt
<1>4. (On(q, {"refund"}, "look") /\ Len(refunds[T(q)]) = 0 =>
          key[T(q)] = Refused \/ hold[T(q)] = "open")'
  BY <1>0, Remembered DEF AgreesAt, On
<1>5. (call[q].pc = "finish" => Is(T(q), call[q].seen))'
  BY <1>0 DEF AgreesAt, Is
<1>6. (On(q, {"refund"}, "release") => key[T(q)] = Refused)'
  BY <1>0, Remembered DEF AgreesAt, On
<1>7. (On(q, {"abandon"}, "release") => ~Live(T(q)))'
  BY <1>0 DEF AgreesAt, On, Live
<1> QED
  BY <1>1, <1>2, <1>3, <1>4, <1>5, <1>6, <1>7 DEF AgreesAt

\* A request that goes on or ends comes into nobody's way.
LEMMA StayApart ==
    ASSUME RequestsAgree, NEW p \in Calls,
           Left(p) \/ \E pc, seen : Turned(p, call[p].op, T(p), pc, seen)
    PROVE  Apart'
<1>1. ASSUME NEW q \in Calls
      PROVE  call'[q].op = "none" \/ (call'[q].op = call[q].op /\ call'[q].ticket = call[q].ticket)
  <2>1. CASE q # p
    BY <2>1 DEF Left, Turned, T
  <2>2. CASE q = p /\ Left(p)
    BY <2>2, IdleIsNone DEF Left
  <2>3. ASSUME q = p, NEW pc, NEW seen, Turned(p, call[p].op, T(p), pc, seen)
        PROVE  call'[q].op = call[q].op /\ call'[q].ticket = call[q].ticket
    BY <2>3 DEF Turned, T
  <2> QED
    BY <2>1, <2>2, <2>3
<1> QED
  BY <1>1 DEF RequestsAgree, Apart

\* Only a request changes.
LEMMA QuietKeeps ==
    ASSUME IInv, NEW p \in Calls, UNCHANGED <<hold, refunds, key, audit, told>>,
           \/ Left(p)
           \/ (\E op, t, pc, seen : Turned(p, op, t, pc, seen)) /\ AgreesAt(p)',
           Apart'
    PROVE  IInv'
<1>1. TypeOK'
  BY DEF IInv, TypeOK, Left, Turned, Slots
<1>2. StripeAgrees' /\ LedgerAgrees'
  BY DEF IInv, StripeAgrees, LedgerAgrees, Is, Live, Paid
<1>3. ASSUME NEW q \in Calls, call'[q] # Idle PROVE AgreesAt(q)'
  <2>1. CASE q = p
    BY <1>3, <2>1 DEF Left
  <2>2. CASE q # p
    <3>1. call'[q] = call[q] /\ AgreesAt(q) /\ T(q) \in Tickets
      BY <1>3, <2>2, Busy DEF IInv, RequestsAgree, Left, Turned
    <3>2. Len(refunds[T(q)]) = 0 \/ Len(refunds[T(q)]) = 1
      BY <3>1, Histories DEF IInv
    <3>3. T(q)' = T(q)
      BY <3>1 DEF T
    <3>4. (\A known : Is(T(q), known) => Is(T(q), known)') /\ (~Live(T(q)) => ~Live(T(q))')
      BY <3>3 DEF Is, Live
    <3> QED
      BY <3>1, <3>2, <3>4, OthersAgree
  <2> QED
    BY <2>1, <2>2
<1> QED
  BY <1>1, <1>2, <1>3 DEF IInv, RequestsAgree

-----------------------------------------------------------------------------
\* Steps that only move the request.

\* What a look finds is the ticket's refund, or that there is none.
LEMMA Finds ==
    ASSUME TypeOK, StripeAgrees, NEW t \in Tickets
    PROVE  /\ Found(t) \in {Nothing} \cup Known
           /\ Found(t) = Nothing <=> Len(refunds[t]) = 0
           /\ Found(t) # Nothing => Is(t, Found(t))
           /\ Found(t).status \in {"none", "failed"} => ~Live(t)
<1>1. CASE Len(refunds[t]) = 0
  <2>1. Found(t) = Nothing
    BY <1>1 DEF Found, TypeOK, StripeAgrees
  <2> QED
    BY <1>1, <2>1, Histories
<1>2. CASE Len(refunds[t]) = 1
  <2>1. Found(t) = [id |-> 1, status |-> refunds[t][1]]
    BY <1>2 DEF Found, TypeOK
  <2>2. refunds[t][1] \in Status
    BY <1>2, Histories
  <2>3. Found(t) \in Known /\ Found(t).status = refunds[t][1]
    BY <2>1, <2>2 DEF Known
  <2> QED
    BY <1>2, <2>2, <2>3, Remembered, Histories DEF Is, Status
<1> QED
  BY <1>1, <1>2, Histories

LEMMA BeginningsKeep ==
    ASSUME IInv, NEW p \in Calls, NEW t \in Tickets,
           Refund(p, t) \/ Complete(p, t) \/ Abandon(p, t)
    PROVE  IInv'
<1>i. TypeOK /\ RequestsAgree
  BY DEF IInv
<1>p. {"check", "look"} \subseteq Places
  BY DEF Places
<1>1. PICK op \in Ops, pc \in {"check", "look"} :
         /\ Begin(p, op, t, pc)
         /\ pc = "check" => op = "refund"
         /\ pc = "look" => hold[t] = "open"
         /\ op = "refund" => ~UnderWay({"abandon"}, t)
         /\ op = "abandon" => ~UnderWay({"refund"}, t)
  BY DEF Refund, Complete, Abandon, Ops
<1>2. Turned(p, op, t, pc, Nothing)
  BY <1>i, <1>p, <1>1, Moves
<1>3. UNCHANGED <<hold, refunds, key, audit, told>>
  BY DEF Refund, Complete, Abandon, Ledger, Stripe
<1>4. T(p)' = t /\ call'[p].op = op /\ call'[p].pc = pc
  BY <1>2 DEF Turned, T
<1>5. AgreesAt(p)'
  BY <1>1, <1>3, <1>4 DEF AgreesAt, On
<1>6. Apart'
  <2>1. \A q \in Calls \ {p} : call'[q] = call[q]
    BY <1>2 DEF Turned
  <2>2. \A q \in Calls :
           /\ op = "refund" /\ call[q].op = "abandon" => call[q].ticket # t
           /\ op = "abandon" /\ call[q].op = "refund" => call[q].ticket # t
    BY <1>1 DEF UnderWay
  <2>3. call'[p].op = op /\ call'[p].ticket = t
    BY <1>2 DEF Turned
  <2>4. ASSUME NEW q \in Calls, NEW r \in Calls,
               call'[q].op = "refund", call'[r].op = "abandon"
        PROVE  call'[q].ticket # call'[r].ticket
    <3>1. CASE q = p
      BY <2>1, <2>2, <2>3, <2>4, <3>1
    <3>2. CASE r = p
      BY <2>1, <2>2, <2>3, <2>4, <3>2
    <3>3. CASE q # p /\ r # p
      BY <1>i, <2>1, <2>4, <3>3 DEF RequestsAgree, Apart
    <3> QED
      BY <3>1, <3>2, <3>3
  <2> QED
    BY <2>4 DEF Apart
<1> QED
  BY <1>2, <1>3, <1>5, <1>6, QuietKeeps

LEMMA QuietStepsKeep ==
    ASSUME IInv, NEW p \in Calls,
           \/ CheckPayment(p) \/ Look(p) \/ Dies(p)
           \/ HoldCredits(p) /\ UNCHANGED hold
           \/ FinishPending(p) /\ UNCHANGED audit
    PROVE  IInv'
<1>i. TypeOK /\ StripeAgrees /\ RequestsAgree
  BY DEF IInv
<1>b. call[p] # Idle
  BY IdleIsNone DEF CheckPayment, Look, Dies, HoldCredits, FinishPending, On
<1>a. AgreesAt(p) /\ T(p) \in Tickets /\ call[p].op \in Ops
  BY <1>i, <1>b, Busy DEF RequestsAgree
<1>u. UNCHANGED <<hold, refunds, key, audit, told>>
  BY DEF CheckPayment, Look, Dies, HoldCredits, FinishPending, Ledger, Stripe
<1>1. CASE Ends(p)
  <2>1. Left(p)
    BY <1>i, <1>1, Moves
  <2>2. Apart'
    BY <1>i, <2>1, StayApart
  <2> QED
    BY <1>u, <2>1, <2>2, QuietKeeps
<1>2. ASSUME NEW pc \in Places, NEW seen, Turned(p, call[p].op, T(p), pc, seen), AgreesAt(p)'
      PROVE  IInv'
  <2>1. Apart'
    BY <1>i, <1>2, StayApart
  <2> QED
    BY <1>u, <1>2, <2>1, QuietKeeps
<1>3. IInv'
  <2>1. CASE CheckPayment(p)
    <3>1. CASE Goes(p, "hold")
      <4>1. Turned(p, call[p].op, T(p), "hold", call[p].seen) /\ "hold" \in Places
        BY <1>i, <1>b, <3>1, Moves DEF Places
      <4>2. AgreesAt(p)'
        BY <1>a, <2>1, <4>1 DEF CheckPayment, AgreesAt, Turned, On, T
      <4> QED
        BY <1>2, <4>1, <4>2
    <3> QED
      BY <1>1, <2>1, <3>1 DEF CheckPayment
  <2>2. CASE HoldCredits(p) /\ UNCHANGED hold
    <3>1. CASE hold[T(p)] = "open" /\ Goes(p, "look")
      <4>1. Turned(p, call[p].op, T(p), "look", call[p].seen) /\ "look" \in Places
        BY <1>i, <1>b, <3>1, Moves DEF Places
      <4>2. AgreesAt(p)'
        BY <1>a, <1>u, <3>1, <4>1 DEF AgreesAt, Turned, On, T
      <4> QED
        BY <1>2, <4>1, <4>2
    <3>2. hold[T(p)] # "none" \/ Ends(p)
      BY <1>i, <1>a, <2>2 DEF HoldCredits, TypeOK
    <3> QED
      BY <1>1, <2>2, <3>1, <3>2 DEF HoldCredits
  <2>3. CASE Look(p)
    <3>1. Found(T(p)) \in {Nothing} \cup Known
      BY <1>i, <1>a, Finds
    <3>2. CASE Sees(p, Found(T(p)), NextAfter(call[p].op, Found(T(p)))) /\ NextAfter(call[p].op, Found(T(p))) # "end"
      <4> DEFINE pc == NextAfter(call[p].op, Found(T(p)))
      <4>1. /\ pc \in {"release", "create", "finish"}
            /\ pc = "release" => call[p].op = "abandon" /\ Found(T(p)).status \in {"none", "failed"}
            /\ pc = "create" => call[p].op = "refund" /\ Found(T(p)) = Nothing
            /\ pc = "finish" => Found(T(p)) # Nothing
        BY <1>a, <3>2 DEF NextAfter, Ops
      <4>2. Turned(p, call[p].op, T(p), pc, Found(T(p))) /\ pc \in Places
        BY <1>i, <1>b, <3>1, <3>2, <4>1, Moves DEF Places
      <4>3. hold[T(p)] # "none" /\ call[p].pc = "look"
        BY <1>a, <2>3 DEF Look, On, AgreesAt
      <4>4. pc = "create" => key[T(p)] # Nothing \/ (Len(refunds[T(p)]) = 0 /\ hold[T(p)] = "open")
        BY <1>i, <1>a, <4>1, <4>3, Finds, Remembered DEF AgreesAt, On
      <4>5. pc = "finish" => Is(T(p), Found(T(p)))
        BY <1>i, <1>a, <4>1, Finds
      <4>6. pc = "release" => ~Live(T(p)) /\ call[p].op # "refund"
        BY <1>i, <1>a, <4>1, Finds
      <4>7. call'[p].op = call[p].op /\ T(p)' = T(p) /\ call'[p].pc = pc /\ call'[p].seen = Found(T(p))
        BY <4>2 DEF Turned, T
      <4>8. (Is(T(p), Found(T(p))) => Is(T(p), call[p].seen)') /\ (~Live(T(p)) => ~Live(T(p))')
        BY <1>u, <4>7 DEF Is, Live
      <4> HIDE DEF pc
      <4>9. AgreesAt(p)'
        BY <1>u, <4>1, <4>3, <4>4, <4>5, <4>6, <4>7, <4>8 DEF AgreesAt, On
      <4> QED
        BY <1>2, <4>2, <4>9
    <3> QED
      BY <1>1, <2>3, <3>2 DEF Look
  <2>4. CASE Dies(p) \/ FinishPending(p)
    BY <1>1, <2>4 DEF Dies, FinishPending
  <2> QED
    BY <2>1, <2>2, <2>3, <2>4
<1> QED
  BY <1>3

-----------------------------------------------------------------------------
\* Steps that move the ledger, Stripe or the audit row.

\* What a step may do to a ticket that other requests are about.
Spared(t) ==
    /\ hold[t] # "none" => hold'[t] # "none"
    /\ Len(refunds[t]) = 1 =>
          Len(refunds'[t]) = 1 /\ refunds[t][1] \in {"pending", refunds'[t][1]}
    /\ UnderWay({"refund"}, t) =>
          /\ key[t] # Nothing => key'[t] = key[t]
          /\ Len(refunds[t]) = 0 /\ hold[t] = "open" =>
                \/ key'[t] = Refused
                \/ Len(refunds'[t]) = 1 /\ key'[t] # Nothing
                \/ Len(refunds'[t]) = 0 /\ hold'[t] = "open"
    /\ UnderWay({"abandon"}, t) => (Len(refunds[t]) = 0 => Len(refunds'[t]) = 0)

LEMMA SparedAgree ==
    ASSUME IInv, TypeOK', StripeAgrees', NEW q \in Calls, call[q] # Idle, call'[q] = call[q],
           \A t \in Tickets : Spared(t)
    PROVE  AgreesAt(q)'
<1>1. TypeOK /\ StripeAgrees /\ AgreesAt(q)
  BY DEF IInv, RequestsAgree
<1>2. PICK t \in Tickets : t = T(q)
  BY <1>1, Busy
<1>3. T(q)' = t
  BY <1>2 DEF T
<1>4. /\ Len(refunds[t]) = 0 \/ (Len(refunds[t]) = 1 /\ refunds[t][1] \in Status)
      /\ Live(t) <=> Len(refunds[t]) = 1 /\ refunds[t][1] # "failed"
  BY <1>1, Histories
<1>5. /\ Len(refunds'[t]) = 0 \/ Len(refunds'[t]) = 1
      /\ (\E i \in DOMAIN refunds'[t] : refunds'[t][i] # "failed")
             <=> Len(refunds'[t]) = 1 /\ refunds'[t][1] # "failed"
  BY OneOrNone DEF TypeOK, StripeAgrees
<1>6. Spared(t)
  OBVIOUS
<1>7. \A known : Is(T(q), known) => Is(T(q), known)'
  BY <1>2, <1>3, <1>4, <1>6 DEF Is, Spared
<1>8. call[q].op = "refund" =>
          /\ key[T(q)] # Nothing => key'[T(q)] = key[T(q)]
          /\ Len(refunds[T(q)]) = 0 /\ hold[T(q)] = "open" =>
                \/ key'[T(q)] = Refused
                \/ Len(refunds'[T(q)]) = 1 /\ key'[T(q)] # Nothing
                \/ Len(refunds'[T(q)]) = 0 /\ hold'[T(q)] = "open"
          /\ Len(refunds'[T(q)]) = 0 => Len(refunds[T(q)]) = 0
  <2>1. call[q].op = "refund" => UnderWay({"refund"}, t)
    BY <1>2 DEF UnderWay, T
  <2> QED
    BY <1>2, <1>4, <1>6, <2>1 DEF Spared
<1>9. call[q].op = "abandon" => (~Live(T(q)) => ~Live(T(q))')
  <2>1. call[q].op = "abandon" => UnderWay({"abandon"}, t)
    BY <1>2 DEF UnderWay, T
  <2>2. call[q].op = "abandon" /\ ~Live(t) =>
           ~(Len(refunds'[t]) = 1 /\ refunds'[t][1] # "failed")
    BY <1>4, <1>6, <2>1 DEF Spared
  <2> QED
    BY <1>2, <1>3, <1>5, <2>2 DEF Live
<1> QED
  BY <1>1, <1>2, <1>6, <1>7, <1>8, <1>9, OthersAgree DEF Spared

LEMMA RequestsKeep ==
    ASSUME IInv, TypeOK', StripeAgrees', LedgerAgrees', NEW p \in Calls,
           \/ Left(p)
           \/ (\E pc, seen : Turned(p, call[p].op, T(p), pc, seen)) /\ AgreesAt(p)',
           \A t \in Tickets : Spared(t)
    PROVE  IInv'
<1>1. ASSUME NEW q \in Calls, call'[q] # Idle PROVE AgreesAt(q)'
  <2>1. CASE q = p
    BY <1>1, <2>1 DEF Left
  <2>2. CASE q # p
    <3>1. call'[q] = call[q]
      BY <2>2 DEF Left, Turned
    <3> QED
      BY <1>1, <3>1, SparedAgree
  <2> QED
    BY <2>1, <2>2
<1>2. Apart'
  BY StayApart DEF IInv
<1> QED
  BY <1>1, <1>2 DEF IInv, RequestsAgree

\* The first hold of a ticket.
LEMMA HoldingKeeps ==
    ASSUME IInv, NEW p \in Calls, HoldCredits(p), hold' # hold
    PROVE  IInv'
<1>i. TypeOK /\ StripeAgrees /\ LedgerAgrees /\ RequestsAgree
  BY DEF IInv
<1>b. call[p] # Idle /\ call[p].op = "refund" /\ call[p].pc = "hold"
  BY IdleIsNone DEF HoldCredits, On
<1>1. PICK t \in Tickets : t = T(p)
  BY <1>i, <1>b, Busy
<1>2. /\ hold[t] = "none" /\ hold' = [hold EXCEPT ![t] = "open"] /\ Goes(p, "create")
      /\ UNCHANGED <<refunds, key, audit, told>>
  BY <1>1 DEF HoldCredits, Ledger, Stripe
<1>3. Turned(p, call[p].op, T(p), "create", call[p].seen)
  BY <1>i, <1>b, <1>2, Moves DEF Places
<1>4. TypeOK'
  BY <1>i, <1>2, <1>3 DEF TypeOK, Turned, Slots, Holds
<1>5. StripeAgrees'
  BY <1>i, <1>2 DEF StripeAgrees, Is
<1>6. \A u \in Tickets : hold'[u] = IF u = t THEN "open" ELSE hold[u]
  BY <1>i, <1>2 DEF TypeOK
<1>7. LedgerAgrees'
  BY <1>i, <1>2, <1>6 DEF LedgerAgrees, Live, Paid
<1>8. \A u \in Tickets : Spared(u)
  BY <1>i, <1>2, <1>6 DEF Spared
<1>9. AgreesAt(p)'
  <2>1. call'[p].op = "refund" /\ call'[p].pc = "create" /\ T(p)' = t
    BY <1>b, <1>1, <1>3 DEF Turned, T
  <2>2. Len(refunds'[t]) = 0 /\ hold'[t] = "open"
    BY <1>i, <1>2, <1>6 DEF LedgerAgrees
  <2> QED
    BY <2>1, <2>2 DEF AgreesAt, On
<1> QED
  BY <1>3, <1>4, <1>5, <1>7, <1>8, <1>9, RequestsKeep

\* Stripe takes or refuses a refund, or repeats what it said.
LEMMA StripeKeeps ==
    ASSUME IInv, NEW p \in Calls, Create(p) \/ CreateUnclear(p) \/ CreateRefused(p)
    PROVE  IInv'
<1>i. TypeOK /\ StripeAgrees /\ LedgerAgrees /\ RequestsAgree
  BY DEF IInv
<1>b. call[p] # Idle /\ call[p].op = "refund" /\ call[p].pc = "create"
  BY IdleIsNone DEF Create, CreateUnclear, CreateRefused, On
<1>1. PICK t \in Tickets : t = T(p)
  BY <1>i, <1>b, Busy
<1>2. PICK answer :
         /\ StripeAnswers(t, answer)
         /\ \/ answer # Refused /\ Sees(p, answer, "finish")
            \/ Ends(p)
            \/ answer = Refused /\ Goes(p, "release")
  BY <1>1 DEF Create, CreateUnclear, CreateRefused
<1>u. UNCHANGED <<hold, audit, told>>
  BY DEF Create, CreateUnclear, CreateRefused, Ledger
<1>a. key[t] # Nothing \/ (Len(refunds[t]) = 0 /\ hold[t] = "open")
  BY <1>i, <1>b, <1>1 DEF RequestsAgree, AgreesAt
<1>n. hold[t] # "none"
  BY <1>i, <1>b, <1>1 DEF RequestsAgree, AgreesAt
<1>3. \/ /\ key[t] # Nothing /\ answer = key[t] /\ UNCHANGED <<key, refunds>>
      \/ /\ key[t] = Nothing /\ answer = Refused
         /\ key' = [key EXCEPT ![t] = Refused] /\ UNCHANGED refunds
      \/ /\ key[t] = Nothing
         /\ \E status \in Status :
               /\ answer = [id |-> 1, status |-> status]
               /\ key' = [key EXCEPT ![t] = answer]
               /\ refunds' = [refunds EXCEPT ![t] = Append(@, status)]
  <2>1. CASE key[t] # Nothing
    BY <1>2, <1>i, <2>1 DEF StripeAnswers, Answers, TypeOK
  <2>2. CASE key[t] = Nothing /\ answer = Refused
    BY <1>2, <2>2 DEF StripeAnswers
  <2>3. CASE key[t] = Nothing /\ answer # Refused
    <3>1. PICK status \in Status : answer = [id |-> Len(refunds[t]) + 1, status |-> status]
      BY <1>2, <2>3 DEF StripeAnswers, Answers
    <3>2. answer = [id |-> 1, status |-> status] /\ answer.status = status
      BY <1>a, <2>3, <3>1
    <3> QED
      BY <1>2, <2>3, <3>2 DEF StripeAnswers
  <2> QED
    BY <2>1, <2>2, <2>3
<1>4. \A u \in Tickets \ {t} : key'[u] = key[u] /\ refunds'[u] = refunds[u]
  BY <1>i, <1>3 DEF TypeOK
<1>5. \/ key[t] # Nothing /\ answer = key[t] /\ key'[t] = key[t] /\ refunds'[t] = refunds[t]
      \/ /\ key[t] = Nothing /\ answer = Refused /\ key'[t] = Refused
         /\ refunds'[t] = refunds[t] /\ Len(refunds[t]) = 0
      \/ /\ key[t] = Nothing /\ answer \in Known /\ key'[t] = answer
         /\ Len(refunds[t]) = 0 /\ Len(refunds'[t]) = 1 /\ refunds'[t][1] = answer.status
  <2>1. CASE \E status \in Status :
               /\ answer = [id |-> 1, status |-> status]
               /\ key' = [key EXCEPT ![t] = answer]
               /\ refunds' = [refunds EXCEPT ![t] = Append(@, status)]
    <3>1. PICK status \in Status :
               /\ answer = [id |-> 1, status |-> status]
               /\ key' = [key EXCEPT ![t] = answer]
               /\ refunds' = [refunds EXCEPT ![t] = Append(@, status)]
      BY <2>1
    <3>2. answer \in Known /\ answer.status = status
      BY <3>1 DEF Known
    <3>3. key'[t] = answer /\ refunds'[t] = Append(refunds[t], status)
      BY <1>i, <3>1 DEF TypeOK
    <3>4. CASE key[t] = Nothing
      <4>1. refunds[t] \in Seq(Status) /\ Len(refunds[t]) = 0
        BY <1>i, <1>a, <3>4 DEF TypeOK
      <4> QED
        BY <3>2, <3>3, <3>4, <4>1
    <3>5. CASE key[t] # Nothing
      BY <1>3, <3>5
    <3> QED
      BY <3>4, <3>5
  <2>2. CASE UNCHANGED refunds
    BY <1>i, <1>a, <1>3, <2>2 DEF TypeOK
  <2> QED
    BY <1>3, <2>1, <2>2
<1>6. key' \in [Tickets -> {Nothing, Refused} \cup Known] /\ refunds' \in [Tickets -> Seq(Status)]
  <2>1. CASE UNCHANGED <<key, refunds>>
    BY <1>i, <2>1 DEF TypeOK
  <2>2. CASE key' = [key EXCEPT ![t] = Refused] /\ UNCHANGED refunds
    BY <1>i, <2>2 DEF TypeOK
  <2>3. ASSUME NEW status \in Status, answer = [id |-> 1, status |-> status],
               key' = [key EXCEPT ![t] = answer],
               refunds' = [refunds EXCEPT ![t] = Append(@, status)]
        PROVE  /\ key' \in [Tickets -> {Nothing, Refused} \cup Known]
               /\ refunds' \in [Tickets -> Seq(Status)]
    <3>1. answer \in Known
      BY <2>3 DEF Known
    <3>2. Append(refunds[t], status) \in Seq(Status)
      BY <1>i DEF TypeOK
    <3> QED
      BY <1>i, <2>3, <3>1, <3>2 DEF TypeOK
  <2> QED
    BY <1>3, <2>1, <2>2, <2>3
<1>7. answer \in {Refused} \cup Known
  BY <1>i, <1>5 DEF TypeOK
<1>8. \/ Left(p)
      \/ answer # Refused /\ Turned(p, call[p].op, T(p), "finish", answer)
      \/ answer = Refused /\ Turned(p, call[p].op, T(p), "release", call[p].seen)
  BY <1>i, <1>b, <1>2, <1>7, Moves DEF Places
<1>9. TypeOK'
  BY <1>i, <1>u, <1>6, <1>8 DEF TypeOK, Left, Turned, Slots
<1>10. StripeAgrees'
  <2>1. ASSUME NEW v \in Tickets, v # t
        PROVE  /\ Len(refunds'[v]) <= 1
               /\ audit'[v] = 1 => Len(refunds'[v]) = 1
               /\ key'[v] = Refused => Len(refunds'[v]) = 0
               /\ key'[v] \in Known => Is(v, key[v])'
    BY <1>i, <1>u, <1>4, <2>1 DEF StripeAgrees, Is
  <2>2. /\ Len(refunds'[t]) <= 1
        /\ audit'[t] = 1 => Len(refunds'[t]) = 1
        /\ key'[t] = Refused => Len(refunds'[t]) = 0
        /\ key'[t] \in Known => Is(t, key[t])'
    BY <1>i, <1>u, <1>5, Remembered DEF StripeAgrees, Is
  <2> QED
    BY <2>1, <2>2 DEF StripeAgrees
<1>11. LedgerAgrees'
  <2>1. ASSUME NEW v \in Tickets, v # t \/ refunds'[t] = refunds[t]
        PROVE  /\ hold'[v] = "none" => Len(refunds'[v]) = 0
               /\ Live(v)' => hold'[v] \in {"open", "settled"}
               /\ hold'[v] = "settled" => Paid(v)'
               /\ told'[v] => hold'[v] = "settled"
    BY <1>i, <1>u, <1>4, <2>1 DEF LedgerAgrees, Live, Paid
  <2>2. CASE key[t] = Nothing
    BY <1>i, <1>u, <1>a, <2>1, <2>2 DEF LedgerAgrees
  <2> QED
    BY <1>5, <2>1, <2>2 DEF LedgerAgrees
<1>12. \A v \in Tickets : Spared(v)
  <2>1. ASSUME NEW v \in Tickets, v # t PROVE Spared(v)
    BY <1>u, <1>4, <2>1 DEF Spared
  <2>2. ~UnderWay({"abandon"}, t)
    BY <1>i, <1>b, <1>1 DEF RequestsAgree, Apart, UnderWay, T
  <2>3. Spared(t)
    BY <1>u, <1>n, <1>5, <2>2, <1>7, Remembered DEF Spared
  <2> QED
    BY <2>1, <2>3
<1>13. Left(p) \/ AgreesAt(p)'
  <2>1. CASE answer # Refused /\ Turned(p, call[p].op, T(p), "finish", answer)
    <3>1. call'[p].op = "refund" /\ call'[p].pc = "finish" /\ call'[p].seen = answer /\ T(p)' = t
      BY <1>b, <1>1, <2>1 DEF Turned, T
    <3>2. answer \in Known /\ Len(refunds'[t]) = 1 /\ answer.status \in {"pending", refunds'[t][1]}
      BY <1>i, <1>5, <1>7, <2>1 DEF StripeAgrees, Is
    <3> QED
      BY <1>u, <1>n, <3>1, <3>2 DEF AgreesAt, On, Is
  <2>2. CASE answer = Refused /\ Turned(p, call[p].op, T(p), "release", call[p].seen)
    <3>1. call'[p].op = "refund" /\ call'[p].pc = "release" /\ T(p)' = t
      BY <1>b, <1>1, <2>2 DEF Turned, T
    <3>2. key'[t] = Refused
      BY <1>5, <2>2, Remembered
    <3> QED
      BY <1>u, <1>n, <3>1, <3>2 DEF AgreesAt, On
  <2> QED
    BY <1>8, <2>1, <2>2
<1> QED
  BY <1>8, <1>9, <1>10, <1>11, <1>12, <1>13, RequestsKeep

\* A request finishes, notes a pending refund or gives the credits back.
LEMMA FinishesKeep ==
    ASSUME IInv, NEW p \in Calls, FinishSettled(p) \/ FinishPending(p) \/ Release(p)
    PROVE  IInv'
<1>i. TypeOK /\ StripeAgrees /\ LedgerAgrees /\ RequestsAgree
  BY DEF IInv
<1>b. call[p] # Idle
  BY IdleIsNone DEF FinishSettled, FinishPending, Release, On
<1>1. PICK t \in Tickets : t = T(p)
  BY <1>i, <1>b, Busy
<1>a. AgreesAt(p)
  BY <1>i, <1>b DEF RequestsAgree
<1>n. hold[t] # "none"
  BY <1>a, <1>1 DEF FinishSettled, FinishPending, Release, On, AgreesAt
<1>h. /\ Len(refunds[t]) = 0 \/ (Len(refunds[t]) = 1 /\ refunds[t][1] \in Status)
      /\ Live(t) <=> Len(refunds[t]) = 1 /\ refunds[t][1] # "failed"
      /\ Paid(t) <=> Len(refunds[t]) = 1 /\ refunds[t][1] = "succeeded"
  BY <1>i, Histories
<1>l. Left(p) /\ UNCHANGED <<refunds, key>>
  BY <1>i, Moves DEF FinishSettled, FinishPending, Release, Stripe
<1>f. call[p].pc = "finish" => Is(t, call[p].seen)
  BY <1>a, <1>1 DEF AgreesAt
<1>2. ASSUME TypeOK', LedgerAgrees', StripeAgrees',
             hold'[t] # "none", hold'[t] = hold[t] \/ Len(refunds[t]) = 1 \/ key[t] = Refused
                                \/ ~UnderWay({"refund"}, t),
             \A u \in Tickets \ {t} : hold'[u] = hold[u]
      PROVE  IInv'
  <2>1. ASSUME NEW u \in Tickets PROVE Spared(u)
    <3>1. CASE u = t
      BY <1>l, <1>2, <3>1 DEF Spared
    <3>2. CASE u # t
      BY <1>l, <1>2, <3>2 DEF Spared
    <3> QED
      BY <3>1, <3>2
  <2> QED
    BY <1>l, <1>2, <2>1, RequestsKeep
<1>3. CASE FinishSettled(p)
  <2>1. /\ hold' = [hold EXCEPT ![t] = IF @ = "open" THEN "settled" ELSE @]
        /\ told' = [told EXCEPT ![t] = TRUE] /\ UNCHANGED audit
        /\ call[p].pc = "finish" /\ call[p].seen.status = "succeeded"
    BY <1>1, <1>3 DEF FinishSettled, Settles, Close, On
  <2>2. Paid(t) /\ Live(t) /\ Len(refunds[t]) = 1
    BY <1>f, <1>h, <2>1 DEF Is
  <2>3. hold[t] \in {"open", "settled"}
    BY <1>i, <2>2 DEF LedgerAgrees
  <2>4. \A u \in Tickets :
           /\ hold'[u] = IF u = t THEN "settled" ELSE hold[u]
           /\ told'[u] = IF u = t THEN TRUE ELSE told[u]
    BY <1>i, <2>1, <2>3 DEF TypeOK
  <2>5. TypeOK'
    BY <1>i, <1>l, <2>1, <2>4 DEF TypeOK, Left, Slots, Holds
  <2>6. StripeAgrees'
    BY <1>i, <1>l, <2>1 DEF StripeAgrees, Is
  <2>7. LedgerAgrees'
    <3>1. \A u \in Tickets : (Live(u)' <=> Live(u)) /\ (Paid(u)' <=> Paid(u))
      BY <1>l DEF Live, Paid
    <3> QED
      BY <1>i, <1>l, <2>2, <2>4, <3>1 DEF LedgerAgrees
  <2> QED
    BY <1>2, <2>2, <2>4, <2>5, <2>6, <2>7
<1>4. CASE FinishPending(p)
  <2>1. UNCHANGED <<hold, told>> /\ call[p].pc = "finish"
        /\ (audit' = [audit EXCEPT ![t] = call[p].seen.id] \/ UNCHANGED audit)
    BY <1>1, <1>4 DEF FinishPending, On, Ledger
  <2>2. call[p].seen.id = 1 /\ Len(refunds[t]) = 1
    BY <1>f, <2>1 DEF Is, Known
  <2>3. \A u \in Tickets : audit'[u] = audit[u] \/ (u = t /\ audit'[u] = 1)
    BY <1>i, <2>1, <2>2 DEF TypeOK
  <2>4. TypeOK'
    BY <1>i, <1>l, <2>1, <2>2 DEF TypeOK, Left, Slots
  <2>5. StripeAgrees'
    BY <1>i, <1>l, <2>2, <2>3 DEF StripeAgrees, Is
  <2>6. LedgerAgrees'
    BY <1>i, <1>l, <2>1 DEF LedgerAgrees, Live, Paid
  <2> QED
    BY <1>2, <1>n, <2>1, <2>4, <2>5, <2>6
<1>5. CASE Release(p)
  <2>1. /\ hold' = [hold EXCEPT ![t] = IF @ = "open" THEN "released" ELSE @]
        /\ UNCHANGED <<audit, told>>
        /\ \/ call[p].pc = "finish" /\ call[p].seen.status = "failed"
           \/ On(p, {"refund"}, "release") \/ On(p, {"abandon"}, "release")
    BY <1>1, <1>5 DEF Release, Close, On
  <2>2. /\ ~Live(t)
        /\ Len(refunds[t]) = 1 \/ key[t] = Refused \/ ~UnderWay({"refund"}, t)
    <3>1. CASE call[p].pc = "finish" /\ call[p].seen.status = "failed"
      BY <1>f, <1>h, <3>1 DEF Is
    <3>2. CASE On(p, {"refund"}, "release")
      BY <1>i, <1>a, <1>1, <1>h, <3>2 DEF AgreesAt, StripeAgrees
    <3>3. CASE On(p, {"abandon"}, "release")
      BY <1>i, <1>a, <1>1, <3>3 DEF AgreesAt, On, RequestsAgree, Apart, UnderWay, T
    <3> QED
      BY <2>1, <3>1, <3>2, <3>3
  <2>3. \A u \in Tickets : hold'[u] = IF u = t /\ hold[t] = "open" THEN "released" ELSE hold[u]
    BY <1>i, <2>1 DEF TypeOK
  <2>4. TypeOK'
    BY <1>i, <1>l, <2>1 DEF TypeOK, Left, Slots, Holds
  <2>5. StripeAgrees'
    BY <1>i, <1>l, <2>1 DEF StripeAgrees, Is
  <2>6. LedgerAgrees'
    BY <1>i, <1>l, <2>1, <2>2, <2>3 DEF LedgerAgrees, Live, Paid
  <2> QED
    BY <1>2, <1>n, <2>2, <2>3, <2>4, <2>5, <2>6
<1> QED
  BY <1>3, <1>4, <1>5

\* Stripe in its own time.
LEMMA StripeMovesOn ==
    ASSUME IInv, NEW t \in Tickets,
           KeyExpires(t) \/ \E i \in DOMAIN refunds[t] : RefundEnds(t, i)
    PROVE  IInv'
<1>i. TypeOK /\ StripeAgrees /\ LedgerAgrees /\ RequestsAgree
  BY DEF IInv
<1>u. UNCHANGED <<hold, audit, told, call>>
  BY DEF KeyExpires, RefundEnds, Ledger
<1>2. ASSUME TypeOK', StripeAgrees', LedgerAgrees', \A u \in Tickets : Spared(u)
      PROVE  IInv'
  <2>1. \A q \in Calls : call'[q] # Idle => AgreesAt(q)'
    BY <1>u, <1>2, SparedAgree
  <2> QED
    BY <1>i, <1>u, <1>2, <2>1 DEF IInv, RequestsAgree, Apart
<1>3. CASE KeyExpires(t)
  <2>1. key' = [key EXCEPT ![t] = Nothing] /\ UNCHANGED refunds /\ ~UnderWay({"refund"}, t)
    BY <1>3 DEF KeyExpires
  <2>2. \A v \in Tickets : key'[v] = IF v = t THEN Nothing ELSE key[v]
    BY <1>i, <2>1 DEF TypeOK
  <2>3. TypeOK'
    BY <1>i, <1>u, <2>1 DEF TypeOK
  <2>4. StripeAgrees'
    BY <1>i, <1>u, <2>1, <2>2, Remembered DEF StripeAgrees, Is
  <2>5. LedgerAgrees'
    BY <1>i, <1>u, <2>1 DEF LedgerAgrees, Live, Paid
  <2>6. \A v \in Tickets : Spared(v)
    BY <1>u, <2>1, <2>2 DEF Spared
  <2> QED
    BY <1>2, <2>3, <2>4, <2>5, <2>6
<1>4. ASSUME NEW i \in DOMAIN refunds[t], RefundEnds(t, i) PROVE IInv'
  <2>1. PICK status \in {"succeeded", "failed"} : refunds' = [refunds EXCEPT ![t][i] = status]
    BY <1>4 DEF RefundEnds
  <2>2. i = 1 /\ Len(refunds[t]) = 1 /\ refunds[t][1] = "pending" /\ UNCHANGED key
    <3>1. refunds[t] \in Seq(Status) /\ Len(refunds[t]) <= 1
      BY <1>i DEF TypeOK, StripeAgrees
    <3>2. i \in 1..Len(refunds[t]) /\ Len(refunds[t]) \in Nat
      BY <1>4, <3>1
    <3>3. Len(refunds[t]) = 1
      <4>1. Len(refunds[t]) = 0 \/ Len(refunds[t]) = 1
        BY <3>1, OneOrNone
      <4>2. Len(refunds[t]) # 0
        BY <3>2
      <4> QED
        BY <4>1, <4>2
    <3>4. i = 1
      BY <3>2, <3>3
    <3> QED
      BY <1>4, <3>3, <3>4 DEF RefundEnds
  <2>3. refunds'[t] = [refunds[t] EXCEPT ![1] = status]
        /\ \A v \in Tickets \ {t} : refunds'[v] = refunds[v]
    BY <1>i, <2>1, <2>2 DEF TypeOK
  <2>4. refunds'[t] \in Seq(Status) /\ Len(refunds'[t]) = 1 /\ refunds'[t][1] = status
    <3>1. refunds[t] \in Seq(Status) /\ status \in Status
      BY <1>i DEF TypeOK, Status
    <3> QED
      BY <2>2, <2>3, <3>1
  <2>5. TypeOK'
    BY <1>i, <1>u, <2>1, <2>2, <2>3, <2>4 DEF TypeOK
  <2>6. StripeAgrees'
    BY <1>i, <1>u, <2>2, <2>3, <2>4 DEF StripeAgrees, Is
  <2>h. /\ Live(t) /\ ~Paid(t)
        /\ Live(t)' => hold'[t] \in {"open", "settled"}
    BY <1>i, <1>u, <2>2, Histories DEF LedgerAgrees
  <2>7. LedgerAgrees'
    <3>1. ASSUME NEW v \in Tickets, v # t
          PROVE  /\ hold'[v] = "none" => Len(refunds'[v]) = 0
                 /\ Live(v)' => hold'[v] \in {"open", "settled"}
                 /\ hold'[v] = "settled" => Paid(v)'
                 /\ told'[v] => hold'[v] = "settled"
      BY <1>i, <1>u, <2>3, <3>1 DEF LedgerAgrees, Live, Paid
    <3>2. hold'[t] = "open" /\ ~told'[t]
      BY <1>i, <1>u, <2>h DEF LedgerAgrees, TypeOK
    <3> QED
      BY <3>1, <3>2 DEF LedgerAgrees
  <2>8. \A v \in Tickets : Spared(v)
    <3>1. ASSUME NEW v \in Tickets, v # t PROVE Spared(v)
      BY <1>u, <2>2, <2>3, <3>1 DEF Spared
    <3>2. Spared(t)
      BY <1>u, <2>2, <2>4 DEF Spared
    <3> QED
      BY <3>1, <3>2
  <2> QED
    BY <1>2, <2>5, <2>6, <2>7, <2>8
<1> QED
  BY <1>3, <1>4

-----------------------------------------------------------------------------
\* The theorems.

LEMMA StepKeeps == IInv /\ [Next]_vars => IInv'
<1> SUFFICES ASSUME IInv, [Next]_vars PROVE IInv'
  OBVIOUS
<1>1. ASSUME NEW p \in Calls, Operator(p) PROVE IInv'
  <2>1. CASE \E t \in Tickets : Refund(p, t) \/ Complete(p, t) \/ Abandon(p, t)
    BY <2>1, BeginningsKeep
  <2>2. CASE CheckPayment(p) \/ Look(p) \/ Dies(p)
    BY <2>2, QuietStepsKeep
  <2>3. CASE HoldCredits(p)
    BY <2>3, QuietStepsKeep, HoldingKeeps
  <2>4. CASE Create(p) \/ CreateUnclear(p) \/ CreateRefused(p)
    BY <2>4, StripeKeeps
  <2>5. CASE FinishSettled(p) \/ FinishPending(p) \/ Release(p)
    BY <2>5, FinishesKeep
  <2> QED
    BY <1>1, <2>1, <2>2, <2>3, <2>4, <2>5 DEF Operator
<1>2. ASSUME NEW t \in Tickets, KeyExpires(t) \/ \E i \in DOMAIN refunds[t] : RefundEnds(t, i)
      PROVE  IInv'
  BY <1>2, StripeMovesOn
<1>3. CASE UNCHANGED vars
  <2> USE <1>3 DEF vars
  <2>1. TypeOK'
    BY DEF IInv, TypeOK
  <2>2. StripeAgrees'
    BY DEF IInv, StripeAgrees, Is, Live, Paid, On, T
  <2>3. LedgerAgrees'
    BY DEF IInv, LedgerAgrees, Is, Live, Paid, On, T
  <2>4. RequestsAgree'
    <3>1. Apart'
      BY DEF IInv, RequestsAgree, Apart
    <3>2. ASSUME NEW p \in Calls, call'[p] # Idle PROVE AgreesAt(p)'
      <4>1. AgreesAt(p)
        BY <3>2 DEF IInv, RequestsAgree
      <4> QED
        BY <4>1 DEF AgreesAt, Is, Live, Paid, On, T
    <3> QED
      BY <3>1, <3>2 DEF RequestsAgree
  <2> QED
    BY <2>1, <2>2, <2>3, <2>4 DEF IInv
<1> QED
  BY <1>1, <1>2, <1>3 DEF Next

\* The hold, Stripe's refund, its idempotency key, the audit row and what every
\* request under way believes never contradict each other.
THEOREM TicketsAgree == Spec => []IInv
  BY InitEstablishes, StepKeeps, PTL DEF Spec

\* A ticket never has a second refund at Stripe, however often its answers are
\* lost and its key expires.
THEOREM RefundedOnce == Spec => []OneRefund
<1>1. IInv => OneRefund
  BY DEF IInv, StripeAgrees, OneRefund
<1> QED
  BY <1>1, TicketsAgree, PTL

\* Credits and card money never both go back: a ticket with a refund on its way
\* has its credits locked or charged.
THEOREM NeverBothBack == Spec => []NeverBoth
<1>1. IInv => NeverBoth
  BY DEF IInv, LedgerAgrees, NeverBoth
<1> QED
  BY <1>1, TicketsAgree, PTL

\* Credits that were taken were paid out.
THEOREM TakenIsPaid == Spec => []ChargedIsPaid
<1>1. IInv => ChargedIsPaid
  BY DEF IInv, LedgerAgrees, ChargedIsPaid
<1> QED
  BY <1>1, TicketsAgree, PTL

\* An operator who is told that a ticket is settled finds it settled.
THEOREM OperatorIsToldTheTruth == Spec => []TellsTruth
<1>1. IInv => TellsTruth
  BY DEF IInv, LedgerAgrees, TellsTruth
<1> QED
  BY <1>1, TicketsAgree, PTL
=============================================================================
