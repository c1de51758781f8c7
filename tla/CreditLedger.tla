---------------------------- MODULE CreditLedger ----------------------------
(***************************************************************************)
(* The credit ledger of one workspace: what packages/db/src/credits.ts     *)
(* promises, one committed transaction per action.  Everything the ledger  *)
(* does is keyed by orgId, so one workspace stands for all of them.        *)
(*                                                                         *)
(* The ledger is append-only and is kept as a sequence of rows in commit   *)
(* order; the account row (balance, reserved) is a cache of its two delta  *)
(* columns that every operation updates with a statement of its own.       *)
(* LedgerTx is the statement-by-statement program that implements this.    *)
(*                                                                         *)
(* Refusals (InsufficientCredits, SpendCapBlocked, OrgSuspended, P2002)    *)
(* roll the transaction back, so a refused call is simply not a step.      *)
(***************************************************************************)
EXTENDS Sums, Sequences

CONSTANTS
    Jobs,            \* refIds of fixed-price work: gen, refgen, understanding
    Turns,           \* refIds of conversation turns (elastic holds)
    ManualRefunds,   \* refIds with the prefix manual-refund:
    Purchases,       \* idempotency keys of grants whose source is not ADMIN
    Adjustments,     \* idempotency keys of the grants an operator makes
    Amounts,         \* the prices and grant sizes considered
    NoCap,           \* readSpendCap: the merchant set no ceiling
    Unreadable,      \* readSpendCap: the stored ceiling does not parse
    Caps,            \* the ceilings the merchant may set, with the two above
    AdjustLimit,     \* FINANCE_ADJUST_LIMITS.rolling30dTotalInternal
    Window,          \* FINANCE_ADJUST_WINDOW_MS, in days
    TurnMinimum,     \* minimumInternal of a turn's hold
    TurnElastic,     \* llmCapInternal of a turn's hold
    SlotPrice,       \* searchUnitInternal
    MaxSlots,        \* maxSearchUnits
    LastDay,         \* bound: the days the clock runs through
    MaxSeen          \* bound: the balances a turn may have read

Refs == Jobs \cup Turns \cup ManualRefunds
GrantKeys == Purchases \cup Adjustments

ASSUME RefAssumption ==
    /\ Jobs \cap Turns = {}
    /\ Jobs \cap ManualRefunds = {}
    /\ Turns \cap ManualRefunds = {}
    /\ Purchases \cap Adjustments = {}
    /\ Refs \cap GrantKeys = {}
ASSUME AmountAssumption == Amounts \subseteq Nat \ {0}
ASSUME CapAssumption == NoCap \in Caps /\ Caps \ {NoCap, Unreadable} \subseteq Nat
ASSUME LimitAssumption ==
    /\ AdjustLimit \in Nat
    /\ Window \in Nat
    /\ LastDay \in Nat
    /\ MaxSeen \in Nat
\* assertFirmLegShape: the four composition-time numbers of a turn.
ASSUME TurnAssumption ==
    /\ TurnMinimum \in Nat
    /\ TurnElastic \in Nat
    /\ SlotPrice \in Nat \ {0}
    /\ MaxSlots \in Nat \ {0}

VARIABLES
    balance,    \* CreditAccount.balance
    reserved,   \* CreditAccount.reserved
    ledger,     \* CreditLedger, in commit order
    slots,      \* the search slots the ledger granted to each turn
    cap,        \* Organization.settings.spendCapCredits
    today       \* the clock the rolling window reads

vars == <<balance, reserved, ledger, slots, cap, today>>

-----------------------------------------------------------------------------
\* Reading the ledger.

Total(column) == SumUpTo(column, Len(ledger))

BalanceDeltas == [i \in 1..Len(ledger) |-> ledger[i].balanceDelta]
ReservedDeltas == [i \in 1..Len(ledger) |-> ledger[i].reservedDelta]

Kinds == {"GRANT", "ADJUST", "RESERVE", "SETTLE", "REFUND"}
Row == [kind : Kinds, ref : Refs \cup GrantKeys,
        balanceDelta : Int, reservedDelta : Int, day : Nat]

Posted(kinds, ref) ==
    \E i \in 1..Len(ledger) : ledger[i].kind \in kinds /\ ledger[i].ref = ref
Finalized(ref) == Posted({"SETTLE", "REFUND"}, ref)

\* adjustWindowFilter: ADMIN grants and deductions, and the holds of manual
\* refunds; both directions count.
IsManual(row) ==
    \/ row.kind \in {"GRANT", "ADJUST"} /\ row.ref \in Adjustments
    \/ row.kind = "RESERVE" /\ row.ref \in ManualRefunds
ManualDeltas(from, to) ==
    [i \in 1..Len(ledger) |->
        IF IsManual(ledger[i]) /\ ledger[i].day \in from..to
        THEN Magnitude(ledger[i].balanceDelta) ELSE 0]
UsedByDay(d) == Total(ManualDeltas(d - Window, d))

Post(kind, ref, db, dr) ==
    ledger' = Append(ledger, [kind |-> kind, ref |-> ref, balanceDelta |-> db,
                              reservedDelta |-> dr, day |-> today])

-----------------------------------------------------------------------------
\* Holding credits.

\* reserveAgainstBalance: the conditional decrement and its RESERVE row; the
\* unique key reserve:<ref> refuses a second hold.
TakeHold(ref, cost) ==
    /\ cost > 0
    /\ balance >= cost
    /\ ~Posted({"RESERVE"}, ref)
    /\ balance' = balance - cost
    /\ reserved' = reserved + cost
    /\ Post("RESERVE", ref, -cost, cost)

\* assertWithinSpendCap.
WithinSpendCap(cost) == cap # Unreadable /\ (cap # NoCap => cost <= cap)

\* reserveCredits for paid work.
Reserve(ref, cost) ==
    /\ WithinSpendCap(cost)
    /\ TakeHold(ref, cost)
    /\ UNCHANGED <<slots, cap, today>>

\* Mutant: a hold that does not pay for the slots.
TurnHoldWithoutSlots(seen) == Smaller(Larger(TurnElastic, TurnMinimum), seen)

\* reserveUpToCore: what the balance it read allows.
GrantedSlots(seen) ==
    Larger(0, Smaller(MaxSlots, (seen - TurnMinimum) \div SlotPrice))
TurnHold(seen) ==
    Smaller(Larger(TurnElastic, TurnMinimum) + GrantedSlots(seen) * SlotPrice, seen)

\* reserveChatTurnWithSearchSlots.  The balance it reads is not locked, so the
\* hold is computed from a balance that may be gone when it is taken.
ReserveTurn(ref, seen) ==
    /\ seen >= TurnMinimum
    /\ TakeHold(ref, TurnHold(seen))
    /\ slots' = [slots EXCEPT ![ref] = GrantedSlots(seen)]
    /\ UNCHANGED <<cap, today>>

\* The money leg of refundCreditsAction: window first, then a hold that the
\* spend cap does not judge.
ReserveManualRefund(ref, cost) ==
    /\ UsedByDay(today) + cost <= AdjustLimit
    /\ TakeHold(ref, cost)
    /\ UNCHANGED <<slots, cap, today>>

-----------------------------------------------------------------------------
\* Finalizing a hold.

\* Mutants: the account gets the whole hold back; only the charge is released;
\* a second finalizer is let through.
SettleGivesAllBack(ref, actual) ==
    \E i \in 1..Len(ledger) :
        /\ ledger[i].kind = "RESERVE" /\ ledger[i].ref = ref
        /\ ~Finalized(ref)
        /\ LET held == ledger[i].reservedDelta
           IN  /\ Post("SETTLE", ref, held - Smaller(actual, held), -held)
               /\ balance' = balance + held
               /\ reserved' = reserved - held
        /\ UNCHANGED <<slots, cap, today>>
SettleReleasesCharge(ref, actual) ==
    \E i \in 1..Len(ledger) :
        /\ ledger[i].kind = "RESERVE" /\ ledger[i].ref = ref
        /\ ~Finalized(ref)
        /\ LET held == ledger[i].reservedDelta
               charged == Smaller(actual, held)
           IN  /\ Post("SETTLE", ref, held - charged, -charged)
               /\ balance' = balance + (held - charged)
               /\ reserved' = reserved - charged
        /\ UNCHANGED <<slots, cap, today>>
RefundAgain(ref) ==
    \E i \in 1..Len(ledger) :
        /\ ledger[i].kind = "RESERVE" /\ ledger[i].ref = ref
        /\ ~Posted({"REFUND"}, ref)
        /\ LET held == ledger[i].reservedDelta
           IN  /\ Post("REFUND", ref, held, -held)
               /\ balance' = balance + held
               /\ reserved' = reserved - held
        /\ UNCHANGED <<slots, cap, today>>

\* settleCredits: charge min(actual, hold), return the rest.
Settle(ref, actual) ==
    \E i \in 1..Len(ledger) :
        /\ ledger[i].kind = "RESERVE" /\ ledger[i].ref = ref
        /\ ~Finalized(ref)
        /\ LET held == ledger[i].reservedDelta
               charged == Smaller(Larger(0, actual), held)
           IN  /\ Post("SETTLE", ref, held - charged, -held)
               /\ balance' = balance + (held - charged)
               /\ reserved' = reserved - held
        /\ UNCHANGED <<slots, cap, today>>

\* refundReservation: give the whole hold back.
Refund(ref) ==
    \E i \in 1..Len(ledger) :
        /\ ledger[i].kind = "RESERVE" /\ ledger[i].ref = ref
        /\ ~Finalized(ref)
        /\ LET held == ledger[i].reservedDelta
           IN  /\ Post("REFUND", ref, held, -held)
               /\ balance' = balance + held
               /\ reserved' = reserved - held
        /\ UNCHANGED <<slots, cap, today>>

-----------------------------------------------------------------------------
\* Granting and deducting.

\* grantCredits and grantCreditsTx for a source other than ADMIN.
Grant(key, amount) ==
    /\ ~Posted({"GRANT", "ADJUST"}, key)
    /\ Post("GRANT", key, amount, 0)
    /\ balance' = balance + amount
    /\ UNCHANGED <<reserved, slots, cap, today>>

\* Mutant: the window is judged without the movement it judges.
AdjustUncounted(key, amount) ==
    /\ ~Posted({"GRANT", "ADJUST"}, key)
    /\ UsedByDay(today) <= AdjustLimit
    /\ balance + amount >= 0
    /\ Post(IF amount > 0 THEN "GRANT" ELSE "ADJUST", key, amount, 0)
    /\ balance' = balance + amount
    /\ UNCHANGED <<reserved, slots, cap, today>>

\* grantCredits with source ADMIN, in both directions: the row counts against
\* the window that judges it, and a deduction never overdraws.
Adjust(key, amount) ==
    /\ ~Posted({"GRANT", "ADJUST"}, key)
    /\ UsedByDay(today) + Magnitude(amount) <= AdjustLimit
    /\ balance + amount >= 0
    /\ Post(IF amount > 0 THEN "GRANT" ELSE "ADJUST", key, amount, 0)
    /\ balance' = balance + amount
    /\ UNCHANGED <<reserved, slots, cap, today>>

-----------------------------------------------------------------------------
\* The surroundings: the merchant's ceiling and the clock.

SetSpendCap(c) ==
    /\ cap' = c
    /\ UNCHANGED <<balance, reserved, ledger, slots, today>>

Tick ==
    /\ today < LastDay
    /\ today' = today + 1
    /\ UNCHANGED <<balance, reserved, ledger, slots, cap>>

Init ==
    /\ balance = 0
    /\ reserved = 0
    /\ ledger = <<>>
    /\ slots = [t \in Turns |-> 0]
    /\ cap = NoCap
    /\ today = 0

Next ==
    \/ \E j \in Jobs, c \in Amounts : Reserve(j, c)
    \/ \E t \in Turns, seen \in 0..MaxSeen : ReserveTurn(t, seen)
    \/ \E m \in ManualRefunds, c \in Amounts : ReserveManualRefund(m, c)
    \/ \E r \in Refs, a \in Amounts \cup {0} : Settle(r, a)
    \/ \E r \in Refs : Refund(r)
    \/ \E g \in Purchases, a \in Amounts : Grant(g, a)
    \/ \E g \in Adjustments, a \in Amounts : Adjust(g, a) \/ Adjust(g, -a)
    \/ \E c \in Caps : SetSpendCap(c)
    \/ Tick

Spec == Init /\ [][Next]_vars

-----------------------------------------------------------------------------
\* Properties.

\* The state is well typed; slots are only ever granted up to MaxSlots.
TypeOK ==
    /\ balance \in Int
    /\ reserved \in Int
    /\ ledger \in Seq(Row)
    /\ slots \in [Turns -> 0..MaxSlots]
    /\ cap \in Caps
    /\ today \in Nat

\* The account row is exactly the sum of the ledger's two delta columns, after
\* any mix of holds, settlements, refunds, grants and deductions.
Conservation ==
    /\ balance = Total(BalanceDeltas)
    /\ reserved = Total(ReservedDeltas)

\* Nothing is ever spent that is not there: neither the spendable balance nor
\* the amount in flight goes below zero.
NeverNegative == balance >= 0 /\ reserved >= 0

\* Each hold is taken at most once and finalized at most once, a finalizer
\* never precedes its hold, and no grant key is applied twice.
ExactlyOnce ==
    \A i, j \in 1..Len(ledger) :
        /\ ledger[i].ref = ledger[j].ref /\ i # j =>
              /\ {ledger[i].kind, ledger[j].kind} \subseteq {"RESERVE", "SETTLE", "REFUND"}
              /\ ledger[i].kind = "RESERVE" <=> ledger[j].kind # "RESERVE"
              /\ ledger[i].kind = "RESERVE" => i < j
        /\ ledger[i].kind \in {"SETTLE", "REFUND"} => Posted({"RESERVE"}, ledger[i].ref)

\* What is in flight is exactly the holds nobody has finalized: a finalizer
\* releases the amount its own hold took, no more and no less.
OpenHolds ==
    [i \in 1..Len(ledger) |->
        IF ledger[i].kind = "RESERVE" /\ ~Finalized(ledger[i].ref)
        THEN ledger[i].reservedDelta ELSE 0]
ReservedIsOpenHolds == reserved = Total(OpenHolds)

\* A hold covers the turn's minimum and the full price of every search slot
\* that was granted with it, whatever balance the turn happened to read.
SlotsAreHeld ==
    \A i \in 1..Len(ledger) :
        ledger[i].kind = "RESERVE" /\ ledger[i].ref \in Turns =>
            ledger[i].reservedDelta >= TurnMinimum + slots[ledger[i].ref] * SlotPrice

\* In every window of Window days, past or present, manual movements in both
\* directions stay within the limit.
AdjustWindowBounded == \A d \in 0..today : UsedByDay(d) <= AdjustLimit
=============================================================================
