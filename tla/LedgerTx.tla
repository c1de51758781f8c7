------------------------------ MODULE LedgerTx ------------------------------
(***************************************************************************)
(* The ledger operations as the database runs them: concurrent             *)
(* transactions, one SQL statement per action, under PostgreSQL's READ     *)
(* COMMITTED isolation.  The variables of CreditLedger are the committed   *)
(* state; tx is what each connection has done and not yet committed.       *)
(*                                                                         *)
(* Locks, all of them kept until the transaction ends:                     *)
(*   - the Organization row, exclusively (SELECT ... FOR UPDATE) or shared *)
(*     (the FOR KEY SHARE a foreign key takes when a row is inserted);     *)
(*   - the CreditAccount row, by the UPDATE that moves the balance;        *)
(*   - a unique key, by an inserted row that is not committed yet.         *)
(* A statement whose lock another connection holds is not enabled.  A      *)
(* refused statement throws: nothing but Abort is left to its transaction. *)
(*                                                                         *)
(* The clock stands still here: one window of CreditLedger.                *)
(***************************************************************************)
EXTENDS CreditLedger, FiniteSets

CONSTANT Procs    \* database connections of the web servers and the worker

ASSUME ProcsAssumption == IsFiniteSet(Procs)
\* MaxSeen hides nothing: a larger balance grants and holds what MaxSeen does.
ASSUME SeenAssumption ==
    MaxSeen >= Larger(TurnElastic, TurnMinimum) + MaxSlots * SlotPrice

VARIABLE tx       \* what each connection is in the middle of

txVars == <<balance, reserved, ledger, slots, cap, today, tx>>

NoRow == [kind |-> "none"]
Idle == [op |-> "none", pc |-> "idle"]

\* Mutant: the manual refund holds first and leaves the lock for later.
FirstStatementHolds(op) ==
    CASE op = "job" -> "insertJob"
      [] op = "turn" -> "readBalance"
      [] op = "manual" -> "hold"
      [] op = "adjust" -> "lockForAdjust"
      [] op = "grant" -> "insertGrant"
      [] op \in {"settle", "refund"} -> "readReserve"

FirstStatement(op) ==
    CASE op = "job" -> "insertJob"
      [] op = "turn" -> "readBalance"
      [] op \in {"manual", "adjust"} -> "lockForAdjust"
      [] op = "grant" -> "insertGrant"
      [] op \in {"settle", "refund"} -> "readReserve"

Transaction(op, ref, amount) ==
    [op |-> op, ref |-> ref, amount |-> amount, pc |-> FirstStatement(op),
     org |-> "none", account |-> FALSE, seen |-> 0,
     row |-> NoRow, db |-> 0, dr |-> 0]

-----------------------------------------------------------------------------
\* Locks.

Active(p) == tx[p].pc # "idle"
Others(p) == {q \in Procs \ {p} : Active(q)}

InFlight(q, kinds, ref) ==
    tx[q].row.kind \in kinds /\ tx[q].row.ref = ref

\* The unique indexes an insert meets: reserve:<ref>, the grant's own key, and
\* finalizer_once over SETTLE and REFUND.
UniqueWith(p) ==
    CASE tx[p].pc = "insertReserve" -> {"RESERVE"}
      [] tx[p].pc = "insertGrant" -> {"GRANT", "ADJUST"}
      [] tx[p].pc = "insertFinal" -> {"SETTLE", "REFUND"}
      [] OTHER -> {}

\* p's next statement has to wait until q's transaction ends.
WaitsFor(p, q) ==
    /\ Active(p)
    /\ q \in Others(p)
    /\ \/ tx[p].pc \in {"lockForCap", "lockForAdjust"} /\ tx[q].org # "none"
       \/ /\ tx[p].pc \in {"insertJob", "insertReserve", "insertGrant", "insertFinal"}
          /\ tx[q].org = "exclusive" \/ InFlight(q, UniqueWith(p), tx[p].ref)
       \/ tx[p].pc \in {"hold", "applyGrant", "applyFinal"} /\ tx[q].account

Runs(p, statement) ==
    /\ tx[p].pc = statement
    /\ \A q \in Procs : ~WaitsFor(p, q)

Share(p) == IF tx[p].org = "exclusive" THEN "exclusive" ELSE "shared"

\* p goes on to statement pc with its transaction changed as next says.
GoesOn(p, next) ==
    /\ tx' = [tx EXCEPT ![p] = next]
    /\ UNCHANGED vars

-----------------------------------------------------------------------------
\* Holding: startGen, the metered turn, and the manual refund's first leg.

Begin(p, op, ref, amount) ==
    /\ ~Active(p)
    /\ GoesOn(p, Transaction(op, ref, amount))

\* startGen inserts the GenJob row before it reserves.
InsertJob(p) ==
    /\ Runs(p, "insertJob")
    /\ GoesOn(p, [tx[p] EXCEPT !.pc = "lockForCap", !.org = Share(p)])

\* Mutant: the cap is read by a plain SELECT.
LockForCapPlain(p) ==
    /\ Runs(p, "lockForCap")
    /\ WithinSpendCap(tx[p].amount)
    /\ GoesOn(p, [tx[p] EXCEPT !.pc = "hold"])

\* assertWithinSpendCap: lock the organization, then judge the cap it holds.
LockForCap(p) ==
    /\ Runs(p, "lockForCap")
    /\ WithinSpendCap(tx[p].amount)
    /\ GoesOn(p, [tx[p] EXCEPT !.pc = "hold", !.org = "exclusive"])

\* lockOrgForAdjust.
LockForAdjust(p) ==
    /\ Runs(p, "lockForAdjust")
    /\ GoesOn(p, [tx[p] EXCEPT
           !.pc = IF tx[p].op = "manual" THEN "countWindow" ELSE "insertGrant",
           !.org = "exclusive"])

\* assertAdjustWindowUnderLock: the committed rows, this transaction's own row
\* and what it has not written yet.
CountWindow(p) ==
    /\ Runs(p, "countWindow")
    /\ UsedByDay(today) + Magnitude(tx[p].amount) <= AdjustLimit
    /\ GoesOn(p, [tx[p] EXCEPT
           !.pc = IF tx[p].op = "manual" THEN "hold" ELSE "applyGrant"])

\* reserveUpToCore: an unlocked read decides the hold and the slots.
ReadBalance(p) ==
    /\ Runs(p, "readBalance")
    /\ balance >= TurnMinimum
    /\ TurnHold(balance) > 0
    /\ GoesOn(p, [tx[p] EXCEPT
           !.pc = "hold", !.seen = balance, !.amount = TurnHold(balance)])

\* reserveAgainstBalance: the conditional decrement, judged on the committed
\* balance under the account row's lock.
HoldCredits(p) ==
    /\ Runs(p, "hold")
    /\ balance >= tx[p].amount
    /\ GoesOn(p, [tx[p] EXCEPT
           !.pc = "insertReserve", !.account = TRUE,
           !.db = -tx[p].amount, !.dr = tx[p].amount])

NewRow(kind, ref, db, dr) ==
    [kind |-> kind, ref |-> ref, balanceDelta |-> db, reservedDelta |-> dr, day |-> today]

InsertReserve(p) ==
    /\ Runs(p, "insertReserve")
    /\ ~Posted({"RESERVE"}, tx[p].ref)
    /\ GoesOn(p, [tx[p] EXCEPT
           !.pc = "commit", !.org = Share(p),
           !.row = NewRow("RESERVE", tx[p].ref, -tx[p].amount, tx[p].amount)])

-----------------------------------------------------------------------------
\* Granting and deducting: grantCredits and grantCreditsTx.

InsertGrant(p) ==
    /\ Runs(p, "insertGrant")
    /\ ~Posted({"GRANT", "ADJUST"}, tx[p].ref)
    /\ GoesOn(p, [tx[p] EXCEPT
           !.pc = IF tx[p].op = "adjust" THEN "countWindow" ELSE "applyGrant",
           !.org = Share(p),
           !.row = NewRow(IF tx[p].amount > 0 THEN "GRANT" ELSE "ADJUST",
                          tx[p].ref, tx[p].amount, 0)])

ApplyGrant(p) ==
    /\ Runs(p, "applyGrant")
    /\ tx[p].amount > 0 \/ balance >= -tx[p].amount
    /\ GoesOn(p, [tx[p] EXCEPT !.pc = "commit", !.account = TRUE, !.db = tx[p].amount])

-----------------------------------------------------------------------------
\* Finalizing: settleCredits and refundReservation.

\* The hold is read without a lock; it never changes once it is committed.
ReadReserve(p) ==
    /\ Runs(p, "readReserve")
    /\ \E i \in 1..Len(ledger) :
          /\ ledger[i].kind = "RESERVE" /\ ledger[i].ref = tx[p].ref
          /\ GoesOn(p, [tx[p] EXCEPT !.pc = "insertFinal", !.seen = ledger[i].reservedDelta])

\* What of the hold goes back to the balance.
GivesBack(p) ==
    IF tx[p].op = "refund" THEN tx[p].seen
    ELSE tx[p].seen - Smaller(Larger(0, tx[p].amount), tx[p].seen)

\* INSERT ... ON CONFLICT DO NOTHING: the loser of a race waits for the winner,
\* inserts nothing and leaves the account alone.
InsertFinal(p) ==
    /\ Runs(p, "insertFinal")
    /\ ~Finalized(tx[p].ref)
    /\ GoesOn(p, [tx[p] EXCEPT
           !.pc = "applyFinal", !.org = Share(p),
           !.row = NewRow(IF tx[p].op = "refund" THEN "REFUND" ELSE "SETTLE",
                          tx[p].ref, GivesBack(p), -tx[p].seen)])

ApplyFinal(p) ==
    /\ Runs(p, "applyFinal")
    /\ GoesOn(p, [tx[p] EXCEPT !.pc = "commit", !.account = TRUE,
                               !.db = GivesBack(p), !.dr = -tx[p].seen])

-----------------------------------------------------------------------------
\* The end of a transaction, and the merchant.

Commit(p) ==
    /\ Runs(p, "commit")
    /\ ledger' = Append(ledger, tx[p].row)
    /\ balance' = balance + tx[p].db
    /\ reserved' = reserved + tx[p].dr
    /\ slots' = IF tx[p].op = "turn"
                THEN [slots EXCEPT ![tx[p].ref] = GrantedSlots(tx[p].seen)] ELSE slots
    /\ tx' = [tx EXCEPT ![p] = Idle]
    /\ UNCHANGED <<cap, today>>

\* A refusal, a lost connection, a crash, or the deadlock detector's victim.
Abort(p) ==
    /\ Active(p)
    /\ GoesOn(p, Idle)

\* Saving settings updates the organization row without changing its key, so
\* only an exclusive lock holds it up.
SaveSpendCap(c) ==
    /\ \A p \in Procs : Active(p) => tx[p].org # "exclusive"
    /\ cap' = c
    /\ UNCHANGED <<balance, reserved, ledger, slots, today, tx>>

TxInit == Init /\ tx = [p \in Procs |-> Idle]

Statement(p) ==
    \/ InsertJob(p) \/ LockForCap(p) \/ LockForAdjust(p) \/ CountWindow(p)
    \/ ReadBalance(p) \/ HoldCredits(p) \/ InsertReserve(p)
    \/ InsertGrant(p) \/ ApplyGrant(p)
    \/ ReadReserve(p) \/ InsertFinal(p) \/ ApplyFinal(p)
    \/ Commit(p)

Start(p) ==
    \/ \E j \in Jobs, c \in Amounts : Begin(p, "job", j, c)
    \/ \E t \in Turns : Begin(p, "turn", t, 0)
    \/ \E m \in ManualRefunds, c \in Amounts : Begin(p, "manual", m, c)
    \/ \E g \in Purchases, a \in Amounts : Begin(p, "grant", g, a)
    \/ \E g \in Adjustments, a \in Amounts :
          Begin(p, "adjust", g, a) \/ Begin(p, "adjust", g, -a)
    \/ \E r \in Refs, a \in Amounts \cup {0} : Begin(p, "settle", r, a)
    \/ \E r \in Refs : Begin(p, "refund", r, 0)

TxNext ==
    \/ \E p \in Procs : Start(p) \/ Statement(p) \/ Abort(p)
    \/ \E c \in Caps : SaveSpendCap(c)

TxSpec == TxInit /\ [][TxNext]_txVars

-----------------------------------------------------------------------------
\* Properties.

\* Every interleaving of statements commits only what CreditLedger allows: the
\* cap that judged a hold is still the merchant's cap when the hold commits,
\* the window that judged a manual movement still has room for it, and the
\* account moves by exactly what the committed row says.
ImplementsLedger == Spec

\* Transactions waiting for each other in a ring.
LockCycle(S) == S # {} /\ \A p \in S : \E q \in S : WaitsFor(p, q)

\* What takes the organization before the account (a submit's cap, a manual
\* refund, an operator's adjustment), what takes the account only (a purchase)
\* and the finalizers never close a ring among themselves: every ring has a
\* turn in it, whose hold takes the account row first, or a second submit.
NoLockCycle ==
    \A S \in SUBSET Procs : LockCycle(S) =>
        \/ \E p \in S : tx[p].op = "turn"
        \/ Cardinality({p \in S : tx[p].op = "job"}) > 1
=============================================================================
