------------------------- MODULE CreditLedgerProofs -------------------------
(***************************************************************************)
(* The ledger's invariants, for every set of references and every price,   *)
(* and its transactions, for every number of connections.                  *)
(*                                                                         *)
(* Every step of Next is a hold, a finalizer, a grant or leaves the        *)
(* account and the ledger alone (StepShapes); each invariant is proved     *)
(* against those four shapes.  The second half shows that LedgerTx, the    *)
(* program statement by statement, implements CreditLedger: TxInv says     *)
(* what an open transaction's earlier statements found and still holds     *)
(* when it commits, because of the locks it has.                           *)
(***************************************************************************)
EXTENDS LedgerTx, FiniteSetTheorems, WellFoundedInduction, SequenceTheorems, TLAPS

-----------------------------------------------------------------------------
\* Sums over a column.

Below == {ss \in Nat \X Nat : ss[1] < ss[2]}

\* The least-number principle for a set of naturals.
LEMMA LeastElement ==
    ASSUME NEW T \in SUBSET Nat, T # {}
    PROVE  \E x \in T : \A y \in T : x <= y
<1>1. IsWellFoundedOn(Below, Nat)
  BY NatLessThanWellFounded DEF OpToRel, Below
<1>2. PICK x \in T : \A y \in T : ~(<<y, x>> \in Below)
  BY <1>1, WFMin
<1>3. \A y \in T : ~(y < x)
  BY <1>2 DEF Below
<1>4. \A y \in T : x <= y
  BY <1>3
<1> QED
  BY <1>4

\* f is the table of partial sums of d up to n.
IsRunningSum(f, d, n) ==
    f = [i \in 0..n |-> IF i = 0 THEN 0 ELSE f[i - 1] + d[i]]

\* A running sum of every column exists: otherwise take the shortest prefix
\* without one and extend the running sum of the prefix before it.
LEMMA RunningSumExists ==
    ASSUME NEW d, NEW n \in Nat
    PROVE  \E f : IsRunningSum(f, d, n)
<1> DEFINE Bad == {m \in Nat : ~\E f : IsRunningSum(f, d, m)}
<1>1. SUFFICES ASSUME Bad # {} PROVE FALSE
  OBVIOUS
<1>2. PICK m \in Bad : \A k \in Bad : m <= k
  BY <1>1, LeastElement
<1>3. m # 0
  <2>1. IsRunningSum([i \in 0..0 |-> 0], d, 0)
    BY DEF IsRunningSum
  <2> QED
    BY <2>1
<1>4. PICK f : IsRunningSum(f, d, m - 1)
  BY <1>2, <1>3
<1>5. DEFINE g == [i \in 0..m |-> IF i = m THEN f[m - 1] + d[m] ELSE f[i]]
<1>6. ASSUME NEW i \in 0..m
      PROVE  g[i] = IF i = 0 THEN 0 ELSE g[i - 1] + d[i]
  <2>1. CASE i = m
    BY <2>1, <1>3, <1>2
  <2>2. CASE i # m
    <3>1. i \in 0..(m - 1)
      BY <2>2, <1>2
    <3>2. f[i] = IF i = 0 THEN 0 ELSE f[i - 1] + d[i]
      BY <3>1, <1>4 DEF IsRunningSum
    <3> QED
      BY <3>1, <3>2, <2>2, <1>2
  <2> QED
    BY <2>1, <2>2
<1>7. IsRunningSum(g, d, m)
  BY <1>6 DEF IsRunningSum
<1> QED
  BY <1>7, <1>2

LEMMA SumEquation ==
    ASSUME NEW d, NEW n \in Nat
    PROVE  \E f : IsRunningSum(f, d, n) /\ SumUpTo(d, n) = f[n]
<1> DEFINE h == CHOOSE f : IsRunningSum(f, d, n)
<1>1. IsRunningSum(h, d, n)
  BY RunningSumExists
<1>2. SumUpTo(d, n) = h[n]
  BY DEF SumUpTo, IsRunningSum
<1> QED
  BY <1>1, <1>2

\* Columns that agree on a prefix have the same partial sums on it.
LEMMA RunningSumsAgree ==
    ASSUME NEW d, NEW e, NEW m \in Nat, NEW n \in Nat, m <= n,
           \A i \in 1..m : d[i] = e[i],
           NEW f, IsRunningSum(f, d, m),
           NEW g, IsRunningSum(g, e, n)
    PROVE  \A i \in 0..m : f[i] = g[i]
<1> DEFINE Bad == {i \in Nat : i <= m /\ f[i] # g[i]}
<1>1. SUFFICES ASSUME Bad # {} PROVE FALSE
  OBVIOUS
<1>2. PICK i \in Bad : \A k \in Bad : i <= k
  BY <1>1, LeastElement
<1>3. f[i] = IF i = 0 THEN 0 ELSE f[i - 1] + d[i]
  BY DEF IsRunningSum
<1>4. g[i] = IF i = 0 THEN 0 ELSE g[i - 1] + e[i]
  BY DEF IsRunningSum
<1>5. CASE i = 0
  BY <1>3, <1>4, <1>5
<1>6. CASE i # 0
  <2>1. i - 1 \in 0..m /\ i - 1 \notin Bad /\ d[i] = e[i]
    BY <1>2, <1>6
  <2> QED
    BY <2>1, <1>3, <1>4, <1>6
<1> QED
  BY <1>5, <1>6

LEMMA SumOfNothing ==
    ASSUME NEW d
    PROVE  SumUpTo(d, 0) = 0
<1>1. PICK f : IsRunningSum(f, d, 0) /\ SumUpTo(d, 0) = f[0]
  BY SumEquation
<1> QED
  BY <1>1 DEF IsRunningSum

LEMMA SumIsInt ==
    ASSUME NEW d, NEW n \in Nat, \A i \in 1..n : d[i] \in Int
    PROVE  SumUpTo(d, n) \in Int
<1>1. PICK f : IsRunningSum(f, d, n) /\ SumUpTo(d, n) = f[n]
  BY SumEquation
<1> DEFINE Bad == {i \in Nat : i <= n /\ f[i] \notin Int}
<1>2. SUFFICES ASSUME Bad # {} PROVE FALSE
  BY <1>1
<1>3. PICK i \in Bad : \A k \in Bad : i <= k
  BY <1>2, LeastElement
<1>4. f[i] = IF i = 0 THEN 0 ELSE f[i - 1] + d[i]
  BY <1>1 DEF IsRunningSum
<1>5. i # 0 => f[i - 1] \in Int
  BY <1>3
<1> QED
  BY <1>4, <1>5

\* Appending one entry to a column adds it to the sum.
LEMMA SumExtends ==
    ASSUME NEW d, NEW e, NEW n \in Nat, \A i \in 1..n : d[i] = e[i]
    PROVE  SumUpTo(e, n + 1) = SumUpTo(d, n) + e[n + 1]
<1>1. PICK f : IsRunningSum(f, d, n) /\ SumUpTo(d, n) = f[n]
  BY SumEquation
<1>2. PICK g : IsRunningSum(g, e, n + 1) /\ SumUpTo(e, n + 1) = g[n + 1]
  BY SumEquation
<1>3. f[n] = g[n]
  <2>1. n + 1 \in Nat /\ n <= n + 1 /\ n \in 0..n
    OBVIOUS
  <2>2. \A i \in 0..n : f[i] = g[i]
    BY <1>1, <1>2, <2>1, RunningSumsAgree
  <2> QED
    BY <2>1, <2>2
<1>4. g[n + 1] = g[n] + e[n + 1]
  BY <1>2 DEF IsRunningSum
<1> QED
  BY <1>1, <1>2, <1>3, <1>4

\* A column that is smaller entry by entry has the smaller sum.
LEMMA SumMonotone ==
    ASSUME NEW d, NEW e, NEW n \in Nat,
           \A i \in 1..n : d[i] \in Int /\ e[i] \in Int /\ d[i] <= e[i]
    PROVE  SumUpTo(d, n) <= SumUpTo(e, n)
<1> DEFINE Bad == {m \in Nat : m <= n /\ ~(SumUpTo(d, m) <= SumUpTo(e, m))}
<1>1. SUFFICES ASSUME Bad # {} PROVE FALSE
  OBVIOUS
<1>2. PICK m \in Bad : \A k \in Bad : m <= k
  BY <1>1, LeastElement
<1>3. m # 0
  BY <1>2, SumOfNothing
<1>4. m - 1 \in 0..n /\ SumUpTo(d, m - 1) <= SumUpTo(e, m - 1)
  BY <1>2, <1>3
<1>5. SumUpTo(d, m) = SumUpTo(d, m - 1) + d[m]
  BY <1>4, SumExtends
<1>6. SumUpTo(e, m) = SumUpTo(e, m - 1) + e[m]
  BY <1>4, SumExtends
<1>7. SumUpTo(d, m - 1) \in Int /\ SumUpTo(e, m - 1) \in Int
  BY <1>4, SumIsInt
<1> QED
  BY <1>2, <1>3, <1>4, <1>5, <1>6, <1>7

\* Columns that agree have the same sum.
LEMMA SumCongruent ==
    ASSUME NEW d, NEW e, NEW n \in Nat, \A i \in 1..n : d[i] = e[i]
    PROVE  SumUpTo(d, n) = SumUpTo(e, n)
<1>1. PICK f : IsRunningSum(f, d, n) /\ SumUpTo(d, n) = f[n]
  BY SumEquation
<1>2. PICK g : IsRunningSum(g, e, n) /\ SumUpTo(e, n) = g[n]
  BY SumEquation
<1>3. \A i \in 0..n : f[i] = g[i]
  BY <1>1, <1>2, RunningSumsAgree
<1> QED
  BY <1>1, <1>2, <1>3

\* Changing one entry changes the sum by as much.
LEMMA SumChangesOne ==
    ASSUME NEW d, NEW e, NEW n \in Nat, NEW i \in 1..n,
           \A k \in 1..n : d[k] \in Int /\ e[k] \in Int /\ (k # i => d[k] = e[k])
    PROVE  SumUpTo(e, n) = SumUpTo(d, n) + (e[i] - d[i])
<1> DEFINE Bad == {m \in Nat : i <= m /\ m <= n
                                /\ SumUpTo(e, m) # SumUpTo(d, m) + (e[i] - d[i])}
<1>1. SUFFICES ASSUME Bad # {} PROVE FALSE
  OBVIOUS
<1>2. PICK m \in Bad : \A k \in Bad : m <= k
  BY <1>1, LeastElement
<1>3. m - 1 \in Nat /\ m \in 1..n /\ \A k \in 1..(m - 1) : k \in 1..n
  BY <1>2
<1>4. SumUpTo(d, m - 1) \in Int /\ SumUpTo(e, m - 1) \in Int
  BY <1>3, SumIsInt
<1>5. SumUpTo(d, m) = SumUpTo(d, m - 1) + d[m]
  BY <1>3, SumExtends
<1>6. SumUpTo(e, m) = SumUpTo(e, m - 1) + e[m]
  BY <1>3, SumExtends
<1>7. CASE m = i
  <2>1. SumUpTo(d, m - 1) = SumUpTo(e, m - 1)
    <3>1. \A k \in 1..(m - 1) : d[k] = e[k]
      BY <1>3, <1>7
    <3> QED
      BY <1>3, <3>1, SumCongruent
  <2> QED
    BY <1>2, <1>3, <1>4, <1>5, <1>6, <1>7, <2>1
<1>8. CASE m # i
  <2>1. SumUpTo(e, m - 1) = SumUpTo(d, m - 1) + (e[i] - d[i])
    BY <1>2, <1>3, <1>8
  <2>2. d[m] = e[m] /\ d[m] \in Int /\ d[i] \in Int /\ e[i] \in Int
    BY <1>3, <1>8
  <2> QED
    BY <1>2, <1>4, <1>5, <1>6, <2>1, <2>2
<1> QED
  BY <1>7, <1>8

\* A column without negative entries has no negative sum.
LEMMA SumNonNegative ==
    ASSUME NEW d, NEW n \in Nat, \A i \in 1..n : d[i] \in Nat
    PROVE  SumUpTo(d, n) >= 0
<1> DEFINE zero == [i \in 1..n |-> 0]
<1>1. SumUpTo(zero, n) <= SumUpTo(d, n)
  BY SumMonotone
<1>2. SumUpTo(zero, n) = 0
  <2> DEFINE Bad == {m \in Nat : m <= n /\ SumUpTo(zero, m) # 0}
  <2>1. SUFFICES ASSUME Bad # {} PROVE FALSE
    OBVIOUS
  <2>2. PICK m \in Bad : \A k \in Bad : m <= k
    BY <2>1, LeastElement
  <2>3. m # 0
    BY <2>2, SumOfNothing
  <2>4. m - 1 \in Nat /\ SumUpTo(zero, m - 1) = 0
    BY <2>2, <2>3
  <2>5. SumUpTo(zero, m) = SumUpTo(zero, m - 1) + zero[m]
    BY <2>4, SumExtends
  <2> QED
    BY <2>2, <2>3, <2>4, <2>5
<1>3. SumUpTo(d, n) \in Int
  BY SumIsInt
<1> QED
  BY <1>1, <1>2, <1>3

-----------------------------------------------------------------------------
\* The shapes a step can have.

HoldStep ==
    \E ref \in Refs, cost \in Nat \ {0} :
        /\ balance >= cost
        /\ ~Posted({"RESERVE"}, ref)
        /\ ledger' = Append(ledger, NewRow("RESERVE", ref, -cost, cost))
        /\ balance' = balance - cost
        /\ reserved' = reserved + cost

FinalizeStep ==
    \E i \in 1..Len(ledger), kind \in {"SETTLE", "REFUND"}, charged \in Int :
        LET held == ledger[i].reservedDelta IN
        /\ ledger[i].kind = "RESERVE"
        /\ ~Finalized(ledger[i].ref)
        /\ held >= 0 => charged \in 0..held
        /\ ledger' = Append(ledger, NewRow(kind, ledger[i].ref, held - charged, -held))
        /\ balance' = balance + (held - charged)
        /\ reserved' = reserved - held

GrantStep ==
    \E key \in GrantKeys, kind \in {"GRANT", "ADJUST"}, amount \in Int :
        /\ ~Posted({"GRANT", "ADJUST"}, key)
        /\ balance >= 0 => balance + amount >= 0
        /\ ledger' = Append(ledger, NewRow(kind, key, amount, 0))
        /\ balance' = balance + amount
        /\ reserved' = reserved

QuietStep == UNCHANGED <<balance, reserved, ledger>>

-----------------------------------------------------------------------------
\* What a turn's hold covers.

LEMMA GrantedSlotsType ==
    ASSUME NEW seen \in Nat, seen >= TurnMinimum
    PROVE  /\ GrantedSlots(seen) \in 0..MaxSlots
           /\ GrantedSlots(seen) * SlotPrice <= seen - TurnMinimum
<1> DEFINE q == (seen - TurnMinimum) \div SlotPrice
<1>1. seen - TurnMinimum \in Nat /\ SlotPrice \in Nat /\ SlotPrice > 0 /\ MaxSlots \in Nat
  BY TurnAssumption
<1>2. q \in Nat /\ q * SlotPrice <= seen - TurnMinimum
  BY <1>1
<1>3. GrantedSlots(seen) = Larger(0, Smaller(MaxSlots, q))
  BY DEF GrantedSlots
<1>4. GrantedSlots(seen) \in 0..MaxSlots /\ GrantedSlots(seen) <= q
  BY <1>1, <1>2, <1>3 DEF Larger, Smaller
<1> QED
  BY <1>1, <1>2, <1>4

\* Whatever balance a turn reads, the hold it computes covers its minimum and
\* the full price of every slot it is granted, and asks for no more than it read.
THEOREM TurnHoldCoversSlots ==
    ASSUME NEW seen \in Nat, seen >= TurnMinimum
    PROVE  /\ TurnHold(seen) \in Nat
           /\ TurnHold(seen) >= TurnMinimum + GrantedSlots(seen) * SlotPrice
           /\ TurnHold(seen) <= seen
<1> DEFINE firm == GrantedSlots(seen) * SlotPrice
<1>1. firm \in Nat /\ firm <= seen - TurnMinimum
  BY GrantedSlotsType, TurnAssumption
<1>2. TurnHold(seen) = Smaller(Larger(TurnElastic, TurnMinimum) + firm, seen)
  BY DEF TurnHold
<1> QED
  BY <1>1, <1>2, TurnAssumption DEF Larger, Smaller

-----------------------------------------------------------------------------
\* Type correctness.

LEMMA AppendedLedger ==
    ASSUME ledger \in Seq(Row), NEW row \in Row, ledger' = Append(ledger, row)
    PROVE  /\ ledger' \in Seq(Row)
           /\ Len(ledger) \in Nat
           /\ Len(ledger') = Len(ledger) + 1
           /\ \A i \in 1..Len(ledger) : ledger'[i] = ledger[i] /\ ledger[i] \in Row
           /\ ledger'[Len(ledger) + 1] = row
BY AppendProperties, ElementOfSeq, LenProperties

LEMMA SmallestCharge ==
    ASSUME NEW held \in Int, NEW actual \in Int
    PROVE  /\ Smaller(Larger(0, actual), held) \in Int
           /\ held >= 0 => Smaller(Larger(0, actual), held) \in 0..held
BY DEF Smaller, Larger

LEMMA SettleShape ==
    ASSUME TypeOK, NEW r \in Refs, NEW a \in Amounts \cup {0}, Settle(r, a)
    PROVE  FinalizeStep
<1>1. PICK i \in 1..Len(ledger) :
        /\ ledger[i].kind = "RESERVE" /\ ledger[i].ref = r
        /\ ~Finalized(r)
        /\ LET held == ledger[i].reservedDelta
               charged == Smaller(Larger(0, a), held)
           IN  /\ Post("SETTLE", r, held - charged, -held)
               /\ balance' = balance + (held - charged)
               /\ reserved' = reserved - held
  BY DEF Settle
<1>2. ledger[i] \in Row
  BY ElementOfSeq DEF TypeOK
<1>3. ledger[i].reservedDelta \in Int /\ a \in Int
  BY <1>2, AmountAssumption DEF Row
<1> DEFINE charged == Smaller(Larger(0, a), ledger[i].reservedDelta)
<1>4. charged \in Int /\ (ledger[i].reservedDelta >= 0 => charged \in 0..ledger[i].reservedDelta)
  BY <1>3, SmallestCharge
<1> QED
  BY <1>1, <1>4 DEF FinalizeStep, Post, NewRow

LEMMA RefundShape ==
    ASSUME TypeOK, NEW r \in Refs, Refund(r)
    PROVE  FinalizeStep
<1>1. PICK i \in 1..Len(ledger) :
        /\ ledger[i].kind = "RESERVE" /\ ledger[i].ref = r
        /\ ~Finalized(r)
        /\ LET held == ledger[i].reservedDelta
           IN  /\ Post("REFUND", r, held, -held)
               /\ balance' = balance + held
               /\ reserved' = reserved - held
  BY DEF Refund
<1>2. ledger[i] \in Row
  BY ElementOfSeq DEF TypeOK
<1>3. ledger[i].reservedDelta \in Int
  BY <1>2 DEF Row
<1> DEFINE held == ledger[i].reservedDelta
<1>4. held - 0 = held /\ (held >= 0 => 0 \in 0..held) /\ 0 \in Int
  BY <1>3
<1>5. /\ ledger' = Append(ledger, NewRow("REFUND", ledger[i].ref, held - 0, -held))
      /\ balance' = balance + (held - 0)
      /\ reserved' = reserved - held
  BY <1>1, <1>4 DEF Post, NewRow
<1> QED
  BY <1>1, <1>4, <1>5 DEF FinalizeStep

LEMMA GrantShapes ==
    ASSUME TypeOK,
           \/ \E g \in Purchases, a \in Amounts : Grant(g, a)
           \/ \E g \in Adjustments, a \in Amounts : Adjust(g, a) \/ Adjust(g, -a)
    PROVE  GrantStep
<1>1. ASSUME NEW g \in Purchases, NEW a \in Amounts, Grant(g, a)
      PROVE  GrantStep
  BY <1>1, AmountAssumption DEF Grant, GrantStep, Post, NewRow, GrantKeys, TypeOK
<1>2. ASSUME NEW g \in Adjustments, NEW a \in Amounts, Adjust(g, a) \/ Adjust(g, -a)
      PROVE  GrantStep
  BY <1>2, AmountAssumption DEF Adjust, GrantStep, Post, NewRow, GrantKeys, TypeOK
<1> QED
  BY <1>1, <1>2

\* One step per action: what each operation does to the account and the ledger.
LEMMA StepShapes ==
    ASSUME TypeOK, Next
    PROVE  HoldStep \/ FinalizeStep \/ GrantStep \/ QuietStep
<1>1. ASSUME NEW j \in Jobs, NEW c \in Amounts, Reserve(j, c)
      PROVE  HoldStep
  BY <1>1, AmountAssumption DEF Reserve, TakeHold, HoldStep, Post, NewRow, Refs
<1>2. ASSUME NEW t \in Turns, NEW seen \in 0..MaxSeen, ReserveTurn(t, seen)
      PROVE  HoldStep
  <2>1. TurnHold(seen) \in Nat
    BY <1>2, TurnHoldCoversSlots, LimitAssumption DEF ReserveTurn
  <2> QED
    BY <1>2, <2>1 DEF ReserveTurn, TakeHold, HoldStep, Post, NewRow, Refs
<1>3. ASSUME NEW m \in ManualRefunds, NEW c \in Amounts, ReserveManualRefund(m, c)
      PROVE  HoldStep
  BY <1>3, AmountAssumption DEF ReserveManualRefund, TakeHold, HoldStep, Post, NewRow, Refs
<1>4. CASE \E r \in Refs, a \in Amounts \cup {0} : Settle(r, a)
  BY <1>4, SettleShape
<1>5. CASE \E r \in Refs : Refund(r)
  BY <1>5, RefundShape
<1>6. CASE \E g \in Purchases, a \in Amounts : Grant(g, a)
  BY <1>6, GrantShapes
<1>7. CASE \E g \in Adjustments, a \in Amounts : Adjust(g, a) \/ Adjust(g, -a)
  BY <1>7, GrantShapes
<1>8. ASSUME NEW c \in Caps, SetSpendCap(c)
      PROVE  QuietStep
  BY <1>8 DEF SetSpendCap, QuietStep
<1>9. CASE Tick
  BY <1>9 DEF Tick, QuietStep
<1> QED
  BY <1>1, <1>2, <1>3, <1>4, <1>5, <1>6, <1>7, <1>8, <1>9 DEF Next

LEMMA NewRowType ==
    ASSUME TypeOK, NEW kind \in Kinds, NEW ref \in Refs \cup GrantKeys,
           NEW db \in Int, NEW dr \in Int
    PROVE  NewRow(kind, ref, db, dr) \in Row
BY DEF TypeOK, NewRow, Row

\* The account and the ledger stay typed in each of the four shapes.
LEMMA MoneyTyped ==
    ASSUME TypeOK, HoldStep \/ FinalizeStep \/ GrantStep \/ QuietStep
    PROVE  balance' \in Int /\ reserved' \in Int /\ ledger' \in Seq(Row)
<1>1. CASE HoldStep
  <2>1. PICK ref \in Refs, cost \in Nat \ {0} :
          /\ ledger' = Append(ledger, NewRow("RESERVE", ref, -cost, cost))
          /\ balance' = balance - cost
          /\ reserved' = reserved + cost
    BY <1>1 DEF HoldStep
  <2>2. NewRow("RESERVE", ref, -cost, cost) \in Row
    BY NewRowType DEF Kinds
  <2> QED
    BY <2>1, <2>2, AppendedLedger DEF TypeOK
<1>2. CASE FinalizeStep
  <2>1. PICK i \in 1..Len(ledger), kind \in {"SETTLE", "REFUND"}, charged \in Int :
          LET held == ledger[i].reservedDelta IN
          /\ ledger' = Append(ledger, NewRow(kind, ledger[i].ref, held - charged, -held))
          /\ balance' = balance + (held - charged)
          /\ reserved' = reserved - held
    BY <1>2 DEF FinalizeStep
  <2>2. ledger[i] \in Row
    BY ElementOfSeq DEF TypeOK
  <2> DEFINE held == ledger[i].reservedDelta
  <2>3. held \in Int /\ ledger[i].ref \in Refs \cup GrantKeys /\ kind \in Kinds
    BY <2>2 DEF Row, Kinds
  <2>4. NewRow(kind, ledger[i].ref, held - charged, -held) \in Row
    BY <2>3, NewRowType
  <2>5. ledger' = Append(ledger, NewRow(kind, ledger[i].ref, held - charged, -held))
    BY <2>1
  <2>6. ledger' \in Seq(Row)
    BY <2>4, <2>5, AppendedLedger DEF TypeOK
  <2>7. balance' \in Int /\ reserved' \in Int
    <3>1. balance' = balance + (held - charged) /\ reserved' = reserved - held
      BY <2>1
    <3> HIDE DEF held
    <3> QED
      BY <2>3, <3>1 DEF TypeOK
  <2> QED
    BY <2>6, <2>7
<1>3. CASE GrantStep
  <2>1. PICK key \in GrantKeys, kind \in {"GRANT", "ADJUST"}, amount \in Int :
          /\ ledger' = Append(ledger, NewRow(kind, key, amount, 0))
          /\ balance' = balance + amount
          /\ reserved' = reserved
    BY <1>3 DEF GrantStep
  <2>2. NewRow(kind, key, amount, 0) \in Row
    BY NewRowType DEF Kinds
  <2> QED
    BY <2>1, <2>2, AppendedLedger DEF TypeOK
<1>4. CASE QuietStep
  BY <1>4 DEF QuietStep, TypeOK
<1> QED
  BY <1>1, <1>2, <1>3, <1>4

\* What each operation leaves of the surroundings.
LEMMA SurroundingsTyped ==
    ASSUME TypeOK, Next
    PROVE  slots' \in [Turns -> 0..MaxSlots] /\ cap' \in Caps /\ today' \in Nat /\ today' >= today
<1>1. ASSUME NEW t \in Turns, NEW seen \in 0..MaxSeen, ReserveTurn(t, seen)
      PROVE  slots' \in [Turns -> 0..MaxSlots] /\ UNCHANGED <<cap, today>>
  <2>1. GrantedSlots(seen) \in 0..MaxSlots
    BY <1>1, GrantedSlotsType, LimitAssumption DEF ReserveTurn
  <2> QED
    BY <1>1, <2>1 DEF ReserveTurn, TypeOK
<1>2. CASE \E j \in Jobs, c \in Amounts : Reserve(j, c)
  BY <1>2 DEF Reserve, TypeOK
<1>3. CASE \E m \in ManualRefunds, c \in Amounts : ReserveManualRefund(m, c)
  BY <1>3 DEF ReserveManualRefund, TypeOK
<1>4. CASE \E r \in Refs, a \in Amounts \cup {0} : Settle(r, a)
  BY <1>4 DEF Settle, TypeOK
<1>5. CASE \E r \in Refs : Refund(r)
  BY <1>5 DEF Refund, TypeOK
<1>6. CASE \E g \in Purchases, a \in Amounts : Grant(g, a)
  BY <1>6 DEF Grant, TypeOK
<1>7. CASE \E g \in Adjustments, a \in Amounts : Adjust(g, a) \/ Adjust(g, -a)
  BY <1>7 DEF Adjust, TypeOK
<1>8. CASE \E c \in Caps : SetSpendCap(c)
  BY <1>8 DEF SetSpendCap, TypeOK
<1>9. CASE Tick
  BY <1>9 DEF Tick, TypeOK
<1> QED
  BY <1>1, <1>2, <1>3, <1>4, <1>5, <1>6, <1>7, <1>8, <1>9 DEF Next, TypeOK

LEMMA TypeStep == TypeOK /\ [Next]_vars => TypeOK'
<1>1. ASSUME TypeOK, Next PROVE TypeOK'
  BY <1>1, StepShapes, MoneyTyped, SurroundingsTyped DEF TypeOK
<1>2. ASSUME TypeOK, UNCHANGED vars PROVE TypeOK'
  BY <1>2 DEF TypeOK, vars
<1> QED
  BY <1>1, <1>2

LEMMA TypeInit == Init => TypeOK
BY CapAssumption, TurnAssumption, EmptySeq DEF Init, TypeOK

\* The account, the ledger and the granted slots are well typed in every
\* reachable state, whatever the interleaving of operations.
THEOREM TypeCorrect == Spec => []TypeOK
BY TypeInit, TypeStep, PTL DEF Spec
-----------------------------------------------------------------------------
\* The rows of the ledger.

\* Grant rows carry grant keys and the other kinds carry references; holds are
\* positive; no row is dated after today.
RowFacts ==
    \A i \in 1..Len(ledger) :
        /\ ledger[i].kind \in {"GRANT", "ADJUST"} => ledger[i].ref \in GrantKeys
        /\ ledger[i].kind \in {"RESERVE", "SETTLE", "REFUND"} => ledger[i].ref \in Refs
        /\ ledger[i].kind = "RESERVE" => ledger[i].reservedDelta > 0
        /\ ledger[i].day <= today

RowsInv == TypeOK /\ RowFacts /\ ExactlyOnce

\* A reference with no hold has no row at all, so a new hold is its first row.
LEMMA HoldIsFirstRow ==
    ASSUME RowsInv, NEW ref \in Refs, ~Posted({"RESERVE"}, ref)
    PROVE  \A i \in 1..Len(ledger) : ledger[i].ref # ref
<1>1. SUFFICES ASSUME NEW i \in 1..Len(ledger), ledger[i].ref = ref
               PROVE  FALSE
  OBVIOUS
<1>2. ledger[i] \in Row
  BY ElementOfSeq DEF RowsInv, TypeOK
<1>3. ledger[i].kind \notin {"GRANT", "ADJUST"}
  BY <1>1, RefAssumption DEF RowsInv, RowFacts
<1>4. ledger[i].kind # "RESERVE"
  BY <1>1 DEF Posted
<1>5. ledger[i].kind \in {"SETTLE", "REFUND"}
  BY <1>2, <1>3, <1>4 DEF Row, Kinds
<1> QED
  BY <1>1, <1>5 DEF RowsInv, ExactlyOnce

\* A grant key that was never posted is on no row.
LEMMA GrantIsFirstRow ==
    ASSUME RowsInv, NEW key \in GrantKeys, ~Posted({"GRANT", "ADJUST"}, key)
    PROVE  \A i \in 1..Len(ledger) : ledger[i].ref # key
<1>1. SUFFICES ASSUME NEW i \in 1..Len(ledger), ledger[i].ref = key
               PROVE  FALSE
  OBVIOUS
<1>2. ledger[i] \in Row
  BY ElementOfSeq DEF RowsInv, TypeOK
<1>3. ledger[i].kind \notin {"RESERVE", "SETTLE", "REFUND"}
  BY <1>1, RefAssumption DEF RowsInv, RowFacts
<1>4. ledger[i].kind \notin {"GRANT", "ADJUST"}
  BY <1>1 DEF Posted
<1> QED
  BY <1>2, <1>3, <1>4 DEF Row, Kinds

\* An open hold is the only row of its reference.
LEMMA OpenHoldIsOnlyRow ==
    ASSUME RowsInv, NEW i \in 1..Len(ledger), ledger[i].kind = "RESERVE",
           ~Finalized(ledger[i].ref)
    PROVE  \A k \in 1..Len(ledger) : ledger[k].ref = ledger[i].ref => k = i
<1>1. SUFFICES ASSUME NEW k \in 1..Len(ledger), ledger[k].ref = ledger[i].ref, k # i
               PROVE  FALSE
  OBVIOUS
<1>2. ledger[k].kind \in {"SETTLE", "REFUND"}
  BY <1>1 DEF RowsInv, ExactlyOnce
<1> QED
  BY <1>1, <1>2 DEF Finalized, Posted

\* Appending a row whose reference is new, or a finalizer of an open hold,
\* keeps the rows in order.
LEMMA RowsStep ==
    ASSUME RowsInv, TypeOK', today' >= today, NEW row \in Row,
           ledger' = Append(ledger, row),
           row.day = today,
           row.kind \in {"GRANT", "ADJUST"} => row.ref \in GrantKeys,
           row.kind \in {"RESERVE", "SETTLE", "REFUND"} => row.ref \in Refs,
           row.kind = "RESERVE" => row.reservedDelta > 0,
           \/ /\ row.kind \in {"RESERVE", "GRANT", "ADJUST"}
              /\ \A i \in 1..Len(ledger) : ledger[i].ref # row.ref
           \/ /\ row.kind \in {"SETTLE", "REFUND"}
              /\ \E i \in 1..Len(ledger) :
                    /\ ledger[i].kind = "RESERVE" /\ ledger[i].ref = row.ref
                    /\ \A k \in 1..Len(ledger) : ledger[k].ref = row.ref => k = i
    PROVE  RowsInv'
<1> DEFINE n == Len(ledger)
<1>1. /\ n \in Nat /\ Len(ledger') = n + 1
      /\ \A i \in 1..n : ledger'[i] = ledger[i]
      /\ ledger'[n + 1] = row
  BY AppendedLedger DEF RowsInv, TypeOK
<1>2. \A i \in 1..Len(ledger') : i \in 1..n \/ i = n + 1
  BY <1>1
<1>3. today \in Nat /\ today' \in Nat /\ \A i \in 1..n : ledger[i].day \in Nat
  <2>1. \A i \in 1..n : ledger[i] \in Row
    BY ElementOfSeq DEF RowsInv, TypeOK
  <2> QED
    BY <2>1 DEF RowsInv, TypeOK, Row
<1>4. RowFacts'
  BY <1>1, <1>2, <1>3 DEF RowsInv, RowFacts
<1>5. ASSUME NEW i \in 1..Len(ledger'), NEW j \in 1..Len(ledger'),
             ledger'[i].ref = ledger'[j].ref, i # j
      PROVE  /\ {ledger'[i].kind, ledger'[j].kind} \subseteq {"RESERVE", "SETTLE", "REFUND"}
             /\ ledger'[i].kind = "RESERVE" <=> ledger'[j].kind # "RESERVE"
             /\ ledger'[i].kind = "RESERVE" => i < j
  <2>1. CASE i \in 1..n /\ j \in 1..n
    BY <1>1, <1>5, <2>1 DEF RowsInv, ExactlyOnce
  <2>2. CASE i \in 1..n /\ j = n + 1
    BY <1>1, <1>5, <2>2
  <2>3. CASE i = n + 1 /\ j \in 1..n
    BY <1>1, <1>5, <2>3
  <2> QED
    BY <1>2, <1>5, <2>1, <2>2, <2>3
<1>6. ASSUME NEW i \in 1..Len(ledger'), ledger'[i].kind \in {"SETTLE", "REFUND"}
      PROVE  Posted({"RESERVE"}, ledger[i].ref)'
  <2>1. CASE i \in 1..n
    BY <1>1, <1>6, <2>1 DEF RowsInv, ExactlyOnce, Posted
  <2>2. CASE i = n + 1
    BY <1>1, <1>6, <2>2 DEF Posted
  <2> QED
    BY <1>2, <2>1, <2>2
<1>7. ExactlyOnce'
  BY <1>5, <1>6 DEF ExactlyOnce
<1> QED
  BY <1>4, <1>7 DEF RowsInv

LEMMA RowsInvStep == RowsInv /\ [Next]_vars => RowsInv'
<1>1. ASSUME RowsInv, UNCHANGED vars PROVE RowsInv'
  <2>1. TypeOK'
    BY <1>1, TypeStep DEF RowsInv
  <2>2. RowFacts' /\ ExactlyOnce'
    BY <1>1 DEF RowsInv, RowFacts, ExactlyOnce, Posted, vars
  <2> QED
    BY <2>1, <2>2 DEF RowsInv
<1>2. ASSUME RowsInv, Next PROVE RowsInv'
  <2>1. TypeOK /\ TypeOK' /\ today' >= today /\ today \in Nat /\ today' \in Nat
    BY <1>2, TypeStep, SurroundingsTyped DEF RowsInv, TypeOK
  <2>2. CASE HoldStep
    <3>1. PICK ref \in Refs, cost \in Nat \ {0} :
            /\ ~Posted({"RESERVE"}, ref)
            /\ ledger' = Append(ledger, NewRow("RESERVE", ref, -cost, cost))
      BY <2>2 DEF HoldStep
    <3> DEFINE row == NewRow("RESERVE", ref, -cost, cost)
    <3>2. row \in Row
      BY <2>1, NewRowType DEF Kinds
    <3>3. \A i \in 1..Len(ledger) : ledger[i].ref # ref
      BY <1>2, <3>1, HoldIsFirstRow
    <3>4. row.kind = "RESERVE" /\ row.ref = ref /\ row.reservedDelta = cost /\ row.day = today
      BY DEF NewRow
    <3> HIDE DEF row
    <3> QED
      BY <1>2, <2>1, <3>1, <3>2, <3>3, <3>4, RowsStep DEF row
  <2>3. CASE FinalizeStep
    <3>1. PICK i \in 1..Len(ledger), kind \in {"SETTLE", "REFUND"}, charged \in Int :
            LET held == ledger[i].reservedDelta IN
            /\ ledger[i].kind = "RESERVE"
            /\ ~Finalized(ledger[i].ref)
            /\ ledger' = Append(ledger, NewRow(kind, ledger[i].ref, held - charged, -held))
      BY <2>3 DEF FinalizeStep
    <3> DEFINE held == ledger[i].reservedDelta
    <3> DEFINE row == NewRow(kind, ledger[i].ref, held - charged, -held)
    <3>2. ledger[i] \in Row
      BY <2>1, ElementOfSeq DEF TypeOK
    <3>3. held \in Int /\ ledger[i].ref \in Refs
      BY <1>2, <3>1, <3>2 DEF Row, RowsInv, RowFacts
    <3>4. row \in Row
      BY <2>1, <3>3, NewRowType DEF Kinds
    <3>5. \A k \in 1..Len(ledger) : ledger[k].ref = ledger[i].ref => k = i
      BY <1>2, <3>1, OpenHoldIsOnlyRow
    <3>6. row.kind = kind /\ row.ref = ledger[i].ref /\ row.day = today
      BY DEF NewRow
    <3> HIDE DEF row
    <3> QED
      BY <1>2, <2>1, <3>1, <3>3, <3>4, <3>5, <3>6, RowsStep DEF row
  <2>4. CASE GrantStep
    <3>1. PICK key \in GrantKeys, kind \in {"GRANT", "ADJUST"}, amount \in Int :
            /\ ~Posted({"GRANT", "ADJUST"}, key)
            /\ ledger' = Append(ledger, NewRow(kind, key, amount, 0))
      BY <2>4 DEF GrantStep
    <3> DEFINE row == NewRow(kind, key, amount, 0)
    <3>2. row \in Row
      BY <2>1, NewRowType DEF Kinds
    <3>3. \A i \in 1..Len(ledger) : ledger[i].ref # key
      BY <1>2, <3>1, GrantIsFirstRow
    <3>4. row.kind = kind /\ row.ref = key /\ row.day = today
      BY DEF NewRow
    <3> HIDE DEF row
    <3> QED
      BY <1>2, <2>1, <3>1, <3>2, <3>3, <3>4, RowsStep DEF row
  <2>5. CASE QuietStep
    <3>1. \A i \in 1..Len(ledger) : ledger[i] \in Row
      BY <2>1, ElementOfSeq DEF TypeOK
    <3>2. RowFacts'
      BY <1>2, <2>1, <2>5, <3>1 DEF RowsInv, RowFacts, QuietStep, Row
    <3>3. ExactlyOnce'
      BY <1>2, <2>5 DEF RowsInv, ExactlyOnce, Posted, QuietStep
    <3> QED
      BY <2>1, <3>2, <3>3 DEF RowsInv
  <2> QED
    BY <1>2, <2>2, <2>3, <2>4, <2>5, StepShapes DEF RowsInv
<1> QED
  BY <1>1, <1>2

LEMMA RowsInvInit == Init => RowsInv
<1> SUFFICES ASSUME Init PROVE RowsInv
  OBVIOUS
<1>1. Len(ledger) = 0
  BY EmptySeq DEF Init
<1> QED
  BY <1>1, TypeInit DEF RowsInv, RowFacts, ExactlyOnce

\* A hold is taken at most once, finalized at most once and never before it
\* was taken, and a grant key is applied at most once.
THEOREM LedgerExactlyOnce == Spec => []ExactlyOnce
<1>1. Spec => []RowsInv
  BY RowsInvInit, RowsInvStep, PTL DEF Spec
<1>2. RowsInv => ExactlyOnce
  BY DEF RowsInv
<1> QED
  BY <1>1, <1>2, PTL

-----------------------------------------------------------------------------
\* Conservation: the account row is the sum of the ledger.

\* Appending a row adds its two deltas to the two totals.
LEMMA TotalsStep ==
    ASSUME TypeOK, NEW row \in Row, ledger' = Append(ledger, row)
    PROVE  /\ Total(BalanceDeltas)' = Total(BalanceDeltas) + row.balanceDelta
           /\ Total(ReservedDeltas)' = Total(ReservedDeltas) + row.reservedDelta
<1> DEFINE n == Len(ledger)
<1>1. /\ n \in Nat /\ Len(ledger') = n + 1
      /\ \A i \in 1..n : ledger'[i] = ledger[i]
      /\ ledger'[n + 1] = row
  BY AppendedLedger DEF TypeOK
<1>2. \A i \in 1..n : BalanceDeltas[i] = BalanceDeltas'[i]
  BY <1>1 DEF BalanceDeltas
<1>3. \A i \in 1..n : ReservedDeltas[i] = ReservedDeltas'[i]
  BY <1>1 DEF ReservedDeltas
<1>4. /\ BalanceDeltas'[n + 1] = row.balanceDelta
      /\ ReservedDeltas'[n + 1] = row.reservedDelta
  BY <1>1 DEF BalanceDeltas, ReservedDeltas
<1>5. SumUpTo(BalanceDeltas', n + 1) = SumUpTo(BalanceDeltas, n) + BalanceDeltas'[n + 1]
  BY <1>1, <1>2, SumExtends
<1>6. SumUpTo(ReservedDeltas', n + 1) = SumUpTo(ReservedDeltas, n) + ReservedDeltas'[n + 1]
  BY <1>1, <1>3, SumExtends
<1> QED
  BY <1>1, <1>4, <1>5, <1>6 DEF Total

LEMMA ConservationStep == TypeOK /\ Conservation /\ [Next]_vars => Conservation'
<1>1. ASSUME TypeOK, Conservation, Next PROVE Conservation'
  <2>1. CASE HoldStep
    <3>1. PICK ref \in Refs, cost \in Nat \ {0} :
            /\ ledger' = Append(ledger, NewRow("RESERVE", ref, -cost, cost))
            /\ balance' = balance - cost
            /\ reserved' = reserved + cost
      BY <2>1 DEF HoldStep
    <3>2. NewRow("RESERVE", ref, -cost, cost) \in Row
      BY <1>1, NewRowType DEF Kinds
    <3>3. /\ Total(BalanceDeltas)' = Total(BalanceDeltas) + (-cost)
          /\ Total(ReservedDeltas)' = Total(ReservedDeltas) + cost
      BY <1>1, <3>1, <3>2, TotalsStep DEF NewRow
    <3> QED
      BY <1>1, <3>1, <3>3 DEF Conservation, TypeOK
  <2>2. CASE FinalizeStep
    <3>1. PICK i \in 1..Len(ledger), kind \in {"SETTLE", "REFUND"}, charged \in Int :
            LET held == ledger[i].reservedDelta IN
            /\ ledger' = Append(ledger, NewRow(kind, ledger[i].ref, held - charged, -held))
            /\ balance' = balance + (held - charged)
            /\ reserved' = reserved - held
      BY <2>2 DEF FinalizeStep
    <3> DEFINE held == ledger[i].reservedDelta
    <3>2. ledger[i] \in Row
      BY <1>1, ElementOfSeq DEF TypeOK
    <3>3. held \in Int /\ ledger[i].ref \in Refs \cup GrantKeys
      BY <3>2 DEF Row
    <3>4. NewRow(kind, ledger[i].ref, held - charged, -held) \in Row
      BY <1>1, <3>3, NewRowType DEF Kinds
    <3>5. /\ Total(BalanceDeltas)' = Total(BalanceDeltas) + (held - charged)
          /\ Total(ReservedDeltas)' = Total(ReservedDeltas) + (-held)
      BY <1>1, <3>1, <3>4, TotalsStep DEF NewRow
    <3> QED
      BY <1>1, <3>1, <3>3, <3>5 DEF Conservation, TypeOK
  <2>3. CASE GrantStep
    <3>1. PICK key \in GrantKeys, kind \in {"GRANT", "ADJUST"}, amount \in Int :
            /\ ledger' = Append(ledger, NewRow(kind, key, amount, 0))
            /\ balance' = balance + amount
            /\ reserved' = reserved
      BY <2>3 DEF GrantStep
    <3>2. NewRow(kind, key, amount, 0) \in Row
      BY <1>1, NewRowType DEF Kinds
    <3>3. /\ Total(BalanceDeltas)' = Total(BalanceDeltas) + amount
          /\ Total(ReservedDeltas)' = Total(ReservedDeltas) + 0
      BY <1>1, <3>1, <3>2, TotalsStep DEF NewRow
    <3> QED
      BY <1>1, <3>1, <3>3 DEF Conservation, TypeOK
  <2>4. CASE QuietStep
    BY <1>1, <2>4 DEF QuietStep, Conservation, Total, BalanceDeltas, ReservedDeltas
  <2> QED
    BY <1>1, <2>1, <2>2, <2>3, <2>4, StepShapes
<1>2. ASSUME Conservation, UNCHANGED vars PROVE Conservation'
  BY <1>2 DEF vars, Conservation, Total, BalanceDeltas, ReservedDeltas
<1> QED
  BY <1>1, <1>2

\* In every reachable state the spendable balance and the amount in flight are
\* exactly the sums of the ledger's two delta columns.
THEOREM LedgerConservation == Spec => []Conservation
<1>1. Init => Conservation
  <2> SUFFICES ASSUME Init PROVE Conservation
    OBVIOUS
  <2>1. Len(ledger) = 0
    BY EmptySeq DEF Init
  <2> QED
    BY <2>1, SumOfNothing DEF Init, Conservation, Total
<1>2. Spec => []TypeOK
  BY TypeCorrect
<1> QED
  BY <1>1, <1>2, ConservationStep, PTL DEF Spec

-----------------------------------------------------------------------------
\* What is in flight.

OpenHoldsTyped ==
    /\ Len(ledger) \in Nat
    /\ \A i \in 1..Len(ledger) : OpenHolds[i] \in Nat

LEMMA OpenHoldsType == RowsInv => OpenHoldsTyped
<1> SUFFICES ASSUME RowsInv PROVE OpenHoldsTyped
  OBVIOUS
<1>1. Len(ledger) \in Nat /\ \A i \in 1..Len(ledger) : ledger[i] \in Row
  BY LenProperties, ElementOfSeq DEF RowsInv, TypeOK
<1>2. \A i \in 1..Len(ledger) :
        ledger[i].reservedDelta \in Int
        /\ (ledger[i].kind = "RESERVE" => ledger[i].reservedDelta > 0)
  BY <1>1 DEF Row, RowsInv, RowFacts
<1> QED
  BY <1>1, <1>2 DEF OpenHolds, OpenHoldsTyped

\* Appending a row that finalizes nothing changes no earlier entry.
LEMMA OpenHoldsExtend ==
    ASSUME RowsInv, NEW row \in Row, ledger' = Append(ledger, row),
           row.kind \in {"RESERVE", "GRANT", "ADJUST"},
           \A i \in 1..Len(ledger) : ledger[i].ref # row.ref
    PROVE  Total(OpenHolds)' = Total(OpenHolds)
               + (IF row.kind = "RESERVE" THEN row.reservedDelta ELSE 0)
<1> DEFINE n == Len(ledger)
<1>1. /\ n \in Nat /\ Len(ledger') = n + 1
      /\ \A i \in 1..n : ledger'[i] = ledger[i]
      /\ ledger'[n + 1] = row
  BY AppendedLedger DEF RowsInv, TypeOK
<1>2. ASSUME NEW i \in 1..n PROVE Finalized(ledger[i].ref)' <=> Finalized(ledger[i].ref)
  <2>1. row.kind \notin {"SETTLE", "REFUND"} /\ 1..(n + 1) = (1..n) \cup {n + 1}
    BY <1>1
  <2>2. ledger'[i].ref = ledger[i].ref
    BY <1>1
  <2> QED
    BY <1>1, <2>1, <2>2 DEF Finalized, Posted
<1>3. ~Finalized(row.ref)'
  BY <1>1 DEF Finalized, Posted
<1>4. \A i \in 1..n : OpenHolds[i] = OpenHolds'[i]
  BY <1>1, <1>2 DEF OpenHolds
<1>5. OpenHolds'[n + 1] = IF row.kind = "RESERVE" THEN row.reservedDelta ELSE 0
  BY <1>1, <1>3 DEF OpenHolds
<1>6. SumUpTo(OpenHolds', n + 1) = SumUpTo(OpenHolds, n) + OpenHolds'[n + 1]
  BY <1>1, <1>4, SumExtends
<1> QED
  BY <1>1, <1>5, <1>6 DEF Total

\* Appending a finalizer closes exactly the hold it finalizes.
LEMMA OpenHoldsClose ==
    ASSUME RowsInv, RowsInv', NEW row \in Row, ledger' = Append(ledger, row),
           row.kind \in {"SETTLE", "REFUND"},
           NEW i \in 1..Len(ledger), ledger[i].kind = "RESERVE",
           ~Finalized(ledger[i].ref), row.ref = ledger[i].ref
    PROVE  Total(OpenHolds)' = Total(OpenHolds) - ledger[i].reservedDelta
<1> DEFINE n == Len(ledger)
<1>1. /\ n \in Nat /\ Len(ledger') = n + 1
      /\ \A k \in 1..n : ledger'[k] = ledger[k]
      /\ ledger'[n + 1] = row
  BY AppendedLedger DEF RowsInv, TypeOK
<1>2. \A k \in 1..n : k # i => ledger[k].ref # row.ref
  BY OpenHoldIsOnlyRow
<1>3. ASSUME NEW k \in 1..n, k # i
      PROVE  Finalized(ledger[k].ref)' <=> Finalized(ledger[k].ref)
  <2>1. ledger'[k].ref = ledger[k].ref /\ row.ref # ledger[k].ref
    BY <1>1, <1>2, <1>3
  <2>2. 1..(n + 1) = (1..n) \cup {n + 1}
    BY <1>1
  <2> QED
    BY <1>1, <2>1, <2>2 DEF Finalized, Posted
<1>4. Finalized(ledger[i].ref)'
  BY <1>1 DEF Finalized, Posted
<1>5. \A k \in 1..n : k # i => OpenHolds[k] = OpenHolds'[k]
  BY <1>1, <1>3 DEF OpenHolds
<1>6. OpenHolds[i] = ledger[i].reservedDelta /\ OpenHolds'[i] = 0
  BY <1>1, <1>4 DEF OpenHolds
<1>7. OpenHolds'[n + 1] = 0
  BY <1>1 DEF OpenHolds
<1>8. \A k \in 1..n : OpenHolds[k] \in Int /\ OpenHolds'[k] \in Int
  <2>1. OpenHoldsTyped
    BY OpenHoldsType
  <2>2. OpenHoldsTyped'
    BY OpenHoldsType, PTL
  <2> QED
    BY <2>1, <2>2, <1>1 DEF OpenHoldsTyped
<1>9. SumUpTo(OpenHolds', n) = SumUpTo(OpenHolds, n) + (OpenHolds'[i] - OpenHolds[i])
  BY <1>1, <1>5, <1>8, SumChangesOne
<1>10. SumUpTo(OpenHolds', n + 1) = SumUpTo(OpenHolds', n) + OpenHolds'[n + 1]
  BY <1>1, SumExtends
<1>11. SumUpTo(OpenHolds, n) \in Int /\ ledger[i].reservedDelta \in Int
  BY <1>1, <1>6, <1>8, SumIsInt
<1> QED
  BY <1>1, <1>6, <1>7, <1>9, <1>10, <1>11 DEF Total

MoneyInv == RowsInv /\ ReservedIsOpenHolds /\ balance >= 0

LEMMA MoneyInvStep == MoneyInv /\ [Next]_vars => MoneyInv'
<1>1. ASSUME MoneyInv, Next PROVE MoneyInv'
  <2>1. RowsInv /\ RowsInv' /\ TypeOK
    BY <1>1, RowsInvStep DEF MoneyInv, RowsInv
  <2>2. CASE HoldStep
    <3>1. PICK ref \in Refs, cost \in Nat \ {0} :
            /\ balance >= cost
            /\ ~Posted({"RESERVE"}, ref)
            /\ ledger' = Append(ledger, NewRow("RESERVE", ref, -cost, cost))
            /\ balance' = balance - cost
            /\ reserved' = reserved + cost
      BY <2>2 DEF HoldStep
    <3> DEFINE row == NewRow("RESERVE", ref, -cost, cost)
    <3>2. row \in Row /\ row.kind = "RESERVE" /\ row.ref = ref /\ row.reservedDelta = cost
      BY <2>1, NewRowType DEF Kinds, NewRow
    <3>3. \A i \in 1..Len(ledger) : ledger[i].ref # ref
      BY <2>1, <3>1, HoldIsFirstRow
    <3> HIDE DEF row
    <3>4. Total(OpenHolds)' = Total(OpenHolds) + cost
      BY <2>1, <3>1, <3>2, <3>3, OpenHoldsExtend DEF row
    <3> QED
      BY <1>1, <2>1, <3>1, <3>4 DEF MoneyInv, ReservedIsOpenHolds, TypeOK
  <2>3. CASE FinalizeStep
    <3>1. PICK i \in 1..Len(ledger), kind \in {"SETTLE", "REFUND"}, charged \in Int :
            LET held == ledger[i].reservedDelta IN
            /\ ledger[i].kind = "RESERVE"
            /\ ~Finalized(ledger[i].ref)
            /\ held >= 0 => charged \in 0..held
            /\ ledger' = Append(ledger, NewRow(kind, ledger[i].ref, held - charged, -held))
            /\ balance' = balance + (held - charged)
            /\ reserved' = reserved - held
      BY <2>3 DEF FinalizeStep
    <3> DEFINE held == ledger[i].reservedDelta
    <3> DEFINE row == NewRow(kind, ledger[i].ref, held - charged, -held)
    <3>2. ledger[i] \in Row
      BY <2>1, ElementOfSeq DEF TypeOK
    <3>3. held \in Nat /\ ledger[i].ref \in Refs \cup GrantKeys
      <4>1. RowFacts
        BY <2>1 DEF RowsInv
      <4> QED
        BY <4>1, <3>1, <3>2 DEF Row, RowFacts
    <3>4. row \in Row /\ row.kind = kind /\ row.ref = ledger[i].ref
      <4>1. kind \in Kinds /\ held - charged \in Int /\ -held \in Int
        BY <3>3 DEF Kinds
      <4>2. row \in Row
        BY <2>1, <3>3, <4>1, NewRowType
      <4> QED
        BY <4>2 DEF NewRow
    <3> HIDE DEF row
    <3>5. Total(OpenHolds)' = Total(OpenHolds) - held
      BY <2>1, <3>1, <3>4, OpenHoldsClose DEF row
    <3> QED
      BY <1>1, <2>1, <3>1, <3>3, <3>5 DEF MoneyInv, ReservedIsOpenHolds, TypeOK
  <2>4. CASE GrantStep
    <3>1. PICK key \in GrantKeys, kind \in {"GRANT", "ADJUST"}, amount \in Int :
            /\ ~Posted({"GRANT", "ADJUST"}, key)
            /\ balance >= 0 => balance + amount >= 0
            /\ ledger' = Append(ledger, NewRow(kind, key, amount, 0))
            /\ balance' = balance + amount
            /\ reserved' = reserved
      BY <2>4 DEF GrantStep
    <3> DEFINE row == NewRow(kind, key, amount, 0)
    <3>2. row \in Row /\ row.kind = kind /\ row.ref = key
      BY <2>1, NewRowType DEF Kinds, NewRow
    <3>3. \A i \in 1..Len(ledger) : ledger[i].ref # key
      BY <2>1, <3>1, GrantIsFirstRow
    <3> HIDE DEF row
    <3>4. Total(OpenHolds)' = Total(OpenHolds) + 0
      BY <2>1, <3>1, <3>2, <3>3, OpenHoldsExtend DEF row
    <3> QED
      BY <1>1, <2>1, <3>1, <3>4 DEF MoneyInv, ReservedIsOpenHolds, TypeOK
  <2>5. CASE QuietStep
    BY <1>1, <2>1, <2>5
       DEF QuietStep, MoneyInv, ReservedIsOpenHolds, Total, OpenHolds, Finalized, Posted
  <2> QED
    BY <1>1, <2>1, <2>2, <2>3, <2>4, <2>5, StepShapes
<1>2. ASSUME MoneyInv, UNCHANGED vars PROVE MoneyInv'
  <2>1. RowsInv'
    BY <1>2, RowsInvStep DEF MoneyInv
  <2> QED
    BY <1>2, <2>1 DEF vars, MoneyInv, ReservedIsOpenHolds, Total, OpenHolds, Finalized, Posted
<1> QED
  BY <1>1, <1>2

LEMMA MoneyInvInit == Init => MoneyInv
<1> SUFFICES ASSUME Init PROVE MoneyInv
  OBVIOUS
<1>1. Len(ledger) = 0
  BY EmptySeq DEF Init
<1> QED
  BY <1>1, RowsInvInit, SumOfNothing DEF Init, MoneyInv, ReservedIsOpenHolds, Total

LEMMA MoneyInvHolds == Spec => []MoneyInv
BY MoneyInvInit, MoneyInvStep, PTL DEF Spec

\* The amount in flight is exactly the sum of the holds nobody has finalized.
THEOREM LedgerReserved == Spec => []ReservedIsOpenHolds
<1>1. MoneyInv => ReservedIsOpenHolds
  BY DEF MoneyInv
<1> QED
  BY <1>1, MoneyInvHolds, PTL

\* Neither the spendable balance nor the amount in flight is ever negative.
THEOREM LedgerNeverNegative == Spec => []NeverNegative
<1>1. MoneyInv => NeverNegative
  <2> SUFFICES ASSUME MoneyInv PROVE NeverNegative
    OBVIOUS
  <2>1. OpenHoldsTyped
    BY OpenHoldsType DEF MoneyInv
  <2>2. SumUpTo(OpenHolds, Len(ledger)) >= 0
    BY <2>1, SumNonNegative DEF OpenHoldsTyped
  <2> QED
    BY <2>2 DEF MoneyInv, ReservedIsOpenHolds, Total, NeverNegative
<1> QED
  BY <1>1, MoneyInvHolds, PTL

-----------------------------------------------------------------------------
\* Search slots.

\* A row that is not a turn's hold leaves every turn's slots covered.
LEMMA SlotsKept ==
    ASSUME RowsInv, SlotsAreHeld, slots' = slots, NEW row \in Row,
           ledger' = Append(ledger, row),
           row.kind # "RESERVE" \/ row.ref \notin Turns
    PROVE  SlotsAreHeld'
<1>1. /\ Len(ledger) \in Nat /\ Len(ledger') = Len(ledger) + 1
      /\ \A i \in 1..Len(ledger) : ledger'[i] = ledger[i]
      /\ ledger'[Len(ledger) + 1] = row
  BY AppendedLedger DEF RowsInv, TypeOK
<1>2. \A i \in 1..Len(ledger') : i \in 1..Len(ledger) \/ i = Len(ledger) + 1
  BY <1>1
<1> QED
  BY <1>1, <1>2 DEF SlotsAreHeld

LEMMA SlotsStep == RowsInv /\ SlotsAreHeld /\ [Next]_vars => SlotsAreHeld'
<1> SUFFICES ASSUME RowsInv, SlotsAreHeld, [Next]_vars PROVE SlotsAreHeld'
  OBVIOUS
<1>1. TypeOK /\ \A i \in 1..Len(ledger) : ledger[i] \in Row
  BY ElementOfSeq DEF RowsInv, TypeOK
<1>2. ASSUME NEW j \in Jobs, NEW c \in Amounts, Reserve(j, c)
      PROVE  SlotsAreHeld'
  <2>1. NewRow("RESERVE", j, -c, c) \in Row
    BY <1>1, AmountAssumption, NewRowType DEF Kinds, Refs
  <2>2. ledger' = Append(ledger, NewRow("RESERVE", j, -c, c)) /\ slots' = slots
    BY <1>2 DEF Reserve, TakeHold, Post, NewRow
  <2>3. NewRow("RESERVE", j, -c, c).ref \notin Turns
    BY RefAssumption DEF NewRow
  <2> QED
    BY <2>1, <2>2, <2>3, SlotsKept
<1>3. ASSUME NEW m \in ManualRefunds, NEW c \in Amounts, ReserveManualRefund(m, c)
      PROVE  SlotsAreHeld'
  <2>1. NewRow("RESERVE", m, -c, c) \in Row
    BY <1>1, AmountAssumption, NewRowType DEF Kinds, Refs
  <2>2. ledger' = Append(ledger, NewRow("RESERVE", m, -c, c)) /\ slots' = slots
    BY <1>3 DEF ReserveManualRefund, TakeHold, Post, NewRow
  <2>3. NewRow("RESERVE", m, -c, c).ref \notin Turns
    BY RefAssumption DEF NewRow
  <2> QED
    BY <2>1, <2>2, <2>3, SlotsKept
<1>4. ASSUME NEW t \in Turns, NEW seen \in 0..MaxSeen, ReserveTurn(t, seen)
      PROVE  SlotsAreHeld'
  <2> DEFINE hold == TurnHold(seen)
  <2>1. /\ seen \in Nat /\ seen >= TurnMinimum
        /\ ~Posted({"RESERVE"}, t)
        /\ ledger' = Append(ledger, NewRow("RESERVE", t, -hold, hold))
        /\ slots' = [slots EXCEPT ![t] = GrantedSlots(seen)]
    BY <1>4, LimitAssumption DEF ReserveTurn, TakeHold, Post, NewRow
  <2>2. hold \in Nat /\ hold >= TurnMinimum + GrantedSlots(seen) * SlotPrice
    BY <2>1, TurnHoldCoversSlots
  <2> HIDE DEF hold
  <2>3. NewRow("RESERVE", t, -hold, hold) \in Row
    BY <1>1, <2>2, NewRowType DEF Kinds, Refs
  <2>4. \A i \in 1..Len(ledger) : ledger[i].ref # t
    BY <2>1, HoldIsFirstRow DEF Refs
  <2>5. /\ Len(ledger) \in Nat /\ Len(ledger') = Len(ledger) + 1
        /\ \A i \in 1..Len(ledger) : ledger'[i] = ledger[i]
        /\ ledger'[Len(ledger) + 1] = NewRow("RESERVE", t, -hold, hold)
    BY <1>1, <2>1, <2>3, AppendedLedger DEF TypeOK
  <2>6. /\ slots'[t] = GrantedSlots(seen)
        /\ \A u \in Turns : u # t => slots'[u] = slots[u]
    BY <1>1, <2>1 DEF TypeOK
  <2>7. ASSUME NEW i \in 1..Len(ledger'), ledger'[i].kind = "RESERVE", ledger'[i].ref \in Turns
        PROVE  ledger'[i].reservedDelta >= TurnMinimum + slots'[ledger'[i].ref] * SlotPrice
    <3>1. CASE i \in 1..Len(ledger)
      BY <2>4, <2>5, <2>6, <2>7, <3>1 DEF SlotsAreHeld
    <3>2. CASE i = Len(ledger) + 1
      BY <2>2, <2>5, <2>6, <3>2 DEF NewRow
    <3> QED
      BY <2>5, <3>1, <3>2
  <2> QED
    BY <2>7 DEF SlotsAreHeld
<1>5. ASSUME FinalizeStep \/ GrantStep, slots' = slots
      PROVE  SlotsAreHeld'
  <2>1. CASE FinalizeStep
    <3>1. PICK i \in 1..Len(ledger), kind \in {"SETTLE", "REFUND"}, charged \in Int :
            LET held == ledger[i].reservedDelta IN
            ledger' = Append(ledger, NewRow(kind, ledger[i].ref, held - charged, -held))
      BY <2>1 DEF FinalizeStep
    <3> DEFINE held == ledger[i].reservedDelta
    <3>2. held \in Int /\ ledger[i].ref \in Refs \cup GrantKeys /\ kind \in Kinds
      BY <1>1 DEF Row, Kinds
    <3>3. NewRow(kind, ledger[i].ref, held - charged, -held) \in Row
      BY <1>1, <3>2, NewRowType
    <3>4. NewRow(kind, ledger[i].ref, held - charged, -held).kind # "RESERVE"
      BY DEF NewRow
    <3> QED
      BY <1>5, <3>1, <3>3, <3>4, SlotsKept
  <2>2. CASE GrantStep
    <3>1. PICK key \in GrantKeys, kind \in {"GRANT", "ADJUST"}, amount \in Int :
            ledger' = Append(ledger, NewRow(kind, key, amount, 0))
      BY <2>2 DEF GrantStep
    <3>2. NewRow(kind, key, amount, 0) \in Row
      BY <1>1, NewRowType DEF Kinds
    <3>3. NewRow(kind, key, amount, 0).kind # "RESERVE"
      BY DEF NewRow
    <3> QED
      BY <1>5, <3>1, <3>2, <3>3, SlotsKept
  <2> QED
    BY <1>5, <2>1, <2>2
<1>6. CASE \E r \in Refs, a \in Amounts \cup {0} : Settle(r, a)
  BY <1>1, <1>5, <1>6, SettleShape DEF Settle
<1>7. CASE \E r \in Refs : Refund(r)
  BY <1>1, <1>5, <1>7, RefundShape DEF Refund
<1>8. CASE \E g \in Purchases, a \in Amounts : Grant(g, a)
  BY <1>1, <1>5, <1>8, GrantShapes DEF Grant
<1>9. CASE \E g \in Adjustments, a \in Amounts : Adjust(g, a) \/ Adjust(g, -a)
  BY <1>1, <1>5, <1>9, GrantShapes DEF Adjust
<1>10. CASE (\E c \in Caps : SetSpendCap(c)) \/ Tick \/ UNCHANGED vars
  BY <1>10 DEF SetSpendCap, Tick, vars, SlotsAreHeld
<1> QED
  BY <1>2, <1>3, <1>4, <1>6, <1>7, <1>8, <1>9, <1>10 DEF Next

\* Every turn's hold covers its minimum and the full price of each search slot
\* it was granted.
THEOREM LedgerSlotsAreHeld == Spec => []SlotsAreHeld
<1>1. Init => SlotsAreHeld
  <2> SUFFICES ASSUME Init PROVE SlotsAreHeld
    OBVIOUS
  <2>1. Len(ledger) = 0
    BY EmptySeq DEF Init
  <2> QED
    BY <2>1 DEF SlotsAreHeld
<1> QED
  BY <1>1, RowsInvInit, RowsInvStep, SlotsStep, PTL DEF Spec

-----------------------------------------------------------------------------
\* The rolling window of manual movements.

Weight(row, from, to) ==
    IF IsManual(row) /\ row.day \in from..to THEN Magnitude(row.balanceDelta) ELSE 0

LEMMA ManualDeltasTyped ==
    ASSUME TypeOK, NEW from \in Int, NEW to \in Int
    PROVE  /\ Len(ledger) \in Nat
           /\ \A i \in 1..Len(ledger) : ManualDeltas(from, to)[i] \in Nat
<1>1. Len(ledger) \in Nat /\ \A i \in 1..Len(ledger) : ledger[i] \in Row
  BY LenProperties, ElementOfSeq DEF TypeOK
<1>2. \A i \in 1..Len(ledger) : Magnitude(ledger[i].balanceDelta) \in Nat
  BY <1>1 DEF Row, Magnitude
<1> QED
  BY <1>1, <1>2 DEF ManualDeltas

\* Appending a row adds its weight to every window.
LEMMA UsedExtends ==
    ASSUME TypeOK, NEW row \in Row, ledger' = Append(ledger, row), NEW d \in Nat
    PROVE  UsedByDay(d)' = UsedByDay(d) + Weight(row, d - Window, d)
<1> DEFINE n == Len(ledger)
<1> DEFINE old == ManualDeltas(d - Window, d)
<1> DEFINE new == [i \in 1..(n + 1) |-> Weight(ledger'[i], d - Window, d)]
<1>1. /\ n \in Nat /\ Len(ledger') = n + 1
      /\ \A i \in 1..n : ledger'[i] = ledger[i]
      /\ ledger'[n + 1] = row
  BY AppendedLedger DEF TypeOK
<1>2. UsedByDay(d)' = SumUpTo(new, n + 1)
  BY <1>1 DEF UsedByDay, Total, ManualDeltas, Weight, IsManual
<1>3. \A i \in 1..n : old[i] = new[i]
  BY <1>1 DEF ManualDeltas, Weight
<1>4. new[n + 1] = Weight(row, d - Window, d)
  BY <1>1
<1> HIDE DEF new, old
<1>5. SumUpTo(new, n + 1) = SumUpTo(old, n) + new[n + 1]
  BY <1>1, <1>3, SumExtends
<1> QED
  BY <1>2, <1>4, <1>5 DEF UsedByDay, Total, old

\* A row dated today weighs nothing in an earlier window, and its own
\* magnitude in today's window.
LEMMA WeightToday ==
    ASSUME TypeOK, NEW row \in Row, row.day = today, NEW d \in 0..today
    PROVE  /\ d # today => Weight(row, d - Window, d) = 0
           /\ ~IsManual(row) => Weight(row, d - Window, d) = 0
           /\ Weight(row, d - Window, d) <= Magnitude(row.balanceDelta)
<1>1. Magnitude(row.balanceDelta) \in Nat
  BY DEF Row, Magnitude
<1>2. today \in Nat /\ (d # today => today \notin (d - Window)..d)
  BY LimitAssumption DEF TypeOK
<1> QED
  BY <1>1, <1>2 DEF Weight

\* A manual row that fits into today's window keeps every window bounded, and
\* any other row changes none of them.
LEMMA WindowKept ==
    ASSUME TypeOK, AdjustWindowBounded, NEW row \in Row, row.day = today,
           ledger' = Append(ledger, row), today' = today,
           IsManual(row) => UsedByDay(today) + Magnitude(row.balanceDelta) <= AdjustLimit
    PROVE  AdjustWindowBounded'
<1> SUFFICES ASSUME NEW d \in 0..today PROVE UsedByDay(d)' <= AdjustLimit
  BY DEF AdjustWindowBounded
<1>1. d \in Nat /\ today \in Nat
  BY DEF TypeOK
<1>2. UsedByDay(d)' = UsedByDay(d) + Weight(row, d - Window, d)
  BY <1>1, UsedExtends
<1>3. UsedByDay(d) \in Int /\ UsedByDay(d) <= AdjustLimit
  <2>1. UsedByDay(d) \in Int
    <3>1. d - Window \in Int /\ d \in Int
      BY <1>1, LimitAssumption
    <3>2. /\ Len(ledger) \in Nat
          /\ \A i \in 1..Len(ledger) : ManualDeltas(d - Window, d)[i] \in Nat
      BY <3>1, ManualDeltasTyped
    <3> QED
      BY <3>2, SumIsInt DEF UsedByDay, Total
  <2> QED
    BY <2>1 DEF AdjustWindowBounded
<1>4. Magnitude(row.balanceDelta) \in Nat
  BY DEF Row, Magnitude
<1>5. CASE d # today \/ ~IsManual(row)
  BY <1>2, <1>3, <1>5, WeightToday
<1>6. CASE d = today /\ IsManual(row)
  <2>1. Weight(row, d - Window, d) \in Int
    BY <1>4 DEF Weight
  <2>2. Weight(row, d - Window, d) <= Magnitude(row.balanceDelta)
    BY WeightToday
  <2> QED
    BY <1>2, <1>3, <1>4, <1>6, <2>1, <2>2, LimitAssumption
<1> QED
  BY <1>5, <1>6

\* No row is dated tomorrow, so tomorrow's window holds no more than today's.
LEMMA WindowTick ==
    ASSUME RowsInv, AdjustWindowBounded, Tick
    PROVE  AdjustWindowBounded'
<1>1. /\ today \in Nat /\ today' = today + 1 /\ ledger' = ledger
      /\ Window \in Nat /\ AdjustLimit \in Nat
  BY LimitAssumption DEF Tick, RowsInv, TypeOK
<1> DEFINE old == ManualDeltas(today - Window, today)
<1> DEFINE new == ManualDeltas((today + 1) - Window, today + 1)
<1>2. /\ Len(ledger) \in Nat
      /\ \A i \in 1..Len(ledger) : old[i] \in Nat /\ new[i] \in Nat
  BY <1>1, ManualDeltasTyped DEF RowsInv
<1>3. \A i \in 1..Len(ledger) : new[i] <= old[i]
  <2> SUFFICES ASSUME NEW i \in 1..Len(ledger) PROVE new[i] <= old[i]
    OBVIOUS
  <2>1. ledger[i] \in Row
    BY ElementOfSeq DEF RowsInv, TypeOK
  <2>2. ledger[i].day \in Nat /\ ledger[i].day <= today
    BY <2>1 DEF Row, RowsInv, RowFacts
  <2>3. ledger[i].day \in ((today + 1) - Window)..(today + 1)
            => ledger[i].day \in (today - Window)..today
    BY <1>1, <2>2
  <2>4. Magnitude(ledger[i].balanceDelta) \in Nat
    BY <2>1 DEF Row, Magnitude
  <2> QED
    BY <2>3, <2>4 DEF ManualDeltas
<1>7. /\ UsedByDay(today) = SumUpTo(old, Len(ledger))
      /\ UsedByDay(today + 1) = SumUpTo(new, Len(ledger))
  BY DEF UsedByDay, Total
<1> HIDE DEF old, new
<1>4. SumUpTo(new, Len(ledger)) <= SumUpTo(old, Len(ledger))
  BY <1>2, <1>3, SumMonotone
<1>5. SumUpTo(new, Len(ledger)) \in Int /\ SumUpTo(old, Len(ledger)) \in Int
  BY <1>2, SumIsInt
<1>8. UsedByDay(today + 1) <= AdjustLimit
  BY <1>1, <1>4, <1>5, <1>7 DEF AdjustWindowBounded
<1> SUFFICES ASSUME NEW d \in 0..today' PROVE UsedByDay(d)' <= AdjustLimit
  BY DEF AdjustWindowBounded
<1>9. UsedByDay(d)' = UsedByDay(d)
  BY <1>1 DEF UsedByDay, Total, ManualDeltas, IsManual
<1>10. d \in 0..today \/ d = today + 1
  BY <1>1
<1> QED
  BY <1>8, <1>9, <1>10 DEF AdjustWindowBounded

LEMMA WindowStep == RowsInv /\ AdjustWindowBounded /\ [Next]_vars => AdjustWindowBounded'
<1> SUFFICES ASSUME RowsInv, AdjustWindowBounded, [Next]_vars PROVE AdjustWindowBounded'
  OBVIOUS
<1>1. TypeOK /\ today \in Nat /\ \A i \in 1..Len(ledger) : ledger[i] \in Row
  BY ElementOfSeq DEF RowsInv, TypeOK
<1>2. ASSUME NEW ref \in Jobs \cup Turns, NEW cost \in Int, TakeHold(ref, cost), today' = today
      PROVE  AdjustWindowBounded'
  <2> DEFINE row == NewRow("RESERVE", ref, -cost, cost)
  <2>1. row \in Row /\ row.day = today
    BY <1>1, NewRowType DEF Kinds, Refs, NewRow
  <2>2. ledger' = Append(ledger, row)
    BY <1>2 DEF TakeHold, Post, NewRow
  <2>3. ~IsManual(row)
    BY RefAssumption DEF NewRow, IsManual
  <2> HIDE DEF row
  <2> QED
    BY <1>1, <1>2, <2>1, <2>2, <2>3, WindowKept
<1>3. CASE \E j \in Jobs, c \in Amounts : Reserve(j, c)
  BY <1>2, <1>3, AmountAssumption DEF Reserve
<1>4. ASSUME NEW t \in Turns, NEW seen \in 0..MaxSeen, ReserveTurn(t, seen)
      PROVE  AdjustWindowBounded'
  <2>1. TurnHold(seen) \in Int
    BY <1>4, TurnHoldCoversSlots, LimitAssumption DEF ReserveTurn
  <2> QED
    BY <1>2, <1>4, <2>1 DEF ReserveTurn
<1>5. ASSUME NEW m \in ManualRefunds, NEW c \in Amounts, ReserveManualRefund(m, c)
      PROVE  AdjustWindowBounded'
  <2> DEFINE row == NewRow("RESERVE", m, -c, c)
  <2>1. row \in Row /\ row.day = today /\ c \in Nat /\ row.balanceDelta = -c
    BY <1>1, AmountAssumption, NewRowType DEF Kinds, Refs, NewRow
  <2>2. /\ ledger' = Append(ledger, row) /\ today' = today
        /\ UsedByDay(today) + c <= AdjustLimit
    BY <1>5 DEF ReserveManualRefund, TakeHold, Post, NewRow
  <2>3. Magnitude(row.balanceDelta) = c
    BY <2>1 DEF Magnitude
  <2> HIDE DEF row
  <2> QED
    BY <1>1, <2>1, <2>2, <2>3, WindowKept
<1>6. ASSUME NEW ref \in Refs, NEW kind \in {"SETTLE", "REFUND"}, NEW db \in Int, NEW dr \in Int,
             ledger' = Append(ledger, NewRow(kind, ref, db, dr)), today' = today
      PROVE  AdjustWindowBounded'
  <2> DEFINE row == NewRow(kind, ref, db, dr)
  <2>1. row \in Row /\ row.day = today /\ ~IsManual(row)
    BY <1>1, NewRowType DEF Kinds, NewRow, IsManual
  <2>2. ledger' = Append(ledger, row)
    BY <1>6
  <2> HIDE DEF row
  <2> QED
    BY <1>1, <1>6, <2>1, <2>2, WindowKept
<1>7. ASSUME NEW r \in Refs, NEW a \in Amounts \cup {0}, Settle(r, a)
      PROVE  AdjustWindowBounded'
  <2>1. PICK i \in 1..Len(ledger) :
          LET held == ledger[i].reservedDelta
              charged == Smaller(Larger(0, a), held)
          IN  Post("SETTLE", r, held - charged, -held) /\ today' = today
    BY <1>7 DEF Settle
  <2>2. ledger[i].reservedDelta \in Int /\ a \in Int
    BY <1>1, AmountAssumption DEF Row
  <2> DEFINE held == ledger[i].reservedDelta
  <2> DEFINE charged == Smaller(Larger(0, a), held)
  <2>3. charged \in Int
    BY <2>2, SmallestCharge
  <2>4. held - charged \in Int /\ -held \in Int
    BY <2>2, <2>3
  <2>5. /\ ledger' = Append(ledger, NewRow("SETTLE", r, held - charged, -held))
        /\ today' = today
    BY <2>1 DEF Post, NewRow
  <2> HIDE DEF held, charged
  <2> QED
    BY <1>6, <2>4, <2>5
<1>8. ASSUME NEW r \in Refs, Refund(r)
      PROVE  AdjustWindowBounded'
  <2>1. PICK i \in 1..Len(ledger) :
          LET held == ledger[i].reservedDelta
          IN  Post("REFUND", r, held, -held) /\ today' = today
    BY <1>8 DEF Refund
  <2>2. ledger[i].reservedDelta \in Int
    BY <1>1 DEF Row
  <2> QED
    BY <1>6, <2>1, <2>2 DEF Post, NewRow
<1>9. ASSUME NEW g \in Purchases, NEW a \in Amounts, Grant(g, a)
      PROVE  AdjustWindowBounded'
  <2> DEFINE row == NewRow("GRANT", g, a, 0)
  <2>1. row \in Row /\ row.day = today
    BY <1>1, AmountAssumption, NewRowType DEF Kinds, GrantKeys, NewRow
  <2>2. ledger' = Append(ledger, row) /\ today' = today
    BY <1>9 DEF Grant, Post, NewRow
  <2>3. ~IsManual(row)
    BY RefAssumption DEF NewRow, IsManual
  <2> HIDE DEF row
  <2> QED
    BY <1>1, <2>1, <2>2, <2>3, WindowKept
<1>10. ASSUME NEW g \in Adjustments, NEW a \in Int, Adjust(g, a)
       PROVE  AdjustWindowBounded'
  <2> DEFINE kind == IF a > 0 THEN "GRANT" ELSE "ADJUST"
  <2> DEFINE row == NewRow(kind, g, a, 0)
  <2>1. row \in Row /\ row.day = today /\ row.balanceDelta = a
    <3>1. kind \in Kinds /\ g \in Refs \cup GrantKeys
      BY DEF Kinds, GrantKeys
    <3>2. row \in Row
      BY <1>1, <3>1, NewRowType
    <3> QED
      BY <3>2 DEF NewRow
  <2>2. /\ ledger' = Append(ledger, row) /\ today' = today
        /\ UsedByDay(today) + Magnitude(a) <= AdjustLimit
    BY <1>10 DEF Adjust, Post, NewRow
  <2> HIDE DEF row
  <2> QED
    BY <1>1, <2>1, <2>2, WindowKept
<1>11. CASE \E g \in Adjustments, a \in Amounts : Adjust(g, a) \/ Adjust(g, -a)
  BY <1>10, <1>11, AmountAssumption
<1>12. CASE Tick
  BY <1>12, WindowTick
<1>13. CASE (\E c \in Caps : SetSpendCap(c)) \/ UNCHANGED vars
  BY <1>13 DEF SetSpendCap, vars, AdjustWindowBounded, UsedByDay, Total, ManualDeltas, IsManual
<1> QED
  BY <1>3, <1>4, <1>5, <1>7, <1>8, <1>9, <1>11, <1>12, <1>13 DEF Next

\* In every window of the configured length, past or present, the manual
\* movements of a workspace stay within the limit.
THEOREM LedgerAdjustWindow == Spec => []AdjustWindowBounded
<1>1. Init => AdjustWindowBounded
  <2> SUFFICES ASSUME Init PROVE AdjustWindowBounded
    OBVIOUS
  <2>1. Len(ledger) = 0
    BY EmptySeq DEF Init
  <2> QED
    BY <2>1, SumOfNothing, LimitAssumption DEF AdjustWindowBounded, UsedByDay, Total
<1> QED
  BY <1>1, RowsInvInit, RowsInvStep, WindowStep, PTL DEF Spec
-----------------------------------------------------------------------------
\* The ledger as the database runs it: what a connection knows of the
\* committed state while its transaction is open.

Holding == {"job", "turn", "manual"}
Granting == {"grant", "adjust"}
Finalizing == {"settle", "refund"}

Statements ==
    {"insertJob", "lockForCap", "lockForAdjust", "countWindow", "readBalance",
     "hold", "insertReserve", "insertGrant", "applyGrant",
     "readReserve", "insertFinal", "applyFinal", "commit"}

Txs == [op : Holding \cup Granting \cup Finalizing, ref : Refs \cup GrantKeys,
        amount : Int, pc : Statements, org : {"none", "shared", "exclusive"},
        account : BOOLEAN, seen : Int, row : {NoRow} \cup Row, db : Int, dr : Int]

\* The arguments an operation is called with.
Asked(t) ==
    /\ t.op = "job" => t.ref \in Jobs /\ t.amount \in Amounts
    /\ t.op = "turn" => t.ref \in Turns
    /\ t.op = "manual" => t.ref \in ManualRefunds /\ t.amount \in Amounts
    /\ t.op = "grant" => t.ref \in Purchases /\ t.amount \in Amounts
    /\ t.op = "adjust" =>
          t.ref \in Adjustments /\ \E a \in Amounts : t.amount = a \/ t.amount = -a
    /\ t.op \in Finalizing => t.ref \in Refs
    /\ t.op = "settle" => t.amount \in Amounts \cup {0}

\* Which statements an operation runs, and the locks and the row it has by then.
Inserted(t) ==
    \/ t.pc \in {"applyGrant", "applyFinal", "commit"}
    \/ t.op = "adjust" /\ t.pc = "countWindow"

Placed(t) ==
    /\ t.pc \in {"insertJob", "lockForCap"} => t.op = "job"
    /\ t.pc = "readBalance" => t.op = "turn"
    /\ t.pc \in {"lockForAdjust", "countWindow"} => t.op \in {"manual", "adjust"}
    /\ t.pc \in {"hold", "insertReserve"} => t.op \in Holding
    /\ t.pc \in {"insertGrant", "applyGrant"} => t.op \in Granting
    /\ t.pc \in {"readReserve", "insertFinal", "applyFinal"} => t.op \in Finalizing
    /\ t.pc \in {"insertJob", "lockForAdjust"} => t.org = "none"
    /\ t.account <=> t.pc \in {"insertReserve", "commit"}
    /\ t.row # NoRow <=> Inserted(t)
    /\ Inserted(t) => t.org # "none"
    /\ t.op = "job" /\ t.pc \in {"hold", "insertReserve", "commit"} => t.org = "exclusive"
    /\ t.op \in {"manual", "adjust"} /\ t.pc # "lockForAdjust" => t.org = "exclusive"

\* What of its hold a finalizer gives back, and the row a transaction writes.
GivenBack(t) ==
    IF t.op = "refund" THEN t.seen
    ELSE t.seen - Smaller(Larger(0, t.amount), t.seen)

KindsOf(t) ==
    IF t.op \in Holding THEN {"RESERVE"}
    ELSE IF t.op \in Granting THEN {"GRANT", "ADJUST"} ELSE {"SETTLE", "REFUND"}

RowOf(t) ==
    IF t.op \in Holding THEN NewRow("RESERVE", t.ref, -t.amount, t.amount)
    ELSE IF t.op \in Granting
         THEN NewRow(IF t.amount > 0 THEN "GRANT" ELSE "ADJUST", t.ref, t.amount, 0)
         ELSE NewRow(IF t.op = "refund" THEN "REFUND" ELSE "SETTLE",
                     t.ref, GivenBack(t), -t.seen)

\* What an earlier statement found is still so: the cap, the window, the
\* balance, the hold that is finalized, and nobody else's row under its key.
Judged(t) ==
    /\ t.op = "job" /\ t.pc \in {"hold", "insertReserve", "commit"} => WithinSpendCap(t.amount)
    /\ t.op = "turn" /\ t.pc # "readBalance" =>
          t.seen \in Nat /\ t.seen >= TurnMinimum /\ t.amount = TurnHold(t.seen) /\ t.amount > 0
    /\ t.op \in Holding /\ t.account =>
          balance >= t.amount /\ t.db = -t.amount /\ t.dr = t.amount
    /\ \/ t.op = "manual" /\ t.pc \in {"hold", "insertReserve", "commit"}
       \/ t.op = "adjust" /\ t.pc \in {"applyGrant", "commit"}
       => UsedByDay(today) + Magnitude(t.amount) <= AdjustLimit
    /\ t.op \in Granting => t.dr = 0
    /\ t.op \in Granting /\ t.account => balance + t.amount >= 0 /\ t.db = t.amount
    /\ t.op \in Finalizing /\ t.pc # "readReserve" =>
          \E i \in 1..Len(ledger) :
              /\ ledger[i].kind = "RESERVE" /\ ledger[i].ref = t.ref
              /\ ledger[i].reservedDelta = t.seen
    /\ t.op \in Finalizing /\ t.account => t.db = GivenBack(t) /\ t.dr = -t.seen
    /\ t.row # NoRow => t.row = RowOf(t) /\ ~Posted(KindsOf(t), t.ref)

Sound(t) == t \in Txs /\ Asked(t) /\ Placed(t) /\ Judged(t)

\* What two open transactions can never both have.
Apart(t, u) ==
    /\ ~(t.account /\ u.account)
    /\ t.org = "exclusive" => u.org = "none"
    /\ u.org = "exclusive" => t.org = "none"
    /\ t.row # NoRow /\ u.row # NoRow /\ KindsOf(t) = KindsOf(u) => t.ref # u.ref

TxInv ==
    /\ MoneyInv
    /\ tx \in [Procs -> {Idle} \cup Txs]
    /\ \A p \in Procs : Active(p) => Sound(tx[p])
    /\ \A p \in Procs : \A q \in Others(p) : Active(p) => Apart(tx[p], tx[q])

\* A statement that commits nothing: only its own transaction changes.
LEMMA GoesOnKeeps ==
    ASSUME TxInv, NEW p \in Procs, NEW next, GoesOn(p, next),
           next = Idle \/ (Sound(next) /\ \A q \in Others(p) : Apart(next, tx[q]))
    PROVE  TxInv'
<1>1. MoneyInv'
  BY MoneyInvStep DEF TxInv, GoesOn
<1>2. /\ tx[p] \in {Idle} \cup Txs /\ next \in {Idle} \cup Txs
      /\ tx' \in [Procs -> {Idle} \cup Txs]
      /\ tx'[p] = next
      /\ \A q \in Procs \ {p} : tx'[q] = tx[q]
  BY DEF TxInv, GoesOn, Sound
<1>3. \A q \in Procs : Active(q)' <=> tx'[q].pc # "idle"
  BY DEF Active
<1>4. next # Idle => Sound(next)
  OBVIOUS
<1>5. UNCHANGED <<balance, reserved, ledger, cap, today>>
  BY DEF GoesOn, vars
<1>6. \A q \in Procs \ {p} : Active(q) => Sound(tx[q])
  BY DEF TxInv
<1>7. ASSUME NEW q \in Procs, Active(q)'
      PROVE  Sound(tx[q])'
  <2>1. Sound(tx'[q])
    BY <1>2, <1>3, <1>4, <1>6, <1>7 DEF Active, Idle
  <2>2. Judged(tx[q])'
    <3>1. UsedByDay(today)' = UsedByDay(today)
      BY <1>5 DEF UsedByDay, Total, ManualDeltas, IsManual
    <3>2. Judged(tx'[q])
      BY <2>1 DEF Sound
    <3> QED
      BY <3>1, <3>2, <1>5 DEF Judged, WithinSpendCap, Posted, RowOf, NewRow
  <2>3. Asked(tx[q])' /\ Placed(tx[q])'
    BY <2>1 DEF Sound, Asked, Placed, Inserted
  <2> QED
    BY <2>1, <2>2, <2>3 DEF Sound
<1>8. ASSUME NEW q \in Procs, NEW r \in Others(q)', Active(q)'
      PROVE  Apart(tx[q], tx[r])'
  <2>1. r \in Procs /\ r # q /\ tx'[r].pc # "idle" /\ tx'[q].pc # "idle"
    BY <1>8 DEF Others, Active
  <2>2. CASE q = p
    <3>1. r \in Others(p) /\ next # Idle
      BY <2>1, <2>2, <1>2 DEF Others, Active, Idle
    <3>2. Apart(next, tx[r])
      BY <3>1
    <3> QED
      BY <3>2, <2>2, <2>1, <1>2 DEF Apart, KindsOf
  <2>3. CASE r = p
    <3>1. q \in Others(p) /\ next # Idle
      BY <2>1, <2>3, <1>2 DEF Others, Active, Idle
    <3>2. Apart(next, tx[q])
      BY <3>1
    <3> QED
      BY <3>2, <2>3, <2>1, <1>2 DEF Apart, KindsOf
  <2>4. CASE q # p /\ r # p
    <3>1. Apart(tx[q], tx[r])
      BY <2>1, <2>4, <1>2 DEF Others, Active, TxInv
    <3> QED
      BY <3>1, <2>4, <2>1, <1>2 DEF Apart, KindsOf
  <2> QED
    BY <2>2, <2>3, <2>4
<1> QED
  BY <1>1, <1>2, <1>7, <1>8 DEF TxInv

LEMMA OpenTransaction ==
    ASSUME TxInv, NEW p \in Procs, tx[p].pc # "idle"
    PROVE  /\ Sound(tx[p]) /\ tx[p] \in Txs
           /\ \A q \in Others(p) : Sound(tx[q]) /\ Apart(tx[p], tx[q])
BY DEF TxInv, Active, Others, Sound

\* Going on without a new lock or row stays apart from everybody else.
LEMMA ApartKept ==
    ASSUME TxInv, NEW p \in Procs, tx[p].pc # "idle", NEW next,
           next.account = tx[p].account, next.org = tx[p].org,
           next.row = tx[p].row, next.op = tx[p].op, next.ref = tx[p].ref
    PROVE  \A q \in Others(p) : Apart(next, tx[q])
<1>1. \A q \in Others(p) : Apart(tx[p], tx[q])
  BY OpenTransaction
<1> QED
  BY <1>1 DEF Apart, KindsOf

LEMMA BeginKeeps ==
    ASSUME TxInv, NEW p \in Procs, Start(p)
    PROVE  TxInv'
<1>1. ASSUME NEW op \in Holding \cup Granting \cup Finalizing, NEW ref \in Refs \cup GrantKeys,
             NEW amount \in Int, Asked(Transaction(op, ref, amount)), Begin(p, op, ref, amount)
      PROVE  TxInv'
  <2> DEFINE next == Transaction(op, ref, amount)
  <2>1. /\ next \in Txs
        /\ next.account = FALSE /\ next.org = "none" /\ next.row = NoRow
        /\ next.op = op /\ next.pc = FirstStatement(op) /\ next.dr = 0
    BY DEF Transaction, FirstStatement, Txs, Holding, Granting, Finalizing, Statements
  <2>2. Placed(next)
    BY <2>1 DEF Placed, Inserted, FirstStatement, Holding, Granting, Finalizing
  <2>3. Judged(next)
    BY <2>1 DEF Judged, FirstStatement, Holding, Granting, Finalizing
  <2>4. \A q \in Others(p) : Apart(next, tx[q])
    BY <2>1 DEF Apart
  <2>5. Sound(next)
    BY <1>1, <2>1, <2>2, <2>3 DEF Sound
  <2>6. GoesOn(p, next)
    BY <1>1 DEF Begin
  <2> HIDE DEF next
  <2> QED
    BY <2>4, <2>5, <2>6, GoesOnKeeps
<1>2. Amounts \subseteq Int /\ 0 \in Int /\ \A a \in Amounts : -a \in Int
  BY AmountAssumption
<1>3. CASE \E j \in Jobs, c \in Amounts : Begin(p, "job", j, c)
  BY <1>1, <1>2, <1>3 DEF Asked, Transaction, Holding, Finalizing, Refs
<1>4. CASE \E t \in Turns : Begin(p, "turn", t, 0)
  BY <1>1, <1>2, <1>4 DEF Asked, Transaction, Holding, Finalizing, Refs
<1>5. CASE \E m \in ManualRefunds, c \in Amounts : Begin(p, "manual", m, c)
  BY <1>1, <1>2, <1>5 DEF Asked, Transaction, Holding, Finalizing, Refs
<1>6. CASE \E g \in Purchases, a \in Amounts : Begin(p, "grant", g, a)
  BY <1>1, <1>2, <1>6 DEF Asked, Transaction, Granting, Finalizing, GrantKeys
<1>7. CASE \E g \in Adjustments, a \in Amounts :
              Begin(p, "adjust", g, a) \/ Begin(p, "adjust", g, -a)
  BY <1>1, <1>2, <1>7 DEF Asked, Transaction, Granting, Finalizing, GrantKeys
<1>8. CASE \E r \in Refs, a \in Amounts \cup {0} : Begin(p, "settle", r, a)
  BY <1>1, <1>2, <1>8 DEF Asked, Transaction, Finalizing
<1>9. CASE \E r \in Refs : Begin(p, "refund", r, 0)
  BY <1>1, <1>2, <1>9 DEF Asked, Transaction, Finalizing
<1> QED
  BY <1>3, <1>4, <1>5, <1>6, <1>7, <1>8, <1>9 DEF Start

\* The locks a submit, a manual refund and an adjustment take.
LEMMA LocksKeep ==
    ASSUME TxInv, NEW p \in Procs, InsertJob(p) \/ LockForCap(p) \/ LockForAdjust(p)
    PROVE  TxInv'
<1> DEFINE t == tx[p]
<1>1. t.pc # "idle"
  BY DEF InsertJob, LockForCap, LockForAdjust, Runs
<1>2. /\ Sound(t) /\ t \in Txs
      /\ \A q \in Others(p) : Sound(tx[q]) /\ Apart(t, tx[q])
  BY <1>1, OpenTransaction
<1>3. CASE InsertJob(p)
  <2> DEFINE next == [t EXCEPT !.pc = "lockForCap", !.org = Share(p)]
  <2>1. t.pc = "insertJob" /\ t.op = "job" /\ t.row = NoRow /\ t.account = FALSE
    BY <1>2, <1>3 DEF InsertJob, Runs, Sound, Placed, Inserted, Txs
  <2>2. Sound(next)
    <3>1. /\ next \in Txs /\ next.pc = "lockForCap" /\ next.org \in {"shared", "exclusive"}
          /\ next.op = t.op /\ next.ref = t.ref /\ next.amount = t.amount
          /\ next.account = t.account /\ next.row = t.row
      BY <1>2 DEF Txs, Statements, Share
    <3> HIDE DEF next
    <3>2. Asked(next) /\ Placed(next)
      BY <1>2, <2>1, <3>1 DEF Sound, Asked, Placed, Inserted, Holding, Granting, Finalizing
    <3>3. Judged(next)
      BY <2>1, <3>1 DEF Judged, Holding, Granting, Finalizing
    <3> QED
      BY <3>1, <3>2, <3>3 DEF Sound
  <2>3. \A q \in Others(p) : Apart(next, tx[q])
    BY <1>2, <1>3, <2>1 DEF Apart, InsertJob, Runs, WaitsFor, Active, Others, Share, Txs
  <2>4. GoesOn(p, next)
    BY <1>3 DEF InsertJob
  <2> HIDE DEF next
  <2> QED
    BY <2>2, <2>3, <2>4, GoesOnKeeps
<1>4. CASE LockForCap(p)
  <2> DEFINE next == [t EXCEPT !.pc = "hold", !.org = "exclusive"]
  <2>1. t.pc = "lockForCap" /\ t.op = "job" /\ t.row = NoRow /\ t.account = FALSE
    BY <1>2, <1>4 DEF LockForCap, Runs, Sound, Placed, Inserted, Txs
  <2>2. WithinSpendCap(t.amount)
    BY <1>4 DEF LockForCap
  <2>3. Sound(next)
    <3>1. /\ next \in Txs /\ next.pc = "hold" /\ next.org = "exclusive"
          /\ next.op = t.op /\ next.ref = t.ref /\ next.amount = t.amount
          /\ next.account = t.account /\ next.row = t.row
      BY <1>2 DEF Txs, Statements
    <3> HIDE DEF next
    <3>2. Asked(next) /\ Placed(next)
      BY <1>2, <2>1, <3>1 DEF Sound, Asked, Placed, Inserted, Holding, Granting, Finalizing
    <3>3. Judged(next)
      BY <2>1, <2>2, <3>1 DEF Judged, Holding, Granting, Finalizing
    <3> QED
      BY <3>1, <3>2, <3>3 DEF Sound
  <2>4. \A q \in Others(p) : Apart(next, tx[q])
    BY <1>2, <1>4, <2>1 DEF Apart, LockForCap, Runs, WaitsFor, Active, Others, Txs
  <2>5. GoesOn(p, next)
    BY <1>4 DEF LockForCap
  <2> HIDE DEF next
  <2> QED
    BY <2>3, <2>4, <2>5, GoesOnKeeps
<1>5. CASE LockForAdjust(p)
  <2> DEFINE pc == IF t.op = "manual" THEN "countWindow" ELSE "insertGrant"
             next == [t EXCEPT !.pc = pc, !.org = "exclusive"]
  <2>1. t.pc = "lockForAdjust" /\ t.op \in {"manual", "adjust"} /\ t.row = NoRow /\ t.account = FALSE
    BY <1>2, <1>5 DEF LockForAdjust, Runs, Sound, Placed, Inserted, Txs
  <2>2. GoesOn(p, next)
    BY <1>5 DEF LockForAdjust
  <2>3. pc = (IF t.op = "manual" THEN "countWindow" ELSE "insertGrant") /\ pc \in Statements
    BY DEF Statements
  <2> HIDE DEF pc
  <2>4. /\ next \in Txs /\ next.org = "exclusive" /\ next.pc = pc
        /\ next.op = t.op /\ next.ref = t.ref /\ next.amount = t.amount
        /\ next.account = t.account /\ next.row = t.row /\ next.dr = t.dr
    BY <1>2, <2>3 DEF Txs
  <2> HIDE DEF next
  <2>5. Asked(next) /\ Placed(next)
    BY <1>2, <2>1, <2>3, <2>4 DEF Sound, Asked, Placed, Inserted, Holding, Granting, Finalizing
  <2>6. Judged(next)
    BY <1>2, <2>1, <2>3, <2>4 DEF Sound, Judged, Holding, Granting, Finalizing
  <2>7. \A q \in Others(p) : Apart(next, tx[q])
    BY <1>2, <1>5, <2>1, <2>4 DEF Apart, LockForAdjust, Runs, WaitsFor, Active, Others
  <2> QED
    BY <2>2, <2>4, <2>5, <2>6, <2>7, GoesOnKeeps DEF Sound
<1> QED
  BY <1>3, <1>4, <1>5

\* The window is counted under the organization's lock, a turn reads the
\* balance under none.
LEMMA ReadsKeep ==
    ASSUME TxInv, NEW p \in Procs, CountWindow(p) \/ ReadBalance(p) \/ ReadReserve(p)
    PROVE  TxInv'
<1> DEFINE t == tx[p]
<1>1. t.pc # "idle"
  BY DEF CountWindow, ReadBalance, ReadReserve, Runs
<1>2. /\ Sound(t) /\ t \in Txs
      /\ \A q \in Others(p) : Sound(tx[q]) /\ Apart(t, tx[q])
  BY <1>1, OpenTransaction
<1>3. balance \in Int /\ \A i \in 1..Len(ledger) : ledger[i].reservedDelta \in Int
  <2>1. TypeOK
    BY DEF TxInv, MoneyInv, RowsInv
  <2>2. \A i \in 1..Len(ledger) : ledger[i] \in Row
    BY <2>1, ElementOfSeq DEF TypeOK
  <2> QED
    BY <2>1, <2>2 DEF TypeOK, Row
<1>4. CASE CountWindow(p)
  <2> DEFINE next == [t EXCEPT !.pc = IF t.op = "manual" THEN "hold" ELSE "applyGrant"]
  <2>1. t.pc = "countWindow" /\ t.op \in {"manual", "adjust"} /\ t.account = FALSE
        /\ UsedByDay(today) + Magnitude(t.amount) <= AdjustLimit
    BY <1>2, <1>4 DEF CountWindow, Runs, Sound, Placed, Txs
  <2>2. /\ next \in Txs
        /\ next.pc = IF t.op = "manual" THEN "hold" ELSE "applyGrant"
        /\ next.op = t.op /\ next.ref = t.ref /\ next.amount = t.amount
        /\ next.account = t.account /\ next.org = t.org /\ next.row = t.row
        /\ next.seen = t.seen /\ next.dr = t.dr
    BY <1>2 DEF Txs, Statements
  <2>3. GoesOn(p, next)
    BY <1>4 DEF CountWindow
  <2> HIDE DEF next
  <2>4. Asked(next) /\ Placed(next)
    BY <1>2, <2>1, <2>2 DEF Sound, Asked, Placed, Inserted, Holding, Granting, Finalizing
  <2>5. RowOf(next) = RowOf(t) /\ KindsOf(next) = KindsOf(t)
    BY <2>2 DEF RowOf, KindsOf, GivenBack
  <2>6. Judged(next)
    BY <1>2, <2>1, <2>2, <2>5 DEF Sound, Judged, Holding, Granting, Finalizing
  <2>7. \A q \in Others(p) : Apart(next, tx[q])
    BY <1>1, <2>2, ApartKept
  <2> QED
    BY <2>2, <2>3, <2>4, <2>6, <2>7, GoesOnKeeps DEF Sound
<1>5. CASE ReadBalance(p)
  <2> DEFINE cost == TurnHold(balance)
             next == [t EXCEPT !.pc = "hold", !.seen = balance, !.amount = cost]
  <2>1. t.pc = "readBalance" /\ t.op = "turn" /\ t.account = FALSE /\ t.row = NoRow
        /\ balance \in Nat /\ balance >= TurnMinimum /\ cost > 0
    BY <1>2, <1>3, <1>5, TurnAssumption
       DEF ReadBalance, Runs, Sound, Placed, Inserted, Txs
  <2>2. cost \in Int
    BY <2>1, TurnHoldCoversSlots
  <2>4. GoesOn(p, next)
    BY <1>5 DEF ReadBalance
  <2> HIDE DEF cost
  <2>3. /\ next \in Txs
        /\ next.pc = "hold" /\ next.seen = balance /\ next.amount = cost
        /\ next.op = t.op /\ next.ref = t.ref
        /\ next.account = t.account /\ next.org = t.org /\ next.row = t.row
    BY <1>2, <1>3, <2>2 DEF Txs, Statements
  <2> HIDE DEF next
  <2>5. Asked(next) /\ Placed(next)
    BY <1>2, <2>1, <2>3 DEF Sound, Asked, Placed, Inserted, Holding, Granting, Finalizing
  <2>6. Judged(next)
    BY <2>1, <2>3 DEF Judged, Holding, Granting, Finalizing, cost
  <2>7. \A q \in Others(p) : Apart(next, tx[q])
    BY <1>1, <2>3, ApartKept
  <2> QED
    BY <2>3, <2>4, <2>5, <2>6, <2>7, GoesOnKeeps DEF Sound
<1>6. CASE ReadReserve(p)
  <2>1. PICK i \in 1..Len(ledger) :
          /\ ledger[i].kind = "RESERVE" /\ ledger[i].ref = t.ref
          /\ GoesOn(p, [t EXCEPT !.pc = "insertFinal", !.seen = ledger[i].reservedDelta])
    BY <1>6 DEF ReadReserve
  <2> DEFINE next == [t EXCEPT !.pc = "insertFinal", !.seen = ledger[i].reservedDelta]
  <2>2. t.pc = "readReserve" /\ t.op \in Finalizing /\ t.account = FALSE /\ t.row = NoRow
    BY <1>2, <1>6 DEF ReadReserve, Runs, Sound, Placed, Inserted, Txs
  <2>3. /\ next \in Txs
        /\ next.pc = "insertFinal" /\ next.seen = ledger[i].reservedDelta
        /\ next.op = t.op /\ next.ref = t.ref /\ next.amount = t.amount
        /\ next.account = t.account /\ next.org = t.org /\ next.row = t.row
    BY <1>2, <1>3 DEF Txs, Statements
  <2>4. GoesOn(p, next)
    BY <2>1
  <2> HIDE DEF next
  <2>5. Asked(next) /\ Placed(next)
    BY <1>2, <2>2, <2>3 DEF Sound, Asked, Placed, Inserted, Holding, Granting, Finalizing
  <2>6. Judged(next)
    BY <2>1, <2>2, <2>3 DEF Judged, Holding, Granting, Finalizing
  <2>7. \A q \in Others(p) : Apart(next, tx[q])
    BY <1>1, <2>3, ApartKept
  <2> QED
    BY <2>3, <2>4, <2>5, <2>6, <2>7, GoesOnKeeps DEF Sound
<1> QED
  BY <1>4, <1>5, <1>6

\* The statements that take the account row: a hold, a grant and a finalizer.
LEMMA MovesKeep ==
    ASSUME TxInv, NEW p \in Procs, HoldCredits(p) \/ ApplyGrant(p) \/ ApplyFinal(p)
    PROVE  TxInv'
<1> DEFINE t == tx[p]
<1>1. t.pc # "idle"
  BY DEF HoldCredits, ApplyGrant, ApplyFinal, Runs
<1>2. /\ Sound(t) /\ t \in Txs
      /\ \A q \in Others(p) : Sound(tx[q]) /\ Apart(t, tx[q])
  BY <1>1, OpenTransaction
<1>3. t.amount \in Int /\ -t.amount \in Int /\ t.seen \in Int /\ -t.seen \in Int
      /\ GivenBack(t) \in Int
  BY <1>2 DEF Txs, GivenBack, Smaller, Larger
<1>4. balance \in Int /\ balance >= 0
  BY DEF TxInv, MoneyInv, RowsInv, TypeOK
<1>5. ASSUME NEW next, next.org = t.org, next.row = t.row, next.op = t.op, next.ref = t.ref,
             \A q \in Others(p) : tx[q].account = FALSE
      PROVE  \A q \in Others(p) : Apart(next, tx[q])
  BY <1>2, <1>5 DEF Apart, KindsOf
<1>6. CASE HoldCredits(p)
  <2> DEFINE db == -t.amount
             next == [t EXCEPT !.pc = "insertReserve", !.account = TRUE, !.db = db, !.dr = t.amount]
  <2>1. t.pc = "hold" /\ t.op \in Holding /\ t.row = NoRow /\ balance >= t.amount
    BY <1>2, <1>6 DEF HoldCredits, Runs, Sound, Placed, Inserted, Txs, Holding
  <2>2. \A q \in Others(p) : tx[q].account = FALSE
    BY <1>2, <1>6, <2>1 DEF HoldCredits, Runs, WaitsFor, Active, Others, Sound, Txs
  <2>3. GoesOn(p, next)
    BY <1>6 DEF HoldCredits
  <2>4. db = -t.amount /\ db \in Int
    BY <1>3
  <2> HIDE DEF db
  <2>5. /\ next \in Txs
        /\ next.pc = "insertReserve" /\ next.account = TRUE /\ next.db = db /\ next.dr = t.amount
        /\ next.op = t.op /\ next.ref = t.ref /\ next.amount = t.amount
        /\ next.org = t.org /\ next.row = t.row /\ next.seen = t.seen
    BY <1>2, <1>3, <2>4 DEF Txs, Statements
  <2> HIDE DEF next
  <2>6. Asked(next) /\ Placed(next)
    BY <1>2, <2>1, <2>5 DEF Sound, Asked, Placed, Inserted, Holding, Granting, Finalizing
  <2>7. Judged(next)
    BY <1>2, <2>1, <2>4, <2>5 DEF Sound, Judged, Holding, Granting, Finalizing
  <2> QED
    BY <1>5, <2>2, <2>3, <2>5, <2>6, <2>7, GoesOnKeeps DEF Sound
<1>7. CASE ApplyGrant(p)
  <2> DEFINE next == [t EXCEPT !.pc = "commit", !.account = TRUE, !.db = t.amount]
  <2>1. t.pc = "applyGrant" /\ t.op \in Granting /\ t.row # NoRow
        /\ (t.amount > 0 \/ balance >= -t.amount)
    BY <1>2, <1>7 DEF ApplyGrant, Runs, Sound, Placed, Inserted, Txs, Granting
  <2>2. \A q \in Others(p) : tx[q].account = FALSE
    BY <1>2, <1>7, <2>1 DEF ApplyGrant, Runs, WaitsFor, Active, Others, Sound, Txs
  <2>3. GoesOn(p, next)
    BY <1>7 DEF ApplyGrant
  <2>4. balance + t.amount >= 0
    BY <1>3, <1>4, <2>1
  <2>5. /\ next \in Txs
        /\ next.pc = "commit" /\ next.account = TRUE /\ next.db = t.amount /\ next.dr = t.dr
        /\ next.op = t.op /\ next.ref = t.ref /\ next.amount = t.amount
        /\ next.org = t.org /\ next.row = t.row /\ next.seen = t.seen
    BY <1>2, <1>3 DEF Txs, Statements
  <2> HIDE DEF next
  <2>6. Asked(next) /\ Placed(next)
    BY <1>2, <2>1, <2>5 DEF Sound, Asked, Placed, Inserted, Holding, Granting, Finalizing
  <2>7. RowOf(next) = RowOf(t) /\ KindsOf(next) = KindsOf(t)
    BY <2>5 DEF RowOf, KindsOf, GivenBack
  <2>8. Judged(next)
    BY <1>2, <2>1, <2>4, <2>5, <2>7 DEF Sound, Judged, Holding, Granting, Finalizing
  <2> QED
    BY <1>5, <2>2, <2>3, <2>5, <2>6, <2>8, GoesOnKeeps DEF Sound
<1>8. CASE ApplyFinal(p)
  <2> DEFINE db == GivenBack(t)
             dr == -t.seen
             next == [t EXCEPT !.pc = "commit", !.account = TRUE, !.db = db, !.dr = dr]
  <2>1. t.pc = "applyFinal" /\ t.op \in Finalizing /\ t.row # NoRow
    BY <1>2, <1>8 DEF ApplyFinal, Runs, Sound, Placed, Inserted, Txs, Finalizing
  <2>2. \A q \in Others(p) : tx[q].account = FALSE
    BY <1>2, <1>8, <2>1 DEF ApplyFinal, Runs, WaitsFor, Active, Others, Sound, Txs
  <2>3. GoesOn(p, next)
    BY <1>8 DEF ApplyFinal, GivesBack, GivenBack
  <2>4. db = GivenBack(t) /\ dr = -t.seen /\ db \in Int /\ dr \in Int
    BY <1>3
  <2> HIDE DEF db, dr
  <2>5. /\ next \in Txs
        /\ next.pc = "commit" /\ next.account = TRUE /\ next.db = db /\ next.dr = dr
        /\ next.op = t.op /\ next.ref = t.ref /\ next.amount = t.amount
        /\ next.org = t.org /\ next.row = t.row /\ next.seen = t.seen
    BY <1>2, <2>4 DEF Txs, Statements
  <2> HIDE DEF next
  <2>6. Asked(next) /\ Placed(next)
    BY <1>2, <2>1, <2>5 DEF Sound, Asked, Placed, Inserted, Holding, Granting, Finalizing
  <2>7. RowOf(next) = RowOf(t) /\ KindsOf(next) = KindsOf(t) /\ GivenBack(next) = GivenBack(t)
    BY <2>5 DEF RowOf, KindsOf, GivenBack
  <2>8. Judged(next)
    BY <1>2, <2>1, <2>4, <2>5, <2>7 DEF Sound, Judged, Holding, Granting, Finalizing
  <2> QED
    BY <1>5, <2>2, <2>3, <2>5, <2>6, <2>8, GoesOnKeeps DEF Sound
<1> QED
  BY <1>6, <1>7, <1>8

LEMMA RowOfType ==
    ASSUME TypeOK, NEW t \in Txs
    PROVE  /\ RowOf(t) \in Row /\ RowOf(t) # NoRow
           /\ RowOf(t).kind \in KindsOf(t) /\ RowOf(t).ref = t.ref
<1>1. /\ t.ref \in Refs \cup GrantKeys /\ t.op \in Holding \cup Granting \cup Finalizing
      /\ t.amount \in Int /\ -t.amount \in Int /\ t.seen \in Int /\ -t.seen \in Int
  BY DEF Txs
<1>2. GivenBack(t) \in Int
  BY <1>1 DEF GivenBack, Smaller, Larger
<1>3. PICK kind \in KindsOf(t), db \in Int, dr \in Int : RowOf(t) = NewRow(kind, t.ref, db, dr)
  <2>1. CASE t.op \in Holding
    BY <1>1, <2>1 DEF RowOf, KindsOf
  <2>2. CASE t.op \in Granting
    BY <1>1, <2>2 DEF RowOf, KindsOf, Holding, Granting
  <2>3. CASE t.op \in Finalizing
    BY <1>1, <1>2, <2>3 DEF RowOf, KindsOf, Holding, Granting, Finalizing
  <2> QED
    BY <1>1, <2>1, <2>2, <2>3
<1>4. kind \in Kinds
  BY DEF KindsOf, Kinds
<1>5. NewRow(kind, t.ref, db, dr) \in Row
  BY <1>1, <1>4, NewRowType
<1>6. NewRow(kind, t.ref, db, dr).kind = kind /\ NewRow(kind, t.ref, db, dr).ref = t.ref
  BY DEF NewRow
<1>7. kind # "none"
  BY <1>4 DEF Kinds
<1> QED
  BY <1>3, <1>5, <1>6, <1>7 DEF NoRow

\* The inserts: the row's unique key is free among the committed rows and the
\* open transactions, and nobody else has the organization for himself.
LEMMA InsertsKeep ==
    ASSUME TxInv, NEW p \in Procs, InsertReserve(p) \/ InsertGrant(p) \/ InsertFinal(p)
    PROVE  TxInv'
<1> DEFINE t == tx[p]
           row == RowOf(t)
           org == Share(p)
<1>1. t.pc # "idle"
  BY DEF InsertReserve, InsertGrant, InsertFinal, Runs
<1>2. /\ Sound(t) /\ t \in Txs
      /\ \A q \in Others(p) : Sound(tx[q]) /\ Apart(t, tx[q])
  BY <1>1, OpenTransaction
<1>3. TypeOK
  BY DEF TxInv, MoneyInv, RowsInv
<1>4. row \in Row /\ row # NoRow
  BY <1>2, <1>3, RowOfType
<1>5. org \in {"shared", "exclusive"} /\ (t.org = "exclusive" <=> org = "exclusive")
  BY DEF Share
<1>6. /\ t.pc \in {"insertReserve", "insertGrant", "insertFinal"}
      /\ t.pc = "insertReserve" <=> t.op \in Holding
      /\ t.pc = "insertGrant" <=> t.op \in Granting
      /\ t.pc = "insertFinal" <=> t.op \in Finalizing
      /\ t.row = NoRow
      /\ UniqueWith(p) = KindsOf(t)
  <2>1. t.pc \in {"insertReserve", "insertGrant", "insertFinal"}
    BY DEF InsertReserve, InsertGrant, InsertFinal, Runs
  <2>2. /\ t.pc = "insertReserve" <=> t.op \in Holding
        /\ t.pc = "insertGrant" <=> t.op \in Granting
        /\ t.pc = "insertFinal" <=> t.op \in Finalizing
        /\ t.row = NoRow
    BY <1>2, <2>1 DEF Sound, Placed, Inserted, Txs, Holding, Granting, Finalizing
  <2>3. UniqueWith(p) = KindsOf(t)
    BY <1>2, <2>1, <2>2 DEF UniqueWith, KindsOf, Holding, Granting, Finalizing
  <2> QED
    BY <2>1, <2>2, <2>3
<1>7. ASSUME NEW q \in Others(p)
      PROVE  /\ tx[q].org # "exclusive"
             /\ tx[q].row # NoRow /\ KindsOf(tx[q]) = KindsOf(t) => tx[q].ref # t.ref
  <2>1. ~WaitsFor(p, q) /\ Active(p)
    BY <1>1, <1>7 DEF InsertReserve, InsertGrant, InsertFinal, Runs, Others, Active
  <2>2. tx[q].org # "exclusive" /\ ~InFlight(q, UniqueWith(p), t.ref)
    BY <1>6, <1>7, <2>1 DEF WaitsFor
  <2>3. tx[q].row # NoRow => tx[q].row.kind \in KindsOf(tx[q]) /\ tx[q].row.ref = tx[q].ref
    BY <1>2, <1>3, <1>7, RowOfType DEF Sound, Judged
  <2> QED
    BY <1>6, <2>2, <2>3 DEF InFlight
<1>8. ASSUME NEW next, next.org = org, next.account = t.account, next.op = t.op, next.ref = t.ref
      PROVE  \A q \in Others(p) : Apart(next, tx[q])
  <2> SUFFICES ASSUME NEW q \in Others(p) PROVE Apart(next, tx[q])
    OBVIOUS
  <2>1. Apart(t, tx[q]) /\ KindsOf(next) = KindsOf(t)
    BY <1>2, <1>8 DEF KindsOf
  <2> QED
    BY <1>5, <1>7, <1>8, <2>1 DEF Apart
<1>9. ~Posted(KindsOf(t), t.ref)
  BY <1>6 DEF InsertReserve, InsertGrant, InsertFinal, Runs, KindsOf, Finalized,
              Holding, Granting, Finalizing
<1>10. CASE InsertReserve(p)
  <2> DEFINE next == [t EXCEPT !.pc = "commit", !.org = org, !.row = row]
  <2>1. t.pc = "insertReserve" /\ t.op \in Holding
    BY <1>6, <1>10 DEF InsertReserve, Runs
  <2>2. GoesOn(p, next)
    BY <1>10, <2>1 DEF InsertReserve, RowOf
  <2> HIDE DEF row, org
  <2>3. /\ next \in Txs
        /\ next.pc = "commit" /\ next.org = org /\ next.row = row
        /\ next.op = t.op /\ next.ref = t.ref /\ next.amount = t.amount
        /\ next.account = t.account /\ next.seen = t.seen /\ next.db = t.db /\ next.dr = t.dr
    BY <1>2, <1>4, <1>5 DEF Txs, Statements
  <2> HIDE DEF next
  <2>4. Asked(next) /\ Placed(next)
    BY <1>2, <1>4, <1>5, <2>1, <2>3 DEF Sound, Asked, Placed, Inserted, Holding, Granting, Finalizing
  <2>5. RowOf(next) = row /\ KindsOf(next) = KindsOf(t)
    BY <2>3 DEF RowOf, KindsOf, GivenBack, row
  <2>6. Judged(next)
    BY <1>2, <1>9, <2>1, <2>3, <2>5 DEF Sound, Judged, Placed, Holding, Granting, Finalizing
  <2> QED
    BY <1>8, <2>2, <2>3, <2>4, <2>6, GoesOnKeeps DEF Sound
<1>11. CASE InsertGrant(p)
  <2> DEFINE pc == IF t.op = "adjust" THEN "countWindow" ELSE "applyGrant"
             next == [t EXCEPT !.pc = pc, !.org = org, !.row = row]
  <2>1. t.pc = "insertGrant" /\ t.op \in Granting /\ t.op \notin Holding
    BY <1>6, <1>11 DEF InsertGrant, Runs, Holding, Granting
  <2>2. GoesOn(p, next)
    BY <1>11, <2>1 DEF InsertGrant, RowOf
  <2>3. pc = (IF t.op = "adjust" THEN "countWindow" ELSE "applyGrant") /\ pc \in Statements
    BY DEF Statements
  <2> HIDE DEF row, org, pc
  <2>4. /\ next \in Txs
        /\ next.pc = pc /\ next.org = org /\ next.row = row
        /\ next.op = t.op /\ next.ref = t.ref /\ next.amount = t.amount
        /\ next.account = t.account /\ next.seen = t.seen /\ next.db = t.db /\ next.dr = t.dr
    BY <1>2, <1>4, <1>5, <2>3 DEF Txs
  <2> HIDE DEF next
  <2>5. Asked(next) /\ Placed(next)
    BY <1>2, <1>4, <1>5, <2>1, <2>3, <2>4
       DEF Sound, Asked, Placed, Inserted, Holding, Granting, Finalizing
  <2>6. RowOf(next) = row /\ KindsOf(next) = KindsOf(t)
    BY <2>4 DEF RowOf, KindsOf, GivenBack, row
  <2>7. Judged(next)
    BY <1>2, <1>9, <2>1, <2>3, <2>4, <2>6 DEF Sound, Judged, Placed, Holding, Granting, Finalizing
  <2> QED
    BY <1>8, <2>2, <2>4, <2>5, <2>7, GoesOnKeeps DEF Sound
<1>12. CASE InsertFinal(p)
  <2> DEFINE next == [t EXCEPT !.pc = "applyFinal", !.org = org, !.row = row]
  <2>1. t.pc = "insertFinal" /\ t.op \in Finalizing /\ t.op \notin Holding \cup Granting
    BY <1>6, <1>12 DEF InsertFinal, Runs, Holding, Granting, Finalizing
  <2>2. GoesOn(p, next)
    BY <1>12, <2>1 DEF InsertFinal, RowOf, GivesBack, GivenBack
  <2> HIDE DEF row, org
  <2>3. /\ next \in Txs
        /\ next.pc = "applyFinal" /\ next.org = org /\ next.row = row
        /\ next.op = t.op /\ next.ref = t.ref /\ next.amount = t.amount
        /\ next.account = t.account /\ next.seen = t.seen /\ next.db = t.db /\ next.dr = t.dr
    BY <1>2, <1>4, <1>5 DEF Txs, Statements
  <2> HIDE DEF next
  <2>4. Asked(next) /\ Placed(next)
    BY <1>2, <1>4, <1>5, <2>1, <2>3 DEF Sound, Asked, Placed, Inserted, Holding, Granting, Finalizing
  <2>5. RowOf(next) = row /\ KindsOf(next) = KindsOf(t)
    BY <2>3 DEF RowOf, KindsOf, GivenBack, row
  <2>6. Judged(next)
    BY <1>2, <1>9, <2>1, <2>3, <2>5 DEF Sound, Judged, Placed, Holding, Granting, Finalizing
  <2> QED
    BY <1>8, <2>2, <2>3, <2>4, <2>6, GoesOnKeeps DEF Sound
<1> QED
  BY <1>10, <1>11, <1>12

LEMMA AbortKeeps ==
    ASSUME TxInv, NEW p \in Procs, Abort(p)
    PROVE  TxInv'
<1>1. GoesOn(p, Idle)
  BY DEF Abort
<1> QED
  BY <1>1, GoesOnKeeps

\* While a cap has been judged its organization is locked, so it cannot change.
LEMMA CapKeeps ==
    ASSUME TxInv, NEW c \in Caps, SaveSpendCap(c)
    PROVE  TxInv' /\ SetSpendCap(c)
<1>1. SetSpendCap(c)
  BY DEF SaveSpendCap, SetSpendCap
<1>2. MoneyInv'
  BY <1>1, MoneyInvStep DEF TxInv, Next
<1>3. UNCHANGED <<balance, reserved, ledger, today, tx>>
  BY DEF SaveSpendCap
<1>4. ASSUME NEW p \in Procs, Active(p)'
      PROVE  Sound(tx[p])' /\ \A q \in Others(p)' : Apart(tx[p], tx[q])'
  <2>1. /\ Active(p) /\ tx[p].org # "exclusive" /\ Sound(tx[p])
        /\ \A q \in Others(p) : Apart(tx[p], tx[q])
    BY <1>3, <1>4 DEF Active, SaveSpendCap, TxInv
  <2>2. ~(tx[p].op = "job" /\ tx[p].pc \in {"hold", "insertReserve", "commit"})
    BY <2>1 DEF Sound, Placed
  <2>3. Judged(tx[p])'
    <3>1. UsedByDay(today)' = UsedByDay(today)
      BY <1>3 DEF UsedByDay, Total, ManualDeltas, IsManual
    <3>2. Judged(tx[p])
      BY <2>1 DEF Sound
    <3> QED
      BY <3>1, <3>2, <2>2, <1>3 DEF Judged, Posted, RowOf, NewRow
  <2>4. (tx[p] \in Txs)' /\ Asked(tx[p])' /\ Placed(tx[p])'
    BY <2>1, <1>3 DEF Sound, Asked, Placed, Inserted
  <2>5. \A q \in Others(p)' : Apart(tx[p], tx[q])'
    BY <2>1, <1>3 DEF Apart, KindsOf, Others, Active
  <2> QED
    BY <2>3, <2>4, <2>5 DEF Sound
<1> QED
  BY <1>1, <1>2, <1>3, <1>4 DEF TxInv

LEMMA DivAtLeast ==
    ASSUME NEW x \in Nat, NEW d \in Nat \ {0}, NEW m \in Nat, x >= m * d
    PROVE  x \div d >= m
<1> DEFINE q == x \div d
<1>1. q \in Nat /\ x < d * q + d
  OBVIOUS
<1>2. SUFFICES ASSUME q < m PROVE FALSE
  BY <1>1
<1>3. PICK k \in Nat : m = q + 1 + k
  <2>1. m - q - 1 \in Nat /\ m = q + 1 + (m - q - 1)
    BY <1>1, <1>2
  <2> QED
    BY <2>1
<1> HIDE DEF q
<1>4. m * d = d * q + d + k * d
  BY <1>1, <1>3
<1>5. k * d >= 0
  BY <1>3
<1> QED
  BY <1>1, <1>3, <1>4, <1>5

\* Beyond MaxSeen a turn is granted every slot and holds its full price.
LEMMA SeenSuffices ==
    ASSUME NEW seen \in Nat, seen >= TurnMinimum
    PROVE  \E s \in 0..MaxSeen :
              /\ s >= TurnMinimum
              /\ GrantedSlots(s) = GrantedSlots(seen)
              /\ TurnHold(s) = TurnHold(seen)
<1>1. CASE seen <= MaxSeen
  BY <1>1
<1>2. CASE ~(seen <= MaxSeen)
  <2> DEFINE all == MaxSlots * SlotPrice
             firm == Larger(TurnElastic, TurnMinimum)
  <2>1. /\ MaxSlots \in Nat /\ SlotPrice \in Nat \ {0} /\ TurnMinimum \in Nat /\ MaxSeen \in Nat
        /\ all \in Nat /\ firm \in Nat /\ firm >= TurnMinimum /\ MaxSeen >= firm + all
    BY TurnAssumption, LimitAssumption, SeenAssumption DEF Larger
  <2>2. ASSUME NEW s \in Nat, s >= MaxSeen
        PROVE  GrantedSlots(s) = MaxSlots /\ TurnHold(s) = firm + all
    <3>1. s - TurnMinimum \in Nat /\ s - TurnMinimum >= all /\ firm + all <= s
      <4> HIDE DEF all, firm
      <4> QED
        BY <2>1, <2>2
    <3>2. (s - TurnMinimum) \div SlotPrice >= MaxSlots
      BY <2>1, <3>1, DivAtLeast
    <3>3. (s - TurnMinimum) \div SlotPrice \in Int
      BY <2>1, <3>1
    <3>4. GrantedSlots(s) = MaxSlots
      <4> DEFINE q == (s - TurnMinimum) \div SlotPrice
      <4>1. q \in Int /\ q >= MaxSlots /\ GrantedSlots(s) = Larger(0, Smaller(MaxSlots, q))
        BY <3>2, <3>3 DEF GrantedSlots
      <4> HIDE DEF q
      <4> QED
        BY <2>1, <4>1 DEF Larger, Smaller
    <3>5. TurnHold(s) = Smaller(firm + all, s)
      BY <3>4 DEF TurnHold
    <3> HIDE DEF all, firm
    <3> QED
      BY <2>1, <3>1, <3>4, <3>5 DEF Smaller
  <2>3. MaxSeen \in 0..MaxSeen /\ MaxSeen >= TurnMinimum /\ seen >= MaxSeen
    <3> HIDE DEF all, firm
    <3> QED
      BY <1>2, <2>1
  <2> QED
    BY <2>1, <2>2, <2>3
<1> QED
  BY <1>1, <1>2

\* A commit is one operation of CreditLedger: everything its transaction read,
\* judged and wrote statement by statement is still true of the committed state.
LEMMA CommitIsOperation ==
    ASSUME TxInv, NEW p \in Procs, Commit(p)
    PROVE  Next
<1> DEFINE t == tx[p]
<1>1. t.pc = "commit"
  BY DEF Commit, Runs
<1>2. Sound(t) /\ t \in Txs
  BY <1>1, OpenTransaction
<1>3. /\ t.account = TRUE /\ t.row # NoRow
      /\ t.op \in Holding \cup Granting \cup Finalizing
      /\ t.amount \in Int /\ t.seen \in Int
  BY <1>1, <1>2 DEF Sound, Placed, Inserted, Txs
<1>4. t.row = RowOf(t) /\ ~Posted(KindsOf(t), t.ref)
  BY <1>2, <1>3 DEF Sound, Judged
<1>5. balance \in Int /\ balance >= 0 /\ reserved \in Int
  BY DEF TxInv, MoneyInv, RowsInv, TypeOK
<1>6. /\ ledger' = Append(ledger, t.row)
      /\ balance' = balance + t.db
      /\ reserved' = reserved + t.dr
      /\ slots' = IF t.op = "turn" THEN [slots EXCEPT ![t.ref] = GrantedSlots(t.seen)] ELSE slots
      /\ UNCHANGED <<cap, today>>
  BY DEF Commit
<1>p. \A c \in Amounts : c \in Nat /\ c > 0
  BY AmountAssumption
<1>7. ASSUME t.op \in Holding, t.amount > 0
      PROVE  TakeHold(t.ref, t.amount)
  <2>1. balance >= t.amount /\ t.db = -t.amount /\ t.dr = t.amount
    BY <1>2, <1>3, <1>7 DEF Sound, Judged
  <2>2. balance' = balance - t.amount /\ reserved' = reserved + t.amount
    BY <1>3, <1>5, <1>6, <2>1
  <2>3. Post("RESERVE", t.ref, -t.amount, t.amount)
    BY <1>4, <1>6, <1>7 DEF Post, RowOf, NewRow
  <2>4. ~Posted({"RESERVE"}, t.ref)
    BY <1>4, <1>7 DEF KindsOf
  <2> QED
    BY <1>7, <2>1, <2>2, <2>3, <2>4 DEF TakeHold
<1>8. CASE t.op = "job"
  <2>1. t.ref \in Jobs /\ t.amount \in Amounts /\ WithinSpendCap(t.amount)
    BY <1>1, <1>2, <1>8 DEF Sound, Asked, Judged
  <2>2. TakeHold(t.ref, t.amount)
    BY <1>7, <1>8, <2>1, <1>p DEF Holding
  <2>3. Reserve(t.ref, t.amount)
    BY <1>6, <1>8, <2>1, <2>2 DEF Reserve
  <2> QED
    BY <2>1, <2>3 DEF Next
<1>9. CASE t.op = "turn"
  <2>1. /\ t.ref \in Turns /\ t.seen \in Nat /\ t.seen >= TurnMinimum
        /\ t.amount = TurnHold(t.seen) /\ t.amount > 0
    BY <1>1, <1>2, <1>9 DEF Sound, Asked, Judged
  <2>2. TakeHold(t.ref, t.amount)
    BY <1>7, <1>9, <2>1 DEF Holding
  <2>3. PICK s \in 0..MaxSeen :
          /\ s >= TurnMinimum
          /\ GrantedSlots(s) = GrantedSlots(t.seen)
          /\ TurnHold(s) = TurnHold(t.seen)
    BY <2>1, SeenSuffices
  <2>4. ReserveTurn(t.ref, s)
    BY <1>6, <1>9, <2>1, <2>2, <2>3 DEF ReserveTurn
  <2> QED
    BY <2>1, <2>4 DEF Next
<1>10. CASE t.op = "manual"
  <2>1. t.ref \in ManualRefunds /\ t.amount \in Amounts
    BY <1>2, <1>10 DEF Sound, Asked
  <2>2. UsedByDay(today) + Magnitude(t.amount) <= AdjustLimit
    BY <1>1, <1>2, <1>10 DEF Sound, Judged
  <2>3. t.amount \in Nat /\ t.amount > 0
    BY <2>1, <1>p
  <2>4. TakeHold(t.ref, t.amount)
    BY <1>7, <1>10, <2>3 DEF Holding
  <2>5. UsedByDay(today) + t.amount <= AdjustLimit
    BY <2>2, <2>3 DEF Magnitude
  <2>6. ReserveManualRefund(t.ref, t.amount)
    BY <1>6, <1>10, <2>4, <2>5 DEF ReserveManualRefund
  <2> QED
    BY <2>1, <2>6 DEF Next
<1>11. ASSUME t.op \in Granting
       PROVE  /\ ~Posted({"GRANT", "ADJUST"}, t.ref)
              /\ Post(IF t.amount > 0 THEN "GRANT" ELSE "ADJUST", t.ref, t.amount, 0)
              /\ balance' = balance + t.amount /\ balance + t.amount >= 0
              /\ UNCHANGED <<reserved, slots, cap, today>>
  <2>1. t.op \notin Holding
    BY <1>11 DEF Holding, Granting
  <2>2. t.db = t.amount /\ t.dr = 0 /\ balance + t.amount >= 0
    BY <1>2, <1>3, <1>11 DEF Sound, Judged
  <2>3. reserved' = reserved /\ balance' = balance + t.amount
    BY <1>5, <1>6, <2>2
  <2>4. Post(IF t.amount > 0 THEN "GRANT" ELSE "ADJUST", t.ref, t.amount, 0)
    BY <1>4, <1>6, <1>11, <2>1 DEF Post, RowOf, NewRow
  <2> QED
    BY <1>4, <1>6, <1>11, <2>1, <2>2, <2>3, <2>4 DEF KindsOf, Holding
<1>12. CASE t.op = "grant"
  <2>1. t.ref \in Purchases /\ t.amount \in Amounts
    BY <1>2, <1>12 DEF Sound, Asked
  <2>2. t.amount > 0
    BY <2>1, <1>p
  <2>3. Grant(t.ref, t.amount)
    BY <1>11, <1>12, <2>2 DEF Grant, Granting
  <2> QED
    BY <2>1, <2>3 DEF Next
<1>13. CASE t.op = "adjust"
  <2>1. t.ref \in Adjustments /\ UsedByDay(today) + Magnitude(t.amount) <= AdjustLimit
    BY <1>1, <1>2, <1>13 DEF Sound, Asked, Judged
  <2>2. PICK a \in Amounts : t.amount = a \/ t.amount = -a
    BY <1>2, <1>13 DEF Sound, Asked
  <2>3. Adjust(t.ref, t.amount)
    BY <1>11, <1>13, <2>1 DEF Adjust, Granting
  <2> QED
    BY <2>1, <2>2, <2>3 DEF Next
<1>14. ASSUME t.op \in Finalizing
       PROVE  /\ t.ref \in Refs /\ ~Finalized(t.ref)
              /\ t.op \notin Holding \cup Granting
              /\ \E i \in 1..Len(ledger) :
                    /\ ledger[i].kind = "RESERVE" /\ ledger[i].ref = t.ref
                    /\ ledger[i].reservedDelta = t.seen
              /\ balance' = balance + GivenBack(t) /\ reserved' = reserved - t.seen
              /\ UNCHANGED <<slots, cap, today>>
  <2>1. t.op \notin Holding \cup Granting
    BY <1>14 DEF Holding, Granting, Finalizing
  <2>2. t.db = GivenBack(t) /\ t.dr = -t.seen
    BY <1>2, <1>3, <1>14 DEF Sound, Judged
  <2>3. reserved' = reserved - t.seen /\ balance' = balance + GivenBack(t)
    BY <1>3, <1>5, <1>6, <2>2
  <2>4. t.ref \in Refs /\ ~Finalized(t.ref)
    BY <1>2, <1>4, <1>14, <2>1 DEF Sound, Asked, KindsOf, Finalized
  <2>5. \E i \in 1..Len(ledger) :
           /\ ledger[i].kind = "RESERVE" /\ ledger[i].ref = t.ref
           /\ ledger[i].reservedDelta = t.seen
    BY <1>1, <1>2, <1>14 DEF Sound, Judged
  <2> QED
    BY <1>6, <2>1, <2>3, <2>4, <2>5 DEF Holding
<1>15. CASE t.op = "settle"
  <2>1. t.amount \in Amounts \cup {0}
    BY <1>2, <1>15 DEF Sound, Asked
  <2>2. t.op \in Finalizing /\ GivenBack(t) = t.seen - Smaller(Larger(0, t.amount), t.seen)
    BY <1>15 DEF Finalizing, GivenBack
  <2>3. Post("SETTLE", t.ref, t.seen - Smaller(Larger(0, t.amount), t.seen), -t.seen)
    BY <1>4, <1>6, <1>14, <1>15, <2>2 DEF Post, RowOf, NewRow
  <2>4. Settle(t.ref, t.amount)
    BY <1>14, <2>2, <2>3 DEF Settle
  <2> QED
    BY <1>14, <2>1, <2>2, <2>4 DEF Next
<1>16. CASE t.op = "refund"
  <2>1. t.op \in Finalizing /\ GivenBack(t) = t.seen
    BY <1>16 DEF Finalizing, GivenBack
  <2>2. Post("REFUND", t.ref, t.seen, -t.seen)
    BY <1>4, <1>6, <1>14, <1>16, <2>1 DEF Post, RowOf, NewRow
  <2>3. Refund(t.ref)
    BY <1>14, <2>1, <2>2 DEF Refund
  <2> QED
    BY <1>14, <2>1, <2>3 DEF Next
<1> QED
  BY <1>3, <1>8, <1>9, <1>10, <1>12, <1>13, <1>15, <1>16 DEF Holding, Granting, Finalizing

\* A commit leaves every other open transaction's findings true.
LEMMA CommitKeeps ==
    ASSUME TxInv, NEW p \in Procs, Commit(p)
    PROVE  TxInv'
<1> DEFINE t == tx[p]
<1>1. /\ t.pc = "commit" /\ Sound(t) /\ t \in Txs
      /\ \A q \in Others(p) : Sound(tx[q]) /\ Apart(t, tx[q])
  BY OpenTransaction DEF Commit, Runs
<1>2. /\ t.account = TRUE /\ t.row # NoRow /\ t.org # "none"
      /\ t.row.kind \in KindsOf(t) /\ t.row.ref = t.ref /\ t.row \in Row
  <2>1. t.account = TRUE /\ t.row # NoRow /\ t.org # "none" /\ t.row = RowOf(t)
    BY <1>1 DEF Sound, Placed, Inserted, Judged, Txs
  <2> QED
    BY <1>1, <2>1, RowOfType DEF TxInv, MoneyInv, RowsInv
<1>3. MoneyInv'
  BY CommitIsOperation, MoneyInvStep DEF TxInv
<1>4. /\ Len(ledger) \in Nat /\ Len(ledger') = Len(ledger) + 1
      /\ \A i \in 1..Len(ledger) : ledger'[i] = ledger[i]
      /\ ledger'[Len(ledger) + 1] = t.row
  BY <1>2, AppendedLedger DEF Commit, TxInv, MoneyInv, RowsInv, TypeOK
<1>5. /\ tx' \in [Procs -> {Idle} \cup Txs] /\ tx'[p] = Idle
      /\ \A q \in Procs \ {p} : tx'[q] = tx[q]
      /\ UNCHANGED <<cap, today>>
  BY DEF Commit, TxInv
<1>6. ASSUME NEW q \in Procs, Active(q)'
      PROVE  q \in Others(p) /\ tx'[q] = tx[q]
  BY <1>5, <1>6 DEF Active, Others, Idle
<1>7. ASSUME NEW q \in Others(p)
      PROVE  Sound(tx[q]) /\ tx[q] \in Txs /\ tx[q].account = FALSE /\ tx[q].org # "exclusive"
             /\ (tx[q].row # NoRow /\ KindsOf(tx[q]) = KindsOf(t) => tx[q].ref # t.ref)
  BY <1>1, <1>2, <1>7 DEF Apart, Sound, Txs
<1>8. ASSUME NEW u \in Txs, u.row # NoRow, ~Posted(KindsOf(u), u.ref),
             KindsOf(u) = KindsOf(t) => u.ref # t.ref
      PROVE  \A i \in 1..Len(ledger') : ~(ledger'[i].kind \in KindsOf(u) /\ ledger'[i].ref = u.ref)
  <2>1. KindsOf(u) # KindsOf(t) => t.row.kind \notin KindsOf(u)
    BY <1>2 DEF KindsOf
  <2>2. 1..Len(ledger') = 1..Len(ledger) \cup {Len(ledger) + 1}
    BY <1>4
  <2> QED
    BY <1>2, <1>4, <1>8, <2>1, <2>2 DEF Posted
<1>9. ASSUME NEW q \in Procs, Active(q)'
      PROVE  Sound(tx[q])'
  <2> DEFINE u == tx[q]
  <2>1. q \in Others(p) /\ tx'[q] = u
    BY <1>6, <1>9
  <2>2. /\ Sound(u) /\ u \in Txs /\ u.account = FALSE /\ u.org # "exclusive"
        /\ u.row # NoRow /\ KindsOf(u) = KindsOf(t) => u.ref # t.ref
    BY <2>1, <1>7
  <2>3. ~(u.op = "job" /\ u.pc \in {"hold", "insertReserve", "commit"})
        /\ ~(u.op \in {"manual", "adjust"} /\ u.pc # "lockForAdjust")
    BY <2>2 DEF Sound, Placed
  <2>4. u.op \in Finalizing /\ u.pc # "readReserve" =>
           \E i \in 1..Len(ledger') :
              /\ ledger'[i].kind = "RESERVE" /\ ledger'[i].ref = u.ref
              /\ ledger'[i].reservedDelta = u.seen
    BY <2>2, <1>4 DEF Sound, Judged
  <2>5. u.row # NoRow => u.row = RowOf(u)' /\ ~Posted(KindsOf(u), u.ref)'
    <3>1. SUFFICES ASSUME u.row # NoRow
                   PROVE  u.row = RowOf(tx[q])' /\ ~Posted(KindsOf(tx[q]), tx[q].ref)'
      BY <2>1
    <3>2. u.row = RowOf(u) /\ ~Posted(KindsOf(u), u.ref)
      BY <2>2, <3>1 DEF Sound, Judged
    <3>3. \A i \in 1..Len(ledger') : ~(ledger'[i].kind \in KindsOf(u) /\ ledger'[i].ref = u.ref)
      BY <2>2, <3>1, <3>2, <1>8
    <3> QED
      BY <2>1, <3>2, <3>3, <1>5 DEF RowOf, NewRow, Posted, KindsOf, GivenBack
  <2>6. Judged(tx[q])'
    BY <2>1, <2>2, <2>3, <2>4, <2>5 DEF Sound, Judged
  <2>7. (tx[q] \in Txs)' /\ Asked(tx[q])' /\ Placed(tx[q])'
    BY <2>1, <2>2 DEF Sound, Asked, Placed, Inserted
  <2> QED
    BY <2>6, <2>7 DEF Sound
<1>10. ASSUME NEW q \in Procs, NEW r \in Others(q)', Active(q)'
       PROVE  Apart(tx[q], tx[r])'
  <2>1. r \in Procs /\ r # q /\ Active(r)'
    BY <1>10 DEF Others, Active
  <2>2. q \in Others(p) /\ r \in Others(p) /\ tx'[q] = tx[q] /\ tx'[r] = tx[r]
    BY <2>1, <1>6, <1>10
  <2>3. Apart(tx[q], tx[r])
    BY <2>1, <2>2 DEF TxInv, Others, Active
  <2> QED
    BY <2>2, <2>3 DEF Apart, KindsOf
<1> QED
  BY <1>3, <1>5, <1>9, <1>10 DEF TxInv

LEMMA TxInvInit == TxInit => TxInv
<1> SUFFICES ASSUME TxInit PROVE TxInv
  OBVIOUS
<1>1. MoneyInv
  BY MoneyInvInit DEF TxInit
<1>2. tx \in [Procs -> {Idle} \cup Txs] /\ \A p \in Procs : ~Active(p)
  BY DEF TxInit, Active, Idle
<1> QED
  BY <1>1, <1>2 DEF TxInv

\* One step per statement: it commits an operation of CreditLedger, saves the
\* merchant's cap, or leaves the committed state alone.
LEMMA TxStep == TxInv /\ [TxNext]_txVars => TxInv' /\ [Next]_vars
<1>1. ASSUME TxInv, NEW p \in Procs, Start(p) PROVE TxInv' /\ UNCHANGED vars
  BY <1>1, BeginKeeps DEF Start, Begin, GoesOn
<1>2. ASSUME TxInv, NEW p \in Procs, Statement(p) PROVE TxInv' /\ (Next \/ UNCHANGED vars)
  <2>1. CASE InsertJob(p) \/ LockForCap(p) \/ LockForAdjust(p)
    BY <1>2, <2>1, LocksKeep DEF InsertJob, LockForCap, LockForAdjust, GoesOn
  <2>2. CASE CountWindow(p) \/ ReadBalance(p) \/ ReadReserve(p)
    BY <1>2, <2>2, ReadsKeep DEF CountWindow, ReadBalance, ReadReserve, GoesOn
  <2>3. CASE HoldCredits(p) \/ ApplyGrant(p) \/ ApplyFinal(p)
    BY <1>2, <2>3, MovesKeep DEF HoldCredits, ApplyGrant, ApplyFinal, GoesOn
  <2>4. CASE InsertReserve(p) \/ InsertGrant(p) \/ InsertFinal(p)
    BY <1>2, <2>4, InsertsKeep DEF InsertReserve, InsertGrant, InsertFinal, GoesOn
  <2>5. CASE Commit(p)
    BY <1>2, <2>5, CommitKeeps, CommitIsOperation
  <2> QED
    BY <1>2, <2>1, <2>2, <2>3, <2>4, <2>5 DEF Statement
<1>3. ASSUME TxInv, NEW p \in Procs, Abort(p) PROVE TxInv' /\ UNCHANGED vars
  BY <1>3, AbortKeeps DEF Abort, GoesOn
<1>4. ASSUME TxInv, NEW c \in Caps, SaveSpendCap(c) PROVE TxInv' /\ Next
  BY <1>4, CapKeeps DEF Next
<1>5. ASSUME TxInv, UNCHANGED txVars PROVE TxInv' /\ UNCHANGED vars
  <2>1. UNCHANGED vars /\ tx' = tx
    BY <1>5 DEF txVars, vars
  <2>2. MoneyInv'
    BY <1>5, <2>1, MoneyInvStep DEF TxInv
  <2>3. ASSUME NEW p \in Procs, Active(p)' PROVE Sound(tx[p])'
    <3>1. Sound(tx[p])
      BY <1>5, <2>1, <2>3 DEF TxInv, Active
    <3>2. Judged(tx[p])'
      <4>1. UsedByDay(today)' = UsedByDay(today)
        BY <2>1 DEF vars, UsedByDay, Total, ManualDeltas, IsManual
      <4>2. Judged(tx[p])
        BY <3>1 DEF Sound
      <4> QED
        BY <4>1, <4>2, <2>1 DEF vars, Judged, WithinSpendCap, Posted, RowOf, NewRow
    <3> QED
      BY <3>1, <3>2, <2>1 DEF Sound, Asked, Placed, Inserted
  <2>4. \A p \in Procs : \A q \in Others(p)' : Active(p)' => Apart(tx[p], tx[q])'
    BY <1>5, <2>1 DEF TxInv, Active, Others, Apart, KindsOf
  <2> QED
    BY <1>5, <2>1, <2>2, <2>3, <2>4 DEF TxInv
<1> QED
  BY <1>1, <1>2, <1>3, <1>4, <1>5 DEF TxNext

LEMMA TxInvHolds == TxSpec => []TxInv
<1>1. TxInv /\ [TxNext]_txVars => TxInv'
  BY TxStep
<1> QED
  BY <1>1, TxInvInit, PTL DEF TxSpec

\* Whatever the number of connections and however their statements, aborts and
\* the merchant's saves interleave, the committed state only ever moves by the
\* operations of CreditLedger.
THEOREM TxImplementsLedger == TxSpec => ImplementsLedger
<1>1. TxInit => Init
  BY DEF TxInit
<1>2. TxInv /\ [TxNext]_txVars => [Next]_vars
  BY TxStep
<1> QED
  BY <1>1, <1>2, TxInvHolds, PTL DEF TxSpec, ImplementsLedger, Spec

-----------------------------------------------------------------------------
\* Who waits for whom.

\* Nobody in a ring that has neither a turn nor two submits in it waits for the
\* account row or at an insert: only submits that wait for each other's shared
\* lock on the organization are left.
LEMMA NoRing == TxInv => NoLockCycle
<1> SUFFICES ASSUME TxInv, NEW S \in SUBSET Procs, LockCycle(S),
                    \A p \in S : tx[p].op # "turn"
             PROVE  Cardinality({p \in S : tx[p].op = "job"}) > 1
  BY DEF NoLockCycle
<1>1. S # {} /\ \A p \in S : \E q \in S : WaitsFor(p, q)
  BY DEF LockCycle
<1>2. ASSUME NEW p \in S
      PROVE  /\ Sound(tx[p]) /\ tx[p] \in Txs /\ tx[p].op # "turn"
             /\ \A q \in Others(p) : Apart(tx[p], tx[q])
  <2>1. p \in Procs /\ Active(p)
    BY <1>1 DEF WaitsFor
  <2> QED
    BY <2>1 DEF TxInv, Sound
<1>3. ASSUME NEW p \in S, NEW q \in S, WaitsFor(p, q)
      PROVE  q \in Others(p) /\ Apart(tx[p], tx[q])
  BY <1>2, <1>3 DEF WaitsFor
\* An uncommitted row comes with a lock on the organization.
<1>4. ASSUME NEW p \in S, NEW q \in S, InFlight(q, UniqueWith(p), tx[p].ref)
      PROVE  tx[q].row # NoRow /\ tx[q].org # "none"
  <2>1. "none" \notin UniqueWith(p)
    BY DEF UniqueWith
  <2>2. tx[q].row # NoRow
    BY <1>4, <2>1 DEF InFlight, NoRow
  <2> QED
    BY <1>2, <2>2 DEF Sound, Placed
<1>5. ASSUME NEW p \in S, tx[p].account
      PROVE  FALSE
  <2>1. PICK q \in S : WaitsFor(p, q)
    BY <1>1
  <2>2. tx[p].pc = "insertReserve"
    BY <1>2, <1>5, <2>1 DEF WaitsFor, Sound, Placed
  <2>3. tx[p].org = "exclusive"
    BY <1>2, <2>2 DEF Sound, Placed, Holding
  <2>4. tx[q].org = "none"
    BY <1>3, <2>1, <2>3 DEF Apart
  <2> QED
    BY <1>4, <2>1, <2>2, <2>4 DEF WaitsFor
<1>6. ASSUME NEW p \in S, tx[p].org = "exclusive"
      PROVE  FALSE
  <2>1. PICK q \in S : WaitsFor(p, q)
    BY <1>1
  <2>2. tx[q].org = "none"
    BY <1>3, <1>6, <2>1 DEF Apart
  <2> QED
    BY <1>4, <1>5, <2>1, <2>2 DEF WaitsFor
<1>7. ASSUME NEW p \in S, tx[p].row # NoRow
      PROVE  FALSE
  <2>1. PICK q \in S : WaitsFor(p, q)
    BY <1>1
  <2>2. tx[p].pc \in {"applyGrant", "applyFinal", "commit"}
    BY <1>2, <1>6, <1>7 DEF Sound, Placed, Inserted
  <2> QED
    BY <1>5, <2>1, <2>2 DEF WaitsFor
\* So everybody waits for the organization, behind a submit that shares it.
<1>8. ASSUME NEW p \in S, NEW q \in S, WaitsFor(p, q)
      PROVE  tx[p].pc \in {"lockForCap", "lockForAdjust"} /\ tx[q].org # "none"
  BY <1>4, <1>5, <1>6, <1>7, <1>8 DEF WaitsFor
<1>9. ASSUME NEW p \in S
      PROVE  \E q \in S : q # p /\ tx[q].op = "job"
  <2>1. PICK q \in S : WaitsFor(p, q)
    BY <1>1
  <2>2. q # p /\ tx[q].org # "none"
    BY <1>8, <2>1 DEF WaitsFor, Others
  <2>3. tx[q].pc \in {"lockForCap", "lockForAdjust"}
    BY <1>1, <1>8
  <2> QED
    BY <1>2, <2>2, <2>3 DEF Sound, Placed
<1>10. PICK a \in S : tx[a].op = "job"
  BY <1>1, <1>9
<1>11. PICK b \in S : b # a /\ tx[b].op = "job"
  BY <1>9
<1> DEFINE J == {p \in S : tx[p].op = "job"}
<1>12. IsFiniteSet(J) /\ {a, b} \subseteq J
  BY <1>10, <1>11, ProcsAssumption, FS_Subset
<1>13. Cardinality({a, b}) = 2
  <2>1. IsFiniteSet({a}) /\ Cardinality({a}) = 1
    BY FS_Singleton
  <2>2. {a, b} = {a} \cup {b} /\ b \notin {a}
    BY <1>11
  <2>3. Cardinality({a} \cup {b}) = Cardinality({a}) + 1
    BY <2>1, <2>2, FS_AddElement
  <2> QED
    BY <2>1, <2>2, <2>3
<1>14. Cardinality({a, b}) <= Cardinality(J) /\ Cardinality(J) \in Nat
  BY <1>12, FS_Subset, FS_CardinalityType
<1> QED
  BY <1>13, <1>14

\* Every ring of waiting transactions has a turn in it or two submits: finalizers,
\* purchases, adjustments and manual refunds never deadlock among themselves.
THEOREM TxNoLockCycle == TxSpec => []NoLockCycle
BY NoRing, TxInvHolds, PTL
=============================================================================
