--------------------------- MODULE BroadcastProofs ---------------------------
(* The safety of a broadcast run, for any audience, any number of requests   *)
(* and tabs, any cap and any order of axes.                                  *)
EXTENDS Broadcast, FiniteSetTheorems, TLAPS

\* Where a request has a member in its hands.
Busy == {"read", "count", "claim", "record", "skip", "capped"}

Handles(e, m) == execution[e].pc \in Busy /\ execution[e].who = {m}

Uncounted(m) == \A s \in counter : s.ref # m

\* A request has one member in its hands or none, and works on the audience
\* the run names.
Held == \A e \in Executions :
    /\ execution[e].pc \in Busy => \E m \in Members : execution[e].who = {m}
    /\ execution[e].pc \notin Busy => execution[e].who = {}
    /\ execution[e].pc # "idle" =>
          status \in {"executing", "completed"} /\ execution[e].at = audienceRevision

\* Nobody of an older freeze is left, and nothing is sent before the execution.
Frozen ==
    /\ \A m \in Members : member[m].state # "absent" => member[m].at = audienceRevision
    /\ status \notin {"executing", "completed"} => counter = {}

\* Who is in somebody's hands and still pending was not counted; whoever is
\* claimed is pending and claimed by one request.
Claimed ==
    /\ \A e \in Executions, m \in Members :
          Handles(e, m) =>
             /\ member[m].state = "pending" => Uncounted(m)
             /\ execution[e].pc = "record" => member[m].state = "pending"
    /\ \A e, f \in Executions :
          /\ execution[e].pc = "record" /\ execution[f].pc = "record"
          /\ execution[e].who = execution[f].who
          => e = f

\* Whose send was counted is sent, or pending where that is still to be
\* repaired, and nobody's was counted twice.
Entries ==
    /\ \A s, t \in counter : s.ref = t.ref => s = t
    /\ \A m \in Members :
          /\ member[m].state = "sent" => ~Uncounted(m)
          /\ member[m].state \in {"absent", "skipped"} => Uncounted(m)

\* Whoever is pending is still ahead of every request that has listed them.
Ahead == \A e \in Executions, m \in Members :
    execution[e].pc \in Busy \cup {"next"} /\ member[m].state = "pending"
    => m \in execution[e].todo \cup execution[e].who

\* A tab that shows the current revision shows the current audience.
Shown == \A t \in Tabs :
    /\ tab[t].revision <= revision
    /\ tab[t].shown /\ tab[t].revision = revision => tab[t].audience = Audience

\* What has passed so far was not refused all along.
Judged == \A e \in Executions, m \in Members : Handles(e, m) =>
    /\ execution[e].lasting \subseteq refusals[ContactOf(m)]
    /\ execution[e].pc \in {"read", "count"} =>
          /\ execution[e].axis \in 1..(Len(AxisOrder) + 1)
          /\ execution[e].passed =>
                \A i \in 1..Len(AxisOrder) :
                   i < execution[e].axis => AxisOrder[i] \notin execution[e].lasting
    /\ execution[e].pc = "read" => execution[e].axis <= Len(AxisOrder)
    /\ execution[e].pc = "count" => execution[e].axis = Len(AxisOrder) + 1
    /\ execution[e].pc \in {"claim", "record"} => execution[e].lasting = {}

Inv ==
    /\ TypeOK /\ Held /\ Frozen /\ Claimed /\ Entries /\ Ahead /\ Shown /\ Judged
    /\ IsFiniteSet(counter)
    /\ CapHolds /\ CompletedIsDone /\ ConfirmedWasSeen

-----------------------------------------------------------------------------
\* The member a request has in its hands.
LEMMA WhoIs ==
    ASSUME NEW e, NEW m, execution[e].who = {m}
    PROVE  Who(e) = m
BY DEF Who

\* An update of one request.
Slot == [pc : Places, at : Nat, todo : SUBSET Members, who : SUBSET Members,
         axis : Nat, passed : BOOLEAN, lasting : SUBSET Axes]

\* A request's own part of TypeOK.
LEMMA SlotsTyped ==
    ASSUME TypeOK, NEW e \in Executions
    PROVE  execution[e] \in Slot
BY DEF TypeOK, Slot

\* One request moves, the others stay.
LEMMA Update ==
    ASSUME TypeOK, NEW e \in Executions, NEW r \in Slot,
           execution' = [execution EXCEPT ![e] = r]
    PROVE  /\ execution' \in [Executions -> Slot]
           /\ execution'[e] = r
           /\ \A f \in Executions : f # e => execution'[f] = execution[f]
<1>1. execution \in [Executions -> Slot]
    BY DEF TypeOK, Slot
<1> QED
    BY <1>1

\* What each kind of step makes of a request.
Becomes(e, r) ==
    /\ execution' \in [Executions -> Slot]
    /\ execution'[e] = r
    /\ \A f \in Executions : f # e => execution'[f] = execution[f]

LEMMA GoesShape ==
    ASSUME TypeOK, NEW e \in Executions, NEW pc \in Places, Goes(e, pc)
    PROVE  Becomes(e, [execution[e] EXCEPT !.pc = pc])
<1> DEFINE r == [execution[e] EXCEPT !.pc = pc]
<1>1. r \in Slot
    BY SlotsTyped DEF Slot
<1>2. execution' = [execution EXCEPT ![e] = r]
    BY DEF Goes
<1> QED
    BY <1>1, <1>2, Update DEF Becomes

LEMMA Next1Shape ==
    ASSUME TypeOK, NEW e \in Executions, Next1(e)
    PROVE  Becomes(e, [execution[e] EXCEPT !.pc = "next", !.who = {}])
<1> DEFINE r == [execution[e] EXCEPT !.pc = "next", !.who = {}]
<1>1. r \in Slot
    BY SlotsTyped DEF Slot, Places
<1>2. execution' = [execution EXCEPT ![e] = r]
    BY DEF Next1
<1> QED
    BY <1>1, <1>2, Update DEF Becomes

\* The same, field by field: what moves to another place, or on to the next
\* member, keeps the rest.
LEMMA GoesFields ==
    ASSUME TypeOK, NEW e \in Executions, NEW pc \in Places, Goes(e, pc)
    PROVE  /\ execution'[e].pc = pc /\ execution'[e].who = execution[e].who
           /\ execution'[e].at = execution[e].at /\ execution'[e].todo = execution[e].todo
           /\ execution'[e].lasting = execution[e].lasting
           /\ \A f \in Executions : f # e => execution'[f] = execution[f]
<1>1. execution[e] \in Slot
    BY SlotsTyped
<1>2. /\ execution'[e] = [execution[e] EXCEPT !.pc = pc]
      /\ \A f \in Executions : f # e => execution'[f] = execution[f]
    BY GoesShape DEF Becomes
<1> QED
    BY <1>1, <1>2 DEF Slot

LEMMA Next1Fields ==
    ASSUME TypeOK, NEW e \in Executions, Next1(e)
    PROVE  /\ execution'[e].pc = "next" /\ execution'[e].who = {}
           /\ execution'[e].at = execution[e].at /\ execution'[e].todo = execution[e].todo
           /\ execution'[e].lasting = execution[e].lasting
           /\ \A f \in Executions : f # e => execution'[f] = execution[f]
<1>1. execution[e] \in Slot
    BY SlotsTyped
<1>2. /\ execution'[e] = [execution[e] EXCEPT !.pc = "next", !.who = {}]
      /\ \A f \in Executions : f # e => execution'[f] = execution[f]
    BY Next1Shape DEF Becomes
<1> QED
    BY <1>1, <1>2 DEF Slot

LEMMA IdleShape ==
    ASSUME TypeOK, NEW e \in Executions, execution' = [execution EXCEPT ![e] = Idle]
    PROVE  Becomes(e, Idle)
<1>1. Idle \in Slot
    BY DEF Idle, Slot, Places
<1> QED
    BY <1>1, Update DEF Becomes

LEMMA StartShape ==
    ASSUME TypeOK, NEW e \in Executions, Start(e)
    PROVE  Becomes(e, [Idle EXCEPT !.pc = "list", !.at = audienceRevision])
<1> DEFINE r == [Idle EXCEPT !.pc = "list", !.at = audienceRevision]
<1>1. r \in Slot
    BY DEF Idle, Slot, Places, TypeOK
<1>2. execution' = [execution EXCEPT ![e] = r]
    BY DEF Start
<1> QED
    BY <1>1, <1>2, Update DEF Becomes

LEMMA ListShape ==
    ASSUME TypeOK, NEW e \in Executions, List(e)
    PROVE  Becomes(e, [execution[e] EXCEPT !.pc = "next",
                           !.todo = {m \in Members : Pending(e, m)}])
<1> DEFINE r == [execution[e] EXCEPT !.pc = "next", !.todo = {m \in Members : Pending(e, m)}]
<1>1. {m \in Members : Pending(e, m)} \in SUBSET Members
    OBVIOUS
<1>2. r \in Slot
    <2> HIDE DEF r
    <2>1. execution[e] \in Slot
        BY SlotsTyped
    <2> QED
        BY <1>1, <2>1 DEF Slot, Places, r
<1>3. execution' = [execution EXCEPT ![e] = r]
    BY DEF List
<1> QED
    BY <1>2, <1>3, Update DEF Becomes

LEMMA ReadShape ==
    ASSUME TypeOK, NEW e \in Executions, Read(e)
    PROVE  Becomes(e, AxisRead(e))
<1> DEFINE p == Passing(e)
           r == [execution[e] EXCEPT !.passed = p, !.axis = @ + 1,
               !.pc = IF execution[e].axis = Len(AxisOrder) THEN "count" ELSE "read"]
<1>1. r \in Slot
    <2>1. execution[e] \in Slot
        BY SlotsTyped
    <2>2. (IF execution[e].axis = Len(AxisOrder) THEN "count" ELSE "read") \in Places
        BY DEF Places
    <2>3. execution[e].axis + 1 \in Nat
        BY <2>1 DEF Slot
    <2>4. p \in BOOLEAN
        BY DEF Passing
    <2> HIDE DEF p
    <2> QED
        BY <2>1, <2>2, <2>3, <2>4 DEF Slot
<1>2. AxisRead(e) = r
    BY Zenon DEF AxisRead
<1>3. AxisRead(e) \in Slot
    BY <1>1, <1>2
<1> QED
    BY <1>3, Update DEF Becomes, Read

\* What the fields of a request are after an axis was read.
LEMMA ReadFields ==
    ASSUME TypeOK, NEW e \in Executions
    PROVE  /\ AxisRead(e).at = execution[e].at
           /\ AxisRead(e).todo = execution[e].todo
           /\ AxisRead(e).who = execution[e].who
           /\ AxisRead(e).lasting = execution[e].lasting
           /\ AxisRead(e).axis = execution[e].axis + 1
           /\ AxisRead(e).passed = Passing(e)
           /\ execution[e].axis = Len(AxisOrder) => AxisRead(e).pc = "count"
           /\ execution[e].axis # Len(AxisOrder) => AxisRead(e).pc = "read"
<1> DEFINE p == Passing(e)
           r == [execution[e] EXCEPT !.passed = p, !.axis = @ + 1,
               !.pc = IF execution[e].axis = Len(AxisOrder) THEN "count" ELSE "read"]
<1>1. execution[e] \in Slot
    BY SlotsTyped
<1>2. AxisRead(e) = r
    BY Zenon DEF AxisRead
<1> HIDE DEF p
<1>3. r.passed = p
    BY <1>1 DEF Slot
<1>4. /\ r.at = execution[e].at /\ r.todo = execution[e].todo /\ r.who = execution[e].who
      /\ r.lasting = execution[e].lasting /\ r.axis = execution[e].axis + 1
      /\ execution[e].axis = Len(AxisOrder) => r.pc = "count"
      /\ execution[e].axis # Len(AxisOrder) => r.pc = "read"
    BY <1>1 DEF Slot
<1> QED
    BY <1>2, <1>3, <1>4 DEF p

LEMMA LookShape ==
    ASSUME TypeOK, NEW e \in Executions, Look(e)
    PROVE  \E m \in execution[e].todo :
       \/ /\ ~Pending(e, m) /\ UNCHANGED member
          /\ Becomes(e, [execution[e] EXCEPT !.todo = @ \ {m}])
       \/ /\ Pending(e, m) /\ ~Uncounted(m) /\ ~Taken(m)
          /\ member' = [member EXCEPT ![m].state = "sent"]
          /\ Becomes(e, [execution[e] EXCEPT !.todo = @ \ {m}])
       \/ /\ Pending(e, m) /\ Uncounted(m) /\ UNCHANGED member
          /\ Becomes(e, [execution[e] EXCEPT !.todo = @ \ {m}, !.pc = "read", !.who = {m},
                             !.axis = 1, !.passed = TRUE, !.lasting = refusals[ContactOf(m)]])
<1>1. PICK m \in execution[e].todo : Look(e)!(m)
    BY DEF Look
<1>2. execution[e] \in Slot
    BY SlotsTyped
<1>3. m \in Members
    BY <1>2 DEF Slot
<1> DEFINE r == [execution[e] EXCEPT !.todo = @ \ {m}]
           q == [execution[e] EXCEPT !.todo = @ \ {m}, !.pc = "read", !.who = {m},
                    !.axis = 1, !.passed = TRUE, !.lasting = refusals[ContactOf(m)]]
<1>4. r \in Slot
    BY <1>2 DEF Slot
<1>5. q \in Slot
    <2>1. refusals[ContactOf(m)] \in SUBSET Axes
        BY <1>3 DEF TypeOK, Contacts
    <2> QED
        BY <1>2, <1>3, <2>1 DEF Slot, Places
<1>6. CASE ~Pending(e, m) /\ execution' = [execution EXCEPT ![e] = r] /\ UNCHANGED member
    BY <1>4, <1>6, Update DEF Becomes
<1>7. CASE /\ Pending(e, m) /\ (\E s \in counter : s.ref = m) /\ ~Taken(m)
           /\ member' = [member EXCEPT ![m].state = "sent"]
           /\ execution' = [execution EXCEPT ![e] = r]
    BY <1>4, <1>7, Update DEF Becomes, Uncounted
<1>8. CASE /\ Pending(e, m) /\ (~\E s \in counter : s.ref = m) /\ UNCHANGED member
           /\ execution' = [execution EXCEPT ![e] = q]
    BY <1>5, <1>8, Update DEF Becomes, Uncounted
<1> QED
    BY <1>1, <1>6, <1>7, <1>8

\* A request between its steps has a member in its hands.
LEMMA InHand ==
    ASSUME Held, NEW e \in Executions, execution[e].pc \in Busy
    PROVE  \E m \in Members : Handles(e, m) /\ Who(e) = m
BY WhoIs DEF Held, Handles

\* What an execution writes: nothing of a member, or the end of one that is
\* pending and that nobody has claimed, counted with it if it is sent.
Settles(e, m, state) ==
    /\ member[m].state = "pending"
    /\ member' = [member EXCEPT ![m].state = state]
    /\ execution[e].pc = "record" \/ ~Taken(m)
    /\ \/ state = "skipped" /\ UNCHANGED counter /\ Handles(e, m)
       \/ state = "sent" /\ UNCHANGED counter /\ ~Uncounted(m) /\ execution[e].pc = "next"
       \/ /\ state = "sent" /\ Handles(e, m) /\ execution[e].pc = "record"
          /\ counter' = counter \cup {[ref |-> m, recent |-> TRUE]}
          /\ Sends(ContactOf(m)) < MaxProactiveSends

LEMMA Effect ==
    ASSUME TypeOK, Held, Claimed, NEW e \in Executions, Executing(e)
    PROVE  /\ UNCHANGED <<audienceRevision, confirmed, tab, world>>
           /\ \/ UNCHANGED <<member, counter>>
              \/ \E m \in Members, state \in {"sent", "skipped"} : Settles(e, m, state)
<1>1. CASE Start(e) \/ List(e) \/ Read(e) \/ Count(e) \/ ClaimMember(e) \/ Finish(e) \/ Stops(e)
    BY <1>1 DEF Start, List, Read, Count, ClaimMember, Finish, Stops, run
<1>2. CASE Look(e)
    <2>1. UNCHANGED <<audienceRevision, confirmed, tab, counter, world>> /\ At(e, "next")
        BY <1>2 DEF Look, run
    <2>2. PICK m \in execution[e].todo :
              \/ UNCHANGED member
              \/ Pending(e, m) /\ ~Uncounted(m) /\ ~Taken(m)
                    /\ member' = [member EXCEPT ![m].state = "sent"]
        BY <1>2, LookShape
    <2>3. m \in Members
        BY SlotsTyped DEF Slot
    <2> QED
        BY <2>1, <2>2, <2>3 DEF Settles, Pending, At
<1>3. CASE Record(e)
    <2>1. PICK m \in Members : Handles(e, m) /\ Who(e) = m
        BY <1>3, InHand DEF Record, At, Busy
    <2>2. member[m].state = "pending"
        BY <1>3, <2>1 DEF Claimed, Record, At
    <2> QED
        BY <1>3, <2>1, <2>2 DEF Record, Sent, Settles, At, run
<1>4. CASE Skip(e)
    <2>1. PICK m \in Members : Handles(e, m) /\ Who(e) = m
        BY <1>4, InHand DEF Skip, Busy
    <2> QED
        BY <1>4, <2>1 DEF Skip, Settles, Pending, run
<1> QED
    BY <1>1, <1>2, <1>3, <1>4 DEF Executing

\* So it moves members on, and never into or out of the audience.
LEMMA MembersMoveOn ==
    ASSUME TypeOK, Held, Claimed, NEW e \in Executions, Executing(e)
    PROVE  /\ member' \in [Members -> [state : {"absent", "pending", "sent", "skipped"}, at : Nat]]
           /\ \A m \in Members :
                 /\ member'[m].at = member[m].at
                 /\ member'[m].state = "absent" <=> member[m].state = "absent"
                 /\ member'[m].state = "pending" => member[m].state = "pending"
           /\ Audience' = Audience
<1>1. CASE UNCHANGED member
    BY <1>1 DEF TypeOK, Audience
<1>2. CASE \E m \in Members, state \in {"sent", "skipped"} : Settles(e, m, state)
    <2>1. PICK m \in Members, state \in {"sent", "skipped"} : Settles(e, m, state)
        BY <1>2
    <2>2. /\ member[m].state = "pending"
          /\ member' = [member EXCEPT ![m].state = state]
        BY <2>1 DEF Settles
    <2>3. member' \in [Members -> [state : {"absent", "pending", "sent", "skipped"}, at : Nat]]
        BY <2>2 DEF TypeOK
    <2>4. \A x \in Members :
              /\ member'[x].at = member[x].at
              /\ member'[x].state = "absent" <=> member[x].state = "absent"
              /\ member'[x].state = "pending" => member[x].state = "pending"
        BY <2>2 DEF TypeOK
    <2> QED
        BY <2>3, <2>4 DEF Audience
<1> QED
    BY <1>1, <1>2, Effect

\* Every request, moved or not, stays a request.
LEMMA RequestsStay ==
    ASSUME TypeOK, NEW e \in Executions, Executing(e)
    PROVE  execution' \in [Executions -> Slot]
<1>1. \A pc \in Places : Goes(e, pc) => execution' \in [Executions -> Slot]
    BY GoesShape DEF Becomes
<1>2. Next1(e) => execution' \in [Executions -> Slot]
    BY Next1Shape DEF Becomes
<1>3. Look(e) => execution' \in [Executions -> Slot]
    BY LookShape DEF Becomes
<1>4. Count(e) \/ ClaimMember(e) \/ Record(e) \/ Skip(e) => execution' \in [Executions -> Slot]
    BY <1>1, <1>2 DEF Count, ClaimMember, Record, Skip, Sent, Places
<1>5. Finish(e) \/ Stops(e) => execution' \in [Executions -> Slot]
    BY IdleShape DEF Finish, Stops, Becomes
<1> QED
    BY <1>3, <1>4, <1>5, StartShape, ListShape, ReadShape DEF Executing, Becomes

\* The merchant writes only while nothing is executed or counted.
Merchant(t) ==
    ViewRun(t) \/ ViewMembers(t) \/ FreezeAudience(t) \/ ConfirmBroadcastRun(t) \/ CancelBroadcastRun(t)

LEMMA MerchantEffect ==
    ASSUME TypeOK, Held, Frozen, NEW t \in Tabs, Merchant(t)
    PROVE  /\ UNCHANGED <<counter, world, execution>>
           /\ \/ UNCHANGED <<run, member, confirmed>>
              \/ /\ counter = {} /\ \A e \in Executions : execution[e].pc = "idle"
                 /\ status' \in {"audience_frozen", "confirmed", "cancelled"}
                 /\ revision' = revision + 1
<1>1. CASE ViewRun(t) \/ ViewMembers(t)
    BY <1>1 DEF ViewRun, ViewMembers
<1>2. CASE FreezeAudience(t)
    BY <1>2 DEF FreezeAudience, Writes, Held, Frozen
<1>3. CASE ConfirmBroadcastRun(t)
    BY <1>3 DEF ConfirmBroadcastRun, Writes, Held, Frozen
<1>4. CASE CancelBroadcastRun(t)
    BY <1>4 DEF CancelBroadcastRun, Writes, Held, Frozen
<1> QED
    BY <1>1, <1>2, <1>3, <1>4 DEF Merchant

\* A customer's word changes nothing of a request but what lasted.
LEMMA WordEffect ==
    ASSUME TypeOK, Held, NEW c \in Contacts, NEW axis \in Axes, Says(c, axis)
    PROVE  /\ UNCHANGED <<run, member, confirmed, tab, counter>>
           /\ execution' \in [Executions -> Slot]
           /\ refusals' \in [Contacts -> SUBSET Axes]
           /\ \A d \in Contacts : d # c => refusals'[d] = refusals[d]
           /\ \A e \in Executions :
                 /\ execution'[e].pc = execution[e].pc /\ execution'[e].at = execution[e].at
                 /\ execution'[e].todo = execution[e].todo /\ execution'[e].who = execution[e].who
                 /\ execution'[e].axis = execution[e].axis
                 /\ execution'[e].passed = execution[e].passed
                 /\ execution'[e].lasting \subseteq execution[e].lasting
           /\ \A e \in Executions, m \in Members :
                 Handles(e, m) /\ ContactOf(m) = c => execution'[e].lasting \subseteq refusals'[c]
<1> DEFINE now == IF axis \in refusals[c] THEN refusals[c] \ {axis} ELSE refusals[c] \cup {axis}
<1>1. /\ refusals' = [refusals EXCEPT ![c] = now] /\ execution' = Noticed(c, now)
      /\ UNCHANGED <<run, member, confirmed, tab, counter>>
    BY DEF Says
<1>2. now \in SUBSET Axes
    BY DEF TypeOK
<1> HIDE DEF now
<1>3. /\ refusals' \in [Contacts -> SUBSET Axes] /\ refusals'[c] = now
      /\ \A d \in Contacts : d # c => refusals'[d] = refusals[d]
    BY <1>1, <1>2 DEF TypeOK
<1>4. ASSUME NEW e \in Executions
      PROVE  /\ execution'[e] \in Slot
             /\ execution'[e].pc = execution[e].pc /\ execution'[e].at = execution[e].at
             /\ execution'[e].todo = execution[e].todo /\ execution'[e].who = execution[e].who
             /\ execution'[e].axis = execution[e].axis
             /\ execution'[e].passed = execution[e].passed
             /\ execution'[e].lasting \subseteq execution[e].lasting
             /\ execution[e].who # {} /\ ContactOf(Who(e)) = c => execution'[e].lasting \subseteq now
    <2>1. execution[e] \in Slot
        BY SlotsTyped
    <2>2. CASE execution[e].who # {} /\ ContactOf(Who(e)) = c
        <3> DEFINE r == [execution[e] EXCEPT !.lasting = @ \cap now]
        <3>1. execution'[e] = r
            BY <1>1, <2>2 DEF Noticed
        <3>2. r \in Slot
            BY <2>1 DEF Slot
        <3> QED
            BY <2>1, <3>1, <3>2 DEF Slot
    <2>3. CASE ~(execution[e].who # {} /\ ContactOf(Who(e)) = c)
        BY <1>1, <2>1, <2>3 DEF Noticed
    <2> QED
        BY <2>2, <2>3
<1>5. execution' \in [Executions -> Slot]
    BY <1>1, <1>4 DEF Noticed
<1>6. ASSUME NEW e \in Executions, NEW m \in Members, Handles(e, m), ContactOf(m) = c
      PROVE  execution'[e].lasting \subseteq refusals'[c]
    <2>1. execution[e].who = {m}
        BY <1>6 DEF Handles
    <2>2. execution[e].who # {} /\ ContactOf(Who(e)) = c
        BY <2>1, <1>6, WhoIs
    <2> QED
        BY <1>3, <1>4, <2>2
<1> QED
    BY <1>1, <1>3, <1>4, <1>5, <1>6

\* The state stays well typed.
LEMMA KeepsTypes ==
    ASSUME TypeOK, Held, Frozen, Claimed, [Next]_vars
    PROVE  TypeOK'
<1> USE BroadcastAssumption
<1>t. execution' \in [Executions -> Slot] =>
          execution' \in [Executions -> [pc : Places, at : Nat, todo : SUBSET Members,
              who : SUBSET Members, axis : Nat, passed : BOOLEAN, lasting : SUBSET Axes]]
    BY DEF Slot
<1>1. ASSUME NEW t \in Tabs, ViewRun(t) PROVE TypeOK'
    <2> DEFINE v == [revision |-> revision, audience |-> {}, shown |-> FALSE]
    <2>1. v \in [revision : Nat, audience : SUBSET Members, shown : BOOLEAN]
        BY DEF TypeOK
    <2>2. tab' \in [Tabs -> [revision : Nat, audience : SUBSET Members, shown : BOOLEAN]]
        BY <1>1, <2>1 DEF ViewRun, TypeOK
    <2> HIDE DEF v
    <2> QED
        BY <1>1, <2>2 DEF ViewRun, TypeOK, run, world
<1>2. ASSUME NEW t \in Tabs, ViewMembers(t) PROVE TypeOK'
    <2> DEFINE a == Audience
               v == [[tab[t] EXCEPT !.audience = a] EXCEPT !.shown = TRUE]
    <2>1. a \in SUBSET Members
        BY DEF Audience
    <2>2. tab[t] \in [revision : Nat, audience : SUBSET Members, shown : BOOLEAN]
        BY DEF TypeOK
    <2>3. v \in [revision : Nat, audience : SUBSET Members, shown : BOOLEAN]
        <3> HIDE DEF a
        <3> QED
            BY <2>1, <2>2
    <2>4. tab' = [tab EXCEPT ![t] = v]
        BY <1>2, <2>2 DEF ViewMembers, TypeOK
    <2>5. tab' \in [Tabs -> [revision : Nat, audience : SUBSET Members, shown : BOOLEAN]]
        <3> HIDE DEF v
        <3> QED
            BY <2>3, <2>4 DEF TypeOK
    <2> HIDE DEF a, v
    <2> QED
        BY <1>2, <2>5 DEF ViewMembers, TypeOK, run, world
<1>3. ASSUME NEW t \in Tabs, FreezeAudience(t) PROVE TypeOK'
    BY <1>3 DEF FreezeAudience, Writes, Absent, TypeOK, run, world
<1>4. ASSUME NEW t \in Tabs, ConfirmBroadcastRun(t) PROVE TypeOK'
    BY <1>4 DEF ConfirmBroadcastRun, Writes, TypeOK, run, world
<1>5. ASSUME NEW t \in Tabs, CancelBroadcastRun(t) PROVE TypeOK'
    BY <1>5 DEF CancelBroadcastRun, Writes, TypeOK, run, world
<1>6. ASSUME NEW e \in Executions, Executing(e) PROVE TypeOK'
    <2>1. execution' \in [Executions -> Slot]
        BY <1>6, RequestsStay
    <2>2. /\ UNCHANGED <<audienceRevision, confirmed, tab, world>>
          /\ counter' = counter \/ \E m \in Members : counter' = counter \cup {[ref |-> m, recent |-> TRUE]}
        BY <1>6, Effect DEF Settles
    <2>3. member' \in [Members -> [state : {"absent", "pending", "sent", "skipped"}, at : Nat]]
        BY <1>6, MembersMoveOn
    <2>4. counter' \subseteq [ref : Members, recent : BOOLEAN]
        <3>1. counter \subseteq [ref : Members, recent : BOOLEAN]
            BY DEF TypeOK
        <3>2. \A m \in Members : [ref |-> m, recent |-> TRUE] \in [ref : Members, recent : BOOLEAN]
            OBVIOUS
        <3> QED
            BY <2>2, <3>1, <3>2
    <2>5. /\ status' \in {"draft", "audience_frozen", "confirmed", "executing", "completed", "cancelled"}
          /\ revision' \in Nat
        <3>1. Start(e) => status' \in {status, "executing"} /\ revision' \in {revision, revision + 1}
            BY DEF Start, Writes
        <3>2. Finish(e) => status' \in {status, "completed"} /\ revision' \in {revision, revision + 1}
            BY DEF Finish
        <3>3. ~Start(e) /\ ~Finish(e) => UNCHANGED <<status, revision>>
            BY <1>6 DEF Executing, List, Look, Read, Count, ClaimMember, Record, Skip, Stops, run
        <3> QED
            BY <3>1, <3>2, <3>3 DEF TypeOK
    <2>6. /\ audienceRevision' = audienceRevision /\ confirmed' = confirmed /\ tab' = tab
          /\ refusals' = refusals /\ words' = words
        BY <2>2 DEF world
    <2> QED
        BY <1>t, <2>1, <2>3, <2>4, <2>5, <2>6 DEF TypeOK
<1>7. ASSUME NEW c \in Contacts, NEW axis \in Axes, Says(c, axis) PROVE TypeOK'
    <2>1. words' \in 0..MaxWords
        BY <1>7 DEF Says, TypeOK
    <2> QED
        BY <1>t, <1>7, <2>1, WordEffect DEF TypeOK, run
<1>8. ASSUME NEW s \in counter, WindowEnds(s) PROVE TypeOK'
    <2>1. s \in [ref : Members, recent : BOOLEAN]
        BY DEF TypeOK
    <2>2. [ref |-> s.ref, recent |-> FALSE] \in [ref : Members, recent : BOOLEAN]
        BY <2>1
    <2>3. counter' \subseteq [ref : Members, recent : BOOLEAN]
        BY <1>8, <2>2 DEF WindowEnds, TypeOK
    <2>4. words' \in 0..MaxWords
        BY <1>8 DEF WindowEnds, TypeOK
    <2>5. /\ UNCHANGED <<run, member, confirmed, tab, refusals, execution>>
        BY <1>8 DEF WindowEnds
    <2> QED
        BY <2>3, <2>4, <2>5 DEF TypeOK, run
<1>9. CASE UNCHANGED vars
    BY <1>9 DEF vars, run, world, TypeOK
<1> QED
    BY <1>1, <1>2, <1>3, <1>4, <1>5, <1>6, <1>7, <1>8, <1>9 DEF Next

\* The course of a request, field by field.
LEMMA Course ==
    ASSUME TypeOK, Held, NEW e \in Executions, Executing(e)
    PROVE  /\ \A f \in Executions : f # e => execution'[f] = execution[f]
           /\ ~Start(e) /\ ~Finish(e) => UNCHANGED <<status, revision>>
           /\ Start(e) => /\ execution[e].pc = "idle" /\ execution'[e].pc = "list"
                          /\ execution'[e].who = {} /\ execution'[e].at = audienceRevision
                          /\ status' = "executing"
           /\ Finish(e) \/ Stops(e) => execution'[e].pc = "idle" /\ execution'[e].who = {}
           /\ List(e) => /\ execution[e].pc = "list" /\ execution'[e].at = execution[e].at
                         /\ execution'[e].pc = "next" /\ execution'[e].who = {}
                         /\ execution'[e].todo = {m \in Members : Pending(e, m)}
           /\ Look(e) => \E m \in Members :
                 /\ execution[e].pc = "next" /\ execution'[e].at = execution[e].at
                 /\ execution'[e].todo = execution[e].todo \ {m}
                 /\ \/ execution'[e].pc = "next" /\ execution'[e].who = {}
                       /\ \/ ~Pending(e, m) /\ UNCHANGED member
                          \/ member' = [member EXCEPT ![m].state = "sent"]
                    \/ /\ execution'[e].pc = "read" /\ execution'[e].who = {m}
                       /\ execution'[e].axis = 1
                       /\ execution'[e].lasting = refusals[ContactOf(m)]
                       /\ Pending(e, m) /\ Uncounted(m) /\ UNCHANGED member
           /\ Read(e) => /\ execution[e].pc = "read" /\ execution'[e] = AxisRead(e)
                         /\ execution'[e].pc \in {"read", "count"}
                         /\ execution'[e].at = execution[e].at
                         /\ execution'[e].todo = execution[e].todo
                         /\ execution'[e].who = execution[e].who
           /\ Count(e) \/ ClaimMember(e) \/ Record(e) \/ Skip(e) =>
                 /\ execution[e].pc \in {"count", "claim", "record", "skip", "capped"}
                 /\ execution'[e].at = execution[e].at
                 /\ execution'[e].todo = execution[e].todo
                 /\ execution'[e].lasting = execution[e].lasting
                 /\ \/ /\ execution'[e].who = execution[e].who
                       /\ execution'[e].pc \in {"claim", "skip", "record", "capped"}
                       /\ execution'[e].pc = "claim" => Count(e)
                       /\ execution'[e].pc = "record" => ClaimMember(e)
                    \/ execution'[e].pc = "next" /\ execution'[e].who = {}
<1> DEFINE Now(pc, who) ==
        /\ execution'[e].at = execution[e].at /\ execution'[e].todo = execution[e].todo
        /\ execution'[e].lasting = execution[e].lasting
        /\ execution'[e].pc = pc /\ execution'[e].who = who
<1>s. execution[e] \in Slot
    BY SlotsTyped
<1>g. \A pc \in Places : Goes(e, pc) =>
         /\ Now(pc, execution[e].who)
         /\ \A f \in Executions : f # e => execution'[f] = execution[f]
    BY GoesFields
<1>n. Next1(e) => Now("next", {}) /\ \A f \in Executions : f # e => execution'[f] = execution[f]
    BY Next1Fields
<1>h. execution[e].pc \in {"next", "list"} => execution[e].who = {}
    BY DEF Held, Busy
<1>0. ~Start(e) /\ ~Finish(e) => UNCHANGED <<status, revision>>
    BY DEF Executing, List, Look, Read, Count, ClaimMember, Record, Skip, Stops, run
<1>1. ASSUME Start(e)
      PROVE  /\ execution[e].pc = "idle" /\ execution'[e].pc = "list"
             /\ execution'[e].who = {} /\ execution'[e].at = audienceRevision
             /\ status' = "executing"
             /\ \A f \in Executions : f # e => execution'[f] = execution[f]
    <2>1. execution[e].pc = "idle" /\ status' = "executing"
        BY <1>1 DEF Start, Writes, Idle
    <2>2. Becomes(e, [Idle EXCEPT !.pc = "list", !.at = audienceRevision])
        BY <1>1, StartShape
    <2> QED
        BY <2>1, <2>2 DEF Becomes, Idle
<1>2. ASSUME List(e)
      PROVE  /\ execution[e].pc = "list" /\ execution'[e].at = execution[e].at
             /\ execution'[e].pc = "next" /\ execution'[e].who = {}
             /\ execution'[e].todo = {m \in Members : Pending(e, m)}
             /\ \A f \in Executions : f # e => execution'[f] = execution[f]
    <2>1. execution[e].pc = "list" /\ execution[e].who = {}
        BY <1>2, <1>h DEF List, At
    <2> DEFINE listed == {m \in Members : Pending(e, m)}
    <2>2. Becomes(e, [execution[e] EXCEPT !.pc = "next", !.todo = listed])
        BY <1>2, ListShape
    <2> HIDE DEF listed
    <2>3. /\ execution'[e].pc = "next" /\ execution'[e].who = {} /\ execution'[e].todo = listed
          /\ execution'[e].at = execution[e].at
          /\ \A f \in Executions : f # e => execution'[f] = execution[f]
        BY <1>s, <2>1, <2>2 DEF Becomes, Slot
    <2> QED
        BY <2>1, <2>3 DEF listed
<1>3. ASSUME Look(e)
      PROVE  /\ \A f \in Executions : f # e => execution'[f] = execution[f]
             /\ \E m \in Members :
                 /\ execution[e].pc = "next" /\ execution'[e].at = execution[e].at
                 /\ execution'[e].todo = execution[e].todo \ {m}
                 /\ \/ execution'[e].pc = "next" /\ execution'[e].who = {}
                       /\ \/ ~Pending(e, m) /\ UNCHANGED member
                          \/ member' = [member EXCEPT ![m].state = "sent"]
                    \/ /\ execution'[e].pc = "read" /\ execution'[e].who = {m}
                       /\ execution'[e].axis = 1
                       /\ execution'[e].lasting = refusals[ContactOf(m)]
                       /\ Pending(e, m) /\ Uncounted(m) /\ UNCHANGED member
    <2>1. execution[e].pc = "next" /\ execution[e].who = {}
        BY <1>3, <1>h DEF Look, At
    <2>2. PICK m \in execution[e].todo :
       \/ /\ ~Pending(e, m) /\ UNCHANGED member
          /\ Becomes(e, [execution[e] EXCEPT !.todo = @ \ {m}])
       \/ /\ Pending(e, m) /\ ~Uncounted(m) /\ ~Taken(m)
          /\ member' = [member EXCEPT ![m].state = "sent"]
          /\ Becomes(e, [execution[e] EXCEPT !.todo = @ \ {m}])
       \/ /\ Pending(e, m) /\ Uncounted(m) /\ UNCHANGED member
          /\ Becomes(e, [execution[e] EXCEPT !.todo = @ \ {m}, !.pc = "read", !.who = {m},
                             !.axis = 1, !.passed = TRUE, !.lasting = refusals[ContactOf(m)]])
        BY <1>3, LookShape
    <2>m. m \in Members
        BY <1>s DEF Slot
    <2>3. CASE /\ Becomes(e, [execution[e] EXCEPT !.todo = @ \ {m}])
               /\ \/ ~Pending(e, m) /\ UNCHANGED member
                  \/ member' = [member EXCEPT ![m].state = "sent"]
        BY <1>s, <2>m, <2>1, <2>3 DEF Becomes, Slot
    <2>4. CASE /\ Pending(e, m) /\ Uncounted(m) /\ UNCHANGED member
               /\ Becomes(e, [execution[e] EXCEPT !.todo = @ \ {m}, !.pc = "read", !.who = {m},
                      !.axis = 1, !.passed = TRUE, !.lasting = refusals[ContactOf(m)]])
        BY <1>s, <2>m, <2>1, <2>4 DEF Becomes, Slot
    <2> QED
        BY <2>2, <2>3, <2>4
<1>4. Read(e) => /\ execution[e].pc = "read" /\ execution'[e] = AxisRead(e)
                 /\ execution'[e].pc \in {"read", "count"}
                 /\ execution'[e].at = execution[e].at
                 /\ execution'[e].todo = execution[e].todo
                 /\ execution'[e].who = execution[e].who
                 /\ \A f \in Executions : f # e => execution'[f] = execution[f]
    <2>1. Read(e) => /\ execution[e].pc = "read" /\ execution'[e] = AxisRead(e)
                     /\ \A f \in Executions : f # e => execution'[f] = execution[f]
        BY ReadShape DEF Becomes, Read, At
    <2>2. /\ AxisRead(e).at = execution[e].at
          /\ AxisRead(e).todo = execution[e].todo
          /\ AxisRead(e).who = execution[e].who
          /\ AxisRead(e).pc \in {"read", "count"}
        BY ReadFields
    <2> QED
        BY <2>1, <2>2
<1>5. ASSUME Count(e) \/ ClaimMember(e) \/ Record(e) \/ Skip(e)
      PROVE  /\ \A f \in Executions : f # e => execution'[f] = execution[f]
             /\ execution[e].pc \in {"count", "claim", "record", "skip", "capped"}
             /\ execution'[e].at = execution[e].at
             /\ execution'[e].todo = execution[e].todo
             /\ execution'[e].lasting = execution[e].lasting
             /\ \/ /\ execution'[e].who = execution[e].who
                   /\ execution'[e].pc \in {"claim", "skip", "record", "capped"}
                   /\ execution'[e].pc = "claim" => Count(e)
                   /\ execution'[e].pc = "record" => ClaimMember(e)
                \/ execution'[e].pc = "next" /\ execution'[e].who = {}
    <2>1. execution[e].pc \in {"count", "claim", "record", "skip", "capped"}
        BY <1>5 DEF Count, ClaimMember, Record, Skip, At
    <2>2. CASE Count(e)
        <3>1. Goes(e, "claim") \/ Goes(e, "skip")
            BY <2>2 DEF Count
        <3> QED
            BY <2>1, <2>2, <3>1, <1>g DEF Places
    <2>3. CASE ClaimMember(e)
        <3>1. Goes(e, "record") \/ Next1(e)
            BY <2>3 DEF ClaimMember
        <3> QED
            BY <2>1, <2>3, <3>1, <1>g, <1>n DEF Places
    <2>4. CASE Record(e)
        <3>1. Next1(e) \/ Goes(e, "capped")
            BY <2>4 DEF Record, Sent
        <3> QED
            BY <2>1, <3>1, <1>g, <1>n DEF Places
    <2>5. CASE Skip(e)
        <3>1. Next1(e)
            BY <2>5 DEF Skip
        <3> QED
            BY <2>1, <3>1, <1>n
    <2> QED
        BY <1>5, <2>2, <2>3, <2>4, <2>5
<1>6. Finish(e) \/ Stops(e) =>
          /\ execution'[e].pc = "idle" /\ execution'[e].who = {}
          /\ \A f \in Executions : f # e => execution'[f] = execution[f]
    BY IdleShape DEF Finish, Stops, Becomes, Idle
<1>7. \A f \in Executions : f # e => execution'[f] = execution[f]
    BY <1>1, <1>2, <1>3, <1>4, <1>5, <1>6 DEF Executing
<1> QED
    BY <1>0, <1>1, <1>2, <1>3, <1>4, <1>5, <1>6, <1>7

-----------------------------------------------------------------------------
\* The parts of the invariant, one by one.

\* The clock moves a send out of the window, nothing else.
LEMMA WindowEffect ==
    ASSUME TypeOK, NEW s \in counter, WindowEnds(s)
    PROVE  /\ UNCHANGED <<run, member, confirmed, tab, refusals, execution>>
           /\ s.recent
           /\ counter' = (counter \ {s}) \cup {[ref |-> s.ref, recent |-> FALSE]}
BY DEF WindowEnds

LEMMA KeepsHeld ==
    ASSUME TypeOK, Held, Frozen, Claimed, [Next]_vars
    PROVE  Held'
<1>1. ASSUME NEW t \in Tabs, Merchant(t) PROVE Held'
    BY <1>1, MerchantEffect DEF Held, run, Busy
<1>2. ASSUME NEW e \in Executions, Executing(e) PROVE Held'
    <2>0. /\ \A f \in Executions : f # e => execution'[f] = execution[f]
          /\ audienceRevision' = audienceRevision
        BY <1>2, Course, Effect
    <2>s. /\ status \in {"executing", "completed"} => status' \in {"executing", "completed"}
          /\ Start(e) => status' = "executing"
        <3>1. Start(e) \/ Finish(e) \/ UNCHANGED status
            BY <1>2 DEF Executing, List, Look, Read, Count, ClaimMember, Record, Skip, Stops, run
        <3> QED
            BY <3>1 DEF Start, Finish, Writes
    <2>1. ASSUME NEW f \in Executions, f # e
          PROVE  /\ execution'[f].pc \in Busy => \E m \in Members : execution'[f].who = {m}
                 /\ execution'[f].pc \notin Busy => execution'[f].who = {}
                 /\ execution'[f].pc # "idle" =>
                       status' \in {"executing", "completed"} /\ execution'[f].at = audienceRevision'
        BY <2>0, <2>1, <2>s DEF Held
    <2>2. /\ execution'[e].pc \in Busy => \E m \in Members : execution'[e].who = {m}
          /\ execution'[e].pc \notin Busy => execution'[e].who = {}
        <3>1. execution[e].pc \in Busy => \E m \in Members : execution[e].who = {m}
            BY DEF Held
        <3>2. CASE Count(e) \/ ClaimMember(e) \/ Record(e) \/ Skip(e) \/ Read(e)
            BY <3>1, <3>2, <1>2, Course DEF Busy
        <3>3. CASE Look(e)
            BY <3>3, <1>2, Course DEF Busy
        <3>4. CASE Start(e) \/ List(e) \/ Finish(e) \/ Stops(e)
            BY <3>4, <1>2, Course DEF Busy
        <3> QED
            BY <1>2, <3>2, <3>3, <3>4 DEF Executing
    <2>3. execution'[e].pc # "idle" =>
              status' \in {"executing", "completed"} /\ execution'[e].at = audienceRevision'
        <3>1. execution[e].pc # "idle" =>
                  status \in {"executing", "completed"} /\ execution[e].at = audienceRevision
            BY DEF Held
        <3>2. CASE Start(e)
            BY <3>2, <2>0, <1>2, Course
        <3>3. CASE Finish(e) \/ Stops(e)
            BY <3>3, <1>2, Course
        <3>4. CASE Look(e)
            BY <3>4, <3>1, <2>0, <2>s, <1>2, Course
        <3>5. CASE List(e) \/ Read(e) \/ Count(e) \/ ClaimMember(e) \/ Record(e) \/ Skip(e)
            BY <3>5, <3>1, <2>0, <2>s, <1>2, Course
        <3> QED
            BY <1>2, <3>2, <3>3, <3>4, <3>5 DEF Executing
    <2> QED
        BY <2>1, <2>2, <2>3 DEF Held
<1>3. ASSUME NEW c \in Contacts, NEW axis \in Axes, Says(c, axis) PROVE Held'
    BY <1>3, WordEffect DEF Held, run
<1>4. ASSUME NEW s \in counter, WindowEnds(s) PROVE Held'
    BY <1>4, WindowEffect DEF Held, run
<1>5. CASE UNCHANGED vars
    BY <1>5 DEF Held, vars, run
<1> QED
    BY <1>1, <1>2, <1>3, <1>4, <1>5 DEF Next, Merchant

\* The audience stays the one of the last freeze.
LEMMA KeepsFrozen ==
    ASSUME TypeOK, Held, Frozen, Claimed, [Next]_vars
    PROVE  Frozen'
<1>1. ASSUME NEW t \in Tabs, Merchant(t) PROVE Frozen'
    <2>1. CASE FreezeAudience(t)
        <3>1. \A m \in Members : member'[m].state # "absent" => member'[m].at = audienceRevision'
            BY <2>1 DEF FreezeAudience, Absent
        <3> QED
            BY <2>1, <3>1, <1>1, MerchantEffect DEF FreezeAudience, Frozen, run
    <2>2. CASE ~FreezeAudience(t)
        BY <1>1, <2>2, MerchantEffect
           DEF Merchant, ViewRun, ViewMembers, ConfirmBroadcastRun, CancelBroadcastRun, Frozen, run
    <2> QED
        BY <2>1, <2>2
<1>2. ASSUME NEW e \in Executions, Executing(e) PROVE Frozen'
    <2>1. \A m \in Members : member'[m].state # "absent" => member'[m].at = audienceRevision'
        BY <1>2, MembersMoveOn, Effect DEF Frozen
    <2>2. status' \in {"executing", "completed"}
        <3>1. Start(e) => status' = "executing"
            BY DEF Start, Writes
        <3>2. ~Start(e) => execution[e].pc # "idle"
            BY <1>2 DEF Executing, List, Look, Read, Count, ClaimMember, Record, Skip, Finish, Stops,
                        At, Idle
        <3>3. Start(e) \/ Finish(e) \/ UNCHANGED status
            BY <1>2 DEF Executing, List, Look, Read, Count, ClaimMember, Record, Skip, Stops, run
        <3> QED
            BY <3>1, <3>2, <3>3 DEF Held, Finish
    <2> QED
        BY <2>1, <2>2 DEF Frozen
<1>3. ASSUME NEW c \in Contacts, NEW axis \in Axes, Says(c, axis) PROVE Frozen'
    BY <1>3 DEF Says, Frozen, run
<1>4. ASSUME NEW s \in counter, WindowEnds(s) PROVE Frozen'
    BY <1>4 DEF WindowEnds, Frozen, run
<1>5. CASE UNCHANGED vars
    BY <1>5 DEF Frozen, vars, run
<1> QED
    BY <1>1, <1>2, <1>3, <1>4, <1>5 DEF Next, Merchant

\* A tab goes on showing what it says it shows.
LEMMA KeepsShown ==
    ASSUME TypeOK, Held, Frozen, Claimed, Shown, [Next]_vars
    PROVE  Shown'
<1>1. ASSUME NEW t \in Tabs, ViewRun(t) PROVE Shown'
    BY <1>1 DEF ViewRun, Shown, TypeOK, Audience, run
<1>2. ASSUME NEW t \in Tabs, ViewMembers(t) PROVE Shown'
    <2>1. Audience' = Audience /\ revision' = revision
        BY <1>2 DEF ViewMembers, Audience, run
    <2>2. \A u \in Tabs : u # t => tab'[u] = tab[u]
        BY <1>2 DEF ViewMembers, TypeOK
    <2>3. tab'[t].revision = tab[t].revision /\ tab'[t].audience = Audience
        BY <1>2 DEF ViewMembers, TypeOK
    <2> QED
        BY <2>1, <2>2, <2>3 DEF Shown
<1>3. ASSUME NEW t \in Tabs, FreezeAudience(t) \/ ConfirmBroadcastRun(t) \/ CancelBroadcastRun(t)
      PROVE  Shown'
    <2>1. revision' = revision + 1 /\ tab' = tab
        BY <1>3 DEF FreezeAudience, ConfirmBroadcastRun, CancelBroadcastRun, Writes
    <2>2. revision \in Nat /\ \A u \in Tabs : tab[u].revision \in Nat
        BY DEF TypeOK
    <2> QED
        BY <2>1, <2>2 DEF Shown
<1>4. ASSUME NEW e \in Executions, Executing(e) PROVE Shown'
    <2>1. tab' = tab /\ Audience' = Audience
        BY <1>4, Effect, MembersMoveOn
    <2>2. revision' = revision \/ revision' = revision + 1
        <3>1. Start(e) \/ Finish(e) => revision' = revision \/ revision' = revision + 1
            BY DEF Start, Finish, Writes
        <3> QED
            BY <3>1, <1>4, Course
    <2>3. revision \in Nat /\ \A u \in Tabs : tab[u].revision \in Nat
        BY DEF TypeOK
    <2> QED
        BY <2>1, <2>2, <2>3 DEF Shown
<1>5. ASSUME NEW c \in Contacts, NEW axis \in Axes, Says(c, axis) PROVE Shown'
    BY <1>5 DEF Says, Shown, Audience, run
<1>6. ASSUME NEW s \in counter, WindowEnds(s) PROVE Shown'
    BY <1>6 DEF WindowEnds, Shown, Audience, run
<1>7. CASE UNCHANGED vars
    BY <1>7 DEF Shown, Audience, vars, run
<1> QED
    BY <1>1, <1>2, <1>3, <1>4, <1>5, <1>6, <1>7 DEF Next

\* Nobody who is pending falls behind.
LEMMA KeepsAhead ==
    ASSUME TypeOK, Held, Frozen, Claimed, Ahead, [Next]_vars
    PROVE  Ahead'
<1>1. ASSUME NEW t \in Tabs, Merchant(t) PROVE Ahead'
    BY <1>1, MerchantEffect DEF Ahead, Busy, run
<1>2. ASSUME NEW e \in Executions, Executing(e) PROVE Ahead'
    <2>1. \A x \in Members : member'[x].state = "pending" => member[x].state = "pending"
        BY <1>2, MembersMoveOn
    <2>2. ASSUME NEW f \in Executions, NEW x \in Members, f # e,
                 execution'[f].pc \in Busy \cup {"next"}, member'[x].state = "pending"
          PROVE  x \in execution'[f].todo \cup execution'[f].who
        BY <2>1, <2>2, <1>2, Course DEF Ahead
    <2>3. ASSUME NEW x \in Members,
                 execution'[e].pc \in Busy \cup {"next"}, member'[x].state = "pending"
          PROVE  x \in execution'[e].todo \cup execution'[e].who
        <3>1. member[x].state = "pending"
            BY <2>1, <2>3
        <3>2. execution[e].pc # "idle" => Pending(e, x)
            <4>1. member[x] \in [state : {"absent", "pending", "sent", "skipped"}, at : Nat]
                BY DEF TypeOK
            <4>2. execution[e].pc # "idle" => member[x].at = execution[e].at
                BY <3>1 DEF Held, Frozen
            <4> QED
                BY <3>1, <4>1, <4>2 DEF Pending
        <3>3. execution[e].pc \in Busy \cup {"next"} => x \in execution[e].todo \cup execution[e].who
            BY <3>1 DEF Ahead
        <3>4. execution[e].pc = "next" => execution[e].who = {}
            BY DEF Held, Busy
        <3>5. CASE Start(e) \/ Finish(e) \/ Stops(e)
            BY <3>5, <2>3, <1>2, Course DEF Busy
        <3>6. CASE List(e)
            BY <3>6, <3>2, <1>2, Course
        <3>7. CASE Look(e)
            <4>1. PICK m \in Members :
                 /\ execution[e].pc = "next"
                 /\ execution'[e].todo = execution[e].todo \ {m}
                 /\ \/ execution'[e].pc = "next" /\ execution'[e].who = {}
                       /\ \/ ~Pending(e, m) /\ UNCHANGED member
                          \/ member' = [member EXCEPT ![m].state = "sent"]
                    \/ execution'[e].who = {m}
                BY <3>7, <1>2, Course
            <4>2. x # m => x \in execution'[e].todo
                BY <4>1, <3>3, <3>4
            <4>3. member' = [member EXCEPT ![m].state = "sent"] => member'[m].state = "sent"
                BY DEF TypeOK
            <4> QED
                BY <4>1, <4>2, <4>3, <3>2, <2>3
        <3>8. CASE Read(e)
            BY <3>8, <3>3, <1>2, Course DEF Busy
        <3>9. CASE Count(e) \/ ClaimMember(e) \/ Record(e) \/ Skip(e)
            <4>1. execution[e].pc \in Busy
                BY <3>9, <1>2, Course DEF Busy
            <4>2. CASE execution'[e].who = execution[e].who
                BY <4>1, <4>2, <3>3, <3>9, <1>2, Course
            <4>3. CASE execution'[e].who # execution[e].who
                <5>1. PICK m \in Members : Handles(e, m) /\ Who(e) = m
                    BY <4>1, InHand
                <5>2. member'[m].state # "pending"
                    <6>1. ~Count(e)
                        <7>1. Count(e) => Goes(e, "claim") \/ Goes(e, "skip")
                            BY DEF Count
                        <7>2. "claim" \in Places /\ "skip" \in Places
                            BY DEF Places
                        <7> QED
                            BY <4>3, <7>1, <7>2, GoesFields
                    <6>2. CASE ClaimMember(e)
                        <7>1. ~Pending(e, m) /\ UNCHANGED member
                            <8>1. ~Goes(e, "record")
                                BY <4>3, GoesFields DEF Places
                            <8> QED
                                BY <6>2, <8>1, <5>1 DEF ClaimMember
                        <7>2. execution[e].pc # "idle"
                            BY <4>1 DEF Busy
                        <7>3. member[m] \in [state : {"absent", "pending", "sent", "skipped"}, at : Nat]
                            BY DEF TypeOK
                        <7>4. member[m].state = "pending" => member[m].at = execution[e].at
                            BY <7>2 DEF Held, Frozen
                        <7> QED
                            BY <7>1, <7>3, <7>4 DEF Pending
                    <6>3. CASE Record(e)
                        <7>1. Sent(e)
                            <8>1. ~Goes(e, "capped")
                                BY <4>3, GoesFields DEF Places
                            <8> QED
                                BY <6>3, <8>1 DEF Record
                        <7> QED
                            BY <7>1, <5>1 DEF Sent, TypeOK
                    <6>4. CASE Skip(e)
                        <7>2. execution[e].pc # "idle"
                            BY <4>1 DEF Busy
                        <7>3. member[m] \in [state : {"absent", "pending", "sent", "skipped"}, at : Nat]
                            BY DEF TypeOK
                        <7>4. member[m].state = "pending" => member[m].at = execution[e].at
                            BY <7>2 DEF Held, Frozen
                        <7>5. member[m].state = "pending" => Pending(e, m)
                            BY <7>3, <7>4 DEF Pending
                        <7> QED
                            BY <6>4, <7>5, <5>1 DEF Skip, TypeOK
                    <6> QED
                        BY <3>9, <6>1, <6>2, <6>3, <6>4
                <5> QED
                    BY <4>1, <5>1, <5>2, <3>3, <2>3, <3>9, <1>2, Course DEF Handles
            <4> QED
                BY <4>2, <4>3
        <3> QED
            BY <1>2, <3>5, <3>6, <3>7, <3>8, <3>9 DEF Executing
    <2> QED
        BY <2>2, <2>3 DEF Ahead
<1>3. ASSUME NEW c \in Contacts, NEW axis \in Axes, Says(c, axis) PROVE Ahead'
    BY <1>3, WordEffect DEF Ahead
<1>4. ASSUME NEW s \in counter, WindowEnds(s) PROVE Ahead'
    BY <1>4, WindowEffect DEF Ahead
<1>5. CASE UNCHANGED vars
    BY <1>5 DEF Ahead, vars
<1> QED
    BY <1>1, <1>2, <1>3, <1>4, <1>5 DEF Next, Merchant

\* Sends and members go together.
LEMMA KeepsEntries ==
    ASSUME TypeOK, Held, Frozen, Claimed, Entries, [Next]_vars
    PROVE  Entries'
<1>m. \A m \in Members : member[m] \in [state : {"absent", "pending", "sent", "skipped"}, at : Nat]
    BY DEF TypeOK
<1>1. ASSUME NEW t \in Tabs, Merchant(t) PROVE Entries'
    <2>1. CASE UNCHANGED member /\ UNCHANGED counter
        BY <2>1 DEF Entries, Uncounted
    <2>2. CASE FreezeAudience(t)
        <3>1. counter = {} /\ counter' = {}
            BY <2>2, <1>1, MerchantEffect DEF FreezeAudience, Frozen
        <3>2. \A m \in Members : member'[m].state \in {"pending", "absent"}
            BY <2>2 DEF FreezeAudience, Absent
        <3> QED
            BY <3>1, <3>2 DEF Entries, Uncounted
    <2> QED
        BY <1>1, <2>1, <2>2 DEF Merchant, ViewRun, ViewMembers, ConfirmBroadcastRun, CancelBroadcastRun
<1>2. ASSUME NEW e \in Executions, Executing(e) PROVE Entries'
    <2>1. CASE UNCHANGED <<member, counter>>
        BY <2>1 DEF Entries, Uncounted
    <2>2. ASSUME NEW m \in Members, NEW state \in {"sent", "skipped"}, Settles(e, m, state)
          PROVE  Entries'
        <3>1. /\ member[m].state = "pending" /\ member' = [member EXCEPT ![m].state = state]
              /\ member'[m].state = state
              /\ \A x \in Members : x # m => member'[x] = member[x]
            BY <2>2, <1>m DEF Settles, TypeOK
        <3>2. Handles(e, m) => Uncounted(m)
            BY <3>1 DEF Claimed
        <3>3. CASE state = "skipped" /\ UNCHANGED counter /\ Handles(e, m)
            BY <3>1, <3>2, <3>3 DEF Entries, Uncounted
        <3>4. CASE state = "sent" /\ UNCHANGED counter /\ ~Uncounted(m)
            BY <3>1, <3>4 DEF Entries, Uncounted
        <3>5. CASE /\ state = "sent" /\ Handles(e, m)
                   /\ counter' = counter \cup {[ref |-> m, recent |-> TRUE]}
            <4> DEFINE n == [ref |-> m, recent |-> TRUE]
            <4>1. counter' = counter \cup {n} /\ n.ref = m
                BY <3>5
            <4> HIDE DEF n
            <4>2. \A s \in counter : s.ref # m
                BY <3>2, <3>5 DEF Uncounted
            <4>3. \A s, t \in counter' : s.ref = t.ref => s = t
                BY <4>1, <4>2 DEF Entries
            <4>4. \A x \in Members : x # m =>
                      /\ member'[x].state = "sent" => ~Uncounted(x)'
                      /\ member'[x].state \in {"absent", "skipped"} => Uncounted(x)'
                BY <3>1, <4>1 DEF Entries, Uncounted
            <4>5. ~Uncounted(m)' /\ member'[m].state = "sent"
                BY <3>1, <3>5, <4>1 DEF Uncounted
            <4> QED
                BY <4>3, <4>4, <4>5 DEF Entries
        <3> QED
            BY <2>2, <3>3, <3>4, <3>5 DEF Settles
    <2> QED
        BY <1>2, <2>1, <2>2, Effect
<1>3. ASSUME NEW c \in Contacts, NEW axis \in Axes, Says(c, axis) PROVE Entries'
    BY <1>3 DEF Says, Entries, Uncounted
<1>4. ASSUME NEW s \in counter, WindowEnds(s) PROVE Entries'
    <2> DEFINE n == [ref |-> s.ref, recent |-> FALSE]
    <2>1. counter' = (counter \ {s}) \cup {n} /\ n.ref = s.ref /\ member' = member
        BY <1>4, WindowEffect
    <2> HIDE DEF n
    <2>2. \A a, b \in counter' : a.ref = b.ref => a = b
        BY <2>1 DEF Entries
    <2>3. \A m \in Members : Uncounted(m)' <=> Uncounted(m)
        BY <2>1 DEF Uncounted
    <2> QED
        BY <2>1, <2>2, <2>3 DEF Entries
<1>5. CASE UNCHANGED vars
    BY <1>5 DEF Entries, Uncounted, vars
<1> QED
    BY <1>1, <1>2, <1>3, <1>4, <1>5 DEF Next, Merchant

\* A claim stays a claim, and stays alone.
LEMMA KeepsClaimed ==
    ASSUME TypeOK, Held, Frozen, Claimed, [Next]_vars
    PROVE  Claimed'
<1>m. \A m \in Members : member[m] \in [state : {"absent", "pending", "sent", "skipped"}, at : Nat]
    BY DEF TypeOK
<1>1. ASSUME NEW t \in Tabs, Merchant(t) PROVE Claimed'
    <2>1. CASE UNCHANGED <<member, counter, execution>>
        BY <2>1 DEF Claimed, Handles, Uncounted
    <2>2. CASE execution' = execution /\ \A e \in Executions : execution[e].pc = "idle"
        BY <2>2 DEF Claimed, Handles, Busy
    <2> QED
        BY <1>1, <2>1, <2>2, MerchantEffect
<1>2. ASSUME NEW e \in Executions, Executing(e) PROVE Claimed'
    <2>u. \A f \in Executions : f # e => execution'[f] = execution[f]
        BY <1>2, Course
    <2>t. \A f \in Executions, m \in Members :
              execution[f].pc = "record" /\ execution[f].who = {m} => Taken(m)
        BY DEF Taken, At
    \* Whose member is settled by this step, or counted.
    <2>1. ASSUME NEW f \in Executions, NEW x \in Members, Handles(f, x)
          PROVE  /\ member'[x].state = "pending" => (\A s \in counter' : s.ref # x)
                 /\ f # e /\ execution[f].pc = "record" => member'[x].state = "pending"
        <3>0. /\ member[x].state = "pending" => Uncounted(x)
              /\ execution[f].pc = "record" => member[x].state = "pending"
            BY <2>1 DEF Claimed
        <3>1. CASE UNCHANGED <<member, counter>>
            BY <3>0, <3>1 DEF Uncounted
        <3>2. ASSUME NEW m \in Members, NEW state \in {"sent", "skipped"}, Settles(e, m, state)
              PROVE  /\ member'[x].state = "pending" => (\A s \in counter' : s.ref # x)
                     /\ f # e /\ execution[f].pc = "record" => member'[x].state = "pending"
            <4>1. /\ member[m].state = "pending" /\ member' = [member EXCEPT ![m].state = state]
                  /\ member'[m].state = state
                  /\ x # m => member'[x] = member[x]
                BY <3>2, <1>m DEF Settles, TypeOK
            <4>2. counter' = counter \/ counter' = counter \cup {[ref |-> m, recent |-> TRUE]}
                BY <3>2 DEF Settles
            <4>3. CASE x # m
                BY <3>0, <4>1, <4>2, <4>3 DEF Uncounted
            <4>4. CASE x = m
                <5>1. ~(f # e /\ execution[f].pc = "record")
                    <6>1. ASSUME f # e, execution[f].pc = "record" PROVE FALSE
                        <7>1. Taken(m)
                            BY <2>1, <2>t, <4>4, <6>1 DEF Handles
                        <7>2. execution[e].pc = "record" /\ Handles(e, m)
                            BY <3>2, <7>1 DEF Settles
                        <7> QED
                            BY <2>1, <4>4, <6>1, <7>2 DEF Handles, Claimed
                    <6> QED
                        BY <6>1
                <5> QED
                    BY <4>1, <4>4, <5>1
            <4> QED
                BY <4>3, <4>4
        <3> QED
            BY <1>2, <3>1, <3>2, Effect
    <2>2. ASSUME NEW x \in Members, execution'[e].pc \in Busy, execution'[e].who = {x}
          PROVE  /\ member'[x].state = "pending" => (\A s \in counter' : s.ref # x)
                 /\ execution'[e].pc = "record" => /\ member'[x].state = "pending"
                                                   /\ ClaimMember(e) /\ Handles(e, x)
        <3>1. CASE Look(e)
            <4>1. counter' = counter
                BY <3>1 DEF Look
            <4> QED
                BY <3>1, <4>1, <2>2, <1>2, Course DEF Uncounted, Busy
        <3>2. CASE Read(e)
            BY <3>2, <2>1, <2>2, <1>2, Course DEF Handles, Busy
        <3>3. CASE Count(e) \/ ClaimMember(e) \/ Record(e) \/ Skip(e)
            <4>1. Handles(e, x) /\ (execution'[e].pc = "record" => ClaimMember(e))
                BY <3>3, <2>2, <1>2, Course DEF Handles, Busy
            <4>2. ASSUME execution'[e].pc = "record" PROVE member'[x].state = "pending"
                <5>1. ClaimMember(e) /\ Who(e) = x
                    BY <4>1, <4>2, WhoIs DEF Handles
                <5>2. ~Next1(e)
                    BY <4>2, Next1Shape, SlotsTyped DEF Becomes, Slot
                <5> QED
                    BY <5>1, <5>2 DEF ClaimMember, Pending
            <4> QED
                BY <4>1, <4>2, <2>1
        <3>4. CASE Start(e) \/ List(e) \/ Finish(e) \/ Stops(e)
            BY <3>4, <2>2, <1>2, Course DEF Busy
        <3> QED
            BY <1>2, <3>1, <3>2, <3>3, <3>4 DEF Executing
    <2>3. ASSUME NEW f \in Executions, f # e, execution'[f].pc = "record",
                 execution'[e].pc = "record", execution'[f].who = execution'[e].who
          PROVE  FALSE
        <3>1. execution[f].pc = "record" /\ execution'[f] = execution[f]
            BY <2>3, <2>u
        <3>2. PICK x \in Members : execution[f].who = {x}
            BY <3>1 DEF Held, Busy
        <3>3. ClaimMember(e) /\ Handles(e, x)
            BY <2>2, <2>3, <3>1, <3>2 DEF Busy
        <3>4. ~Taken(x)
            BY <3>3, WhoIs DEF ClaimMember, Handles
        <3> QED
            BY <2>t, <3>1, <3>2, <3>4
    <2>4. \A f \in Executions, m \in Members : Handles(f, m)' =>
              /\ member'[m].state = "pending" => Uncounted(m)'
              /\ execution'[f].pc = "record" => member'[m].state = "pending"
        BY <2>u, <2>1, <2>2 DEF Handles, Uncounted
    <2>5. \A f, g \in Executions :
              /\ execution'[f].pc = "record" /\ execution'[g].pc = "record"
              /\ execution'[f].who = execution'[g].who
              => f = g
        BY <2>u, <2>3 DEF Claimed
    <2> QED
        BY <2>4, <2>5 DEF Claimed
<1>3. ASSUME NEW c \in Contacts, NEW axis \in Axes, Says(c, axis) PROVE Claimed'
    BY <1>3, WordEffect DEF Claimed, Handles, Uncounted
<1>4. ASSUME NEW s \in counter, WindowEnds(s) PROVE Claimed'
    BY <1>4, WindowEffect DEF Claimed, Handles, Uncounted
<1>5. CASE UNCHANGED vars
    BY <1>5 DEF Claimed, Handles, Uncounted, vars
<1> QED
    BY <1>1, <1>2, <1>3, <1>4, <1>5 DEF Next, Merchant

\* What was judged so far stays judged by every word that lasted.
LEMMA KeepsJudged ==
    ASSUME TypeOK, Held, Frozen, Claimed, Judged, [Next]_vars
    PROVE  Judged'
<1> USE BroadcastAssumption
<1> DEFINE Fair(slot, refused) ==
        /\ slot.lasting \subseteq refused
        /\ slot.pc \in {"read", "count"} =>
              /\ slot.axis \in 1..(Len(AxisOrder) + 1)
              /\ slot.passed => \A i \in 1..Len(AxisOrder) :
                     i < slot.axis => AxisOrder[i] \notin slot.lasting
        /\ slot.pc = "read" => slot.axis <= Len(AxisOrder)
        /\ slot.pc = "count" => slot.axis = Len(AxisOrder) + 1
        /\ slot.pc \in {"claim", "record"} => slot.lasting = {}
<1>f. Judged <=> \A e \in Executions, m \in Members :
                     Handles(e, m) => Fair(execution[e], refusals[ContactOf(m)])
    BY DEF Judged
<1>g. Judged' <=> \A e \in Executions, m \in Members :
                     Handles(e, m)' => Fair(execution'[e], refusals'[ContactOf(m)])
    BY DEF Judged
<1>1. ASSUME NEW t \in Tabs, Merchant(t) PROVE Judged'
    <2>1. execution' = execution /\ refusals' = refusals
        BY <1>1, MerchantEffect DEF world
    <2> QED
        BY <2>1 DEF Judged, Handles
<1>2. ASSUME NEW e \in Executions, Executing(e) PROVE Judged'
    <2>u. refusals' = refusals /\ \A f \in Executions : f # e => execution'[f] = execution[f]
        BY <1>2, Course, Effect DEF world
    <2>1. ASSUME NEW m \in Members, execution'[e].pc \in Busy, execution'[e].who = {m}
          PROVE  Fair(execution'[e], refusals[ContactOf(m)])
        <3>1. CASE Look(e)
            <4>1. /\ execution'[e].pc = "read" /\ execution'[e].axis = 1
                  /\ execution'[e].lasting = refusals[ContactOf(m)]
                BY <3>1, <2>1, <1>2, Course DEF Busy
            <4> QED
                BY <4>1
        <3>2. CASE Read(e)
            <4>1. execution[e].pc = "read" /\ Handles(e, m) /\ Who(e) = m
                <5>1. execution[e].pc = "read" /\ execution'[e].who = execution[e].who
                    BY <3>2, <1>2, Course
                <5>2. Handles(e, m)
                    BY <5>1, <2>1 DEF Handles, Busy
                <5> QED
                    BY <5>1, <5>2, WhoIs DEF Handles
            <4>2. Fair(execution[e], refusals[ContactOf(m)])
                BY <4>1, <1>f
            <4>3. /\ execution'[e].lasting = execution[e].lasting
                  /\ execution'[e].axis = execution[e].axis + 1
                  /\ execution'[e].passed = Passing(e)
                  /\ execution[e].axis = Len(AxisOrder) => execution'[e].pc = "count"
                  /\ execution[e].axis # Len(AxisOrder) => execution'[e].pc = "read"
                BY <3>2, <1>2, Course, ReadFields
            <4>4. execution[e].axis \in 1..Len(AxisOrder)
                BY <4>1, <4>2
            <4>5. ASSUME Passing(e), NEW i \in 1..Len(AxisOrder), i < execution[e].axis + 1
                  PROVE  AxisOrder[i] \notin execution[e].lasting
                <5>1. execution[e].passed
                      /\ AxisOrder[execution[e].axis] \notin refusals[ContactOf(m)]
                    BY <4>1, <4>5 DEF Passing
                <5>2. i < execution[e].axis \/ i = execution[e].axis
                    BY <4>4, <4>5
                <5> QED
                    BY <5>1, <5>2, <4>1, <4>2
            <4> QED
                BY <4>2, <4>3, <4>4, <4>5
        <3>3. CASE Count(e) \/ ClaimMember(e) \/ Record(e) \/ Skip(e)
            <4>1. /\ execution'[e].lasting = execution[e].lasting /\ Handles(e, m)
                  /\ execution'[e].pc \in {"claim", "skip", "record", "capped"}
                  /\ execution'[e].pc = "claim" => Count(e)
                  /\ execution'[e].pc = "record" => ClaimMember(e)
                BY <3>3, <2>1, <1>2, Course DEF Handles, Busy
            <4>2. Fair(execution[e], refusals[ContactOf(m)])
                BY <4>1, <1>f
            <4>3. ClaimMember(e) => execution[e].lasting = {}
                BY <4>2 DEF ClaimMember, At
            <4>4. ASSUME Count(e), execution'[e].pc = "claim" PROVE execution[e].lasting = {}
                <5>1. execution[e].pc = "count" /\ execution[e].passed
                    BY <4>4, GoesShape, SlotsTyped DEF Count, At, Places, Becomes, Slot
                <5>2. \A i \in DOMAIN AxisOrder : AxisOrder[i] \notin execution[e].lasting
                    BY <4>2, <5>1
                <5>3. execution[e].lasting \subseteq Axes
                    BY SlotsTyped DEF Slot
                <5> QED
                    BY <5>2, <5>3 DEF Axes
            <4> QED
                BY <4>1, <4>2, <4>3, <4>4
        <3>4. CASE Start(e) \/ List(e) \/ Finish(e) \/ Stops(e)
            BY <3>4, <2>1, <1>2, Course DEF Busy
        <3> QED
            BY <1>2, <3>1, <3>2, <3>3, <3>4 DEF Executing
    <2>2. ASSUME NEW f \in Executions, NEW m \in Members, Handles(f, m)'
          PROVE  Fair(execution'[f], refusals'[ContactOf(m)])
        <3> HIDE DEF Fair
        <3>1. CASE f = e
            BY <2>u, <2>1, <2>2, <3>1 DEF Handles
        <3>2. CASE f # e
            BY <2>u, <2>2, <3>2, <1>f DEF Handles
        <3> QED
            BY <3>1, <3>2
    <2> HIDE DEF Fair
    <2> QED
        BY <2>2, <1>g
<1>3. ASSUME NEW c \in Contacts, NEW axis \in Axes, Says(c, axis) PROVE Judged'
    <2>1. ASSUME NEW e \in Executions, NEW m \in Members, Handles(e, m)'
          PROVE  Fair(execution'[e], refusals'[ContactOf(m)])
        <3>1. /\ execution'[e].pc = execution[e].pc /\ execution'[e].axis = execution[e].axis
              /\ execution'[e].passed = execution[e].passed
              /\ execution'[e].lasting \subseteq execution[e].lasting
              /\ Handles(e, m)
            BY <1>3, <2>1, WordEffect DEF Handles
        <3>2. Fair(execution[e], refusals[ContactOf(m)])
            BY <3>1, <1>f
        <3>3. execution'[e].lasting \subseteq refusals'[ContactOf(m)]
            <4>1. ContactOf(m) \in Contacts
                BY DEF Contacts
            <4> QED
                BY <1>3, <3>1, <3>2, <4>1, WordEffect
        <3> QED
            BY <3>1, <3>2, <3>3
    <2> HIDE DEF Fair
    <2> QED
        BY <2>1, <1>g
<1>4. ASSUME NEW s \in counter, WindowEnds(s) PROVE Judged'
    BY <1>4, WindowEffect DEF Judged, Handles
<1>5. CASE UNCHANGED vars
    BY <1>5 DEF Judged, Handles, vars, world
<1> QED
    BY <1>1, <1>2, <1>3, <1>4, <1>5 DEF Next, Merchant

\* The counter stays finite and the cap unbroken.
LEMMA KeepsCap ==
    ASSUME TypeOK, Held, Frozen, Claimed, IsFiniteSet(counter), CapHolds, [Next]_vars
    PROVE  IsFiniteSet(counter)' /\ CapHolds'
<1> USE BroadcastAssumption
<1> DEFINE Of(set, c) == {s \in set : s.recent /\ ContactOf(s.ref) = c}
<1>0. \A c \in Contacts : Sends(c) = Cardinality(Of(counter, c)) /\ Sends(c)' = Cardinality(Of(counter', c))
    BY DEF Sends
<1>n. \A c : IsFiniteSet(Of(counter, c)) /\ Cardinality(Of(counter, c)) \in Nat
    BY FS_Subset, FS_CardinalityType
<1>1. CASE counter' = counter
    BY <1>1 DEF CapHolds, Sends
<1>2. ASSUME NEW m \in Members, counter' = counter \cup {[ref |-> m, recent |-> TRUE]},
             Sends(ContactOf(m)) < MaxProactiveSends
      PROVE  IsFiniteSet(counter)' /\ CapHolds'
    <2> DEFINE n == [ref |-> m, recent |-> TRUE]
    <2>1. counter' = counter \cup {n} /\ n.ref = m /\ n.recent
        BY <1>2
    <2> HIDE DEF n
    <2>2. IsFiniteSet(counter')
        BY <2>1, FS_AddElement
    <2>3. ASSUME NEW c \in Contacts PROVE Sends(c)' <= MaxProactiveSends
        <3>1. CASE c = ContactOf(m)
            <4>1. Of(counter', c) = Of(counter, c) \cup {n}
                BY <2>1, <3>1
            <4> HIDE DEF Of
            <4> DEFINE S == Of(counter, c)
            <4>2. IsFiniteSet(S) /\ Cardinality(S) \in Nat /\ Of(counter', c) = S \cup {n}
                BY <1>n, <4>1
            <4>3. /\ Cardinality(Of(counter', c)) <= Cardinality(S) + 1
                  /\ Cardinality(Of(counter', c)) \in Nat
                <5> HIDE DEF S
                <5>1. Cardinality(S \cup {n}) = IF n \in S THEN Cardinality(S) ELSE Cardinality(S) + 1
                    BY <4>2, FS_AddElement
                <5> QED
                    BY <4>2, <5>1
            <4>4. Sends(c)' = Cardinality(Of(counter', c))
                BY <1>0
            <4>5. Cardinality(Of(counter, c)) < MaxProactiveSends
                BY <1>0, <1>2, <3>1
            <4>6. MaxProactiveSends \in Nat
                OBVIOUS
            <4> QED
                BY <4>2, <4>3, <4>4, <4>5, <4>6
        <3>2. CASE c # ContactOf(m)
            <4>1. Of(counter', c) = Of(counter, c)
                BY <2>1, <3>2
            <4> HIDE DEF Of
            <4> QED
                BY <4>1, <1>0 DEF CapHolds
        <3> QED
            BY <3>1, <3>2
    <2> QED
        BY <2>2, <2>3 DEF CapHolds
<1>3. ASSUME NEW s \in counter, WindowEnds(s) PROVE IsFiniteSet(counter)' /\ CapHolds'
    <2> DEFINE n == [ref |-> s.ref, recent |-> FALSE]
    <2>1. counter' = (counter \ {s}) \cup {n} /\ ~n.recent
        BY <1>3, WindowEffect
    <2> HIDE DEF n
    <2>2. IsFiniteSet(counter')
        BY <2>1, FS_AddElement, FS_RemoveElement
    <2>3. \A c : Of(counter', c) \subseteq Of(counter, c)
        BY <2>1
    <2>4. ASSUME NEW c \in Contacts PROVE Sends(c)' <= MaxProactiveSends
        <3> HIDE DEF Of
        <3>1. Cardinality(Of(counter', c)) <= Cardinality(Of(counter, c))
              /\ Cardinality(Of(counter', c)) \in Nat
            BY <1>n, <2>3, FS_Subset, FS_CardinalityType
        <3> QED
            BY <1>0, <1>n, <3>1 DEF CapHolds
    <2> QED
        BY <2>2, <2>4 DEF CapHolds
<1>4. ASSUME NEW e \in Executions, Executing(e) PROVE IsFiniteSet(counter)' /\ CapHolds'
    <2>1. \/ counter' = counter
          \/ \E m \in Members : /\ counter' = counter \cup {[ref |-> m, recent |-> TRUE]}
                                /\ Sends(ContactOf(m)) < MaxProactiveSends
        BY <1>4, Effect DEF Settles
    <2> QED
        BY <1>1, <1>2, <2>1
<1>5. ASSUME NEW t \in Tabs, Merchant(t) PROVE counter' = counter
    BY <1>5, MerchantEffect
<1> QED
    BY <1>1, <1>3, <1>4, <1>5 DEF Next, Merchant, Says, vars

\* A run is only completed when nobody is pending, and stays so.
LEMMA KeepsCompleted ==
    ASSUME TypeOK, Held, Frozen, Claimed, Ahead, CompletedIsDone, [Next]_vars
    PROVE  CompletedIsDone'
<1>1. ASSUME NEW t \in Tabs, Merchant(t) PROVE CompletedIsDone'
    BY <1>1, MerchantEffect DEF CompletedIsDone, run
<1>2. ASSUME NEW e \in Executions, Executing(e), status' = "completed", NEW m \in Members,
             member'[m].state = "pending"
      PROVE  FALSE
    <2>1. member[m].state = "pending"
        BY <1>2, MembersMoveOn
    <2>2. status # "completed"
        BY <2>1 DEF CompletedIsDone
    <2>3. Finish(e)
        BY <1>2, <2>2, Course
    <2>4. execution[e].pc = "next" /\ execution[e].todo = {} /\ execution[e].who = {}
        BY <2>3 DEF Finish, At, Held, Busy
    <2> QED
        BY <2>1, <2>4 DEF Ahead
<1>3. ASSUME NEW c \in Contacts, NEW axis \in Axes, Says(c, axis) PROVE CompletedIsDone'
    BY <1>3 DEF Says, CompletedIsDone, run
<1>4. ASSUME NEW s \in counter, WindowEnds(s) PROVE CompletedIsDone'
    BY <1>4 DEF WindowEnds, CompletedIsDone, run
<1>5. CASE UNCHANGED vars
    BY <1>5 DEF CompletedIsDone, vars, run
<1>6. ASSUME NEW e \in Executions, Executing(e) PROVE CompletedIsDone'
    BY <1>2, <1>6 DEF CompletedIsDone
<1> QED
    BY <1>1, <1>3, <1>4, <1>5, <1>6 DEF Next, Merchant

\* What is confirmed stays what was seen.
LEMMA KeepsSeen ==
    ASSUME TypeOK, Held, Frozen, Claimed, Shown, ConfirmedWasSeen, [Next]_vars
    PROVE  ConfirmedWasSeen'
<1>1. ASSUME NEW t \in Tabs, Merchant(t) PROVE ConfirmedWasSeen'
    <2>1. CASE ConfirmBroadcastRun(t)
        BY <2>1 DEF ConfirmBroadcastRun, Current, Shown, ConfirmedWasSeen, Audience
    <2>2. CASE ~ConfirmBroadcastRun(t)
        BY <1>1, <2>2 DEF Merchant, ViewRun, ViewMembers, FreezeAudience, CancelBroadcastRun, Writes,
                          ConfirmedWasSeen, Audience, run
    <2> QED
        BY <2>1, <2>2
<1>2. ASSUME NEW e \in Executions, Executing(e) PROVE ConfirmedWasSeen'
    <2>1. Audience' = Audience /\ confirmed' = confirmed
        BY <1>2, MembersMoveOn, Effect
    <2>2. Start(e) \/ Finish(e) =>
              status' = status \/ status \in {"confirmed", "executing", "completed"}
        BY DEF Start, Finish
    <2>3. status' = status \/ status \in {"confirmed", "executing", "completed"}
        BY <1>2, <2>2, Course
    <2> QED
        BY <2>1, <2>3 DEF ConfirmedWasSeen
<1>3. ASSUME NEW c \in Contacts, NEW axis \in Axes, Says(c, axis) PROVE ConfirmedWasSeen'
    BY <1>3 DEF Says, ConfirmedWasSeen, Audience, run
<1>4. ASSUME NEW s \in counter, WindowEnds(s) PROVE ConfirmedWasSeen'
    BY <1>4 DEF WindowEnds, ConfirmedWasSeen, Audience, run
<1>5. CASE UNCHANGED vars
    BY <1>5 DEF ConfirmedWasSeen, Audience, vars, run
<1> QED
    BY <1>1, <1>2, <1>3, <1>4, <1>5 DEF Next, Merchant

\* A new draft satisfies the invariant, and so does a run found executing.
LEMMA InitInv == Init => Inv
<1> SUFFICES ASSUME Init PROVE Inv
    OBVIOUS
<1> USE BroadcastAssumption
<1>1. \A e \in Executions : execution[e] = Idle
    BY DEF Init
<1>2. \A e \in Executions : execution[e].pc = "idle" /\ execution[e].who = {} /\ execution[e].at = 0
    BY <1>1 DEF Idle
<1>3. \A m \in Members : member[m] = Absent \/ member[m] = [state |-> "pending", at |-> 1]
    BY DEF Init, Fresh, LeftBehind
<1>4. counter = {} \/ \E m \in Members : counter = {[ref |-> m, recent |-> TRUE]}
    BY DEF Init, Fresh, LeftBehind
<1>5. TypeOK
    <2>1. Idle \in Slot
        BY DEF Idle, Slot, Places
    <2>2. execution \in [Executions -> Slot]
        BY <2>1 DEF Init
    <2>3. member \in [Members -> [state : {"absent", "pending", "sent", "skipped"}, at : Nat]]
        BY DEF Init, Fresh, LeftBehind, Absent
    <2>4. counter \subseteq [ref : Members, recent : BOOLEAN]
        <3>1. \A m \in Members : [ref |-> m, recent |-> TRUE] \in [ref : Members, recent : BOOLEAN]
            OBVIOUS
        <3> QED
            BY <1>4, <3>1
    <2>5. tab \in [Tabs -> [revision : Nat, audience : SUBSET Members, shown : BOOLEAN]]
        BY DEF Init, Audience
    <2>6. /\ status \in {"draft", "executing"} /\ revision = 0 /\ audienceRevision \in Nat
          /\ confirmed \subseteq Members /\ refusals \in [Contacts -> SUBSET Axes] /\ words = 0
        BY DEF Init, Fresh, LeftBehind
    <2> QED
        BY <2>2, <2>3, <2>4, <2>5, <2>6 DEF TypeOK, Slot
<1>6. Held /\ Ahead /\ Judged /\ Claimed
    BY <1>2 DEF Held, Ahead, Judged, Claimed, Handles, Busy
<1>7. Frozen /\ CompletedIsDone /\ ConfirmedWasSeen
    BY <1>3 DEF Init, Fresh, LeftBehind, Absent, Frozen, CompletedIsDone, ConfirmedWasSeen, Audience
<1>8. Shown
    BY DEF Init, Shown, Audience
<1>9. Entries
    <2>1. CASE Fresh
        BY <2>1 DEF Fresh, Entries, Uncounted, Absent
    <2>2. CASE LeftBehind
        <3>1. PICK m \in Members : counter = {[ref |-> m, recent |-> TRUE]}
            BY <2>2 DEF LeftBehind
        <3>2. \A x \in Members : member[x].state = "pending"
            BY <2>2 DEF LeftBehind
        <3>3. \A s, t \in counter : s = t
            BY <3>1
        <3> QED
            BY <3>2, <3>3 DEF Entries
    <2> QED
        BY <2>1, <2>2 DEF Init
<1>10. IsFiniteSet(counter)
    <2>1. counter = {} \/ \E x : counter = {x}
        BY <1>4
    <2>2. CASE counter = {}
        BY <2>2, FS_EmptySet
    <2>3. ASSUME NEW x, counter = {x} PROVE IsFiniteSet(counter)
        <3>1. IsFiniteSet({x})
            BY FS_Singleton
        <3> QED
            BY <2>3, <3>1
    <2> QED
        BY <2>1, <2>2, <2>3
<1>11. ASSUME NEW c \in Contacts PROVE Sends(c) <= MaxProactiveSends
    <2> DEFINE S == {s \in counter : s.recent /\ ContactOf(s.ref) = c}
    <2>1. S = {} \/ \E x : S = {x}
        <3>1. S \subseteq counter
            OBVIOUS
        <3>2. counter = {} \/ \E x : counter = {x}
            BY <1>4
        <3> HIDE DEF S
        <3> QED
            BY <3>1, <3>2
    <2>2. Sends(c) = Cardinality(S)
        BY DEF Sends
    <2> HIDE DEF S
    <2>3. Cardinality(S) = 0 \/ Cardinality(S) = 1
        BY <2>1, FS_EmptySet, FS_Singleton
    <2> QED
        BY <2>2, <2>3
<1> QED
    BY <1>5, <1>6, <1>7, <1>8, <1>9, <1>10, <1>11 DEF Inv, CapHolds

\* Every step keeps it.
LEMMA NextInv == Inv /\ [Next]_vars => Inv'
BY KeepsTypes, KeepsHeld, KeepsFrozen, KeepsClaimed, KeepsEntries, KeepsAhead, KeepsShown,
   KeepsJudged, KeepsCap, KeepsCompleted, KeepsSeen DEF Inv

LEMMA InvHolds == Spec => []Inv
BY InitInv, NextInv, PTL DEF Spec

-----------------------------------------------------------------------------
\* The state of a broadcast is well typed, whoever acts on it.
THEOREM TypeCorrect == Spec => []TypeOK
<1>1. Inv => TypeOK
    BY DEF Inv
<1> QED
    BY <1>1, InvHolds, PTL

\* No contact gets more than MaxProactiveSends in a window, whatever identities
\* it has and however many requests execute the run at once.
THEOREM NobodyOverTheCap == Spec => []CapHolds
<1>1. Inv => CapHolds
    BY DEF Inv
<1> QED
    BY <1>1, InvHolds, PTL

\* Every member shown as sent was counted exactly once, no skipped one was.
THEOREM SendsAreCounted == Spec => []SentIsCounted
<1>1. ASSUME Inv PROVE SentIsCounted
    <2>1. ASSUME NEW m \in Members
          PROVE  LET counted == {s \in counter : s.ref = m} IN
                 /\ member[m].state = "sent" => Cardinality(counted) = 1
                 /\ member[m].state \in {"absent", "skipped"} => counted = {}
        <3> DEFINE counted == {s \in counter : s.ref = m}
        <3>1. member[m].state = "sent" => \E s : counted = {s}
            BY <1>1 DEF Inv, Entries, Uncounted
        <3>2. member[m].state \in {"absent", "skipped"} => counted = {}
            BY <1>1 DEF Inv, Entries, Uncounted
        <3> HIDE DEF counted
        <3>3. member[m].state = "sent" => Cardinality(counted) = 1
            BY <3>1, FS_Singleton
        <3> QED
            BY <3>2, <3>3 DEF counted
    <2> QED
        BY <2>1 DEF SentIsCounted
<1> QED
    BY <1>1, InvHolds, PTL

\* A completed run left nobody pending, whichever executions stopped midway.
THEOREM NobodyLeftPending == Spec => []CompletedIsDone
<1>1. Inv => CompletedIsDone
    BY DEF Inv
<1> QED
    BY <1>1, InvHolds, PTL

\* The audience executed is the one the merchant was shown on confirming.
THEOREM SeenBeforeConfirmed == Spec => []ConfirmedWasSeen
<1>1. Inv => ConfirmedWasSeen
    BY DEF Inv
<1> QED
    BY <1>1, InvHolds, PTL

\* Nobody is sent anything over a refusal that lasted through their turn.
THEOREM StopsAreHeeded == Spec => StopBinds
<1>1. ASSUME Inv, NEW e \in Executions, SendsNow(e) PROVE execution[e].lasting = {}
    <2>1. Held /\ Judged /\ execution[e].pc = "record"
        BY <1>1 DEF Inv, SendsNow, At
    <2>2. PICK m \in Members : Handles(e, m)
        BY <2>1, InHand DEF Busy
    <2> QED
        BY <2>1, <2>2 DEF Judged
<1>2. Inv /\ [Next]_vars =>
          [\A e \in Executions : SendsNow(e) => execution[e].lasting = {}]_vars
    BY <1>1
<1> QED
    BY <1>2, InvHolds, PTL DEF Spec, StopBinds
=============================================================================
