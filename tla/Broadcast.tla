------------------------------ MODULE Broadcast ------------------------------
(***************************************************************************)
(* One broadcast run: the merchant freezes an audience, confirms it and    *)
(* executes it (customer-broadcast-service.ts), several executions at once *)
(* where a second request resumes the first.  Sending is simulated in the  *)
(* code too: a send is the member's state and a row of the frequency       *)
(* counter, written together.                                              *)
(*                                                                         *)
(* A transaction runs under READ COMMITTED: every statement of it sees     *)
(* what is committed by then.  A member that is claimed but not committed  *)
(* is `taken`, a row lock others wait for.  Customers withdraw and return  *)
(* while all this runs, a fixed number of times (MaxWords).                *)
(***************************************************************************)
EXTENDS Naturals, Sequences, FiniteSets

CONSTANTS
    Executions,        \* requests to execute the run
    Tabs,              \* browser tabs in which it was looked at
    Members,           \* identities that can be in the audience
    ContactOf(_),      \* whose identity it is
    AxisOrder,         \* the refusals the evaluator reads, one after another
    MaxProactiveSends, \* sends one contact may get in a window
    MaxRevision,       \* bound: writes of the run
    MaxWords           \* bound: changes of a refusal, and windows that end

ASSUME BroadcastAssumption ==
    /\ MaxProactiveSends \in Nat \ {0}
    /\ Len(AxisOrder) \in Nat \ {0} /\ DOMAIN AxisOrder = 1..Len(AxisOrder)
    /\ MaxRevision \in Nat /\ MaxWords \in Nat

VARIABLES
    status, revision, audienceRevision,  \* BroadcastRun
    member,        \* its audience: state and revision it was frozen at
    confirmed,     \* the audience the merchant saw on confirming (history)
    tab,           \* what each tab shows
    counter,       \* ContactSendFrequencyEvent: who was sent what, in the window or before
    refusals,      \* the axes that refuse each contact right now
    words,         \* how often they changed
    execution      \* what each request is in the middle of

run == <<status, revision, audienceRevision>>
world == <<refusals, words>>
vars == <<run, member, confirmed, tab, counter, world, execution>>

Contacts == {ContactOf(m) : m \in Members}
Axes == {AxisOrder[i] : i \in DOMAIN AxisOrder}

Absent == [state |-> "absent", at |-> 0]
Audience == {m \in Members : member[m].state # "absent"}

\* at: the audience revision read; todo: pending members listed; who: the one
\* being finalized; axis: the next to be read; passed: none has refused so far;
\* lasting: the axes that refused ever since the member was looked at
\* (history).
Idle == [pc |-> "idle", at |-> 0, todo |-> {}, who |-> {}, axis |-> 1,
         passed |-> TRUE, lasting |-> {}]

Places == {"idle", "list", "next", "read", "count", "claim", "record", "skip", "capped"}

TypeOK ==
    /\ status \in {"draft", "audience_frozen", "confirmed", "executing", "completed", "cancelled"}
    /\ revision \in Nat /\ audienceRevision \in Nat
    /\ member \in [Members -> [state : {"absent", "pending", "sent", "skipped"}, at : Nat]]
    /\ confirmed \subseteq Members
    /\ tab \in [Tabs -> [revision : Nat, audience : SUBSET Members, shown : BOOLEAN]]
    /\ counter \subseteq [ref : Members, recent : BOOLEAN]
    /\ refusals \in [Contacts -> SUBSET Axes] /\ words \in 0..MaxWords
    /\ execution \in [Executions ->
           [pc : Places, at : Nat, todo : SUBSET Members, who : SUBSET Members,
            axis : Nat, passed : BOOLEAN, lasting : SUBSET Axes]]

-----------------------------------------------------------------------------
\* The merchant.  Every write of the run carries the revision its tab shows.

\* getBroadcastRun reads the run and then its members, in two statements.
\* Looking on once it is executed would change nothing.
ViewRun(t) ==
    /\ status \in {"draft", "audience_frozen", "confirmed"}
    /\ tab[t].shown /\ [tab[t] EXCEPT !.audience = Audience, !.revision = revision] # tab[t]
    /\ tab' = [tab EXCEPT ![t] = [revision |-> revision, audience |-> {}, shown |-> FALSE]]
    /\ UNCHANGED <<run, member, confirmed, counter, world, execution>>

ViewMembers(t) ==
    /\ ~tab[t].shown
    /\ tab' = [tab EXCEPT ![t].audience = Audience, ![t].shown = TRUE]
    /\ UNCHANGED <<run, member, confirmed, counter, world, execution>>

\* What this tab shows is still the run's revision.
Current(t) == tab[t].shown /\ tab[t].revision = revision

Writes(new) ==
    /\ revision < MaxRevision
    /\ status' = new /\ revision' = revision + 1

\* Whoever the segment selects by now; those of an older freeze are removed.
FreezeAudience(t) ==
    /\ status \in {"draft", "audience_frozen"} /\ Current(t)
    /\ Writes("audience_frozen")
    /\ audienceRevision' = audienceRevision + 1
    /\ \E chosen \in SUBSET Members :
           member' = [m \in Members |->
               IF m \in chosen THEN [state |-> "pending", at |-> audienceRevision + 1] ELSE Absent]
    /\ UNCHANGED <<confirmed, tab, counter, world, execution>>

\* Mutant: whatever is frozen by now is confirmed.
ConfirmLatest(t) ==
    /\ status = "audience_frozen"
    /\ Writes("confirmed")
    /\ confirmed' = tab[t].audience
    /\ UNCHANGED <<audienceRevision, member, tab, counter, world, execution>>

ConfirmBroadcastRun(t) ==
    /\ status = "audience_frozen" /\ Current(t)
    /\ Writes("confirmed")
    /\ confirmed' = tab[t].audience
    /\ UNCHANGED <<audienceRevision, member, tab, counter, world, execution>>

CancelBroadcastRun(t) ==
    /\ status \in {"draft", "audience_frozen", "confirmed"} /\ Current(t)
    /\ Writes("cancelled")
    /\ UNCHANGED <<audienceRevision, member, confirmed, tab, counter, world, execution>>

-----------------------------------------------------------------------------
\* executeBroadcastRun.

At(e, pc) == execution[e].pc = pc
Goes(e, pc) == execution' = [execution EXCEPT ![e].pc = pc]
Next1(e) == execution' = [execution EXCEPT ![e].pc = "next", ![e].who = {}]

\* The member this request is finalizing.
Who(e) == CHOOSE m \in execution[e].who : TRUE

\* A row claimed in a transaction that has not ended.
Taken(m) == \E e \in Executions : At(e, "record") /\ execution[e].who = {m}

Pending(e, m) == member[m] = [state |-> "pending", at |-> execution[e].at]

\* Phase 1: claimed, or resumed by a request that knows the current revision.
Start(e) ==
    /\ execution[e] = Idle
    /\ \/ status = "confirmed" /\ Writes("executing")
       \/ status = "executing" /\ UNCHANGED <<status, revision>>
    /\ execution' = [execution EXCEPT ![e].pc = "list", ![e].at = audienceRevision]
    /\ UNCHANGED <<audienceRevision, member, confirmed, tab, counter, world>>

\* Phase 2: the pending members of the audience the run names.
List(e) ==
    /\ At(e, "list")
    /\ execution' = [execution EXCEPT ![e].pc = "next",
                         ![e].todo = {m \in Members : Pending(e, m)}]
    /\ UNCHANGED <<run, member, confirmed, tab, counter, world>>

\* A member's transaction begins: others may have finalized it; a row of the
\* counter from before states were written with it is repaired.
Look(e) == \E m \in execution[e].todo :
    /\ At(e, "next")
    /\ LET c == ContactOf(m)
           taken == [execution[e] EXCEPT !.todo = @ \ {m}]
       IN
       \/ /\ ~Pending(e, m)
          /\ execution' = [execution EXCEPT ![e] = taken]
          /\ UNCHANGED member
       \/ /\ Pending(e, m) /\ \E s \in counter : s.ref = m
          /\ ~Taken(m)
          /\ member' = [member EXCEPT ![m].state = "sent"]
          /\ execution' = [execution EXCEPT ![e] = taken]
       \/ /\ Pending(e, m) /\ ~\E s \in counter : s.ref = m
          /\ execution' = [execution EXCEPT ![e] =
                 [taken EXCEPT !.pc = "read", !.who = {m}, !.axis = 1, !.passed = TRUE,
                               !.lasting = refusals[c]]]
          /\ UNCHANGED member
    /\ UNCHANGED <<run, confirmed, tab, counter, world>>

\* Mutant: an axis that passed when the audience was frozen is not read again.
ReadFrozen(e) ==
    /\ At(e, "read")
    /\ execution' = [execution EXCEPT
           ![e].axis = @ + 1,
           ![e].pc = IF execution[e].axis = Len(AxisOrder) THEN "count" ELSE "read"]
    /\ UNCHANGED <<run, member, confirmed, tab, counter, world>>

\* This axis does not refuse, and none before it did.
Passing(e) ==
    execution[e].passed /\ AxisOrder[execution[e].axis] \notin refusals[ContactOf(Who(e))]

AxisRead(e) ==
    [execution[e] EXCEPT !.passed = Passing(e), !.axis = @ + 1,
        !.pc = IF execution[e].axis = Len(AxisOrder) THEN "count" ELSE "read"]

\* evaluateSendEligibility: each axis is a query of its own.
Read(e) ==
    /\ At(e, "read")
    /\ execution' = [execution EXCEPT ![e] = AxisRead(e)]
    /\ UNCHANGED <<run, member, confirmed, tab, counter, world>>

\* The sends counted for a contact in the window.
Sends(c) == Cardinality({s \in counter : s.recent /\ ContactOf(s.ref) = c})

\* evalFrequency, the last of the axes.
Count(e) ==
    /\ At(e, "count")
    /\ LET fits == Sends(ContactOf(Who(e))) < MaxProactiveSends IN
       Goes(e, IF execution[e].passed /\ fits THEN "claim" ELSE "skip")
    /\ UNCHANGED <<run, member, confirmed, tab, counter, world>>

\* The compare-and-set to sent, not committed yet; another may have won.
ClaimMember(e) ==
    /\ At(e, "claim") /\ ~Taken(Who(e))
    /\ IF Pending(e, Who(e)) THEN Goes(e, "record") ELSE Next1(e)
    /\ UNCHANGED <<run, member, confirmed, tab, counter, world>>

Sent(e) ==
    /\ member' = [member EXCEPT ![Who(e)].state = "sent"]
    /\ counter' = counter \cup {[ref |-> Who(e), recent |-> TRUE]}
    /\ Next1(e)

\* Mutant: the count read with the other axes is relied on.
RecordUncounted(e) ==
    /\ At(e, "record")
    /\ Sent(e)
    /\ UNCHANGED <<run, confirmed, tab, world>>

\* Mutant: the cap is found reached, and the claim stays.
RecordAnyway(e) ==
    /\ At(e, "record")
    /\ IF Sends(ContactOf(Who(e))) < MaxProactiveSends
       THEN Sent(e)
       ELSE /\ member' = [member EXCEPT ![Who(e)].state = "sent"]
            /\ Next1(e) /\ UNCHANGED counter
    /\ UNCHANGED <<run, confirmed, tab, world>>

\* Under the contact's advisory lock: count again, insert, commit; or the cap
\* is reached and everything is rolled back.
Record(e) ==
    /\ At(e, "record")
    /\ IF Sends(ContactOf(Who(e))) < MaxProactiveSends
       THEN Sent(e)
       ELSE Goes(e, "capped") /\ UNCHANGED <<member, counter>>
    /\ UNCHANGED <<run, confirmed, tab, world>>

\* Mutant: a capped member is left to a later execution.
SkipUnwritten(e) ==
    /\ execution[e].pc \in {"skip", "capped"} /\ ~Taken(Who(e))
    /\ IF At(e, "skip") /\ Pending(e, Who(e))
       THEN member' = [member EXCEPT ![Who(e)].state = "skipped"]
       ELSE UNCHANGED member
    /\ Next1(e)
    /\ UNCHANGED <<run, confirmed, tab, counter, world>>

\* An axis refused (same transaction) or the cap is reached (markSkipped).
Skip(e) ==
    /\ execution[e].pc \in {"skip", "capped"} /\ ~Taken(Who(e))
    /\ IF Pending(e, Who(e))
       THEN member' = [member EXCEPT ![Who(e)].state = "skipped"]
       ELSE UNCHANGED member
    /\ Next1(e)
    /\ UNCHANGED <<run, confirmed, tab, counter, world>>

\* Phase 3; a concurrent execution may have completed the run.
Finish(e) ==
    /\ At(e, "next") /\ execution[e].todo = {}
    /\ IF status = "executing"
       THEN status' = "completed" /\ revision' = revision + 1
       ELSE UNCHANGED <<status, revision>>
    /\ execution' = [execution EXCEPT ![e] = Idle]
    /\ UNCHANGED <<audienceRevision, member, confirmed, tab, counter, world>>

\* The process dies or a statement throws: nothing uncommitted remains.
Stops(e) ==
    /\ ~At(e, "idle")
    /\ execution' = [execution EXCEPT ![e] = Idle]
    /\ UNCHANGED <<run, member, confirmed, tab, counter, world>>

-----------------------------------------------------------------------------
\* Customers, providers and the clock.

\* What a change means to whoever is being finalized right now (history only).
Noticed(c, now) ==
    [e \in Executions |->
        IF execution[e].who # {} /\ ContactOf(Who(e)) = c
        THEN [execution[e] EXCEPT !.lasting = @ \cap now]
        ELSE execution[e]]

Says(c, axis) ==
    /\ words < MaxWords /\ words' = words + 1
    /\ LET now == IF axis \in refusals[c] THEN refusals[c] \ {axis} ELSE refusals[c] \cup {axis} IN
       /\ refusals' = [refusals EXCEPT ![c] = now]
       /\ execution' = Noticed(c, now)
    /\ UNCHANGED <<run, member, confirmed, tab, counter>>

\* The rolling window moves past a send.
WindowEnds(s) ==
    /\ s.recent /\ words < MaxWords /\ words' = words + 1
    /\ counter' = (counter \ {s}) \cup {[ref |-> s.ref, recent |-> FALSE]}
    /\ UNCHANGED <<run, member, confirmed, tab, refusals, execution>>

-----------------------------------------------------------------------------
\* A new draft, or a run an older version of the code left executing, with a
\* counted send its member does not show.
Fresh ==
    /\ status = "draft" /\ audienceRevision = 0
    /\ member = [m \in Members |-> Absent]
    /\ confirmed = {} /\ counter = {}

LeftBehind ==
    /\ status = "executing" /\ audienceRevision = 1
    /\ member = [m \in Members |-> [state |-> "pending", at |-> 1]]
    /\ confirmed = Members
    /\ \E m \in Members : counter = {[ref |-> m, recent |-> TRUE]}

Init ==
    /\ Fresh \/ LeftBehind
    /\ revision = 0 /\ words = 0
    /\ tab = [t \in Tabs |-> [revision |-> 0, audience |-> Audience, shown |-> TRUE]]
    /\ refusals \in [Contacts -> SUBSET Axes]
    /\ execution = [e \in Executions |-> Idle]

Executing(e) ==
    \/ Start(e) \/ List(e) \/ Look(e) \/ Read(e) \/ Count(e) \/ ClaimMember(e)
    \/ Record(e) \/ Skip(e) \/ Finish(e) \/ Stops(e)

Next ==
    \/ \E t \in Tabs :
          \/ ViewRun(t) \/ ViewMembers(t)
          \/ FreezeAudience(t) \/ ConfirmBroadcastRun(t) \/ CancelBroadcastRun(t)
    \/ \E e \in Executions : Executing(e)
    \/ \E c \in Contacts, axis \in Axes : Says(c, axis)
    \/ \E s \in counter : WindowEnds(s)

Spec == Init /\ [][Next]_vars

-----------------------------------------------------------------------------
\* Properties.

\* No contact is sent more than the cap within a window, through whichever of
\* its identities and whoever executes.
CapHolds == \A c \in Contacts : Sends(c) <= MaxProactiveSends

\* A member is shown as sent exactly if its send was counted, and one that was
\* skipped has used up nothing.
SentIsCounted == \A m \in Members :
    LET counted == {s \in counter : s.ref = m} IN
    /\ member[m].state = "sent" => Cardinality(counted) = 1
    /\ member[m].state \in {"absent", "skipped"} => counted = {}

\* A completed run has finalized its whole audience, however many executions
\* shared the work and however many of them stopped.
CompletedIsDone == status = "completed" => \A m \in Members : member[m].state # "pending"

\* The run is executed on exactly the audience the merchant had before them
\* when they confirmed, nobody of an earlier, wider one.
ConfirmedWasSeen ==
    status \in {"confirmed", "executing", "completed"} => Audience = confirmed

SendsNow(e) ==
    /\ At(e, "record")
    /\ member[Who(e)].state # "sent" /\ member'[Who(e)].state = "sent"

\* Execution goes by what the customer said, not by the frozen verdict: nobody
\* is sent anything over a refusal that lasted since their turn began.
StopBinds == [][\A e \in Executions : SendsNow(e) => execution[e].lasting = {}]_vars
=============================================================================
