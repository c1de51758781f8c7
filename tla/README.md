# A TLA+ model of FIKIRTIVE: money, publishing, broadcasts

FIKIRTIVE sells generated images, videos and conversations for prepaid credits. The hard part of
the program is not making a picture; it is that a merchant is charged exactly when a result became
theirs, and otherwise gets the credits back, although web requests, queue deliveries, retries,
sweeps, operators and a paid external engine all act on the same rows. These modules model that
part first, and then what cannot be taken back once it is out: a post, a message to a customer. Line
numbers below are those of the repository's `src/`.

    cd tla
    tlc -workers 4 -config MCGenJob.cfg MCGenJob     # any run of the table below
    tlapm CreditLedgerProofs.tla                       # the proofs

## 1. The system

### Components

| component | where | state | operations |
| --- | --- | --- | --- |
| Credit ledger | `packages/db/src/credits.ts`, `finance-limits.ts`, migration `20260619130000_credits` | `CreditAccount(balance, reserved)`, append-only `CreditLedger` with three unique indexes, `Organization.settings.spendCapCredits` | `reserveCredits`, `reserveCreditsUpTo`, `reserveChatTurnWithSearchSlots`, `settleCredits`, `refundReservation`, `grantCredits(Tx)`, `assertWithinSpendCap`, `assertWithinAdjustWindow` |
| Generation job | `apps/worker/src/jobs/gen.ts`, `packages/core/src/gen.ts`, `apps/web/lib/gen-actions.ts`, `cowork-actions.ts`, `actions.ts` | `GenJob` (status, startedAt, generationIds, videoOptions.providerTask), pg-boss messages, the chat thread's terminal message | `startGen`, `handleGen`, `resumeCommittedGenJob`, `reapStaleGenJobs`, `redeliverGenThreadResults`, `cancelGenJob`, `deleteProject` |
| Engine adapter | `packages/generation/src/byteplus.ts`, `provider-concurrency.ts` | the orders at the engine; an in-process request gate | `generate`, `submitVideo`, `pollVideo` |
| Otto turn meter | `packages/otto/src/meter.ts`, `llm-reservation-reaper.ts` | a hold per turn, the turn's delivery | `withLlmBudget`, the reservation reaper |
| Approval cards | `apps/web/lib/otto-actions.ts`, `approval-card-settle.ts` | the card's status, attempt mark and verdict; the thread | `ottoApprove`, `ottoReject`, the reaper's three passes |
| Asset understanding | `jobs/understand.ts` | `AssetUnderstanding` (status, `moneyRefId`), a hold per billing round | `handleUnderstand`, the scanner, two sweeps |
| Reference images | `jobs/refgen.ts` | `RefGenJob` and an active slot | as GenJob |
| Research | `jobs/research.ts`, `research-actions.ts` | `ResearchJob`, its card, its report | `approveResearch`, `handleResearch`, `reapStaleResearchJobs` |
| Manual refunds and Stripe | `refund-actions.ts`, the Stripe webhook, `stripe-reconcile.ts` | the ticket's RESERVE row with its pinned amount, an audit row; Stripe's refunds and idempotency keys | `refundCreditsAction`, `completeManualRefund`, `abandonManualRefund` |
| Publishing | `jobs/publish.ts`, `schedule-actions.ts`, `core/meta-publish.ts`, `meta-actions.ts` | `ScheduledPost`, `PublishAttempt`, the merchant's switch, the connection to Meta | approve, edit, cancel, scan, `handlePublish`, `reapStalePublishAttempts` |
| Campaigns and batches | `campaign-approval-lock.ts`, `factory-batch.ts` | entries, approvals, lease | approve, undo, dispatch |
| Customer broadcasts | `customer-broadcast-service.ts`, `send-eligibility.ts` | `BroadcastRun` (status, two revisions), `BroadcastAudienceMember`, `ContactSendFrequencyEvent` | `freezeAudience`, `confirmBroadcastRun`, `cancelBroadcastRun`, `executeBroadcastRun`, `evaluateSendEligibility` |
| Journeys, consent, messages | `workflow-*.ts`, `consent-*.ts`, `message-delivery-reconciliation.ts` | revisions and runs; consent projection; receipts | event handlers and folds |
| Gate, rate limits | `provider-concurrency.ts`, `rate-limit.ts` | counters | acquire/release; fixed window |
| Rendering, ingest, captions, canvas, storage, tenancy, sign-in, prompts and UI | see `PROJECT.json` | | not money, or pure I/O |

### How they interact

`startGen` writes the job row, the hold and the queue's outbox row in **one** transaction. pg-boss
hands the message to a worker; `handleGen` reads the row once, and every later write is a
compare-and-set against what the row is by then. The paid call leaves between two statements. The
commit writes outputs, the `generationIds` marker and the SETTLE row in one transaction; `DONE` and
the thread's message are written after it. Whoever fails the job for good writes `FAILED` and the
REFUND row in one transaction. All components meet in the account row of the workspace.

### What is hard, and what makes it correct

* Ledger: many connections spend one balance under READ COMMITTED. Correct means: the account is the
  sum of the rows, nothing is overspent, each hold ends once for what it took, the limit on manual
  movements binds in every window, and locks are taken in an order that cannot deadlock.
* Job: at-least-once delivery, an expiry that hands out a message whose handler still runs, a
  result that outlives the delivery that ordered it, a sweep and a merchant who act meanwhile.
  Correct means: charged and delivered together or refunded with nothing delivered; an ended job
  tells the merchant the truth; the engine is not paid twice for one job; nothing is left open.
* Publishing: the send cannot be undone nor asked about, and the row, the attempt, the merchant's
  switch, the reaper and redeliveries all move between two awaits. Correct means: never twice live,
  nothing sent for a post that is not being published, no claim kept for ever.
* Approval: consent is spent once, but the click, the tool it runs, the turn's hold, the card and the
  thread are written in different transactions by a request that may die, and tidied up an hour later
  by evidence. Correct means: the tool runs once, "nothing was charged" is true, no card claims a
  run that never ended.
* Research, understanding: one delivery in the settlement's own transaction, two sweeps that know
  only an hour has passed, redelivery on a row read earlier. Correct means: charged exactly with the
  delivery, one open or charged round, every hold closes.
* Manual refunds: two systems of record, an answer that may be lost and a key that forgets. Correct
  means: one refund per ticket, and credits and card money never both go back nor both stay.
* Broadcasts: a merchant confirms in one tab what another tab may have frozen again; execution goes on
  for minutes, in several requests, while customers withdraw and one customer is in the audience under
  two identities. Correct means: executed on what was seen, nobody over the cap, nobody over a lasting
  refusal, sent if and only if counted, nobody left out.
* The hazards themselves, at their lines and with the properties that catch them, are listed in
  `PROJECT.json`.

## 2. The modules

    Sums <----- CreditLedger <------- LedgerTx       PaidWork <-- GenJob, Research, Understanding
                                             ^                    (INSTANCE ... WITH)
                                     CreditLedgerProofs
                                      Publish   Approval   ManualRefund   Broadcast

    XProofs EXTENDS X for X = GenJob, Research, Understanding, Approval, Publish,
    ManualRefund, Broadcast

| module | what it is |
| --- | --- |
| `Sums` | `SumUpTo`, a sum as a recursive *function*, and small arithmetic |
| `CreditLedger` | the ledger as it is promised: one committed transaction per action |
| `LedgerTx` | the ledger as the database runs it: one SQL statement per action, with locks |
| `PaidWork` | what the product promises about any piece of paid work (`hold`, `delivered`) |
| `GenJob` | one generation job, from `startGen` to the end of its credits |
| `Research` | one deep-research card: approval, handler, delivery in the settlement, two sweeps |
| `Understanding` | one file's row, its billing rounds, its deliveries and sweeps |
| `Approval` | one approval card: clicks, attempts, `withLlmBudget`, the reservation reaper |
| `ManualRefund` | refund tickets of one card payment, the ledger on one side and Stripe on the other |
| `Publish` | one scheduled post and its deliveries |
| `Broadcast` | one broadcast run: tabs, executions, members, the send counter and the refusals |
| `CreditLedgerProofs`, `GenJobProofs`, `ResearchProofs`, `UnderstandingProofs`, `ApprovalProofs`, `PublishProofs`, `ManualRefundProofs`, `BroadcastProofs` | the theorems of each, with the inductive invariants they rest on |
| `MC...` | what TLC is given, with the `.cfg` files |

### CreditLedger

One workspace stands for all: every query of `credits.ts` is keyed by `orgId`. `ledger` is the
table in commit order (`Row` keeps kind, reference, two deltas and the day), `balance` and
`reserved` are the columns of `CreditAccount`, `cap` the merchant's ceiling, `slots` what
`reserveChatTurnWithSearchSlots` returned, `today` the clock of the rolling window.

| action | code |
| --- | --- |
| `Reserve` | `assertWithinSpendCap` + `reserveAgainstBalance` (188-203, 219-292) |
| `ReserveTurn(ref, seen)` | `reserveUpToCore` (397-446); `seen` is the balance of its unlocked read, *any* balance, so a stale read is always considered |
| `ReserveManualRefund` | the holding transaction of `refundCreditsActionInFrame` |
| `Settle`, `Refund` | `settleCredits`, `refundReservation`: `min(actual, hold)`, at most one finalizer |
| `Grant`, `Adjust` | `grantCredits(Tx)`; an operator's grant or deduction counts against the window with its own row |
| `SetSpendCap`, `Tick` | `setOwnerSetting`; the database clock |

A refused call rolls its transaction back, so it is no step. A null reservation, a finalizer that
lost its race and a replayed grant change nothing and are no step either.

### LedgerTx

The same variables are the committed state; `tx[c]` is what a connection has done so far. A
statement that needs a lock somebody holds is not enabled. Locks: the Organization row (exclusive by
`FOR UPDATE`, shared by the foreign key of an insert), the account row, and a not yet committed
unique key. `Abort` is every way a transaction can die. `ImplementsLedger` is the formula
`CreditLedger!Spec` itself: each commit must be one of its steps, all else a stutter. That covers
the interesting reads, because `CreditLedger` judges cap and window *in the committing state*:
were the cap or the window read without the lock, the commit would be no step.

### GenJob and PaidWork

Jobs meet only in the balance, so one job is modelled. The row is `status`, `claims` (the identity
of `startedAt`), `outputs` (`generationIds` is not empty) and `task` (`videoOptions.providerTask`);
`kind` is `GenJob.kind`, chosen when the behaviour starts;
`hold` is what the ledger says under the job's id; `engine[n]` what became of the n-th order.
`worker[w]` is a delivery slot: `pc` is the next awaited statement of `handleGen`, the other fields
are what its one reading of the row and its local variables (`committed`; `last` for
`spent`/`charged`/`permanent`) say. Message states and retry counts follow pg-boss as
`queues.ts`/`GEN_QUEUE_POLICY` configure it; `carried` is `carriedRetryCount`.

| action | code (`jobs/gen.ts` unless said) |
| --- | --- |
| `StartGen`, `CancelGenJob`, `DeleteProject` | the transactions of `gen-actions.ts` 1248, `cowork-actions.ts` 453, `actions.ts` 245 |
| `Fetch` | first reading and what kind of delivery it is (1635-1718), fair deferral included |
| `ReadInputsFails` | the reads before poll and claim (1724-1806) reject |
| `Claim` | compare-and-set QUEUED to GENERATING and losing it (1886-1924) |
| `RefuseToSpend`, `FailClosed` | the gates before the call; `failClosedWithRefund` (894-942) |
| `Call`, `Answer`, `EngineEnds` | the paid call and what `paidPost` lets the worker know of it |
| `PersistTask`, `Poll`, `ClearTask` | the video's marker, one look at it, giving it up (1572-1614, 1817-1870) |
| `Store`, `DiscardOutputs` | the commit (2485-2583), `REDELIVERY_DISCARD` (2584-2636) |
| `Finish`, `Resume`, `Tell` | DONE (2661), `resumeCommittedGenJob`, `appendCoworkResult` |
| `Catch`, `FollowUp`, `Complete` | 2667-2753; the consumer in `index.ts` 217-265 |
| `Crash`, `Expire` | a dying process; `expireInSeconds` |
| `ReapRead`/`ReapWrite`, `ReapQueued`, `ReapCommitted`, `RedeliverResult` | the sweeps (1188-1322) and `gen-thread-redelivery.ts` |
| `Ages` | 35/45 minutes for a claim, 45 for a queued row, 15/65 for a video: a clock may run out at any moment, in any order, so no relation between two delays is relied upon |

`PaidWork` has four steps: accept, deliver (charge and result in the *same* step), give back,
discard. `KeepsThePromise` says that GenJob, with `delivered <- outputs`, takes only these;
`HoldCloses` is its liveness.

### Publish

The row is `status`, `due`, `stamped` (`metaPostId`) and the pending approval `desk`, which pins
`updatedAt`; the attempt table is `claim` (the APPLYING attempt, unique by a partial index) with
`anchored` (`creationId`) and `aged`, and `unconfirmed`. `auto` is the merchant's switch, `authorized` says that the
connection to Meta is there, active, not paused and may publish; `Reconnect` moves it, at any time, within
the bound of the switch. The scanner leaves posts of an owner without it untouched (`publish.ts` 1009-1025),
a delivery refuses it in `authorize`. `live` counts what the platform made. A
delivery (`worker[w]`) goes through the locks of `handlePublish` in their order: `Fetch` (lock 1,
500-535), `Guard` (lock 4, 537), `Switch` (lock 5, 559), `Claim` (lock 2, 628), `ClaimRow` (643),
`Prepare`, `Container`, `Confirm` (lock 6), `Send`, and one action per outcome (`Record`, `Withdraw`,
`Refuse`, `Ambiguous`, `Transient`, `Hard`, 686-888). `Send` either did or did not reach the
platform, and the worker may not know which. `ReapRead`/`ReapWrite` are `reapStalePublishAttempts`;
`Ages` lets an attempt become old at any time, but beyond a running worker only as the fault
`outlive`: the deadline of a delivery (240 s), the queue's expiry (300 s) and the cutoff are ordered by
configuration, and `core/publish.ts` 35-38 says what depends on it. Attempts nobody refers to are
forgotten, so three identities stand for any number. The product's own switch
(`PUBLISHING_AVAILABLE`, `core/schedule-draft.ts` 139) is off at this commit; the module takes it to
be on, as the tests of the worker do. The X channel's outcomes are those of facebook; `deletedAt` is
left out.

### Approval

`card`, `mark` (`approveAttempt`), `approved` (`approvedAt` and whether it is an hour old) and
`verdict` are the card's payload; `hold[n]` the turn's reservation of the n-th attempt, `reaped` when
the reaper refunded it (its label is what its second pass looks for); `tool`, `toolHeld` what the
approved tool did and whether it held credits of its own; `told`, `saidFree`, `talked` the thread. A
click goes through `Choose` (`chooseApproveAttempt`), `Reserve`, `Claim` (`afterReserve`), `Tool`,
`Model`, `Settle` or `Refund`, and `Finish`, `Degrade` or `Dead`, each a statement or transaction of
its own. `Throws` is the outer catch, whose note in the thread is best effort (`Noted`); `Dies` writes
nothing. `talked` is what the third pass takes for a conversation that went on: the merchant's words, a
note, or, within the grace between the two clocks, words from just before the claim. `SweepHolds`,
`SweepHold` and `SweepRetire` are the reaper's first pass, `SweepOrphan` the second; the third looks at the
thread (`SweepThread`) and writes the card in a later statement (`SweepCard`).

### Research

`Approve`/`Open`/`Send`/`Track`/`FailQueued` are `approveResearch`; `Take` to `FailJob` are
`handleResearch` with the statements of `withLlmBudget` it runs through; `ReapRead`/`ReapJob`/`ReapCard`
and `SweepHold` the two sweeps. The queue delivers once (`retryLimit` 0). `truncated` stands for the
documented charge of a run that used up its steps without a report (`meter.ts` 275-287), which
`PaidWork` counts as delivered. `ReaperStops` is a sweep that dies or whose statement is refused and
throws; `stranded` remembers that it stopped with the job failed and the card not written.

### Understanding

`moneyRef` is the round `moneyRefId` names: the code gives a new round a random suffix, the model the
next number. A delivery loads the row first and claims it later, so `seen` may be old when
`ensureUnderstandingHold` uses it. `WriteRow` are the last writes, all conditional on RUNNING though
not on who made it RUNNING. A handler may stop anywhere, any number of times. Each round is a
`PaidWork` of its own: `Work(r) == INSTANCE PaidWork WITH hold <- hold[r], delivered <- doneBy = r`.

### ManualRefund

`pin[t]` is the amount locked in the RESERVE row's reason, `hold[t]` how that row ended, `refunds[t]`
what Stripe keeps under the ticket's metadata, `key[t]` what its idempotency key remembers
(a refusal too), `audit[t]`
the pending row's pointer. Each request is a sequence of `Refund`/`Complete`/`Abandon`, `CheckPayment`,
`HoldCredits`, `Look`, `Create...`, `Finish...`, `Release`; only `HoldCredits` and the finalizers are
transactions. A credit is worth one minor unit. Two things are kept apart as the runbook keeps them:
nobody abandons a ticket while a refund request on it is under way (`refund-actions.ts` 792 names
the race that remains), and no request outlives its key (24 hours). A refusal of the account's API key
releases the hold like any other (`stripeDefinitelyRefused`), although Stripe does not store it under
the idempotency key; the model lets any request be refused so, but takes requests of one ticket that overlap
to be answered alike. Were the API key changed between two of them, the second would release the hold under
the first one's refund.

### Broadcast

One run. `member[m]` is a row of the audience with its state and the audience revision it was frozen at;
`counter` the rows of `ContactSendFrequencyEvent`, each inside the rolling window or past it; `refusals`
what refuses a customer right now, by axis; `tab[t]` what a browser shows, read in two statements
(`ViewRun`, `ViewMembers`). The merchant's writes carry the revision their tab shows (`Current`).
`FreezeAudience` takes whomever the segment selects by then.

`execution[e]` is a request inside `executeBroadcastRun`: `Start` and `Finish` are its first and third
phase, `List` reads the pending members, and each member is one transaction, split where another
connection can get in between under READ COMMITTED:

| action | code (`customer-broadcast-service.ts` unless said) |
| --- | --- |
| `Look` | the member read again, skipped if finalized, repaired if an older version counted it and did not say so (1156-1195) |
| `Read`, `Count` | the axes one query each, then the counter (`send-eligibility.ts` 229-424) |
| `ClaimMember` | the compare-and-set to sent, not committed: a lock others wait for (`Taken`) |
| `Record` | under the contact's advisory lock: count again, insert and commit, or roll everything back (`send-eligibility.ts` 572-616) |
| `Skip` | not eligible, or `markSkipped` after the cap |
| `Stops` | the process dies or a statement throws, anywhere; a later request resumes |

`LeftBehind` starts from a run such an older version left executing. `lasting` is history: the axes that
have refused without interruption since the member was looked at. Sending itself is simulated in the
code at this commit; the member's state and the counter's row are all a send is.

## 3. What the runs show

| run | instance | what is checked |
| --- | --- | --- |
| `ledger` | a priced hold, a turn, a manual refund, a purchase, an operator; three days, window 1, limit 3 | account = sum of rows, exactly once, in flight = open holds, slots are paid for, the limit holds in every window |
| `transactions` | two connections; submit, turn, manual refund, purchase, adjustment, finalizers, a ceiling that comes and goes | commits only ledger steps; a ring of waiting transactions has a turn or a second submit in it |
| `gen_job` | two slots; an image with two faults or a video with one, of four kinds | charged and delivered together; and, where `Undisturbed`: ended means refunded, one live order, no result thrown away unpaid, the message is true |
| `gen_live` | one slot, one fault of any kind | every hold closes; every ended job's thread is told |
| `publish` | one message, two slots, instagram or facebook, two approvals, an edit, two changes of switch or connection, one fault of four kinds | never twice, something always guards a live post, sent only while publishing, ended posts stay, every claim is given back, a due post is taken up while switch and connection allow it |
| `approval` | two overlapping clicks, two attempts, two faults of three kinds | runs once, free means free, a paid run stands but for two ways to lose its card, holds close, a stranded card is told |
| `research` | two requests, two faults of each of three kinds | `PaidWork`, holds close, the card ends unless the job sweep stopped between its writes |
| `manual_refund` | two tickets of 3 on a payment of 4, one of them partial, three requests, two faults | one refund per ticket, never both, charged is paid, the operator is told the truth |
| `understanding` | two deliveries, three rounds, any number of stops | `PaidWork` per round, one open or charged round, holds close |
| `broadcast` | two executions that stop anywhere, two tabs, two identities of one customer, room for one send, a customer who changes their mind or a window that ends twice | the cap holds, sent is counted, completed is done, confirmed was seen, a lasting refusal binds |

`Undisturbed` leaves out exactly the fault kinds under which the four promises of a job are found broken
(a rejected statement; for a video also a dying worker or an expired delivery). `faults`
remembers which kinds happened so that one run can tell the two apart; no action reads anything of
it but the bound. In the same way `InTime` (Publish) speaks of behaviours in which no delivery outlived
the reaper's cutoff, and `faults["lost"]` and `stranded` (Research) except what is listed below.

### Where the code does not do what is written

Two runs check a property taken from the repository's own words, and TLC refutes it.

* `gen_cancel` — "Canceled — you weren't charged." (`cowork-actions.ts:486`). The DONE write after
  a commit rejects; the catch puts the committed, charged row back to QUEUED; cancel takes any
  QUEUED row and ignores that the refund finds a settlement. CANCELLED, charge kept.
* `approval_leak` — "failing it would show a merchant their finished work as a failure"
  (`llm-reservation-reaper.ts:200`). A click dies after its hold and before its claim of the card. An
  hour later the reaper refunds that hold; nothing else ends the attempt, so only now does a new click
  go on to a second one (`otto-actions.ts` 1518-1520). It runs, is charged and answers; then the reaper takes
  its refund of the *first* attempt for a dead run and fails the card: its second pass, on any later
  tick, or its first, when its card write comes after the answer. `PaidRunStands`, in the passing run,
  says that only such a leak does it, or the next item.

Found while modelling, reproduced with TLC and kept here as prose, since each is a variation
of what is above or ends without loss:

* A read that rejects before a video poll requeues the row; polling does not claim; the commit's
  `status: GENERATING` misses and the finished video is discarded as "they were refunded"
  (`gen.ts:2616`) with the hold open.
* "挪到 claim 之后,这条路就不存在了" (`gen.ts:1935`): a duplicate delivery that read the row before the
  commit claims it once the failed DONE write has put it back to QUEUED, and orders again.
* "a `final` failure is by definition pre-commit" (`gen.ts:2699`): a crash between sending the
  follow-up and completing the delivery leaves two poll chains; one delivers, the other's failed
  download writes FAILED over the charge.
* "two concurrent submits serialize on the CreditAccount row" (`credits.ts:205`): each has inserted its
  GenJob row, whose foreign key holds the organization shared, when `assertWithinSpendCap` asks for
  it exclusively. And "没有回路可成环" (`credits.ts:541`): a turn updates the account and then needs the
  organization shared; an adjustment does it the other way round. PostgreSQL aborts one of the two and
  no money is lost, as `ImplementsLedger` (whose `Abort` includes the victim) shows.
* "Only a due SCHEDULED post" (`publish.ts:531`): a delivery checks the status, not `scheduledAt`; a
  post edited to a later time and approved again is published by the message of the earlier one.
* Publishing is not without gaps short of a double post. Lock 4 is read once: an attempt that turns
  unconfirmed after the reading lets one more delivery reach the platform over a row that the reaper
  has set aside (`SentWhilePublishing` excepts it; `NeverTwice` holds). A delivery that outlived its
  message and then fails in passing leaves the row PUBLISHING, which neither the scanner (SCHEDULED
  only) nor the reaper (APPLYING only) looks at. And a caption edited and approved again between reading
  and `ClaimRow` goes out as it was read.
* Research: the job sweep writes the job first and its card second; dying in
  between, or a refused write of the card (`research.ts` 439, 457), leaves the card "Researching…" for
  ever, since no later sweep looks at a failed job (`CardEnds` excepts exactly that). A
  commit whose answer is lost is taken for a failure: the card of a delivered, charged report says
  failed (`FailedIsFree` and `EndsStand`, which are proved, except `lost`).
* Broadcast: "callers folding this into a larger CAS transaction … get a consistent snapshot"
  (`send-eligibility.ts:428`): each axis is a query of its own under READ COMMITTED. A customer who
  withdraws consent and is then taken off do-not-disturb, between the two queries, passes both although
  at no moment both would have passed. `StopBinds` therefore speaks of refusals that lasted.
* "It errs the safe way in both directions" (`llm-reservation-reaper.ts:270`): the third pass reads the
  thread and writes the card in two statements, and looks at no ledger. A run still at work an hour after its
  claim that settles and replies between the two has its paid and answered card marked failed.
* Approval: a server that dies after refunding its turn and before marking the card leaves it
  approved for good if the merchant has gone on talking, which the third pass accepts
  (`StrandedIsTold` says so).

### Bounds, and why they are enough

* `RetryLimit` is 1 instead of 2: the code only compares the count with the limit, and 1 already has
  a first, a retried and a last delivery.
* Two delivery slots: every claim, commit and terminal write is a compare-and-set on one row, so the
  races are between two parties; cancel, delete and the sweeps are further actors.
* `MaxMessages` 2 lets an original and a follow-up coexist; 3 in `gen_live`, where two expired
  predecessors must not keep a follow-up from being sent. `MaxCalls` 2 is enough to see a second
  order.
* `ImageFaults` 2 and `VideoFaults` 1; `gen_live` allows one fault. Beyond that the state space
  grows without a new kind of step.
* Ledger: one price, ceiling below it or none, a limit between one and two movements, turns that
  read any balance up to 4 (two slots, the clamp and both sides of the minimum): a hold is settled in
  full, in part or for nothing. Three days with a window of one day let a movement leave the window.
* Transactions: two connections meet in every pair of operations, and every lock, index and window is
  between two parties; amount 2 with ceiling 1 or none and limit 3 puts every comparison on both
  sides; a turn's hold no longer grows above the balance 3. Both properties are also proved for any
  number of connections.
* Publish: two delivery slots, since claims are unique per post, and one message, so that two deliveries
  are at work at once only when the queue hands the message out a second time (`overrun`), which uses up
  the fault; a second message is beyond TLC here, and the theorems of `PublishProofs` cover any number. Two
  approvals let a post come back after it needed attention, one edit and two changes of the switch or the
  connection meet every lock; one fault, since each is followed by the whole recovery.
* Broadcast: two executions, since claims, the cap's lock and the finish are each between two; two members
  of one customer and a cap of one, so that both executions meet at the cap with different members; four
  writes of the run, enough to freeze twice, confirm and start; two axes, since the third is read like the
  others; two changes of mind, so that a refusal can end and another begin.
* Approval: two clicks and two attempts, so that one attempt can leak under another that succeeds; two
  faults of any kind, so that the recovery itself can be interrupted.
* Research: two requests race for the card; each of three faults twice covers a fault in the handling
  of a fault.
* Understanding: three rounds, so that a round can be refunded, reopened and refunded again while a
  delivery of the first is still under way.
* ManualRefund: two tickets that exceed the balance of 5, so that the partial one is cut down and the
  other refused, and the payment of 4, so that Stripe refuses; three requests, so that a refund, a completion and another ticket overlap.
* Symmetry: delivery slots, connections and requests are interchangeable in every action and property
  of the safety runs that declare it; no run with a liveness property declares any.
* `CHECK_DEADLOCK FALSE` where the system may really stop: a deleted job whose message is gone, a
  published or cancelled post, a decided card, tickets that are settled.

### Fairness

`FairSpec` is used by the runs with liveness properties. GenJob: weak fairness of a delivery's next
statement and the fetch of a ready message (a worker that does not die goes on; every request to the
engine carries an `AbortSignal.timeout`, so it returns); the expiry of an active message (pg-boss's
own maintenance); the sweeps and the message redelivery (a 5-minute timer, `index.ts` 315-397, each
scan catching its own errors); the three clocks (time passes). Nothing is assumed of the engine, of
the merchant or of faults. The redelivery's age window and scan limit are abstracted: a row that is
newer or older than the window is not told, which `ThreadIsTold` therefore does not speak about.

Publish, Approval and Research assume the same of their timers (`index.ts` 402-430 for the publish
scan), deliveries and requests: a process that does not die goes on, time passes, the sweeps run. In
Publish the reaper is fair as a whole. Understanding assumes least: only that time passes and that the
hold sweep runs, strongly fair in each round because the one sweep may be busy with another round's
row whenever a round's turn comes; deliveries may stop for ever at any point and the holds close all the same.

## 4. What is proved

`CreditLedgerProofs` proves with TLAPS, for every set of references, every amount, ceiling, limit,
window and clock, the theorems `TypeCorrect`, `LedgerExactlyOnce`, `LedgerConservation`,
`LedgerReserved`, `LedgerNeverNegative`, `LedgerSlotsAreHeld` and `LedgerAdjustWindow`, each as
`Spec => []P`, and the lemma
`TurnHoldCoversSlots` about the arithmetic of a turn's hold. They rest on the five named assumptions
of `CreditLedger` (disjoint reference sets, positive amounts, natural limits, a positive slot price),
which TLC evaluates in the runs.

The argument for those seven:

1. `StepShapes`: every step of `Next` appends at most one row, and is a hold, a finalizer, a grant or
   a quiet step. Everything after it is proved for the four shapes, not for nine actions.
2. `RowsInv` = types, the shape of each kind of row, and `ExactlyOnce`. It is inductive by itself,
   since the guards look only at earlier rows.
3. `MoneyInv` = `RowsInv`, `ReservedIsOpenHolds`, `balance >= 0`. `NeverNegative` is not
   inductive: that `reserved` stays non-negative when a hold is released needs to know that it is
   the sum of the open holds and that the released one is among them. A finalizer turns exactly one
   summand to zero, and exactly one because of `ExactlyOnce`.
4. The window: a row posted today counts only in windows that end today or later, so only today's
   sum moves, and the guard of the step bounds it; when the clock moves, past windows keep their
   sums, and the new day's window is contained in the old one's up to the new, empty day.
5. Its first section, on sums: appending a row adds its summand, changing one summand changes the sum by the
   difference, sums of pointwise smaller columns are smaller. The library's induction rules take an
   operator parameter, which the installed provers cannot instantiate, so these are proved from
   the well-foundedness of `<` on the naturals, by a least counterexample.

Its second half is about `LedgerTx`, for every number of connections: `TxImplementsLedger` (it
implements `CreditLedger`, so all the invariants above hold of the committed state under any
interleaving of statements) and `TxNoLockCycle`. They need two more assumptions, `ProcsAssumption`
(finitely many connections) and `SeenAssumption` (a balance above `MaxSeen` grants and holds what
`MaxSeen` does, so that the bound of `ReserveTurn` hides no turn). The invariant is `TxInv`:

* `Placed` says which locks and which row a transaction has at each statement; `Apart` what two open
  transactions cannot both have (the account row, the organization beside an exclusive lock, a row
  under one unique key).
* `Judged` says that what an earlier statement found still holds. A judged cap is kept by the
  exclusive organization lock, which a save of the cap waits for; a counted window by the same lock,
  because a commit has inserted a row and an insert shares the organization; a sufficient balance by
  the account row's lock; an unposted key by the unique index; a hold that was read because the
  ledger is append-only.
* Statements that commit nothing change one transaction only (`GoesOnKeeps`). `CommitIsOperation`
  shows a commit to be an operation of `CreditLedger`, `CommitKeeps` that it leaves everybody else's
  findings true.
* The lock order (`NoRing`): in a ring without turns whoever has the account row is at its insert
  under its own exclusive lock, waits for nobody and so is in no ring; the same then follows for an
  exclusive lock and for an uncommitted row; everybody left waits for the organization behind somebody
  who shares it before locking it, which only a submit does, and that one waits for another.

`GenJobProofs` proves, for any number of delivery slots, messages, calls, retries and faults, that
`GenJob` stays well typed (`TypeCorrect`) and that it implements `PaidWork`'s safety
(`JobKeepsThePromise`): the charge and the result come in one step, a refund only without a result.
Its assumption is `ShapeAssumption`. `PaidWork`'s steps are not inductive by themselves: that a
terminal write gives credits *back*, and leaves a charge alone, depends on what the row, the hold and
the deliveries' local variables say of each other. `MoneyInv` (theorem `MoneyAgrees`) is that
agreement: outputs imply a settled hold; a job in flight without outputs has its hold open, and no
other job has; a refunded hold means an ended row; a delivery past the commit (`committed`, or at `finish` or
`resume`) means a settled hold. Most steps leave row status, outputs and hold alone and make no
delivery remember a commit (`NoNewCommit`), and are dealt with at once; the rest get a case each.

It also proves the four promises a job keeps `Undisturbed`: `EndedIsRefunded`, `OrderedOnce`,
`DiscardedIsRefunded`, `ThreadIsTruthful`. They all rest on one fact: one delivery at a time *works* for
the job, and what the engine may still bill is the order it, or the row, knows of. `CalmInv` spells that
out (theorem `CalmHolds`):

* `Works` is said of a delivery from its claim of the row (or its poll of the row's video) to its answer.
  `OneWorks`: there is one. `Placed` says what each place implies for the row, the hold and the message;
  a video's message is in one pair of hands (`OneMessage`), while an image's may be delivered again
  because the claim decides.
* `Owed` are the calls the engine has billed or may still bill. `OneOrder`: there is at most one.
  It is the call this delivery is making, or the task the row names (`Placed`, `Awaited`); a job in the
  queue owes nothing and starts from nothing (`FromNothing`), which is why a retry may order again.
* The three promises about credits are the rest of the invariant, and are inductive beside these and `MoneyInv`.

`Undisturbed` can only be falsified, since the record of faults only grows, so that a step has only to
be shown to keep `Calm` when it is not one of those faults. A step then moves one delivery or none. What it
does to the others is stated once (`Spares`, `Quiet`, `RestsPlaced`), so that `OneMovesOn`,
`OneMovesAlone`, `OneWorksOn` and `WorldMovesOn` leave, for each action, what it does to the delivery
that moves and to the job.

`ResearchProofs` proves for any number of requests and faults that `Research` implements `PaidWork`'s
safety, and the two statements about a card that failed or ended. The inductive invariant `IInv` says of
each place of the handler what it implies for job, hold, report and card (at `deliver` nothing is
delivered yet; past a failure nothing was delivered unless an answer was lost; the message is active
exactly while the handler works; once the reaper has written the job, a report can no longer come).
One step per action; most change one of these things and are closed by SMT alone.

`UnderstandingProofs` proves for any number of deliveries and rounds that every billing round implements
`PaidWork`'s safety (`RoundsKeepThePromise`) and that at most one round is open or charged
(`OneRoundAtATime`). `OneRound` alone is not inductive, since a delivery may hold a round it read long
ago. `IInv` orders the rounds: those before the one the row names are refunded, those after it untouched
(`RoundsInOrder`), a delivery's rounds are never ahead of the row (`HandlersAgree`), and the charged
round is the one that wrote DONE (`ChargeAgrees`). A delivery that still holds an old round thus finds
it refunded, which no finalizer changes.

`ApprovalProofs` proves for any number of clicks, attempts and faults that the approved tool runs once
(`ConsentIsSpentOnce`) and that nobody is told "nothing was charged" over a charge (`ToldFreeIsFree`).
A third theorem, `PaidRunKeepsItsCard`, is the promise that a run that was charged and answered keeps
its card unless an attempt at it leaked or the run was still at work an hour after its claim.
The invariant: from its claim of the card on, one click is the run and there is no other (`OneRun`); the
tool runs as that run's first step (`ToolAgrees`); only the run's own hold is ever settled, and only on
its way out (`ChargeAgrees`); "nothing was charged" is only said once the run is over with nothing settled
(`FreeAgrees`). For the third, `ReplyAgrees` adds that nobody runs any more once the thread has the
reply, since no card is pending twice, and that the reaper is about to retire a card only after a
refund of its own; its second pass looks for such a refund itself. `LookAgrees` is about the third pass: an
hour after the claim nobody runs unless the run is slow, so what the pass saw of the thread, that it has
heard nothing, is still so when it writes, unless a slow run answered.

`PublishProofs` proves for any number of deliveries, messages, retries, approvals, edits and faults that
a post goes live at most once (`PublishedOnce`), that something refuses a second send at every moment
(`GuardedWhileLive`), that only an owner sends (`SendsAreOwned`) and that an ended post is never written
again (`EndsAreFinal`). The invariant names an *owner*: the delivery whose attempt is the claim. One
delivery owns a post, the reaper's reading stays true until it writes (`OwnersAgree`, `ReaperAgrees`), and
an owner that is past its claim of the row has sent nothing before it is told so (`PastAgrees`). A live
post that is not stamped is then in one of three hands (`LiveAgrees`): its owner's; *orphaned*, the
claim of a dead owner on a row that is still PUBLISHING; or *barred*, an unconfirmed attempt beside a
row that can be neither claimed nor approved. All this under `InTime`, which steps can only falsify.

`ManualRefundProofs` proves the four properties of its run for any tickets, amounts, balances, requests and
faults, and needs no assumption on the constants. At `create` a request either finds the idempotency key
used, or no refund exists and the hold is open; at `release` either the key remembers a refusal or no
live refund exists; what a request carries to `finish` is the ticket's refund as it is or as it
was while pending (`AgreesAt`). A step that moves ledger or Stripe must leave these to the requests it
does not move (`Spared`). The two things the runbook keeps apart are used here: `Apart`, and a key that
outlives its request.

`BroadcastProofs` proves the five properties of its run for any audience, identities, requests, tabs,
cap and list of axes. `Inv` says: a request that is not idle works on the run's own audience revision,
with one member in its hands or none (`Held`); nobody of an older freeze is left and nothing is counted
before execution (`Frozen`); whoever is in somebody's hands and pending is uncounted, and a claim is
alone (`Claimed`, from `Taken`); no send is counted twice (`Entries`); whoever is pending is still ahead
of every request that has listed them (`Ahead`), so that the first to finish may say completed; a tab at
the current revision shows the current audience (`Shown`); and an axis that was passed was not refused
all along (`Judged`). `Course` gives what each statement makes of a request field by field, `Effect` and
`MembersMoveOn` what an execution may do to members and counter; each part of `Inv` is then a lemma of
its own. The cap itself is the guard of `Record` and the cardinality of a set with one element more.

Each of these inductive invariants was first checked by TLC, as an invariant of the run's instance.

## 5. Only model-checked

* All liveness: `HoldCloses` and `ThreadIsTold` (GenJob), `HoldCloses` and `CardEnds` (Research),
  `HoldCloses` (Understanding), `HoldsClose` and `StrandedIsTold` (Approval), `ClaimReleased` and
  `Attended` (Publish). Liveness under fairness, and anything about ENABLED, is beyond this prover.

Every safety invariant and every action property of a run that passes is stated by a theorem.

## 6. Not modelled, and why

* In the ledger: `reserveCreditsUpTo`, the hold of a conversation turn without search slots (the least of
  its worst case and the balance, no ceiling, through the same conditional decrement as the others); the
  limit on a single adjustment (a stateless guard), the suspension test (an
  unlocked read nothing in the repository claims to be serialized), reports.
* In the job: validation before the transaction, the last frame, receipts, attaching to a shot and
  the canvas (best effort after the commit), the sweep of DONE rows without outputs (no delivery
  produces one).
* In publishing: drafting, deletion, the connection's token refresh, the wording of what a merchant reads.
* In approval: the plan and content hashes a card is bound to (a stateless comparison before the
  claim), the run's streaming, the chained card a run may end with.
* In understanding: rows from before billing, which hold nothing; the spend thermometer, which only
  reports; the second row a captioned document starts, an independent row of the same kind.
* In broadcasts: the creation of runs, how a segment selects contacts, role checks, the provider's refusal
  as an axis of its own kind (it is one more member of `AxisOrder`), the `unavailable` verdicts of a
  query that fails (they refuse).
* The engine adapter's in-process request gate: a counter and a queue inside one thread, whose orders of
  calls its unit tests enumerate.
* In manual refunds: the rate between credits and money (one to one in the model), the refusal of
  a resumed ticket whose parameters drifted, the mismatch report, the webhook's bookkeeping.
* The components of section 1 without a module yet: next section. Rendering, ingest, captions,
  storage, sign-in, tenancy and the agent's prompts have no protocol or are pure I/O.

## 7. The plan

1. `RefGen` (the shape of GenJob with an active slot per entity), `RateLimit`.
2. `CampaignApproval` with its advisory lock and lease, then `Journey`, and `Consent`: the fold over
   ordered events against the projection its writers keep, which `Broadcast` takes as a set of axes.
