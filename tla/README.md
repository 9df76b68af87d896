# Vidur AI: models, checks and proofs of the recovery backend

Vidur watches a merchant's Razorpay account. When a payment fails, a checkout is
abandoned or an invoice becomes overdue it opens a *recovery case*, chooses a way
to reach the customer, asks the merchant's policy, sends a payment link or a
message, and waits for Razorpay to confirm the money. This directory holds TLA+
modules of that system, TLC configurations that check them on small instances,
and theorems about them proved with TLAPS for every value of the constants.
Paths below are relative to the repository; `backend/` stands for
`backend/src/`.

The backend is a NestJS process on Postgres (Prisma). It takes no row locks, and
uses transactions in few places. Each `await` is a point where another request,
webhook or sweep of the same process goes on. The rows of one case are therefore
shared memory, a service method is a sequence of single reads and writes on it,
and nearly everything that can go wrong is one of them acting on what an earlier
one has read.

## 1. Inventory

### Components

| Component | State it keeps | Operations | Talks to |
|---|---|---|---|
| `backend/recovery/recovery.service.ts`, `recovery-strategy.service.ts` | `RecoveryCase.status`, `RecoveryAction` rows, `RecoveryOutcome` | create strategy, execute, observe, approve, reject, record diagnosis, run agent | Razorpay API, mail, voice generation, policy |
| `backend/policy` | `Policy` rows, `RecoveryAction.policyDecision` | `check`, `checkForRecoveryCase`, edit | recovery, agent |
| `backend/recovery-auto` | none of its own (locals of a run) | automatic run, retry sweep, bounded concurrency | all of the above, escalation |
| `backend/escalation` | an `ESCALATE_HUMAN` action, case status | escalate | orchestrator, agent, webhooks |
| `backend/razorpay/razorpay-webhook.service.ts` | `Payment`, `WebhookEvent`, case status and outcome, `Mandate`, `Subscription` | handlers of the payment, order, link, subscription and token events; close a case | risk, orchestrator |
| `backend/risk` | opens `RecoveryCase` rows | five `assess...` methods | webhooks, sweeps, batches |
| `backend/checkout-sweep`, `backend/invoices/invoice-overdue-sweep` | `Invoice.status` | timed sweeps (BullMQ) | risk, orchestrator |
| `backend/invoices`, `backend/promise-to-pay` | `Invoice`, `PromiseToPay`, case status and outcome | create, mark paid, delete; record promise; verify promises (BullMQ) | orchestrator |
| `backend/mandates`, `backend/subscriptions` | `Mandate`, `Subscription` | register, pause, cancel; retry sequencer (BullMQ) | recovery, policy, Razorpay |
| `backend/recovery-batches`, `backend/recovery-queue` | `RecoveryBatch`, jobs | detect, run, status | risk, agent |
| `agent/app/graph/workflow.py` | the state of one LangGraph run | load, analyse, select, diagnose, policy, execute, observe, recover, escalate | the backend over HTTP |
| the rest: payments, customers, merchants, auth, credentials, analytics, audit, notification, storefront, recovery lab, demo, `ml/`, `frontend/` | their tables | reading, CRUD, text, numbers, views | |

### How they interact

A detector (webhook, sweep, lab) calls `RiskService`, which finds or creates the
case, and fires `runAutomaticRecovery` without waiting for it. The run calls
strategy, policy, execute and observe in turn, or policy and escalation. The
same calls are routes of the dashboard, and the agent makes them in an order of its
own, with a difference: whatever policy does not allow it hands to the escalation route,
which asks nothing of the case. The retry sweep starts the run again for a case that is IN_PROGRESS with a
FAILED action. The merchant approves or rejects actions that policy held. At any
time Razorpay may deliver the events of a payment, each of them more than once
and in any order. Whoever is first, one of them closes the case.

### What is hard, and what makes each component correct

* **Recovery actions.** Two runs of one case (detector, sweep, a click) interleave
  at every await. Correct: an action is sent once, the attempt ceiling holds as
  far as the code can promise, no case is given up early, nothing is sent that
  nobody vetted.
* **Policy.** The decision is computed from rows read one by one and written to
  a row that may have changed. Correct: a human's approval stands.
* **Orchestrator and sweep.** Fire-and-forget runs. Correct: a run that starts
  after the money arrived contacts nobody, retries end, a case that is held comes
  back.
* **Confirmations.** Duplicates, any order, concurrency with the run that
  observes the same payment, a restart. Correct: an outcome only for confirmed
  money, once, never lost; a paid link is always recorded.
* **Review.** The check of an approval and its write are two calls. Correct: one
  message per decision.
* **Ingestion.** `payment.failed`, `payment.captured` and `order.paid` of one order
  come in any order, twice, at once, and are cut off by restarts. Correct: no
  event is answered before what it reports is in a row, no row claims money that
  did not come, nothing takes recorded money back, one failure starts one run.
* **Sweeps and pools.** A sweep collects cases, then a few loops share one cursor
  over the list across an await. Correct: each place of the list is started once,
  whatever fails, and lost to a restart alone.
* **Batches.** Detecting, claiming, counting and completing are steps of several
  requests. Correct: a completed batch has cases that came to an end.
* **Receivables.** A sweep's snapshot is old when it is used: invoices are paid,
  cases closed, deleted. Correct: a promise is kept only for recorded money, has
  one verdict, gets it, and resumes its case once; live promises stay few.
* **Subscriptions and mandates.** Events of several cycles in any order, repeated,
  cut off half way. Correct: no failure is answered without a case, a halted
  subscription reaches a human, the failure count is off by repeated deliveries at
  most and agrees with the status, one payment recovers one case.

`PROJECT.json` lists the hazards one by one with their lines and the properties
that would catch each, or why there is nothing to state.

## 2. The modules

```
RecoveryCase          rows of one case, the strategy table, the policy check, the ceiling
  |-- AutoRecovery       the runs: strategy, policy, execute, observe, escalate; the sweep
  |-- PaymentWebhooks    payment.captured, order.paid, payment_link.paid, closing a case
  |-- HumanReview        approve and reject
        \  |  /
      RecoverySystem     all of them on one case, restarts, fairness, the properties
        |       \-- RevenueLedger   what the product promises about a case (abstract)
  MCRecoverySystem       constants for TLC
  RecoverySystemProofs   types, the ledger
    |-- RecoveryCountProofs   one message per decision, duplicates, the ceiling, giving up, restarts
          |-- RecoveryRaceProofs   no blind retries, nothing unvetted, who overwrites RECOVERED

WorkBag                 what a sweep expects of its pool (abstract)
  SweepPool             runWithConcurrency: the loops and their cursor -- MCSweepPool
    |-- SweepPoolProofs    it is a bag
    |-- Intake             failures, checkouts, batches, and the money of an order
          |-- MCIntake        constants for TLC
          |-- IntakeProofs    types, and what is recorded
                |-- IntakeRunProofs   runs, batches, pools

Receivables             invoices and promises          -- ReceivablesProofs
Recurring               subscriptions and mandates     -- MCRecurring, RecurringProofs
```

There are four specifications, since the services fall into four groups that
meet only in the rows of a case:

* `RecoverySystem` looks into one case: every await of a run that works on it. One
  case is enough there, for none of those services touches the rows of two cases.
* `Intake`, `Receivables` and `Recurring` look at how cases come and go: several
  cases, the events and sweeps that find, open and close them. Of a run they keep
  what it may do to the status and the outcome of its case, at a time when the
  case may have become anything (`Acts`, `RunAct`); what happens inside a run is
  RecoverySystem's.

| Module | Variable or action | In the code |
|---|---|---|
| RecoveryCase | `status`, `outcome`, `payment`, `rows` | `RecoveryCase.status`, `RecoveryOutcome` (who wrote it), `Payment.status` of the failed payment, the `RecoveryAction` rows in creation order |
| | `Determine`, `SelectStrategy`, `MaxAttempts`, `PolicyCheck`, `DefaultPolicies` | `RecoveryStrategyService.determine`, `selectStrategy`, `getMaxAttempts`, `PolicyService.check`, `default-policies.ts` |
| AutoRecovery | `run[w].pc` | the next awaited call of a run; the other fields are its locals |
| | `Detect`, `RetrySweep`, `RunAgent`, `ManualStrategy` | what starts a run: a detector, the sweep, the agent's graph, the dashboard's strategy with the policy check |
| | `ManualExecute`, `ManualObserve`, `ManualEscalate` | one route alone |
| | `AgentRetry`, `ClientStops` | the agent's loop back to the strategy; a client that goes away between or in its calls, which the backend finishes |
| | `Strategy...`, `Policy...`, `Execute...`, `Observe...`, `Escalate...`, `DeletePlaceholder` | one action for each awaited database or channel call with the code up to the next |
| PaymentWebhooks | `hook[h]`, `answered` | deliveries being handled; events Razorpay has a 2xx for |
| | `PayOrder`, `PayLink`, `Deliver`, `Answer`, `Throw` | the customer and Razorpay (environment) |
| | `CapturedRead` ... `CloseTransaction` | `handlePaymentCaptured`, `handleOrderPaid`, `handlePaymentLinkPaid`, `closeRecoveryCase` |
| HumanReview | `review[v]` | an approve or reject request between its calls |
| RecoverySystem | `Crash` | a restart: the locals are gone, the rows stay |
| SweepPool | `pools[p]`: `items`, `cursor`, `at`, `era` | one call of `runWithConcurrency`: its list, the shared cursor, the place each `drain()` loop awaits; the restarts so far |
| | `OpenPool`, `TakeItem`, `ItemDone`, `Restart` | the call, one turn of a loop up to its await, the end of the awaited run, a restart |
| Intake | `rz`, `events` | what happened at Razorpay, and the events it has no 2xx for |
| | `orders`, `payments`, `settled`, `cases`, `batches`, `jobs` | the tables and the BullMQ queue; `settled` are the payment rows that `order.paid` creates |
| | `task[t]` | one delivery, request or sweep; `pc` is its next awaited call |
| | `FailedDelivered` ... `FailedLink` | `handlePaymentFailed` |
| | `AssessRead`, `AssessFind`, `AssessCreate` | `RiskService.assessPayment`, `assessOrderAbandonment` |
| | `SweepFind`, `SweepEnd` | `CheckoutSweepService.sweepOnce` |
| | `CapturedDelivered` ... `CloseTransaction` | `handlePaymentCaptured`, `handleOrderPaid`, `closeRecoveryCase` over several cases |
| | `DetectFind` ... `RunWrite` | `RecoveryBatchesService` |
| | `JobCheck`, `JobEscalate`, `RunAct`, `PoolCheck`, `PoolAct`, `PoolRunEnd`, `BackendRestart` | the runs of the queue, of webhooks and of pools; a restart, which the queue survives |
| Receivables | `invoice`, `cases`, `promises`, `queued` | the tables, and the cases the sweeps handed over |
| | `SweepFind` ... `SweepEnd` | `InvoiceOverdueSweepService`, `assessInvoiceOverdue` |
| | `MarkPaidRead` ... `MarkPaidClose`, `DeleteInvoice`, `DeleteCase` | `InvoicesService`, the cascade of a deletion |
| | `PromiseRead` ... `CheckEnd` | `PromiseToPayService.create`, `PromiseToPaySweepService` |
| | `CloseRead`, `CloseTransaction` | a webhook that closes an invoice's case |
| Recurring | `sent`, `events` | Razorpay's events and those without a 2xx |
| | `subscription`, `mandate`, `cases` | the tables |
| | `Bill`, `TokenChanges`, `PayLink` | Razorpay and the customer (environment) |
| | `FailureWrite` ... `TokenWrite` | the `subscription.*` and `token.*` handlers, `assessSubscriptionFailure`, `assessMandateFailure` |
| | `RunAct`, `Delete`, `BackendRestart` | a run, `SubscriptionsService.delete` and `MandatesService.delete`, a restart |

In RecoverySystem three history fields serve the properties and influence nothing: `sent` (times
the customer was contacted for a row), `replaced` (decisions a reviewer wrote
over a row that was no longer PENDING) and `late` (the run or review began after the
outcome existed). In SweepPool and WorkBag `era` and `restarts` count the restarts. In Intake `started` counts the runs of a failure and `ended` remembers
that a case had come to an end; in Receivables `resumed` counts the times a
promise's case was handed back; in Recurring a case's `open` and `handed` remember the
failures that Razorpay had reported when the case last stopped being active, and the
halts when it last left a human's hands, which tells a case of this cycle from the
finished one of an earlier cycle.

### What is abstracted

* Wording, amounts, contacts, links, times, audit records and the diagnosis by a
  language model are left out. They decide nothing the rules read; where they
  do, a Boolean or a choice stands for the comparison: `withinAmount`, `elapsed`
  (whether the retry interval has passed), the outcome of the channel call.
* The channel call (link, mail, WhatsApp, voice, mandate debit) is one step that
  is refused before anything left, succeeds, or throws, in which case the message
  may have left all the same. The model does not distinguish the debit of a
  mandate from a link: the row changes are the same.
* The policies are constant during a behaviour (any value of the type is
  allowed). A merchant who edits them meanwhile is not modelled.
* Merged reads: an action that reads several rows in one Prisma call is atomic.
  `createStrategyForCase`'s first read is part of the step that starts the run, and
  in `RetrySweep` the sweep's selection as well: between the two a real case may
  change, and the run then goes on as one that a detector started, which `Detect`
  allows in any status.
* A failing database call is not modelled apart from the unique outcome row, the
  row deleted meanwhile and the restart. A call or an audit write that fails between
  the claim of an action and its record strands it as a restart does:
  `StrandedByRestarts` counts restarts since they alone are modelled.
* RecoverySystem: one customer payment per case, by late capture, at the checkout
  or by link. `linked` stays true once a link was stored, though a resend replaces
  `externalReferenceId` (`recovery.service.ts:564`), so that a payment by the older
  link is found by the id here and by the notes of `payment.captured` alone in the code.
* Intake: a capture pays its order, and an order is paid once. Which unpaid orders
  a sweep finds depends on clocks and signals that are left out: any set may be
  found. Overdue invoices in a batch are left to Receivables. The enqueues of a batch
  are one step.
* Receivables: `runWithConcurrency` is a bag there (`queued`), which is what
  SweepPoolProofs shows it to be; one run acts at a time, and there is no restart.
  Every invoice is past its due date and every promise is due: dates are left out.
* Recurring: subscriptions and mandates start where they have been registered.
* The agent's runs are those of RecoverySystem and of Intake's queue; the runs in
  Receivables and Recurring are the ones their detectors fire.

## 3. The checks

The RecoverySystem runs (`race`, `review`, `confirm`, `live`, `flip`, `held`, `stranded`)
instantiate `MCRecoverySystem`, the others the module named.

| Run | Instance | Properties | What it shows |
|---|---|---|---|
| `race` | two run slots, two starts, six rows, a delivery, payment by link, retries limited to one | `CeilingOverrunBounded`, `DuplicatesBounded`, `ExhaustedIsJustified` | how far racing runs pass the ceiling and the duplicate check; a case is given up only when a type's attempts were used up |
| `review` | two runs, two reviewers, every retry needs approval | `SentOncePerDecision`, `NothingRunsUnvetted` | each message has a decision of its own, and only vetted actions run although execute takes the newest waiting action of any type |
| `confirm` | one run, two deliveries, one reviewer, one restart, all ways to pay, every retry needs approval | `TypeOK`, `RecoveredHasOutcome`, `ImplementsLedger`, `StrandedByRestarts`, `ConfirmedIsKept` | the ledger under duplicate, reordered and concurrent confirmations; an action is left EXECUTING by the restart alone; who may take a confirmed case out of RECOVERED again |
| `live` | one run after the other, two starts, default policies, fairness | `LateRunNeverExecutes`, `LinkPaymentIsRecorded`, `RetriesEnd` | no blind retries even when a stale write reopened the case; a paid link is recorded; the sweep's retries end |
| `flip`, `held`, `stranded` | see section 6 | one each | where the code departs from its comments |
| `orders` (`MCIntake`) | two orders and one payment attempt, two tasks, a pool, one batch, two cases, two extras | `TypeOK`, `MoneyIsReal`, `FailureStartsOneRun`, `CompletedBatchIsDone`, `FailureIsRecorded`, `MoneyIsRecorded`, `MoneyStaysRecorded` | what the tables say is true, comes before the answer, and stays; a failure starts one run |
| `pool` (`MCSweepPool`) | two calls of `runWithConcurrency` at once, three loops each, lists of up to five items, one restart | `PoolIsBag` | loops that share the cursor run each item once, and only a restart loses one |
| `promises` (`Receivables`) | an invoice and its case, two tasks, two promises, four requests, fairness | `TypeOK`, `KeptIsBacked`, `ResumedOncePerMiss`, `LivePromisesBounded`, `VerdictIsFinal`, `PromiseGetsVerdict` | what a promise's verdict rests on, that it stands, and that it comes |
| `failures` (`MCRecurring`) | a subscription with two cycles or a mandate, two deliveries, four events, two extras | `TypeOK`, `FailureHasCase`, `HaltIsEscalated`, `CountAgrees`, `RecoveriesBounded` | no failure is answered without a case that was active after it, no halt without a hand-over after it, whatever is repeated, overtaken or cut off; by how much the count of failures and the recoveries can be off |
| `recount` (`MCRecurring`) | the same with the subscription only and one extra | `OneRecoveryPerPayment` | see section 6 |

Every property of a passing run has a mutant in `PROJECT.json`: a plausible bug
in one mapped definition for which TLC reports the property violated under the
same configuration. `AttemptedUnlessFailed`, `CeilingReachedEarly` and the other
definitions marked "mutant" exist for that only.

### Bounds

* `Runs`: two slots are needed for every race between two runs. Slots are reused,
  so more than two runs occur in a behaviour, though not at one time. The
  theorems of section 5 do not depend on the number.
* `MaxStarts`: the runs started from outside that may create rows, by a detector, the
  agent, the dashboard's strategy or the escalation route. Sweeps, manual executions
  and manual observations are not bounded.
* `MaxRows` with `Room`: a run starts only while the table has room for what it
  and the other runs may create, so a full table never stops a run half way.
  `RetriesEnd` is not made true by this bound: a case the sweep may still take
  keeps `RetryEligible` true when there is no room, and would violate it.
* Retries cut to one (`OneRetryPolicies`) or two (`ReviewedPolicies`): the ceiling
  and exhaustion are met within the rows. The `live` run has the default
  policies, and its natural channel, voice and exhaustion fit in five rows.
* `PayWays`, `Hooks`, `Reviewers`, `MaxCrashes`: two deliveries are needed for two
  events to race, one restart for a half-done operation. `review` and the
  violation runs switch off what their question does not need.
* `Tasks`: two are needed for two deliveries, requests or sweeps to meet; they are
  reused. `MaxExtras` and `MaxRequests` bound what nothing forces to happen:
  requests, restarts, deletions, and deliveries of an event that is answered or in
  hand. An unanswered event is delivered again without limit.
* `orders`: the second order makes batches and sweeps with two cases, and
  `MaxCases` lets both orders have one, or one order two. One attempt that fails
  and is captured later is what the handlers distinguish; `IntakeProofs` holds for
  any number. It has one pool loop; the code's limit of three is in `pool`, where
  five items give each loop more than one turn, and `SweepsAreBags` holds for any
  number of loops.
* `failures`: two cycles are needed for a charge or failure of one to meet the case
  of the other, and four events make a charge, two failures and a halt. `MaxBusy`
  is 1: a subscription and a mandate share no row, so either is looked at, not
  both. Two extras let a restart cut a delivery off and a repetition follow.
* A full table counts as an error of the database in Intake and Receivables, an
  error the code may meet at the same place. In Recurring the delivery waits
  instead, since an error would be repeated for ever; nothing is claimed of a
  delivery that waits.
* Symmetry: slots of runs, reviewers, tasks and pool loops are interchangeable; it
  is used in `race`, `review`, `orders`, `failures` and `recount`, which have no
  liveness property.
* Deadlock is checked in the RecoverySystem runs: manual observation is always
  possible on an idle slot, so a deadlock would be a run that is stuck in the
  middle. It is not in the others (`CHECK_DEADLOCK FALSE`): once the bounded
  requests and events are used up, those systems rest.

### Fairness

`RecoverySystem`'s `FairSpec` assumes weak fairness of each run, delivery and review in flight: Node
resumes a promise once its await is settled. It assumes strong fairness of the
retry sweep, which BullMQ's job scheduler repeats at an interval
(`recovery-auto-retry-sweep.service.ts:42`), and of the delivery of an event that
has not been answered, which Razorpay repeats. Strong and not weak, because the
slots of the model may be lent to other work again and again, which is no
obstacle in the code. Nothing is assumed of detectors, customers, reviewers, the
agent or the dashboard: what they start is finished by the backend, not begun. There is no restart in the runs with fairness: after a restart in
the middle of an execution the action stays EXECUTING for good (see the hazards).

`Receivables`' `FairSpec` assumes weak fairness of the steps of each task, and strong
fairness of the promise sweep for each pending promise: the BullMQ scheduler calls
it at an interval (`promise-to-pay-sweep.service.ts:62-77`), and it reads every
promise that is due. Nothing is assumed of requests, the invoice sweep and runs.

## 4. The refinement

`RevenueLedger` is the promise of `architecture.md` section 7: the provider
confirms the money, and only then is a recovery recorded, once and for good. The
system implements it under `confirmed <- paid # "none"`, `recorded <- outcome #
"none"`. The content is in what the steps of the system must not do: create an
outcome from a captured payment nobody made, from an action that was merely
sent, twice, or delete it.

`WorkBag` is what the sweeps rely on when they pass a list to `runWithConcurrency`:
places wait, each is started once and ends, whatever the other runs do. Nothing but
a restart forgets a place that was not started, so a call that gives up its list when
a run throws is no bag. A pool implements it under `waiting <- ` the places behind the
cursor, `working <- ` the places the loops await, `restarts <- era`. The `pool` run
checks this of two calls; `PoolsImplementBags` proves it of the helper alone and
`SweepsAreBags` of every pool of the whole Intake.

## 5. The proofs

| Theorem | Module | Statement |
|---|---|---|
| `TypeCorrect` | RecoverySystemProofs | `Spec => []TypeOK` |
| `RecoveredIsBacked` | RecoverySystemProofs | `Spec => []RecoveredHasOutcome` |
| `LedgerImplemented` | RecoverySystemProofs | `Spec => ImplementsLedger` |
| `NoBlindRetries` | RecoveryRaceProofs | `Spec => []LateRunNeverExecutes` |
| `NothingRunsUnseen` | RecoveryRaceProofs | `Spec => []NothingRunsUnvetted` |
| `ConfirmationsAreKept` | RecoveryRaceProofs | `Spec => ConfirmedIsKept` |
| `OneMessagePerDecision` | RecoveryCountProofs | `Spec => []SentOncePerDecision` |
| `DuplicatesAreBounded` | RecoveryCountProofs | `Spec => []DuplicatesBounded` |
| `CeilingHolds` | RecoveryCountProofs | `Spec => []CeilingOverrunBounded` |
| `ExhaustionIsJustified` | RecoveryCountProofs | `Spec => []ExhaustedIsJustified` |
| `RestartsAloneStrand` | RecoveryCountProofs | `Spec => []StrandedByRestarts` |
| `PoolsImplementBags` | SweepPoolProofs | `PoolSpec => PoolsAreBags` |
| `IntakeTypes` | IntakeProofs | `Spec => []TypeOK` |
| `RecordedMoneyIsReal` | IntakeProofs | `Spec => []MoneyIsReal` |
| `FailuresAreRecorded` | IntakeProofs | `Spec => []FailureIsRecorded` |
| `MoneyGetsRecorded` | IntakeProofs | `Spec => []MoneyIsRecorded` |
| `RecordedMoneyStays` | IntakeProofs | `Spec => MoneyStaysRecorded` |
| `OneRunPerFailure` | IntakeRunProofs | `Spec => []FailureStartsOneRun` |
| `CompletedBatchesAreDone` | IntakeRunProofs | `Spec => []CompletedBatchIsDone` |
| `SweepsAreBags` | IntakeRunProofs | `Spec => PoolsAreBags` |
| `ReceivablesTypes` | ReceivablesProofs | `Spec => []TypeOK` |
| `KeptPromisesAreBacked` | ReceivablesProofs | `Spec => []KeptIsBacked` |
| `MissedPromiseResumesOnce` | ReceivablesProofs | `Spec => []ResumedOncePerMiss` |
| `VerdictsAreFinal` | ReceivablesProofs | `Spec => VerdictIsFinal` |
| `LivePromisesAreBounded` | ReceivablesProofs | `Spec => []LivePromisesBounded` |
| `RecurringTypes` | RecurringProofs | `Spec => []TypeOK` |
| `FailuresHaveCases` | RecurringProofs | `Spec => []FailureHasCase` |
| `HaltsAreEscalated` | RecurringProofs | `Spec => []HaltIsEscalated` |
| `CountsAgree` | RecurringProofs | `Spec => []CountAgrees` |
| `RecoveriesAreBounded` | RecurringProofs | `Spec => []RecoveriesBounded` |

They hold for every value of the constants that the assumptions of the modules
allow, and TLC evaluates those in every run:

* RecoverySystem: `NoLimit` is no number, `MaxRows` is one, `Policies` has its type,
  `Runs` is finite and not empty, `PayWays` are among the known ones.
* SweepPool: the loops of a call are finitely many and at least one (`limit`).
* Intake: `OrderOf` maps payments to orders, `None` is neither, an order is no
  payment, the bounds are numbers.
* Receivables: `NoInvoice` is no invoice, `Tasks` is finite, the bounds are numbers.
* Recurring: a subscription is no mandate, `None` is neither, `Tasks` is finite, the
  bounds are numbers.

### RecoverySystem

* **Types.** `TypeInv` adds to `TypeOK` that a run in strategy or policy has an
  action type and that a delivery in flight has an event. Without it a row of
  type "none", or an answer to no event, could not be excluded.
* **Ledger.** `MoneyInv` says that whatever is on its way to an outcome has seen
  the customer's money: a delivery in flight, a captured payment, a run about to
  create the outcome; and that a run about to set RECOVERED has written the
  outcome itself. `RecoveredHasOutcome` alone is not inductive: nothing in it says why
  the run at `o_close` may write.
* **No blind retries.** `LateInv`: a late run has an outcome before it, and a late
  run of the orchestrator, the agent or the dashboard's strategy stays in strategy,
  the policy check's first read, and escalation, because `CaseIsFinal` asks for the outcome and not for the status.
  It needs from the ledger that an outcome is never lost.
* **One message per decision.** `SendInv` counts per row what may still lead to a
  message: the messages sent, the runs that hold the row between claim and call,
  and one more while the row may be claimed; all of it is at most one plus the
  reviewers' late decisions.
* **Duplicates.** `DuplicatesBounded` is inductive as it stands: the first run
  that finds no live action starts from zero, and creating moves one unit from
  the creators to the rows.
* **Ceiling.** `CeilingInv` adds what a run between claim and record knows: the
  row it is about to claim has the run's type, and the row it records counts as
  an attempt already unless a reviewer wrote over it. The bound itself is renewed
  by each run that reads a snapshot with room left.

* **Giving up.** `ExhaustInv` says why each writer of EXHAUSTED may write: a run at
  such a write has seen the attempts of some type used up, a run between its snapshot
  and the recorded answer carries a count that was true and whose own attempt is not
  among the counted. Attempts used up stay used up, since a row that was attempted
  stays so or was written over by a reviewer, and `UsedUp` counts both. The property
  alone says nothing of a run at `x_out`, which writes from a count taken before the
  channel call.
* **Nothing unvetted.** `VettedInv`: a decision is written over by decisions only, a
  run about to write one has one, and a run that goes to claim a row saw it allowed.
  What no one decided can then be created, deleted and reviewed, but not claimed.
* **Who overwrites RECOVERED.** A write that takes a case a webhook closed out of
  RECOVERED is made by a run or a review that began before the outcome existed, by a
  rejection, or by the escalation route, called alone or by the agent. That nobody else
  does is what has to be shown: between the start of any other call and its first write
  of the status there is a read that stops at an outcome or at RECOVERED
  (`StatusPcsEntered`). A late one therefore gets to such a write only while the case
  already reads something else, and the case does not come back to RECOVERED then:
  a delivery finds the outcome there, and a run at `o_close` has written its own, so
  that it is not the webhook's.
* **Restarts.** `StrandedByRestarts` is inductive. A run between claim and record keeps
  the action it claimed (`RecordingStays`), EXECUTING is written by a claim alone
  (`ClaimedByRun`), and a restart adds at most the actions held by the runs it cuts
  off, of which there are no more than runs (`CrashStrands`).

Two descriptions of a step keep the counting proofs short. `StepCases`: every step
but seven leaves the runs that are about to write a row alone (`CoolStep`), and each
of the seven has a lemma that says what it does. `StepWrites`: a step leaves a row
as it is or is one of five kinds of write, with the decision it leaves.

### SweepPool

The invariant `PoolInv` says that a loop awaits a place at or before the cursor and
that no two loops await the same one. So a place behind the cursor is nobody's,
and taking it moves it from `waiting` to `working`. The call returns with its last
loop, when both are empty: no other step but the restart, which `era` counts, empties
a list. Every Intake step is a step of the pools or leaves them alone, which carries
the result over.

### Intake

`Inv` consists of `TypeOK`, `PoolInv`, and

* `RowsOK`: an unused row says nothing, a case taken over by a failed payment
  belongs to that payment's order, every final status has left its trace, and
  `MoneyIsReal`;
* `TasksFit`: what a task has read before its await still means something after it.
  A delivery past its write of the order knows that the order is PAID; one that
  goes to close a case has money behind it; the case it holds exists and is of the
  order;
* `Recorded` (the two properties about answers) and `EventsHappened` (a pending
  event is one that took place).

`RowsKeep` says what no step takes back: money, the links of a case, its trace. It
is shown once per action and used twice: another task's locals stay fitting
because of it, and `MoneyStaysRecorded` is part of it.

`StartInv`, for `FailureStartsOneRun`, is that the runs started for a payment and the
tasks between creating its row and starting its run are one together at most, and none
while there is no row. The unique `externalId` is what lets one task in only.

`BatchInv`, for `CompletedBatchIsDone`: one task claims for a batch, it claims no
more cases than the batch's total, and who is about to write COMPLETED has seen
all of them ended. A bare `CompletedBatchIsDone` is not inductive: it says nothing
of a completer that is already on its way, and not why a batch that was seen
complete can get no further case.

### Receivables

Steps are *calm* (they touch no promise, take nothing from the rows, and leave the
other tasks' snapshots alone) or one of three promise steps: creating one, a verdict,
a deletion with its case. `DuesAreBacked` is the strengthening for `KeptIsBacked`: a
snapshot that says recovered is of a case whose outcome is still there, or of a
promise that is gone with it, since nothing deletes an outcome alone.
`PromisesHaveCases` says that the case of a promise is a row that exists, so that no
case created later is taken for it. `LivePromisesBounded` counts the creators:
finding no live promise starts from zero, and creating moves one unit from the tasks
to the rows.

### Recurring

`Fits` says which events a delivery can be handling at each of its awaits, and that
the case it is about to escalate is one of the halted subscription. `Settled` is
what an answer claims about its event: a case of the entity that was active after the
event, one in a human's hands after a halt, or a deletion. Each step that answers
establishes it, because it has just found or made such a case (`SettledBy`), and
`RowsKeep` keeps it for the answers given before: cases do not change their owner, a
deleted row stays deleted, and the history of a case (`OpenDuring`, `HandedDuring`) only
grows, since every write of a status takes it along (`WrittenRow`, `HistoryStays`).
`RowsOK` adds that a deletion takes the cases along, and that the history of a row
holds nothing Razorpay has not reported (`HistoryIsPast`), so that a case cannot have
been there for the failure of a later cycle. A redelivery after a restart starts again from the
beginning, which is what makes `FailureHasCase` hold here and not in Intake, where
the first thing `payment.failed` does is to make its own redelivery a duplicate.

`CountInv`, for `CountAgrees`, says of a subscription's count from above that what is
counted, what deliveries are about to count and the failures that wait for a delivery
are together at most the failures plus what repetitions and restarts may have added
(each at most one for every task). A deletion ends the counting, and only the bound
on the count itself is left then. From below: once some delivery has counted a
failure, having answered it or being past its write, the count is positive until
money comes, since only a payment's reset clears it.

`PaidInv`, for `RecoveriesBounded`, is a balance per subscription: cases that have an
outcome, deliveries on their way to close one, and payments waiting to be delivered
are together at most the payments made and the extras used up. A close turns a
delivery into a recovery, a delivery takes a waiting payment, a repetition pays with
an extra. A restart gives back every payment in hand and costs one extra, which is
enough because giving back takes nothing away: the deliveries it forgets were
counted. Two facts keep the sides apart: a link belongs to a subscription for good
(`LinksOwned`), and the case a delivery is about to close is its payer's (`Closes`).

### Only model-checked

The liveness properties `LinkPaymentIsRecorded`, `RetriesEnd` and `PromiseGetsVerdict`,
since TLAPS has no rules for fairness and ENABLED here. Every other property of a
passing run is stated by a theorem; `PoolIsBag` is `PoolsAreBags` for the two calls of
the `pool` run, as TLC does not check a refinement under a quantifier.

## 6. Where the code and its comments disagree

* `flip`. `maybeEscalate` promises never to flip a RECOVERED case. It reads the
  status, awaits, and escalation then updates by id. A confirmation in between is
  overwritten by ESCALATED. The outcome row stays (`LedgerImplemented`) and later
  runs refuse to execute (`NoBlindRetries`), so only the status is wrong. Of the
  orchestrator's runs only those that began before the confirmation do it;
  `ConfirmationsAreKept` lists everything that does.
* `held`. On REQUIRE_APPROVAL a sweep's run leaves the placeholder PENDING and
  counts on the next sweep; but the sweep takes only cases without a PENDING
  action, so the case waits for a human.
* `stranded`. A decision computed before an approval is written over it. The row is
  APPROVED with decision REQUIRE_APPROVAL, which execute refuses and approve no
  longer accepts.
* `recount`. `subscription.charged` closes whatever case of the subscription is
  active. Delivered a second time after the next cycle failed, it closes that
  cycle's case too: one payment, two recoveries. `RecoveriesBounded` says that
  repetitions are the only way there.

Behaviour that the models show, that a reader of the code may not expect, and that
contradicts no line of it:

* `POST /escalation/cases/:id` asks nothing of the case. The agent calls it whenever
  policy does not allow, and policy blocks a case that is recovered: an agent's run
  from the queue that starts after the confirmation turns RECOVERED into ESCALATED. A
  rejection turns it into STOPPED. The outcome row stays in both.
* A second approval whose check came before the first one's execution sets the row
  back to APPROVED, and execute sends again. The claim in execute, there so that racing
  calls do not charge twice, does not see this. `OneMessagePerDecision` is the exact
  bound.
* A `subscription.pending` that is delivered twice, or again after a restart cut its
  handling off, is counted twice as a failed payment (`CountsAgree` bounds by how much).
* A restart after `payment.failed` has written the payment makes its redelivery a
  duplicate: the payment is recorded, no case is opened by it. A batch may find it.
* A late `payment.failed` opens a case for an order that is paid, and starts a run.
* One failing assessment ends a checkout or invoice sweep before any run starts.
  The cases opened before it are not found by the next sweep, which looks for
  orders without a case and for ISSUED invoices.
* An invoice paid between the sweep's read and its mark becomes OVERDUE again.
  Promises do not rest on that status (`KeptPromisesAreBacked`).
* Two assessments at once open two active cases for one entity.
* A batch counts cases that an earlier batch has claimed, and then never completes.
* `token.confirmed`, delivered again after `token.cancelled`, makes the mandate
  CONFIRMED; `token.paused` or `token.cancelled` before the confirmation is answered as
  unknown and lost.

## 7. Plan

Done: the modules of section 2. What is left, in this order:

1. `Policies` as a variable that the merchant edits during a run, with the ceiling
   stated against the largest limit seen.
2. One specification that puts a `RecoverySystem` run in place of `Acts` in Intake, to
   show that `Acts` allows whatever a run does.
3. `createPaymentLink`'s retry on a rate limit.

### Not modelled, and why

* **Retry sequencer and `createRecurringCharge`.** They act on a case whose payment's
  order has a `mandateId`, and the one place that writes such an order is
  `createRecurringCharge` itself. No reachable state has such a case, so every
  property of them would hold of nothing. For the same reason `failedDebitCount` is
  left out: it counts debits that nothing makes.
* **The recovery agent's judgement.** The calls of the LangGraph run that change state
  are in AutoRecovery (`RunAgent`, `AgentRetry`, the escalation route on anything but
  ALLOW, and `ClientStops` for its timeouts and recursion limit). Left out are the
  recovery probability and the diagnosis, which go into texts only, and its in-memory
  state.
* **Razorpay client, mail, voice, WhatsApp.** Input and output. What a call may
  answer is in `ExecuteCall`.
* **Language-model texts and the ML service.** They are displayed, and decide
  nothing the rules read.
* **Payments, customers, merchants, auth, credentials, analytics, audit,
  notification.** CRUD, cryptography, reading and append-only logging without a
  protocol; the one exception, `PaymentsService.create` and its unique id, is in
  Intake. Signature checks and merchant resolution of the webhook controller are
  pure functions of the request.
* **Demo reset and the Recovery Lab's set-up.** Test data.
* **Frontend.** About two thirds of the repository's implementation lines: pages,
  panels and texts. Its calls are those of `RunAgent`, `ManualStrategy`,
  `ManualExecute`, `ManualObserve`, `ManualEscalate`, the review actions and the requests of the other modules.

## 8. Running

```
tlc -workers 2 -config RecoverySystem_race.cfg MCRecoverySystem
tlc -workers 2 -config Intake_orders.cfg       MCIntake
tlc -workers 2 -config SweepPool_pool.cfg      MCSweepPool
tlc -workers 2 -config Receivables_promises.cfg Receivables
tlc -workers 2 -config Recurring_failures.cfg  MCRecurring
tlapm RecoveryCountProofs.tla
tlapm IntakeRunProofs.tla
```
