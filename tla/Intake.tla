------------------------------- MODULE Intake -------------------------------
(***************************************************************************)
(* How a failed payment or an abandoned checkout becomes a recovery case,  *)
(* and how the order's money closes it: the payment.failed,                *)
(* payment.captured and order.paid handlers of RazorpayWebhookService,     *)
(* RiskService.assessPayment and assessOrderAbandonment,                   *)
(* CheckoutSweepService and RecoveryBatchesService, with the pools the     *)
(* sweep hands its cases to (SweepPool).                                   *)
(*                                                                         *)
(* Razorpay delivers an event until it is answered, and may deliver it     *)
(* again; a task is one delivery, request or sweep, and the backend may    *)
(* restart between any two of its awaits.                                  *)
(***************************************************************************)
EXTENDS SweepPool

CONSTANTS
    Orders,        \* orders of one merchant, each with its internal row
    Payments,      \* payment attempts at Razorpay
    OrderOf,       \* the order a payment pays
    None,          \* a null id
    Tasks,         \* slots for concurrent deliveries, requests and sweeps
    MaxCases,      \* bound: RecoveryCase rows
    MaxBatches,    \* bound: RecoveryBatch rows
    MaxExtras      \* bound: requests, sweeps, restarts, and deliveries of events
                   \* that are answered or in hand

ASSUME OrderOfAssumption == OrderOf \in [Payments -> Orders]
ASSUME NoneAssumption    == None \notin Orders \cup Payments
ASSUME KindsAssumption   == Orders \cap Payments = {}
ASSUME BoundsAssumption  == {MaxCases, MaxBatches, MaxExtras} \subseteq Nat

VARIABLES
    rz,         \* what became of each payment at Razorpay
    events,     \* the events Razorpay still has to get an answer for
    orders,     \* Order.status
    payments,   \* Payment rows: the status, or "NONE"
    settled,    \* the orders with a Payment row made by order.paid
    cases,      \* RecoveryCase rows, by creation order
    batches,    \* RecoveryBatch rows
    task,       \* the local variables of each task
    jobs,       \* the recovery queue (Redis)
    acting,     \* the cases with a run under way that no pool waits for
    loops,      \* the pool loops whose run goes on to act
    started,    \* history: automatic runs started for a failed payment
    extras      \* requests, sweeps, restarts and repeated deliveries so far

rowVars  == <<orders, payments, settled, cases, batches>>
runVars  == <<jobs, acting, loops, pools, started>>
envVars  == <<rz, events, extras>>
vars     == <<rowVars, runVars, envVars, task>>

CaseIds  == 1 .. MaxCases
BatchIds == 1 .. MaxBatches
Entities == Orders \cup Payments
Loops    == Pools \X Workers

Active   == {"ELIGIBLE", "IN_PROGRESS", "ESCALATED"}
Terminal == {"RECOVERED", "EXHAUSTED", "ESCALATED"}
Statuses == Active \cup Terminal \cup {"NONE"}

\* ended is history: the case was in a terminal status once.
CaseRow == [order : Orders \cup {None}, payment : Payments \cup {None}, status : Statuses,
            outcome : BOOLEAN, batch : 0 .. MaxBatches, ended : BOOLEAN]
NoCase  == [order |-> None, payment |-> None, status |-> "NONE", outcome |-> FALSE,
            batch |-> 0, ended |-> FALSE]

BatchRow == [status : {"NONE", "PENDING", "RUNNING", "COMPLETED"}, total : Nat]
NoBatch  == [status |-> "NONE", total |-> 0]

Event == [type : {"failed", "captured"}, of : Payments] \cup [type : {"paid"}, of : Orders]

Pcs == {"idle", "f_create", "f_match", "f_link", "c_write", "c_order", "o_write", "c_match",
        "h_tx", "a_next", "a_find", "a_create", "b_create", "b_claim", "g_read",
        "g_write", "r_write"}

\* kind says where a finished assessment goes on; event, payment, order and seen
\* are what a handler read at first, todo the entities to assess, opened the cases.
Kinds == {"event", "sweep", "batch"}

Task == [pc : Pcs, kind : Kinds, event : Event \cup {None}, case : 0 .. MaxCases,
         payment : Payments \cup {None}, seen : {"NONE", "FAILED"},
         todo : SUBSET Entities, entity : Entities \cup {None}, opened : SUBSET CaseIds,
         batch : 0 .. MaxBatches]

IdleTask == [pc |-> "idle", kind |-> "event", event |-> None, case |-> 0, payment |-> None,
             seen |-> "NONE", todo |-> {}, entity |-> None, opened |-> {}, batch |-> 0]

TypeOK ==
    /\ rz \in [Payments -> SUBSET {"failed", "captured"}] /\ events \subseteq Event
    /\ orders \in [Orders -> {"CREATED", "PAID"}]
    /\ payments \in [Payments -> {"NONE", "FAILED", "CAPTURED"}] /\ settled \subseteq Orders
    /\ cases \in [CaseIds -> CaseRow] /\ batches \in [BatchIds -> BatchRow]
    /\ task \in [Tasks -> Task]
    /\ jobs \subseteq CaseIds /\ acting \subseteq CaseIds
    /\ loops \subseteq Loops /\ PoolTypeOK /\ started \in [Payments -> Nat]
    /\ extras \in Nat

Init ==
    /\ rz = [x \in Payments |-> {}] /\ events = {}
    /\ orders = [o \in Orders |-> "CREATED"]
    /\ payments = [x \in Payments |-> "NONE"] /\ settled = {}
    /\ cases = [c \in CaseIds |-> NoCase] /\ batches = [b \in BatchIds |-> NoBatch]
    /\ task = [t \in Tasks |-> IdleTask]
    /\ jobs = {} /\ acting = {} /\ loops = {} /\ PoolInit
    /\ started = [x \in Payments |-> 0]
    /\ extras = 0
-----------------------------------------------------------------------------
(***************************************************************************)
(* Razorpay: a payment fails or is captured, a failed one possibly later   *)
(* on, and an order takes one payment only.                                *)
(***************************************************************************)
PaidAt(o) == \E x \in Payments : OrderOf[x] = o /\ "captured" \in rz[x]

Fail(x) ==
    /\ rz[x] = {}
    /\ rz' = [rz EXCEPT ![x] = {"failed"}]
    /\ events' = events \cup {[type |-> "failed", of |-> x]}
    /\ UNCHANGED <<rowVars, runVars, task, extras>>

Capture(x) ==
    /\ ~PaidAt(OrderOf[x])
    /\ rz' = [rz EXCEPT ![x] = @ \cup {"captured"}]
    /\ events' = events \cup {[type |-> "captured", of |-> x], [type |-> "paid", of |-> OrderOf[x]]}
    /\ UNCHANGED <<rowVars, runVars, task, extras>>

Happened(e) == IF e.type = "paid" THEN PaidAt(e.of) ELSE e.type \in rz[e.of]
-----------------------------------------------------------------------------
Exists(c)     == cases[c].status # "NONE"
IsActive(c)   == cases[c].status \in Active
OrderOfRow(c) == IF cases[c].payment # None THEN OrderOf[cases[c].payment] ELSE cases[c].order
CasesOf(e)    == {c \in CaseIds : IsActive(c) /\ e \in {cases[c].order, cases[c].payment}}
PaymentRows(o) == {x \in Payments : OrderOf[x] = o /\ payments[x] # "NONE"}
HasPayment(o) == PaymentRows(o) # {} \/ o \in settled

Idle(t)       == task[t].pc = "idle"
At(t, pc)     == task[t].pc = pc
Become(t, r)  == task' = [task EXCEPT ![t] = r]
Goto(t, pc)   == Become(t, [task[t] EXCEPT !.pc = pc])
Silent        == UNCHANGED <<rowVars, runVars, envVars>>

\* An answer of 200, a thrown error (Razorpay delivers the event again), and the
\* end of a task that is no delivery.
Answer(t)     == /\ events' = events \ {task[t].event}
                 /\ Become(t, IdleTask)
                 /\ UNCHANGED <<rz, extras>>
Throw(t)      == Become(t, IdleTask) /\ Silent

SetCase(c, r) == /\ cases' = [cases EXCEPT ![c] = r]
                 /\ UNCHANGED <<orders, payments, settled, batches>>

\* Every status write of a case leaves its trace in the history.
Written(c, s) == [cases[c] EXCEPT !.status = s, !.ended = @ \/ s \in Terminal]

Extra         == extras < MaxExtras /\ extras' = extras + 1

\* A delivery: of an event Razorpay has no answer to and no connection open for,
\* or once more.
Deliver(t, e) ==
    /\ Idle(t)
    /\ IF e \in events /\ \A u \in Tasks : task[u].event # e
       THEN UNCHANGED extras
       ELSE Happened(e) /\ Extra
-----------------------------------------------------------------------------
(***************************************************************************)
(* payment.failed.                                                         *)
(***************************************************************************)
FailedDelivered(t, x) ==
    LET e == [type |-> "failed", of |-> x] IN
    /\ Deliver(t, e)
    /\ \/ /\ payments[x] # "NONE"
          /\ events' = events \ {e} /\ UNCHANGED task
       \/ /\ payments[x] = "NONE"
          /\ Become(t, [IdleTask EXCEPT !.pc = "f_create", !.event = e, !.payment = x])
          /\ UNCHANGED events
    /\ UNCHANGED <<rowVars, runVars, rz>>

\* Mutants: a recorded payment does not stop the next delivery, a captured one does
\* not, and a failure of a paid order is dropped.
NeverTaken(x)    == FALSE
TakenIfFailed(x) == payments[x] = "FAILED"
TakenOrPaid(x)   == payments[x] # "NONE" \/ orders[OrderOf[x]] = "PAID"

\* PaymentsService.create: the unique externalId makes the loser of a race throw
\* a ConflictException, which counts as a duplicate.
IsTaken(x) == payments[x] # "NONE"

FailedCreate(t) ==
    LET x == task[t].payment IN
    /\ At(t, "f_create")
    /\ \/ IsTaken(x) /\ Answer(t) /\ UNCHANGED <<rowVars, runVars>>
       \/ /\ ~IsTaken(x)
          /\ payments' = [payments EXCEPT ![x] = "FAILED"]
          /\ Goto(t, "f_match")
          /\ UNCHANGED <<orders, settled, cases, batches, runVars, envVars>>

\* An open checkout-abandonment case of the order is taken over; otherwise the
\* payment is assessed.
Abandoned(o) == {c \in CaseIds : cases[c].order = o /\ cases[c].payment = None /\ IsActive(c)}

FailedMatch(t) ==
    LET x == task[t].payment
        found == Abandoned(OrderOf[x]) IN
    /\ At(t, "f_match")
    /\ \/ \E c \in found : Become(t, [task[t] EXCEPT !.pc = "f_link", !.case = c])
       \/ found = {} /\ Become(t, [task[t] EXCEPT !.pc = "a_next", !.todo = {x}])
    /\ Silent

Stops(c) == cases[c].outcome \/ cases[c].status \in {"RECOVERED", "EXHAUSTED"}

\* void runAutomaticRecovery(case): nobody waits for the run, and it goes on from
\* its first look at the case only if that is not finished.
StartRun(t, c) ==
    /\ acting' = IF Stops(c) THEN acting ELSE acting \cup {c}
    /\ started' = [started EXCEPT ![task[t].payment] = @ + 1]
    /\ UNCHANGED <<jobs, loops, pools>>

FailedLink(t) ==
    LET c == task[t].case IN
    /\ At(t, "f_link")
    /\ SetCase(c, [cases[c] EXCEPT !.payment = task[t].payment])
    /\ StartRun(t, c)
    /\ Answer(t)

-----------------------------------------------------------------------------
(***************************************************************************)
(* RiskService.assessPayment and assessOrderAbandonment, one entity at a   *)
(* time; a refused one ends the whole task with an error.                  *)
(***************************************************************************)
Refused(e) == IF e \in Payments THEN payments[e] # "FAILED" ELSE HasPayment(e)

AssessRead(t, e) ==
    /\ At(t, "a_next") /\ e \in task[t].todo
    /\ IF Refused(e)
       THEN Become(t, IdleTask)
       ELSE Become(t, [task[t] EXCEPT !.pc = "a_find", !.entity = e, !.todo = @ \ {e}])
    /\ Silent

\* The case goes on the task's list; in payment.failed there is nothing after it
\* but the run.
AssessedAs(t, c) ==
    \/ /\ task[t].kind = "event"
       /\ StartRun(t, c)
       /\ Answer(t)
    \/ /\ task[t].kind # "event"
       /\ Become(t, [task[t] EXCEPT !.pc = "a_next", !.entity = None, !.opened = @ \cup {c}])
       /\ UNCHANGED <<runVars, envVars>>

AssessFind(t) ==
    LET found == CasesOf(task[t].entity) IN
    /\ At(t, "a_find")
    /\ \/ \E c \in found : AssessedAs(t, c)
       \/ found = {} /\ Goto(t, "a_create") /\ UNCHANGED <<runVars, envVars>>
    /\ UNCHANGED rowVars

\* A full table (a bound) counts as an error of the database.
AssessCreate(t) ==
    LET e == task[t].entity
        row == [NoCase EXCEPT !.status = "ELIGIBLE",
                              !.payment = IF e \in Payments THEN e ELSE None,
                              !.order = IF e \in Orders THEN e ELSE None] IN
    /\ At(t, "a_create")
    /\ \/ \E c \in CaseIds :
            /\ ~Exists(c) /\ \A d \in CaseIds : d < c => Exists(d)
            /\ SetCase(c, row)
            /\ AssessedAs(t, c)
       \/ (\A c \in CaseIds : Exists(c)) /\ Throw(t)
-----------------------------------------------------------------------------
(***************************************************************************)
(* CheckoutSweepService.sweepOnce.                                         *)
(***************************************************************************)
\* Only the grace period and the abandon signal decide which of these are found.
Unpaid == {o \in Orders : orders[o] = "CREATED" /\ ~HasPayment(o) /\ CasesOf(o) = {}}

SweepFind(t, found) ==
    /\ Idle(t)
    /\ found # {}
    /\ Become(t, [IdleTask EXCEPT !.pc = "a_next", !.kind = "sweep", !.todo = found])
    /\ UNCHANGED <<rowVars, runVars, rz, events>>

Listings(S) == {list \in [1 .. Cardinality(S) -> S] :
                   \A i, j \in DOMAIN list : list[i] = list[j] => i = j}

\* The list goes to runWithConcurrency, unless the Recovery Lab asked for the sweep.
SweepEnd(t) ==
    /\ At(t, "a_next") /\ task[t].kind = "sweep" /\ task[t].todo = {}
    /\ \/ \E p \in Pools, list \in Listings(task[t].opened) : OpenPool(p, list)
       \/ UNCHANGED pools
    /\ Become(t, IdleTask)
    /\ UNCHANGED <<rowVars, jobs, acting, loops, started, envVars>>
-----------------------------------------------------------------------------
(***************************************************************************)
(* payment.captured and order.paid, and the close they share.              *)
(***************************************************************************)
CapturedDelivered(t, x) ==
    LET e == [type |-> "captured", of |-> x] IN
    /\ Deliver(t, e)
    /\ \/ /\ payments[x] = "CAPTURED"
          /\ events' = events \ {e} /\ UNCHANGED task
       \/ /\ payments[x] # "CAPTURED"
          /\ Become(t, [IdleTask EXCEPT !.pc = "c_write", !.event = e, !.payment = x,
                                        !.seen = payments[x]])
          /\ UNCHANGED events
    /\ UNCHANGED <<rowVars, runVars, rz>>

\* Updates the row it found, or creates one and fails if there is one by now.
CapturedWrite(t) ==
    LET x == task[t].payment IN
    /\ At(t, "c_write")
    /\ \/ task[t].seen = "NONE" /\ payments[x] # "NONE" /\ Throw(t)
       \/ /\ task[t].seen = "NONE" => payments[x] = "NONE"
          /\ payments' = [payments EXCEPT ![x] = "CAPTURED"]
          /\ Goto(t, "c_order")
          /\ UNCHANGED <<orders, settled, cases, batches, runVars, envVars>>

\* Mutant: the payment's status is written to the order.
OrderCaptured(o) == orders' = [orders EXCEPT ![o] = "CAPTURED"]

OrderPaid(o) == orders' = [orders EXCEPT ![o] = "PAID"]

CapturedOrder(t) ==
    /\ At(t, "c_order")
    /\ OrderPaid(OrderOf[task[t].payment])
    /\ Goto(t, "c_match")
    /\ UNCHANGED <<payments, settled, cases, batches, runVars, envVars>>

PaidDelivered(t, o) ==
    LET e == [type |-> "paid", of |-> o] IN
    /\ Deliver(t, e)
    /\ Become(t, [IdleTask EXCEPT !.pc = IF orders[o] = "PAID" THEN "c_match" ELSE "o_write",
                                  !.event = e])
    /\ UNCHANGED <<rowVars, runVars, rz, events>>

\* Mutant: the order is left to payment.captured.
PaidAnswered(t) == At(t, "o_write") /\ Answer(t) /\ UNCHANGED <<rowVars, runVars>>

PaidWrite(t) ==
    /\ At(t, "o_write")
    /\ OrderPaid(task[t].event.of)
    /\ Goto(t, "c_match")
    /\ UNCHANGED <<payments, settled, cases, batches, runVars, envVars>>

EventOrder(t) == LET e == task[t].event IN IF e.type = "paid" THEN e.of ELSE OrderOf[e.of]

\* The newest active case of the order is the one that is closed, unless an outcome
\* is recorded for it by the time closeRecoveryCase reads it.
Open(o)   == {c \in CaseIds : IsActive(c) /\ o \in {cases[c].order, OrderOfRow(c)}}
Newest(o) == {c \in Open(o) : \A d \in Open(o) : d <= c}

CloseRead(t) ==
    LET found == Newest(EventOrder(t)) IN
    /\ At(t, "c_match")
    /\ \/ \E c \in found :
            /\ ~cases[c].outcome
            /\ Become(t, [task[t] EXCEPT !.pc = "h_tx", !.case = c, !.payment = cases[c].payment])
            /\ UNCHANGED envVars
       \/ (\A c \in found : cases[c].outcome) /\ Answer(t)
    /\ UNCHANGED <<rowVars, runVars>>

\* One transaction, on what CloseRead saw of the case.  A case of an order alone
\* gets a Payment row, if order.paid closes it and no captured one is there.
CloseTransaction(t) ==
    LET c == task[t].case
        x == task[t].payment
        o == EventOrder(t)
        captured == \E y \in PaymentRows(o) : payments[y] = "CAPTURED" IN
    /\ At(t, "h_tx")
    /\ \/ cases[c].outcome /\ UNCHANGED rowVars
       \/ /\ ~cases[c].outcome
          /\ payments' = [y \in Payments |-> IF y = x THEN "CAPTURED" ELSE payments[y]]
          /\ settled' = IF x = None /\ task[t].event.type = "paid" /\ ~captured
                        THEN settled \cup {o} ELSE settled
          /\ OrderPaid(o)
          /\ cases' = [cases EXCEPT ![c] = [Written(c, "RECOVERED") EXCEPT !.outcome = TRUE]]
          /\ UNCHANGED batches
    /\ Answer(t)
    /\ UNCHANGED runVars
-----------------------------------------------------------------------------
(***************************************************************************)
(* RecoveryBatchesService: detectBatch, runBatch and getBatchStatus.       *)
(***************************************************************************)
FailedWithoutCase == {x \in Payments : payments[x] = "FAILED" /\ CasesOf(x) = {}}

\* Overdue invoices are left to Receivables; limitPerType is not reached.
DetectFind(t, abandoned) ==
    /\ Idle(t)
    /\ abandoned \subseteq Unpaid
    /\ Become(t, [IdleTask EXCEPT !.pc = "a_next", !.kind = "batch",
                                  !.todo = FailedWithoutCase \cup abandoned])
    /\ UNCHANGED <<rowVars, runVars, rz, events>>

Detected(t) == Cardinality(task[t].opened)

DetectCreate(t) ==
    /\ At(t, "a_next") /\ task[t].kind = "batch" /\ task[t].todo = {}
    /\ \/ \E b \in BatchIds :
            /\ batches[b].status = "NONE" /\ \A d \in BatchIds : d < b => batches[d].status # "NONE"
            /\ batches' = [batches EXCEPT ![b] = [status |-> "PENDING", total |-> Detected(t)]]
            /\ Become(t, [task[t] EXCEPT !.pc = "b_claim", !.batch = b])
            /\ UNCHANGED <<orders, payments, settled, cases, runVars, envVars>>
       \/ (\A b \in BatchIds : batches[b].status # "NONE") /\ Throw(t)

\* updateMany of the cases no earlier batch tracks.
Claimable(c) == cases[c].batch = 0

DetectClaim(t) ==
    /\ At(t, "b_claim")
    /\ cases' = [c \in CaseIds |->
                   IF c \in task[t].opened /\ Claimable(c)
                   THEN [cases[c] EXCEPT !.batch = task[t].batch] ELSE cases[c]]
    /\ Become(t, [IdleTask EXCEPT !.pc = "g_read", !.batch = task[t].batch])
    /\ UNCHANGED <<orders, payments, settled, batches, runVars, envVars>>

InBatch(b) == {c \in CaseIds : cases[c].batch = b}

\* Mutant: the batch is complete when it has claimed its cases.
IsClaimed(b) == batches[b].total > 0 /\ Cardinality(InBatch(b)) >= batches[b].total

IsComplete(b) ==
    /\ batches[b].total > 0
    /\ Cardinality({c \in InBatch(b) : cases[c].status \in Terminal}) >= batches[b].total

\* Completes the batch in a second step, if it is to be completed.
StatusRead(t, b) ==
    Become(t, IF IsComplete(b) /\ batches[b].status # "COMPLETED"
              THEN [IdleTask EXCEPT !.pc = "g_write", !.batch = b] ELSE IdleTask)

StatusRequest(t, b) ==
    /\ Idle(t)
    /\ batches[b].status # "NONE"
    /\ StatusRead(t, b)
    /\ UNCHANGED <<rowVars, runVars, rz, events>>

DetectStatus(t) == At(t, "g_read") /\ StatusRead(t, task[t].batch) /\ Silent

SetBatch(t, s) ==
    /\ batches' = [batches EXCEPT ![task[t].batch].status = s]
    /\ Become(t, IdleTask)
    /\ UNCHANGED <<orders, payments, settled, cases, runVars, envVars>>

StatusWrite(t) == At(t, "g_write") /\ SetBatch(t, "COMPLETED")

RunBatch(t, b) ==
    /\ Idle(t)
    /\ batches[b].status # "NONE"
    /\ jobs' = jobs \cup {c \in InBatch(b) : cases[c].status = "ELIGIBLE"}
    /\ Become(t, [IdleTask EXCEPT !.pc = "r_write", !.batch = b])
    /\ UNCHANGED <<rowVars, acting, loops, pools, started, rz, events>>

RunWrite(t) == At(t, "r_write") /\ SetBatch(t, "RUNNING")
-----------------------------------------------------------------------------
(***************************************************************************)
(* Runs: of a webhook's call, of the queue's worker (the agent's run, which *)
(* it starts) and of a pool's loop.                                        *)
(***************************************************************************)
JobCheck(c) ==
    /\ c \in jobs
    /\ jobs' = jobs \ {c}
    /\ acting' = IF Stops(c) THEN acting ELSE acting \cup {c}
    /\ UNCHANGED <<rowVars, loops, pools, started, envVars, task>>

\* Mutant: a run that ends records the recovery itself.
RanAndRecovered(c, s) == [Written(c, s) EXCEPT !.outcome = TRUE]

\* What a run that was let through makes of the case, whatever the case has become
\* (its steps are AutoRecovery).  One that ends otherwise never gets here.
Ran(c, s) == Written(c, s)

\* The agent's run ends at the escalation route, which asks nothing of the case:
\* policy said BLOCK or REQUIRE_APPROVAL, or no attempt was left.
JobEscalate(c) ==
    /\ c \in jobs
    /\ jobs' = jobs \ {c}
    /\ SetCase(c, Ran(c, "ESCALATED"))
    /\ UNCHANGED <<acting, loops, pools, started, envVars, task>>

\* observeRecovery: the case's payment, or one of its order, is captured by now.
Observed(c) ==
    /\ ~cases[c].outcome
    /\ \/ \E x \in Payments : payments[x] = "CAPTURED" /\ (x = cases[c].payment \/ OrderOf[x] = cases[c].order)
       \/ cases[c].order \in settled

Acts(c) ==
    /\ \/ \E s \in {"IN_PROGRESS", "ESCALATED", "EXHAUSTED"} : SetCase(c, Ran(c, s))
       \/ Observed(c) /\ SetCase(c, [Written(c, "RECOVERED") EXCEPT !.outcome = TRUE])
    /\ UNCHANGED <<jobs, started, envVars, task>>

RunAct(c) ==
    /\ c \in acting
    /\ Acts(c)
    /\ acting' = acting \ {c}
    /\ UNCHANGED <<loops, pools>>

PoolCheck(p, k) ==
    /\ TakeItem(p, k)
    /\ loops' = IF Stops(pools[p].items[pools[p].cursor + 1]) THEN loops
                ELSE loops \cup {<<p, k>>}
    /\ UNCHANGED <<rowVars, jobs, acting, started, envVars, task>>

PoolAct(p, k) ==
    /\ <<p, k>> \in loops
    /\ Acts(Held(p, k))
    /\ loops' = loops \ {<<p, k>>}
    /\ UNCHANGED <<acting, pools>>

PoolRunEnd(p, k) ==
    /\ ItemDone(p, k)
    /\ loops' = loops \ {<<p, k>>}
    /\ UNCHANGED <<rowVars, jobs, acting, started, envVars, task>>
-----------------------------------------------------------------------------
\* The backend restarts: whatever was in memory is gone, the queue is not.
BackendRestart ==
    /\ Extra
    /\ task' = [t \in Tasks |-> IdleTask]
    /\ acting' = {} /\ loops' = {} /\ Restart
    /\ UNCHANGED <<rowVars, jobs, started, rz, events>>

Delivery(t) ==
    \/ \E x \in Payments : FailedDelivered(t, x) \/ CapturedDelivered(t, x)
    \/ \E o \in Orders : PaidDelivered(t, o)

Request(t) ==
    /\ Extra
    /\ \/ \E found \in SUBSET Unpaid : SweepFind(t, found) \/ DetectFind(t, found)
       \/ \E b \in BatchIds : StatusRequest(t, b) \/ RunBatch(t, b)

TaskStep(t) ==
    \/ FailedCreate(t) \/ FailedMatch(t) \/ FailedLink(t)
    \/ (\E e \in task[t].todo : AssessRead(t, e)) \/ AssessFind(t) \/ AssessCreate(t)
    \/ SweepEnd(t)
    \/ CapturedWrite(t) \/ CapturedOrder(t) \/ PaidWrite(t)
    \/ CloseRead(t) \/ CloseTransaction(t)
    \/ DetectCreate(t) \/ DetectClaim(t) \/ DetectStatus(t) \/ StatusWrite(t) \/ RunWrite(t)

Next ==
    \/ \E x \in Payments : Fail(x) \/ Capture(x)
    \/ \E t \in Tasks : Delivery(t) \/ Request(t) \/ TaskStep(t)
    \/ \E c \in CaseIds : JobCheck(c) \/ JobEscalate(c) \/ RunAct(c)
    \/ \E p \in Pools, k \in Workers : PoolCheck(p, k) \/ PoolAct(p, k) \/ PoolRunEnd(p, k)
    \/ BackendRestart

Spec == Init /\ [][Next]_vars

-----------------------------------------------------------------------------
\* No row says that money arrived which did not: a captured payment, a paid order
\* and a recovered case all rest on a payment Razorpay captured for the order.
MoneyIsReal ==
    /\ \A x \in Payments : payments[x] = "CAPTURED" => PaidAt(OrderOf[x])
    /\ \A o \in Orders : orders[o] = "PAID" \/ o \in settled => PaidAt(o)
    /\ \A c \in CaseIds : cases[c].outcome => PaidAt(OrderOfRow(c))

\* However late or often payment.failed is delivered, money that is recorded
\* stays recorded.
MoneyStaysRecorded ==
    [][/\ \A x \in Payments : payments[x] = "CAPTURED" => payments'[x] = "CAPTURED"
       /\ \A o \in Orders : orders[o] = "PAID" => orders'[o] = "PAID"
       /\ \A c \in CaseIds : cases[c].outcome => cases'[c].outcome]_vars

\* A failed payment starts one automatic run at most, however often its event is
\* delivered, two deliveries at once and restarts included.
FailureStartsOneRun == \A x \in Payments : started[x] <= 1

\* A batch that completes had each of its cases come to an end.
CompletedBatchIsDone == \A b \in BatchIds :
    batches[b].status = "COMPLETED" => \A c \in InBatch(b) : cases[c].ended

\* No event is answered before what it reports is recorded: a failure as a Payment
\* row, money as the order's PAID.  A restart between the two writes of
\* payment.captured makes its redelivery a duplicate; order.paid is what helps.
FailureIsRecorded == \A x \in Payments :
    "failed" \in rz[x] => payments[x] # "NONE" \/ [type |-> "failed", of |-> x] \in events

MoneyIsRecorded == \A o \in Orders :
    PaidAt(o) => orders[o] = "PAID" \/ [type |-> "paid", of |-> o] \in events
=============================================================================
