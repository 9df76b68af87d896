-------------------------- MODULE IntakeRunProofs ---------------------------
(***************************************************************************)
(* How often something starts, for any number of orders, payments,         *)
(* deliveries, sweeps and batches: one automatic run for a failed payment, *)
(* one run for an item of a pool, and a batch that completes once its      *)
(* cases have come to an end.                                              *)
(***************************************************************************)
EXTENDS IntakeProofs

(***************************************************************************)
(* Steps, by what they make of the tasks.                                  *)
(***************************************************************************)
\* No task becomes one that has created a payment.
CalmTasks == \A u \in Tasks :
    Starting(task'[u]) => Starting(task[u]) /\ task'[u].payment = task[u].payment

\* A delivery creates the payment, or a started failure is handed to a run.
Creates(t) == /\ task[t].payment \in Payments /\ payments[task[t].payment] = "NONE"
              /\ payments'[task[t].payment] # "NONE"
              /\ \E k : Become(t, k) /\ k.payment = task[t].payment
              /\ started' = started

Hands(t) == /\ Starting(task[t]) /\ Become(t, IdleTask)
            /\ started' = [started EXCEPT ![task[t].payment] = @ + 1]

StartStep == \/ CalmTasks /\ started' = started
             \/ \E t \in Tasks : Creates(t) \/ Hands(t)

LEMMA BecomeCalm ==
    ASSUME Inv, NEW t \in Tasks, NEW k, Become(t, k),
           Starting(k) => Starting(task[t]) /\ k.payment = task[t].payment
    PROVE  CalmTasks
BY DEF Become, CalmTasks, Inv, TypeOK

LEMMA IdleCalm ==
    ASSUME Inv, NEW t \in Tasks, Become(t, IdleTask)
    PROVE  CalmTasks
BY BecomeCalm DEF Starting, IdleTask

LEMMA NewTaskCalm ==
    ASSUME Inv, NEW t \in Tasks, NEW k, Become(t, k),
           k.pc \notin {"f_match", "f_link", "a_next", "a_find", "a_create"} \/ (k.pc = "a_next" /\ k.kind # "event")
    PROVE  CalmTasks
BY BecomeCalm DEF Starting

LEMMA FailedStarts ==
    ASSUME Inv, NEW t \in Tasks, FailedCreate(t) \/ FailedMatch(t) \/ FailedLink(t)
    PROVE  StartStep
<1>0. task[t] \in Task
  BY DEF Inv, TypeOK
<1>1. CASE FailedCreate(t)
  <2>1. task[t].payment \in Payments
    BY <1>1 DEF FailedCreate, At, Inv, TasksFit, Fits, FailureFits
  <2>2. CASE Answer(t) /\ UNCHANGED runVars
    BY <2>2, IdleCalm DEF Answer, StartStep, runVars
  <2>3. CASE /\ payments[task[t].payment] = "NONE"
             /\ payments' = [payments EXCEPT ![task[t].payment] = "FAILED"]
             /\ Become(t, [task[t] EXCEPT !.pc = "f_match"]) /\ UNCHANGED runVars
    <3>1. PICK k : k = [task[t] EXCEPT !.pc = "f_match"]
      OBVIOUS
    <3>2. Become(t, k) /\ k.payment = task[t].payment
      BY <1>0, <2>3, <3>1 DEF Task
    <3>3. payments'[task[t].payment] # "NONE" /\ started' = started
      BY <2>1, <2>3 DEF Inv, TypeOK, runVars
    <3> QED
      BY <2>1, <2>3, <3>2, <3>3 DEF StartStep, Creates
  <2> QED
    BY <1>1, <2>2, <2>3 DEF FailedCreate, IsTaken, Goto
<1>2. CASE FailedMatch(t)
  <2>1. Starting(task[t]) /\ started' = started
    BY <1>2 DEF FailedMatch, At, Starting, Silent, runVars
  <2>2. ASSUME NEW c, NEW k, k = [task[t] EXCEPT !.pc = "f_link", !.case = c], Become(t, k)
        PROVE  StartStep
    <3>1. k.payment = task[t].payment
      BY <1>0, <2>2 DEF Task
    <3> QED
      BY <2>1, <2>2, <3>1, BecomeCalm DEF StartStep
  <2>3. ASSUME NEW k, k = [task[t] EXCEPT !.pc = "a_next", !.todo = {task[t].payment}], Become(t, k)
        PROVE  StartStep
    <3>1. k.payment = task[t].payment
      BY <1>0, <2>3 DEF Task
    <3> QED
      BY <2>1, <2>3, <3>1, BecomeCalm DEF StartStep
  <2> QED
    BY <1>2, <2>2, <2>3 DEF FailedMatch
<1>3. CASE FailedLink(t)
  BY <1>3 DEF FailedLink, At, Starting, StartRun, Answer, StartStep, Hands
<1> QED
  BY <1>1, <1>2, <1>3

LEMMA AssessedStarts ==
    ASSUME Inv, NEW t \in Tasks, NEW c, task[t].pc \in {"a_find", "a_create"}, AssessedAs(t, c)
    PROVE  StartStep
<1>0. task[t] \in Task
  BY DEF Inv, TypeOK
<1>1. CASE task[t].kind = "event" /\ StartRun(t, c) /\ Answer(t)
  BY <1>1 DEF Starting, StartRun, Answer, StartStep, Hands
<1>2. ASSUME task[t].kind # "event", UNCHANGED runVars,
             NEW k, k = [task[t] EXCEPT !.pc = "a_next", !.entity = None, !.opened = task[t].opened \cup {c}],
             Become(t, k)
      PROVE  StartStep
  <2>1. k.pc = "a_next" /\ k.kind = task[t].kind
    BY <1>0, <1>2 DEF Task
  <2> QED
    BY <1>2, <2>1, NewTaskCalm DEF StartStep, runVars
<1> QED
  BY <1>1, <1>2 DEF AssessedAs

LEMMA AssessStarts ==
    ASSUME Inv, NEW t \in Tasks,
           (\E e \in task[t].todo : AssessRead(t, e)) \/ AssessFind(t) \/ AssessCreate(t)
    PROVE  StartStep
<1>0. task[t] \in Task
  BY DEF Inv, TypeOK
<1>1. ASSUME NEW e, AssessRead(t, e)
      PROVE  StartStep
  <2>1. started' = started /\ task[t].pc = "a_next"
    BY <1>1 DEF AssessRead, At, Silent, runVars
  <2>2. CASE Become(t, IdleTask)
    BY <2>1, <2>2, IdleCalm DEF StartStep
  <2>3. ASSUME NEW k, k = [task[t] EXCEPT !.pc = "a_find", !.entity = e, !.todo = task[t].todo \ {e}], Become(t, k)
        PROVE  StartStep
    <3>1. k.pc = "a_find" /\ k.kind = task[t].kind /\ k.payment = task[t].payment
      BY <1>0, <2>3 DEF Task
    <3> QED
      BY <2>1, <2>3, <3>1, BecomeCalm DEF StartStep, Starting
  <2> QED
    BY <1>1, <2>2, <2>3 DEF AssessRead
<1>2. CASE AssessFind(t)
  <2>1. task[t].pc = "a_find"
    BY <1>2 DEF AssessFind, At
  <2>2. ASSUME Goto(t, "a_create"), UNCHANGED runVars
        PROVE  StartStep
    <3>1. PICK k : k = [task[t] EXCEPT !.pc = "a_create"]
      OBVIOUS
    <3>2. Become(t, k) /\ k.pc = "a_create" /\ k.kind = task[t].kind /\ k.payment = task[t].payment
      BY <1>0, <2>2, <3>1 DEF Goto, Task
    <3> QED
      BY <2>1, <2>2, <3>2, BecomeCalm DEF StartStep, Starting, runVars
  <2> QED
    BY <1>2, <2>1, <2>2, AssessedStarts DEF AssessFind
<1>3. CASE AssessCreate(t)
  <2>1. task[t].pc = "a_create"
    BY <1>3 DEF AssessCreate, At
  <2>2. CASE Throw(t)
    BY <2>2, IdleCalm DEF Throw, Silent, runVars, StartStep
  <2> QED
    BY <1>3, <2>1, <2>2, AssessedStarts DEF AssessCreate
<1> QED
  BY <1>1, <1>2, <1>3

LEMMA DeliveryStarts ==
    ASSUME Inv, NEW t \in Tasks, Delivery(t)
    PROVE  StartStep
<1>1. started' = started
  BY DEF Delivery, FailedDelivered, CapturedDelivered, PaidDelivered, runVars
<1>2. ASSUME UNCHANGED task
      PROVE  CalmTasks
  BY <1>2 DEF CalmTasks
<1>3. ASSUME NEW x \in Payments, FailedDelivered(t, x)
      PROVE  CalmTasks
  <2>1. ASSUME NEW e, NEW k, k = [IdleTask EXCEPT !.pc = "f_create", !.event = e, !.payment = x], Become(t, k)
        PROVE  CalmTasks
    <3>1. Become(t, k) /\ k.pc = "f_create"
      BY <2>1 DEF IdleTask
    <3> QED
      BY <3>1, NewTaskCalm
  <2> QED
    BY <1>2, <1>3, <2>1 DEF FailedDelivered
<1>4. ASSUME NEW x \in Payments, CapturedDelivered(t, x)
      PROVE  CalmTasks
  <2>1. ASSUME NEW e, NEW s, NEW k, Become(t, k),
               k = [IdleTask EXCEPT !.pc = "c_write", !.event = e, !.payment = x, !.seen = s]
        PROVE  CalmTasks
    <3>1. Become(t, k) /\ k.pc = "c_write"
      BY <2>1 DEF IdleTask
    <3> QED
      BY <3>1, NewTaskCalm
  <2> QED
    BY <1>2, <1>4, <2>1 DEF CapturedDelivered
<1>5. ASSUME NEW o \in Orders, PaidDelivered(t, o)
      PROVE  CalmTasks
  <2>1. ASSUME NEW e, NEW pc \in {"c_match", "o_write"}, NEW k, Become(t, k),
               k = [IdleTask EXCEPT !.pc = pc, !.event = e]
        PROVE  CalmTasks
    <3>1. Become(t, k) /\ k.pc = pc
      BY <2>1 DEF IdleTask
    <3> QED
      BY <3>1, NewTaskCalm
  <2> QED
    BY <1>5, <2>1 DEF PaidDelivered
<1> QED
  BY <1>1, <1>3, <1>4, <1>5 DEF Delivery, StartStep

LEMMA RequestStarts ==
    ASSUME Inv, NEW t \in Tasks, Request(t)
    PROVE  StartStep
<1>1. started' = started
  BY DEF Request, SweepFind, DetectFind, StatusRequest, RunBatch, runVars
<1>2. ASSUME NEW kind \in {"sweep", "batch"}, NEW S, NEW k, Become(t, k),
             k = [IdleTask EXCEPT !.pc = "a_next", !.kind = kind, !.todo = S]
      PROVE  CalmTasks
  <2>1. Become(t, k) /\ k.pc = "a_next" /\ k.kind # "event"
    BY <1>2 DEF IdleTask
  <2> QED
    BY <2>1, NewTaskCalm
<1>3. ASSUME NEW b, NEW pc \in {"g_write", "r_write"}, NEW k, Become(t, k),
             k = [IdleTask EXCEPT !.pc = pc, !.batch = b]
      PROVE  CalmTasks
  <2>1. Become(t, k) /\ k.pc = pc
    BY <1>3 DEF IdleTask
  <2> QED
    BY <2>1, NewTaskCalm
<1> QED
  BY <1>1, <1>2, <1>3, IdleCalm
     DEF Request, SweepFind, DetectFind, StatusRequest, StatusRead, RunBatch, StartStep

LEMMA MoneyStarts ==
    ASSUME Inv, NEW t \in Tasks,
           CapturedWrite(t) \/ CapturedOrder(t) \/ PaidWrite(t) \/ CloseRead(t) \/ CloseTransaction(t)
    PROVE  StartStep
<1>0. task[t] \in Task
  BY DEF Inv, TypeOK
<1>1. started' = started
  BY DEF CapturedWrite, CapturedOrder, PaidWrite, CloseRead, CloseTransaction, Throw, Silent, runVars
<1>2. ASSUME NEW pc \in {"c_order", "c_match"}, NEW k, k = [task[t] EXCEPT !.pc = pc], Become(t, k)
      PROVE  CalmTasks
  <2>1. Become(t, k) /\ k.pc = pc
    BY <1>0, <1>2 DEF Task
  <2> QED
    BY <2>1, NewTaskCalm
<1>3. ASSUME NEW c, NEW x, NEW k, k = [task[t] EXCEPT !.pc = "h_tx", !.case = c, !.payment = x], Become(t, k)
      PROVE  CalmTasks
  <2>1. Become(t, k) /\ k.pc = "h_tx"
    BY <1>0, <1>3 DEF Task
  <2> QED
    BY <2>1, NewTaskCalm
<1> QED
  BY <1>1, <1>2, <1>3, IdleCalm
     DEF CapturedWrite, CapturedOrder, PaidWrite, CloseRead, CloseTransaction, Throw, Answer, Goto, StartStep

LEMMA BatchStarts ==
    ASSUME Inv, NEW t \in Tasks,
           DetectCreate(t) \/ DetectClaim(t) \/ DetectStatus(t) \/ StatusWrite(t) \/ RunWrite(t) \/ SweepEnd(t)
    PROVE  StartStep
<1>0. task[t] \in Task
  BY DEF Inv, TypeOK
<1>1. started' = started
  BY DEF DetectCreate, DetectClaim, DetectStatus, StatusWrite, RunWrite, SweepEnd, SetBatch, Throw, Silent, runVars
<1>2. ASSUME NEW b, NEW k, k = [task[t] EXCEPT !.pc = "b_claim", !.batch = b], Become(t, k)
      PROVE  CalmTasks
  <2>1. Become(t, k) /\ k.pc = "b_claim"
    BY <1>0, <1>2 DEF Task
  <2> QED
    BY <2>1, NewTaskCalm
<1>3. ASSUME NEW b, NEW pc \in {"g_read", "g_write"}, NEW k, Become(t, k),
             k = [IdleTask EXCEPT !.pc = pc, !.batch = b]
      PROVE  CalmTasks
  <2>1. Become(t, k) /\ k.pc = pc
    BY <1>3 DEF IdleTask
  <2> QED
    BY <2>1, NewTaskCalm
<1> QED
  BY <1>1, <1>2, <1>3, IdleCalm
     DEF DetectCreate, DetectClaim, DetectStatus, StatusRead, StatusWrite, RunWrite, SweepEnd, SetBatch,
         Throw, StartStep

LEMMA NextStarts ==
    ASSUME Inv, [Next]_vars
    PROVE  StartStep
<1>1. ASSUME UNCHANGED <<task, started>>
      PROVE  StartStep
  BY <1>1 DEF StartStep, CalmTasks
<1>2. ASSUME NEW x \in Payments, Fail(x) \/ Capture(x)
      PROVE  StartStep
  BY <1>1, <1>2 DEF Fail, Capture, runVars
<1>3. ASSUME NEW c \in CaseIds, JobCheck(c) \/ JobEscalate(c) \/ RunAct(c)
      PROVE  StartStep
  BY <1>1, <1>3 DEF JobCheck, JobEscalate, RunAct, Acts
<1>4. ASSUME NEW p \in Pools, NEW k \in Workers, PoolCheck(p, k) \/ PoolAct(p, k) \/ PoolRunEnd(p, k)
      PROVE  StartStep
  BY <1>1, <1>4 DEF PoolCheck, PoolAct, PoolRunEnd, Acts
<1>5. CASE BackendRestart
  BY <1>5 DEF BackendRestart, StartStep, CalmTasks, Starting, IdleTask
<1>6. ASSUME NEW t \in Tasks, TaskStep(t)
      PROVE  StartStep
  BY <1>6, FailedStarts, AssessStarts, MoneyStarts, BatchStarts DEF TaskStep
<1>7. CASE UNCHANGED vars
  BY <1>1, <1>7 DEF vars, runVars
<1> QED
  BY <1>2, <1>3, <1>4, <1>5, <1>6, <1>7, DeliveryStarts, RequestStarts DEF Next

(***************************************************************************)
(* One run for a failed payment.                                           *)
(***************************************************************************)
\* Who has created the payment and not started its run yet is the only one.
StartInv ==
    /\ \A x \in Payments : started[x] <= 1 /\ (started[x] > 0 => payments[x] # "NONE")
    /\ \A t \in Tasks : Starting(task[t]) => started[task[t].payment] = 0
    /\ \A t, u \in Tasks : Starting(task[t]) /\ Starting(task[u]) /\ task[t].payment = task[u].payment => t = u

LEMMA StartStepKeeps ==
    ASSUME Inv, Inv', RowsKeep, StartInv, StartStep
    PROVE  StartInv'
<1>1. CASE CalmTasks /\ started' = started
  BY <1>1 DEF CalmTasks, StartInv, RowsKeep, MoneyKeeps
<1>2. ASSUME NEW t \in Tasks, Creates(t)
      PROVE  StartInv'
  <2>1. PICK x \in Payments : x = task[t].payment
    BY <1>2 DEF Creates
  <2>2. started[x] = 0
    BY <1>2, <2>1 DEF Creates, StartInv, Inv, TypeOK
  <2>3. \A u \in Tasks : Starting(task[u]) => task[u].payment # x
    BY <1>2, <2>1, AtStarting DEF Creates
  <2>4. \A u \in Tasks : /\ u # t => task'[u] = task[u]
                         /\ u = t => task'[u].payment = x
    BY <1>2, <2>1 DEF Creates, Become, Inv, TypeOK
  <2>5. started' = started
    BY <1>2 DEF Creates
  <2> QED
    BY <2>2, <2>3, <2>4, <2>5 DEF StartInv, RowsKeep, MoneyKeeps
<1>3. ASSUME NEW t \in Tasks, Hands(t)
      PROVE  StartInv'
  <2>1. PICK x \in Payments : x = task[t].payment /\ payments[x] # "NONE"
    BY <1>3, AtStarting DEF Hands
  <2>2. started[x] = 0
    BY <1>3, <2>1 DEF Hands, StartInv
  <2>3. \A y \in Payments : started'[y] = IF y = x THEN 1 ELSE started[y]
    BY <1>3, <2>1, <2>2 DEF Hands, Inv, TypeOK
  <2>4. \A u \in Tasks : task'[u] = IF u = t THEN IdleTask ELSE task[u]
    BY <1>3 DEF Hands, Become, Inv, TypeOK
  <2>5. \A u \in Tasks : Starting(task'[u]) => u # t /\ Starting(task[u]) /\ task'[u] = task[u]
    BY <2>4 DEF Starting, IdleTask
  <2>6. \A u \in Tasks : Starting(task'[u]) => task[u].payment \in Payments \ {x}
    BY <1>3, <2>1, <2>5, AtStarting DEF Hands, StartInv
  <2> QED
    BY <2>1, <2>3, <2>5, <2>6 DEF StartInv, RowsKeep, MoneyKeeps
<1> QED
  BY <1>1, <1>2, <1>3 DEF StartStep

LEMMA StartInvariant == Spec => []StartInv
<1>1. Init => StartInv
  BY DEF Init, StartInv, Starting, IdleTask
<1>2. Inv /\ Inv' /\ StartInv /\ [Next]_vars => StartInv'
  BY NextKeepsInv, NextStarts, StartStepKeeps
<1> QED
  BY <1>1, <1>2, Invariant, PTL DEF Spec

\* Neither repeated nor concurrent deliveries, nor restarts, start a second run.
THEOREM OneRunPerFailure == Spec => []FailureStartsOneRun
<1>1. StartInv => FailureStartsOneRun
  BY DEF StartInv, FailureStartsOneRun
<1> QED
  BY <1>1, StartInvariant, PTL

(***************************************************************************)
(* The pools of the checkout sweep.                                        *)
(***************************************************************************)
LEMMA NextIsPoolNext ==
    ASSUME Inv, [Next]_vars
    PROVE  [PoolNext]_pools
<1>1. ASSUME NEW t \in Tasks, SweepEnd(t)
      PROVE  [PoolNext]_pools
  <2>1. task[t].opened \in SUBSET CaseIds
    BY AtAssessing
  <2> QED
    BY <1>1, <2>1, ListingsAreSequences DEF SweepEnd, PoolNext, PoolStep
<1>2. ASSUME NEW t \in Tasks, FailedCreate(t) \/ FailedMatch(t) \/ FailedLink(t)
      PROVE  UNCHANGED pools
  BY <1>2 DEF FailedCreate, FailedMatch, FailedLink, StartRun, Silent, runVars
<1>3. ASSUME NEW t \in Tasks, (\E e \in task[t].todo : AssessRead(t, e)) \/ AssessFind(t) \/ AssessCreate(t)
      PROVE  UNCHANGED pools
  BY <1>3 DEF AssessRead, AssessFind, AssessCreate, AssessedAs, StartRun, Throw, Silent, runVars
<1>4. ASSUME NEW t \in Tasks, CapturedWrite(t) \/ CapturedOrder(t) \/ PaidWrite(t) \/ CloseRead(t) \/ CloseTransaction(t)
      PROVE  UNCHANGED pools
  BY <1>4 DEF CapturedWrite, CapturedOrder, PaidWrite, CloseRead, CloseTransaction, Throw, Silent, runVars
<1>5. ASSUME NEW t \in Tasks, DetectCreate(t) \/ DetectClaim(t) \/ DetectStatus(t) \/ StatusWrite(t) \/ RunWrite(t)
      PROVE  UNCHANGED pools
  BY <1>5 DEF DetectCreate, DetectClaim, DetectStatus, StatusWrite, RunWrite, SetBatch, Throw, Silent, runVars
<1>6. ASSUME NEW t \in Tasks, Delivery(t) \/ Request(t)
      PROVE  UNCHANGED pools
  BY <1>6 DEF Delivery, FailedDelivered, CapturedDelivered, PaidDelivered, Request, SweepFind, DetectFind,
              StatusRequest, RunBatch, runVars
<1>7. ASSUME NEW p \in Pools, NEW k \in Workers, PoolCheck(p, k) \/ PoolAct(p, k) \/ PoolRunEnd(p, k)
      PROVE  [PoolNext]_pools
  BY <1>7 DEF PoolCheck, PoolAct, PoolRunEnd, PoolNext, PoolStep
<1>8. ASSUME NEW c \in CaseIds, JobCheck(c) \/ JobEscalate(c) \/ RunAct(c)
      PROVE  UNCHANGED pools
  BY <1>8 DEF JobCheck, JobEscalate, RunAct
<1>9. ASSUME NEW x \in Payments, Fail(x) \/ Capture(x)
      PROVE  UNCHANGED pools
  BY <1>9 DEF Fail, Capture, runVars
<1>10. CASE UNCHANGED vars
  BY <1>10 DEF vars, runVars
<1> QED
  BY <1>1, <1>2, <1>3, <1>4, <1>5, <1>6, <1>7, <1>8, <1>9, <1>10
     DEF Next, TaskStep, BackendRestart, PoolNext

\* Each case of a sweep's list gets one run, among webhooks, batches and restarts.
THEOREM SweepsAreBags == Spec => PoolsAreBags
<1>1. Init => PoolInit
  BY DEF Init
<1>2. Inv /\ [Next]_vars => [PoolNext]_pools
  BY NextIsPoolNext
<1>3. Spec => PoolSpec
  BY <1>1, <1>2, Invariant, PTL DEF Spec, PoolSpec
<1> QED
  BY <1>3, PoolsImplementBags

(***************************************************************************)
(* Batches.                                                                *)
(***************************************************************************)
Done(b) == InBatch(b) # {} /\ \A c \in InBatch(b) : cases[c].ended

Claims(t, b)    == At(t, "b_claim") /\ task[t].batch = b
Completes(t, b) == At(t, "g_write") /\ task[t].batch = b

\* The one task that created a batch claims its cases, as many as the batch says or
\* fewer; who completes it has seen them at their end.
BatchInv ==
    /\ \A t \in Tasks : task[t].pc \in {"b_claim", "g_read", "g_write"} => task[t].batch \in BatchIds
    /\ \A b \in BatchIds :
         /\ Cardinality(InBatch(b)) <= batches[b].total
         /\ batches[b].status = "NONE" => InBatch(b) = {} /\ \A t \in Tasks : ~Claims(t, b)
         /\ batches[b].status = "COMPLETED" => Done(b)
         /\ \A t \in Tasks : Completes(t, b) => Done(b)
         /\ \A t \in Tasks : Claims(t, b) => InBatch(b) = {} /\ batches[b].total = Detected(t)
         /\ \A t, u \in Tasks : Claims(t, b) /\ Claims(u, b) => t = u

\* No case changes its batch, and no task gets to claim or complete one.
SameBatches == batches' = batches /\ \A c \in CaseIds : cases'[c].batch = cases[c].batch

\* What a task holds of a batch.
Holds(k, l) == k.pc \in {"b_claim", "g_read", "g_write"} =>
    k.pc = l.pc /\ k.batch = l.batch /\ k.opened = l.opened

SameHolders == \A t \in Tasks : Holds(task'[t], task[t])

LEMMA DoneStays ==
    ASSUME Inv, RowsKeep, NEW b \in BatchIds, Done(b), InBatch(b)' = InBatch(b)
    PROVE  Done(b)'
<1>1. \A c \in InBatch(b) : c \in CaseIds /\ cases[c].status # "NONE"
  BY DEF InBatch, Inv, RowsOK, NewIsFree, BatchIds
<1> QED
  BY <1>1 DEF Done, RowsKeep, CasesKeep

LEMMA CalmBatches ==
    ASSUME Inv, RowsKeep, BatchInv, SameBatches, SameHolders
    PROVE  BatchInv'
<1>1. \A b \in BatchIds : InBatch(b)' = InBatch(b)
  BY DEF SameBatches, InBatch
<1>2. \A b \in BatchIds : Done(b) => Done(b)'
  BY <1>1, DoneStays
<1>3. \A t \in Tasks : task'[t].pc \in {"b_claim", "g_read", "g_write"} => task'[t].batch \in BatchIds
  BY DEF SameHolders, Holds, BatchInv
<1>4. \A t \in Tasks : \A b \in BatchIds :
        /\ Claims(t, b)' => Claims(t, b) /\ Detected(t)' = Detected(t)
        /\ Completes(t, b)' => Completes(t, b)
  BY DEF SameHolders, Holds, Claims, Completes, Detected, At
<1> QED
  BY <1>1, <1>2, <1>3, <1>4 DEF BatchInv, SameBatches

\* A new batch.
LEMMA CreateKeeps ==
    ASSUME Inv, RowsKeep, BatchInv, NEW t \in Tasks, NEW b \in BatchIds, batches[b].status = "NONE",
           batches' = [batches EXCEPT ![b] = [status |-> "PENDING", total |-> Detected(t)]],
           cases' = cases, Detected(t) \in Nat,
           Become(t, [task[t] EXCEPT !.pc = "b_claim", !.batch = b])
    PROVE  BatchInv'
<1>0. task[t] \in Task
  BY DEF Inv, TypeOK
<1>1. PICK k : k = [task[t] EXCEPT !.pc = "b_claim", !.batch = b]
  OBVIOUS
<1>2. k.pc = "b_claim" /\ k.batch = b /\ k.opened = task[t].opened
  BY <1>0, <1>1 DEF Task
<1>3. \A u \in Tasks : task'[u] = IF u = t THEN k ELSE task[u]
  BY <1>1 DEF Become, Inv, TypeOK
<1>4. \A d \in BatchIds : InBatch(d)' = InBatch(d)
  BY DEF InBatch
<1>5. \A d \in BatchIds : Done(d)' <=> Done(d)
  BY <1>4 DEF Done
<1>6. /\ batches'[b].status = "PENDING" /\ batches'[b].total = Detected(t)
      /\ \A d \in BatchIds \ {b} : batches'[d] = batches[d]
  BY DEF Inv, TypeOK
<1>7. \A u \in Tasks : \A d \in BatchIds :
        /\ Claims(u, d)' <=> IF u = t THEN d = b ELSE Claims(u, d)
        /\ Completes(u, d)' => Completes(u, d)
  BY <1>2, <1>3 DEF Claims, Completes, At
<1>8. \A u \in Tasks : Detected(u)' = Detected(u)
  BY <1>2, <1>3 DEF Detected
<1>9. InBatch(b) = {} /\ \A u \in Tasks : ~Claims(u, b)
  BY DEF BatchInv
<1>10. Cardinality({}) = 0
  BY FS_EmptySet
<1>11. \A u \in Tasks : task'[u].pc \in {"b_claim", "g_read", "g_write"} => task'[u].batch \in BatchIds
  BY <1>2, <1>3 DEF BatchInv
<1>12. ASSUME NEW d \in BatchIds
       PROVE  /\ Cardinality(InBatch(d)') <= batches'[d].total
              /\ batches'[d].status = "NONE" => InBatch(d)' = {} /\ \A u \in Tasks : ~Claims(u, d)'
              /\ batches'[d].status = "COMPLETED" => Done(d)'
              /\ \A u \in Tasks : Completes(u, d)' => Done(d)'
              /\ \A u \in Tasks : Claims(u, d)' => InBatch(d)' = {} /\ batches'[d].total = Detected(u)'
              /\ \A u, v \in Tasks : Claims(u, d)' /\ Claims(v, d)' => u = v
  <2>1. CASE d = b
    BY <1>4, <1>5, <1>6, <1>7, <1>8, <1>9, <1>10, <2>1 DEF BatchInv
  <2>2. CASE d # b
    BY <1>4, <1>5, <1>6, <1>7, <1>8, <2>2 DEF BatchInv
  <2> QED
    BY <2>1, <2>2
<1> QED
  BY <1>11, <1>12 DEF BatchInv

\* The batch takes the cases that are free among those detected for it.
LEMMA ClaimKeeps ==
    ASSUME Inv, RowsKeep, BatchInv, NEW t \in Tasks, DetectClaim(t)
    PROVE  BatchInv'
<1>0. task[t] \in Task /\ At(t, "b_claim") /\ batches' = batches
  BY DEF Inv, TypeOK, DetectClaim
<1>1. PICK b \in BatchIds : b = task[t].batch
  BY <1>0 DEF BatchInv, At
<1>2. /\ Claims(t, b) /\ InBatch(b) = {} /\ batches[b].total = Detected(t)
      /\ batches[b].status \notin {"NONE", "COMPLETED"} /\ \A u \in Tasks : ~Completes(u, b)
      /\ \A u \in Tasks \ {t} : ~Claims(u, b)
  BY <1>0, <1>1 DEF Claims, BatchInv, Done
<1>3. PICK k : k = [IdleTask EXCEPT !.pc = "g_read", !.batch = b]
  OBVIOUS
<1>4. k.pc = "g_read" /\ k.batch = b
  BY <1>3 DEF IdleTask
<1>5. \A u \in Tasks : task'[u] = IF u = t THEN k ELSE task[u]
  BY <1>1, <1>3 DEF DetectClaim, Become, Inv, TypeOK
<1>6. \A c \in CaseIds : cases'[c].batch = IF c \in task[t].opened /\ cases[c].batch = 0 THEN b ELSE cases[c].batch
  <2>1. \A c \in CaseIds : cases[c] \in CaseRow
    BY DEF Inv, TypeOK
  <2> QED
    BY <1>1, <2>1 DEF DetectClaim, Claimable, CaseRow
<1>7. InBatch(b)' \subseteq task[t].opened
  BY <1>2, <1>6 DEF InBatch
<1>8. \A d \in BatchIds \ {b} : InBatch(d)' = InBatch(d)
  BY <1>6 DEF InBatch, BatchIds
<1>9. Cardinality(InBatch(b)') <= Detected(t)
  <2>1. task[t].opened \in SUBSET CaseIds
    BY <1>0 DEF Task
  <2>2. IsFiniteSet(task[t].opened)
    BY <2>1, CaseIdsFinite, FS_Subset
  <2> QED
    BY <1>7, <2>2, FS_Subset DEF Detected
<1>10. \A u \in Tasks : \A d \in BatchIds :
        /\ Claims(u, d)' <=> u # t /\ Claims(u, d)
        /\ Completes(u, d)' => u # t /\ Completes(u, d)
        /\ u # t => Detected(u)' = Detected(u)
  BY <1>4, <1>5 DEF Claims, Completes, At, Detected
<1>11. \A u \in Tasks : task'[u].pc \in {"b_claim", "g_read", "g_write"} => task'[u].batch \in BatchIds
  BY <1>4, <1>5 DEF BatchInv
<1>12. ASSUME NEW d \in BatchIds
       PROVE  /\ Cardinality(InBatch(d)') <= batches'[d].total
              /\ batches'[d].status = "NONE" => InBatch(d)' = {} /\ \A u \in Tasks : ~Claims(u, d)'
              /\ batches'[d].status = "COMPLETED" => Done(d)'
              /\ \A u \in Tasks : Completes(u, d)' => Done(d)'
              /\ \A u \in Tasks : Claims(u, d)' => InBatch(d)' = {} /\ batches'[d].total = Detected(u)'
              /\ \A u, v \in Tasks : Claims(u, d)' /\ Claims(v, d)' => u = v
  <2>1. CASE d = b
    BY <1>0, <1>2, <1>9, <1>10, <2>1
  <2>2. CASE d # b
    <3>1. InBatch(d)' = InBatch(d) /\ (Done(d) => Done(d)')
      BY <1>8, <2>2, DoneStays
    <3> QED
      BY <1>0, <1>10, <3>1 DEF BatchInv
  <2> QED
    BY <2>1, <2>2
<1> QED
  BY <1>11, <1>12 DEF BatchInv

\* As many cases at their end as the batch counts are all of its cases.
LEMMA CompleteIsDone ==
    ASSUME Inv, BatchInv, NEW b \in BatchIds, IsComplete(b)
    PROVE  Done(b)
<1> DEFINE T == {c \in InBatch(b) : cases[c].status \in Terminal}
<1>1. InBatch(b) \in SUBSET CaseIds /\ T \in SUBSET InBatch(b)
  BY DEF InBatch
<1>2. IsFiniteSet(InBatch(b))
  BY <1>1, CaseIdsFinite, FS_Subset
<1>3. IsFiniteSet(T) /\ Cardinality(T) \in Nat /\ Cardinality(InBatch(b)) \in Nat
      /\ Cardinality(T) <= Cardinality(InBatch(b))
      /\ (Cardinality(T) = Cardinality(InBatch(b)) => T = InBatch(b))
  BY <1>1, <1>2, FS_Subset, FS_CardinalityType
<1>4. batches[b].total \in Nat /\ batches[b].total > 0 /\ Cardinality(T) >= batches[b].total
  BY DEF IsComplete, Inv, TypeOK, BatchRow
<1>5. Cardinality(InBatch(b)) <= batches[b].total
  BY DEF BatchInv
<1> HIDE DEF T
<1>6. T = InBatch(b)
  BY <1>3, <1>4, <1>5
<1>7. InBatch(b) # {}
  BY <1>3, <1>4, <1>5, FS_EmptySet
<1>8. \A c \in InBatch(b) : cases[c].ended
  BY <1>1, <1>6 DEF T, Inv, RowsOK, EndIsTold
<1> QED
  BY <1>7, <1>8 DEF Done

LEMMA StatusReadKeeps ==
    ASSUME Inv, RowsKeep, BatchInv, SameBatches, NEW t \in Tasks, NEW b \in BatchIds, StatusRead(t, b)
    PROVE  BatchInv'
<1>1. PICK k : Become(t, k) /\ (k = IdleTask \/ (k = [IdleTask EXCEPT !.pc = "g_write", !.batch = b] /\ IsComplete(b)))
  BY DEF StatusRead
<1>2. CASE k = IdleTask
  <2>1. SameHolders
    BY <1>1, <1>2 DEF SameHolders, Holds, Become, IdleTask, Inv, TypeOK
  <2> QED
    BY <2>1, CalmBatches
<1>3. CASE k = [IdleTask EXCEPT !.pc = "g_write", !.batch = b] /\ IsComplete(b)
  <2>1. k.pc = "g_write" /\ k.batch = b /\ Done(b)
    BY <1>3, CompleteIsDone DEF IdleTask
  <2>2. \A u \in Tasks : task'[u] = IF u = t THEN k ELSE task[u]
    BY <1>1 DEF Become, Inv, TypeOK
  <2>3. \A d \in BatchIds : InBatch(d)' = InBatch(d)
    BY DEF SameBatches, InBatch
  <2>4. \A d \in BatchIds : Done(d) => Done(d)'
    BY <2>3, DoneStays
  <2>5. \A u \in Tasks : \A d \in BatchIds :
          /\ Claims(u, d)' => u # t /\ Claims(u, d)
          /\ Completes(u, d)' => d = b \/ Completes(u, d)
          /\ u # t => Detected(u)' = Detected(u)
    BY <2>1, <2>2 DEF Claims, Completes, At, Detected
  <2>6. \A u \in Tasks : task'[u].pc \in {"b_claim", "g_read", "g_write"} => task'[u].batch \in BatchIds
    BY <2>1, <2>2 DEF BatchInv
  <2> QED
    BY <2>1, <2>3, <2>4, <2>5, <2>6 DEF BatchInv, SameBatches
<1> QED
  BY <1>1, <1>2, <1>3

LEMMA SetBatchKeeps ==
    ASSUME Inv, RowsKeep, BatchInv, NEW t \in Tasks, NEW s \in {"RUNNING", "COMPLETED"}, SetBatch(t, s),
           s = "COMPLETED" => At(t, "g_write")
    PROVE  BatchInv'
<1>1. cases' = cases /\ batches' = [batches EXCEPT ![task[t].batch].status = s]
  BY DEF SetBatch
<1>2. \A u \in Tasks : task'[u] = IF u = t THEN IdleTask ELSE task[u]
  BY DEF SetBatch, Become, Inv, TypeOK
<1>3. \A d \in BatchIds : /\ batches'[d].total = batches[d].total
                          /\ batches'[d].status = IF d = task[t].batch THEN s ELSE batches[d].status
  BY <1>1 DEF Inv, TypeOK, BatchRow
<1>4. \A d \in BatchIds : InBatch(d)' = InBatch(d)
  BY <1>1 DEF InBatch
<1>5. \A d \in BatchIds : Done(d)' <=> Done(d)
  BY <1>1, <1>4 DEF Done
<1>6. \A u \in Tasks : \A d \in BatchIds :
        /\ Claims(u, d)' => u # t /\ Claims(u, d)
        /\ Completes(u, d)' => u # t /\ Completes(u, d)
        /\ u # t => Detected(u)' = Detected(u)
  BY <1>2 DEF Claims, Completes, At, Detected, IdleTask
<1>7. \A u \in Tasks : task'[u].pc \in {"b_claim", "g_read", "g_write"} => task'[u].batch \in BatchIds
  BY <1>2 DEF BatchInv, IdleTask
<1>8. ASSUME NEW d \in BatchIds
      PROVE  /\ batches'[d].status = "COMPLETED" => Done(d)'
             /\ batches'[d].status = "NONE" => batches[d].status = "NONE"
  BY <1>3, <1>5 DEF BatchInv, Completes
<1> QED
  BY <1>3, <1>4, <1>5, <1>6, <1>7, <1>8 DEF BatchInv

LEMMA HoldersMove ==
    ASSUME Inv, NEW t \in Tasks, NEW k, Become(t, k), k.pc \notin {"b_claim", "g_read", "g_write"}
    PROVE  SameHolders
BY DEF SameHolders, Holds, Become, Inv, TypeOK

LEMMA HoldersIdle ==
    ASSUME Inv, NEW t \in Tasks, Become(t, IdleTask)
    PROVE  SameHolders
BY HoldersMove DEF IdleTask

LEMMA SetCaseSame ==
    ASSUME Inv, NEW c, NEW r, SetCase(c, r), c \in CaseIds => r.batch = cases[c].batch
    PROVE  SameBatches
BY DEF SetCase, SameBatches, Inv, TypeOK

LEMMA SameCasesSame ==
    ASSUME UNCHANGED <<cases, batches>>
    PROVE  SameBatches
BY DEF SameBatches

LEMMA FailedSame ==
    ASSUME Inv, NEW t \in Tasks, FailedCreate(t) \/ FailedMatch(t) \/ FailedLink(t)
    PROVE  SameBatches /\ SameHolders
<1>0. task[t] \in Task
  BY DEF Inv, TypeOK
<1>1. ASSUME NEW pc \in {"f_match", "f_link", "a_next"}, NEW k, Become(t, k), k.pc = pc
      PROVE  SameHolders
  BY <1>1, HoldersMove
<1>2. CASE FailedCreate(t)
  <2>1. UNCHANGED <<cases, batches>>
    BY <1>2 DEF FailedCreate, rowVars
  <2>2. SameHolders
    BY <1>0, <1>1, <1>2, HoldersIdle DEF FailedCreate, Answer, Goto, Task
  <2> QED
    BY <2>1, <2>2, SameCasesSame
<1>3. CASE FailedMatch(t)
  <2>1. UNCHANGED <<cases, batches>>
    BY <1>3 DEF FailedMatch, Silent, rowVars
  <2>2. ASSUME NEW c, Become(t, [task[t] EXCEPT !.pc = "f_link", !.case = c])
        PROVE  SameHolders
    BY <1>0, <1>1, <2>2 DEF Task
  <2>3. ASSUME NEW S, Become(t, [task[t] EXCEPT !.pc = "a_next", !.todo = S])
        PROVE  SameHolders
    BY <1>0, <1>1, <2>3 DEF Task
  <2> QED
    BY <1>3, <2>1, <2>2, <2>3, SameCasesSame DEF FailedMatch
<1>4. CASE FailedLink(t)
  <2>1. PICK c : c = task[t].case
    OBVIOUS
  <2>2. PICK r : r = [cases[c] EXCEPT !.payment = task[t].payment]
    OBVIOUS
  <2>3. SetCase(c, r) /\ Become(t, IdleTask)
    BY <1>4, <2>1, <2>2 DEF FailedLink, Answer
  <2>4. c \in CaseIds => r.batch = cases[c].batch
    BY <2>2 DEF Inv, TypeOK, CaseRow
  <2> QED
    BY <2>3, <2>4, SetCaseSame, HoldersIdle
<1> QED
  BY <1>2, <1>3, <1>4

LEMMA AssessedSame ==
    ASSUME Inv, NEW t \in Tasks, NEW c, AssessedAs(t, c)
    PROVE  SameHolders
<1>0. task[t] \in Task
  BY DEF Inv, TypeOK
<1>1. ASSUME NEW S, NEW k, k = [task[t] EXCEPT !.pc = "a_next", !.entity = None, !.opened = S], Become(t, k)
      PROVE  SameHolders
  <2>1. k.pc = "a_next" /\ Become(t, k)
    BY <1>0, <1>1 DEF Task
  <2> QED
    BY <2>1, HoldersMove
<1> QED
  BY <1>1, HoldersIdle DEF AssessedAs, Answer

LEMMA AssessSame ==
    ASSUME Inv, NEW t \in Tasks,
           (\E e \in task[t].todo : AssessRead(t, e)) \/ AssessFind(t) \/ AssessCreate(t)
    PROVE  SameBatches /\ SameHolders
<1>0. task[t] \in Task
  BY DEF Inv, TypeOK
<1>1. ASSUME NEW e, AssessRead(t, e)
      PROVE  SameBatches /\ SameHolders
  <2>1. UNCHANGED <<cases, batches>>
    BY <1>1 DEF AssessRead, Silent, rowVars
  <2>2. ASSUME NEW S, NEW k, k = [task[t] EXCEPT !.pc = "a_find", !.entity = e, !.todo = S], Become(t, k)
        PROVE  SameHolders
    <3>1. k.pc = "a_find" /\ Become(t, k)
      BY <1>0, <2>2 DEF Task
    <3> QED
      BY <3>1, HoldersMove
  <2> QED
    BY <1>1, <2>1, <2>2, SameCasesSame, HoldersIdle DEF AssessRead
<1>2. CASE AssessFind(t)
  <2>1. UNCHANGED <<cases, batches>>
    BY <1>2 DEF AssessFind, rowVars
  <2>2. ASSUME NEW k, k = [task[t] EXCEPT !.pc = "a_create"], Become(t, k)
        PROVE  SameHolders
    <3>1. k.pc = "a_create" /\ Become(t, k)
      BY <1>0, <2>2 DEF Task
    <3> QED
      BY <3>1, HoldersMove
  <2> QED
    BY <1>2, <2>1, <2>2, SameCasesSame, AssessedSame DEF AssessFind, Goto
<1>3. CASE AssessCreate(t)
  <2>1. ASSUME NEW c \in CaseIds, ~Exists(c), SetCase(c, CreatedRow(task[t].entity))
        PROVE  SameBatches
    <3>1. CreatedRow(task[t].entity).batch = 0
      BY DEF CreatedRow, NoCase
    <3>2. cases[c].batch = 0
      BY <2>1 DEF Exists, Inv, RowsOK, NewIsFree
    <3> QED
      BY <2>1, <3>1, <3>2, SetCaseSame
  <2>2. ASSUME Throw(t)
        PROVE  SameBatches /\ SameHolders
    BY <2>2, SameCasesSame, HoldersIdle DEF Throw, Silent, rowVars
  <2> QED
    BY <1>3, <2>1, <2>2, AssessedSame DEF AssessCreate, CreatedRow
<1> QED
  BY <1>1, <1>2, <1>3

LEMMA MoneySame ==
    ASSUME Inv, NEW t \in Tasks,
           CapturedWrite(t) \/ CapturedOrder(t) \/ PaidWrite(t) \/ CloseRead(t) \/ CloseTransaction(t)
    PROVE  SameBatches /\ SameHolders
<1>0. task[t] \in Task
  BY DEF Inv, TypeOK
<1>1. ASSUME NEW pc \in {"c_order", "c_match"}, NEW k, k = [task[t] EXCEPT !.pc = pc], Become(t, k)
      PROVE  SameHolders
  <2>1. k.pc = pc /\ Become(t, k)
    BY <1>0, <1>1 DEF Task
  <2> QED
    BY <2>1, HoldersMove
<1>2. ASSUME NEW c, NEW x, NEW k, k = [task[t] EXCEPT !.pc = "h_tx", !.case = c, !.payment = x], Become(t, k)
      PROVE  SameHolders
  <2>1. k.pc = "h_tx" /\ Become(t, k)
    BY <1>0, <1>2 DEF Task
  <2> QED
    BY <2>1, HoldersMove
<1>3. SameHolders
  BY <1>1, <1>2, HoldersIdle
     DEF CapturedWrite, CapturedOrder, PaidWrite, CloseRead, CloseTransaction, Throw, Answer, Goto
<1>4. CASE CapturedWrite(t) \/ CapturedOrder(t) \/ PaidWrite(t) \/ CloseRead(t)
  BY <1>3, <1>4, SameCasesSame DEF CapturedWrite, CapturedOrder, PaidWrite, CloseRead, Throw, Silent, rowVars
<1>5. CASE CloseTransaction(t)
  <2>1. CASE UNCHANGED rowVars
    BY <1>3, <2>1, SameCasesSame DEF rowVars
  <2>2. ASSUME NEW c, cases' = [cases EXCEPT ![c] = RecoveredRow(c)], UNCHANGED batches
        PROVE  SameBatches
    BY <2>2, RecoveredFields DEF SameBatches, Inv, TypeOK
  <2> QED
    BY <1>3, <1>5, <2>1, <2>2 DEF CloseTransaction, RecoveredRow
<1> QED
  BY <1>3, <1>4, <1>5

LEMMA DeliverySame ==
    ASSUME Inv, NEW t \in Tasks, Delivery(t)
    PROVE  SameBatches /\ SameHolders
<1>0. UNCHANGED <<cases, batches>>
  BY DEF Delivery, FailedDelivered, CapturedDelivered, PaidDelivered, rowVars
<1>1. ASSUME UNCHANGED task
      PROVE  SameHolders
  BY <1>1 DEF SameHolders, Holds
<1>2. ASSUME NEW e, NEW x, NEW k, k = [IdleTask EXCEPT !.pc = "f_create", !.event = e, !.payment = x], Become(t, k)
      PROVE  SameHolders
  <2>1. k.pc = "f_create" /\ Become(t, k)
    BY <1>2 DEF IdleTask
  <2> QED
    BY <2>1, HoldersMove
<1>3. ASSUME NEW e, NEW x, NEW s, NEW k, Become(t, k),
             k = [IdleTask EXCEPT !.pc = "c_write", !.event = e, !.payment = x, !.seen = s]
      PROVE  SameHolders
  <2>1. k.pc = "c_write" /\ Become(t, k)
    BY <1>3 DEF IdleTask
  <2> QED
    BY <2>1, HoldersMove
<1>4. ASSUME NEW e, NEW pc \in {"c_match", "o_write"}, NEW k, k = [IdleTask EXCEPT !.pc = pc, !.event = e], Become(t, k)
      PROVE  SameHolders
  <2>1. k.pc = pc /\ Become(t, k)
    BY <1>4 DEF IdleTask
  <2> QED
    BY <2>1, HoldersMove
<1> QED
  BY <1>0, <1>1, <1>2, <1>3, <1>4, SameCasesSame
     DEF Delivery, FailedDelivered, CapturedDelivered, PaidDelivered

LEMMA RequestKeepsBatches ==
    ASSUME Inv, RowsKeep, BatchInv, NEW t \in Tasks, Request(t)
    PROVE  BatchInv'
<1>0. SameBatches
  BY SameCasesSame DEF Request, SweepFind, DetectFind, StatusRequest, RunBatch, rowVars
<1>1. ASSUME NEW kind \in {"sweep", "batch"}, NEW S, NEW k, Become(t, k),
             k = [IdleTask EXCEPT !.pc = "a_next", !.kind = kind, !.todo = S]
      PROVE  SameHolders
  <2>1. k.pc = "a_next" /\ Become(t, k)
    BY <1>1 DEF IdleTask
  <2> QED
    BY <2>1, HoldersMove
<1>2. ASSUME NEW b, NEW k, Become(t, k), k = [IdleTask EXCEPT !.pc = "r_write", !.batch = b]
      PROVE  SameHolders
  <2>1. k.pc = "r_write" /\ Become(t, k)
    BY <1>2 DEF IdleTask
  <2> QED
    BY <2>1, HoldersMove
<1>3. ASSUME NEW found, SweepFind(t, found) \/ DetectFind(t, found)
      PROVE  BatchInv'
  BY <1>0, <1>1, <1>3, CalmBatches DEF SweepFind, DetectFind
<1>4. ASSUME NEW b \in BatchIds, StatusRequest(t, b)
      PROVE  BatchInv'
  BY <1>0, <1>4, StatusReadKeeps DEF StatusRequest
<1>5. ASSUME NEW b \in BatchIds, RunBatch(t, b)
      PROVE  BatchInv'
  BY <1>0, <1>2, <1>5, CalmBatches DEF RunBatch
<1> QED
  BY <1>3, <1>4, <1>5 DEF Request

LEMMA BatchKeepsBatches ==
    ASSUME Inv, RowsKeep, BatchInv, NEW t \in Tasks,
           DetectCreate(t) \/ DetectClaim(t) \/ DetectStatus(t) \/ StatusWrite(t) \/ RunWrite(t) \/ SweepEnd(t)
    PROVE  BatchInv'
<1>1. CASE DetectCreate(t)
  <2>1. CASE Throw(t)
    BY <2>1, SameCasesSame, HoldersIdle, CalmBatches DEF Throw, Silent, rowVars
  <2>2. Detected(t) \in Nat
    BY AtAssessing, CaseIdsFinite, FS_Subset, FS_CardinalityType DEF Detected
  <2> QED
    BY <1>1, <2>1, <2>2, CreateKeeps DEF DetectCreate
<1>2. CASE DetectStatus(t)
  <2>1. SameBatches
    BY <1>2, SameCasesSame DEF DetectStatus, Silent, rowVars
  <2>2. PICK b \in BatchIds : b = task[t].batch
    BY <1>2 DEF DetectStatus, At, BatchInv
  <2> QED
    BY <1>2, <2>1, <2>2, StatusReadKeeps DEF DetectStatus
<1>3. CASE StatusWrite(t) \/ RunWrite(t)
  BY <1>3, SetBatchKeeps DEF StatusWrite, RunWrite
<1>4. CASE SweepEnd(t)
  BY <1>4, SameCasesSame, HoldersIdle, CalmBatches DEF SweepEnd, rowVars
<1> QED
  BY <1>1, <1>2, <1>3, <1>4, ClaimKeeps

LEMMA RanSame ==
    ASSUME Inv, NEW c, NEW s \in {"IN_PROGRESS", "ESCALATED", "EXHAUSTED"}, SetCase(c, Ran(c, s))
    PROVE  SameBatches
BY WrittenRow, SetCaseSame DEF Active, Terminal, Inv, Ran

LEMMA ActsSame ==
    ASSUME Inv, NEW c, Acts(c)
    PROVE  SameBatches /\ SameHolders
<1>1. SameHolders
  BY DEF Acts, SameHolders, Holds
<1>2. ASSUME NEW s \in {"IN_PROGRESS", "ESCALATED", "EXHAUSTED"}, SetCase(c, Ran(c, s))
      PROVE  SameBatches
  BY <1>2, RanSame
<1>3. ASSUME SetCase(c, RecoveredRow(c))
      PROVE  SameBatches
  BY <1>3, RecoveredFields, SetCaseSame DEF Inv
<1> QED
  BY <1>1, <1>2, <1>3 DEF Acts, RecoveredRow

LEMMA NextKeepsBatches ==
    ASSUME Inv, RowsKeep, BatchInv, [Next]_vars
    PROVE  BatchInv'
<1>1. ASSUME UNCHANGED <<cases, batches, task>>
      PROVE  BatchInv'
  BY <1>1, SameCasesSame, CalmBatches DEF SameHolders, Holds
<1>2. ASSUME NEW x \in Payments, Fail(x) \/ Capture(x)
      PROVE  BatchInv'
  BY <1>1, <1>2 DEF Fail, Capture, rowVars
<1>3. ASSUME NEW t \in Tasks, TaskStep(t)
      PROVE  BatchInv'
  BY <1>3, CalmBatches, FailedSame, AssessSame, MoneySame, BatchKeepsBatches DEF TaskStep
<1>4. ASSUME NEW t \in Tasks, Delivery(t)
      PROVE  BatchInv'
  BY <1>4, CalmBatches, DeliverySame
<1>5. ASSUME NEW c \in CaseIds, JobCheck(c) \/ JobEscalate(c) \/ RunAct(c)
      PROVE  BatchInv'
  <2>1. CASE JobEscalate(c)
    <3>1. SameHolders
      BY <2>1 DEF JobEscalate, SameHolders, Holds
    <3>2. SameBatches
      BY <2>1, RanSame DEF JobEscalate
    <3> QED
      BY <3>1, <3>2, CalmBatches
  <2> QED
    BY <1>1, <1>5, <2>1, CalmBatches, ActsSame DEF JobCheck, RunAct, rowVars
<1>6. ASSUME NEW p \in Pools, NEW k \in Workers, PoolCheck(p, k) \/ PoolAct(p, k) \/ PoolRunEnd(p, k)
      PROVE  BatchInv'
  <2>1. CASE PoolAct(p, k)
    <3>1. PICK c : c = Held(p, k)
      OBVIOUS
    <3>2. Acts(c)
      BY <2>1, <3>1 DEF PoolAct
    <3> QED
      BY <3>2, ActsSame, CalmBatches
  <2> QED
    BY <1>1, <1>6, <2>1 DEF PoolCheck, PoolRunEnd, rowVars
<1>7. CASE BackendRestart
  <2>1. SameBatches
    BY <1>7, SameCasesSame DEF BackendRestart, rowVars
  <2>2. SameHolders
    BY <1>7 DEF BackendRestart, SameHolders, Holds, IdleTask
  <2> QED
    BY <2>1, <2>2, CalmBatches
<1>8. CASE UNCHANGED vars
  BY <1>1, <1>8 DEF vars, rowVars
<1> QED
  BY <1>2, <1>3, <1>4, <1>5, <1>6, <1>7, <1>8, RequestKeepsBatches DEF Next

LEMMA BatchInvariant == Spec => []BatchInv
<1>1. Init => BatchInv
  <2> SUFFICES ASSUME Init PROVE BatchInv
    OBVIOUS
  <2>1. \A b \in BatchIds : InBatch(b) = {} /\ batches[b].total = 0 /\ batches[b].status = "NONE"
    BY DEF Init, InBatch, NoCase, NoBatch, BatchIds
  <2>2. \A t \in Tasks : task[t].pc = "idle"
    BY DEF Init, IdleTask
  <2>3. Cardinality({}) = 0
    BY FS_EmptySet
  <2>4. \A t \in Tasks : task[t].pc \notin {"b_claim", "g_read", "g_write"}
    BY <2>2
  <2>5. \A b \in BatchIds, t \in Tasks : ~Claims(t, b) /\ ~Completes(t, b)
    BY <2>2 DEF Claims, Completes, At
  <2>6. \A b \in BatchIds : Cardinality(InBatch(b)) <= batches[b].total
    BY <2>1, <2>3
  <2>7. \A b \in BatchIds : batches[b].status # "COMPLETED"
    BY <2>1
  <2>8. ASSUME NEW b \in BatchIds
        PROVE  /\ Cardinality(InBatch(b)) <= batches[b].total
               /\ batches[b].status = "NONE" => InBatch(b) = {} /\ \A t \in Tasks : ~Claims(t, b)
               /\ batches[b].status = "COMPLETED" => Done(b)
               /\ \A t \in Tasks : Completes(t, b) => Done(b)
               /\ \A t \in Tasks : Claims(t, b) => InBatch(b) = {} /\ batches[b].total = Detected(t)
               /\ \A t, u \in Tasks : Claims(t, b) /\ Claims(u, b) => t = u
    <3>1. \A t \in Tasks : ~Claims(t, b)
      BY <2>5
    <3>2. \A t \in Tasks : ~Completes(t, b)
      BY <2>5
    <3>3. InBatch(b) = {}
      BY <2>1
    <3> QED
      BY <3>1, <3>2, <3>3, <2>6, <2>7
  <2> QED
    BY <2>4, <2>8 DEF BatchInv
<1>2. Inv /\ BatchInv /\ [Next]_vars => BatchInv'
  BY NextKeepsInv, NextKeepsBatches
<1> QED
  BY <1>1, <1>2, Invariant, PTL DEF Spec

\* A batch that reads COMPLETED had each of its cases come to an end, although its
\* cases were claimed, counted and completed in separate steps.
THEOREM CompletedBatchesAreDone == Spec => []CompletedBatchIsDone
<1>1. BatchInv => CompletedBatchIsDone
  BY DEF BatchInv, CompletedBatchIsDone, Done
<1> QED
  BY <1>1, BatchInvariant, PTL
=============================================================================
