---------------------------- MODULE Receivables ----------------------------
(***************************************************************************)
(* Overdue invoices: InvoiceOverdueSweepService, RiskService.assessInvoice-*)
(* Overdue, InvoicesService.markPaid and delete, PromiseToPayService,      *)
(* PromiseToPaySweepService, the close of an invoice case by a webhook, and*)
(* the automatic runs the sweeps hand their cases to.                      *)
(*                                                                         *)
(* A task is one request, webhook delivery or sweep; between two of its    *)
(* awaits everything else may happen.  A sweep's cases wait in a bag, which*)
(* is what runWithConcurrency makes of its list (SweepPool), and of a run  *)
(* only what touches the case's status is kept (the rest is AutoRecovery). *)
(***************************************************************************)
EXTENDS Integers, FiniteSets

CONSTANTS
    Invoices,      \* the merchant's invoices that are past their due date
    NoInvoice,     \* invoiceId null
    Tasks,         \* slots for concurrent requests, deliveries and sweeps
    MaxCases,      \* bound: RecoveryCase rows
    MaxPromises,   \* bound: PromiseToPay rows
    MaxRequests    \* bound: requests and webhook deliveries

ASSUME InvoicesAssumption == NoInvoice \notin Invoices
ASSUME TasksAssumption    == IsFiniteSet(Tasks)
ASSUME RowsAssumption     == MaxCases \in Nat /\ MaxPromises \in Nat

VARIABLES
    invoice,    \* Invoice.status
    cases,      \* RecoveryCase rows, by creation order
    promises,   \* PromiseToPay rows, by creation order
    task,       \* the local variables of each task
    queued,     \* the cases that wait for a run
    acting,     \* the case a run goes on to act on, 0 if none
    requests    \* requests and deliveries so far

vars == <<invoice, cases, promises, task, queued, acting, requests>>

CaseIds    == 1 .. MaxCases
PromiseIds == 1 .. MaxPromises

Active    == {"ELIGIBLE", "IN_PROGRESS", "ESCALATED"}
Resumable == {"ELIGIBLE", "IN_PROGRESS"}
Final     == {"RECOVERED", "EXHAUSTED"}

\* "NONE" is a row not created yet, "DELETED" one deleted again.
CaseRow == [invoice : Invoices \cup {NoInvoice},
            status : Active \cup Final \cup {"NONE", "DELETED"},
            outcome : BOOLEAN]
NoCase  == [invoice |-> NoInvoice, status |-> "NONE", outcome |-> FALSE]

\* resumed counts the times the promise's case was handed back to a pool.
PromiseRow == [case : 0 .. MaxCases, resumed : Nat,
               status : {"NONE", "PENDING", "KEPT", "MISSED", "DELETED"}]
NoPromise  == [case |-> 0, resumed |-> 0, status |-> "NONE"]

\* What the promise sweep's one query saw of a due promise and its case.
Due == [promise : PromiseIds, recovered : BOOLEAN, resumable : BOOLEAN]

Pcs == {"idle", "s_mark", "a_next", "a_find", "a_create", "m_pay", "m_find", "m_outcome",
        "m_close", "p_find", "p_create", "v_next", "h_tx"}

\* stale are the invoices a sweep still has to assess, opened the list it will
\* hand over if it is to start the runs (auto).
Task == [pc : Pcs, auto : BOOLEAN, stale : SUBSET Invoices, invoice : Invoices \cup {NoInvoice},
         case : 0 .. MaxCases, due : SUBSET Due, opened : SUBSET CaseIds]

IdleTask == [pc |-> "idle", auto |-> FALSE, stale |-> {}, invoice |-> NoInvoice, case |-> 0,
             due |-> {}, opened |-> {}]

TypeOK ==
    /\ invoice \in [Invoices -> {"ISSUED", "OVERDUE", "PAID", "DELETED"}]
    /\ cases \in [CaseIds -> CaseRow]
    /\ promises \in [PromiseIds -> PromiseRow]
    /\ task \in [Tasks -> Task]
    /\ queued \subseteq CaseIds /\ acting \in 0 .. MaxCases
    /\ requests \in Nat

Init ==
    /\ invoice = [i \in Invoices |-> "ISSUED"]
    /\ cases = [c \in CaseIds |-> NoCase]
    /\ promises = [p \in PromiseIds |-> NoPromise]
    /\ task = [t \in Tasks |-> IdleTask]
    /\ queued = {} /\ acting = 0
    /\ requests = 0
-----------------------------------------------------------------------------
Live(c)       == cases[c].status \notin {"NONE", "DELETED"}
CasesOf(i)    == {c \in CaseIds : cases[c].invoice = i /\ Live(c)}
ActiveOf(i)   == {c \in CasesOf(i) : cases[c].status \in Active}
PendingOf(c)  == {p \in PromiseIds : promises[p].case = c /\ promises[p].status = "PENDING"}

IsNext(table, n) == table[n].status = "NONE" /\ \A m \in DOMAIN table : m < n => table[m].status # "NONE"

Idle(t)    == task[t].pc = "idle"
At(t, pc)  == task[t].pc = pc
Become(t, r) == task' = [task EXCEPT ![t] = r]
End(t)     == Become(t, IdleTask)
Goto(t, pc) == Become(t, [task[t] EXCEPT !.pc = pc])

Full(table) == \A n \in DOMAIN table : table[n].status # "NONE"

rowVars == <<invoice, cases, promises>>
runVars == <<queued, acting>>

SetCase(c, r)    == cases' = [cases EXCEPT ![c] = r] /\ UNCHANGED <<invoice, promises>>
SetPromise(p, r) == promises' = [promises EXCEPT ![p] = r] /\ UNCHANGED <<invoice, cases>>
SetInvoice(i, s) == invoice' = [invoice EXCEPT ![i] = s] /\ UNCHANGED <<cases, promises>>

\* The end of a sweep: it hands its list to runWithConcurrency without waiting.
HandOver(t) ==
    /\ queued' = queued \cup task[t].opened
    /\ End(t)
    /\ UNCHANGED <<rowVars, acting, requests>>
-----------------------------------------------------------------------------
(***************************************************************************)
(* InvoiceOverdueSweepService.sweepOnce and assessInvoiceOverdue.          *)
(***************************************************************************)
Issued == {i \in Invoices : invoice[i] = "ISSUED"}

\* The scheduled job or POST /invoices/sweep-overdue; the Recovery Lab's call wants
\* no runs.
SweepFind(t, found, auto) ==
    /\ Idle(t)
    /\ found # {}
    /\ Become(t, [IdleTask EXCEPT !.pc = "s_mark", !.stale = found, !.auto = auto])
    /\ UNCHANGED <<rowVars, runVars>>

\* updateMany by the ids found, whatever their status is by now.
MarkedOverdue(i, found) == i \in found /\ invoice[i] # "DELETED"

SweepMark(t) ==
    /\ At(t, "s_mark")
    /\ invoice' = [i \in Invoices |->
                     IF MarkedOverdue(i, task[t].stale) THEN "OVERDUE" ELSE invoice[i]]
    /\ Goto(t, "a_next")
    /\ UNCHANGED <<cases, promises, runVars, requests>>

\* POST /risk/assess-invoice/:id is an assessment without a sweep and its runs.
AssessRequest(t, i) ==
    /\ Idle(t)
    /\ Become(t, [IdleTask EXCEPT !.pc = "a_next", !.stale = {i}])
    /\ UNCHANGED <<rowVars, runVars>>

\* An invoice that is not OVERDUE any more makes the whole sweep throw.
AssessRead(t, i) ==
    /\ At(t, "a_next") /\ i \in task[t].stale
    /\ \/ /\ invoice[i] # "OVERDUE"
          /\ End(t)
       \/ /\ invoice[i] = "OVERDUE"
          /\ Become(t, [task[t] EXCEPT !.pc = "a_find", !.invoice = i,
                                       !.stale = task[t].stale \ {i}])
    /\ UNCHANGED <<rowVars, runVars, requests>>

AssessedAs(t, c) ==
    Become(t, [task[t] EXCEPT !.pc = "a_next", !.invoice = NoInvoice,
                              !.opened = {d \in task[t].opened \cup {c} : task[t].auto}])

\* findFirst has no order: any active case of the invoice is taken for the one.
AssessFind(t) ==
    LET active == ActiveOf(task[t].invoice) IN
    /\ At(t, "a_find")
    /\ \/ \E c \in active : AssessedAs(t, c)
       \/ active = {} /\ Goto(t, "a_create")
    /\ UNCHANGED <<rowVars, runVars, requests>>

\* The foreign key refuses the case of an invoice deleted meanwhile, and so does a
\* full table (a bound).
AssessCreate(t) ==
    LET i == task[t].invoice
        fails == invoice[i] = "DELETED" \/ Full(cases) IN
    /\ At(t, "a_create")
    /\ \/ /\ ~fails
          /\ \E c \in CaseIds :
               /\ IsNext(cases, c)
               /\ SetCase(c, [NoCase EXCEPT !.invoice = i, !.status = "ELIGIBLE"])
               /\ AssessedAs(t, c)
       \/ fails /\ End(t) /\ UNCHANGED rowVars
    /\ UNCHANGED <<runVars, requests>>

\* The list is empty where no runs are wanted.
SweepEnd(t) == At(t, "a_next") /\ task[t].stale = {} /\ HandOver(t)
-----------------------------------------------------------------------------
(***************************************************************************)
(* InvoicesService.markPaid and delete.                                    *)
(***************************************************************************)
MarkPaidRead(t, i) ==
    /\ Idle(t)
    /\ invoice[i] \notin {"DELETED", "PAID"}
    /\ Become(t, [IdleTask EXCEPT !.pc = "m_pay", !.invoice = i])
    /\ UNCHANGED <<rowVars, runVars>>

MarkPaidWrite(t) ==
    LET i == task[t].invoice IN
    /\ At(t, "m_pay")
    /\ \/ invoice[i] # "DELETED" /\ SetInvoice(i, "PAID") /\ Goto(t, "m_find")
       \/ invoice[i] = "DELETED" /\ End(t) /\ UNCHANGED rowVars
    /\ UNCHANGED <<runVars, requests>>

MarkPaidFind(t) ==
    LET active == ActiveOf(task[t].invoice) IN
    /\ At(t, "m_find")
    /\ \/ \E c \in active : /\ ~cases[c].outcome
                            /\ Become(t, [task[t] EXCEPT !.pc = "m_outcome", !.case = c])
       \/ active = {} /\ End(t)
       \/ (\E c \in active : cases[c].outcome) /\ End(t)
    /\ UNCHANGED <<rowVars, runVars, requests>>

\* A second outcome, or the outcome of a deleted case, throws.
MarkPaidOutcome(t) ==
    LET c == task[t].case IN
    /\ At(t, "m_outcome")
    /\ \/ /\ Live(c) /\ ~cases[c].outcome
          /\ SetCase(c, [cases[c] EXCEPT !.outcome = TRUE])
          /\ Goto(t, "m_close")
       \/ ~(Live(c) /\ ~cases[c].outcome) /\ End(t) /\ UNCHANGED rowVars
    /\ UNCHANGED <<runVars, requests>>

MarkPaidClose(t) ==
    LET c == task[t].case IN
    /\ At(t, "m_close")
    /\ IF Live(c) THEN SetCase(c, [cases[c] EXCEPT !.status = "RECOVERED"])
                  ELSE UNCHANGED rowVars
    /\ End(t)
    /\ UNCHANGED <<runVars, requests>>

\* deleteRecoveryCasesCascade: actions, outcome and promises go with the case.
Remove(gone) ==
    /\ cases' = [c \in CaseIds |->
                   IF c \in gone
                   THEN [NoCase EXCEPT !.status = "DELETED", !.invoice = cases[c].invoice]
                   ELSE cases[c]]
    /\ promises' = [p \in PromiseIds |->
                      IF promises[p].case \in gone
                      THEN [promises[p] EXCEPT !.status = "DELETED"]
                      ELSE promises[p]]

DeleteInvoice(i) ==
    /\ invoice[i] # "DELETED"
    /\ invoice' = [invoice EXCEPT ![i] = "DELETED"]
    /\ Remove(CasesOf(i))
    /\ UNCHANGED <<task, runVars>>

\* RecoveryCasesService.delete of a case whose invoice is not demo data.
DeleteCase(c) == Live(c) /\ Remove({c}) /\ UNCHANGED <<invoice, task, runVars>>
-----------------------------------------------------------------------------
(***************************************************************************)
(* PromiseToPayService.create and PromiseToPaySweepService.sweepOnce.      *)
(***************************************************************************)
PromiseRead(t, c) ==
    /\ Idle(t)
    /\ cases[c].status \in Active
    /\ invoice[cases[c].invoice] # "PAID"
    /\ Become(t, [IdleTask EXCEPT !.pc = "p_find", !.case = c])
    /\ UNCHANGED <<rowVars, runVars>>

\* Mutant: nobody looks for a live promise.
NeverPromised(c) == FALSE

AlreadyPromised(c) == PendingOf(c) # {}

PromiseFind(t) ==
    /\ At(t, "p_find")
    /\ IF AlreadyPromised(task[t].case) THEN End(t) ELSE Goto(t, "p_create")
    /\ UNCHANGED <<rowVars, runVars, requests>>

\* A case deleted meanwhile fails the foreign key.
PromiseCreate(t) ==
    LET c == task[t].case
        fails == ~Live(c) \/ Full(promises) IN
    /\ At(t, "p_create")
    /\ \/ /\ ~fails
          /\ \E p \in PromiseIds :
               /\ IsNext(promises, p)
               /\ SetPromise(p, [NoPromise EXCEPT !.case = c, !.status = "PENDING"])
       \/ fails /\ UNCHANGED rowVars
    /\ End(t)
    /\ UNCHANGED <<runVars, requests>>

\* Mutant: the invoice's status stands for the outcome.
InvoicePaid(c) == cases[c].invoice # NoInvoice /\ invoice[cases[c].invoice] = "PAID"

IsRecovered(c) == cases[c].status = "RECOVERED" /\ cases[c].outcome

\* Mutant: only promises of cases that can be resumed are read.
SnapshotOfOpen(found) ==
    {[promise |-> p, recovered |-> IsRecovered(promises[p].case), resumable |-> TRUE] :
        p \in {q \in found : cases[promises[q].case].status \in Resumable}}

\* One query reads the due promises with their cases and outcomes.
Snapshot(found) ==
    {[promise |-> p, recovered |-> IsRecovered(promises[p].case),
      resumable |-> cases[promises[p].case].status \in Resumable] : p \in found}

PendingPromises == {p \in PromiseIds : promises[p].status = "PENDING"}

CheckFind(t, found) ==
    /\ Idle(t)
    /\ found # {}
    /\ Become(t, [IdleTask EXCEPT !.pc = "v_next", !.due = Snapshot(found)])
    /\ UNCHANGED <<rowVars, runVars>>

\* Mutant: a status the schema does not have.
NewVerdict(d) == IF d.recovered THEN "KEPT" ELSE "RESUMED"
Verdict(d) == IF d.recovered THEN "KEPT" ELSE "MISSED"

\* Mutant: the verdict is written by the promise's id alone.
ClaimedById(p) == promises[p].status # "DELETED"

Claimed(p) == promises[p].status = "PENDING"

\* updateMany where the promise is still PENDING; only the sweep that made the
\* verdict hands the case back.
CheckNext(t, d) ==
    LET p == d.promise
        back == ~d.recovered /\ d.resumable IN
    /\ At(t, "v_next") /\ d \in task[t].due
    /\ \/ /\ Claimed(p)
          /\ SetPromise(p, [promises[p] EXCEPT !.status = Verdict(d),
                                               !.resumed = promises[p].resumed + (IF back THEN 1 ELSE 0)])
          /\ Become(t, [task[t] EXCEPT !.due = task[t].due \ {d},
                          !.opened = IF back THEN task[t].opened \cup {promises[p].case} ELSE task[t].opened])
       \/ /\ ~Claimed(p)
          /\ Become(t, [task[t] EXCEPT !.due = task[t].due \ {d}])
          /\ UNCHANGED rowVars
    /\ UNCHANGED <<runVars, requests>>

CheckEnd(t) == At(t, "v_next") /\ task[t].due = {} /\ HandOver(t)
-----------------------------------------------------------------------------
(***************************************************************************)
(* closeRecoveryCase, once the customer has paid what a run sent.          *)
(***************************************************************************)
\* Only a case that a run has worked on can have sent a link.
CloseRead(t, c) ==
    /\ Idle(t)
    /\ Live(c) /\ cases[c].status # "ELIGIBLE"
    /\ ~cases[c].outcome /\ cases[c].status # "RECOVERED"
    /\ Become(t, [IdleTask EXCEPT !.pc = "h_tx", !.case = c, !.invoice = cases[c].invoice])
    /\ UNCHANGED <<rowVars, runVars>>

\* One transaction: the unique outcome row, a deleted case or a deleted invoice
\* roll it back.
CloseTransaction(t) ==
    LET c == task[t].case
        i == task[t].invoice
        fails == \/ ~Live(c) \/ cases[c].outcome
                 \/ i # NoInvoice /\ invoice[i] = "DELETED" IN
    /\ At(t, "h_tx")
    /\ \/ /\ ~fails
          /\ cases' = [cases EXCEPT ![c].outcome = TRUE, ![c].status = "RECOVERED"]
          /\ invoice' = [j \in Invoices |-> IF j = i THEN "PAID" ELSE invoice[j]]
          /\ UNCHANGED promises
       \/ fails /\ UNCHANGED rowVars
    /\ End(t)
    /\ UNCHANGED <<runVars, requests>>
-----------------------------------------------------------------------------
(***************************************************************************)
(* runAutomaticRecovery in a pool.                                         *)
(***************************************************************************)
\* Up to checkForRecoveryCase: an outcome or a final status ends the run, as does
\* a case that is gone.
RunCheck(c) ==
    LET stop == ~Live(c) \/ cases[c].outcome \/ cases[c].status \in Final IN
    /\ acting = 0
    /\ c \in queued
    /\ queued' = queued \ {c}
    /\ acting' = IF stop THEN 0 ELSE c
    /\ UNCHANGED <<rowVars, task, requests>>

\* Escalate or give up; or execute and observe, which may still give up, and which
\* records an invoice that is paid by now (outcome and status are two calls, which
\* AutoRecovery keeps apart).  Each write names the case by its id alone.
InvoiceObserved(c) == Live(c) /\ ~cases[c].outcome /\ invoice[cases[c].invoice] = "PAID"

RunAct ==
    LET c == acting IN
    /\ acting # 0
    /\ \/ /\ Live(c)
          /\ \E s \in {"ESCALATED", "EXHAUSTED"} : SetCase(c, [cases[c] EXCEPT !.status = s])
          /\ acting' = 0
       \/ /\ Live(c)
          /\ SetCase(c, [cases[c] EXCEPT !.status = "IN_PROGRESS"])
          /\ UNCHANGED acting
       \/ /\ InvoiceObserved(c)
          /\ SetCase(c, [cases[c] EXCEPT !.status = "RECOVERED", !.outcome = TRUE])
          /\ acting' = 0
       \/ UNCHANGED rowVars /\ acting' = 0
    /\ UNCHANGED <<task, queued, requests>>

-----------------------------------------------------------------------------
Sweep(t) ==
    /\ \/ \E found \in SUBSET Issued : SweepFind(t, found, TRUE)
       \/ \E found \in SUBSET PendingPromises : CheckFind(t, found)
    /\ UNCHANGED requests

Counted == requests < MaxRequests /\ requests' = requests + 1

Request(t) ==
    /\ Counted
    /\ \/ \E found \in SUBSET Issued : SweepFind(t, found, FALSE)
       \/ \E i \in Invoices : AssessRequest(t, i) \/ MarkPaidRead(t, i)
       \/ \E c \in CaseIds : PromiseRead(t, c) \/ CloseRead(t, c)

Deletion ==
    /\ Counted
    /\ \/ \E c \in CaseIds : DeleteCase(c)
       \/ \E i \in Invoices : DeleteInvoice(i)

Step(t) ==
    \/ SweepMark(t) \/ (\E i \in Invoices : AssessRead(t, i)) \/ AssessFind(t)
    \/ AssessCreate(t) \/ SweepEnd(t)
    \/ MarkPaidWrite(t) \/ MarkPaidFind(t) \/ MarkPaidOutcome(t) \/ MarkPaidClose(t)
    \/ PromiseFind(t) \/ PromiseCreate(t)
    \/ (\E d \in task[t].due : CheckNext(t, d)) \/ CheckEnd(t) \/ CloseTransaction(t)

Next ==
    \/ \E t \in Tasks : Sweep(t) \/ Request(t) \/ Step(t)
    \/ RunAct \/ Deletion
    \/ \E c \in CaseIds : RunCheck(c)

Spec == Init /\ [][Next]_vars

(***************************************************************************)
(* Fairness.  Node finishes the awaits of a task, and the scheduler of the *)
(* promise sweep calls it every 15 minutes, with every promise that is due.*)
(* That is strong because a slot taken by other work is no obstacle in the *)
(* code.                                                                   *)
(***************************************************************************)
PromiseSweep(p) == \E t \in Tasks, found \in SUBSET PendingPromises :
                       p \in found /\ CheckFind(t, found) /\ UNCHANGED requests

Fairness == /\ \A t \in Tasks : WF_vars(Step(t))
            /\ \A p \in PromiseIds : SF_vars(PromiseSweep(p))

FairSpec == Spec /\ Fairness
-----------------------------------------------------------------------------
\* A promise is called kept only on a recorded outcome: not on the customer's
\* word, and not on the invoice's status either (the sweep's doc comment).
KeptIsBacked == \A p \in PromiseIds :
    promises[p].status = "KEPT" => cases[promises[p].case].outcome

\* A verdict stands: no later sweep, whatever it saw, turns it around.
VerdictIsFinal == [][\A p \in PromiseIds :
    promises[p].status \in {"KEPT", "MISSED"}
      => promises'[p].status \in {promises[p].status, "DELETED"}]_vars

\* However many sweeps see one missed promise, one of them resumes its case.
ResumedOncePerMiss == \A p \in PromiseIds :
    promises[p].resumed <= IF promises[p].status \in {"MISSED", "DELETED"} THEN 1 ELSE 0

\* One live promise per case (PromiseToPayService.create), but for the requests
\* that look at the same moment.
Promising(c) == {t \in Tasks : At(t, "p_create") /\ task[t].case = c}

LivePromisesBounded == \A c \in CaseIds :
    Cardinality(PendingOf(c)) + Cardinality(Promising(c)) <= Cardinality(Tasks)

\* A due promise gets its verdict, even on a case that is finished.
PromiseGetsVerdict == \A p \in PromiseIds :
    promises[p].status = "PENDING" ~> promises[p].status # "PENDING"
=============================================================================
