------------------------- MODULE ReceivablesProofs -------------------------
(***************************************************************************)
(* Promises to pay, for any number of invoices, cases, promises and tasks: *)
(* what a verdict rests on, that it stands, and that a missed promise      *)
(* resumes its case once.                                                  *)
(***************************************************************************)
EXTENDS Receivables, FiniteSetTheorems, TLAPS

(***************************************************************************)
(* Types.                                                                  *)
(***************************************************************************)
LEMMA IdleTaskType == IdleTask \in Task
BY RowsAssumption DEF IdleTask, Task, Pcs

LEMMA RowTypes == NoCase \in CaseRow /\ NoPromise \in PromiseRow
BY RowsAssumption DEF NoCase, CaseRow, NoPromise, PromiseRow

LEMMA CaseUpdates ==
    ASSUME TypeOK, NEW c \in CaseIds
    PROVE  /\ \A s \in Active \cup Final : [cases[c] EXCEPT !.status = s] \in CaseRow
           /\ [cases[c] EXCEPT !.outcome = TRUE] \in CaseRow
           /\ \A s \in Active \cup Final :
                [cases[c] EXCEPT !.status = s, !.outcome = TRUE] \in CaseRow
<1>1. cases[c] \in CaseRow
  BY DEF TypeOK
<1> QED
  BY <1>1 DEF CaseRow

LEMMA BecomeType ==
    ASSUME TypeOK, NEW t \in Tasks, NEW r \in Task, Become(t, r)
    PROVE  task' \in [Tasks -> Task]
BY DEF TypeOK, Become

\* A case is put into a task.
LEMMA WithCase ==
    ASSUME NEW r \in Task, NEW pc \in Pcs, NEW c \in CaseIds
    PROVE  [r EXCEPT !.pc = pc, !.case = c] \in Task
<1>1. c \in 0 .. MaxCases
  BY RowsAssumption DEF CaseIds
<1> QED
  BY <1>1 DEF Task

LEMMA EndType ==
    ASSUME TypeOK, NEW t \in Tasks, End(t)
    PROVE  task' \in [Tasks -> Task]
BY IdleTaskType, BecomeType DEF End

LEMMA GotoType ==
    ASSUME TypeOK, NEW t \in Tasks, NEW pc \in Pcs, Goto(t, pc)
    PROVE  task' \in [Tasks -> Task]
<1>1. [task[t] EXCEPT !.pc = pc] \in Task
  BY DEF TypeOK, Task
<1> QED
  BY <1>1, BecomeType DEF Goto

LEMMA SetCaseType ==
    ASSUME TypeOK, NEW c, NEW r, c \in CaseIds => r \in CaseRow, SetCase(c, r)
    PROVE  /\ cases' \in [CaseIds -> CaseRow]
           /\ invoice' = invoice /\ promises' = promises
BY DEF TypeOK, SetCase

LEMMA SetPromiseType ==
    ASSUME TypeOK, NEW p \in PromiseIds, NEW r \in PromiseRow, SetPromise(p, r)
    PROVE  /\ promises' \in [PromiseIds -> PromiseRow]
           /\ invoice' = invoice /\ cases' = cases
BY DEF TypeOK, SetPromise

LEMMA SetInvoiceType ==
    ASSUME TypeOK, NEW i, NEW s \in {"ISSUED", "OVERDUE", "PAID", "DELETED"}, SetInvoice(i, s)
    PROVE  /\ invoice' \in [Invoices -> {"ISSUED", "OVERDUE", "PAID", "DELETED"}]
           /\ cases' = cases /\ promises' = promises
BY DEF TypeOK, SetInvoice

LEMMA RemoveType ==
    ASSUME TypeOK, NEW gone \in SUBSET CaseIds, Remove(gone)
    PROVE  cases' \in [CaseIds -> CaseRow] /\ promises' \in [PromiseIds -> PromiseRow]
<1>1. ASSUME NEW c \in CaseIds
      PROVE  [NoCase EXCEPT !.status = "DELETED", !.invoice = cases[c].invoice] \in CaseRow
  <2>1. cases[c] \in CaseRow
    BY DEF TypeOK
  <2> QED
    BY <2>1 DEF NoCase, CaseRow
<1>2. ASSUME NEW p \in PromiseIds
      PROVE  [promises[p] EXCEPT !.status = "DELETED"] \in PromiseRow
  <2>1. promises[p] \in PromiseRow
    BY DEF TypeOK
  <2> QED
    BY <2>1 DEF PromiseRow
<1> QED
  BY <1>1, <1>2 DEF Remove, TypeOK

\* Rows and runs that stay, stay well typed.
LEMMA SameRowsType ==
    ASSUME TypeOK, UNCHANGED rowVars
    PROVE  /\ invoice' \in [Invoices -> {"ISSUED", "OVERDUE", "PAID", "DELETED"}]
           /\ cases' \in [CaseIds -> CaseRow]
           /\ promises' \in [PromiseIds -> PromiseRow]
BY DEF TypeOK, rowVars

LEMMA SameRunsType ==
    ASSUME TypeOK, UNCHANGED runVars
    PROVE  queued' \subseteq CaseIds /\ acting' \in 0 .. MaxCases
BY DEF TypeOK, runVars

\* A promise that can be looked at has a case.
PromisesHaveCases == \A p \in PromiseIds :
    promises[p].status # "NONE"
      => promises[p].case \in CaseIds /\ cases[promises[p].case].status # "NONE"

LEMMA SnapshotType ==
    ASSUME TypeOK, PromisesHaveCases, NEW found \in SUBSET PendingPromises
    PROVE  Snapshot(found) \in SUBSET Due
<1> SUFFICES ASSUME NEW p \in found
             PROVE  [promise |-> p, recovered |-> IsRecovered(promises[p].case),
                     resumable |-> cases[promises[p].case].status \in Resumable] \in Due
  BY DEF Snapshot
<1>1. p \in PromiseIds /\ promises[p].case \in CaseIds
  BY DEF PendingPromises, PromisesHaveCases
<1>2. IsRecovered(promises[p].case) \in BOOLEAN
  BY <1>1 DEF IsRecovered, TypeOK, CaseRow
<1> QED
  BY <1>1, <1>2 DEF Due

LEMMA InvoiceSweepType ==
    ASSUME TypeOK, NEW t \in Tasks,
           \/ \E found \in SUBSET Issued, auto \in BOOLEAN : SweepFind(t, found, auto)
           \/ SweepMark(t)
           \/ \E i \in Invoices : AssessRequest(t, i) \/ AssessRead(t, i)
           \/ AssessFind(t) \/ AssessCreate(t) \/ SweepEnd(t),
           requests' \in Nat
    PROVE  TypeOK'
<1> USE DEF TypeOK
<1>0. task[t] \in Task
  OBVIOUS
<1>1. CASE \E found \in SUBSET Issued, auto \in BOOLEAN : SweepFind(t, found, auto)
  <2>1. PICK found \in SUBSET Issued, auto \in BOOLEAN : SweepFind(t, found, auto)
    BY <1>1
  <2>2. [IdleTask EXCEPT !.pc = "s_mark", !.stale = found, !.auto = auto] \in Task
    BY IdleTaskType DEF Task, Pcs, Issued
  <2> QED
    BY <2>1, <2>2, BecomeType, SameRowsType, SameRunsType DEF SweepFind
<1>2. CASE SweepMark(t)
  <2>1. task' \in [Tasks -> Task]
    BY <1>2, GotoType DEF SweepMark, Pcs
  <2> QED
    BY <1>2, <2>1, SameRunsType DEF SweepMark
<1>3. CASE \E i \in Invoices : AssessRequest(t, i)
  <2>1. PICK i \in Invoices : AssessRequest(t, i)
    BY <1>3
  <2>2. [IdleTask EXCEPT !.pc = "a_next", !.stale = {i}] \in Task
    BY IdleTaskType DEF Task, Pcs
  <2> QED
    BY <2>1, <2>2, BecomeType, SameRowsType, SameRunsType DEF AssessRequest
<1>4. CASE \E i \in Invoices : AssessRead(t, i)
  <2>1. PICK i \in Invoices : AssessRead(t, i)
    BY <1>4
  <2>2. [task[t] EXCEPT !.pc = "a_find", !.invoice = i, !.stale = task[t].stale \ {i}] \in Task
    BY <1>0 DEF Task, Pcs
  <2>3. task' \in [Tasks -> Task]
    BY <2>1, <2>2, BecomeType, EndType DEF AssessRead
  <2> QED
    BY <2>1, <2>3, SameRowsType, SameRunsType DEF AssessRead
<1>a. ASSUME NEW c \in CaseIds, AssessedAs(t, c)
      PROVE  task' \in [Tasks -> Task]
  <2> DEFINE list == {d \in task[t].opened \cup {c} : task[t].auto}
  <2>1. list \in SUBSET CaseIds
    BY <1>0 DEF Task
  <2> HIDE DEF list
  <2>2. [task[t] EXCEPT !.pc = "a_next", !.invoice = NoInvoice, !.opened = list] \in Task
    BY <1>0, <2>1 DEF Task, Pcs
  <2> QED
    BY <1>a, <2>2, BecomeType DEF AssessedAs, list
<1>5. CASE AssessFind(t)
  <2>1. task' \in [Tasks -> Task]
    BY <1>5, <1>a, GotoType DEF AssessFind, ActiveOf, CasesOf, Pcs
  <2> QED
    BY <1>5, <2>1, SameRowsType, SameRunsType DEF AssessFind
<1>6. CASE AssessCreate(t)
  <2> DEFINE row == [NoCase EXCEPT !.invoice = task[t].invoice, !.status = "ELIGIBLE"]
             Added == \E c \in CaseIds : SetCase(c, row) /\ AssessedAs(t, c)
  <2>1. row \in CaseRow
    BY <1>0, RowTypes DEF CaseRow, Task, Active
  <2>2. Added \/ (End(t) /\ UNCHANGED rowVars)
    BY <1>6 DEF AssessCreate
  <2> HIDE DEF row
  <2>3. CASE Added
    BY <1>6, <2>1, <2>3, <1>a, SetCaseType, SameRunsType DEF AssessCreate
  <2>4. CASE End(t) /\ UNCHANGED rowVars
    BY <1>6, <2>4, EndType, SameRowsType, SameRunsType DEF AssessCreate
  <2> QED
    BY <2>2, <2>3, <2>4
<1>7. CASE SweepEnd(t)
  <2>1. task' \in [Tasks -> Task] /\ queued' \subseteq CaseIds
    BY <1>0, <1>7, EndType DEF SweepEnd, HandOver, Task
  <2> QED
    BY <1>7, <2>1, SameRowsType DEF SweepEnd, HandOver
<1> QED
  BY <1>1, <1>2, <1>3, <1>4, <1>5, <1>6, <1>7

LEMMA MarkPaidType ==
    ASSUME TypeOK, NEW t \in Tasks,
           \/ \E i \in Invoices : MarkPaidRead(t, i)
           \/ MarkPaidWrite(t) \/ MarkPaidFind(t) \/ MarkPaidOutcome(t) \/ MarkPaidClose(t),
           requests' \in Nat
    PROVE  TypeOK'
<1> USE DEF TypeOK
<1>0. task[t] \in Task
  OBVIOUS
<1>1. CASE \E i \in Invoices : MarkPaidRead(t, i)
  <2>1. PICK i \in Invoices : MarkPaidRead(t, i)
    BY <1>1
  <2>2. [IdleTask EXCEPT !.pc = "m_pay", !.invoice = i] \in Task
    BY IdleTaskType DEF Task, Pcs
  <2> QED
    BY <2>1, <2>2, BecomeType, SameRowsType, SameRunsType DEF MarkPaidRead
<1>2. CASE MarkPaidWrite(t)
  <2>1. task' \in [Tasks -> Task]
    BY <1>2, GotoType, EndType DEF MarkPaidWrite, Pcs
  <2>2. SetInvoice(task[t].invoice, "PAID") \/ UNCHANGED rowVars
    BY <1>2 DEF MarkPaidWrite
  <2> QED
    BY <1>2, <2>1, <2>2, SetInvoiceType, SameRowsType, SameRunsType DEF MarkPaidWrite
<1>3. CASE MarkPaidFind(t)
  <2>1. \A c \in CaseIds : [task[t] EXCEPT !.pc = "m_outcome", !.case = c] \in Task
    BY <1>0, WithCase DEF Pcs
  <2>2. task' \in [Tasks -> Task]
    BY <1>3, <2>1, BecomeType, EndType DEF MarkPaidFind, ActiveOf, CasesOf
  <2> QED
    BY <1>3, <2>2, SameRowsType, SameRunsType DEF MarkPaidFind
<1>4. CASE MarkPaidOutcome(t)
  <2> DEFINE c == task[t].case
             r == [cases[c] EXCEPT !.outcome = TRUE]
  <2>1. task' \in [Tasks -> Task]
    BY <1>4, GotoType, EndType DEF MarkPaidOutcome, Pcs
  <2>2. c \in CaseIds => r \in CaseRow
    BY CaseUpdates
  <2>3. SetCase(c, r) \/ UNCHANGED rowVars
    BY <1>4 DEF MarkPaidOutcome
  <2> HIDE DEF c, r
  <2> QED
    BY <1>4, <2>1, <2>2, <2>3, SetCaseType, SameRowsType, SameRunsType DEF MarkPaidOutcome
<1>5. CASE MarkPaidClose(t)
  <2> DEFINE c == task[t].case
             r == [cases[c] EXCEPT !.status = "RECOVERED"]
  <2>1. task' \in [Tasks -> Task]
    BY <1>5, EndType DEF MarkPaidClose
  <2>2. c \in CaseIds => r \in CaseRow
    BY CaseUpdates DEF Final
  <2>3. SetCase(c, r) \/ UNCHANGED rowVars
    BY <1>5 DEF MarkPaidClose
  <2> HIDE DEF c, r
  <2> QED
    BY <1>5, <2>1, <2>2, <2>3, SetCaseType, SameRowsType, SameRunsType DEF MarkPaidClose
<1> QED
  BY <1>1, <1>2, <1>3, <1>4, <1>5

(***************************************************************************)
(* The promise endpoint and the promise sweep.                             *)
(***************************************************************************)
\* A task that makes a promise has the case it read.
PromisingHasCase == \A t \in Tasks :
    task[t].pc \in {"p_find", "p_create"}
      => task[t].case \in CaseIds /\ cases[task[t].case].status # "NONE"

LEMMA PromiseRequestType ==
    ASSUME TypeOK, PromisingHasCase, NEW t \in Tasks,
           (\E c \in CaseIds : PromiseRead(t, c)) \/ PromiseFind(t) \/ PromiseCreate(t),
           requests' \in Nat
    PROVE  TypeOK'
<1> USE DEF TypeOK
<1>1. CASE \E c \in CaseIds : PromiseRead(t, c)
  <2>1. PICK c \in CaseIds : PromiseRead(t, c)
    BY <1>1
  <2>2. [IdleTask EXCEPT !.pc = "p_find", !.case = c] \in Task
    BY IdleTaskType, WithCase DEF Pcs
  <2> QED
    BY <2>1, <2>2, BecomeType, SameRowsType, SameRunsType DEF PromiseRead
<1>2. CASE PromiseFind(t)
  <2>1. task' \in [Tasks -> Task]
    BY <1>2, GotoType, EndType DEF PromiseFind, Pcs
  <2> QED
    BY <1>2, <2>1, SameRowsType, SameRunsType DEF PromiseFind
<1>3. CASE PromiseCreate(t)
  <2> DEFINE r == [NoPromise EXCEPT !.case = task[t].case, !.status = "PENDING"]
  <2>1. task' \in [Tasks -> Task]
    BY <1>3, EndType DEF PromiseCreate
  <2>2. task[t].case \in 0 .. MaxCases
    BY DEF Task
  <2>3. r \in PromiseRow
    BY <2>2, RowTypes DEF PromiseRow
  <2>4. (\E p \in PromiseIds : SetPromise(p, r)) \/ UNCHANGED rowVars
    BY <1>3 DEF PromiseCreate
  <2> HIDE DEF r
  <2> QED
    BY <1>3, <2>1, <2>3, <2>4, SetPromiseType, SameRowsType, SameRunsType DEF PromiseCreate
<1> QED
  BY <1>1, <1>2, <1>3

\* What a claimed promise becomes.
LEMMA VerdictType ==
    ASSUME TypeOK, NEW d \in Due
    PROVE  [promises[d.promise] EXCEPT !.status = Verdict(d),
              !.resumed = promises[d.promise].resumed
                            + (IF ~d.recovered /\ d.resumable THEN 1 ELSE 0)] \in PromiseRow
<1>1. promises[d.promise] \in PromiseRow
  BY DEF TypeOK, Due
<1>2. Verdict(d) \in {"KEPT", "MISSED"}
  BY DEF Verdict
<1>3. promises[d.promise].resumed + (IF ~d.recovered /\ d.resumable THEN 1 ELSE 0) \in Nat
  BY <1>1 DEF PromiseRow
<1>4. ASSUME NEW r \in PromiseRow, NEW s \in {"KEPT", "MISSED"}, NEW n \in Nat
      PROVE  [r EXCEPT !.status = s, !.resumed = n] \in PromiseRow
  BY DEF PromiseRow
<1> QED
  BY <1>1, <1>2, <1>3, <1>4

LEMMA CheckType ==
    ASSUME TypeOK, PromisesHaveCases, NEW t \in Tasks,
           \/ \E found \in SUBSET PendingPromises : CheckFind(t, found)
           \/ \E d \in task[t].due : CheckNext(t, d)
           \/ CheckEnd(t),
           requests' \in Nat
    PROVE  TypeOK'
<1> USE DEF TypeOK
<1>0. task[t] \in Task
  OBVIOUS
<1>1. CASE \E found \in SUBSET PendingPromises : CheckFind(t, found)
  <2>1. PICK found \in SUBSET PendingPromises : CheckFind(t, found)
    BY <1>1
  <2>2. Snapshot(found) \in SUBSET Due
    BY SnapshotType
  <2>3. [IdleTask EXCEPT !.pc = "v_next", !.due = Snapshot(found)] \in Task
    BY <2>2, IdleTaskType DEF Task, Pcs
  <2> QED
    BY <2>1, <2>3, BecomeType, SameRowsType, SameRunsType DEF CheckFind
<1>2. CASE \E d \in task[t].due : CheckNext(t, d)
  <2>1. PICK d \in task[t].due : CheckNext(t, d)
    BY <1>2
  <2>2. d \in Due /\ d.promise \in PromiseIds
    BY <1>0 DEF Task, Due
  <2> DEFINE p == d.promise
             back == ~d.recovered /\ d.resumable
             r == [promises[p] EXCEPT !.status = Verdict(d),
                     !.resumed = promises[p].resumed + (IF back THEN 1 ELSE 0)]
  <2>3. CASE Claimed(p)
    <3>1. promises[p].case \in CaseIds
      BY <2>2, <2>3 DEF Claimed, PromisesHaveCases
    <3> DEFINE list == IF back THEN task[t].opened \cup {promises[p].case} ELSE task[t].opened
    <3>2. list \in SUBSET CaseIds
      BY <1>0, <3>1 DEF Task
    <3>3. /\ SetPromise(p, r)
          /\ Become(t, [task[t] EXCEPT !.due = task[t].due \ {d}, !.opened = list])
      BY <2>1, <2>3 DEF CheckNext
    <3> HIDE DEF list
    <3>4. [task[t] EXCEPT !.due = task[t].due \ {d}, !.opened = list] \in Task
      BY <1>0, <3>2 DEF Task
    <3>5. r \in PromiseRow
      BY <2>2, VerdictType
    <3> HIDE DEF r, p
    <3>6. p \in PromiseIds
      BY <2>2 DEF p
    <3> QED
      BY <2>1, <3>3, <3>4, <3>5, <3>6, BecomeType, SetPromiseType, SameRunsType DEF CheckNext
  <2>4. CASE ~Claimed(p)
    <3>1. [task[t] EXCEPT !.due = task[t].due \ {d}] \in Task
      BY <1>0 DEF Task
    <3> QED
      BY <2>1, <2>4, <3>1, BecomeType, SameRowsType, SameRunsType DEF CheckNext
  <2> QED
    BY <2>3, <2>4
<1>3. CASE CheckEnd(t)
  <2>1. task' \in [Tasks -> Task] /\ queued' \subseteq CaseIds
    BY <1>0, <1>3, EndType DEF CheckEnd, HandOver, Task
  <2> QED
    BY <1>3, <2>1, SameRowsType DEF CheckEnd, HandOver
<1> QED
  BY <1>1, <1>2, <1>3

(***************************************************************************)
(* The webhook's close, the runs and the deletions.                        *)
(***************************************************************************)
LEMMA CloseType ==
    ASSUME TypeOK, NEW t \in Tasks,
           (\E c \in CaseIds : CloseRead(t, c)) \/ CloseTransaction(t),
           requests' \in Nat
    PROVE  TypeOK'
<1> USE DEF TypeOK
<1>1. CASE \E c \in CaseIds : CloseRead(t, c)
  <2>1. PICK c \in CaseIds : CloseRead(t, c)
    BY <1>1
  <2>2. cases[c].invoice \in Invoices \cup {NoInvoice} /\ c \in 0 .. MaxCases
    BY RowsAssumption DEF CaseRow, CaseIds
  <2> DEFINE i == cases[c].invoice
  <2> HIDE DEF i
  <2>3. i \in Invoices \cup {NoInvoice}
    BY <2>2 DEF i
  <2>4. [IdleTask EXCEPT !.pc = "h_tx", !.case = c, !.invoice = i] \in Task
    BY <2>2, <2>3, IdleTaskType DEF Task, Pcs
  <2> QED
    BY <2>1, <2>4, BecomeType, SameRowsType, SameRunsType DEF CloseRead, i
<1>2. CASE CloseTransaction(t)
  <2> DEFINE c == task[t].case
             i == task[t].invoice
             Done == /\ cases' = [cases EXCEPT ![c].outcome = TRUE, ![c].status = "RECOVERED"]
                     /\ invoice' = [j \in Invoices |-> IF j = i THEN "PAID" ELSE invoice[j]]
                     /\ UNCHANGED promises
  <2>1. task' \in [Tasks -> Task]
    BY <1>2, EndType DEF CloseTransaction
  <2>2. Done \/ UNCHANGED rowVars
    BY <1>2 DEF CloseTransaction
  <2>3. CASE Done
    <3>1. \A d \in CaseIds : cases'[d] = IF d = c
            THEN [cases[d] EXCEPT !.outcome = TRUE, !.status = "RECOVERED"] ELSE cases[d]
      BY <2>3
    <3>2. \A d \in CaseIds : [cases[d] EXCEPT !.outcome = TRUE, !.status = "RECOVERED"] \in CaseRow
      BY DEF CaseRow, Final
    <3>3. cases' \in [CaseIds -> CaseRow]
      <4>1. cases' = [d \in CaseIds |-> cases'[d]]
        BY <2>3
      <4>2. \A d \in CaseIds : cases'[d] \in CaseRow
        BY <3>1, <3>2
      <4> QED
        BY <4>1, <4>2
    <3>4. /\ invoice' \in [Invoices -> {"ISSUED", "OVERDUE", "PAID", "DELETED"}]
          /\ promises' \in [PromiseIds -> PromiseRow]
      BY <2>3
    <3> QED
      BY <1>2, <2>1, <3>3, <3>4, SameRunsType DEF CloseTransaction
  <2>4. CASE UNCHANGED rowVars
    BY <1>2, <2>1, <2>4, SameRowsType, SameRunsType DEF CloseTransaction
  <2> QED
    BY <2>2, <2>3, <2>4
<1> QED
  BY <1>1, <1>2

\* The writes of a run.
RunWrites(c) == {[cases[c] EXCEPT !.status = s] : s \in {"ESCALATED", "EXHAUSTED", "IN_PROGRESS"}}
                  \cup {[cases[c] EXCEPT !.status = "RECOVERED", !.outcome = TRUE]}

LEMMA RunActWrites ==
    ASSUME RunAct
    PROVE  /\ (\E r \in RunWrites(acting) : SetCase(acting, r)) \/ UNCHANGED rowVars
           /\ acting' \in {0, acting} /\ UNCHANGED <<task, queued, requests>>
BY Zenon DEF RunAct, RunWrites

LEMMA RunWritesType ==
    ASSUME TypeOK, NEW c \in CaseIds, NEW r \in RunWrites(c)
    PROVE  r \in CaseRow
<1>0. /\ \A s \in Active \cup Final : [cases[c] EXCEPT !.status = s] \in CaseRow
      /\ \A s \in Active \cup Final : [cases[c] EXCEPT !.status = s, !.outcome = TRUE] \in CaseRow
  BY CaseUpdates
<1>1. CASE \E s \in {"ESCALATED", "EXHAUSTED", "IN_PROGRESS"} : r = [cases[c] EXCEPT !.status = s]
  <2>1. PICK s \in {"ESCALATED", "EXHAUSTED", "IN_PROGRESS"} : r = [cases[c] EXCEPT !.status = s]
    BY <1>1
  <2> QED
    BY <1>0, <2>1 DEF Active, Final
<1>2. CASE r = [cases[c] EXCEPT !.status = "RECOVERED", !.outcome = TRUE]
  BY <1>0, <1>2 DEF Final
<1> QED
  BY <1>1, <1>2 DEF RunWrites

LEMMA RunType ==
    ASSUME TypeOK, RunAct \/ \E c \in CaseIds : RunCheck(c)
    PROVE  TypeOK'
<1> USE DEF TypeOK
<1>1. CASE RunAct
  <2>1. PICK r \in RunWrites(acting) : SetCase(acting, r) \/ UNCHANGED rowVars
    BY <1>1, RunActWrites DEF RunWrites
  <2>2. acting \in CaseIds => r \in CaseRow
    BY RunWritesType
  <2> QED
    BY <1>1, <2>1, <2>2, RunActWrites, SetCaseType, SameRowsType, RowsAssumption
<1>2. CASE \E c \in CaseIds : RunCheck(c)
  <2>1. PICK c \in CaseIds : RunCheck(c)
    BY <1>2
  <2>2. acting' \in 0 .. MaxCases
    BY <2>1, RowsAssumption DEF RunCheck, CaseIds
  <2> QED
    BY <2>1, <2>2, SameRowsType DEF RunCheck
<1> QED
  BY <1>1, <1>2

\* A deletion takes some cases and leaves every task alone.
LEMMA DeletionRemoves ==
    ASSUME Deletion
    PROVE  /\ \E gone \in SUBSET CaseIds : Remove(gone)
           /\ UNCHANGED <<task, runVars>>
           /\ requests' = requests + 1
           /\ UNCHANGED invoice \/ \E i \in Invoices : invoice' = [invoice EXCEPT ![i] = "DELETED"]
BY DEF Deletion, Counted, DeleteCase, DeleteInvoice, CasesOf

LEMMA DeletionType ==
    ASSUME TypeOK, Deletion
    PROVE  TypeOK'
<1>1. cases' \in [CaseIds -> CaseRow] /\ promises' \in [PromiseIds -> PromiseRow]
  BY DeletionRemoves, RemoveType
<1>2. invoice' \in [Invoices -> {"ISSUED", "OVERDUE", "PAID", "DELETED"}]
  BY DeletionRemoves DEF TypeOK
<1>3. requests' \in Nat /\ task' = task /\ queued' = queued /\ acting' = acting
  BY DeletionRemoves DEF runVars, TypeOK
<1> QED
  BY <1>1, <1>2, <1>3 DEF TypeOK

\* Every step keeps the types.
LEMMA StepType ==
    ASSUME TypeOK, PromisesHaveCases, PromisingHasCase, [Next]_vars
    PROVE  TypeOK'
<1>1. CASE \E t \in Tasks : Sweep(t)
  <2>1. PICK t \in Tasks : Sweep(t)
    BY <1>1
  <2>2. requests' \in Nat
    BY <2>1 DEF Sweep, TypeOK
  <2> QED
    BY <2>1, <2>2, InvoiceSweepType, CheckType DEF Sweep
<1>2. CASE \E t \in Tasks : Request(t)
  <2>1. PICK t \in Tasks : Request(t)
    BY <1>2
  <2>2. requests' \in Nat
    BY <2>1 DEF Request, Counted, TypeOK
  <2> QED
    BY <2>1, <2>2, InvoiceSweepType, MarkPaidType, PromiseRequestType, CloseType DEF Request
<1>3. CASE \E t \in Tasks : Step(t)
  <2>1. PICK t \in Tasks : Step(t)
    BY <1>3
  <2>2. requests' \in Nat
    BY <2>1 DEF Step, TypeOK, SweepMark, AssessRead, AssessFind, AssessCreate, SweepEnd,
         MarkPaidWrite, MarkPaidFind, MarkPaidOutcome, MarkPaidClose, PromiseFind,
         PromiseCreate, CheckNext, CheckEnd, HandOver, CloseTransaction
  <2> QED
    BY <2>1, <2>2, InvoiceSweepType, MarkPaidType, PromiseRequestType, CheckType, CloseType
       DEF Step
<1>4. CASE RunAct \/ \E c \in CaseIds : RunCheck(c)
  BY <1>4, RunType
<1>5. CASE Deletion
  BY <1>5, DeletionType
<1>6. CASE UNCHANGED vars
  BY <1>6 DEF vars, TypeOK
<1> QED
  BY <1>1, <1>2, <1>3, <1>4, <1>5, <1>6 DEF Next

(***************************************************************************)
(* What a step can do to a promise.  A calm step does nothing to promises  *)
(* and their snapshots, and no case loses its outcome.                     *)
(***************************************************************************)
CasesGrow == \A c \in CaseIds : cases[c].status # "NONE"
    => cases'[c].status # "NONE" /\ (cases[c].outcome => cases'[c].outcome)

TaskCalm(u) ==
    \/ task'[u] = task[u]
    \/ task'[u].due \subseteq task[u].due /\ task'[u].pc \notin {"p_find", "p_create"}

Calm == promises' = promises /\ CasesGrow /\ \A u \in Tasks : TaskCalm(u)

LEMMA CalmBecome ==
    ASSUME TypeOK, NEW t \in Tasks, NEW r, Become(t, r),
           r.due \subseteq task[t].due, r.pc \notin {"p_find", "p_create"}
    PROVE  \A u \in Tasks : TaskCalm(u)
BY DEF TypeOK, Become, TaskCalm

LEMMA CalmEnd ==
    ASSUME TypeOK, NEW t \in Tasks, End(t)
    PROVE  \A u \in Tasks : TaskCalm(u)
BY CalmBecome DEF End, IdleTask

LEMMA CalmGoto ==
    ASSUME TypeOK, NEW t \in Tasks, NEW pc \in Pcs \ {"p_find", "p_create"}, Goto(t, pc)
    PROVE  \A u \in Tasks : TaskCalm(u)
<1>1. task[t] \in Task
  BY DEF TypeOK
<1>2. [task[t] EXCEPT !.pc = pc].due = task[t].due /\ [task[t] EXCEPT !.pc = pc].pc = pc
  BY <1>1 DEF Task
<1> QED
  BY <1>2, CalmBecome DEF Goto

LEMMA CalmInvoiceSweep ==
    ASSUME TypeOK, NEW t \in Tasks,
           \/ \E found \in SUBSET Issued, auto \in BOOLEAN : SweepFind(t, found, auto)
           \/ SweepMark(t)
           \/ \E i \in Invoices : AssessRequest(t, i) \/ AssessRead(t, i)
           \/ AssessFind(t) \/ AssessCreate(t) \/ SweepEnd(t)
    PROVE  Calm
<1>0. task[t] \in Task
  BY DEF TypeOK
<1>1. CASE \E found \in SUBSET Issued, auto \in BOOLEAN : SweepFind(t, found, auto)
  <2>1. PICK found \in SUBSET Issued, auto \in BOOLEAN : SweepFind(t, found, auto)
    BY <1>1
  <2> DEFINE r == [IdleTask EXCEPT !.pc = "s_mark", !.stale = found, !.auto = auto]
  <2>2. r.due = {} /\ r.pc = "s_mark"
    BY DEF IdleTask
  <2>3. Become(t, r) /\ UNCHANGED rowVars
    BY <2>1 DEF SweepFind
  <2> HIDE DEF r
  <2> QED
    BY <2>2, <2>3, CalmBecome DEF Calm, CasesGrow, rowVars
<1>2. CASE SweepMark(t)
  BY <1>2, CalmGoto DEF SweepMark, Pcs, Calm, CasesGrow
<1>3. CASE \E i \in Invoices : AssessRequest(t, i)
  <2>1. PICK i \in Invoices : AssessRequest(t, i)
    BY <1>3
  <2> DEFINE r == [IdleTask EXCEPT !.pc = "a_next", !.stale = {i}]
  <2>2. r.due = {} /\ r.pc = "a_next"
    BY DEF IdleTask
  <2>3. Become(t, r) /\ UNCHANGED rowVars
    BY <2>1 DEF AssessRequest
  <2> HIDE DEF r
  <2> QED
    BY <2>2, <2>3, CalmBecome DEF Calm, CasesGrow, rowVars
<1>4. CASE \E i \in Invoices : AssessRead(t, i)
  <2>1. PICK i \in Invoices : AssessRead(t, i)
    BY <1>4
  <2> DEFINE r == [task[t] EXCEPT !.pc = "a_find", !.invoice = i, !.stale = task[t].stale \ {i}]
  <2>2. r.due = task[t].due /\ r.pc = "a_find"
    BY <1>0 DEF Task
  <2>3. (Become(t, r) \/ End(t)) /\ UNCHANGED rowVars
    BY <2>1 DEF AssessRead
  <2> HIDE DEF r
  <2> QED
    BY <2>2, <2>3, CalmBecome, CalmEnd DEF Calm, CasesGrow, rowVars
<1>a. ASSUME NEW c, AssessedAs(t, c)
      PROVE  \A u \in Tasks : TaskCalm(u)
  <2> DEFINE list == {d \in task[t].opened \cup {c} : task[t].auto}
             r == [task[t] EXCEPT !.pc = "a_next", !.invoice = NoInvoice, !.opened = list]
  <2> HIDE DEF list
  <2>1. r.due = task[t].due /\ r.pc = "a_next"
    BY <1>0 DEF Task
  <2>2. Become(t, r)
    BY <1>a DEF AssessedAs, list
  <2> HIDE DEF r
  <2> QED
    BY <2>1, <2>2, CalmBecome
<1>5. CASE AssessFind(t)
  <2>1. \A u \in Tasks : TaskCalm(u)
    BY <1>5, <1>a, CalmGoto DEF AssessFind, Pcs
  <2> QED
    BY <1>5, <2>1 DEF AssessFind, Calm, CasesGrow, rowVars
<1>6. CASE AssessCreate(t)
  <2> DEFINE row == [NoCase EXCEPT !.invoice = task[t].invoice, !.status = "ELIGIBLE"]
             Added == \E c \in CaseIds : IsNext(cases, c) /\ SetCase(c, row) /\ AssessedAs(t, c)
  <2>1. Added \/ (End(t) /\ UNCHANGED rowVars)
    BY <1>6 DEF AssessCreate
  <2>2. CASE Added
    <3>1. PICK c \in CaseIds : IsNext(cases, c) /\ SetCase(c, row) /\ AssessedAs(t, c)
      BY <2>2
    <3> HIDE DEF row
    <3>2. CasesGrow /\ promises' = promises
      BY <3>1 DEF CasesGrow, IsNext, SetCase, TypeOK
    <3> QED
      BY <3>1, <3>2, <1>a DEF Calm
  <2>3. CASE End(t) /\ UNCHANGED rowVars
    BY <2>3, CalmEnd DEF Calm, CasesGrow, rowVars
  <2> QED
    BY <2>1, <2>2, <2>3
<1>7. CASE SweepEnd(t)
  BY <1>7, CalmEnd DEF SweepEnd, HandOver, Calm, CasesGrow, rowVars
<1> QED
  BY <1>1, <1>2, <1>3, <1>4, <1>5, <1>6, <1>7

LEMMA CalmMarkPaid ==
    ASSUME TypeOK, NEW t \in Tasks,
           \/ \E i \in Invoices : MarkPaidRead(t, i)
           \/ MarkPaidWrite(t) \/ MarkPaidFind(t) \/ MarkPaidOutcome(t) \/ MarkPaidClose(t)
    PROVE  Calm
<1>0. task[t] \in Task
  BY DEF TypeOK
<1>1. CASE \E i \in Invoices : MarkPaidRead(t, i)
  <2>1. PICK i \in Invoices : MarkPaidRead(t, i)
    BY <1>1
  <2> DEFINE r == [IdleTask EXCEPT !.pc = "m_pay", !.invoice = i]
  <2>2. r.due = {} /\ r.pc = "m_pay"
    BY DEF IdleTask
  <2>3. Become(t, r) /\ UNCHANGED rowVars
    BY <2>1 DEF MarkPaidRead
  <2> HIDE DEF r
  <2> QED
    BY <2>2, <2>3, CalmBecome DEF Calm, CasesGrow, rowVars
<1>2. CASE MarkPaidWrite(t)
  BY <1>2, CalmGoto, CalmEnd DEF MarkPaidWrite, SetInvoice, Pcs, Calm, CasesGrow, rowVars
<1>3. CASE MarkPaidFind(t)
  <2>1. ASSUME NEW c, Become(t, [task[t] EXCEPT !.pc = "m_outcome", !.case = c])
        PROVE  \A u \in Tasks : TaskCalm(u)
    <3> DEFINE r == [task[t] EXCEPT !.pc = "m_outcome", !.case = c]
    <3>1. r.due = task[t].due /\ r.pc = "m_outcome"
      BY <1>0 DEF Task
    <3>2. Become(t, r)
      BY <2>1
    <3> HIDE DEF r
    <3> QED
      BY <3>1, <3>2, CalmBecome
  <2>2. \A u \in Tasks : TaskCalm(u)
    BY <1>3, <2>1, CalmEnd DEF MarkPaidFind
  <2> QED
    BY <1>3, <2>2 DEF MarkPaidFind, Calm, CasesGrow, rowVars
<1>4. CASE MarkPaidOutcome(t)
  <2>1. \A u \in Tasks : TaskCalm(u)
    BY <1>4, CalmGoto, CalmEnd DEF MarkPaidOutcome, Pcs
  <2>2. \A c \in CaseIds : cases'[c] \in {cases[c], [cases[c] EXCEPT !.outcome = TRUE]}
    BY <1>4 DEF MarkPaidOutcome, SetCase, rowVars, TypeOK
  <2>3. CasesGrow
    BY <2>2 DEF CasesGrow, TypeOK, CaseRow
  <2> QED
    BY <1>4, <2>1, <2>3 DEF MarkPaidOutcome, SetCase, Calm, rowVars
<1>5. CASE MarkPaidClose(t)
  <2>1. \A c \in CaseIds : cases'[c] \in {cases[c], [cases[c] EXCEPT !.status = "RECOVERED"]}
    BY <1>5 DEF MarkPaidClose, SetCase, rowVars, TypeOK
  <2>2. CasesGrow
    BY <2>1 DEF CasesGrow, TypeOK, CaseRow
  <2> QED
    BY <1>5, <2>2, CalmEnd DEF MarkPaidClose, SetCase, Calm, rowVars
<1> QED
  BY <1>1, <1>2, <1>3, <1>4, <1>5

LEMMA CalmClose ==
    ASSUME TypeOK, NEW t \in Tasks,
           (\E c \in CaseIds : CloseRead(t, c)) \/ CloseTransaction(t) \/ CheckEnd(t)
    PROVE  Calm
<1>1. CASE \E c \in CaseIds : CloseRead(t, c)
  <2>1. PICK c \in CaseIds : CloseRead(t, c)
    BY <1>1
  <2> DEFINE r == [IdleTask EXCEPT !.pc = "h_tx", !.case = c, !.invoice = cases[c].invoice]
  <2>2. r.due = {} /\ r.pc = "h_tx"
    BY DEF IdleTask
  <2>3. Become(t, r) /\ UNCHANGED rowVars
    BY <2>1 DEF CloseRead
  <2> HIDE DEF r
  <2> QED
    BY <2>2, <2>3, CalmBecome DEF Calm, CasesGrow, rowVars
<1>2. CASE CloseTransaction(t)
  <2>1. \A c \in CaseIds :
          cases'[c] \in {cases[c], [cases[c] EXCEPT !.outcome = TRUE, !.status = "RECOVERED"]}
    <3>1. \/ cases' = [cases EXCEPT ![task[t].case].outcome = TRUE,
                                    ![task[t].case].status = "RECOVERED"]
          \/ cases' = cases
      BY <1>2 DEF CloseTransaction, rowVars
    <3> QED
      BY <3>1 DEF TypeOK
  <2>2. CasesGrow
    <3>1. ASSUME NEW c \in CaseIds
          PROVE  LET r == [cases[c] EXCEPT !.outcome = TRUE, !.status = "RECOVERED"]
                 IN  r.status = "RECOVERED" /\ r.outcome
      BY DEF TypeOK, CaseRow
    <3> QED
      BY <2>1, <3>1 DEF CasesGrow
  <2>3. promises' = promises /\ End(t)
    BY <1>2 DEF CloseTransaction, rowVars
  <2> QED
    BY <2>2, <2>3, CalmEnd DEF Calm
<1>3. CASE CheckEnd(t)
  BY <1>3, CalmEnd DEF CheckEnd, HandOver, Calm, CasesGrow, rowVars
<1> QED
  BY <1>1, <1>2, <1>3

LEMMA CalmRun ==
    ASSUME TypeOK, RunAct \/ \E c \in CaseIds : RunCheck(c)
    PROVE  Calm
<1>1. CASE RunAct
  <2>1. PICK r \in RunWrites(acting) : SetCase(acting, r) \/ UNCHANGED rowVars
    BY <1>1, RunActWrites DEF RunWrites
  <2>2. acting \in CaseIds
          => r.status # "NONE" /\ (cases[acting].outcome => r.outcome)
    <3> SUFFICES ASSUME acting \in CaseIds
                 PROVE  r.status # "NONE" /\ (cases[acting].outcome => r.outcome)
      OBVIOUS
    <3>1. cases[acting] \in CaseRow
      BY DEF TypeOK
    <3>2. CASE \E s \in {"ESCALATED", "EXHAUSTED", "IN_PROGRESS"} :
                 r = [cases[acting] EXCEPT !.status = s]
      BY <3>1, <3>2 DEF CaseRow
    <3>3. CASE r = [cases[acting] EXCEPT !.status = "RECOVERED", !.outcome = TRUE]
      BY <3>1, <3>3 DEF CaseRow
    <3> QED
      BY <3>2, <3>3 DEF RunWrites
  <2>3. CasesGrow /\ promises' = promises
    BY <2>1, <2>2 DEF CasesGrow, SetCase, rowVars, TypeOK
  <2> QED
    BY <1>1, <2>3, RunActWrites DEF Calm, TaskCalm
<1>2. CASE \E c \in CaseIds : RunCheck(c)
  BY <1>2 DEF RunCheck, Calm, TaskCalm, CasesGrow, rowVars
<1> QED
  BY <1>1, <1>2

LEMMA CalmStutter ==
    ASSUME UNCHANGED vars
    PROVE  Calm
BY DEF vars, Calm, TaskCalm, CasesGrow

\* The steps that are not calm.
PromiseStep(t) ==
    \/ (\E c \in CaseIds : PromiseRead(t, c)) \/ PromiseFind(t) \/ PromiseCreate(t)
    \/ (\E found \in SUBSET PendingPromises : CheckFind(t, found))
    \/ (\E d \in task[t].due : CheckNext(t, d))

LEMMA StepCases ==
    ASSUME TypeOK, [Next]_vars
    PROVE  Calm \/ (\E t \in Tasks : PromiseStep(t)) \/ Deletion
<1>1. CASE \E t \in Tasks : Sweep(t)
  BY <1>1, CalmInvoiceSweep DEF Sweep, PromiseStep
<1>2. CASE \E t \in Tasks : Request(t)
  BY <1>2, CalmInvoiceSweep, CalmMarkPaid, CalmClose DEF Request, PromiseStep
<1>3. CASE \E t \in Tasks : Step(t)
  BY <1>3, CalmInvoiceSweep, CalmMarkPaid, CalmClose DEF Step, PromiseStep
<1>4. CASE RunAct \/ (\E c \in CaseIds : RunCheck(c)) \/ Deletion \/ UNCHANGED vars
  BY <1>4, CalmRun, CalmStutter
<1> QED
  BY <1>1, <1>2, <1>3, <1>4 DEF Next

(***************************************************************************)
(* The invariant: a promise has a case that was there, a snapshot that     *)
(* says "recovered" is backed by an outcome as long as its promise lives,  *)
(* and so is every promise kept on the strength of such a snapshot.        *)
(***************************************************************************)
DuesAreBacked == \A t \in Tasks : \A d \in task[t].due :
    /\ promises[d.promise].status # "NONE"
    /\ d.recovered => \/ promises[d.promise].status = "DELETED"
                      \/ cases[promises[d.promise].case].outcome

Inv == /\ TypeOK
       /\ PromisesHaveCases /\ PromisingHasCase /\ DuesAreBacked
       /\ KeptIsBacked /\ ResumedOncePerMiss

LEMMA InitInv ==
    ASSUME Init
    PROVE  Inv
<1>1. TypeOK
  BY RowTypes, IdleTaskType, RowsAssumption DEF Init, TypeOK
<1>2. PromisesHaveCases /\ KeptIsBacked /\ ResumedOncePerMiss
  BY DEF Init, PromisesHaveCases, KeptIsBacked, ResumedOncePerMiss, NoPromise
<1>3. PromisingHasCase /\ DuesAreBacked
  BY DEF Init, PromisingHasCase, DuesAreBacked, IdleTask
<1> QED
  BY <1>1, <1>2, <1>3 DEF Inv

LEMMA CalmKeepsInv ==
    ASSUME Inv, TypeOK', Calm
    PROVE  Inv'
<1>1. ASSUME NEW p \in PromiseIds, promises[p].status # "NONE"
      PROVE  /\ promises[p].case \in CaseIds
             /\ cases'[promises[p].case].status # "NONE"
             /\ cases[promises[p].case].outcome => cases'[promises[p].case].outcome
  BY <1>1 DEF Inv, PromisesHaveCases, Calm, CasesGrow
<1>2. PromisesHaveCases' /\ KeptIsBacked' /\ ResumedOncePerMiss'
  BY <1>1 DEF Inv, PromisesHaveCases, KeptIsBacked, ResumedOncePerMiss, Calm
<1>3. PromisingHasCase'
  BY DEF Inv, PromisingHasCase, Calm, TaskCalm, CasesGrow
<1>4. DuesAreBacked'
  <2> SUFFICES ASSUME NEW t \in Tasks, NEW d \in task'[t].due
               PROVE  /\ promises'[d.promise].status # "NONE"
                      /\ d.recovered => \/ promises'[d.promise].status = "DELETED"
                                        \/ cases'[promises'[d.promise].case].outcome
    BY DEF DuesAreBacked
  <2>1. d \in task[t].due /\ promises' = promises
    BY DEF Calm, TaskCalm
  <2>2. d.promise \in PromiseIds
    BY <2>1 DEF Inv, TypeOK, Task, Due
  <2> QED
    BY <1>1, <2>1, <2>2 DEF Inv, DuesAreBacked
<1> QED
  BY <1>2, <1>3, <1>4 DEF Inv

\* A step of one task that leaves the rows alone.
LEMMA TaskOnly ==
    ASSUME Inv, TypeOK', UNCHANGED rowVars, NEW t \in Tasks, NEW r, Become(t, r),
           r.pc \in {"p_find", "p_create"} => r.case \in CaseIds /\ cases[r.case].status # "NONE",
           \A d \in r.due :
               /\ promises[d.promise].status # "NONE"
               /\ d.recovered => \/ promises[d.promise].status = "DELETED"
                                 \/ cases[promises[d.promise].case].outcome
    PROVE  Inv'
<1>1. \A u \in Tasks : task'[u] = IF u = t THEN r ELSE task[u]
  BY DEF Become, Inv, TypeOK
<1>2. PromisingHasCase' /\ DuesAreBacked'
  BY <1>1 DEF Inv, PromisingHasCase, DuesAreBacked, rowVars
<1>3. PromisesHaveCases' /\ KeptIsBacked' /\ ResumedOncePerMiss'
  BY DEF Inv, PromisesHaveCases, KeptIsBacked, ResumedOncePerMiss, rowVars
<1> QED
  BY <1>2, <1>3 DEF Inv

LEMMA PromiseRequestKeepsInv ==
    ASSUME Inv, TypeOK', NEW t \in Tasks, (\E c \in CaseIds : PromiseRead(t, c)) \/ PromiseFind(t)
    PROVE  Inv'
<1>0. task[t] \in Task
  BY DEF Inv, TypeOK
<1>1. CASE \E c \in CaseIds : PromiseRead(t, c)
  <2>1. PICK c \in CaseIds : PromiseRead(t, c)
    BY <1>1
  <2> DEFINE r == [IdleTask EXCEPT !.pc = "p_find", !.case = c]
  <2>2. r.case = c /\ r.due = {}
    BY DEF IdleTask
  <2>3. Become(t, r) /\ UNCHANGED rowVars /\ cases[c].status # "NONE"
    BY <2>1 DEF PromiseRead, Active
  <2> HIDE DEF r
  <2> QED
    BY <2>2, <2>3, TaskOnly
<1>2. CASE PromiseFind(t)
  <2> DEFINE r == [task[t] EXCEPT !.pc = "p_create"]
  <2>1. r.case = task[t].case /\ r.due = task[t].due
    BY <1>0 DEF Task
  <2>2. IdleTask.pc = "idle" /\ IdleTask.due = {}
    BY DEF IdleTask
  <2>3. (Become(t, r) \/ Become(t, IdleTask)) /\ UNCHANGED rowVars
    BY <1>2 DEF PromiseFind, Goto, End
  <2>4. task[t].case \in CaseIds /\ cases[task[t].case].status # "NONE"
    BY <1>2 DEF PromiseFind, At, Inv, PromisingHasCase
  <2>5. \A d \in task[t].due :
               /\ promises[d.promise].status # "NONE"
               /\ d.recovered => \/ promises[d.promise].status = "DELETED"
                                 \/ cases[promises[d.promise].case].outcome
    BY DEF Inv, DuesAreBacked
  <2> HIDE DEF r
  <2>6. CASE Become(t, r)
    BY <2>1, <2>3, <2>4, <2>5, <2>6, TaskOnly
  <2>7. CASE Become(t, IdleTask)
    BY <2>2, <2>3, <2>7, TaskOnly
  <2> QED
    BY <2>3, <2>6, <2>7
<1> QED
  BY <1>1, <1>2

LEMMA CheckFindKeepsInv ==
    ASSUME Inv, TypeOK', NEW t \in Tasks, NEW found \in SUBSET PendingPromises, CheckFind(t, found)
    PROVE  Inv'
<1> DEFINE r == [IdleTask EXCEPT !.pc = "v_next", !.due = Snapshot(found)]
<1>1. r.pc = "v_next" /\ r.due = Snapshot(found)
  BY DEF IdleTask
<1>2. Become(t, r) /\ UNCHANGED rowVars
  BY DEF CheckFind
<1>3. ASSUME NEW d \in Snapshot(found)
      PROVE  /\ promises[d.promise].status # "NONE"
             /\ d.recovered => cases[promises[d.promise].case].outcome
  <2>1. PICK p \in found :
          d = [promise |-> p, recovered |-> IsRecovered(promises[p].case),
               resumable |-> cases[promises[p].case].status \in Resumable]
    BY DEF Snapshot
  <2> QED
    BY <2>1 DEF PendingPromises, IsRecovered
<1> HIDE DEF r
<1> QED
  BY <1>1, <1>2, <1>3, TaskOnly

\* A task that ends, or only drops or keeps dues, stays calm; so what is left of
\* the steps that write a promise is the promise.
LEMMA PromiseCreateKeepsInv ==
    ASSUME Inv, TypeOK', NEW t \in Tasks, PromiseCreate(t)
    PROVE  Inv'
<1>1. CASE UNCHANGED rowVars
  BY <1>1, CalmEnd, CalmKeepsInv DEF PromiseCreate, Calm, CasesGrow, rowVars, Inv
<1>2. ASSUME NEW p \in PromiseIds, IsNext(promises, p),
             SetPromise(p, [NoPromise EXCEPT !.case = task[t].case, !.status = "PENDING"])
      PROVE  Inv'
  <2> DEFINE c == task[t].case
             r == [NoPromise EXCEPT !.case = c, !.status = "PENDING"]
  <2>1. c \in CaseIds /\ cases[c].status # "NONE"
    BY DEF PromiseCreate, At, Inv, PromisingHasCase
  <2>2. r.case = c /\ r.status = "PENDING" /\ r.resumed = 0
    BY DEF NoPromise
  <2> HIDE DEF r, c
  <2>3. \A q \in PromiseIds : promises'[q] = IF q = p THEN r ELSE promises[q]
    BY <1>2 DEF SetPromise, Inv, TypeOK, r, c
  <2>4. cases' = cases /\ promises[p].status = "NONE"
    BY <1>2 DEF SetPromise, IsNext
  <2>5. PromisesHaveCases' /\ KeptIsBacked' /\ ResumedOncePerMiss'
    BY <2>1, <2>2, <2>3, <2>4 DEF Inv, PromisesHaveCases, KeptIsBacked, ResumedOncePerMiss
  <2>6. \A u \in Tasks : TaskCalm(u)
    BY CalmEnd DEF PromiseCreate, Inv
  <2>7. PromisingHasCase'
    BY <2>4, <2>6 DEF Inv, PromisingHasCase, TaskCalm
  <2>8. ASSUME NEW u \in Tasks, NEW d \in task'[u].due
        PROVE  /\ promises'[d.promise].status # "NONE"
               /\ d.recovered => \/ promises'[d.promise].status = "DELETED"
                                 \/ cases'[promises'[d.promise].case].outcome
    <3>1. d \in task[u].due
      BY <2>6 DEF TaskCalm
    <3>2. d.promise \in PromiseIds /\ promises[d.promise].status # "NONE"
      BY <3>1 DEF Inv, TypeOK, Task, Due, DuesAreBacked
    <3>3. promises'[d.promise] = promises[d.promise]
      BY <2>3, <2>4, <3>2
    <3> QED
      BY <2>4, <3>1, <3>2, <3>3 DEF Inv, DuesAreBacked
  <2> QED
    BY <2>5, <2>7, <2>8 DEF Inv, DuesAreBacked
<1> QED
  BY <1>1, <1>2 DEF PromiseCreate

\* A verdict is written only on a pending promise.
LEMMA CheckNextWrites ==
    ASSUME Inv, NEW t \in Tasks, NEW d \in task[t].due, CheckNext(t, d)
    PROVE  /\ d.promise \in PromiseIds /\ cases' = cases
           /\ \A u \in Tasks : TaskCalm(u)
           /\ \/ promises' = promises
              \/ /\ promises[d.promise].status = "PENDING"
                 /\ \A q \in PromiseIds \ {d.promise} : promises'[q] = promises[q]
                 /\ promises'[d.promise].case = promises[d.promise].case
                 /\ promises'[d.promise].status = Verdict(d)
                 /\ promises'[d.promise].resumed \in 0 .. IF d.recovered THEN 0 ELSE 1
<1>0. task[t] \in Task /\ d \in Due /\ d.promise \in PromiseIds
  BY DEF Inv, TypeOK, Task, Due
<1> DEFINE p == d.promise
           back == ~d.recovered /\ d.resumable
           r == [promises[p] EXCEPT !.status = Verdict(d),
                   !.resumed = promises[p].resumed + (IF back THEN 1 ELSE 0)]
           list == IF back THEN task[t].opened \cup {promises[p].case} ELSE task[t].opened
           k == [task[t] EXCEPT !.due = task[t].due \ {d}, !.opened = list]
           l == [task[t] EXCEPT !.due = task[t].due \ {d}]
<1>1. At(t, "v_next") /\ task[t].pc = "v_next"
  BY DEF CheckNext, At
<1>2. k.due \subseteq task[t].due /\ k.pc = "v_next" /\ l.due \subseteq task[t].due /\ l.pc = "v_next"
  BY <1>0, <1>1 DEF Task
<1>3. \/ Claimed(p) /\ SetPromise(p, r) /\ Become(t, k)
      \/ ~Claimed(p) /\ Become(t, l) /\ UNCHANGED rowVars
  BY DEF CheckNext
<1>4. promises[p] \in PromiseRow
  BY <1>0 DEF Inv, TypeOK
<1>5. r.case = promises[p].case /\ r.status = Verdict(d)
  BY <1>4 DEF PromiseRow
<1>6. r.resumed = promises[p].resumed + (IF back THEN 1 ELSE 0)
  BY <1>4 DEF PromiseRow
<1>7. Claimed(p) => promises[p].resumed = 0
  <2>1. promises[p].resumed \in Nat
    BY <1>4 DEF PromiseRow
  <2>2. Claimed(p) => promises[p].resumed <= 0
    BY <1>0 DEF Claimed, Inv, ResumedOncePerMiss
  <2> QED
    BY <2>1, <2>2
<1>8. Claimed(p) => r.resumed \in 0 .. IF d.recovered THEN 0 ELSE 1
  BY <1>0, <1>6, <1>7 DEF Due
<1> HIDE DEF k, l, list, r
<1>9. \A u \in Tasks : TaskCalm(u)
  BY <1>2, <1>3, CalmBecome DEF Inv
<1>10. CASE Claimed(p) /\ SetPromise(p, r)
  BY <1>0, <1>5, <1>8, <1>9, <1>10 DEF SetPromise, Claimed, Inv, TypeOK
<1>11. CASE UNCHANGED rowVars
  BY <1>0, <1>9, <1>11 DEF rowVars
<1> QED
  BY <1>3, <1>10, <1>11

LEMMA CheckNextKeepsInv ==
    ASSUME Inv, TypeOK', NEW t \in Tasks, NEW d \in task[t].due, CheckNext(t, d)
    PROVE  Inv'
<1>1. d.promise \in PromiseIds /\ cases' = cases /\ \A u \in Tasks : TaskCalm(u)
  BY CheckNextWrites
<1>2. CASE promises' = promises
  BY <1>1, <1>2, CalmKeepsInv DEF Calm, CasesGrow
<1>3. CASE /\ promises[d.promise].status = "PENDING"
           /\ \A q \in PromiseIds \ {d.promise} : promises'[q] = promises[q]
           /\ promises'[d.promise].case = promises[d.promise].case
           /\ promises'[d.promise].status = Verdict(d)
           /\ promises'[d.promise].resumed \in 0 .. IF d.recovered THEN 0 ELSE 1
  <2>1. Verdict(d) = IF d.recovered THEN "KEPT" ELSE "MISSED"
    BY DEF Verdict
  <2>2. PromisesHaveCases'
    BY <1>1, <1>3 DEF Inv, PromisesHaveCases
  <2>3. ResumedOncePerMiss'
    BY <1>3, <2>1 DEF Inv, ResumedOncePerMiss
  <2>4. d.recovered => cases[promises[d.promise].case].outcome
    BY <1>3 DEF Inv, DuesAreBacked
  <2>5. KeptIsBacked'
    BY <1>1, <1>3, <2>1, <2>4 DEF Inv, KeptIsBacked
  <2>6. PromisingHasCase'
    BY <1>1 DEF Inv, PromisingHasCase, TaskCalm
  <2>7. ASSUME NEW u \in Tasks, NEW e \in task'[u].due
        PROVE  /\ promises'[e.promise].status # "NONE"
               /\ e.recovered => \/ promises'[e.promise].status = "DELETED"
                                 \/ cases'[promises'[e.promise].case].outcome
    <3>1. e \in task[u].due
      BY <1>1 DEF TaskCalm
    <3>2. /\ e.promise \in PromiseIds /\ promises[e.promise].status # "NONE"
          /\ e.recovered => \/ promises[e.promise].status = "DELETED"
                            \/ cases[promises[e.promise].case].outcome
      BY <3>1 DEF Inv, TypeOK, Task, Due, DuesAreBacked
    <3>3. CASE e.promise = d.promise
      BY <1>1, <1>3, <2>1, <3>2, <3>3
    <3>4. CASE e.promise # d.promise
      BY <1>1, <1>3, <3>2, <3>4
    <3> QED
      BY <3>3, <3>4
  <2> QED
    BY <2>2, <2>3, <2>5, <2>6, <2>7 DEF Inv, DuesAreBacked
<1> QED
  BY <1>2, <1>3, CheckNextWrites

LEMMA DeletionWrites ==
    ASSUME Inv, Deletion
    PROVE  /\ task' = task
           /\ \E gone \in SUBSET CaseIds :
                /\ \A c \in CaseIds : /\ c \in gone => cases'[c].status = "DELETED"
                                      /\ c \notin gone => cases'[c] = cases[c]
                /\ \A p \in PromiseIds :
                     /\ promises'[p].case = promises[p].case
                     /\ promises'[p].resumed = promises[p].resumed
                     /\ promises[p].case \in gone => promises'[p].status = "DELETED"
                     /\ promises[p].case \notin gone => promises'[p] = promises[p]
<1>1. PICK gone \in SUBSET CaseIds : Remove(gone)
  BY DeletionRemoves
<1>2. ASSUME NEW p \in PromiseIds
      PROVE  /\ promises'[p].case = promises[p].case
             /\ promises'[p].resumed = promises[p].resumed
             /\ promises[p].case \in gone => promises'[p].status = "DELETED"
             /\ promises[p].case \notin gone => promises'[p] = promises[p]
  <2>1. promises[p] \in PromiseRow
    BY DEF Inv, TypeOK
  <2>2. promises'[p] = IF promises[p].case \in gone
                       THEN [promises[p] EXCEPT !.status = "DELETED"] ELSE promises[p]
    BY <1>1 DEF Remove
  <2> QED
    BY <2>1, <2>2 DEF PromiseRow
<1>3. ASSUME NEW c \in CaseIds
      PROVE  /\ c \in gone => cases'[c].status = "DELETED"
             /\ c \notin gone => cases'[c] = cases[c]
  BY <1>1 DEF Remove, NoCase
<1> QED
  BY <1>2, <1>3, DeletionRemoves

LEMMA DeletionKeepsInv ==
    ASSUME Inv, TypeOK', Deletion
    PROVE  Inv'
<1>1. PICK gone \in SUBSET CaseIds :
        /\ \A c \in CaseIds : /\ c \in gone => cases'[c].status = "DELETED"
                              /\ c \notin gone => cases'[c] = cases[c]
        /\ \A p \in PromiseIds :
             /\ promises'[p].case = promises[p].case
             /\ promises'[p].resumed = promises[p].resumed
             /\ promises[p].case \in gone => promises'[p].status = "DELETED"
             /\ promises[p].case \notin gone => promises'[p] = promises[p]
  BY DeletionWrites
<1>2. task' = task
  BY DeletionWrites
<1>3. PromisesHaveCases'
  <2> SUFFICES ASSUME NEW p \in PromiseIds, promises'[p].status # "NONE"
               PROVE  promises'[p].case \in CaseIds /\ cases'[promises'[p].case].status # "NONE"
    BY DEF PromisesHaveCases
  <2>1. CASE promises[p].case \in gone
    BY <1>1, <2>1
  <2>2. CASE promises[p].case \notin gone
    BY <1>1, <2>2 DEF Inv, PromisesHaveCases
  <2> QED
    BY <2>1, <2>2
<1>4. KeptIsBacked'
  <2> SUFFICES ASSUME NEW p \in PromiseIds, promises'[p].status = "KEPT"
               PROVE  cases'[promises'[p].case].outcome
    BY DEF KeptIsBacked
  <2>1. promises[p].case \notin gone /\ promises'[p] = promises[p]
    BY <1>1
  <2> QED
    BY <1>1, <2>1 DEF Inv, PromisesHaveCases, KeptIsBacked
<1>5. ResumedOncePerMiss'
  <2> SUFFICES ASSUME NEW p \in PromiseIds
               PROVE  promises'[p].resumed
                        <= IF promises'[p].status \in {"MISSED", "DELETED"} THEN 1 ELSE 0
    BY DEF ResumedOncePerMiss
  <2>1. promises[p].resumed \in Nat
    BY DEF Inv, TypeOK, PromiseRow
  <2>2. promises[p].resumed <= IF promises[p].status \in {"MISSED", "DELETED"} THEN 1 ELSE 0
    BY DEF Inv, ResumedOncePerMiss
  <2> QED
    BY <1>1, <2>1, <2>2
<1>6. PromisingHasCase'
  BY <1>1, <1>2 DEF Inv, PromisingHasCase
<1>7. DuesAreBacked'
  <2> SUFFICES ASSUME NEW t \in Tasks, NEW d \in task[t].due
               PROVE  /\ promises'[d.promise].status # "NONE"
                      /\ d.recovered => \/ promises'[d.promise].status = "DELETED"
                                        \/ cases'[promises'[d.promise].case].outcome
    BY <1>2 DEF DuesAreBacked
  <2>1. /\ d.promise \in PromiseIds /\ promises[d.promise].status # "NONE"
        /\ d.recovered => \/ promises[d.promise].status = "DELETED"
                          \/ cases[promises[d.promise].case].outcome
    BY DEF Inv, TypeOK, Task, Due, DuesAreBacked
  <2>2. promises[d.promise].case \in CaseIds
    BY <2>1 DEF Inv, PromisesHaveCases
  <2>3. CASE promises[d.promise].case \in gone
    BY <1>1, <2>1, <2>3
  <2>4. CASE promises[d.promise].case \notin gone
    BY <1>1, <2>1, <2>2, <2>4
  <2> QED
    BY <2>3, <2>4
<1> QED
  BY <1>3, <1>4, <1>5, <1>6, <1>7 DEF Inv

\* Inv is inductive.
LEMMA NextKeepsInv ==
    ASSUME Inv, [Next]_vars
    PROVE  Inv'
<1>1. TypeOK'
  BY StepType DEF Inv
<1>2. Calm \/ (\E t \in Tasks : PromiseStep(t)) \/ Deletion
  BY StepCases DEF Inv
<1>3. CASE \E t \in Tasks : PromiseStep(t)
  BY <1>1, <1>3, PromiseRequestKeepsInv, PromiseCreateKeepsInv, CheckFindKeepsInv,
     CheckNextKeepsInv DEF PromiseStep
<1> QED
  BY <1>1, <1>2, <1>3, CalmKeepsInv, DeletionKeepsInv

(***************************************************************************)
(* The theorems.                                                           *)
(***************************************************************************)
LEMMA AlwaysInv == Spec => []Inv
<1>1. Init => Inv
  BY InitInv
<1>2. Inv /\ [Next]_vars => Inv'
  BY NextKeepsInv
<1> QED
  BY <1>1, <1>2, PTL DEF Spec

\* Receivables.tla keeps its types, whatever sweeps, requests, deliveries and
\* deletions do to each other's rows.
THEOREM ReceivablesTypes == Spec => []TypeOK
<1>1. Inv => TypeOK
  BY DEF Inv
<1> QED
  BY <1>1, AlwaysInv, PTL

\* PromiseToPaySweepService calls a promise kept only where its case has an
\* outcome, although the snapshot it decides from may be old by then.
THEOREM KeptPromisesAreBacked == Spec => []KeptIsBacked
<1>1. Inv => KeptIsBacked
  BY DEF Inv
<1> QED
  BY <1>1, AlwaysInv, PTL

\* However many sweeps read a promise as due, its case goes back to a pool at
\* most once, and only for a promise missed.
THEOREM MissedPromiseResumesOnce == Spec => []ResumedOncePerMiss
<1>1. Inv => ResumedOncePerMiss
  BY DEF Inv
<1> QED
  BY <1>1, AlwaysInv, PTL

\* No step turns a verdict around; it goes only when its case is deleted.
LEMMA StepKeepsVerdict ==
    ASSUME Inv, [Next]_vars, NEW p \in PromiseIds, promises[p].status \in {"KEPT", "MISSED"}
    PROVE  promises'[p].status \in {promises[p].status, "DELETED"}
<1>1. CASE Calm
  BY <1>1 DEF Calm
<1>2. ASSUME NEW t \in Tasks, PromiseStep(t)
      PROVE  promises'[p].status \in {promises[p].status, "DELETED"}
  <2>1. CASE \/ (\E c \in CaseIds : PromiseRead(t, c)) \/ PromiseFind(t)
             \/ \E found \in SUBSET PendingPromises : CheckFind(t, found)
    BY <2>1 DEF PromiseRead, PromiseFind, CheckFind, rowVars
  <2>2. CASE PromiseCreate(t)
    <3>1. \/ \E q \in PromiseIds : promises[q].status = "NONE" /\ \E r : SetPromise(q, r)
          \/ UNCHANGED rowVars
      BY <2>2 DEF PromiseCreate, IsNext
    <3> QED
      BY <3>1 DEF SetPromise, rowVars, Inv, TypeOK
  <2>3. CASE \E d \in task[t].due : CheckNext(t, d)
    BY <2>3, CheckNextWrites
  <2> QED
    BY <1>2, <2>1, <2>2, <2>3 DEF PromiseStep
<1>3. CASE Deletion
  BY <1>3, DeletionWrites
<1> QED
  BY <1>1, <1>2, <1>3, StepCases DEF Inv

THEOREM VerdictsAreFinal == Spec => VerdictIsFinal
<1>1. Inv /\ [Next]_vars =>
        [\A p \in PromiseIds : promises[p].status \in {"KEPT", "MISSED"}
           => promises'[p].status \in {promises[p].status, "DELETED"}]_vars
  BY StepKeepsVerdict
<1> QED
  BY <1>1, AlwaysInv, PTL DEF Spec, VerdictIsFinal

(***************************************************************************)
(* Live promises of one case: as many as requests that looked together.    *)
(***************************************************************************)
\* No step but the two of a promise request adds to either count.
Shrinks(c) == PendingOf(c)' \subseteq PendingOf(c) /\ Promising(c)' \subseteq Promising(c)

LEMMA FiniteCounts ==
    /\ \A c : IsFiniteSet(PendingOf(c)) /\ Cardinality(PendingOf(c)) \in Nat
    /\ \A c : IsFiniteSet(Promising(c)) /\ Cardinality(Promising(c)) \in Nat
    /\ \A c : Cardinality(Promising(c)) <= Cardinality(Tasks)
    /\ Cardinality(Tasks) \in Nat
<1>1. IsFiniteSet(PromiseIds) /\ IsFiniteSet(Tasks) /\ Cardinality(Tasks) \in Nat
  BY TasksAssumption, RowsAssumption, FS_Interval, FS_CardinalityType DEF PromiseIds
<1>2. ASSUME NEW c
      PROVE  IsFiniteSet(PendingOf(c)) /\ Cardinality(PendingOf(c)) \in Nat
  <2>1. PendingOf(c) \subseteq PromiseIds
    BY DEF PendingOf
  <2> QED
    BY <1>1, <2>1, FS_Subset, FS_CardinalityType
<1>3. ASSUME NEW c
      PROVE  /\ IsFiniteSet(Promising(c)) /\ Cardinality(Promising(c)) \in Nat
             /\ Cardinality(Promising(c)) <= Cardinality(Tasks)
  <2>1. Promising(c) \subseteq Tasks
    BY DEF Promising
  <2> QED
    BY <1>1, <2>1, FS_Subset, FS_CardinalityType
<1> QED
  BY <1>1, <1>2, <1>3

LEMMA ShrinkingCounts ==
    ASSUME LivePromisesBounded, NEW c \in CaseIds, Shrinks(c)
    PROVE  Cardinality(PendingOf(c)') + Cardinality(Promising(c)') <= Cardinality(Tasks)
<1>1. Cardinality(PendingOf(c)') <= Cardinality(PendingOf(c))
  BY FiniteCounts, FS_Subset DEF Shrinks
<1>2. Cardinality(Promising(c)') <= Cardinality(Promising(c))
  BY FiniteCounts, FS_Subset DEF Shrinks
<1>3. Cardinality(PendingOf(c)') \in Nat /\ Cardinality(Promising(c)') \in Nat
  BY FiniteCounts, FS_Subset, FS_CardinalityType DEF Shrinks
<1>4. Cardinality(PendingOf(c)) + Cardinality(Promising(c)) <= Cardinality(Tasks)
  BY DEF LivePromisesBounded
<1>5. Cardinality(PendingOf(c)) \in Nat /\ Cardinality(Promising(c)) \in Nat /\ Cardinality(Tasks) \in Nat
  BY FiniteCounts
<1> QED
  BY <1>1, <1>2, <1>3, <1>4, <1>5

LEMMA CalmShrinks ==
    ASSUME Calm, NEW c \in CaseIds
    PROVE  Shrinks(c)
BY DEF Calm, TaskCalm, Shrinks, PendingOf, Promising, At

LEMMA DeletionShrinks ==
    ASSUME Inv, Deletion, NEW c \in CaseIds
    PROVE  Shrinks(c)
<1>1. task' = task
  BY DeletionWrites
<1>2. \A p \in PromiseIds : promises'[p] = promises[p] \/ promises'[p].status = "DELETED"
  BY DeletionWrites
<1> QED
  BY <1>1, <1>2 DEF Shrinks, PendingOf, Promising, At

LEMMA CheckShrinks ==
    ASSUME Inv, NEW t \in Tasks, NEW c \in CaseIds,
           \/ \E found \in SUBSET PendingPromises : CheckFind(t, found)
           \/ \E d \in task[t].due : CheckNext(t, d)
    PROVE  Shrinks(c)
<1>1. CASE \E found \in SUBSET PendingPromises : CheckFind(t, found)
  <2>1. PICK found \in SUBSET PendingPromises : CheckFind(t, found)
    BY <1>1
  <2> DEFINE r == [IdleTask EXCEPT !.pc = "v_next", !.due = Snapshot(found)]
  <2>2. r.pc = "v_next"
    BY DEF IdleTask
  <2>3. Become(t, r) /\ UNCHANGED rowVars
    BY <2>1 DEF CheckFind
  <2> HIDE DEF r
  <2> QED
    BY <2>2, <2>3 DEF Become, Inv, TypeOK, Shrinks, PendingOf, Promising, At, rowVars
<1>2. CASE \E d \in task[t].due : CheckNext(t, d)
  <2>1. PICK d \in task[t].due : CheckNext(t, d)
    BY <1>2
  <2>2. \A u \in Tasks : TaskCalm(u)
    BY <2>1, CheckNextWrites
  <2>3. \A p \in PromiseIds :
          promises'[p] = promises[p] \/ promises'[p].status \in {"KEPT", "MISSED"}
    BY <2>1, CheckNextWrites DEF Verdict
  <2> QED
    BY <2>2, <2>3 DEF TaskCalm, Shrinks, PendingOf, Promising, At
<1> QED
  BY <1>1, <1>2

\* The request that looks and finds none: all that promise now have looked too.
LEMMA PromiseFindCounts ==
    ASSUME Inv, LivePromisesBounded, NEW t \in Tasks, NEW c \in CaseIds,
           (\E d \in CaseIds : PromiseRead(t, d)) \/ PromiseFind(t)
    PROVE  Cardinality(PendingOf(c)') + Cardinality(Promising(c)') <= Cardinality(Tasks)
<1>0. task[t] \in Task
  BY DEF Inv, TypeOK
<1>1. PendingOf(c)' = PendingOf(c)
  BY DEF PromiseRead, PromiseFind, rowVars, PendingOf
<1>3. CASE PromiseFind(t) /\ task[t].case = c /\ ~AlreadyPromised(c)
  <2>1. PendingOf(c)' = {}
    BY <1>1, <1>3 DEF AlreadyPromised
  <2>2. Promising(c)' \subseteq Tasks
    BY DEF Promising
  <2>3. Cardinality(PendingOf(c)') = 0
    BY <2>1, FS_EmptySet
  <2>4. Cardinality(Promising(c)') <= Cardinality(Tasks) /\ Cardinality(Promising(c)') \in Nat
    BY <2>2, TasksAssumption, FS_Subset, FS_CardinalityType
  <2> QED
    BY <2>3, <2>4
<1>4. CASE \E d \in CaseIds : PromiseRead(t, d)
  <2>1. PICK d \in CaseIds : PromiseRead(t, d)
    BY <1>4
  <2> DEFINE r == [IdleTask EXCEPT !.pc = "p_find", !.case = d]
  <2>2. r.pc = "p_find"
    BY DEF IdleTask
  <2>3. Become(t, r)
    BY <2>1 DEF PromiseRead
  <2> HIDE DEF r
  <2>4. Shrinks(c)
    BY <1>1, <2>2, <2>3 DEF Become, Inv, TypeOK, Shrinks, Promising, At
  <2> QED
    BY <2>4, ShrinkingCounts
<1>5. CASE PromiseFind(t) /\ (task[t].case # c \/ AlreadyPromised(c))
  <2> DEFINE r == [task[t] EXCEPT !.pc = "p_create"]
  <2>1. r.case = task[t].case
    BY <1>0 DEF Task
  <2>2. Become(t, IdleTask) \/ (Become(t, r) /\ task[t].case # c)
    BY <1>5 DEF PromiseFind, Goto, End
  <2>3. IdleTask.pc = "idle"
    BY DEF IdleTask
  <2> HIDE DEF r
  <2>4. Shrinks(c)
    BY <1>1, <2>1, <2>2, <2>3 DEF Become, Inv, TypeOK, Shrinks, Promising, At
  <2> QED
    BY <2>4, ShrinkingCounts
<1> QED
  BY <1>3, <1>4, <1>5

\* A request that creates its promise stops being one that will.
LEMMA PromiseCreateCounts ==
    ASSUME Inv, LivePromisesBounded, NEW t \in Tasks, NEW c \in CaseIds, PromiseCreate(t)
    PROVE  Cardinality(PendingOf(c)') + Cardinality(Promising(c)') <= Cardinality(Tasks)
<1>1. \A u \in Tasks : task'[u] = IF u = t THEN IdleTask ELSE task[u]
  BY DEF PromiseCreate, End, Become, Inv, TypeOK
<1>2. At(t, "p_create") /\ IdleTask.pc = "idle"
  BY DEF PromiseCreate, IdleTask
<1>3. Promising(c)' = Promising(c) \ {t}
  BY <1>1, <1>2 DEF Promising, At
<1>4. CASE UNCHANGED rowVars \/ task[t].case # c
  <2>1. PendingOf(c)' \subseteq PendingOf(c)
    <3>1. CASE UNCHANGED rowVars
      BY <3>1 DEF PendingOf, rowVars
    <3>2. ASSUME NEW p \in PromiseIds, task[t].case # c,
                 SetPromise(p, [NoPromise EXCEPT !.case = task[t].case, !.status = "PENDING"])
          PROVE  PendingOf(c)' \subseteq PendingOf(c)
      <4>1. [NoPromise EXCEPT !.case = task[t].case, !.status = "PENDING"].case = task[t].case
        BY DEF NoPromise
      <4>2. \A q \in PromiseIds : q # p => promises'[q] = promises[q]
        BY <3>2 DEF SetPromise, Inv, TypeOK
      <4>3. promises'[p].case = task[t].case
        BY <3>2, <4>1 DEF SetPromise, Inv, TypeOK
      <4> QED
        BY <3>2, <4>2, <4>3 DEF PendingOf
    <3> QED
      BY <1>4, <3>1, <3>2 DEF PromiseCreate
  <2> QED
    BY <1>3, <2>1, ShrinkingCounts DEF Shrinks
<1>5. ASSUME NEW p \in PromiseIds, task[t].case = c,
             SetPromise(p, [NoPromise EXCEPT !.case = task[t].case, !.status = "PENDING"])
      PROVE  Cardinality(PendingOf(c)') + Cardinality(Promising(c)') <= Cardinality(Tasks)
  <2>1. PendingOf(c)' \subseteq PendingOf(c) \cup {p}
    BY <1>5 DEF SetPromise, Inv, TypeOK, PendingOf
  <2>2. t \in Promising(c)
    BY <1>2, <1>5 DEF Promising
  <2>3. Cardinality(Promising(c)') = Cardinality(Promising(c)) - 1
    BY <1>3, <2>2, FiniteCounts, FS_RemoveElement
  <2>4. IsFiniteSet(PendingOf(c) \cup {p})
        /\ Cardinality(PendingOf(c) \cup {p}) <= Cardinality(PendingOf(c)) + 1
    <3>1. IsFiniteSet(PendingOf(c)) /\ Cardinality(PendingOf(c)) \in Nat
      BY FiniteCounts
    <3>2. /\ IsFiniteSet(PendingOf(c) \cup {p})
          /\ Cardinality(PendingOf(c) \cup {p})
               = IF p \in PendingOf(c) THEN Cardinality(PendingOf(c)) ELSE Cardinality(PendingOf(c)) + 1
      BY <3>1, FS_AddElement
    <3> QED
      BY <3>1, <3>2
  <2>5. Cardinality(PendingOf(c)') <= Cardinality(PendingOf(c) \cup {p})
        /\ Cardinality(PendingOf(c)') \in Nat
    BY <2>1, <2>4, FS_Subset, FS_CardinalityType
  <2>6. Cardinality(PendingOf(c) \cup {p}) \in Nat
    BY <2>4, FS_CardinalityType
  <2>7. Cardinality(PendingOf(c)) + Cardinality(Promising(c)) <= Cardinality(Tasks)
    BY DEF LivePromisesBounded
  <2>8. Cardinality(PendingOf(c)) \in Nat /\ Cardinality(Promising(c)) \in Nat
        /\ Cardinality(Tasks) \in Nat
    BY FiniteCounts
  <2> QED
    BY <2>3, <2>4, <2>5, <2>6, <2>7, <2>8
<1> QED
  BY <1>4, <1>5 DEF PromiseCreate

LEMMA NextKeepsCounts ==
    ASSUME Inv, LivePromisesBounded, [Next]_vars
    PROVE  LivePromisesBounded'
<1> SUFFICES ASSUME NEW c \in CaseIds
             PROVE  Cardinality(PendingOf(c)') + Cardinality(Promising(c)') <= Cardinality(Tasks)
  BY DEF LivePromisesBounded
<1>1. CASE Calm \/ Deletion
  BY <1>1, CalmShrinks, DeletionShrinks, ShrinkingCounts
<1>2. CASE \E t \in Tasks : PromiseStep(t)
  BY <1>2, CheckShrinks, ShrinkingCounts, PromiseFindCounts, PromiseCreateCounts DEF PromiseStep
<1> QED
  BY <1>1, <1>2, StepCases DEF Inv

\* PromiseToPayService.create looks before it creates: a case never has more
\* live promises than there are requests that can look at the same moment.
THEOREM LivePromisesAreBounded == Spec => []LivePromisesBounded
<1>1. Init => LivePromisesBounded
  <2> SUFFICES ASSUME Init, NEW c \in CaseIds
               PROVE  Cardinality(PendingOf(c)) + Cardinality(Promising(c)) <= Cardinality(Tasks)
    BY DEF LivePromisesBounded
  <2>1. PendingOf(c) = {} /\ Promising(c) = {}
    BY DEF Init, PendingOf, NoPromise, Promising, At, IdleTask
  <2> QED
    BY <2>1, FS_EmptySet, FiniteCounts
<1>2. Inv /\ LivePromisesBounded /\ [Next]_vars => LivePromisesBounded'
  BY NextKeepsCounts
<1> QED
  BY <1>1, <1>2, AlwaysInv, PTL DEF Spec
=============================================================================
