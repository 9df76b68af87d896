---------------------------- MODULE IntakeProofs ----------------------------
(***************************************************************************)
(* Failed payments, abandoned checkouts and the money of an order, for any *)
(* number of orders, payments, deliveries, sweeps, batches and pool loops. *)
(***************************************************************************)
EXTENDS Intake, SweepPoolProofs, FiniteSetTheorems

(***************************************************************************)
(* The rows, and what Razorpay says of them.                               *)
(***************************************************************************)
RowTypes ==
    /\ rz \in [Payments -> SUBSET {"failed", "captured"}]
    /\ orders \in [Orders -> {"CREATED", "PAID"}]
    /\ payments \in [Payments -> {"NONE", "FAILED", "CAPTURED"}] /\ settled \subseteq Orders
    /\ cases \in [CaseIds -> CaseRow] /\ batches \in [BatchIds -> BatchRow]

\* A row that is not created yet belongs to nobody.
NewIsFree == \A c \in CaseIds : cases[c].status = "NONE" =>
    cases[c].order = None /\ cases[c].payment = None /\ cases[c].batch = 0 /\ ~cases[c].outcome

\* A payment linked to an order's case is one of that order.
LinksAgree == \A c \in CaseIds : cases[c].order # None /\ cases[c].payment # None =>
    OrderOf[cases[c].payment] = cases[c].order

EndIsTold == \A c \in CaseIds : cases[c].status \in Terminal => cases[c].ended

RowsOK == RowTypes /\ NewIsFree /\ LinksAgree /\ EndIsTold /\ MoneyIsReal

\* What no step takes back.
MoneyKeeps ==
    /\ \A x \in Payments : rz[x] \subseteq rz'[x]
    /\ \A x \in Payments : payments[x] # "NONE" => payments'[x] # "NONE"
    /\ \A x \in Payments : payments[x] = "CAPTURED" => payments'[x] = "CAPTURED"
    /\ \A o \in Orders : orders[o] = "PAID" => orders'[o] = "PAID"

CasesKeep == \A c \in CaseIds :
    /\ cases[c].status # "NONE" => cases'[c].status # "NONE"
    /\ cases[c].order # None => cases'[c].order = cases[c].order
    /\ OrderOfRow(c) # None => OrderOfRow(c)' = OrderOfRow(c)
    /\ cases[c].outcome => cases'[c].outcome
    /\ cases[c].ended /\ cases[c].status # "NONE" => cases'[c].ended

RowsKeep == MoneyKeeps /\ CasesKeep

LEMMA PaidStays ==
    ASSUME RowTypes, MoneyKeeps, NEW o
    PROVE  PaidAt(o) => PaidAt(o)'
BY DEF MoneyKeeps, PaidAt

LEMMA SameRows ==
    ASSUME RowsOK, UNCHANGED <<rowVars, rz>>
    PROVE  RowsOK' /\ RowsKeep
<1>1. RowTypes' /\ NewIsFree' /\ LinksAgree' /\ EndIsTold'
  BY DEF RowsOK, RowTypes, NewIsFree, LinksAgree, EndIsTold, rowVars
<1>2. MoneyIsReal'
  BY DEF RowsOK, MoneyIsReal, PaidAt, OrderOfRow, rowVars
<1>3. RowsKeep
  BY DEF RowsKeep, MoneyKeeps, CasesKeep, OrderOfRow, rowVars
<1> QED
  BY <1>1, <1>2, <1>3 DEF RowsOK

\* Razorpay decides on a payment.
LEMMA RazorpayRows ==
    ASSUME RowsOK, rz' \in [Payments -> SUBSET {"failed", "captured"}],
           \A x \in Payments : rz[x] \subseteq rz'[x], UNCHANGED rowVars
    PROVE  RowsOK' /\ RowsKeep
<1>1. RowTypes' /\ NewIsFree' /\ LinksAgree' /\ EndIsTold'
  BY DEF RowsOK, RowTypes, NewIsFree, LinksAgree, EndIsTold, rowVars
<1>2. RowsKeep
  BY DEF RowsKeep, MoneyKeeps, CasesKeep, OrderOfRow, rowVars
<1>3. \A o : PaidAt(o) => PaidAt(o)'
  BY <1>2, PaidStays DEF RowsOK, RowsKeep
<1>4. \A c \in CaseIds : OrderOfRow(c)' = OrderOfRow(c)
  BY DEF OrderOfRow, rowVars
<1>5. MoneyIsReal'
  BY <1>3, <1>4 DEF RowsOK, MoneyIsReal, rowVars
<1> QED
  BY <1>1, <1>2, <1>5 DEF RowsOK

\* A payment row is created, or its status written.
LEMMA PaymentWrite ==
    ASSUME RowsOK, NEW x \in Payments, NEW v \in {"FAILED", "CAPTURED"},
           v = "FAILED" => payments[x] = "NONE", v = "CAPTURED" => PaidAt(OrderOf[x]),
           payments' = [payments EXCEPT ![x] = v], UNCHANGED <<orders, settled, cases, batches, rz>>
    PROVE  RowsOK' /\ RowsKeep
<1>1. RowTypes' /\ NewIsFree' /\ LinksAgree' /\ EndIsTold'
  BY DEF RowsOK, RowTypes, NewIsFree, LinksAgree, EndIsTold
<1>2. \A y \in Payments : payments'[y] = IF y = x THEN v ELSE payments[y]
  BY DEF RowsOK, RowTypes
<1>3. RowsKeep
  BY <1>2 DEF RowsKeep, MoneyKeeps, CasesKeep, OrderOfRow
<1>4. \A o : PaidAt(o)' = PaidAt(o)
  BY DEF PaidAt
<1>5. \A c \in CaseIds : OrderOfRow(c)' = OrderOfRow(c)
  BY DEF OrderOfRow
<1>6. MoneyIsReal'
  BY <1>2, <1>4, <1>5 DEF RowsOK, MoneyIsReal
<1> QED
  BY <1>1, <1>3, <1>6 DEF RowsOK

LEMMA OrderWrite ==
    ASSUME RowsOK, NEW o \in Orders, PaidAt(o), OrderPaid(o),
           UNCHANGED <<payments, settled, cases, batches, rz>>
    PROVE  RowsOK' /\ RowsKeep /\ orders'[o] = "PAID"
<1>1. RowTypes' /\ NewIsFree' /\ LinksAgree' /\ EndIsTold'
  BY DEF RowsOK, RowTypes, NewIsFree, LinksAgree, EndIsTold, OrderPaid
<1>2. \A q \in Orders : orders'[q] = IF q = o THEN "PAID" ELSE orders[q]
  BY DEF RowsOK, RowTypes, OrderPaid
<1>3. RowsKeep
  BY <1>2 DEF RowsKeep, MoneyKeeps, CasesKeep, OrderOfRow
<1>4. \A q : PaidAt(q)' = PaidAt(q)
  BY DEF PaidAt
<1>5. \A c \in CaseIds : OrderOfRow(c)' = OrderOfRow(c)
  BY DEF OrderOfRow
<1>6. MoneyIsReal'
  BY <1>2, <1>4, <1>5 DEF RowsOK, MoneyIsReal
<1> QED
  BY <1>1, <1>2, <1>3, <1>6 DEF RowsOK

\* A case is written: it keeps its order, or gets a payment of that order.
LEMMA CaseWrite ==
    ASSUME RowsOK, NEW c, NEW r, SetCase(c, r), rz' = rz,
           c \in CaseIds => /\ r \in CaseRow /\ r.order = cases[c].order
                            /\ r.batch = cases[c].batch /\ r.status # "NONE"
                            /\ r.payment = cases[c].payment
                               \/ (r.payment # None /\ r.order # None /\ OrderOf[r.payment] = r.order)
                            /\ cases[c].outcome => r.outcome
                            /\ r.outcome => cases[c].outcome \/ PaidAt(OrderOfRow(c))
                            /\ cases[c].ended => r.ended
                            /\ r.status \in Terminal => r.ended
    PROVE  RowsOK' /\ RowsKeep
<1>1. /\ UNCHANGED <<orders, payments, settled, batches, rz>>
      /\ \A d \in CaseIds : cases'[d] = IF d = c THEN r ELSE cases[d]
  BY DEF SetCase, RowsOK, RowTypes
<1>2. RowTypes'
  BY DEF SetCase, RowsOK, RowTypes
<1>3. NewIsFree' /\ LinksAgree' /\ EndIsTold'
  BY <1>1 DEF RowsOK, NewIsFree, LinksAgree, EndIsTold
<1>4. ASSUME NEW d \in CaseIds
      PROVE  OrderOfRow(d) = OrderOfRow(d)'
  <2>1. CASE d = c /\ r.payment # None /\ r.order # None /\ OrderOf[r.payment] = r.order
    BY <1>1, <2>1 DEF OrderOfRow, RowsOK, LinksAgree
  <2>2. CASE d = c /\ r.payment = cases[c].payment
    BY <1>1, <2>2 DEF OrderOfRow
  <2>3. CASE d # c
    BY <1>1, <2>3 DEF OrderOfRow
  <2> QED
    BY <2>1, <2>2, <2>3
<1>5. RowsKeep
  BY <1>1, <1>4 DEF RowsKeep, MoneyKeeps, CasesKeep
<1>6. \A q : PaidAt(q)' = PaidAt(q)
  BY <1>1 DEF PaidAt
<1>7. MoneyIsReal'
  BY <1>1, <1>4, <1>6 DEF RowsOK, MoneyIsReal
<1> QED
  BY <1>2, <1>3, <1>5, <1>7 DEF RowsOK

LEMMA CaseAdd ==
    ASSUME RowsOK, NEW c \in CaseIds, ~Exists(c), rz' = rz, NEW r \in CaseRow, SetCase(c, r),
           r.status = "ELIGIBLE", ~r.outcome, r.order = None \/ r.payment = None
    PROVE  RowsOK' /\ RowsKeep
<1>1. /\ UNCHANGED <<orders, payments, settled, batches, rz>>
      /\ \A d \in CaseIds : cases'[d] = IF d = c THEN r ELSE cases[d]
  BY DEF SetCase, RowsOK, RowTypes
<1>2. RowTypes'
  BY DEF SetCase, RowsOK, RowTypes
<1>3. NewIsFree' /\ LinksAgree' /\ EndIsTold'
  BY <1>1 DEF RowsOK, NewIsFree, LinksAgree, EndIsTold, Terminal
<1>4. OrderOfRow(c) = None /\ \A d \in CaseIds \ {c} : OrderOfRow(d)' = OrderOfRow(d)
  BY <1>1 DEF OrderOfRow, Exists, RowsOK, NewIsFree
<1>5. RowsKeep
  BY <1>1, <1>4 DEF RowsKeep, MoneyKeeps, CasesKeep, Exists, RowsOK, NewIsFree
<1>6. \A q : PaidAt(q)' = PaidAt(q)
  BY <1>1 DEF PaidAt
<1>7. MoneyIsReal'
  BY <1>1, <1>4, <1>6 DEF RowsOK, MoneyIsReal
<1> QED
  BY <1>2, <1>3, <1>5, <1>7 DEF RowsOK

LEMMA WrittenRow ==
    ASSUME RowsOK, NEW c \in CaseIds, NEW s \in Active \cup Terminal
    PROVE  LET r == Written(c, s) IN
           /\ r \in CaseRow /\ r.order = cases[c].order /\ r.payment = cases[c].payment
           /\ r.batch = cases[c].batch /\ r.outcome = cases[c].outcome /\ r.status = s
           /\ cases[c].ended => r.ended
           /\ s \in Terminal => r.ended
<1>1. cases[c] \in CaseRow
  BY DEF RowsOK, RowTypes
<1> QED
  BY <1>1 DEF Written, CaseRow, Statuses

RecoveredRow(c) == [Written(c, "RECOVERED") EXCEPT !.outcome = TRUE]

LEMMA RecoveredFields ==
    ASSUME RowsOK, NEW c \in CaseIds
    PROVE  LET r == RecoveredRow(c) IN
           /\ r \in CaseRow /\ r.order = cases[c].order /\ r.payment = cases[c].payment
           /\ r.batch = cases[c].batch /\ r.outcome /\ r.status = "RECOVERED" /\ r.ended
<1> DEFINE w == Written(c, "RECOVERED")
<1>1. /\ w \in CaseRow /\ w.order = cases[c].order /\ w.payment = cases[c].payment
      /\ w.batch = cases[c].batch /\ w.status = "RECOVERED" /\ w.ended
  BY WrittenRow DEF Terminal
<1> HIDE DEF w
<1>2. LET r == [w EXCEPT !.outcome = TRUE] IN
      /\ r \in CaseRow /\ r.order = w.order /\ r.payment = w.payment /\ r.batch = w.batch
      /\ r.outcome /\ r.status = w.status /\ r.ended = w.ended
  BY <1>1 DEF CaseRow
<1> QED
  BY <1>1, <1>2 DEF RecoveredRow, w

\* The transaction of closeRecoveryCase.
LEMMA CloseRows ==
    ASSUME RowsOK, NEW c \in CaseIds, NEW o \in Orders, NEW x, OrderOfRow(c) = o, PaidAt(o),
           x \in Payments => OrderOf[x] = o,
           payments' = [y \in Payments |-> IF y = x THEN "CAPTURED" ELSE payments[y]],
           settled' \in {settled, settled \cup {o}}, OrderPaid(o),
           cases' = [cases EXCEPT ![c] = RecoveredRow(c)], UNCHANGED <<batches, rz>>
    PROVE  RowsOK' /\ RowsKeep
<1>1. \A d \in CaseIds : cases'[d] = IF d = c THEN RecoveredRow(c) ELSE cases[d]
  BY DEF RowsOK, RowTypes
<1>2. /\ RecoveredRow(c) \in CaseRow /\ RecoveredRow(c).order = cases[c].order
      /\ RecoveredRow(c).payment = cases[c].payment /\ RecoveredRow(c).batch = cases[c].batch
      /\ RecoveredRow(c).outcome /\ RecoveredRow(c).status = "RECOVERED" /\ RecoveredRow(c).ended
  BY RecoveredFields
<1>3. RowTypes'
  BY <1>2 DEF RowsOK, RowTypes, OrderPaid
<1>4. NewIsFree' /\ LinksAgree' /\ EndIsTold'
  BY <1>1, <1>2 DEF RowsOK, NewIsFree, LinksAgree, EndIsTold
<1>5. \A d \in CaseIds : OrderOfRow(d)' = OrderOfRow(d)
  BY <1>1, <1>2 DEF OrderOfRow
<1>6. /\ \A y \in Payments : payments'[y] = IF y = x THEN "CAPTURED" ELSE payments[y]
      /\ \A q \in Orders : orders'[q] = IF q = o THEN "PAID" ELSE orders[q]
  BY DEF RowsOK, RowTypes, OrderPaid
<1>7. MoneyKeeps /\ CasesKeep
  BY <1>1, <1>2, <1>5, <1>6 DEF MoneyKeeps, CasesKeep
<1>8. \A q : PaidAt(q)' = PaidAt(q)
  BY DEF PaidAt
<1>9. MoneyIsReal'
  BY <1>1, <1>5, <1>6, <1>8 DEF RowsOK, MoneyIsReal
<1> QED
  BY <1>3, <1>4, <1>7, <1>9 DEF RowsOK, RowsKeep

\* A batch takes cases.
LEMMA ClaimRows ==
    ASSUME RowsOK, NEW b \in 0 .. MaxBatches, NEW S,
           \A c \in S \cap CaseIds : cases[c].status # "NONE",
           cases' = [c \in CaseIds |-> IF c \in S THEN [cases[c] EXCEPT !.batch = b] ELSE cases[c]],
           UNCHANGED <<orders, payments, settled, batches, rz>>
    PROVE  RowsOK' /\ RowsKeep
<1>1. \A c \in CaseIds : cases[c] \in CaseRow /\ [cases[c] EXCEPT !.batch = b] \in CaseRow
  BY DEF RowsOK, RowTypes, CaseRow
<1>2. \A c \in CaseIds :
        /\ cases'[c].order = cases[c].order /\ cases'[c].payment = cases[c].payment
        /\ cases'[c].status = cases[c].status /\ cases'[c].outcome = cases[c].outcome
        /\ cases'[c].ended = cases[c].ended
        /\ c \notin S => cases'[c].batch = cases[c].batch
  BY <1>1 DEF CaseRow
<1>3. RowTypes'
  BY <1>1 DEF RowsOK, RowTypes
<1>4. NewIsFree' /\ LinksAgree' /\ EndIsTold'
  BY <1>2 DEF RowsOK, NewIsFree, LinksAgree, EndIsTold
<1>5. \A d \in CaseIds : OrderOfRow(d)' = OrderOfRow(d)
  BY <1>2 DEF OrderOfRow
<1>6. MoneyKeeps /\ CasesKeep
  BY <1>2, <1>5 DEF MoneyKeeps, CasesKeep
<1>7. \A q : PaidAt(q)' = PaidAt(q)
  BY DEF PaidAt
<1>8. MoneyIsReal'
  BY <1>2, <1>5, <1>7 DEF RowsOK, MoneyIsReal
<1> QED
  BY <1>3, <1>4, <1>6, <1>8 DEF RowsOK, RowsKeep

LEMMA BatchRows ==
    ASSUME RowsOK, batches' \in [BatchIds -> BatchRow],
           UNCHANGED <<orders, payments, settled, cases, rz>>
    PROVE  RowsOK' /\ RowsKeep
<1>1. RowTypes' /\ NewIsFree' /\ LinksAgree' /\ EndIsTold'
  BY DEF RowsOK, RowTypes, NewIsFree, LinksAgree, EndIsTold
<1>2. MoneyIsReal'
  BY DEF RowsOK, MoneyIsReal, PaidAt, OrderOfRow
<1>3. RowsKeep
  BY DEF RowsKeep, MoneyKeeps, CasesKeep, OrderOfRow
<1> QED
  BY <1>1, <1>2, <1>3 DEF RowsOK

(***************************************************************************)
(* Events and tasks.                                                       *)
(***************************************************************************)
OrderOfEvent(e) == IF e.type = "paid" THEN e.of ELSE OrderOf[e.of]

\* A task that handles payment.failed and has created the payment.
Starting(k) == \/ k.pc \in {"f_match", "f_link"}
               \/ k.pc \in {"a_next", "a_find", "a_create"} /\ k.kind = "event"

\* A task of this kind is a delivery of this payment's failure.
FailureFits(k) == k.pc = "f_create" \/ Starting(k) =>
    /\ k.payment \in Payments /\ k.event = [type |-> "failed", of |-> k.payment]
    /\ k.kind = "event"

\* A task on its way to a close.
MoneyFits(k) ==
    /\ k.pc \in {"c_write", "c_order"} =>
         k.payment \in Payments /\ k.event = [type |-> "captured", of |-> k.payment]
    /\ k.pc = "o_write" => k.event \in Event /\ k.event.type = "paid"
    /\ k.pc \in {"c_match", "h_tx"} => k.event \in Event /\ k.event.type \in {"captured", "paid"}
    /\ k.pc = "h_tx" => /\ k.case \in CaseIds
                        /\ k.payment # None => OrderOf[k.payment] = OrderOfEvent(k.event)

Fits(t) ==
    /\ FailureFits(task[t]) /\ MoneyFits(task[t])
    /\ Starting(task[t]) => payments[task[t].payment] # "NONE"
    /\ At(t, "f_link") => /\ task[t].case \in CaseIds
                          /\ cases[task[t].case].order = OrderOf[task[t].payment]
    /\ task[t].pc \in {"c_write", "c_order", "o_write", "c_match", "h_tx"} =>
         PaidAt(OrderOfEvent(task[t].event))
    /\ task[t].pc \in {"c_match", "h_tx"} => orders[OrderOfEvent(task[t].event)] = "PAID"
    /\ At(t, "h_tx") => OrderOfRow(task[t].case) = OrderOfEvent(task[t].event)
    /\ \A c \in task[t].opened : cases[c].status # "NONE"

\* The same of a record k that a task becomes, in the rows as they are after the step.
FitsNext(k) ==
    /\ FailureFits(k) /\ MoneyFits(k)
    /\ Starting(k) => payments'[k.payment] # "NONE"
    /\ k.pc = "f_link" => k.case \in CaseIds /\ cases'[k.case].order = OrderOf[k.payment]
    /\ k.pc \in {"c_write", "c_order", "o_write", "c_match", "h_tx"} =>
         \E x \in Payments : OrderOf[x] = OrderOfEvent(k.event) /\ "captured" \in rz'[x]
    /\ k.pc \in {"c_match", "h_tx"} => orders'[OrderOfEvent(k.event)] = "PAID"
    /\ k.pc = "h_tx" =>
         OrderOfEvent(k.event) = IF cases'[k.case].payment # None THEN OrderOf[cases'[k.case].payment]
                                                                   ELSE cases'[k.case].order
    /\ \A c \in k.opened : cases'[c].status # "NONE"

TasksFit == \A t \in Tasks : Fits(t)

\* What an answer to the event promises.
Settled(e) == /\ e.type = "failed" => payments[e.of] # "NONE"
              /\ e.type = "paid" => orders[e.of] = "PAID"

Recorded == FailureIsRecorded /\ MoneyIsRecorded

EventsHappened == \A e \in events : Happened(e)

Inv == TypeOK /\ PoolInv /\ RowsOK /\ TasksFit /\ Recorded /\ EventsHappened

LEMMA EventFields ==
    ASSUME NEW e \in Event
    PROVE  /\ e.type \in {"failed", "captured", "paid"}
           /\ e.type \in {"failed", "captured"} => e.of \in Payments
           /\ e.type = "paid" => e.of \in Orders
           /\ OrderOfEvent(e) \in Orders
BY OrderOfAssumption DEF Event, OrderOfEvent

LEMMA IdleFits ==
    IdleTask \in Task /\ FitsNext(IdleTask)
BY BoundsAssumption DEF IdleTask, Task, Pcs, Kinds, FitsNext, FailureFits, MoneyFits, Starting

\* A task's fit outlasts what the rows go through.
LEMMA FitStays ==
    ASSUME Inv, RowsKeep, NEW t \in Tasks
    PROVE  FitsNext(task[t])
<1> DEFINE k == task[t]
<1>1. Fits(t) /\ k \in Task
  BY DEF Inv, TasksFit, TypeOK
<1>2. Starting(k) => payments'[k.payment] # "NONE"
  BY <1>1 DEF Fits, FailureFits, RowsKeep, MoneyKeeps
<1>3. k.pc = "f_link" => k.case \in CaseIds /\ cases'[k.case].order = OrderOf[k.payment]
  <2> SUFFICES ASSUME k.pc = "f_link"
               PROVE  k.case \in CaseIds /\ cases'[k.case].order = OrderOf[k.payment]
    OBVIOUS
  <2>1. k.payment \in Payments /\ k.case \in CaseIds /\ cases[k.case].order = OrderOf[k.payment]
    BY <1>1 DEF Fits, FailureFits, Starting, At
  <2>2. OrderOf[k.payment] # None
    BY <2>1, OrderOfAssumption, NoneAssumption
  <2> QED
    BY <2>1, <2>2 DEF RowsKeep, CasesKeep
<1>4. k.pc \in {"c_write", "c_order", "o_write", "c_match", "h_tx"} =>
        \E x \in Payments : OrderOf[x] = OrderOfEvent(k.event) /\ "captured" \in rz'[x]
  BY <1>1 DEF Fits, PaidAt, RowsKeep, MoneyKeeps
<1>5. k.pc \in {"c_match", "h_tx"} => orders'[OrderOfEvent(k.event)] = "PAID"
  BY <1>1, EventFields DEF Fits, MoneyFits, RowsKeep, MoneyKeeps
<1>6. k.pc = "h_tx" =>
        OrderOfEvent(k.event) = IF cases'[k.case].payment # None THEN OrderOf[cases'[k.case].payment]
                                                                  ELSE cases'[k.case].order
  <2> SUFFICES ASSUME k.pc = "h_tx"
               PROVE  OrderOfEvent(k.event) = IF cases'[k.case].payment # None
                        THEN OrderOf[cases'[k.case].payment] ELSE cases'[k.case].order
    OBVIOUS
  <2>1. /\ k.case \in CaseIds /\ OrderOfRow(k.case) = OrderOfEvent(k.event)
        /\ OrderOfEvent(k.event) # None
    BY <1>1, EventFields, NoneAssumption DEF Fits, MoneyFits, At
  <2>2. PICK c \in CaseIds : c = k.case
    BY <2>1
  <2>3. OrderOfRow(c)' = OrderOfEvent(k.event)
    BY <2>1, <2>2 DEF RowsKeep, CasesKeep
  <2> QED
    BY <2>2, <2>3 DEF OrderOfRow
<1>7. \A c \in k.opened : cases'[c].status # "NONE"
  BY <1>1 DEF Fits, Task, RowsKeep, CasesKeep
<1> QED
  BY <1>1, <1>2, <1>3, <1>4, <1>5, <1>6, <1>7 DEF FitsNext, Fits

LEMMA FitsNextIsFits ==
    ASSUME NEW t \in Tasks, FitsNext(task'[t])
    PROVE  Fits(t)'
BY DEF FitsNext, Fits, FailureFits, MoneyFits, Starting, At, PaidAt, OrderOfEvent, OrderOfRow

LEMMA BecomeFits ==
    ASSUME Inv, RowsKeep, NEW t \in Tasks, NEW r, Become(t, r), FitsNext(r)
    PROVE  TasksFit'
<1>1. \A u \in Tasks : task'[u] = IF u = t THEN r ELSE task[u]
  BY DEF Become, Inv, TypeOK
<1>2. \A u \in Tasks : FitsNext(task[u])
  BY FitStays
<1>3. ASSUME NEW u \in Tasks
      PROVE  Fits(u)'
  <2>1. FitsNext(task'[u])
    BY <1>1, <1>2
  <2> QED
    BY <2>1, FitsNextIsFits
<1> QED
  BY <1>3 DEF TasksFit

\* The state of the runs is well typed, and no two loops hold one place.
RunsOK == /\ jobs \subseteq CaseIds /\ acting \subseteq CaseIds /\ loops \subseteq Loops
          /\ PoolInv /\ started \in [Payments -> Nat]

LEMMA SameRuns ==
    ASSUME Inv, UNCHANGED runVars
    PROVE  RunsOK'
BY DEF Inv, TypeOK, RunsOK, runVars, PoolInv, PoolTypeOK, LoopsApart

LEMMA SettledStays ==
    ASSUME Inv, RowsKeep, NEW e \in Event, Settled(e)
    PROVE  Settled(e)'
BY EventFields DEF Settled, RowsKeep, MoneyKeeps

LEMMA RecordedSettles ==
    ASSUME Recorded, NEW e \in Event, Happened(e), e \notin events
    PROVE  Settled(e)
<1>1. CASE e \in [type : {"failed", "captured"}, of : Payments]
  <2>1. e.type = "failed" => e = [type |-> "failed", of |-> e.of]
    BY <1>1
  <2> QED
    BY <1>1, <2>1 DEF Recorded, FailureIsRecorded, Happened, Settled
<1>2. CASE e \in [type : {"paid"}, of : Orders]
  <2>1. e = [type |-> "paid", of |-> e.of]
    BY <1>2
  <2> QED
    BY <1>2, <2>1 DEF Recorded, MoneyIsRecorded, Happened, Settled
<1> QED
  BY <1>1, <1>2 DEF Event

LEMMA SettledRecords ==
    ASSUME \A e \in Event : Happened(e)' /\ e \notin events' => Settled(e)'
    PROVE  Recorded'
<1>1. FailureIsRecorded'
  <2> SUFFICES ASSUME NEW x \in Payments, "failed" \in rz'[x], [type |-> "failed", of |-> x] \notin events'
               PROVE  payments'[x] # "NONE"
    BY DEF FailureIsRecorded
  <2> DEFINE e == [type |-> "failed", of |-> x]
  <2>1. e \in Event /\ e.type = "failed" /\ e.of = x
    BY DEF Event
  <2> HIDE DEF e
  <2>2. Happened(e)' /\ e \notin events'
    BY <2>1 DEF Happened, e
  <2> QED
    BY <2>1, <2>2 DEF Settled
<1>2. MoneyIsRecorded'
  <2> SUFFICES ASSUME NEW o \in Orders, PaidAt(o)', [type |-> "paid", of |-> o] \notin events'
               PROVE  orders'[o] = "PAID"
    BY DEF MoneyIsRecorded
  <2> DEFINE e == [type |-> "paid", of |-> o]
  <2>1. e \in Event /\ e.type = "paid" /\ e.of = o
    BY DEF Event
  <2> HIDE DEF e
  <2>2. Happened(e)' /\ e \notin events'
    BY <2>1 DEF Happened, e
  <2> QED
    BY <2>1, <2>2 DEF Settled
<1> QED
  BY <1>1, <1>2 DEF Recorded

LEMMA SameHappened ==
    ASSUME rz' = rz, NEW e
    PROVE  Happened(e)' = Happened(e)
BY DEF Happened, PaidAt

\* A step that does not answer an event.
LEMMA UnansweredRecorded ==
    ASSUME Inv, RowsKeep, rz' = rz, events' = events
    PROVE  Recorded'
<1>1. ASSUME NEW e \in Event, Happened(e)', e \notin events'
      PROVE  Settled(e)'
  BY <1>1, SameHappened, RecordedSettles, SettledStays DEF Inv
<1> QED
  BY <1>1, SettledRecords

\* A step that answers one.
LEMMA AnsweredRecorded ==
    ASSUME Inv, RowsKeep, rz' = rz, NEW a, events' = events \ {a}, a \in Event => Settled(a)'
    PROVE  Recorded'
<1>1. ASSUME NEW e \in Event, Happened(e)', e \notin events'
      PROVE  Settled(e)'
  <2>1. CASE e = a
    BY <2>1
  <2>2. CASE e # a
    BY <1>1, <2>2, SameHappened, RecordedSettles, SettledStays DEF Inv
  <2> QED
    BY <2>1, <2>2
<1> QED
  BY <1>1, SettledRecords

LEMMA StillHappened ==
    ASSUME Inv, rz' = rz, events' \subseteq events
    PROVE  EventsHappened'
BY SameHappened DEF Inv, EventsHappened

LEMMA MoveKeepsInv ==
    ASSUME Inv, RowsOK', RowsKeep, RunsOK', NEW t \in Tasks, NEW r \in Task, Become(t, r),
           FitsNext(r), rz' = rz, events' = events, extras' \in Nat
    PROVE  Inv' /\ RowsKeep
<1>1. TypeOK'
  BY DEF Inv, TypeOK, RowsOK, RowTypes, RunsOK, PoolInv, Become
<1> QED
  BY <1>1, BecomeFits, UnansweredRecorded, StillHappened DEF Inv, RunsOK

LEMMA AnswerKeepsInv ==
    ASSUME Inv, RowsOK', RowsKeep, RunsOK', NEW t \in Tasks, Answer(t),
           NEW a, a = task[t].event, a \in Event => Settled(a)'
    PROVE  Inv' /\ RowsKeep
<1>1. rz' = rz /\ extras' = extras /\ events' = events \ {a} /\ Become(t, IdleTask)
  BY DEF Answer
<1>2. TypeOK'
  BY <1>1, IdleFits DEF Inv, TypeOK, RowsOK, RowTypes, RunsOK, PoolInv, Become
<1>3. Recorded'
  BY <1>1, AnsweredRecorded
<1> QED
  BY <1>1, <1>2, <1>3, IdleFits, BecomeFits, StillHappened DEF Inv, RunsOK

LEMMA OtherKeepsInv ==
    ASSUME Inv, RowsOK', RowsKeep, RunsOK', rz' = rz, events' = events, extras' \in Nat,
           task' = task \/ task' = [t \in Tasks |-> IdleTask]
    PROVE  Inv' /\ RowsKeep
<1>1. TypeOK'
  BY IdleFits DEF Inv, TypeOK, RowsOK, RowTypes, RunsOK, PoolInv
<1>2. ASSUME NEW t \in Tasks
      PROVE  Fits(t)'
  <2>1. FitsNext(task[t]) /\ FitsNext(IdleTask)
    BY FitStays, IdleFits
  <2>2. FitsNext(task'[t])
    BY <2>1
  <2> QED
    BY <2>2, FitsNextIsFits
<1> QED
  BY <1>1, <1>2, UnansweredRecorded, StillHappened DEF Inv, RunsOK, TasksFit

LEMMA ThrowKeepsInv ==
    ASSUME Inv, NEW t \in Tasks, Become(t, IdleTask), Silent
    PROVE  Inv' /\ RowsKeep
<1>1. RowsOK' /\ RowsKeep /\ RunsOK'
  BY SameRows, SameRuns DEF Silent, envVars, Inv
<1> QED
  BY <1>1, IdleFits, MoveKeepsInv DEF Silent, envVars, Inv, TypeOK

(***************************************************************************)
(* payment.failed.                                                         *)
(***************************************************************************)
\* A delivery that is a duplicate is answered at once.
LEMMA DuplicateKeepsInv ==
    ASSUME Inv, UNCHANGED <<rowVars, runVars, rz, task>>, NEW a, events' = events \ {a},
           a \in Event => Settled(a), extras' \in Nat
    PROVE  Inv' /\ RowsKeep
<1>1. RowsOK' /\ RowsKeep /\ RunsOK'
  BY SameRows, SameRuns DEF Inv
<1>2. TypeOK'
  BY <1>1 DEF Inv, TypeOK, RowsOK, RowTypes, RunsOK, PoolInv
<1>3. ASSUME NEW t \in Tasks
      PROVE  Fits(t)'
  BY <1>1, FitStays, FitsNextIsFits
<1>4. a \in Event => Settled(a)'
  BY <1>1, SettledStays
<1> QED
  BY <1>1, <1>2, <1>3, <1>4, AnsweredRecorded, StillHappened DEF Inv, RunsOK, TasksFit

LEMMA DeliverHappened ==
    ASSUME Inv, NEW t \in Tasks, NEW e, Deliver(t, e)
    PROVE  Happened(e) /\ extras' \in Nat
BY DEF Deliver, Extra, Inv, TypeOK, EventsHappened

LEMMA FailedDeliveredKeepsInv ==
    ASSUME Inv, NEW t \in Tasks, NEW x \in Payments, FailedDelivered(t, x)
    PROVE  Inv' /\ RowsKeep
<1> DEFINE e == [type |-> "failed", of |-> x]
           r == [IdleTask EXCEPT !.pc = "f_create", !.event = e, !.payment = x]
<1>1. e \in Event /\ e.type = "failed" /\ e.of = x
  BY DEF Event
<1>2. extras' \in Nat /\ UNCHANGED <<rowVars, runVars, rz>>
  BY DeliverHappened DEF FailedDelivered
<1>3. CASE payments[x] # "NONE" /\ events' = events \ {e} /\ UNCHANGED task
  BY <1>1, <1>2, <1>3, DuplicateKeepsInv DEF Settled
<1>4. CASE Become(t, [IdleTask EXCEPT !.pc = "f_create", !.event = e, !.payment = x]) /\ UNCHANGED events
  <2>1. Become(t, r)
    BY <1>4
  <2>2. RowsOK' /\ RowsKeep /\ RunsOK'
    BY <1>2, SameRows, SameRuns DEF Inv
  <2>0. "f_create" \in Pcs
    BY DEF Pcs
  <2>5. r = [IdleTask EXCEPT !.pc = "f_create", !.event = e, !.payment = x]
    OBVIOUS
  <2> HIDE DEF e, r
  <2>3. r \in Task /\ r.pc = "f_create" /\ r.event = e /\ r.payment = x /\ r.kind = "event" /\ r.opened = {}
    BY <1>1, <2>0, <2>5, IdleFits DEF IdleTask, Task
  <2>4. FitsNext(r)
    BY <2>3 DEF FitsNext, FailureFits, MoneyFits, Starting, e
  <2> QED
    BY <1>2, <1>4, <2>1, <2>2, <2>3, <2>4, MoveKeepsInv
<1> QED
  BY <1>3, <1>4 DEF FailedDelivered

LEMMA FailedCreateKeepsInv ==
    ASSUME Inv, NEW t \in Tasks, FailedCreate(t)
    PROVE  Inv' /\ RowsKeep
<1> DEFINE x == task[t].payment
           k == [task[t] EXCEPT !.pc = "f_match"]
<1>0. task[t] \in Task /\ FailureFits(task[t]) /\ task[t].pc = "f_create"
      /\ \A c \in task[t].opened : cases[c].status # "NONE"
  BY DEF Inv, TypeOK, TasksFit, Fits, FailedCreate, At
<1>1. x \in Payments /\ task[t].event = [type |-> "failed", of |-> x] /\ task[t].kind = "event"
  BY <1>0 DEF FailureFits
<1>2. CASE payments[x] # "NONE" /\ Answer(t) /\ UNCHANGED <<rowVars, runVars>>
  <2>1. PICK a : a = task[t].event
    OBVIOUS
  <2>2. rz' = rz
    BY <1>2 DEF Answer
  <2>3. RowsOK' /\ RowsKeep /\ RunsOK'
    BY <1>2, <2>2, SameRows, SameRuns DEF Inv
  <2>4. a \in Event => Settled(a)'
    BY <1>1, <1>2, <2>1, SettledStays, <2>3 DEF Settled
  <2> QED
    BY <1>2, <2>1, <2>3, <2>4, AnswerKeepsInv
<1>3. CASE /\ payments[x] = "NONE" /\ payments' = [payments EXCEPT ![x] = "FAILED"] /\ Become(t, k)
           /\ UNCHANGED <<orders, settled, cases, batches, runVars, envVars>>
  <2>1. RowsOK' /\ RowsKeep /\ RunsOK'
    BY <1>1, <1>3, PaymentWrite, SameRuns DEF envVars, Inv
  <2>2. k \in Task /\ k.pc = "f_match" /\ k.event = task[t].event /\ k.payment = x /\ k.kind = "event"
        /\ k.opened = task[t].opened
    BY <1>0, <1>1 DEF Task, Pcs
  <2>3. payments'[x] # "NONE"
    BY <1>1, <1>3 DEF Inv, TypeOK
  <2> HIDE DEF k
  <2>4. FitsNext(k)
    BY <1>0, <1>1, <1>3, <2>2, <2>3 DEF FitsNext, FailureFits, MoneyFits, Starting
  <2> QED
    BY <1>3, <2>1, <2>2, <2>4, MoveKeepsInv DEF envVars, Inv, TypeOK
<1> QED
  BY <1>2, <1>3 DEF FailedCreate, IsTaken, Goto

\* What is known of a started failure.
LEMMA AtStarting ==
    ASSUME Inv, NEW t \in Tasks, Starting(task[t])
    PROVE  /\ task[t] \in Task /\ task[t].payment \in Payments /\ task[t].kind = "event"
           /\ task[t].event = [type |-> "failed", of |-> task[t].payment]
           /\ payments[task[t].payment] # "NONE"
           /\ \A c \in task[t].opened : cases[c].status # "NONE"
           /\ At(t, "f_link") => /\ task[t].case \in CaseIds
                                 /\ cases[task[t].case].order = OrderOf[task[t].payment]
BY DEF Inv, TypeOK, TasksFit, Fits, FailureFits

LEMMA FailedMatchKeepsInv ==
    ASSUME Inv, NEW t \in Tasks, FailedMatch(t)
    PROVE  Inv' /\ RowsKeep
<1> DEFINE x == task[t].payment
<1>0. task[t].pc = "f_match" /\ Starting(task[t]) /\ Silent
  BY DEF FailedMatch, At, Starting
<1>1. RowsOK' /\ RowsKeep /\ RunsOK' /\ rz' = rz /\ events' = events /\ extras' \in Nat
      /\ payments' = payments /\ cases' = cases
  BY <1>0, SameRows, SameRuns DEF Silent, envVars, rowVars, Inv, TypeOK
<1>2. CASE \E c \in Abandoned(OrderOf[x]) : Become(t, [task[t] EXCEPT !.pc = "f_link", !.case = c])
  <2>1. PICK c \in Abandoned(OrderOf[x]) : Become(t, [task[t] EXCEPT !.pc = "f_link", !.case = c])
    BY <1>2
  <2> DEFINE k == [task[t] EXCEPT !.pc = "f_link", !.case = c]
  <2>2. c \in CaseIds /\ cases[c].order = OrderOf[x] /\ c \in 0 .. MaxCases
    BY BoundsAssumption DEF Abandoned, CaseIds
  <2>3. k \in Task /\ k.pc = "f_link" /\ k.event = task[t].event /\ k.payment = x
        /\ k.kind = task[t].kind /\ k.opened = task[t].opened /\ k.case = c
    <3>1. task[t] \in Task
      BY <1>0, AtStarting
    <3> QED
      BY <2>2, <3>1 DEF Task, Pcs
  <2> HIDE DEF k
  <2>4. FailureFits(k) /\ MoneyFits(k) /\ (Starting(k) => payments'[k.payment] # "NONE")
    BY <1>0, <1>1, <2>3, AtStarting DEF FailureFits, MoneyFits, Starting
  <2>5. FitsNext(k)
    BY <1>0, <1>1, <2>2, <2>3, <2>4, AtStarting DEF FitsNext
  <2>6. Become(t, k)
    BY <2>1 DEF k
  <2> QED
    BY <1>1, <2>3, <2>5, <2>6, MoveKeepsInv
<1>3. CASE Become(t, [task[t] EXCEPT !.pc = "a_next", !.todo = {x}])
  <2> DEFINE k == [task[t] EXCEPT !.pc = "a_next", !.todo = {x}]
  <2>0. task[t] \in Task /\ {x} \in SUBSET Entities
    BY <1>0, AtStarting DEF Entities
  <2>1. k \in Task /\ k.pc = "a_next" /\ k.event = task[t].event /\ k.payment = x
        /\ k.kind = task[t].kind /\ k.opened = task[t].opened
    BY <2>0 DEF Task, Pcs
  <2> HIDE DEF k
  <2>2. FitsNext(k)
    BY <1>0, <1>1, <2>1, AtStarting DEF FitsNext, FailureFits, MoneyFits, Starting
  <2> QED
    BY <1>1, <1>3, <2>1, <2>2, MoveKeepsInv DEF k
<1> QED
  BY <1>2, <1>3 DEF FailedMatch

\* The run starts and the event is answered.
LEMMA StartAndAnswerKeepsInv ==
    ASSUME Inv, RowsOK', RowsKeep, NEW t \in Tasks, Starting(task[t]), NEW c \in CaseIds,
           StartRun(t, c), Answer(t)
    PROVE  Inv' /\ RowsKeep
<1>0. PICK x \in Payments : x = task[t].payment
  BY AtStarting
<1>1. started[x] + 1 \in Nat
  BY DEF Inv, TypeOK
<1>2. RunsOK'
  <2>1. PoolInv'
    BY DEF StartRun, Inv, PoolInv, PoolTypeOK, LoopsApart
  <2> QED
    BY <1>0, <1>1, <2>1 DEF StartRun, RunsOK, Inv, TypeOK
<1>3. PICK a : a = task[t].event
  OBVIOUS
<1>4. a = [type |-> "failed", of |-> x] /\ payments[x] # "NONE"
  BY <1>0, <1>3, AtStarting
<1>6. a \in Event /\ a.type = "failed" /\ a.of = x
  BY <1>4 DEF Event
<1>5. Settled(a)'
  BY <1>4, <1>6, SettledStays DEF Settled
<1> QED
  BY <1>2, <1>3, <1>5, AnswerKeepsInv

LEMMA FailedLinkKeepsInv ==
    ASSUME Inv, NEW t \in Tasks, FailedLink(t)
    PROVE  Inv' /\ RowsKeep
<1> DEFINE c == task[t].case
           x == task[t].payment
           r == [cases[c] EXCEPT !.payment = x]
<1>0. task[t].pc = "f_link" /\ At(t, "f_link") /\ Starting(task[t])
  BY DEF FailedLink, At, Starting
<1>1. x \in Payments /\ c \in CaseIds /\ cases[c].order = OrderOf[x] /\ OrderOf[x] # None /\ x # None
  BY <1>0, AtStarting, OrderOfAssumption, NoneAssumption
<1>2. cases[c] \in CaseRow /\ cases[c].status # "NONE"
  BY <1>1 DEF Inv, RowsOK, RowTypes, NewIsFree
<1>3. /\ r \in CaseRow /\ r.order = cases[c].order /\ r.batch = cases[c].batch
      /\ r.status = cases[c].status /\ r.payment = x /\ r.outcome = cases[c].outcome
      /\ r.ended = cases[c].ended
  BY <1>1, <1>2 DEF CaseRow
<1>4. SetCase(c, r) /\ StartRun(t, c) /\ Answer(t) /\ rz' = rz
  BY DEF FailedLink, Answer
<1>5. r.status \in Terminal => r.ended
  BY <1>1, <1>3 DEF Inv, RowsOK, EndIsTold
<1> HIDE DEF r
<1>6. RowsOK' /\ RowsKeep
  BY <1>1, <1>2, <1>3, <1>4, <1>5, CaseWrite DEF Inv
<1> QED
  BY <1>0, <1>1, <1>4, <1>6, StartAndAnswerKeepsInv

(***************************************************************************)
(* Assessments.                                                            *)
(***************************************************************************)
\* A task that goes on assessing.
LEMMA AssessingFits ==
    ASSUME Inv, RowsKeep, NEW t \in Tasks, NEW k,
           task[t].pc \in {"a_next", "a_find", "a_create"}, k.pc \in {"a_next", "a_find", "a_create"},
           k.kind = task[t].kind, k.payment = task[t].payment, k.event = task[t].event,
           \A c \in k.opened : cases'[c].status # "NONE"
    PROVE  FitsNext(k)
<1>1. FitsNext(task[t])
  BY FitStays
<1>2. Starting(k) <=> Starting(task[t])
  BY DEF Starting
<1> QED
  BY <1>1, <1>2 DEF FitsNext, FailureFits, MoneyFits

LEMMA AtAssessing ==
    ASSUME Inv, NEW t \in Tasks
    PROVE  task[t] \in Task /\ \A c \in task[t].opened : c \in CaseIds /\ cases[c].status # "NONE"
BY DEF Inv, TypeOK, TasksFit, Fits, Task

LEMMA AssessReadKeepsInv ==
    ASSUME Inv, NEW t \in Tasks, NEW e \in task[t].todo, AssessRead(t, e)
    PROVE  Inv' /\ RowsKeep
<1> DEFINE k == [task[t] EXCEPT !.pc = "a_find", !.entity = e, !.todo = task[t].todo \ {e}]
<1>0. task[t] \in Task /\ e \in Entities /\ task[t].pc = "a_next" /\ Silent
  BY AtAssessing DEF AssessRead, At, Task
<1>1. CASE Become(t, IdleTask)
  BY <1>0, <1>1, ThrowKeepsInv
<1>2. CASE Become(t, k)
  <2>1. task[t].todo \ {e} \in SUBSET Entities
    BY <1>0 DEF Task
  <2>2. k \in Task /\ k.pc = "a_find" /\ k.event = task[t].event /\ k.payment = task[t].payment
        /\ k.kind = task[t].kind /\ k.opened = task[t].opened
    BY <1>0, <2>1 DEF Task, Pcs
  <2> HIDE DEF k
  <2>3. RowsOK' /\ RowsKeep /\ RunsOK' /\ rz' = rz /\ events' = events /\ extras' \in Nat /\ cases' = cases
    BY <1>0, SameRows, SameRuns DEF Silent, envVars, rowVars, Inv, TypeOK
  <2>4. FitsNext(k)
    BY <1>0, <2>2, <2>3, AtAssessing, AssessingFits
  <2> QED
    BY <1>2, <2>2, <2>3, <2>4, MoveKeepsInv
<1> QED
  BY <1>1, <1>2 DEF AssessRead

LEMMA AssessedKeepsInv ==
    ASSUME Inv, RowsOK', RowsKeep, rz' = rz, NEW t \in Tasks, NEW c \in CaseIds,
           task[t].pc \in {"a_find", "a_create"}, cases'[c].status # "NONE", AssessedAs(t, c)
    PROVE  Inv' /\ RowsKeep
<1> DEFINE k == [task[t] EXCEPT !.pc = "a_next", !.entity = None, !.opened = task[t].opened \cup {c}]
<1>0. task[t] \in Task /\ \A d \in task[t].opened : d \in CaseIds /\ cases[d].status # "NONE"
  BY AtAssessing
<1>1. CASE task[t].kind = "event" /\ StartRun(t, c) /\ Answer(t)
  <2>1. Starting(task[t])
    BY <1>1 DEF Starting
  <2> QED
    BY <1>1, <2>1, StartAndAnswerKeepsInv
<1>2. CASE task[t].kind # "event" /\ Become(t, k) /\ UNCHANGED <<runVars, envVars>>
  <2>1. task[t].opened \cup {c} \in SUBSET CaseIds
    BY <1>0
  <2>2. k \in Task /\ k.pc = "a_next" /\ k.event = task[t].event /\ k.payment = task[t].payment
        /\ k.kind = task[t].kind /\ k.opened = task[t].opened \cup {c}
    BY <1>0, <2>1 DEF Task, Pcs
  <2> HIDE DEF k
  <2>3. RunsOK' /\ events' = events /\ extras' \in Nat
    BY <1>2, SameRuns DEF envVars, Inv, TypeOK
  <2>4. \A d \in k.opened : cases'[d].status # "NONE"
    BY <1>0, <2>2 DEF RowsKeep, CasesKeep
  <2>5. FitsNext(k)
    BY <2>2, <2>4, AssessingFits
  <2> QED
    BY <1>2, <2>2, <2>3, <2>5, MoveKeepsInv
<1> QED
  BY <1>1, <1>2 DEF AssessedAs

LEMMA AssessFindKeepsInv ==
    ASSUME Inv, NEW t \in Tasks, AssessFind(t)
    PROVE  Inv' /\ RowsKeep
<1> DEFINE found == CasesOf(task[t].entity)
           k == [task[t] EXCEPT !.pc = "a_create"]
<1>0. task[t] \in Task /\ task[t].pc = "a_find" /\ UNCHANGED rowVars
  BY AtAssessing DEF AssessFind, At
<1>1. CASE \E c \in found : AssessedAs(t, c)
  <2>1. PICK c \in found : AssessedAs(t, c)
    BY <1>1
  <2>2. c \in CaseIds /\ cases[c].status # "NONE"
    BY DEF CasesOf, IsActive, Active
  <2>3. rz' = rz
    BY <2>1 DEF AssessedAs, Answer, envVars
  <2>4. RowsOK' /\ RowsKeep /\ cases' = cases
    BY <1>0, <2>3, SameRows DEF Inv, rowVars
  <2> QED
    BY <1>0, <2>1, <2>2, <2>3, <2>4, AssessedKeepsInv
<1>2. CASE Become(t, k) /\ UNCHANGED <<runVars, envVars>>
  <2>2. k \in Task /\ k.pc = "a_create" /\ k.event = task[t].event /\ k.payment = task[t].payment
        /\ k.kind = task[t].kind /\ k.opened = task[t].opened
    BY <1>0 DEF Task, Pcs
  <2> HIDE DEF k
  <2>3. RowsOK' /\ RowsKeep /\ RunsOK' /\ rz' = rz /\ events' = events /\ extras' \in Nat /\ cases' = cases
    BY <1>0, <1>2, SameRows, SameRuns DEF envVars, rowVars, Inv, TypeOK
  <2>4. FitsNext(k)
    BY <1>0, <2>2, <2>3, AtAssessing, AssessingFits
  <2> QED
    BY <1>2, <2>2, <2>3, <2>4, MoveKeepsInv
<1> QED
  BY <1>1, <1>2 DEF AssessFind, Goto

\* The row an assessment of e creates.
CreatedRow(e) ==
    [NoCase EXCEPT !.status = "ELIGIBLE", !.payment = IF e \in Payments THEN e ELSE None,
                   !.order = IF e \in Orders THEN e ELSE None]

\* A case is made for an order or for a payment, never for both.
LEMMA CreatedFields ==
    ASSUME NEW e
    PROVE  /\ CreatedRow(e) \in CaseRow /\ CreatedRow(e).status = "ELIGIBLE" /\ ~CreatedRow(e).outcome
           /\ CreatedRow(e).order = None \/ CreatedRow(e).payment = None
<1>1. NoCase \in CaseRow /\ ~NoCase.outcome
  BY BoundsAssumption DEF NoCase, CaseRow, Statuses
<1>2. PICK y \in Payments \cup {None} : y = IF e \in Payments THEN e ELSE None
  OBVIOUS
<1>4. PICK q \in Orders \cup {None} : q = IF e \in Orders THEN e ELSE None
  OBVIOUS
<1>5. PICK r : r = CreatedRow(e)
  OBVIOUS
<1>6. r = [NoCase EXCEPT !.status = "ELIGIBLE", !.payment = y, !.order = q]
  BY <1>2, <1>4, <1>5 DEF CreatedRow
<1>7. q = None \/ y = None
  BY <1>2, <1>4, KindsAssumption
<1>8. r \in CaseRow /\ r.status = "ELIGIBLE" /\ ~r.outcome /\ r.payment = y /\ r.order = q
  BY <1>1, <1>6 DEF CaseRow, Statuses, Active
<1> QED
  BY <1>5, <1>7, <1>8

LEMMA AssessCreateKeepsInv ==
    ASSUME Inv, NEW t \in Tasks, AssessCreate(t)
    PROVE  Inv' /\ RowsKeep
<1>0. task[t].pc = "a_create"
  BY DEF AssessCreate, At
<1>1. CASE \E c \in CaseIds : ~Exists(c) /\ SetCase(c, CreatedRow(task[t].entity)) /\ AssessedAs(t, c)
  <2>1. PICK c \in CaseIds : ~Exists(c) /\ SetCase(c, CreatedRow(task[t].entity)) /\ AssessedAs(t, c)
    BY <1>1
  <2>2. PICK r : r = CreatedRow(task[t].entity)
    OBVIOUS
  <2>3. rz' = rz
    BY <2>1 DEF AssessedAs, Answer, envVars
  <2>4. RowsOK' /\ RowsKeep
    BY <2>1, <2>2, <2>3, CreatedFields, CaseAdd DEF Inv
  <2>5. cases'[c].status # "NONE"
    BY <2>1, <2>2, CreatedFields DEF SetCase, Inv, TypeOK
  <2> QED
    BY <1>0, <2>1, <2>3, <2>4, <2>5, AssessedKeepsInv
<1>2. CASE Throw(t)
  BY <1>2, ThrowKeepsInv DEF Throw
<1> QED
  BY <1>1, <1>2 DEF AssessCreate, CreatedRow

(***************************************************************************)
(* The checkout sweep hands its cases to a pool.                           *)
(***************************************************************************)
LEMMA CaseIdsFinite == MaxCases \in Nat /\ IsFiniteSet(CaseIds)
<1>1. MaxCases \in Nat /\ 1 \in Int
  BY BoundsAssumption
<1> QED
  BY <1>1, FS_Interval DEF CaseIds

LEMMA ListingsAreSequences ==
    ASSUME NEW S \in SUBSET CaseIds, NEW list \in Listings(S)
    PROVE  list \in Seq(Nat)
<1>1. IsFiniteSet(S)
  BY CaseIdsFinite, FS_Subset
<1>2. Cardinality(S) \in Nat
  BY <1>1, FS_CardinalityType
<1>3. list \in [1 .. Cardinality(S) -> S] /\ S \subseteq Nat
  BY CaseIdsFinite DEF Listings, CaseIds
<1>4. list \in [1 .. Cardinality(S) -> Nat]
  BY <1>3
<1> QED
  BY <1>2, <1>4

LEMMA SweepEndKeepsInv ==
    ASSUME Inv, NEW t \in Tasks, SweepEnd(t)
    PROVE  Inv' /\ RowsKeep
<1>1. /\ Become(t, IdleTask) /\ UNCHANGED <<rowVars, jobs, acting, loops, started, envVars>>
      /\ rz' = rz /\ events' = events /\ extras' = extras
  BY DEF SweepEnd, envVars
<1>2. RowsOK' /\ RowsKeep
  BY <1>1, SameRows DEF Inv
<1>3. [PoolNext]_pools
  <2>1. task[t].opened \in SUBSET CaseIds
    BY AtAssessing
  <2> QED
    BY <2>1, ListingsAreSequences DEF SweepEnd, PoolNext, PoolStep
<1>4. RunsOK'
  BY <1>1, <1>3, PoolNextInv DEF RunsOK, Inv, TypeOK
<1> QED
  BY <1>1, <1>2, <1>4, IdleFits, MoveKeepsInv DEF Inv, TypeOK

(***************************************************************************)
(* payment.captured, order.paid, and the close they share.                 *)
(***************************************************************************)
LEMMA CapturedDeliveredKeepsInv ==
    ASSUME Inv, NEW t \in Tasks, NEW x \in Payments, CapturedDelivered(t, x)
    PROVE  Inv' /\ RowsKeep
<1> DEFINE e == [type |-> "captured", of |-> x]
<1>1. e \in Event /\ e.type = "captured" /\ e.of = x
  BY DEF Event
<1>2. extras' \in Nat /\ Happened(e) /\ UNCHANGED <<rowVars, runVars, rz>>
  BY DeliverHappened DEF CapturedDelivered
<1>3. CASE payments[x] = "CAPTURED" /\ events' = events \ {e} /\ UNCHANGED task
  BY <1>1, <1>2, <1>3, DuplicateKeepsInv DEF Settled
<1>4. ASSUME payments[x] # "CAPTURED", UNCHANGED events,
             NEW r, r = [IdleTask EXCEPT !.pc = "c_write", !.event = e, !.payment = x, !.seen = payments[x]],
             Become(t, r)
      PROVE  Inv' /\ RowsKeep
  <2>1. payments[x] \in {"NONE", "FAILED"}
    BY <1>4 DEF Inv, TypeOK
  <2>2. RowsOK' /\ RowsKeep /\ RunsOK'
    BY <1>2, SameRows, SameRuns DEF Inv
  <2>3. "captured" \in rz'[x]
    BY <1>1, <1>2 DEF Happened
  <2> HIDE DEF e
  <2>4. r \in Task /\ r.pc = "c_write" /\ r.event = e /\ r.payment = x /\ r.opened = {}
    BY <1>1, <1>4, <2>1, IdleFits DEF IdleTask, Task, Pcs
  <2>5. OrderOfEvent(e) = OrderOf[x]
    BY <1>1 DEF OrderOfEvent
  <2>6. FailureFits(r) /\ MoneyFits(r) /\ ~Starting(r)
    BY <2>4 DEF FailureFits, MoneyFits, Starting, e
  <2>7. FitsNext(r)
    BY <2>3, <2>4, <2>5, <2>6 DEF FitsNext
  <2> QED
    BY <1>2, <1>4, <2>2, <2>4, <2>7, MoveKeepsInv
<1> QED
  BY <1>3, <1>4 DEF CapturedDelivered

\* What is known of a task that brings money.
LEMMA AtMoney ==
    ASSUME Inv, NEW t \in Tasks,
           task[t].pc \in {"c_write", "c_order", "o_write", "c_match", "h_tx"}
    PROVE  /\ task[t] \in Task /\ task[t].event \in Event /\ EventOrder(t) \in Orders
           /\ EventOrder(t) = OrderOfEvent(task[t].event) /\ PaidAt(EventOrder(t))
           /\ \A c \in task[t].opened : cases[c].status # "NONE"
           /\ task[t].pc \in {"c_write", "c_order"} =>
                /\ task[t].payment \in Payments /\ EventOrder(t) = OrderOf[task[t].payment]
                /\ task[t].event = [type |-> "captured", of |-> task[t].payment]
           /\ task[t].pc \in {"c_match", "h_tx"} => orders[EventOrder(t)] = "PAID"
           /\ task[t].event.type \in {"captured", "paid"}
           /\ task[t].pc = "o_write" => task[t].event.type = "paid" /\ EventOrder(t) = task[t].event.of
           /\ task[t].pc = "h_tx" =>
                /\ task[t].case \in CaseIds /\ OrderOfRow(task[t].case) = EventOrder(t)
                /\ task[t].payment # None => OrderOf[task[t].payment] = EventOrder(t)
<1>1. Fits(t) /\ task[t] \in Task
  BY DEF Inv, TasksFit, TypeOK
<1>2. EventOrder(t) = OrderOfEvent(task[t].event)
  BY DEF EventOrder, OrderOfEvent
<1>3. ASSUME task[t].pc \in {"c_write", "c_order"}
      PROVE  /\ task[t].event \in Event /\ task[t].payment \in Payments
             /\ task[t].event = [type |-> "captured", of |-> task[t].payment]
             /\ EventOrder(t) = OrderOf[task[t].payment] /\ task[t].event.type = "captured"
  <2>1. task[t].payment \in Payments /\ task[t].event = [type |-> "captured", of |-> task[t].payment]
    BY <1>1, <1>3 DEF Fits, MoneyFits
  <2> QED
    BY <1>2, <2>1 DEF Event, OrderOfEvent
<1>4. task[t].event \in Event /\ task[t].event.type \in {"captured", "paid"}
  BY <1>1, <1>3 DEF Fits, MoneyFits
<1>5. OrderOfEvent(task[t].event) \in Orders
  BY <1>4, EventFields
<1>6. task[t].pc = "o_write" => task[t].event.type = "paid" /\ EventOrder(t) = task[t].event.of
  BY <1>1 DEF Fits, MoneyFits, EventOrder
<1> QED
  BY <1>1, <1>2, <1>3, <1>4, <1>5, <1>6 DEF Fits, MoneyFits, At

\* A task that goes on bringing money, once the order's row is written.
LEMMA MatchFits ==
    ASSUME Inv, RowsKeep, NEW t \in Tasks, NEW k, task[t].pc \in {"c_order", "o_write"},
           k.pc = "c_match", k.event = task[t].event, k.opened = task[t].opened,
           orders'[EventOrder(t)] = "PAID"
    PROVE  FitsNext(k)
<1>1. FitsNext(task[t])
  BY FitStays
<1>2. task[t].event \in Event /\ EventOrder(t) = OrderOfEvent(task[t].event)
      /\ task[t].event.type \in {"captured", "paid"}
  BY AtMoney
<1> QED
  BY <1>1, <1>2 DEF FitsNext, FailureFits, MoneyFits, Starting

LEMMA CapturedWriteKeepsInv ==
    ASSUME Inv, NEW t \in Tasks, CapturedWrite(t)
    PROVE  Inv' /\ RowsKeep
<1> DEFINE x == task[t].payment
           k == [task[t] EXCEPT !.pc = "c_order"]
<1>0. task[t].pc = "c_write"
  BY DEF CapturedWrite, At
<1>1. CASE Throw(t)
  BY <1>1, ThrowKeepsInv DEF Throw
<1>2. CASE /\ payments' = [payments EXCEPT ![x] = "CAPTURED"] /\ Become(t, k)
           /\ UNCHANGED <<orders, settled, cases, batches, runVars, envVars>>
  <2>1. x \in Payments /\ PaidAt(OrderOf[x]) /\ task[t] \in Task
    BY <1>0, AtMoney
  <2>2. rz' = rz /\ events' = events /\ extras' \in Nat /\ UNCHANGED <<orders, settled, cases, batches, runVars>>
    BY <1>2 DEF envVars, Inv, TypeOK
  <2>3. RowsOK' /\ RowsKeep /\ RunsOK'
    BY <1>2, <2>1, <2>2, PaymentWrite, SameRuns DEF Inv
  <2>4. k \in Task /\ k.pc = "c_order" /\ k.event = task[t].event /\ k.payment = x
        /\ k.kind = task[t].kind /\ k.opened = task[t].opened
    BY <2>1 DEF Task, Pcs
  <2> HIDE DEF k
  <2>5. FitsNext(task[t])
    BY <2>3, FitStays
  <2>6. FitsNext(k)
    BY <1>0, <2>4, <2>5 DEF FitsNext, FailureFits, MoneyFits, Starting
  <2> QED
    BY <1>2, <2>2, <2>3, <2>4, <2>6, MoveKeepsInv
<1> QED
  BY <1>1, <1>2 DEF CapturedWrite, Goto

LEMMA CapturedOrderKeepsInv ==
    ASSUME Inv, NEW t \in Tasks, CapturedOrder(t)
    PROVE  Inv' /\ RowsKeep
<1> DEFINE k == [task[t] EXCEPT !.pc = "c_match"]
<1>0. task[t].pc = "c_order" /\ Become(t, k) /\ OrderPaid(OrderOf[task[t].payment])
      /\ UNCHANGED <<payments, settled, cases, batches, runVars, envVars>>
  BY DEF CapturedOrder, At, Goto
<1>1. EventOrder(t) = OrderOf[task[t].payment] /\ EventOrder(t) \in Orders /\ PaidAt(EventOrder(t))
      /\ task[t] \in Task
  BY <1>0, AtMoney
<1>2. rz' = rz /\ events' = events /\ extras' \in Nat /\ UNCHANGED <<payments, settled, cases, batches, runVars>>
  BY <1>0 DEF envVars, Inv, TypeOK
<1>3. RowsOK' /\ RowsKeep /\ RunsOK' /\ orders'[EventOrder(t)] = "PAID"
  BY <1>0, <1>1, <1>2, OrderWrite, SameRuns DEF Inv
<1>4. k \in Task /\ k.pc = "c_match" /\ k.event = task[t].event /\ k.opened = task[t].opened
  BY <1>1 DEF Task, Pcs
<1> HIDE DEF k
<1>5. FitsNext(k)
  BY <1>0, <1>3, <1>4, MatchFits
<1> QED
  BY <1>0, <1>2, <1>3, <1>4, <1>5, MoveKeepsInv

LEMMA PaidDeliveredKeepsInv ==
    ASSUME Inv, NEW t \in Tasks, NEW o \in Orders, PaidDelivered(t, o)
    PROVE  Inv' /\ RowsKeep
<1> DEFINE e == [type |-> "paid", of |-> o]
           pc == IF orders[o] = "PAID" THEN "c_match" ELSE "o_write"
<1>1. e \in Event /\ e.type = "paid" /\ e.of = o /\ OrderOfEvent(e) = o
  BY DEF Event, OrderOfEvent
<1>2. extras' \in Nat /\ Happened(e) /\ UNCHANGED <<rowVars, runVars, rz, events>>
  BY DeliverHappened DEF PaidDelivered
<1>3. PICK r : r = [IdleTask EXCEPT !.pc = pc, !.event = e]
  OBVIOUS
<1>4. Become(t, r)
  BY <1>3 DEF PaidDelivered
<1>5. RowsOK' /\ RowsKeep /\ RunsOK' /\ orders' = orders
  BY <1>2, SameRows, SameRuns DEF Inv, rowVars
<1>6. PaidAt(o)'
  BY <1>1, <1>2 DEF Happened, PaidAt
<1>7. pc \in {"c_match", "o_write"} /\ (pc = "c_match" => orders[o] = "PAID")
  OBVIOUS
<1> HIDE DEF e, pc
<1>8. r \in Task /\ r.pc = pc /\ r.event = e /\ r.opened = {}
  BY <1>1, <1>3, <1>7, IdleFits DEF IdleTask, Task, Pcs
<1>9. FitsNext(r)
  BY <1>1, <1>5, <1>6, <1>7, <1>8 DEF FitsNext, FailureFits, MoneyFits, Starting, PaidAt
<1> QED
  BY <1>2, <1>4, <1>5, <1>8, <1>9, MoveKeepsInv

LEMMA PaidWriteKeepsInv ==
    ASSUME Inv, NEW t \in Tasks, PaidWrite(t)
    PROVE  Inv' /\ RowsKeep
<1> DEFINE k == [task[t] EXCEPT !.pc = "c_match"]
<1>0. task[t].pc = "o_write" /\ Become(t, k) /\ OrderPaid(task[t].event.of)
      /\ UNCHANGED <<payments, settled, cases, batches, runVars, envVars>>
  BY DEF PaidWrite, At, Goto
<1>1. EventOrder(t) = task[t].event.of /\ EventOrder(t) \in Orders /\ PaidAt(EventOrder(t))
      /\ task[t] \in Task
  BY <1>0, AtMoney
<1>2. rz' = rz /\ events' = events /\ extras' \in Nat /\ UNCHANGED <<payments, settled, cases, batches, runVars>>
  BY <1>0 DEF envVars, Inv, TypeOK
<1>3. RowsOK' /\ RowsKeep /\ RunsOK' /\ orders'[EventOrder(t)] = "PAID"
  BY <1>0, <1>1, <1>2, OrderWrite, SameRuns DEF Inv
<1>4. k \in Task /\ k.pc = "c_match" /\ k.event = task[t].event /\ k.opened = task[t].opened
  BY <1>1 DEF Task, Pcs
<1> HIDE DEF k
<1>5. FitsNext(k)
  BY <1>0, <1>3, <1>4, MatchFits
<1> QED
  BY <1>0, <1>2, <1>3, <1>4, <1>5, MoveKeepsInv

\* An event of money is answered once its order reads PAID.
LEMMA MoneyAnswerKeepsInv ==
    ASSUME Inv, RowsOK', RowsKeep, NEW t \in Tasks, task[t].pc \in {"c_match", "h_tx"},
           Answer(t), UNCHANGED runVars
    PROVE  Inv' /\ RowsKeep
<1>1. PICK a : a = task[t].event
  OBVIOUS
<1>2. a \in Event /\ a.type \in {"captured", "paid"} /\ orders[OrderOfEvent(a)] = "PAID"
  BY <1>1, AtMoney
<1>3. Settled(a)
  BY <1>2 DEF Settled, OrderOfEvent
<1>4. Settled(a)'
  BY <1>2, <1>3, SettledStays
<1> QED
  BY <1>1, <1>4, SameRuns, AnswerKeepsInv

LEMMA CloseReadKeepsInv ==
    ASSUME Inv, NEW t \in Tasks, CloseRead(t)
    PROVE  Inv' /\ RowsKeep
<1> DEFINE o == EventOrder(t)
<1>0. task[t].pc = "c_match" /\ UNCHANGED <<rowVars, runVars>>
  BY DEF CloseRead, At
<1>1. CASE Answer(t)
  <2>1. RowsOK' /\ RowsKeep
    BY <1>0, <1>1, SameRows DEF Inv, Answer
  <2> QED
    BY <1>0, <1>1, <2>1, MoneyAnswerKeepsInv
<1>2. ASSUME NEW c \in Newest(o), NEW k, k = [task[t] EXCEPT !.pc = "h_tx", !.case = c, !.payment = cases[c].payment],
             Become(t, k), UNCHANGED envVars
      PROVE  Inv' /\ RowsKeep
  <2>1. /\ task[t] \in Task /\ o \in Orders /\ o = OrderOfEvent(task[t].event) /\ PaidAt(o)
        /\ orders[o] = "PAID" /\ task[t].event \in Event /\ task[t].event.type \in {"captured", "paid"}
        /\ \A d \in task[t].opened : cases[d].status # "NONE"
    BY <1>0, AtMoney
  <2>2. c \in CaseIds /\ o \in {cases[c].order, OrderOfRow(c)} /\ o # None
    BY <2>1, NoneAssumption DEF Newest, Open
  <2>3. OrderOfRow(c) = o /\ cases[c] \in CaseRow
    BY <2>2 DEF OrderOfRow, Inv, RowsOK, LinksAgree, RowTypes
  <2>4. cases[c].payment # None => OrderOf[cases[c].payment] = o
    BY <2>3 DEF OrderOfRow
  <2>5. cases[c].payment \in Payments \cup {None} /\ c \in 0 .. MaxCases
    BY <2>2, <2>3, BoundsAssumption DEF CaseRow, CaseIds
  <2>6. k \in Task /\ k.pc = "h_tx" /\ k.event = task[t].event /\ k.case = c
        /\ k.payment = cases[c].payment /\ k.opened = task[t].opened
    BY <1>2, <2>1, <2>5 DEF Task, Pcs
  <2>7. RowsOK' /\ RowsKeep /\ RunsOK' /\ rz' = rz /\ events' = events /\ extras' \in Nat
        /\ cases' = cases /\ orders' = orders
    BY <1>0, <1>2, SameRows, SameRuns DEF envVars, rowVars, Inv, TypeOK
  <2>8. FailureFits(k) /\ MoneyFits(k) /\ ~Starting(k)
    BY <2>1, <2>2, <2>4, <2>6 DEF FailureFits, MoneyFits, Starting
  <2>9. FitsNext(k)
    BY <2>1, <2>3, <2>6, <2>7, <2>8 DEF FitsNext, OrderOfRow, PaidAt
  <2> QED
    BY <1>2, <2>6, <2>7, <2>9, MoveKeepsInv
<1> QED
  BY <1>1, <1>2 DEF CloseRead

LEMMA CloseTransactionKeepsInv ==
    ASSUME Inv, NEW t \in Tasks, CloseTransaction(t)
    PROVE  Inv' /\ RowsKeep
<1>0. task[t].pc = "h_tx" /\ Answer(t) /\ UNCHANGED runVars /\ rz' = rz
  BY DEF CloseTransaction, At, Answer
<1>1. CASE UNCHANGED rowVars
  <2>1. RowsOK' /\ RowsKeep
    BY <1>0, <1>1, SameRows DEF Inv
  <2> QED
    BY <1>0, <2>1, MoneyAnswerKeepsInv
<1>2. CASE ~UNCHANGED rowVars
  <2>1. PICK c \in CaseIds : c = task[t].case
    BY <1>0, AtMoney
  <2>2. PICK o \in Orders : o = EventOrder(t)
    BY <1>0, AtMoney
  <2>3. PICK x : x = task[t].payment
    OBVIOUS
  <2>4. OrderOfRow(c) = o /\ PaidAt(o) /\ (x \in Payments => OrderOf[x] = o)
    BY <1>0, <2>1, <2>2, <2>3, AtMoney, NoneAssumption
  <2>5. /\ payments' = [y \in Payments |-> IF y = x THEN "CAPTURED" ELSE payments[y]]
        /\ settled' \in {settled, settled \cup {o}} /\ OrderPaid(o)
        /\ cases' = [cases EXCEPT ![c] = RecoveredRow(c)] /\ UNCHANGED batches
    BY <1>2, <2>1, <2>2, <2>3 DEF CloseTransaction, RecoveredRow
  <2>6. RowsOK' /\ RowsKeep
    BY <1>0, <2>4, <2>5, CloseRows DEF Inv
  <2> QED
    BY <1>0, <2>6, MoneyAnswerKeepsInv
<1> QED
  BY <1>1, <1>2

(***************************************************************************)
(* Batches, and tasks that look at no event.                               *)
(***************************************************************************)
\* A task with nothing at stake fits any rows.
LEMMA PlainFits ==
    ASSUME NEW k, k.pc \in {"idle", "a_next", "b_claim", "g_read", "g_write", "r_write"},
           k.pc = "a_next" => k.kind # "event", \A c \in k.opened : cases'[c].status # "NONE"
    PROVE  FitsNext(k)
BY DEF FitsNext, FailureFits, MoneyFits, Starting

LEMMA PlainKeepsInv ==
    ASSUME Inv, UNCHANGED <<rowVars, rz, events>>, RunsOK', extras' \in Nat, NEW t \in Tasks,
           NEW k \in Task, Become(t, k),
           k.pc \in {"idle", "a_next", "b_claim", "g_read", "g_write", "r_write"},
           k.pc = "a_next" => k.kind # "event", k.opened = {}
    PROVE  Inv' /\ RowsKeep
<1>1. RowsOK' /\ RowsKeep
  BY SameRows DEF Inv
<1> QED
  BY <1>1, PlainFits, MoveKeepsInv

LEMMA SweepFindKeepsInv ==
    ASSUME Inv, NEW t \in Tasks, NEW found \in SUBSET Unpaid, SweepFind(t, found), extras' \in Nat
    PROVE  Inv' /\ RowsKeep
<1>1. PICK k : k = [IdleTask EXCEPT !.pc = "a_next", !.kind = "sweep", !.todo = found]
  OBVIOUS
<1>2. found \in SUBSET Entities
  BY DEF Unpaid, Entities
<1>3. k \in Task /\ k.pc = "a_next" /\ k.kind = "sweep" /\ k.opened = {}
  BY <1>1, <1>2, IdleFits DEF IdleTask, Task, Pcs, Kinds
<1>4. Become(t, k) /\ UNCHANGED <<rowVars, runVars, rz, events>>
  BY <1>1 DEF SweepFind
<1> QED
  BY <1>3, <1>4, SameRuns, PlainKeepsInv

LEMMA DetectFindKeepsInv ==
    ASSUME Inv, NEW t \in Tasks, NEW found \in SUBSET Unpaid, DetectFind(t, found), extras' \in Nat
    PROVE  Inv' /\ RowsKeep
<1>1. PICK k : k = [IdleTask EXCEPT !.pc = "a_next", !.kind = "batch", !.todo = FailedWithoutCase \cup found]
  OBVIOUS
<1>2. FailedWithoutCase \cup found \in SUBSET Entities
  BY DEF Unpaid, Entities, FailedWithoutCase
<1>3. k \in Task /\ k.pc = "a_next" /\ k.kind = "batch" /\ k.opened = {}
  BY <1>1, <1>2, IdleFits DEF IdleTask, Task, Pcs, Kinds
<1>4. Become(t, k) /\ UNCHANGED <<rowVars, runVars, rz, events>>
  BY <1>1 DEF DetectFind
<1> QED
  BY <1>3, <1>4, SameRuns, PlainKeepsInv

LEMMA DetectCreateKeepsInv ==
    ASSUME Inv, NEW t \in Tasks, DetectCreate(t)
    PROVE  Inv' /\ RowsKeep
<1>0. task[t] \in Task /\ \A c \in task[t].opened : c \in CaseIds /\ cases[c].status # "NONE"
  BY AtAssessing
<1>1. CASE Throw(t)
  BY <1>1, ThrowKeepsInv DEF Throw
<1>2. ASSUME NEW b \in BatchIds, batches' = [batches EXCEPT ![b] = [status |-> "PENDING", total |-> Detected(t)]],
             NEW k, k = [task[t] EXCEPT !.pc = "b_claim", !.batch = b], Become(t, k),
             UNCHANGED <<orders, payments, settled, cases, runVars, envVars>>
      PROVE  Inv' /\ RowsKeep
  <2>1. task[t].opened \in SUBSET CaseIds
    BY <1>0
  <2>3. Detected(t) \in Nat
    BY <2>1, CaseIdsFinite, FS_Subset, FS_CardinalityType DEF Detected
  <2>4. [status |-> "PENDING", total |-> Detected(t)] \in BatchRow
    BY <2>3 DEF BatchRow
  <2>5. batches' \in [BatchIds -> BatchRow]
    BY <1>2, <2>4 DEF Inv, TypeOK
  <2>6. rz' = rz /\ events' = events /\ extras' \in Nat /\ cases' = cases
    BY <1>2 DEF envVars, Inv, TypeOK
  <2>7. RowsOK' /\ RowsKeep /\ RunsOK'
    BY <1>2, <2>5, <2>6, BatchRows, SameRuns DEF Inv
  <2>8. b \in 0 .. MaxBatches
    BY BoundsAssumption DEF BatchIds
  <2>9. k \in Task /\ k.pc = "b_claim" /\ k.opened = task[t].opened
    BY <1>0, <1>2, <2>8 DEF Task, Pcs
  <2>10. FitsNext(k)
    BY <1>0, <2>6, <2>9, PlainFits
  <2> QED
    BY <1>2, <2>6, <2>7, <2>9, <2>10, MoveKeepsInv
<1> QED
  BY <1>1, <1>2 DEF DetectCreate

LEMMA DetectClaimKeepsInv ==
    ASSUME Inv, NEW t \in Tasks, DetectClaim(t)
    PROVE  Inv' /\ RowsKeep
<1> DEFINE b == task[t].batch
           S == {c \in CaseIds : c \in task[t].opened /\ Claimable(c)}
<1>0. task[t] \in Task /\ \A c \in task[t].opened : c \in CaseIds /\ cases[c].status # "NONE"
  BY AtAssessing
<1>1. b \in 0 .. MaxBatches
  BY <1>0 DEF Task
<1>2. cases' = [c \in CaseIds |-> IF c \in S THEN [cases[c] EXCEPT !.batch = b] ELSE cases[c]]
  BY DEF DetectClaim
<1>3. rz' = rz /\ events' = events /\ extras' \in Nat /\ UNCHANGED <<orders, payments, settled, batches, runVars>>
  BY DEF DetectClaim, envVars, Inv, TypeOK
<1>4. RowsOK' /\ RowsKeep /\ RunsOK'
  BY <1>0, <1>1, <1>2, <1>3, ClaimRows, SameRuns DEF Inv
<1>5. PICK k : k = [IdleTask EXCEPT !.pc = "g_read", !.batch = b]
  OBVIOUS
<1>6. k \in Task /\ k.pc = "g_read" /\ k.opened = {}
  BY <1>1, <1>5, IdleFits DEF IdleTask, Task, Pcs
<1>7. Become(t, k)
  BY <1>5 DEF DetectClaim
<1> QED
  BY <1>3, <1>4, <1>6, <1>7, PlainFits, MoveKeepsInv

LEMMA StatusReadKeepsInv ==
    ASSUME Inv, UNCHANGED <<rowVars, runVars, rz, events>>, extras' \in Nat, NEW t \in Tasks,
           NEW b \in 0 .. MaxBatches, StatusRead(t, b)
    PROVE  Inv' /\ RowsKeep
<1>1. PICK k : Become(t, k) /\ k \in {IdleTask, [IdleTask EXCEPT !.pc = "g_write", !.batch = b]}
  BY DEF StatusRead
<1>2. k \in Task /\ k.pc \in {"idle", "g_write"} /\ k.opened = {}
  <2>1. CASE k = IdleTask
    BY <2>1, IdleFits DEF IdleTask
  <2>2. CASE k = [IdleTask EXCEPT !.pc = "g_write", !.batch = b]
    BY <2>2, IdleFits DEF IdleTask, Task, Pcs
  <2> QED
    BY <1>1, <2>1, <2>2
<1> QED
  BY <1>1, <1>2, SameRuns, PlainKeepsInv

LEMMA SetBatchKeepsInv ==
    ASSUME Inv, NEW t \in Tasks, NEW s \in {"RUNNING", "COMPLETED"}, SetBatch(t, s)
    PROVE  Inv' /\ RowsKeep
<1>1. rz' = rz /\ events' = events /\ extras' \in Nat /\ UNCHANGED <<orders, payments, settled, cases, runVars>>
      /\ Become(t, IdleTask)
  BY DEF SetBatch, envVars, Inv, TypeOK
<1>2. batches' \in [BatchIds -> BatchRow]
  BY DEF SetBatch, Inv, TypeOK, BatchRow
<1>3. RowsOK' /\ RowsKeep /\ RunsOK'
  BY <1>1, <1>2, BatchRows, SameRuns DEF Inv
<1> QED
  BY <1>1, <1>3, IdleFits, MoveKeepsInv

LEMMA RunBatchKeepsInv ==
    ASSUME Inv, NEW t \in Tasks, NEW b \in BatchIds, RunBatch(t, b), extras' \in Nat
    PROVE  Inv' /\ RowsKeep
<1>1. PICK k : k = [IdleTask EXCEPT !.pc = "r_write", !.batch = b]
  OBVIOUS
<1>2. b \in 0 .. MaxBatches
  BY BoundsAssumption DEF BatchIds
<1>3. k \in Task /\ k.pc = "r_write" /\ k.opened = {}
  BY <1>1, <1>2, IdleFits DEF IdleTask, Task, Pcs
<1>4. Become(t, k) /\ UNCHANGED <<rowVars, acting, loops, pools, started, rz, events>>
  BY <1>1 DEF RunBatch
<1>5. RunsOK'
  BY <1>4 DEF RunBatch, RunsOK, Inv, TypeOK, InBatch, PoolInv, PoolTypeOK, LoopsApart
<1> QED
  BY <1>3, <1>4, <1>5, PlainKeepsInv

(***************************************************************************)
(* Runs, Razorpay and restarts.                                            *)
(***************************************************************************)
\* A run's status write, and the escalation route's.
LEMMA RanKeepsRows ==
    ASSUME Inv, NEW c, NEW s \in {"IN_PROGRESS", "ESCALATED", "EXHAUSTED"}, SetCase(c, Ran(c, s)),
           UNCHANGED <<envVars, task>>
    PROVE  RowsOK' /\ RowsKeep
<1>0. rz' = rz /\ events' = events /\ extras' \in Nat /\ task' = task
  BY DEF envVars, Inv, TypeOK
<1>1. PICK r : r = Written(c, s)
  OBVIOUS
<1>2. c \in CaseIds => /\ r \in CaseRow /\ r.order = cases[c].order /\ r.payment = cases[c].payment
                       /\ r.batch = cases[c].batch /\ r.outcome = cases[c].outcome /\ r.status = s
                       /\ cases[c].ended => r.ended
                       /\ s \in Terminal => r.ended
  BY <1>1, WrittenRow DEF Active, Terminal, Inv
<1>3. SetCase(c, r)
  BY <1>1 DEF Ran
<1> QED
  BY <1>0, <1>2, <1>3, CaseWrite DEF Inv

\* What a run writes to its case.
LEMMA ActsKeepRows ==
    ASSUME Inv, NEW c, Acts(c)
    PROVE  RowsOK' /\ RowsKeep /\ rz' = rz /\ events' = events /\ extras' \in Nat /\ task' = task
<1>0. rz' = rz /\ events' = events /\ extras' \in Nat /\ task' = task
  BY DEF Acts, envVars, Inv, TypeOK
<1>1. ASSUME NEW s \in {"IN_PROGRESS", "ESCALATED", "EXHAUSTED"}, SetCase(c, Ran(c, s))
      PROVE  RowsOK' /\ RowsKeep
  BY <1>1, RanKeepsRows DEF Acts
<1>2. ASSUME Observed(c), SetCase(c, RecoveredRow(c))
      PROVE  RowsOK' /\ RowsKeep
  <2>1. PICK r : r = RecoveredRow(c)
    OBVIOUS
  <2>2. c \in CaseIds => /\ r \in CaseRow /\ r.order = cases[c].order /\ r.payment = cases[c].payment
                         /\ r.batch = cases[c].batch /\ r.outcome /\ r.status = "RECOVERED" /\ r.ended
    BY <2>1, RecoveredFields DEF Inv
  <2>3. ASSUME c \in CaseIds
        PROVE  PaidAt(OrderOfRow(c))
    <3>1. CASE cases[c].order \in settled
      BY <2>3, <3>1, NoneAssumption DEF OrderOfRow, Inv, TypeOK, RowsOK, LinksAgree, MoneyIsReal
    <3>2. ASSUME NEW x \in Payments, payments[x] = "CAPTURED", x = cases[c].payment \/ OrderOf[x] = cases[c].order
          PROVE  PaidAt(OrderOfRow(c))
      <4>1. PaidAt(OrderOf[x]) /\ OrderOf[x] # None /\ x # None
        BY <3>2, OrderOfAssumption, NoneAssumption DEF Inv, RowsOK, MoneyIsReal
      <4>2. OrderOfRow(c) = OrderOf[x]
        BY <2>3, <3>2, <4>1 DEF OrderOfRow, Inv, RowsOK, LinksAgree
      <4> QED
        BY <4>1, <4>2
    <3> QED
      BY <1>2, <3>1, <3>2 DEF Observed
  <2> QED
    BY <1>0, <1>2, <2>1, <2>2, <2>3, CaseWrite DEF Inv
<1> QED
  BY <1>0, <1>1, <1>2 DEF Acts, RecoveredRow

LEMMA JobCheckKeepsInv ==
    ASSUME Inv, NEW c \in CaseIds, JobCheck(c)
    PROVE  Inv' /\ RowsKeep
<1>1. rz' = rz /\ events' = events /\ extras' \in Nat /\ UNCHANGED <<rowVars, task>>
  BY DEF JobCheck, envVars, Inv, TypeOK
<1>2. RowsOK' /\ RowsKeep
  BY <1>1, SameRows DEF Inv
<1>3. RunsOK'
  BY DEF JobCheck, RunsOK, Inv, TypeOK, PoolInv, PoolTypeOK, LoopsApart
<1> QED
  BY <1>1, <1>2, <1>3, OtherKeepsInv

LEMMA JobEscalateKeepsInv ==
    ASSUME Inv, NEW c \in CaseIds, JobEscalate(c)
    PROVE  Inv' /\ RowsKeep
<1>1. rz' = rz /\ events' = events /\ extras' \in Nat /\ task' = task
  BY DEF JobEscalate, envVars, Inv, TypeOK
<1>2. RowsOK' /\ RowsKeep
  BY RanKeepsRows DEF JobEscalate
<1>3. RunsOK'
  BY DEF JobEscalate, RunsOK, Inv, TypeOK, PoolInv, PoolTypeOK, LoopsApart
<1> QED
  BY <1>1, <1>2, <1>3, OtherKeepsInv

LEMMA RunActKeepsInv ==
    ASSUME Inv, NEW c \in CaseIds, RunAct(c)
    PROVE  Inv' /\ RowsKeep
<1>1. RowsOK' /\ RowsKeep /\ rz' = rz /\ events' = events /\ extras' \in Nat /\ task' = task
  BY ActsKeepRows DEF RunAct
<1>2. RunsOK'
  BY DEF RunAct, Acts, RunsOK, Inv, TypeOK, PoolInv, PoolTypeOK, LoopsApart
<1> QED
  BY <1>1, <1>2, OtherKeepsInv

LEMMA PoolCheckKeepsInv ==
    ASSUME Inv, NEW p \in Pools, NEW k \in Workers, PoolCheck(p, k)
    PROVE  Inv' /\ RowsKeep
<1>1. rz' = rz /\ events' = events /\ extras' \in Nat /\ UNCHANGED <<rowVars, task>>
  BY DEF PoolCheck, envVars, Inv, TypeOK
<1>2. RowsOK' /\ RowsKeep
  BY <1>1, SameRows DEF Inv
<1>3. PoolInv'
  BY PoolNextInv DEF PoolCheck, PoolNext, PoolStep, Inv
<1>4. RunsOK'
  BY <1>3 DEF PoolCheck, RunsOK, Inv, TypeOK, Loops
<1> QED
  BY <1>1, <1>2, <1>4, OtherKeepsInv

LEMMA PoolActKeepsInv ==
    ASSUME Inv, NEW p \in Pools, NEW k \in Workers, PoolAct(p, k)
    PROVE  Inv' /\ RowsKeep
<1>1. PICK c : c = Held(p, k)
  OBVIOUS
<1>2. Acts(c)
  BY <1>1 DEF PoolAct
<1>3. RowsOK' /\ RowsKeep /\ rz' = rz /\ events' = events /\ extras' \in Nat /\ task' = task
  BY <1>2, ActsKeepRows
<1>4. UNCHANGED <<jobs, started, acting, pools>> /\ loops' \subseteq loops
  BY DEF PoolAct, Acts
<1>5. RunsOK'
  BY <1>4 DEF RunsOK, Inv, TypeOK, PoolInv, PoolTypeOK, LoopsApart
<1> QED
  BY <1>3, <1>5, OtherKeepsInv

LEMMA PoolRunEndKeepsInv ==
    ASSUME Inv, NEW p \in Pools, NEW k \in Workers, PoolRunEnd(p, k)
    PROVE  Inv' /\ RowsKeep
<1>1. rz' = rz /\ events' = events /\ extras' \in Nat /\ UNCHANGED <<rowVars, task>>
  BY DEF PoolRunEnd, envVars, Inv, TypeOK
<1>2. RowsOK' /\ RowsKeep
  BY <1>1, SameRows DEF Inv
<1>3. PoolInv'
  BY PoolNextInv DEF PoolRunEnd, PoolNext, PoolStep, Inv
<1>4. RunsOK'
  BY <1>3 DEF PoolRunEnd, RunsOK, Inv, TypeOK
<1> QED
  BY <1>1, <1>2, <1>4, OtherKeepsInv

LEMMA RestartKeepsInv ==
    ASSUME Inv, BackendRestart
    PROVE  Inv' /\ RowsKeep
<1>1. rz' = rz /\ events' = events /\ extras' \in Nat /\ UNCHANGED rowVars
      /\ task' = [t \in Tasks |-> IdleTask]
  BY DEF BackendRestart, Extra, Inv, TypeOK
<1>2. RowsOK' /\ RowsKeep
  BY <1>1, SameRows DEF Inv
<1>3. PoolInv'
  BY PoolNextInv DEF BackendRestart, PoolNext, Inv
<1>4. RunsOK'
  BY <1>3 DEF BackendRestart, RunsOK, Inv, TypeOK
<1> QED
  BY <1>1, <1>2, <1>4, OtherKeepsInv

\* Razorpay decides on payments, and owes the backend the events of it.
LEMMA RazorpayKeepsInv ==
    ASSUME Inv, rz' \in [Payments -> SUBSET {"failed", "captured"}],
           \A x \in Payments : rz[x] \subseteq rz'[x], events' \subseteq Event, events \subseteq events',
           \A e \in Event : Happened(e)' /\ ~Happened(e) => e \in events',
           \A e \in events' \ events : Happened(e)',
           UNCHANGED <<rowVars, runVars, task, extras>>
    PROVE  Inv' /\ RowsKeep
<1>1. RowsOK' /\ RowsKeep
  BY RazorpayRows DEF Inv
<1>2. RunsOK'
  BY SameRuns
<1>3. TypeOK'
  BY <1>1, <1>2 DEF Inv, TypeOK, RowsOK, RowTypes, RunsOK, PoolInv
<1>4. ASSUME NEW t \in Tasks
      PROVE  Fits(t)'
  BY <1>1, FitStays, FitsNextIsFits
<1>5. ASSUME NEW e \in Event, Happened(e)', e \notin events'
      PROVE  Settled(e)'
  BY <1>1, <1>5, RecordedSettles, SettledStays DEF Inv
<1>6. ASSUME NEW e \in Event, Happened(e)
      PROVE  Happened(e)'
  BY <1>6, EventFields DEF Happened, PaidAt
<1>7. EventsHappened'
  BY <1>6 DEF EventsHappened, Inv, TypeOK
<1> QED
  BY <1>1, <1>2, <1>3, <1>4, <1>5, <1>7, SettledRecords DEF Inv, RunsOK, TasksFit

LEMMA FailKeepsInv ==
    ASSUME Inv, NEW x \in Payments, Fail(x)
    PROVE  Inv' /\ RowsKeep
<1>1. \A y \in Payments : rz'[y] = IF y = x THEN {"failed"} ELSE rz[y]
  BY DEF Fail, Inv, TypeOK
<1>2. rz' \in [Payments -> SUBSET {"failed", "captured"}] /\ (\A y \in Payments : rz[y] \subseteq rz'[y])
  BY <1>1 DEF Fail, Inv, TypeOK
<1>3. [type |-> "failed", of |-> x] \in Event
  BY DEF Event
<1>4. events' \subseteq Event /\ events \subseteq events'
  BY <1>3 DEF Fail, Inv, TypeOK
<1>5. ASSUME NEW e \in Event, Happened(e)', ~Happened(e)
      PROVE  e \in events'
  <2>1. e.type = "failed" /\ e.of = x
    BY <1>1, <1>5, EventFields DEF Happened, PaidAt, Fail
  <2>2. e = [type |-> "failed", of |-> x]
    BY <2>1 DEF Event
  <2> QED
    BY <2>2 DEF Fail
<1>6. ASSUME NEW e \in events' \ events
      PROVE  Happened(e)'
  BY <1>1, <1>6 DEF Fail, Happened
<1> QED
  BY <1>2, <1>4, <1>5, <1>6, RazorpayKeepsInv DEF Fail

LEMMA CaptureKeepsInv ==
    ASSUME Inv, NEW x \in Payments, Capture(x)
    PROVE  Inv' /\ RowsKeep
<1> DEFINE c == [type |-> "captured", of |-> x]
           d == [type |-> "paid", of |-> OrderOf[x]]
<1>1. \A y \in Payments : rz'[y] = IF y = x THEN rz[x] \cup {"captured"} ELSE rz[y]
  BY DEF Capture, Inv, TypeOK
<1>2. rz' \in [Payments -> SUBSET {"failed", "captured"}] /\ (\A y \in Payments : rz[y] \subseteq rz'[y])
  BY <1>1 DEF Capture, Inv, TypeOK
<1>3. /\ c \in Event /\ d \in Event /\ c.type = "captured" /\ c.of = x
      /\ d.type = "paid" /\ d.of = OrderOf[x]
  BY OrderOfAssumption DEF Event
<1>8. events' = events \cup {c, d}
  BY DEF Capture
<1>4. events' \subseteq Event /\ events \subseteq events'
  BY <1>3, <1>8 DEF Inv, TypeOK
<1>5. ASSUME NEW e \in Event, Happened(e)', ~Happened(e)
      PROVE  e \in events'
  <2>1. CASE e.type = "paid"
    <3>1. e.of = OrderOf[x]
      BY <1>1, <1>5, <2>1 DEF Happened, PaidAt
    <3>2. e = d
      BY <2>1, <3>1 DEF Event
    <3> QED
      BY <1>8, <3>2
  <2>2. CASE e.type # "paid"
    <3>1. e.type = "captured" /\ e.of = x
      BY <1>1, <1>5, <2>2, EventFields DEF Happened
    <3>2. e = c
      BY <3>1 DEF Event
    <3> QED
      BY <1>8, <3>2
  <2> QED
    BY <2>1, <2>2
<1> HIDE DEF c, d
<1>6. ASSUME NEW e \in events' \ events
      PROVE  Happened(e)'
  <2>1. CASE e = c
    BY <1>1, <1>3, <2>1 DEF Happened
  <2>2. CASE e = d
    BY <1>1, <1>3, <2>2 DEF Happened, PaidAt
  <2> QED
    BY <1>6, <1>8, <2>1, <2>2
<1> QED
  BY <1>2, <1>4, <1>5, <1>6, RazorpayKeepsInv DEF Capture

(***************************************************************************)
(* All steps together.                                                     *)
(***************************************************************************)
LEMMA DeliveryKeepsInv ==
    ASSUME Inv, NEW t \in Tasks, Delivery(t)
    PROVE  Inv' /\ RowsKeep
BY FailedDeliveredKeepsInv, CapturedDeliveredKeepsInv, PaidDeliveredKeepsInv DEF Delivery

LEMMA RequestKeepsInv ==
    ASSUME Inv, NEW t \in Tasks, Request(t)
    PROVE  Inv' /\ RowsKeep
<1>1. extras' \in Nat
  BY DEF Request, Extra, Inv, TypeOK
<1>2. ASSUME NEW b \in BatchIds, StatusRequest(t, b)
      PROVE  Inv' /\ RowsKeep
  <2>1. b \in 0 .. MaxBatches
    BY BoundsAssumption DEF BatchIds
  <2> QED
    BY <1>1, <1>2, <2>1, StatusReadKeepsInv DEF StatusRequest
<1> QED
  BY <1>1, <1>2, SweepFindKeepsInv, DetectFindKeepsInv, RunBatchKeepsInv DEF Request

LEMMA DetectStatusKeepsInv ==
    ASSUME Inv, NEW t \in Tasks, DetectStatus(t)
    PROVE  Inv' /\ RowsKeep
<1>1. task[t].batch \in 0 .. MaxBatches
  BY DEF Inv, TypeOK, Task
<1> QED
  BY <1>1, StatusReadKeepsInv DEF DetectStatus, Silent, envVars, Inv, TypeOK

LEMMA TaskStepKeepsInv ==
    ASSUME Inv, NEW t \in Tasks, TaskStep(t)
    PROVE  Inv' /\ RowsKeep
<1>1. ASSUME FailedCreate(t) \/ FailedMatch(t) \/ FailedLink(t)
      PROVE  Inv' /\ RowsKeep
  BY <1>1, FailedCreateKeepsInv, FailedMatchKeepsInv, FailedLinkKeepsInv
<1>2. ASSUME (\E e \in task[t].todo : AssessRead(t, e)) \/ AssessFind(t) \/ AssessCreate(t) \/ SweepEnd(t)
      PROVE  Inv' /\ RowsKeep
  BY <1>2, AssessReadKeepsInv, AssessFindKeepsInv, AssessCreateKeepsInv, SweepEndKeepsInv
<1>3. ASSUME CapturedWrite(t) \/ CapturedOrder(t) \/ PaidWrite(t) \/ CloseRead(t) \/ CloseTransaction(t)
      PROVE  Inv' /\ RowsKeep
  BY <1>3, CapturedWriteKeepsInv, CapturedOrderKeepsInv, PaidWriteKeepsInv, CloseReadKeepsInv,
     CloseTransactionKeepsInv
<1>4. ASSUME DetectCreate(t) \/ DetectClaim(t) \/ DetectStatus(t) \/ StatusWrite(t) \/ RunWrite(t)
      PROVE  Inv' /\ RowsKeep
  BY <1>4, DetectCreateKeepsInv, DetectClaimKeepsInv, DetectStatusKeepsInv, SetBatchKeepsInv
     DEF StatusWrite, RunWrite
<1> QED
  BY <1>1, <1>2, <1>3, <1>4 DEF TaskStep

LEMMA StutterKeepsInv ==
    ASSUME Inv, UNCHANGED vars
    PROVE  Inv' /\ RowsKeep
<1>1. UNCHANGED <<rowVars, runVars, rz, events, task>> /\ extras' \in Nat
  BY DEF vars, envVars, Inv, TypeOK
<1>2. RowsOK' /\ RowsKeep /\ RunsOK'
  BY <1>1, SameRows, SameRuns DEF Inv
<1> QED
  BY <1>1, <1>2, OtherKeepsInv

LEMMA NextKeepsInv == Inv /\ [Next]_vars => Inv' /\ RowsKeep
<1> SUFFICES ASSUME Inv, [Next]_vars
             PROVE  Inv' /\ RowsKeep
  OBVIOUS
<1>1. ASSUME NEW x \in Payments, Fail(x) \/ Capture(x)
      PROVE  Inv' /\ RowsKeep
  BY <1>1, FailKeepsInv, CaptureKeepsInv
<1>2. ASSUME NEW t \in Tasks, Delivery(t) \/ Request(t) \/ TaskStep(t)
      PROVE  Inv' /\ RowsKeep
  BY <1>2, DeliveryKeepsInv, RequestKeepsInv, TaskStepKeepsInv
<1>3. ASSUME NEW c \in CaseIds, JobCheck(c) \/ JobEscalate(c) \/ RunAct(c)
      PROVE  Inv' /\ RowsKeep
  BY <1>3, JobCheckKeepsInv, JobEscalateKeepsInv, RunActKeepsInv
<1>4. ASSUME NEW p \in Pools, NEW k \in Workers, PoolCheck(p, k) \/ PoolAct(p, k) \/ PoolRunEnd(p, k)
      PROVE  Inv' /\ RowsKeep
  BY <1>4, PoolCheckKeepsInv, PoolActKeepsInv, PoolRunEndKeepsInv
<1> QED
  BY <1>1, <1>2, <1>3, <1>4, RestartKeepsInv, StutterKeepsInv DEF Next

LEMMA InitInv == Init => Inv
<1> SUFFICES ASSUME Init PROVE Inv
  OBVIOUS
<1>1. PoolInv
  BY PoolInitInv DEF Init
<1>2. NoCase \in CaseRow /\ NoBatch \in BatchRow /\ IdleTask \in Task
  BY IdleFits, BoundsAssumption DEF NoCase, CaseRow, Statuses, NoBatch, BatchRow
<1>3. TypeOK
  BY <1>1, <1>2 DEF Init, TypeOK, PoolInv, BoundsAssumption
<1>4. RowsOK
  BY <1>3 DEF Init, TypeOK, RowsOK, RowTypes, NewIsFree, LinksAgree, EndIsTold, MoneyIsReal, NoCase, Terminal
<1>5. TasksFit
  BY DEF Init, TasksFit, Fits, FailureFits, MoneyFits, Starting, At, IdleTask
<1>6. Recorded /\ EventsHappened
  BY DEF Init, Recorded, FailureIsRecorded, MoneyIsRecorded, PaidAt, EventsHappened
<1> QED
  BY <1>1, <1>3, <1>4, <1>5, <1>6 DEF Inv

LEMMA Invariant == Spec => []Inv
BY InitInv, NextKeepsInv, PTL DEF Spec

\* The rows, the pools and the locals of every task keep their types.
THEOREM IntakeTypes == Spec => []TypeOK
<1>1. Inv => TypeOK
  BY DEF Inv
<1> QED
  BY <1>1, Invariant, PTL

\* A captured payment, a paid order and a recovered case rest on money Razorpay took.
THEOREM RecordedMoneyIsReal == Spec => []MoneyIsReal
<1>1. Inv => MoneyIsReal
  BY DEF Inv, RowsOK
<1> QED
  BY <1>1, Invariant, PTL

\* No failure is answered before there is a row for the payment.
THEOREM FailuresAreRecorded == Spec => []FailureIsRecorded
<1>1. Inv => FailureIsRecorded
  BY DEF Inv, Recorded
<1> QED
  BY <1>1, Invariant, PTL

\* No order.paid is answered before the order reads PAID.
THEOREM MoneyGetsRecorded == Spec => []MoneyIsRecorded
<1>1. Inv => MoneyIsRecorded
  BY DEF Inv, Recorded
<1> QED
  BY <1>1, Invariant, PTL

\* No step, and no late failure in particular, takes recorded money back.
THEOREM RecordedMoneyStays == Spec => MoneyStaysRecorded
<1>1. RowsKeep => /\ \A x \in Payments : payments[x] = "CAPTURED" => payments'[x] = "CAPTURED"
                  /\ \A o \in Orders : orders[o] = "PAID" => orders'[o] = "PAID"
                  /\ \A c \in CaseIds : cases[c].outcome => cases'[c].outcome
  BY DEF RowsKeep, MoneyKeeps, CasesKeep
<1> QED
  BY <1>1, Invariant, NextKeepsInv, PTL DEF Spec, MoneyStaysRecorded
=============================================================================
