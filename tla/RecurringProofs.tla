-------------------------- MODULE RecurringProofs --------------------------
(***************************************************************************)
(* Subscriptions and mandates, for any number of them, of deliveries and of*)
(* cases: no event that reports a failure is answered before a case is open*)
(* for it, no payment becomes two recoveries but by a repeated delivery,   *)
(* and the count of failures is off by the repetitions at most.            *)
(***************************************************************************)
EXTENDS Recurring, FiniteSetTheorems, TLAPS

(***************************************************************************)
(* The rows.                                                               *)
(***************************************************************************)
RowTypes == /\ subscription \in [Subscriptions -> SubscriptionRow]
            /\ mandate \in [Mandates -> MandateRow]
            /\ cases \in [CaseIds -> CaseRow]

\* A row that is not created yet belongs to nobody.
NewIsFree == \A c \in CaseIds : cases[c].status = "NONE" => cases[c].of = None

\* The history of a case names only what Razorpay has reported.
HistoryIsPast == \A c \in CaseIds :
    /\ cases[c].open \subseteq Reported({"pending", "halted", "rejected"})
    /\ cases[c].handed \subseteq Reported({"halted"})

\* The cases of a subscription or mandate go with it.
GoneTogether == \A e \in Entities : Deleted(e) =>
    \A c \in CaseIds : cases[c].of = e => cases[c].status = "DELETED"

FailuresShow == \A s \in Subscriptions :
    subscription[s].failed > 0 => subscription[s].status \in {"PAYMENT_FAILED", "DELETED"}

RowsOK == /\ RowTypes /\ sent \subseteq Event
          /\ NewIsFree /\ HistoryIsPast /\ GoneTogether /\ FailuresShow

\* What no step takes back.
RowsKeep ==
    /\ \A c \in CaseIds : cases[c].of # None =>
         /\ cases'[c].of = cases[c].of
         /\ OpenDuring(c) \subseteq OpenDuring(c)'
         /\ HandedDuring(c) \subseteq HandedDuring(c)'
    /\ \A e \in Entities : Deleted(e) => Deleted(e)'

LEMMA SameRows ==
    ASSUME RowsOK, UNCHANGED rowVars, sent \subseteq sent', sent' \subseteq Event
    PROVE  RowsOK' /\ RowsKeep
BY DEF RowsOK, RowTypes, NewIsFree, HistoryIsPast, GoneTogether, FailuresShow, RowsKeep, rowVars,
       Deleted, Reported, OpenDuring, HandedDuring

\* Cases that are not written keep their history too.
LEMMA SameCases ==
    ASSUME RowsOK, cases' = cases, sent' = sent
    PROVE  /\ HistoryIsPast' /\ sent' \subseteq Event
           /\ \A c \in CaseIds : OpenDuring(c)' = OpenDuring(c) /\ HandedDuring(c)' = HandedDuring(c)
BY DEF RowsOK, HistoryIsPast, Reported, OpenDuring, HandedDuring

LEMMA SubscriptionWrite ==
    ASSUME RowsOK, NEW s \in Subscriptions, ~Deleted(s), NEW r \in SubscriptionRow,
           r.status # "DELETED", r.failed > 0 => r.status = "PAYMENT_FAILED",
           SetSubscription(s, r), sent' = sent
    PROVE  RowsOK' /\ RowsKeep
<1>1. \A z \in Subscriptions : subscription'[z] = IF z = s THEN r ELSE subscription[z]
  BY DEF SetSubscription, RowsOK, RowTypes
<1>2. RowTypes' /\ cases' = cases /\ mandate' = mandate
  BY DEF SetSubscription, RowsOK, RowTypes
<1>3. \A e \in Entities : Deleted(e)' = Deleted(e)
  BY <1>1, <1>2 DEF Deleted, Entities
<1>4. FailuresShow'
  BY <1>1 DEF FailuresShow, RowsOK
<1>5. NewIsFree' /\ GoneTogether'
  BY <1>2, <1>3 DEF RowsOK, NewIsFree, GoneTogether
<1> QED
  BY <1>2, <1>3, <1>4, <1>5, SameCases DEF RowsOK, RowsKeep

LEMMA MandateWrite ==
    ASSUME RowsOK, NEW m \in Mandates, ~Deleted(m), NEW r \in MandateRow,
           r.status # "DELETED", SetMandate(m, r), sent' = sent
    PROVE  RowsOK' /\ RowsKeep
<1>1. \A z \in Mandates : mandate'[z] = IF z = m THEN r ELSE mandate[z]
  BY DEF SetMandate, RowsOK, RowTypes
<1>2. RowTypes' /\ cases' = cases /\ subscription' = subscription
  BY DEF SetMandate, RowsOK, RowTypes
<1>3. \A e \in Entities : Deleted(e)' = Deleted(e)
  BY <1>1, <1>2, EntitiesAssumption DEF Deleted, Entities
<1>4. NewIsFree' /\ GoneTogether' /\ FailuresShow'
  BY <1>2, <1>3 DEF RowsOK, NewIsFree, GoneTogether, FailuresShow
<1> QED
  BY <1>2, <1>3, <1>4, SameCases DEF RowsOK, RowsKeep

\* What the row says of the past, unless its status says it.
KeepsHistory(r, c) ==
    /\ r.open \subseteq OpenDuring(c) /\ r.handed \subseteq HandedDuring(c)
    /\ r.status \notin Active => r.open = OpenDuring(c)
    /\ r.status # "ESCALATED" => r.handed = HandedDuring(c)

\* Every write of a case's status takes its history along.
LEMMA WrittenRow ==
    ASSUME RowsOK, NEW c \in CaseIds,
           NEW s \in Active \cup {"RECOVERED", "EXHAUSTED", "DELETED"}
    PROVE  /\ Written(c, s) \in CaseRow
           /\ Written(c, s).of = cases[c].of /\ Written(c, s).outcome = cases[c].outcome
           /\ Written(c, s).status = s
           /\ KeepsHistory(Written(c, s), c)
           /\ OpenDuring(c) \subseteq Reported({"pending", "halted", "rejected"})
           /\ HandedDuring(c) \subseteq Reported({"halted"})
<1>1. cases[c] \in CaseRow
  BY DEF RowsOK, RowTypes
<1>2. /\ OpenDuring(c) \subseteq Reported({"pending", "halted", "rejected"})
      /\ HandedDuring(c) \subseteq Reported({"halted"})
  BY DEF RowsOK, HistoryIsPast, OpenDuring, HandedDuring
<1>3. OpenDuring(c) \in SUBSET Event /\ HandedDuring(c) \in SUBSET Event
  BY <1>2 DEF Reported, RowsOK
<1> QED
  BY <1>1, <1>2, <1>3 DEF Written, CaseRow, KeepsHistory

\* A row with the history of the one it replaces.
Continues(r, c) == r.of = cases[c].of /\ r.status # "NONE" /\ KeepsHistory(r, c)

LEMMA HistoryStays ==
    ASSUME RowsOK, sent' = sent, NEW c \in CaseIds, Continues(cases'[c], c) \/ cases'[c] = cases[c]
    PROVE  /\ OpenDuring(c) \subseteq OpenDuring(c)' /\ HandedDuring(c) \subseteq HandedDuring(c)'
           /\ cases'[c].open \subseteq Reported({"pending", "halted", "rejected"})'
           /\ cases'[c].handed \subseteq Reported({"halted"})'
<1>1. /\ OpenDuring(c) \subseteq Reported({"pending", "halted", "rejected"})
      /\ HandedDuring(c) \subseteq Reported({"halted"})
  BY WrittenRow DEF Active
<1>2. \A types : Reported(types)' = Reported(types)
  BY DEF Reported
<1>3. CASE cases'[c] = cases[c]
  BY <1>2, <1>3 DEF RowsOK, HistoryIsPast, OpenDuring, HandedDuring
<1>4. CASE Continues(cases'[c], c)
  <2>1. KeepsHistory(cases'[c], c)
    BY <1>4 DEF Continues
  <2> QED
    BY <1>1, <1>2, <2>1 DEF KeepsHistory, OpenDuring, HandedDuring
<1> QED
  BY <1>3, <1>4

LEMMA CaseWrite ==
    ASSUME RowsOK, NEW c \in CaseIds, cases[c].status # "DELETED", NEW r \in CaseRow,
           Continues(r, c), SetCase(c, r), sent' = sent
    PROVE  RowsOK' /\ RowsKeep
<1>1. \A d \in CaseIds : cases'[d] = IF d = c THEN r ELSE cases[d]
  BY DEF SetCase, RowsOK, RowTypes
<1>2. RowTypes' /\ subscription' = subscription /\ mandate' = mandate
  BY DEF SetCase, RowsOK, RowTypes
<1>3. \A e \in Entities : Deleted(e)' = Deleted(e)
  BY <1>2 DEF Deleted
<1>4. NewIsFree' /\ GoneTogether' /\ FailuresShow'
  BY <1>1, <1>2, <1>3 DEF RowsOK, NewIsFree, GoneTogether, FailuresShow, Continues
<1>5. \A d \in CaseIds : Continues(cases'[d], d) \/ cases'[d] = cases[d]
  BY <1>1
<1>6. HistoryIsPast'
  BY <1>5, HistoryStays DEF HistoryIsPast
<1>7. \A d \in CaseIds : cases[d].of # None => cases'[d].of = cases[d].of
  BY <1>1 DEF Continues
<1>8. \A d \in CaseIds : /\ OpenDuring(d) \subseteq OpenDuring(d)'
                         /\ HandedDuring(d) \subseteq HandedDuring(d)'
  BY <1>5, HistoryStays
<1> QED
  BY <1>2, <1>3, <1>4, <1>6, <1>7, <1>8 DEF RowsOK, RowsKeep

LEMMA CaseAdd ==
    ASSUME RowsOK, NEW c \in CaseIds, cases[c].status = "NONE", NEW e \in Entities, ~Deleted(e),
           SetCase(c, [NoCase EXCEPT !.of = e, !.status = "ELIGIBLE"]), sent' = sent
    PROVE  RowsOK' /\ RowsKeep /\ cases'[c].of = e /\ cases'[c].status = "ELIGIBLE"
<1> DEFINE r == [NoCase EXCEPT !.of = e, !.status = "ELIGIBLE"]
<1>0. r \in CaseRow /\ r.of = e /\ r.status = "ELIGIBLE" /\ r.open = {} /\ r.handed = {}
  BY DEF NoCase, CaseRow, Active
<1> HIDE DEF r
<1>1. \A d \in CaseIds : cases'[d] = IF d = c THEN r ELSE cases[d]
  BY DEF SetCase, RowsOK, RowTypes, r
<1>2. RowTypes' /\ subscription' = subscription /\ mandate' = mandate
  BY <1>0 DEF SetCase, RowsOK, RowTypes, r
<1>3. \A d \in Entities : Deleted(d)' = Deleted(d)
  BY <1>2 DEF Deleted
<1>4. NewIsFree' /\ GoneTogether' /\ FailuresShow'
  BY <1>0, <1>1, <1>2, <1>3 DEF RowsOK, NewIsFree, GoneTogether, FailuresShow
<1>5. cases[c].of = None
  BY DEF RowsOK, NewIsFree
<1>6. ASSUME NEW d \in CaseIds, d # c
      PROVE  /\ OpenDuring(d) \subseteq OpenDuring(d)' /\ HandedDuring(d) \subseteq HandedDuring(d)'
             /\ cases'[d].open \subseteq Reported({"pending", "halted", "rejected"})'
             /\ cases'[d].handed \subseteq Reported({"halted"})'
  BY <1>1, <1>6, HistoryStays
<1>7. HistoryIsPast'
  BY <1>0, <1>1, <1>6 DEF HistoryIsPast
<1>8. \A d \in CaseIds : cases[d].of # None =>
        /\ cases'[d].of = cases[d].of
        /\ OpenDuring(d) \subseteq OpenDuring(d)' /\ HandedDuring(d) \subseteq HandedDuring(d)'
  BY <1>1, <1>5, <1>6
<1> QED
  BY <1>0, <1>1, <1>2, <1>3, <1>4, <1>7, <1>8 DEF RowsOK, RowsKeep

LEMMA ResetRow ==
    ASSUME RowsOK, NEW s \in Subscriptions
    PROVE  Reset(s) \in SubscriptionRow /\ Reset(s).status = "ACTIVE" /\ Reset(s).failed = 0
<1>1. subscription[s] \in SubscriptionRow
  BY DEF RowsOK, RowTypes
<1> QED
  BY <1>1 DEF Reset, SubscriptionRow

LEMMA CaseClose ==
    ASSUME RowsOK, NEW c \in CaseIds, cases[c].status # "DELETED",
           cases' = Recovered(c), UNCHANGED <<sent, mandate>>,
           subscription' = [subscription EXCEPT ![cases[c].of] = Reset(cases[c].of)]
    PROVE  RowsOK' /\ RowsKeep
<1> DEFINE s == cases[c].of
<1>0. PICK w : w = Written(c, "RECOVERED")
  OBVIOUS
<1>w. PICK r : r = [w EXCEPT !.outcome = TRUE]
  OBVIOUS
<1>1. \A d \in CaseIds : cases'[d] = IF d = c THEN r ELSE cases[d]
  BY <1>0, <1>w DEF Recovered, RowsOK, RowTypes
<1>2. r \in CaseRow /\ Continues(r, c) /\ r.status = "RECOVERED"
  <2>1. /\ w \in CaseRow /\ w.of = cases[c].of /\ w.status = "RECOVERED"
        /\ KeepsHistory(w, c)
    BY <1>0, WrittenRow
  <2> QED
    BY <1>w, <2>1 DEF CaseRow, Continues, KeepsHistory
<1>3. \A z \in Subscriptions : subscription'[z] = IF z = s THEN Reset(s) ELSE subscription[z]
  BY DEF RowsOK, RowTypes
<1>4. RowTypes'
  <2>1. cases' \in [CaseIds -> CaseRow]
    <3>1. cases' = [d \in CaseIds |-> cases'[d]]
      BY DEF Recovered, RowsOK, RowTypes
    <3>2. \A d \in CaseIds : cases'[d] \in CaseRow
      BY <1>1, <1>2 DEF RowsOK, RowTypes
    <3> QED
      BY <3>1, <3>2
  <2>2. subscription' \in [Subscriptions -> SubscriptionRow]
    BY ResetRow DEF RowsOK, RowTypes
  <2> QED
    BY <2>1, <2>2 DEF RowsOK, RowTypes
<1>5. \A d \in CaseIds : /\ cases'[d].of = cases[d].of
                         /\ Continues(cases'[d], d) \/ cases'[d] = cases[d]
                         /\ cases'[d].status = IF d = c THEN "RECOVERED" ELSE cases[d].status
  BY <1>1, <1>2 DEF Continues
<1>6. s \in Subscriptions => ~Deleted(s)
  BY DEF RowsOK, GoneTogether, Entities
<1>7. \A e \in Entities : Deleted(e)' = Deleted(e)
  <2> SUFFICES ASSUME NEW e \in Entities
               PROVE  Deleted(e)' = Deleted(e)
    OBVIOUS
  <2>1. CASE e \in Subscriptions /\ e = s
    BY <1>3, <1>6, <2>1, ResetRow DEF Deleted
  <2>2. CASE e \in Subscriptions /\ e # s
    BY <1>3, <2>2 DEF Deleted
  <2>3. CASE e \notin Subscriptions
    BY <2>3 DEF Deleted
  <2> QED
    BY <2>1, <2>2, <2>3
<1>8. FailuresShow' /\ HistoryIsPast'
  BY <1>3, <1>5, ResetRow, HistoryStays DEF FailuresShow, HistoryIsPast, RowsOK
<1>9. NewIsFree' /\ GoneTogether'
  BY <1>5, <1>7 DEF RowsOK, NewIsFree, GoneTogether
<1> QED
  BY <1>4, <1>5, <1>7, <1>8, <1>9, HistoryStays DEF RowsOK, RowsKeep

LEMMA DeleteRows ==
    ASSUME RowsOK, NEW e \in Entities, Delete(e)
    PROVE  RowsOK' /\ RowsKeep
<1>1. \A d \in CaseIds : cases'[d] = IF cases[d].of = e THEN Written(d, "DELETED") ELSE cases[d]
  BY DEF Delete, WithoutCases
<1>2. \A d \in CaseIds : cases[d] \in CaseRow /\ Written(d, "DELETED") \in CaseRow
  BY WrittenRow DEF RowsOK, RowTypes
<1>3. cases' \in [CaseIds -> CaseRow] /\ sent' = sent
  BY <1>2 DEF Delete, WithoutCases
<1>4. \A d \in CaseIds : /\ cases'[d].of = cases[d].of
                         /\ Continues(cases'[d], d) \/ cases'[d] = cases[d]
                         /\ cases'[d].status = IF cases[d].of = e THEN "DELETED" ELSE cases[d].status
  BY <1>1, WrittenRow DEF Continues
<1>h. /\ HistoryIsPast' /\ sent' \subseteq Event
      /\ \A d \in CaseIds : /\ OpenDuring(d) \subseteq OpenDuring(d)'
                           /\ HandedDuring(d) \subseteq HandedDuring(d)'
  BY <1>3, <1>4, HistoryStays DEF HistoryIsPast, RowsOK
<1>5. CASE e \in Subscriptions
  <2>1. /\ subscription' = [subscription EXCEPT ![e].status = "DELETED"] /\ mandate' = mandate
    BY <1>5 DEF Delete
  <2>2. \A z \in Subscriptions :
          subscription'[z] = IF z = e THEN [subscription[z] EXCEPT !.status = "DELETED"] ELSE subscription[z]
    BY <2>1 DEF RowsOK, RowTypes
  <2>3. \A z \in Subscriptions : [subscription[z] EXCEPT !.status = "DELETED"] \in SubscriptionRow
                                 /\ [subscription[z] EXCEPT !.status = "DELETED"].status = "DELETED"
    BY DEF RowsOK, RowTypes, SubscriptionRow
  <2>4. RowTypes'
    BY <1>3, <2>1, <2>3 DEF RowsOK, RowTypes
  <2>5. \A d \in Entities : Deleted(d)' = (d = e \/ Deleted(d))
    BY <1>5, <2>1, <2>2, <2>3 DEF Deleted
  <2>6. FailuresShow'
    BY <2>2, <2>3 DEF FailuresShow, RowsOK
  <2>7. NewIsFree'
    BY <1>4, EntitiesAssumption DEF RowsOK, NewIsFree, Entities
  <2>8. GoneTogether'
    BY <1>4, <2>5 DEF RowsOK, GoneTogether
  <2> QED
    BY <1>4, <1>h, <2>4, <2>5, <2>6, <2>7, <2>8 DEF RowsOK, RowsKeep
<1>6. CASE e \in Mandates /\ e \notin Subscriptions
  <2>1. /\ mandate' = [mandate EXCEPT ![e].status = "DELETED"] /\ subscription' = subscription
    BY <1>6 DEF Delete
  <2>2. \A z \in Mandates :
          mandate'[z] = IF z = e THEN [mandate[z] EXCEPT !.status = "DELETED"] ELSE mandate[z]
    BY <2>1 DEF RowsOK, RowTypes
  <2>3. \A z \in Mandates : [mandate[z] EXCEPT !.status = "DELETED"] \in MandateRow
                            /\ [mandate[z] EXCEPT !.status = "DELETED"].status = "DELETED"
    BY DEF RowsOK, RowTypes, MandateRow
  <2>4. RowTypes'
    BY <1>3, <2>1, <2>3 DEF RowsOK, RowTypes
  <2>5. \A d \in Entities : Deleted(d)' = (d = e \/ Deleted(d))
    BY <1>6, <2>1, <2>2, <2>3 DEF Deleted, Entities
  <2>6. FailuresShow'
    BY <2>1 DEF FailuresShow, RowsOK
  <2>7. NewIsFree'
    BY <1>4, EntitiesAssumption DEF RowsOK, NewIsFree, Entities
  <2>8. GoneTogether'
    BY <1>4, <2>5 DEF RowsOK, GoneTogether
  <2> QED
    BY <1>4, <1>h, <2>4, <2>5, <2>6, <2>7, <2>8 DEF RowsOK, RowsKeep
<1> QED
  BY <1>5, <1>6 DEF Entities

(***************************************************************************)
(* Events and deliveries.                                                  *)
(***************************************************************************)
Failures == {"pending", "halted", "rejected"}
Assessed == Failures \cup {"paused", "cancelled"}

LEMMA EventTypes ==
    ASSUME NEW e \in Event
    PROVE  /\ e.type \in {"pending", "halted", "charged"} => e.of \in Subscriptions
           /\ e.type \in {"confirmed", "rejected", "paused", "cancelled"} => e.of \in Mandates
           /\ e.type = "link" => e.of \in CaseIds
           /\ e.type \in Assessed \cup {"charged", "confirmed", "link"}
           /\ e.type # "link" => Owner(e) = e.of /\ e.of \in Entities
<1>1. CASE e \in Billing
  BY <1>1 DEF Billing, Entities, Owner, Assessed, Failures
<1>2. CASE e \in Tokens
  BY <1>2 DEF Tokens, Entities, Owner, Assessed, Failures
<1>3. CASE e \in Links
  BY <1>3 DEF Links, Assessed, Failures
<1> QED
  BY <1>1, <1>2, <1>3 DEF Event

\* What the local variables of a delivery say, against the cases of a table.
Fits(k, table) ==
    /\ k.pc # "idle" => k.event \in sent
    /\ k.pc = "s_write" => k.event.type \in {"pending", "halted"}
    /\ k.pc = "t_write" => k.event.type \in {"confirmed", "rejected", "paused", "cancelled"}
    /\ k.pc \in {"a_find", "a_create"} => k.event.type \in Assessed
    /\ k.pc \in {"c_find", "c_reset"} => k.event.type = "charged"
    /\ k.pc \in {"h_read", "h_tx"} => k.event.type \in {"charged", "link"} /\ k.case \in CaseIds
    /\ k.pc = "u_find" => k.event.type = "halted"
    /\ k.pc = "u_escalate" => /\ k.event.type = "halted" /\ k.case \in CaseIds
                              /\ table[k.case].of = k.event.of

TasksFit == \A t \in Tasks : Fits(task[t], cases)

HasCase(e)    == Deleted(e.of) \/ \E c \in CaseIds : cases[c].of = e.of /\ e \in OpenDuring(c)
HandedOver(e) == Deleted(e.of) \/ \E c \in CaseIds : cases[c].of = e.of /\ e \in HandedDuring(c)

Inv == /\ TypeOK /\ IsFiniteSet(sent)
       /\ RowsOK /\ TasksFit
       /\ FailureHasCase /\ HaltIsEscalated

\* A task's fit outlasts what the rows go through.
LEMMA FitStays ==
    ASSUME Inv, RowsKeep, NEW t \in Tasks
    PROVE  Fits(task[t], cases')
<1>1. Fits(task[t], cases)
  BY DEF Inv, TasksFit
<1>2. task[t].pc = "u_escalate" => cases'[task[t].case].of = task[t].event.of
  <2> SUFFICES ASSUME task[t].pc = "u_escalate"
               PROVE  cases'[task[t].case].of = task[t].event.of
    OBVIOUS
  <2>1. task[t].event \in Event /\ task[t].event.type = "halted"
    BY <1>1 DEF Fits, Inv, TypeOK
  <2>2. task[t].event.of # None
    BY <2>1, EventTypes, EntitiesAssumption
  <2> QED
    BY <1>1, <2>2 DEF Fits, RowsKeep
<1> QED
  BY <1>1, <1>2 DEF Fits

LEMMA BecomeFits ==
    ASSUME Inv, RowsKeep, sent' = sent, NEW t \in Tasks, NEW r, Become(t, r), Fits(r, cases')
    PROVE  TasksFit'
<1>1. \A u \in Tasks : task'[u] = IF u = t THEN r ELSE task[u]
  BY DEF Become, Inv, TypeOK
<1>2. \A u \in Tasks : Fits(task[u], cases')
  BY FitStays
<1>3. ASSUME NEW u \in Tasks
      PROVE  Fits(task[u], cases)'
  <2>1. CASE u = t
    BY <1>1, <2>1 DEF Fits
  <2>2. CASE u # t
    BY <1>1, <1>2, <2>2 DEF Fits
  <2> QED
    BY <2>1, <2>2
<1> QED
  BY <1>3 DEF TasksFit

LEMMA IdleFits ==
    ASSUME NEW table
    PROVE  Fits(IdleTask, table) /\ IdleTask \in Task
BY BoundsAssumption DEF Fits, IdleTask, Task, Pcs

\* What is answered stays answered, and what it led to stays.
LEMMA HasCaseStays ==
    ASSUME RowsOK, RowsKeep, NEW e, e.of \in Entities
    PROVE  /\ HasCase(e) => HasCase(e)'
           /\ HandedOver(e) => HandedOver(e)'
<1>1. Deleted(e.of) => Deleted(e.of)'
  BY DEF RowsKeep
<1>2. e.of # None
  BY EntitiesAssumption DEF Entities
<1>3. ASSUME NEW c \in CaseIds, cases[c].of = e.of
      PROVE  /\ cases'[c].of = e.of /\ OpenDuring(c) \subseteq OpenDuring(c)'
             /\ HandedDuring(c) \subseteq HandedDuring(c)'
  BY <1>2, <1>3 DEF RowsKeep
<1>4. HasCase(e) => HasCase(e)'
  BY <1>1, <1>3 DEF HasCase
<1>5. HandedOver(e) => HandedOver(e)'
  BY <1>1, <1>3 DEF HandedOver
<1> QED
  BY <1>4, <1>5

\* The promises of the answers, said of one event.
Settled(e) == /\ e.type \in Failures => HasCase(e)
              /\ e.type = "halted" => HandedOver(e)

LEMMA AnswersSettled ==
    ASSUME FailureHasCase, HaltIsEscalated, NEW e \in sent \ events
    PROVE  Settled(e)
BY DEF FailureHasCase, HaltIsEscalated, Settled, Failures, Answered, HasCase, HandedOver

LEMMA AnswersSettledNext ==
    ASSUME \A e \in sent' \ events' : Settled(e)'
    PROVE  FailureHasCase' /\ HaltIsEscalated'
BY DEF FailureHasCase, HaltIsEscalated, Settled, Failures, Answered, HasCase, HandedOver

LEMMA SettledStays ==
    ASSUME Inv, RowsKeep, NEW e \in sent \ events
    PROVE  Settled(e)'
<1>1. Settled(e) /\ e \in Event
  BY AnswersSettled DEF Inv, TypeOK
<1>2. e.type \in Failures => e.of \in Entities
  BY <1>1, EventTypes DEF Failures, Assessed
<1> QED
  BY <1>1, <1>2, HasCaseStays DEF Inv, Settled, Failures

\* A failure is settled by a case that is active, a halt by one in a human's hands.
LEMMA SettledBy ==
    ASSUME NEW e \in sent', NEW c \in CaseIds, cases'[c].of = e.of, cases'[c].status \in Active,
           e.type = "halted" => cases'[c].status = "ESCALATED"
    PROVE  Settled(e)'
<1>1. e.type \in Failures => e \in OpenDuring(c)'
  BY DEF Failures, OpenDuring, Reported
<1>2. e.type = "halted" => e \in HandedDuring(c)'
  BY DEF HandedDuring, Reported
<1> QED
  BY <1>1, <1>2 DEF Settled, HasCase, HandedOver

\* Types of a step that keeps what Razorpay has sent.
LEMMA AnswerType ==
    ASSUME Inv, RowsOK', RowsKeep, NEW t \in Tasks, Answer(t), acting' \subseteq CaseIds,
           NEW a, a = task[t].event, Settled(a)'
    PROVE  Inv' /\ RowsKeep
<1>1. /\ events' = events \ {task[t].event} /\ sent' = sent /\ extras' = extras
      /\ Become(t, IdleTask)
  BY DEF Answer
<1>2. TypeOK'
  BY <1>1, IdleFits DEF Inv, TypeOK, RowsOK, RowTypes, Become
<1>3. TasksFit'
  BY <1>1, IdleFits, BecomeFits
<1>4. ASSUME NEW e \in sent' \ events'
      PROVE  Settled(e)'
  <2>1. CASE e = a
    BY <2>1
  <2>2. CASE e # a
    <3>1. e \in sent \ events
      BY <1>1, <2>2
    <3> QED
      BY <3>1, SettledStays
  <2> QED
    BY <2>1, <2>2
<1>5. FailureHasCase' /\ HaltIsEscalated'
  BY <1>4, AnswersSettledNext
<1> QED
  BY <1>1, <1>2, <1>3, <1>5 DEF Inv

LEMMA MoveType ==
    ASSUME Inv, RowsOK', RowsKeep, NEW t \in Tasks, NEW r, Become(t, r), r \in Task,
           Fits(r, cases'), sent' = sent, events' = events, extras' \in Nat, acting' \subseteq CaseIds
    PROVE  Inv' /\ RowsKeep
<1>1. TypeOK'
  BY DEF Inv, TypeOK, RowsOK, RowTypes, Become
<1>2. TasksFit'
  BY BecomeFits
<1>3. \A e \in sent' \ events' : Settled(e)'
  BY SettledStays
<1>4. FailureHasCase' /\ HaltIsEscalated'
  BY <1>3, AnswersSettledNext
<1> QED
  BY <1>1, <1>2, <1>4 DEF Inv

LEMMA ThrowType ==
    ASSUME Inv, NEW t \in Tasks, Throw(t)
    PROVE  Inv' /\ RowsKeep
<1>1. RowsOK' /\ RowsKeep
  BY SameRows DEF Throw, Inv, TypeOK, envVars
<1>2. Become(t, IdleTask) /\ sent' = sent /\ events' = events /\ extras' = extras /\ acting' = acting
  BY DEF Throw, envVars
<1> QED
  BY <1>1, <1>2, IdleFits, MoveType DEF Inv, TypeOK

\* A step that no delivery takes.
LEMMA OtherKeepsInv ==
    ASSUME Inv, RowsOK', RowsKeep, sent' = sent, events' = events, extras' \in Nat,
           acting' \subseteq CaseIds,
           task' = task \/ task' = [t \in Tasks |-> IdleTask]
    PROVE  Inv' /\ RowsKeep
<1>1. TypeOK'
  BY IdleFits DEF Inv, TypeOK, RowsOK, RowTypes
<1>2. TasksFit'
  <2>1. CASE task' = task
    <3>1. \A t \in Tasks : Fits(task[t], cases')
      BY FitStays
    <3> QED
      BY <2>1, <3>1 DEF TasksFit, Fits
  <2>2. CASE task' = [t \in Tasks |-> IdleTask]
    <3>1. Fits(IdleTask, cases')
      BY IdleFits
    <3> QED
      BY <2>2, <3>1 DEF TasksFit, Fits, IdleTask
  <2> QED
    BY <2>1, <2>2
<1>3. \A e \in sent' \ events' : Settled(e)'
  BY SettledStays
<1>4. FailureHasCase' /\ HaltIsEscalated'
  BY <1>3, AnswersSettledNext
<1> QED
  BY <1>1, <1>2, <1>4 DEF Inv

\* The two ways a delivery moves on.
LEMMA GotoKeepsInv ==
    ASSUME Inv, RowsOK', RowsKeep, NEW t \in Tasks, NEW pc, Goto(t, pc), UNCHANGED envVars,
           acting' \subseteq CaseIds, task[t].pc # "idle",
           \/ pc \in {"a_find", "a_create"} /\ task[t].event.type \in Assessed
           \/ pc = "u_find" /\ task[t].event.type = "halted"
           \/ pc = "c_reset" /\ task[t].event.type = "charged"
           \/ pc = "h_tx" /\ task[t].event.type \in {"charged", "link"} /\ task[t].case \in CaseIds
    PROVE  Inv' /\ RowsKeep
<1> DEFINE k == [task[t] EXCEPT !.pc = pc]
<1>1. task[t] \in Task /\ Fits(task[t], cases)
  BY DEF Inv, TypeOK, TasksFit
<1>2. k.pc = pc /\ k.event = task[t].event /\ k.case = task[t].case /\ k \in Task
  BY <1>1 DEF Task, Pcs
<1>3. Become(t, k) /\ sent' = sent /\ events' = events /\ extras' \in Nat
  BY DEF Goto, envVars, Inv, TypeOK
<1> HIDE DEF k
<1>4. Fits(k, cases')
  BY <1>1, <1>2 DEF Fits
<1> QED
  BY <1>2, <1>3, <1>4, MoveType

LEMMA WithKeepsInv ==
    ASSUME Inv, RowsOK', RowsKeep, NEW t \in Tasks, NEW c \in CaseIds, NEW pc, With(t, pc, c),
           UNCHANGED envVars, acting' \subseteq CaseIds, task[t].pc # "idle",
           \/ pc = "h_read" /\ task[t].event.type = "charged"
           \/ pc = "u_escalate" /\ task[t].event.type = "halted" /\ cases'[c].of = task[t].event.of
    PROVE  Inv' /\ RowsKeep
<1> DEFINE k == [task[t] EXCEPT !.pc = pc, !.case = c]
<1>1. task[t] \in Task /\ Fits(task[t], cases)
  BY DEF Inv, TypeOK, TasksFit
<1>2. c \in 0 .. MaxCases /\ pc \in Pcs
  BY BoundsAssumption DEF CaseIds, Pcs
<1>3. k.pc = pc /\ k.event = task[t].event /\ k.case = c /\ k \in Task
  BY <1>1, <1>2 DEF Task
<1>4. Become(t, k) /\ sent' = sent /\ events' = events /\ extras' \in Nat
  BY DEF With, envVars, Inv, TypeOK
<1> HIDE DEF k
<1>5. Fits(k, cases')
  BY <1>1, <1>3 DEF Fits
<1> QED
  BY <1>3, <1>4, <1>5, MoveType

\* What is known of a delivery at work.
LEMMA AtWork ==
    ASSUME Inv, NEW t \in Tasks, task[t].pc # "idle"
    PROVE  /\ Fits(task[t], cases) /\ task[t].event \in Event
           /\ task[t].event.type # "link" => EntityOf(t) = task[t].event.of
                                             /\ task[t].event.of \in Entities
           /\ task[t].event.type \in {"pending", "halted", "charged"}
                => task[t].event.of \in Subscriptions
           /\ task[t].event.type \in {"confirmed", "rejected", "paused", "cancelled"}
                => task[t].event.of \in Mandates
<1>1. Fits(task[t], cases)
  BY DEF Inv, TasksFit
<1>2. task[t].event \in Event
  BY <1>1 DEF Fits, Inv, TypeOK
<1> QED
  BY <1>1, <1>2, EventTypes DEF EntityOf

(***************************************************************************)
(* The steps of a delivery.                                                *)
(***************************************************************************)
LEMMA FailureWriteKeepsInv ==
    ASSUME Inv, NEW t \in Tasks, FailureWrite(t)
    PROVE  Inv' /\ RowsKeep
<1> DEFINE s == EntityOf(t)
           r == Failing(t, subscription[s])
<1>0. task[t].pc = "s_write"
  BY DEF FailureWrite, At
<1>1. /\ task[t].event.type \in {"pending", "halted"}
      /\ s \in Subscriptions
  BY <1>0, AtWork DEF Fits
<1>2. subscription[s] \in SubscriptionRow
  BY <1>1 DEF Inv, RowsOK, RowTypes
<1>3. r \in SubscriptionRow /\ r.status = "PAYMENT_FAILED"
  <2>1. subscription[s].failed + (IF Is(t, "pending") THEN 1 ELSE 0) \in Nat
    BY <1>2 DEF SubscriptionRow
  <2> QED
    BY <2>1 DEF Failing, SubscriptionRow
<1>4. CASE Throw(t)
  BY <1>4, ThrowType
<1>5. CASE ~Deleted(s) /\ SetSubscription(s, r) /\ UNCHANGED <<envVars, acting>>
           /\ Goto(t, IF Is(t, "pending") THEN "a_find" ELSE "u_find")
  <2> HIDE DEF r, s
  <2>1. RowsOK' /\ RowsKeep
    BY <1>1, <1>3, <1>5, SubscriptionWrite DEF Inv, envVars
  <2>2. CASE Is(t, "pending")
    BY <1>0, <1>5, <2>1, <2>2, GotoKeepsInv DEF Is, Assessed, Failures, Inv, TypeOK
  <2>3. CASE ~Is(t, "pending")
    BY <1>0, <1>1, <1>5, <2>1, <2>3, GotoKeepsInv DEF Is, Inv, TypeOK
  <2> QED
    BY <2>2, <2>3
<1> QED
  BY <1>4, <1>5 DEF FailureWrite

LEMMA EscalateKeepsInv ==
    ASSUME Inv, NEW t \in Tasks, task[t].pc # "idle", task[t].event.type = "halted",
           NEW c \in CaseIds, cases[c].of = task[t].event.of, UNCHANGED <<rowVars, acting>>,
           Escalate(t, c)
    PROVE  Inv' /\ RowsKeep
<1>0. sent' = sent
  BY DEF Escalate, Answer, envVars
<1>1. RowsOK' /\ RowsKeep /\ cases' = cases /\ acting' \subseteq CaseIds
  BY <1>0, SameRows DEF Inv, TypeOK, rowVars
<1>2. CASE cases[c].status = "ESCALATED" /\ Answer(t)
  <2>1. PICK a : a = task[t].event
    OBVIOUS
  <2>2. a \in sent' /\ cases'[c].of = a.of /\ cases'[c].status = "ESCALATED"
    BY <1>0, <1>1, <1>2, <2>1, AtWork DEF Fits
  <2>3. Settled(a)'
    BY <2>2, SettledBy DEF Active
  <2> QED
    BY <1>1, <1>2, <2>1, <2>3, AnswerType
<1>3. CASE With(t, "u_escalate", c) /\ UNCHANGED envVars
  BY <1>1, <1>3, WithKeepsInv
<1> QED
  BY <1>2, <1>3 DEF Escalate

LEMMA HaltedFindKeepsInv ==
    ASSUME Inv, NEW t \in Tasks, HaltedFind(t)
    PROVE  Inv' /\ RowsKeep
<1>0. task[t].pc = "u_find" /\ UNCHANGED <<rowVars, acting, sent>>
  BY DEF HaltedFind, At, Escalate, Answer, envVars
<1>1. task[t].event.type = "halted" /\ EntityOf(t) = task[t].event.of
  BY <1>0, AtWork DEF Fits
<1>2. CASE \E c \in CasesOf(EntityOf(t)) : Escalate(t, c)
  BY <1>0, <1>1, <1>2, EscalateKeepsInv DEF CasesOf
<1>3. CASE Goto(t, "a_find") /\ UNCHANGED envVars
  <2>1. RowsOK' /\ RowsKeep /\ acting' \subseteq CaseIds
    BY <1>0, SameRows DEF Inv, TypeOK
  <2> QED
    BY <1>0, <1>1, <1>3, <2>1, GotoKeepsInv DEF Assessed, Failures
<1> QED
  BY <1>2, <1>3 DEF HaltedFind

LEMMA HaltedEscalateKeepsInv ==
    ASSUME Inv, NEW t \in Tasks, HaltedEscalate(t)
    PROVE  Inv' /\ RowsKeep
<1>0. task[t].pc = "u_escalate"
  BY DEF HaltedEscalate, At
<1> DEFINE c == task[t].case
           r == Escalated(c)
<1>1. /\ task[t].event.type = "halted" /\ c \in CaseIds /\ cases[c].of = task[t].event.of
  BY <1>0, AtWork DEF Fits
<1>2. cases[c] \in CaseRow
  BY <1>1 DEF Inv, RowsOK, RowTypes
<1>3. r \in CaseRow /\ Continues(r, c) /\ r.status = "ESCALATED" /\ r.of = cases[c].of
  BY <1>1, WrittenRow DEF Escalated, Continues, Active, Inv
<1>4. CASE Throw(t)
  BY <1>4, ThrowType
<1>5. CASE cases[c].status # "DELETED" /\ SetCase(c, r) /\ Answer(t) /\ UNCHANGED acting
  <2> HIDE DEF r, c
  <2>0. sent' = sent
    BY <1>5 DEF Answer
  <2>1. RowsOK' /\ RowsKeep
    BY <1>1, <1>3, <1>5, <2>0, CaseWrite DEF Inv
  <2>2. cases'[c] = r
    BY <1>1, <1>5 DEF SetCase, Inv, TypeOK
  <2>3. PICK a : a = task[t].event
    OBVIOUS
  <2>4. a \in sent'
    BY <1>0, <2>0, <2>3, AtWork DEF Fits
  <2>5. Settled(a)'
    BY <1>1, <1>3, <2>2, <2>3, <2>4, SettledBy DEF Active
  <2> QED
    BY <1>5, <2>1, <2>3, <2>5, AnswerType DEF Inv, TypeOK
<1> QED
  BY <1>4, <1>5 DEF HaltedEscalate

LEMMA AssessedKeepsInv ==
    ASSUME Inv, RowsOK', RowsKeep, NEW t \in Tasks, task[t].pc # "idle", NEW c \in CaseIds,
           task[t].event.type \in Assessed, cases'[c].of = task[t].event.of,
           cases'[c].status \in Active,
           NEW fresh \in BOOLEAN, ~fresh => UNCHANGED rowVars, AssessedAs(t, c, fresh)
    PROVE  Inv' /\ RowsKeep
<1>1. CASE Is(t, "halted") /\ fresh
  BY <1>1, WithKeepsInv DEF AssessedAs, Is, Inv, TypeOK
<1>2. CASE Is(t, "halted") /\ ~fresh
  BY <1>2, EscalateKeepsInv DEF AssessedAs, Is, rowVars
<1>3. CASE ~Is(t, "halted")
  <2>1. acting' \subseteq CaseIds /\ Answer(t)
    BY <1>3 DEF AssessedAs, Inv, TypeOK
  <2>2. PICK a : a = task[t].event
    OBVIOUS
  <2>3. a \in sent' /\ a.type # "halted"
    BY <1>3, <2>1, <2>2, AtWork DEF Fits, Answer, Is
  <2>4. Settled(a)'
    BY <2>2, <2>3, SettledBy
  <2> QED
    BY <2>1, <2>2, <2>4, AnswerType
<1> QED
  BY <1>1, <1>2, <1>3

LEMMA AssessedSends ==
    ASSUME NEW t, NEW c, NEW fresh, AssessedAs(t, c, fresh)
    PROVE  sent' = sent
BY DEF AssessedAs, Escalate, Answer, envVars

LEMMA AssessKeepsInv ==
    ASSUME Inv, NEW t \in Tasks, AssessFind(t) \/ AssessCreate(t)
    PROVE  Inv' /\ RowsKeep
<1>0. task[t].pc \in {"a_find", "a_create"} /\ task[t].pc # "idle"
  BY DEF AssessFind, AssessCreate, At
<1>1. /\ task[t].event.type \in Assessed /\ EntityOf(t) = task[t].event.of
      /\ task[t].event.of \in Entities
  BY <1>0, AtWork DEF Fits, Assessed, Failures
<1>2. CASE Throw(t)
  BY <1>2, ThrowType
<1>3. CASE UNCHANGED rowVars /\ \E c \in CasesOf(EntityOf(t)) : AssessedAs(t, c, FALSE)
  <2>1. PICK c \in CasesOf(EntityOf(t)) : AssessedAs(t, c, FALSE)
    BY <1>3
  <2>2. c \in CaseIds /\ cases'[c].of = task[t].event.of /\ cases'[c].status \in Active
    BY <1>1, <1>3 DEF CasesOf, rowVars
  <2>3. RowsOK' /\ RowsKeep
    BY <1>3, <2>1, SameRows, AssessedSends DEF Inv, TypeOK
  <2> QED
    BY <1>0, <1>1, <1>3, <2>1, <2>2, <2>3, AssessedKeepsInv
<1>4. CASE Goto(t, "a_create") /\ UNCHANGED <<rowVars, envVars, acting>>
  <2>1. RowsOK' /\ RowsKeep /\ acting' \subseteq CaseIds
    BY <1>4, SameRows DEF Inv, TypeOK, envVars
  <2> QED
    BY <1>0, <1>1, <1>4, <2>1, GotoKeepsInv
<1>5. ASSUME NEW c \in CaseIds, cases[c].status = "NONE", ~Deleted(EntityOf(t)),
             SetCase(c, [NoCase EXCEPT !.of = EntityOf(t), !.status = "ELIGIBLE"]),
             AssessedAs(t, c, TRUE)
      PROVE  Inv' /\ RowsKeep
  <2>1. /\ RowsOK' /\ RowsKeep /\ cases'[c].of = task[t].event.of
        /\ cases'[c].status \in Active
    BY <1>1, <1>5, CaseAdd, AssessedSends DEF Inv, Active
  <2> QED
    BY <1>0, <1>1, <1>5, <2>1, AssessedKeepsInv
<1>6. CASE AssessFind(t)
  BY <1>2, <1>3, <1>4, <1>6 DEF AssessFind
<1>7. CASE AssessCreate(t)
  BY <1>2, <1>5, <1>7 DEF AssessCreate
<1> QED
  BY <1>6, <1>7

LEMMA ChargedKeepsInv ==
    ASSUME Inv, NEW t \in Tasks, ChargedFind(t) \/ ChargedReset(t)
    PROVE  Inv' /\ RowsKeep
<1>0. task[t].pc \in {"c_find", "c_reset"} /\ task[t].pc # "idle"
  BY DEF ChargedFind, ChargedReset, At
<1>1. task[t].event.type = "charged" /\ EntityOf(t) \in Subscriptions
  BY <1>0, AtWork DEF Fits
<1>2. CASE ChargedFind(t)
  <2>1. RowsOK' /\ RowsKeep /\ acting' \subseteq CaseIds /\ UNCHANGED envVars
    BY <1>2, SameRows DEF ChargedFind, Inv, TypeOK, envVars
  <2>2. (\E c \in CaseIds : With(t, "h_read", c)) \/ Goto(t, "c_reset")
    BY <1>2 DEF ChargedFind, CasesOf
  <2> QED
    BY <1>0, <1>1, <2>1, <2>2, GotoKeepsInv, WithKeepsInv
<1>3. CASE ChargedReset(t)
  <2> DEFINE s == EntityOf(t)
  <2>1. CASE Throw(t)
    BY <2>1, ThrowType
  <2>2. CASE ~Deleted(s) /\ SetSubscription(s, Reset(s)) /\ Answer(t) /\ UNCHANGED acting
    <3>1. Reset(s) \in SubscriptionRow /\ Reset(s).status = "ACTIVE" /\ Reset(s).failed = 0
      BY <1>1, ResetRow DEF Inv
    <3>2. RowsOK' /\ RowsKeep
      BY <1>1, <2>2, <3>1, SubscriptionWrite DEF Inv, Answer
    <3>3. PICK a : a = task[t].event
      OBVIOUS
    <3>4. Settled(a)'
      BY <1>1, <3>3 DEF Settled, Failures
    <3> QED
      BY <2>2, <3>2, <3>3, <3>4, AnswerType DEF Inv, TypeOK
  <2> QED
    BY <1>3, <2>1, <2>2 DEF ChargedReset
<1> QED
  BY <1>2, <1>3

LEMMA CloseKeepsInv ==
    ASSUME Inv, NEW t \in Tasks, CloseRead(t) \/ CloseTransaction(t)
    PROVE  Inv' /\ RowsKeep
<1> DEFINE c == task[t].case
<1>0. task[t].pc \in {"h_read", "h_tx"} /\ task[t].pc # "idle"
  BY DEF CloseRead, CloseTransaction, At
<1>1. task[t].event.type \in {"charged", "link"} /\ c \in CaseIds
  BY <1>0, AtWork DEF Fits
<1>2. PICK a : a = task[t].event
  OBVIOUS
<1>3. Settled(a)'
  BY <1>1, <1>2 DEF Settled, Failures
<1>4. CASE UNCHANGED <<rowVars, acting>> /\ (Answer(t) \/ (Goto(t, "h_tx") /\ UNCHANGED envVars))
  <2>1. RowsOK' /\ RowsKeep /\ acting' \subseteq CaseIds
    BY <1>4, SameRows DEF Inv, TypeOK, Answer, envVars
  <2> QED
    BY <1>0, <1>1, <1>2, <1>3, <1>4, <2>1, AnswerType, GotoKeepsInv
<1>5. CASE Throw(t)
  BY <1>5, ThrowType
<1>6. CASE /\ cases[c].status # "DELETED" /\ cases' = Recovered(c)
           /\ subscription' = [subscription EXCEPT ![cases[c].of] = Reset(cases[c].of)]
           /\ Answer(t) /\ UNCHANGED <<mandate, acting>>
  <2>1. RowsOK' /\ RowsKeep
    BY <1>1, <1>6, CaseClose DEF Inv, Answer
  <2> QED
    BY <1>2, <1>3, <1>6, <2>1, AnswerType DEF Inv, TypeOK
<1> QED
  BY <1>4, <1>5, <1>6 DEF CloseRead, CloseTransaction

LEMMA TokenWriteKeepsInv ==
    ASSUME Inv, NEW t \in Tasks, TokenWrite(t)
    PROVE  Inv' /\ RowsKeep
<1> DEFINE m == EntityOf(t)
           r == TokenRow(t, mandate[m])
<1>0. task[t].pc = "t_write" /\ task[t].pc # "idle"
  BY DEF TokenWrite, At
<1>1. /\ task[t].event.type \in {"confirmed", "rejected", "paused", "cancelled"}
      /\ m \in Mandates
  BY <1>0, AtWork DEF Fits
<1>2. mandate[m] \in MandateRow
  BY <1>1 DEF Inv, RowsOK, RowTypes
<1>3. r \in MandateRow /\ r.status # "DELETED"
  BY <1>1, <1>2 DEF TokenRow, Is, MandateRow
<1>4. CASE Throw(t)
  BY <1>4, ThrowType
<1>5. CASE /\ ~Deleted(m) /\ SetMandate(m, r) /\ UNCHANGED acting
           /\ IF Is(t, "confirmed") THEN Answer(t) ELSE Goto(t, "a_find") /\ UNCHANGED envVars
  <2> HIDE DEF r
  <2>1. RowsOK' /\ RowsKeep /\ acting' \subseteq CaseIds
    BY <1>1, <1>3, <1>5, MandateWrite DEF Inv, TypeOK, Answer, envVars
  <2>2. CASE Is(t, "confirmed")
    <3>1. PICK a : a = task[t].event
      OBVIOUS
    <3>2. Settled(a)'
      BY <2>2, <3>1 DEF Settled, Failures, Is
    <3> QED
      BY <1>5, <2>1, <2>2, <3>1, <3>2, AnswerType
  <2>3. CASE ~Is(t, "confirmed")
    BY <1>0, <1>1, <1>5, <2>1, <2>3, GotoKeepsInv DEF Is, Assessed, Failures
  <2> QED
    BY <2>2, <2>3
<1> QED
  BY <1>4, <1>5 DEF TokenWrite

LEMMA TaskStepKeepsInv ==
    ASSUME Inv, NEW t \in Tasks, TaskStep(t)
    PROVE  Inv' /\ RowsKeep
BY FailureWriteKeepsInv, HaltedFindKeepsInv, HaltedEscalateKeepsInv, AssessKeepsInv,
   ChargedKeepsInv, CloseKeepsInv, TokenWriteKeepsInv DEF TaskStep

\* An event that nobody is found for reports no failure, or of something deleted.
LEMMA DeliveredKeepsInv ==
    ASSUME Inv, NEW t \in Tasks, NEW e \in sent, Delivered(t, e)
    PROVE  Inv' /\ RowsKeep
<1>0. /\ RowsOK' /\ RowsKeep /\ acting' \subseteq CaseIds /\ sent' = sent /\ extras' \in Nat
      /\ e \in Event
  BY SameRows DEF Delivered, Extra, Inv, TypeOK
<1> DEFINE k == [pc |-> FirstStep(e), event |-> e, case |-> IF e.type = "link" THEN e.of ELSE 0]
<1>1. CASE Become(t, k) /\ UNCHANGED events
  <2>1. \/ e.type \in {"pending", "halted"} /\ FirstStep(e) = "s_write"
        \/ e.type = "charged" /\ FirstStep(e) = "c_find"
        \/ e.type = "link" /\ FirstStep(e) = "h_read"
        \/ e.type \in {"confirmed", "rejected", "paused", "cancelled"} /\ FirstStep(e) = "t_write"
    BY <1>0, EventTypes DEF FirstStep, Assessed, Failures
  <2>2. (IF e.type = "link" THEN e.of ELSE 0) \in 0 .. MaxCases
    BY <1>0, EventTypes, BoundsAssumption DEF CaseIds
  <2>3. k \in Task
    BY <1>0, <2>1, <2>2 DEF Task, Pcs
  <2>4. Fits(k, cases')
    BY <1>0, <2>1, EventTypes DEF Fits
  <2> HIDE DEF k
  <2> QED
    BY <1>0, <1>1, <2>3, <2>4, MoveType
<1>2. CASE ~(Recognized(e) /\ ~Duplicate(e)) /\ events' = events \ {e} /\ UNCHANGED task
  <2>1. e.type \in Failures => Deleted(e.of)
    BY <1>0, <1>2 DEF Recognized, Duplicate, Failures
  <2>2. e.type \in Failures => Deleted(e.of)'
    BY <1>0, <2>1, EventTypes DEF RowsKeep, Failures, Assessed
  <2>3. Settled(e)'
    BY <2>2 DEF Settled, HasCase, HandedOver, Failures
  <2>4. ASSUME NEW d \in sent' \ events'
        PROVE  Settled(d)'
    <3>1. CASE d = e
      BY <2>3, <3>1
    <3>2. CASE d # e
      <4>1. d \in sent \ events
        BY <1>0, <1>2, <3>2
      <4> QED
        BY <1>0, <4>1, SettledStays
    <3> QED
      BY <3>1, <3>2
  <2>5. FailureHasCase' /\ HaltIsEscalated'
    BY <2>4, AnswersSettledNext
  <2>6. TypeOK'
    BY <1>0, <1>2 DEF Inv, TypeOK, RowsOK, RowTypes
  <2>7. TasksFit'
    <3>1. \A u \in Tasks : Fits(task[u], cases')
      BY <1>0, FitStays
    <3> QED
      BY <1>0, <1>2, <3>1 DEF TasksFit, Fits
  <2> QED
    BY <1>0, <2>5, <2>6, <2>7 DEF Inv
<1> QED
  BY <1>1, <1>2 DEF Delivered

(***************************************************************************)
(* Razorpay, the runs, deletions and restarts.                             *)
(***************************************************************************)
LEMMA SendKeepsInv ==
    ASSUME Inv, NEW e \in Event, Send(e)
    PROVE  Inv' /\ RowsKeep
<1>0. /\ sent' = sent \cup {e} /\ events' = events \cup {e} /\ e \notin sent
      /\ UNCHANGED <<rowVars, task, acting, extras>>
  BY DEF Send
<1>1. RowsOK' /\ RowsKeep
  BY <1>0, SameRows DEF Inv, TypeOK
<1>2. TypeOK' /\ IsFiniteSet(sent')
  BY <1>0, FS_AddElement DEF Inv, TypeOK, rowVars
<1>3. TasksFit'
  <2>1. \A t \in Tasks : Fits(task[t], cases)
    BY DEF Inv, TasksFit
  <2> QED
    BY <1>0, <2>1 DEF TasksFit, Fits, rowVars
<1>4. ASSUME NEW d \in sent' \ events'
      PROVE  Settled(d)'
  <2>1. d \in sent \ events
    BY <1>0
  <2> QED
    BY <1>1, <2>1, SettledStays
<1>5. FailureHasCase' /\ HaltIsEscalated'
  BY <1>4, AnswersSettledNext
<1> QED
  BY <1>1, <1>2, <1>3, <1>5 DEF Inv

LEMMA CycleInRange ==
    ASSUME Inv, NEW s \in Subscriptions, Bill(s)
    PROVE  Cycle(s) \in 1 .. MaxCycles
<1> DEFINE C == {e \in sent : e.type = "charged" /\ e.of = s}
<1>1. IsFiniteSet(C)
  BY FS_Subset DEF Inv
<1>2. Cardinality(C) \in Nat
  BY <1>1, FS_CardinalityType
<1>3. Cycle(s) = 1 + Cardinality(C) /\ Cycle(s) <= MaxCycles
  BY DEF Bill, Cycle
<1> HIDE DEF C
<1> QED
  BY <1>2, <1>3, BoundsAssumption

LEMMA RazorpayKeepsInv ==
    ASSUME Inv, \/ \E s \in Subscriptions : Bill(s)
                \/ \E m \in Mandates : TokenChanges(m)
                \/ \E c \in CaseIds : PayLink(c)
    PROVE  Inv' /\ RowsKeep
<1>1. ASSUME NEW s \in Subscriptions, Bill(s)
      PROVE  Inv' /\ RowsKeep
  <2>1. Cycle(s) \in 1 .. MaxCycles
    BY <1>1, CycleInRange
  <2>2. ASSUME NEW type \in {"charged", "pending", "halted"}
        PROVE  InCycle(s, type) \in Event
    BY <2>1 DEF InCycle, Event, Billing
  <2> QED
    BY <1>1, <2>2, SendKeepsInv DEF Bill
<1>2. ASSUME NEW m \in Mandates, TokenChanges(m)
      PROVE  Inv' /\ RowsKeep
  <2>1. ASSUME NEW type \in {"confirmed", "rejected", "paused", "cancelled"}
        PROVE  TokenOf(m, type) \in Event
    BY DEF TokenOf, Event, Tokens
  <2> QED
    BY <1>2, <2>1, SendKeepsInv DEF TokenChanges
<1>3. ASSUME NEW c \in CaseIds, PayLink(c)
      PROVE  Inv' /\ RowsKeep
  <2>1. [type |-> "link", of |-> c] \in Event
    BY DEF Event, Links
  <2> QED
    BY <1>3, <2>1, SendKeepsInv DEF PayLink
<1> QED
  BY <1>1, <1>2, <1>3

LEMMA RunKeepsInv ==
    ASSUME Inv, NEW c \in CaseIds, RunAct(c)
    PROVE  Inv' /\ RowsKeep
<1>1. /\ task' = task /\ sent' = sent /\ events' = events /\ extras' \in Nat
      /\ acting' \subseteq CaseIds
  BY DEF RunAct, envVars, Inv, TypeOK
<1>3. CASE cases[c].status # "DELETED" /\ SetCase(c, Escalated(c))
  <2> DEFINE r == Escalated(c)
  <2>1. r \in CaseRow /\ Continues(r, c)
    BY WrittenRow DEF Escalated, Continues, Active, Inv
  <2>2. SetCase(c, r)
    BY <1>3
  <2> HIDE DEF r
  <2>3. RowsOK' /\ RowsKeep
    BY <1>1, <1>3, <2>1, <2>2, CaseWrite DEF Inv
  <2> QED
    BY <1>1, <2>3, OtherKeepsInv
<1>4. ASSUME NEW s \in {"IN_PROGRESS", "EXHAUSTED"}, cases[c].status # "DELETED",
             SetCase(c, Written(c, s))
      PROVE  Inv' /\ RowsKeep
  <2> DEFINE r == Written(c, s)
  <2>1. r \in CaseRow /\ Continues(r, c)
    BY WrittenRow DEF Continues, Active, Inv
  <2>2. SetCase(c, r)
    BY <1>4
  <2> HIDE DEF r
  <2>3. RowsOK' /\ RowsKeep
    BY <1>1, <1>4, <2>1, <2>2, CaseWrite DEF Inv
  <2> QED
    BY <1>1, <2>3, OtherKeepsInv
<1>5. CASE UNCHANGED rowVars
  BY <1>1, <1>5, SameRows, OtherKeepsInv DEF Inv, TypeOK
<1> QED
  BY <1>3, <1>4, <1>5 DEF RunAct

LEMMA EnvironmentKeepsInv ==
    ASSUME Inv, (\E e \in Entities : Delete(e)) \/ BackendRestart \/ UNCHANGED vars
    PROVE  Inv' /\ RowsKeep
<1>1. CASE \E e \in Entities : Delete(e)
  <2>1. PICK e \in Entities : Delete(e)
    BY <1>1
  <2>2. RowsOK' /\ RowsKeep
    BY <2>1, DeleteRows DEF Inv
  <2>3. /\ task' = task /\ sent' = sent /\ events' = events /\ extras' \in Nat
        /\ acting' \subseteq CaseIds
    BY <2>1 DEF Delete, Extra, Inv, TypeOK
  <2> QED
    BY <2>2, <2>3, OtherKeepsInv
<1>2. CASE BackendRestart
  <2>1. RowsOK' /\ RowsKeep
    BY <1>2, SameRows DEF BackendRestart, Inv, TypeOK
  <2>2. /\ task' = [t \in Tasks |-> IdleTask] /\ sent' = sent /\ events' = events
        /\ extras' \in Nat /\ acting' \subseteq CaseIds
    BY <1>2 DEF BackendRestart, Extra, Inv, TypeOK
  <2> QED
    BY <2>1, <2>2, OtherKeepsInv
<1>3. CASE UNCHANGED vars
  <2>1. RowsOK' /\ RowsKeep
    BY <1>3, SameRows DEF vars, envVars, Inv, TypeOK
  <2> QED
    BY <1>3, <2>1, OtherKeepsInv DEF vars, envVars, Inv, TypeOK
<1> QED
  BY <1>1, <1>2, <1>3

LEMMA NextKeepsInv ==
    ASSUME Inv, [Next]_vars
    PROVE  Inv' /\ RowsKeep
BY RazorpayKeepsInv, RunKeepsInv, TaskStepKeepsInv, DeliveredKeepsInv, EnvironmentKeepsInv
   DEF Next

LEMMA InitInv ==
    ASSUME Init
    PROVE  Inv
<1>1. TypeOK
  BY IdleFits DEF Init, TypeOK, NewSubscription, SubscriptionRow, NewMandate, MandateRow,
                  NoCase, CaseRow
<1>2. IsFiniteSet(sent) /\ FailureHasCase /\ HaltIsEscalated
  BY FS_EmptySet DEF Init, FailureHasCase, HaltIsEscalated, Answered
<1>3. TasksFit
  BY IdleFits DEF Init, TasksFit
<1>4. NewIsFree /\ HistoryIsPast
  BY DEF Init, NewIsFree, HistoryIsPast, NoCase
<1>5. GoneTogether /\ FailuresShow
  BY DEF Init, GoneTogether, FailuresShow, Deleted, Entities, NewSubscription, NewMandate
<1> QED
  BY <1>1, <1>2, <1>3, <1>4, <1>5 DEF Inv, RowsOK, RowTypes, TypeOK

LEMMA AlwaysInv == Spec => []Inv
<1>1. Init => Inv
  BY InitInv
<1>2. Inv /\ [Next]_vars => Inv'
  BY NextKeepsInv
<1> QED
  BY <1>1, <1>2, PTL DEF Spec

(***************************************************************************)
(* Payments and recoveries.  A payment is a charge or a paid link; it      *)
(* waits, or deliveries hold it, or it has become the recovery of a case.  *)
(***************************************************************************)
Working == {t \in Tasks : task[t].pc # "idle"}

IsPayment(e, s) == e.type \in {"charged", "link"} /\ Owner(e) = s

RecoveredCases(s) == {c \in CaseIds : cases[c].of = s /\ cases[c].outcome}
PaidBy(s)         == {e \in sent : IsPayment(e, s)}
InHand(s)         == {t \in Working : IsPayment(task[t].event, s)}
Waiting(s)        == {e \in events : IsPayment(e, s) /\ \A t \in Working : task[t].event # e}

\* Only a restart, or a delivery of what waits for no delivery, makes more of a payment.
Balanced(s) == Cardinality(RecoveredCases(s)) + Cardinality(InHand(s)) + Cardinality(Waiting(s))
                 <= Cardinality(PaidBy(s)) + extras

LinksOwned == \A e \in sent : e.type = "link" => cases[e.of].of \in Subscriptions

\* The case a delivery is about to close is its payer's.
Closes(k) == k.pc \in {"h_read", "h_tx"} => cases[k.case].of = Owner(k.event)

PaidInv == /\ LinksOwned
           /\ \A t \in Tasks : Closes(task[t])
           /\ \A s \in Subscriptions : Balanced(s)

\* What every step but a close does to the cases.
CasesKeep == \A c \in CaseIds :
    /\ cases[c].of # None => cases'[c].of = cases[c].of
    /\ cases'[c].outcome => cases[c].outcome /\ cases'[c].of = cases[c].of

LEMMA CasesSame ==
    ASSUME cases' = cases
    PROVE  CasesKeep
BY DEF CasesKeep

LEMMA CaseWriteKeeps ==
    ASSUME RowsOK, NEW c \in CaseIds, NEW r, r.of = cases[c].of, r.outcome = cases[c].outcome,
           SetCase(c, r)
    PROVE  CasesKeep
<1>1. \A d \in CaseIds : cases'[d] = IF d = c THEN r ELSE cases[d]
  BY DEF SetCase, RowsOK, RowTypes
<1> QED
  BY <1>1 DEF CasesKeep

LEMMA CaseAddKeeps ==
    ASSUME RowsOK, NEW c \in CaseIds, cases[c].status = "NONE", NEW e,
           SetCase(c, [NoCase EXCEPT !.of = e, !.status = "ELIGIBLE"])
    PROVE  CasesKeep
<1> DEFINE r == [NoCase EXCEPT !.of = e, !.status = "ELIGIBLE"]
<1>0. r.outcome = FALSE
  BY DEF NoCase
<1> HIDE DEF r
<1>1. \A d \in CaseIds : cases'[d] = IF d = c THEN r ELSE cases[d]
  BY DEF SetCase, RowsOK, RowTypes, r
<1>2. cases[c].of = None
  BY DEF RowsOK, NewIsFree
<1> QED
  BY <1>0, <1>1, <1>2 DEF CasesKeep

LEMMA DeleteKeeps ==
    ASSUME RowsOK, NEW e \in Entities, Delete(e)
    PROVE  CasesKeep
<1>1. \A d \in CaseIds : cases'[d] = IF cases[d].of = e THEN Written(d, "DELETED") ELSE cases[d]
  BY DEF Delete, WithoutCases
<1>2. \A d \in CaseIds : cases'[d].of = cases[d].of /\ cases'[d].outcome = cases[d].outcome
  BY <1>1, WrittenRow
<1> QED
  BY <1>2 DEF CasesKeep

\* Whose an event is.
OfStays == \A c \in CaseIds : cases[c].of # None => cases'[c].of = cases[c].of

LEMMA OwnerStays ==
    ASSUME Inv, LinksOwned, OfStays, NEW e \in sent
    PROVE  /\ Owner(e)' = Owner(e) /\ Owner(e) \in Entities
           /\ \A s : IsPayment(e, s)' = IsPayment(e, s)
           /\ e.type = "link" => cases[e.of].of \in Subscriptions /\ cases'[e.of].of = cases[e.of].of
<1>0. e \in Event
  BY DEF Inv, TypeOK
<1>1. CASE e.type = "link"
  <2>1. e.of \in CaseIds /\ cases[e.of].of \in Subscriptions
    BY <1>0, <1>1, EventTypes DEF LinksOwned
  <2>2. cases'[e.of].of = cases[e.of].of
    BY <2>1, EntitiesAssumption DEF OfStays
  <2> QED
    BY <1>1, <2>1, <2>2 DEF Owner, IsPayment, Entities
<1>2. CASE e.type # "link"
  <2>1. Owner(e) = e.of /\ e.of \in Entities
    BY <1>0, <1>2, EventTypes
  <2> QED
    BY <1>2, <2>1 DEF Owner, IsPayment
<1> QED
  BY <1>1, <1>2

LEMMA LinksStayOwned ==
    ASSUME Inv, LinksOwned, OfStays, sent' = sent
    PROVE  LinksOwned'
<1>1. ASSUME NEW e \in sent, e.type = "link"
      PROVE  cases'[e.of].of \in Subscriptions
  BY <1>1, OwnerStays
<1> QED
  BY <1>1 DEF LinksOwned

\* The case of a delivery stays its payer's.
LEMMA ClosesStays ==
    ASSUME Inv, PaidInv, OfStays, NEW t \in Tasks, NEW k, k = task[t]
    PROVE  Closes(k)'
<1> SUFFICES ASSUME k.pc \in {"h_read", "h_tx"}
             PROVE  cases'[k.case].of = Owner(k.event)'
  BY DEF Closes
<1>1. k.event \in sent /\ k.case \in CaseIds
  BY DEF Inv, TasksFit, Fits
<1>2. cases[k.case].of = Owner(k.event)
  BY DEF PaidInv, Closes
<1>3. Owner(k.event)' = Owner(k.event) /\ Owner(k.event) # None
  BY <1>1, OwnerStays, EntitiesAssumption DEF PaidInv, Entities
<1> QED
  BY <1>1, <1>2, <1>3 DEF OfStays

(***************************************************************************)
(* Counting.                                                               *)
(***************************************************************************)
LEMMA Fewer ==
    ASSUME NEW S, IsFiniteSet(S), NEW T, T \subseteq S
    PROVE  IsFiniteSet(T) /\ Cardinality(T) <= Cardinality(S)
BY FS_Subset

LEMMA OneMore ==
    ASSUME NEW S, IsFiniteSet(S), NEW x, NEW T, T \subseteq S \cup {x}
    PROVE  IsFiniteSet(T) /\ Cardinality(T) <= Cardinality(S) + 1
<1>0. Cardinality(S) \in Nat
  BY FS_CardinalityType
<1>1. IsFiniteSet(S \cup {x}) /\ Cardinality(S \cup {x}) <= Cardinality(S) + 1
  BY <1>0, FS_AddElement
<1>2. IsFiniteSet(T) /\ Cardinality(T) <= Cardinality(S \cup {x})
  BY <1>1, Fewer
<1>3. Cardinality(S) \in Nat /\ Cardinality(T) \in Nat /\ Cardinality(S \cup {x}) \in Nat
  BY <1>1, <1>2, FS_CardinalityType
<1> QED
  BY <1>1, <1>2, <1>3

LEMMA OneLess ==
    ASSUME NEW S, IsFiniteSet(S), NEW x \in S, NEW T, T \subseteq S \ {x}
    PROVE  IsFiniteSet(T) /\ Cardinality(T) + 1 <= Cardinality(S)
<1>1. IsFiniteSet(S \ {x}) /\ Cardinality(S \ {x}) = Cardinality(S) - 1
  BY FS_RemoveElement
<1>2. IsFiniteSet(T) /\ Cardinality(T) <= Cardinality(S \ {x})
  BY <1>1, Fewer
<1>3. Cardinality(S) \in Nat /\ Cardinality(T) \in Nat
  BY <1>2, FS_CardinalityType
<1> QED
  BY <1>1, <1>2, <1>3

LEMMA UnionAtMost ==
    ASSUME NEW S, IsFiniteSet(S), NEW T, IsFiniteSet(T)
    PROVE  /\ IsFiniteSet(S \cup T)
           /\ Cardinality(S \cup T) <= Cardinality(S) + Cardinality(T)
<1>1. Cardinality(S \cap T) \in Nat /\ Cardinality(S) \in Nat /\ Cardinality(T) \in Nat
  BY FS_Intersection, FS_CardinalityType
<1>2. /\ IsFiniteSet(S \cup T)
      /\ Cardinality(S \cup T) = Cardinality(S) + Cardinality(T) - Cardinality(S \cap T)
  BY FS_Union
<1> QED
  BY <1>1, <1>2

\* No more events are in hand than there are deliveries.
LEMMA EventsInHand ==
    ASSUME NEW T, IsFiniteSet(T)
    PROVE  /\ IsFiniteSet({task[t].event : t \in T})
           /\ Cardinality({task[t].event : t \in T}) <= Cardinality(T)
<1> DEFINE Given == {task[t].event : t \in T}
           f     == [t \in T |-> task[t].event]
<1>1. f \in Surjection(T, Given)
  BY DEF Surjection
<1> HIDE DEF f, Given
<1>2. IsFiniteSet(Given) /\ Cardinality(Given) <= Cardinality(T)
  BY <1>1, FS_Surjection
<1> QED
  BY <1>2 DEF Given

LEMMA Finite ==
    ASSUME Inv, PaidInv, NEW s
    PROVE  /\ IsFiniteSet(RecoveredCases(s)) /\ Cardinality(RecoveredCases(s)) \in Nat
           /\ IsFiniteSet(InHand(s)) /\ Cardinality(InHand(s)) \in Nat
           /\ IsFiniteSet(Waiting(s)) /\ Cardinality(Waiting(s)) \in Nat
           /\ IsFiniteSet(PaidBy(s)) /\ Cardinality(PaidBy(s)) \in Nat
           /\ extras \in Nat
<1>1. IsFiniteSet(CaseIds)
  BY FS_Interval, BoundsAssumption DEF CaseIds
<1>2. /\ RecoveredCases(s) \subseteq CaseIds /\ InHand(s) \subseteq Working
      /\ Waiting(s) \subseteq sent /\ PaidBy(s) \subseteq sent
  BY DEF RecoveredCases, InHand, Waiting, PaidBy, Inv, TypeOK
<1>3. IsFiniteSet(Working) /\ IsFiniteSet(sent) /\ extras \in Nat
  BY TasksAssumption, FS_Subset DEF Working, Inv, TypeOK
<1>4. /\ IsFiniteSet(RecoveredCases(s)) /\ IsFiniteSet(InHand(s))
      /\ IsFiniteSet(Waiting(s)) /\ IsFiniteSet(PaidBy(s))
  BY <1>1, <1>2, <1>3, FS_Subset
<1> QED
  BY <1>3, <1>4, FS_CardinalityType

(***************************************************************************)
(* What a step makes of the balance.                                       *)
(***************************************************************************)
LEMMA KeepsOf ==
    ASSUME CasesKeep
    PROVE  OfStays
BY DEF CasesKeep, OfStays

LEMMA BalanceStep ==
    ASSUME Inv, PaidInv, CasesKeep, sent' = sent, extras' \in Nat, NEW s \in Subscriptions,
           IsFiniteSet(InHand(s)'), IsFiniteSet(Waiting(s)'),
           Cardinality(InHand(s)') + Cardinality(Waiting(s)') + extras
             <= Cardinality(InHand(s)) + Cardinality(Waiting(s)) + extras'
    PROVE  Balanced(s)'
<1>1. PaidBy(s)' = PaidBy(s)
  BY OwnerStays, KeepsOf DEF PaidBy, PaidInv
<1>2. RecoveredCases(s)' \subseteq RecoveredCases(s)
  BY DEF RecoveredCases, CasesKeep
<1>3. /\ IsFiniteSet(RecoveredCases(s)')
      /\ Cardinality(RecoveredCases(s)') <= Cardinality(RecoveredCases(s))
  BY <1>2, Finite, Fewer
<1>4. /\ Cardinality(RecoveredCases(s)') \in Nat /\ Cardinality(InHand(s)') \in Nat
      /\ Cardinality(Waiting(s)') \in Nat
  BY <1>3, FS_CardinalityType
<1>5. Balanced(s)
  BY DEF PaidInv
<1> QED
  BY <1>1, <1>3, <1>4, <1>5, Finite DEF Balanced

\* A task becomes r.
LEMMA WorkingBecomes ==
    ASSUME Inv, NEW t \in Tasks, NEW r, Become(t, r)
    PROVE  /\ \A u \in Tasks : task'[u] = IF u = t THEN r ELSE task[u]
           /\ r.pc = "idle" => Working' = Working \ {t}
           /\ r.pc # "idle" => Working' = Working \cup {t}
BY DEF Become, Inv, TypeOK, Working

LEMMA ClosesBecomes ==
    ASSUME Inv, PaidInv, OfStays, NEW t \in Tasks, NEW r, Become(t, r), Closes(r)'
    PROVE  \A u \in Tasks : Closes(task[u])'
<1> SUFFICES ASSUME NEW u \in Tasks
             PROVE  Closes(task[u])'
  OBVIOUS
<1>1. PICK k : k = task[u]
  OBVIOUS
<1>2. Closes(k)'
  BY <1>1, ClosesStays
<1>3. task'[u] = IF u = t THEN r ELSE k
  BY <1>1, WorkingBecomes
<1> QED
  BY <1>2, <1>3 DEF Closes

LEMMA IdleCloses ==
    Closes(IdleTask)' /\ IdleTask.pc = "idle"
BY DEF Closes, IdleTask


\* What a working delivery holds is somebody's payment, or nobody's, before and after.
LEMMA HeldStays ==
    ASSUME Inv, PaidInv, OfStays, NEW u \in Working, NEW e, e = task[u].event, NEW s
    PROVE  e \in sent /\ IsPayment(e, s)' = IsPayment(e, s)
<1>1. e \in sent
  BY DEF Working, Inv, TasksFit, Fits
<1> QED
  BY <1>1, OwnerStays DEF PaidInv

LEMMA WaitingStays ==
    ASSUME Inv, PaidInv, OfStays, NEW e \in events, NEW s
    PROVE  IsPayment(e, s)' = IsPayment(e, s)
BY OwnerStays DEF Inv, TypeOK, PaidInv

\* A delivery ends.
LEMMA HandsEmptied ==
    ASSUME Inv, PaidInv, OfStays, NEW t \in Working, Become(t, IdleTask), NEW s,
           NEW a, a = task[t].event
    PROVE  /\ InHand(s)' \subseteq InHand(s) \ {t}
           /\ events' \subseteq events => Waiting(s)' \subseteq Waiting(s) \cup {a}
           /\ events' \subseteq events /\ ~IsPayment(a, s) => Waiting(s)' \subseteq Waiting(s)
           /\ events' \subseteq events \ {a} => Waiting(s)' \subseteq Waiting(s)
<1>0. t \in Tasks
  BY DEF Working
<1>1. /\ Working' = Working \ {t}
      /\ \A u \in Working' : u # t /\ u \in Working /\ task'[u] = task[u]
  BY <1>0, WorkingBecomes, IdleCloses DEF Working
<1>2. ASSUME NEW u \in InHand(s)'
      PROVE  u \in InHand(s) /\ u # t
  <2>1. u \in Working' /\ u \in Working /\ u # t /\ task'[u] = task[u]
    BY <1>1 DEF InHand
  <2>2. PICK e : e = task[u].event
    OBVIOUS
  <2>3. IsPayment(e, s)'
    BY <2>1, <2>2 DEF InHand, IsPayment
  <2> QED
    BY <2>1, <2>2, <2>3, HeldStays DEF InHand
<1>3. ASSUME events' \subseteq events, NEW e \in Waiting(s)'
      PROVE  e \in events' /\ IsPayment(e, s) /\ (e \in Waiting(s) \/ e = a)
  <2>1. e \in events /\ e \in events' /\ IsPayment(e, s)
    BY <1>3, WaitingStays DEF Waiting
  <2>2. \A u \in Working : u # t => task[u].event # e
    BY <1>1 DEF Waiting
  <2> QED
    BY <2>1, <2>2 DEF Waiting
<1> QED
  BY <1>2, <1>3

\* A delivery goes on with the event it holds.
LEMMA HandsKept ==
    ASSUME Inv, PaidInv, OfStays, NEW s, events' \subseteq events,
           Working' = Working, \A u \in Working : task'[u].event = task[u].event
    PROVE  InHand(s)' \subseteq InHand(s) /\ Waiting(s)' \subseteq Waiting(s)
<1>1. ASSUME NEW u \in InHand(s)'
      PROVE  u \in InHand(s)
  <2>1. u \in Working /\ task'[u].event = task[u].event
    BY DEF InHand
  <2>2. PICK e : e = task[u].event
    OBVIOUS
  <2>3. IsPayment(e, s)'
    BY <2>1, <2>2 DEF InHand, IsPayment
  <2> QED
    BY <2>1, <2>2, <2>3, HeldStays DEF InHand
<1>2. ASSUME NEW e \in Waiting(s)'
      PROVE  e \in Waiting(s)
  <2>1. e \in events /\ IsPayment(e, s)
    BY WaitingStays DEF Waiting
  <2> QED
    BY <2>1 DEF Waiting
<1> QED
  BY <1>1, <1>2

LEMMA QuietBalance ==
    ASSUME Inv, PaidInv, CasesKeep, sent' = sent, extras' \in Nat, extras <= extras',
           NEW s \in Subscriptions,
           InHand(s)' \subseteq InHand(s), Waiting(s)' \subseteq Waiting(s)
    PROVE  Balanced(s)'
<1>1. /\ IsFiniteSet(InHand(s)') /\ Cardinality(InHand(s)') <= Cardinality(InHand(s))
      /\ IsFiniteSet(Waiting(s)') /\ Cardinality(Waiting(s)') <= Cardinality(Waiting(s))
  BY Finite, Fewer
<1>2. Cardinality(InHand(s)') \in Nat /\ Cardinality(Waiting(s)') \in Nat
  BY <1>1, FS_CardinalityType
<1> QED
  BY <1>1, <1>2, Finite, BalanceStep

(***************************************************************************)
(* The ways a step treats a delivery.                                      *)
(***************************************************************************)
LEMMA PaidAnswer ==
    ASSUME Inv, PaidInv, CasesKeep, NEW t \in Working, Answer(t)
    PROVE  PaidInv'
<1>0. /\ t \in Tasks /\ OfStays /\ Become(t, IdleTask) /\ sent' = sent /\ extras' = extras
      /\ events' = events \ {task[t].event}
  BY KeepsOf DEF Answer, Working
<1>1. PICK a : a = task[t].event
  OBVIOUS
<1>3. ASSUME NEW s \in Subscriptions
      PROVE  Balanced(s)'
  <2>1. InHand(s)' \subseteq InHand(s) /\ Waiting(s)' \subseteq Waiting(s)
    BY <1>0, <1>1, HandsEmptied
  <2> QED
    BY <1>0, <2>1, Finite, QuietBalance
<1>4. LinksOwned' /\ \A u \in Tasks : Closes(task[u])'
  BY <1>0, LinksStayOwned, ClosesBecomes, IdleCloses DEF PaidInv
<1> QED
  BY <1>3, <1>4 DEF PaidInv

\* An event that is given back waits again.
LEMMA PaidThrow ==
    ASSUME Inv, PaidInv, NEW t \in Working, Throw(t)
    PROVE  PaidInv'
<1>0. /\ t \in Tasks /\ CasesKeep /\ OfStays /\ Become(t, IdleTask) /\ sent' = sent
      /\ extras' = extras /\ events' = events
  BY CasesSame, KeepsOf DEF Throw, Working, rowVars, envVars
<1>1. PICK a : a = task[t].event
  OBVIOUS
<1>3. ASSUME NEW s \in Subscriptions
      PROVE  Balanced(s)'
  <2>1. CASE IsPayment(a, s)
    <3>1. t \in InHand(s)
      BY <1>1, <2>1 DEF InHand
    <3>2. InHand(s)' \subseteq InHand(s) \ {t} /\ Waiting(s)' \subseteq Waiting(s) \cup {a}
      BY <1>0, <1>1, HandsEmptied
    <3>3. IsFiniteSet(InHand(s)') /\ Cardinality(InHand(s)') + 1 <= Cardinality(InHand(s))
      BY <3>1, <3>2, Finite, OneLess
    <3>4. IsFiniteSet(Waiting(s)') /\ Cardinality(Waiting(s)') <= Cardinality(Waiting(s)) + 1
      BY <3>2, Finite, OneMore
    <3>5. Cardinality(InHand(s)') \in Nat /\ Cardinality(Waiting(s)') \in Nat
      BY <3>3, <3>4, FS_CardinalityType
    <3> QED
      BY <1>0, <3>3, <3>4, <3>5, Finite, BalanceStep
  <2>2. CASE ~IsPayment(a, s)
    <3>1. InHand(s)' \subseteq InHand(s) /\ Waiting(s)' \subseteq Waiting(s)
      BY <1>0, <1>1, <2>2, HandsEmptied
    <3> QED
      BY <1>0, <3>1, Finite, QuietBalance
  <2> QED
    BY <2>1, <2>2
<1>4. LinksOwned' /\ \A u \in Tasks : Closes(task[u])'
  BY <1>0, LinksStayOwned, ClosesBecomes, IdleCloses DEF PaidInv
<1> QED
  BY <1>3, <1>4 DEF PaidInv

LEMMA PaidMove ==
    ASSUME Inv, PaidInv, CasesKeep, UNCHANGED envVars, NEW t \in Working, NEW r, Become(t, r),
           r.pc # "idle", r.event = task[t].event, Closes(r)'
    PROVE  PaidInv'
<1>0. t \in Tasks /\ OfStays /\ sent' = sent /\ extras' = extras /\ events' = events
  BY KeepsOf DEF envVars, Working
<1>1. Working' = Working /\ \A u \in Working : task'[u].event = task[u].event
  BY <1>0, WorkingBecomes DEF Working
<1>2. ASSUME NEW s \in Subscriptions
      PROVE  Balanced(s)'
  <2>1. InHand(s)' \subseteq InHand(s) /\ Waiting(s)' \subseteq Waiting(s)
    BY <1>0, <1>1, HandsKept
  <2> QED
    BY <1>0, <2>1, Finite, QuietBalance
<1>3. LinksOwned' /\ \A u \in Tasks : Closes(task[u])'
  BY <1>0, LinksStayOwned, ClosesBecomes DEF PaidInv
<1> QED
  BY <1>1, <1>2, <1>3 DEF PaidInv

LEMMA PaidGoto ==
    ASSUME Inv, PaidInv, CasesKeep, UNCHANGED envVars, NEW t \in Working, NEW pc, Goto(t, pc),
           pc \notin {"idle", "h_read"}, pc = "h_tx" => task[t].pc = "h_read"
    PROVE  PaidInv'
<1>0. PICK r : r = [task[t] EXCEPT !.pc = pc]
  OBVIOUS
<1>1. task[t] \in Task
  BY DEF Working, Inv, TypeOK
<1>2. r.pc = pc /\ r.event = task[t].event /\ r.case = task[t].case /\ Become(t, r)
  BY <1>0, <1>1 DEF Task, Goto
<1>3. Closes(r)'
  <2>1. PICK k : k = task[t]
    OBVIOUS
  <2>2. Closes(k)'
    BY <2>1, KeepsOf, ClosesStays DEF Working
  <2> QED
    BY <1>2, <2>1, <2>2 DEF Closes
<1> QED
  BY <1>2, <1>3, PaidMove

LEMMA PaidWith ==
    ASSUME Inv, PaidInv, CasesKeep, UNCHANGED envVars, NEW t \in Working, NEW c \in CaseIds,
           NEW pc, With(t, pc, c),
           \/ pc = "u_escalate"
           \/ pc = "h_read" /\ cases[c].of = EntityOf(t)
    PROVE  PaidInv'
<1>0. PICK r : r = [task[t] EXCEPT !.pc = pc, !.case = c]
  OBVIOUS
<1>1. task[t] \in Task
  BY DEF Working, Inv, TypeOK
<1>2. r.pc = pc /\ r.event = task[t].event /\ r.case = c /\ Become(t, r)
  BY <1>0, <1>1 DEF Task, With
<1>3. Closes(r)'
  <2>1. CASE pc = "u_escalate"
    BY <1>2, <2>1 DEF Closes
  <2>2. CASE pc = "h_read" /\ cases[c].of = EntityOf(t)
    <3>1. r.event \in sent /\ cases[c].of = Owner(r.event)
      BY <1>2, <2>2 DEF Working, Inv, TasksFit, Fits, EntityOf
    <3>2. Owner(r.event)' = Owner(r.event) /\ Owner(r.event) # None
      BY <3>1, KeepsOf, OwnerStays, EntitiesAssumption DEF PaidInv, Entities
    <3> QED
      BY <1>2, <3>1, <3>2, KeepsOf DEF Closes, OfStays
  <2> QED
    BY <2>1, <2>2
<1> QED
  BY <1>2, <1>3, PaidMove

\* A step that no delivery takes.
LEMMA PaidOther ==
    ASSUME Inv, PaidInv, CasesKeep, sent' = sent, events' = events, task' = task,
           extras' \in Nat, extras <= extras'
    PROVE  PaidInv'
<1>0. OfStays /\ Working' = Working
  BY KeepsOf DEF Working
<1>1. ASSUME NEW s \in Subscriptions
      PROVE  Balanced(s)'
  <2>1. InHand(s)' \subseteq InHand(s) /\ Waiting(s)' \subseteq Waiting(s)
    BY <1>0, HandsKept
  <2> QED
    BY <2>1, QuietBalance
<1>2. LinksOwned'
  BY <1>0, LinksStayOwned DEF PaidInv
<1>3. ASSUME NEW u \in Tasks
      PROVE  Closes(task[u])'
  <2>1. PICK k : k = task[u]
    OBVIOUS
  <2> QED
    BY <1>0, <2>1, ClosesStays DEF Closes
<1> QED
  BY <1>0, <1>1, <1>2, <1>3 DEF PaidInv

(***************************************************************************)
(* The handlers' steps.                                                    *)
(***************************************************************************)
LEMMA AtWorkIsWorking ==
    ASSUME NEW t \in Tasks, TaskStep(t)
    PROVE  t \in Working
BY DEF TaskStep, FailureWrite, HaltedFind, HaltedEscalate, AssessFind, AssessCreate, ChargedFind,
       ChargedReset, CloseRead, CloseTransaction, TokenWrite, At, Working

LEMMA FailureWritePaid ==
    ASSUME Inv, PaidInv, NEW t \in Working, FailureWrite(t)
    PROVE  PaidInv'
<1>1. CASE Throw(t)
  BY <1>1, PaidThrow
<1>2. CASE ~Throw(t)
  <2>1. cases' = cases /\ UNCHANGED envVars
    BY <1>2 DEF FailureWrite, SetSubscription
  <2>2. Goto(t, "a_find") \/ Goto(t, "u_find")
    BY <1>2 DEF FailureWrite
  <2> QED
    BY <2>1, <2>2, CasesSame, PaidGoto
<1> QED
  BY <1>1, <1>2

LEMMA EscalatePaid ==
    ASSUME Inv, PaidInv, CasesKeep, NEW t \in Working, NEW c \in CaseIds, Escalate(t, c)
    PROVE  PaidInv'
<1>1. CASE Answer(t)
  BY <1>1, PaidAnswer
<1>2. CASE With(t, "u_escalate", c) /\ UNCHANGED envVars
  BY <1>2, PaidWith
<1> QED
  BY <1>1, <1>2 DEF Escalate

LEMMA HaltedPaid ==
    ASSUME Inv, PaidInv, NEW t \in Working, HaltedFind(t) \/ HaltedEscalate(t)
    PROVE  PaidInv'
<1>1. CASE HaltedFind(t)
  <2>1. CasesKeep
    BY <1>1, CasesSame DEF HaltedFind, rowVars
  <2>2. \/ \E c \in CaseIds : Escalate(t, c)
        \/ Goto(t, "a_find") /\ UNCHANGED envVars
    BY <1>1 DEF HaltedFind, CasesOf
  <2> QED
    BY <2>1, <2>2, EscalatePaid, PaidGoto
<1>2. CASE HaltedEscalate(t)
  <2> DEFINE c == task[t].case
  <2>0. t \in Tasks /\ task[t].pc = "u_escalate"
    BY <1>2 DEF HaltedEscalate, At, Working
  <2>1. c \in CaseIds
    BY <2>0, AtWork DEF Fits
  <2>2. Escalated(c).of = cases[c].of /\ Escalated(c).outcome = cases[c].outcome
    BY <2>1, WrittenRow DEF Escalated, Active, Inv
  <2>3. CASE Throw(t)
    BY <2>3, PaidThrow
  <2>4. CASE SetCase(c, Escalated(c)) /\ Answer(t)
    <3>1. CasesKeep
      BY <2>1, <2>2, <2>4, CaseWriteKeeps DEF Inv
    <3> QED
      BY <2>4, <3>1, PaidAnswer
  <2> QED
    BY <1>2, <2>3, <2>4 DEF HaltedEscalate
<1> QED
  BY <1>1, <1>2

LEMMA AssessedPaid ==
    ASSUME Inv, PaidInv, CasesKeep, NEW t \in Working, NEW c \in CaseIds, NEW fresh \in BOOLEAN,
           AssessedAs(t, c, fresh)
    PROVE  PaidInv'
<1>1. CASE Answer(t)
  BY <1>1, PaidAnswer
<1>2. CASE With(t, "u_escalate", c) /\ UNCHANGED envVars
  BY <1>2, PaidWith
<1>3. CASE Escalate(t, c)
  BY <1>3, EscalatePaid
<1> QED
  BY <1>1, <1>2, <1>3 DEF AssessedAs

LEMMA AssessPaid ==
    ASSUME Inv, PaidInv, NEW t \in Working, AssessFind(t) \/ AssessCreate(t)
    PROVE  PaidInv'
<1>1. CASE Throw(t)
  BY <1>1, PaidThrow
<1>2. CASE UNCHANGED rowVars /\ \E c \in CaseIds : AssessedAs(t, c, FALSE)
  BY <1>2, CasesSame, AssessedPaid DEF rowVars
<1>3. CASE Goto(t, "a_create") /\ UNCHANGED <<rowVars, envVars, acting>>
  BY <1>3, CasesSame, PaidGoto DEF rowVars
<1>4. ASSUME NEW c \in CaseIds, cases[c].status = "NONE",
             SetCase(c, [NoCase EXCEPT !.of = EntityOf(t), !.status = "ELIGIBLE"]),
             AssessedAs(t, c, TRUE)
      PROVE  PaidInv'
  <2>1. CasesKeep
    BY <1>4, CaseAddKeeps DEF Inv
  <2> QED
    BY <1>4, <2>1, AssessedPaid
<1>5. CASE AssessFind(t)
  BY <1>1, <1>2, <1>3, <1>5 DEF AssessFind, CasesOf
<1>6. CASE AssessCreate(t)
  BY <1>1, <1>4, <1>6 DEF AssessCreate
<1> QED
  BY <1>5, <1>6

LEMMA ChargedPaid ==
    ASSUME Inv, PaidInv, NEW t \in Working, ChargedFind(t) \/ ChargedReset(t)
    PROVE  PaidInv'
<1>1. CASE ChargedFind(t)
  <2>1. CasesKeep /\ UNCHANGED envVars
    BY <1>1, CasesSame DEF ChargedFind, rowVars
  <2>2. \/ \E c \in CaseIds : cases[c].of = EntityOf(t) /\ With(t, "h_read", c)
        \/ Goto(t, "c_reset")
    BY <1>1 DEF ChargedFind, CasesOf
  <2> QED
    BY <2>1, <2>2, PaidWith, PaidGoto
<1>2. CASE ChargedReset(t)
  <2>1. CASE Throw(t)
    BY <2>1, PaidThrow
  <2>2. CASE ~Throw(t)
    <3>1. cases' = cases /\ Answer(t)
      BY <1>2, <2>2 DEF ChargedReset, SetSubscription
    <3> QED
      BY <3>1, CasesSame, PaidAnswer
  <2> QED
    BY <2>1, <2>2
<1> QED
  BY <1>1, <1>2

LEMMA TokenPaid ==
    ASSUME Inv, PaidInv, NEW t \in Working, TokenWrite(t)
    PROVE  PaidInv'
<1>1. CASE Throw(t)
  BY <1>1, PaidThrow
<1>2. CASE ~Throw(t)
  <2>1. cases' = cases /\ (Answer(t) \/ (Goto(t, "a_find") /\ UNCHANGED envVars))
    BY <1>2 DEF TokenWrite, SetMandate
  <2> QED
    BY <2>1, CasesSame, PaidAnswer, PaidGoto
<1> QED
  BY <1>1, <1>2

LEMMA CloseReadPaid ==
    ASSUME Inv, PaidInv, NEW t \in Working, CloseRead(t)
    PROVE  PaidInv'
<1>1. CasesKeep /\ task[t].pc = "h_read"
  BY CasesSame DEF CloseRead, rowVars, At
<1>2. Answer(t) \/ (Goto(t, "h_tx") /\ UNCHANGED envVars)
  BY DEF CloseRead
<1> QED
  BY <1>1, <1>2, PaidAnswer, PaidGoto

\* A payment in hand becomes a recovery.
LEMMA CloseTransactionPaid ==
    ASSUME Inv, PaidInv, NEW t \in Working, CloseTransaction(t)
    PROVE  PaidInv'
<1> DEFINE c == task[t].case
<1>0. t \in Tasks /\ task[t].pc = "h_tx"
  BY DEF CloseTransaction, At, Working
<1>1. c \in CaseIds /\ task[t].event \in sent /\ task[t].event.type \in {"charged", "link"}
  BY <1>0, AtWork DEF Fits
<1>2. cases[c].of = Owner(task[t].event)
  BY <1>0 DEF PaidInv, Closes
<1>3. CASE Throw(t)
  BY <1>3, PaidThrow
<1>4. CASE UNCHANGED rowVars /\ Answer(t)
  BY <1>4, CasesSame, PaidAnswer DEF rowVars
<1>5. CASE cases' = Recovered(c) /\ Answer(t)
  <2>1. PICK w : w = Written(c, "RECOVERED")
    OBVIOUS
  <2>2. \A d \in CaseIds : cases'[d].of = cases[d].of /\ (d # c => cases'[d] = cases[d])
    <3>1. w \in CaseRow /\ w.of = cases[c].of
      BY <1>1, <2>1, WrittenRow DEF Inv
    <3>2. \A d \in CaseIds : cases'[d] = IF d = c THEN [w EXCEPT !.outcome = TRUE] ELSE cases[d]
      BY <1>5, <2>1 DEF Recovered, Inv, TypeOK
    <3> QED
      BY <3>1, <3>2 DEF CaseRow
  <2>3. /\ Become(t, IdleTask) /\ sent' = sent /\ extras' = extras /\ OfStays
        /\ events' = events \ {task[t].event}
    BY <1>5, <2>2 DEF Answer, OfStays
  <2>4. PICK a : a = task[t].event
    OBVIOUS
  <2>6. LinksOwned' /\ \A u \in Tasks : Closes(task[u])'
    BY <1>0, <2>3, LinksStayOwned, ClosesBecomes, IdleCloses DEF PaidInv
  <2>7. ASSUME NEW s \in Subscriptions
        PROVE  Balanced(s)'
    <3>1. InHand(s)' \subseteq InHand(s) \ {t} /\ Waiting(s)' \subseteq Waiting(s)
      BY <2>3, <2>4, HandsEmptied
    <3>2. PaidBy(s)' = PaidBy(s)
      BY <2>3, OwnerStays DEF PaidBy, PaidInv
    <3>3. IsFiniteSet(Waiting(s)') /\ Cardinality(Waiting(s)') <= Cardinality(Waiting(s))
      BY <3>1, Finite, Fewer
    <3>4. Balanced(s) /\ extras' = extras
      BY <2>3 DEF PaidInv
    <3>5. CASE cases[c].of = s
      <4>1. RecoveredCases(s)' \subseteq RecoveredCases(s) \cup {c}
        BY <2>2 DEF RecoveredCases
      <4>2. t \in InHand(s)
        BY <1>1, <1>2, <3>5 DEF InHand, IsPayment
      <4>3. /\ IsFiniteSet(RecoveredCases(s)')
            /\ Cardinality(RecoveredCases(s)') <= Cardinality(RecoveredCases(s)) + 1
        BY <4>1, Finite, OneMore
      <4>4. IsFiniteSet(InHand(s)') /\ Cardinality(InHand(s)') + 1 <= Cardinality(InHand(s))
        BY <3>1, <4>2, Finite, OneLess
      <4>5. /\ Cardinality(RecoveredCases(s)') \in Nat /\ Cardinality(InHand(s)') \in Nat
            /\ Cardinality(Waiting(s)') \in Nat
        BY <3>3, <4>3, <4>4, FS_CardinalityType
      <4> QED
        BY <3>2, <3>3, <3>4, <4>3, <4>4, <4>5, Finite DEF Balanced
    <3>6. CASE cases[c].of # s
      <4>1. RecoveredCases(s)' \subseteq RecoveredCases(s)
        BY <2>2, <3>6 DEF RecoveredCases
      <4>2. /\ IsFiniteSet(RecoveredCases(s)')
            /\ Cardinality(RecoveredCases(s)') <= Cardinality(RecoveredCases(s))
            /\ IsFiniteSet(InHand(s)') /\ Cardinality(InHand(s)') <= Cardinality(InHand(s))
        BY <3>1, <4>1, Finite, Fewer
      <4>3. /\ Cardinality(RecoveredCases(s)') \in Nat /\ Cardinality(InHand(s)') \in Nat
            /\ Cardinality(Waiting(s)') \in Nat
        BY <3>3, <4>2, FS_CardinalityType
      <4> QED
        BY <3>2, <3>3, <3>4, <4>2, <4>3, Finite DEF Balanced
    <3> QED
      BY <3>5, <3>6
  <2> QED
    BY <2>6, <2>7 DEF PaidInv
<1> QED
  BY <1>3, <1>4, <1>5 DEF CloseTransaction

\* A delivery takes what waits, or it is one of the extra ones.
LEMMA DeliveredPaid ==
    ASSUME Inv, PaidInv, NEW t \in Tasks, NEW e \in sent, Delivered(t, e)
    PROVE  PaidInv'
<1> DEFINE k == [pc |-> FirstStep(e), event |-> e, case |-> IF e.type = "link" THEN e.of ELSE 0]
<1>0. /\ CasesKeep /\ OfStays /\ sent' = sent /\ t \notin Working /\ e \in Event
      /\ \/ extras' = extras /\ e \in events /\ \A u \in Tasks : task[u].event # e
         \/ extras' = extras + 1
  BY CasesSame, KeepsOf DEF Delivered, Extra, rowVars, Idle, Working, Inv, TypeOK
<1>1. extras' \in Nat /\ extras <= extras'
  BY <1>0, Finite
<1>2. CASE Become(t, k) /\ UNCHANGED events
  <2>1. PICK r : r = k
    OBVIOUS
  <2>2. r.event = e /\ r.pc # "idle" /\ Become(t, r)
    BY <1>2, <2>1 DEF FirstStep
  <2>3. Closes(r)'
    <3>1. r.pc \in {"h_read", "h_tx"} => e.type = "link" /\ r.case = e.of
      BY <2>1 DEF FirstStep
    <3>2. e.type = "link" => cases'[e.of].of = Owner(e)'
      BY DEF Owner
    <3> QED
      BY <2>2, <3>1, <3>2 DEF Closes
  <2>4. /\ Working' = Working \cup {t} /\ task'[t].event = e
        /\ \A u \in Working : u # t /\ u \in Tasks /\ task'[u] = task[u]
    BY <1>0, <2>2, WorkingBecomes DEF Working
  <2>6. LinksOwned' /\ \A u \in Tasks : Closes(task[u])'
    BY <1>0, <2>2, <2>3, LinksStayOwned, ClosesBecomes DEF PaidInv
  <2>7. ASSUME NEW s \in Subscriptions
        PROVE  Balanced(s)'
    <3>1. ASSUME NEW u \in InHand(s)', u # t
          PROVE  u \in InHand(s)
      <4>1. u \in Working /\ task'[u] = task[u]
        BY <2>4, <3>1 DEF InHand
      <4>2. PICK d : d = task[u].event
        OBVIOUS
      <4>3. IsPayment(d, s)'
        BY <4>1, <4>2 DEF InHand, IsPayment
      <4> QED
        BY <1>0, <4>1, <4>2, <4>3, HeldStays DEF InHand
    <3>2. t \in InHand(s)' => IsPayment(e, s)
      <4>1. t \in InHand(s)' => IsPayment(e, s)'
        BY <2>4 DEF InHand, IsPayment
      <4> QED
        BY <1>0, <4>1, OwnerStays DEF PaidInv
    <3>3. ASSUME NEW d \in Waiting(s)'
          PROVE  d \in Waiting(s) /\ d # e
      <4>1. d \in events /\ IsPayment(d, s)
        BY <1>0, <1>2, WaitingStays DEF Waiting
      <4>2. \A u \in Working : task[u].event # d
        BY <2>4 DEF Waiting
      <4>3. d # e
        BY <2>4 DEF Waiting
      <4> QED
        BY <4>1, <4>2, <4>3 DEF Waiting
    <3>4. CASE ~IsPayment(e, s)
      BY <1>0, <1>1, <3>1, <3>2, <3>3, <3>4, QuietBalance
    <3>5. CASE IsPayment(e, s)
      <4>1. InHand(s)' \subseteq InHand(s) \cup {t}
        BY <3>1
      <4>2. IsFiniteSet(InHand(s)') /\ Cardinality(InHand(s)') <= Cardinality(InHand(s)) + 1
        BY <4>1, Finite, OneMore
      <4>3. CASE extras' = extras + 1
        <5>1. Waiting(s)' \subseteq Waiting(s)
          BY <3>3
        <5>2. IsFiniteSet(Waiting(s)') /\ Cardinality(Waiting(s)') <= Cardinality(Waiting(s))
          BY <5>1, Finite, Fewer
        <5>3. Cardinality(InHand(s)') \in Nat /\ Cardinality(Waiting(s)') \in Nat
          BY <4>2, <5>2, FS_CardinalityType
        <5> QED
          BY <1>0, <1>1, <4>2, <4>3, <5>2, <5>3, Finite, BalanceStep
      <4>4. CASE extras' = extras /\ e \in events /\ \A u \in Tasks : task[u].event # e
        <5>1. e \in Waiting(s)
          BY <3>5, <4>4 DEF Waiting, Working
        <5>2. Waiting(s)' \subseteq Waiting(s) \ {e}
          BY <3>3
        <5>3. IsFiniteSet(Waiting(s)') /\ Cardinality(Waiting(s)') + 1 <= Cardinality(Waiting(s))
          BY <5>1, <5>2, Finite, OneLess
        <5>4. Cardinality(InHand(s)') \in Nat /\ Cardinality(Waiting(s)') \in Nat
          BY <4>2, <5>3, FS_CardinalityType
        <5> QED
          BY <1>0, <1>1, <4>2, <4>4, <5>3, <5>4, Finite, BalanceStep
      <4> QED
        BY <1>0, <4>3, <4>4
    <3> QED
      BY <3>4, <3>5
  <2> QED
    BY <2>6, <2>7 DEF PaidInv
<1>3. CASE events' = events \ {e} /\ UNCHANGED task
  <2>1. Working' = Working /\ \A u \in Working : task'[u].event = task[u].event
    BY <1>3 DEF Working
  <2>2. ASSUME NEW s \in Subscriptions
        PROVE  Balanced(s)'
    <3>1. InHand(s)' \subseteq InHand(s) /\ Waiting(s)' \subseteq Waiting(s)
      BY <1>0, <1>3, <2>1, HandsKept
    <3> QED
      BY <1>0, <1>1, <3>1, QuietBalance
  <2>3. LinksOwned'
    BY <1>0, LinksStayOwned DEF PaidInv
  <2>4. ASSUME NEW u \in Tasks
        PROVE  Closes(task[u])'
    <3>1. PICK r : r = task[u]
      OBVIOUS
    <3> QED
      BY <1>0, <1>3, <3>1, ClosesStays DEF Closes
  <2> QED
    BY <2>1, <2>2, <2>3, <2>4 DEF PaidInv
<1> QED
  BY <1>2, <1>3 DEF Delivered

(***************************************************************************)
(* Razorpay, the runs, deletions and restarts.                             *)
(***************************************************************************)
LEMMA SendPaid ==
    ASSUME Inv, PaidInv, NEW e \in Event, Send(e),
           e.type = "link" => cases[e.of].of \in Subscriptions
    PROVE  PaidInv'
<1>0. /\ sent' = sent \cup {e} /\ events' = events \cup {e} /\ e \notin sent
      /\ cases' = cases /\ task' = task /\ extras' = extras
  BY DEF Send, rowVars
<1>1. Working' = Working
  BY <1>0 DEF Working
<1>2. LinksOwned'
  BY <1>0 DEF LinksOwned, PaidInv
<1>3. \A u \in Tasks : Closes(task[u])'
  BY <1>0 DEF Closes, Owner, PaidInv
<1>4. \A d, s : IsPayment(d, s)' = IsPayment(d, s)
  BY <1>0 DEF IsPayment, Owner
<1>5. ASSUME NEW s \in Subscriptions
      PROVE  Balanced(s)'
  <2>1. RecoveredCases(s)' = RecoveredCases(s)
    BY <1>0 DEF RecoveredCases
  <2>2. InHand(s)' = InHand(s)
    BY <1>0, <1>1 DEF InHand, IsPayment, Owner
  <2>3. CASE IsPayment(e, s)
    <3>1. PaidBy(s)' = PaidBy(s) \cup {e} /\ e \notin PaidBy(s)
      BY <1>0, <1>4, <2>3 DEF PaidBy
    <3>2. Cardinality(PaidBy(s)') = Cardinality(PaidBy(s)) + 1
      BY <3>1, Finite, FS_AddElement
    <3>3. Waiting(s)' \subseteq Waiting(s) \cup {e}
      BY <1>0, <1>1, <1>4 DEF Waiting
    <3>4. IsFiniteSet(Waiting(s)') /\ Cardinality(Waiting(s)') <= Cardinality(Waiting(s)) + 1
      BY <3>3, Finite, OneMore
    <3>5. Cardinality(Waiting(s)') \in Nat
      BY <3>4, FS_CardinalityType
    <3>6. Balanced(s)
      BY DEF PaidInv
    <3> QED
      BY <1>0, <2>1, <2>2, <3>2, <3>4, <3>5, <3>6, Finite DEF Balanced
  <2>4. CASE ~IsPayment(e, s)
    <3>1. PaidBy(s)' = PaidBy(s)
      BY <1>0, <1>4, <2>4 DEF PaidBy
    <3>2. Waiting(s)' \subseteq Waiting(s)
      BY <1>0, <1>1, <1>4, <2>4 DEF Waiting
    <3>3. IsFiniteSet(Waiting(s)') /\ Cardinality(Waiting(s)') <= Cardinality(Waiting(s))
      BY <3>2, Finite, Fewer
    <3>4. Cardinality(Waiting(s)') \in Nat
      BY <3>3, FS_CardinalityType
    <3>5. Balanced(s)
      BY DEF PaidInv
    <3> QED
      BY <1>0, <2>1, <2>2, <3>1, <3>3, <3>4, <3>5, Finite DEF Balanced
  <2> QED
    BY <2>3, <2>4
<1> QED
  BY <1>1, <1>2, <1>3, <1>5 DEF PaidInv

LEMMA RazorpayPaid ==
    ASSUME Inv, PaidInv, \/ \E s \in Subscriptions : Bill(s)
                         \/ \E m \in Mandates : TokenChanges(m)
                         \/ \E c \in CaseIds : PayLink(c)
    PROVE  PaidInv'
<1>1. ASSUME NEW s \in Subscriptions, Bill(s)
      PROVE  PaidInv'
  <2>1. ASSUME NEW type \in {"charged", "pending", "halted"}
        PROVE  InCycle(s, type) \in Event /\ InCycle(s, type).type # "link"
    BY <1>1, CycleInRange DEF InCycle, Event, Billing
  <2> QED
    BY <1>1, <2>1, SendPaid DEF Bill
<1>2. ASSUME NEW m \in Mandates, TokenChanges(m)
      PROVE  PaidInv'
  <2>1. ASSUME NEW type \in {"confirmed", "rejected", "paused", "cancelled"}
        PROVE  TokenOf(m, type) \in Event /\ TokenOf(m, type).type # "link"
    BY DEF TokenOf, Event, Tokens
  <2> QED
    BY <1>2, <2>1, SendPaid DEF TokenChanges
<1>3. ASSUME NEW c \in CaseIds, PayLink(c)
      PROVE  PaidInv'
  <2> DEFINE e == [type |-> "link", of |-> c]
  <2>1. e \in Event /\ e.of = c /\ cases[c].of \in Subscriptions /\ Send(e)
    BY <1>3 DEF Event, Links, PayLink
  <2> QED
    BY <2>1, SendPaid
<1> QED
  BY <1>1, <1>2, <1>3

LEMMA RunPaid ==
    ASSUME Inv, PaidInv, NEW c \in CaseIds, RunAct(c)
    PROVE  PaidInv'
<1>1. task' = task /\ sent' = sent /\ events' = events /\ extras' = extras
  BY DEF RunAct, envVars
<1>3. CASE SetCase(c, Escalated(c))
  <2>1. Escalated(c).of = cases[c].of /\ Escalated(c).outcome = cases[c].outcome
    BY WrittenRow DEF Escalated, Active, Inv
  <2> QED
    BY <1>1, <1>3, <2>1, CaseWriteKeeps, Finite, PaidOther DEF Inv
<1>4. ASSUME NEW s \in {"IN_PROGRESS", "EXHAUSTED"}, SetCase(c, Written(c, s))
      PROVE  PaidInv'
  <2> DEFINE r == Written(c, s)
  <2>1. r.of = cases[c].of /\ r.outcome = cases[c].outcome
    BY WrittenRow DEF Active, Inv
  <2>2. SetCase(c, r)
    BY <1>4
  <2> HIDE DEF r
  <2> QED
    BY <1>1, <2>1, <2>2, CaseWriteKeeps, Finite, PaidOther DEF Inv
<1>5. CASE UNCHANGED rowVars
  BY <1>1, <1>5, CasesSame, Finite, PaidOther DEF rowVars
<1> QED
  BY <1>3, <1>4, <1>5 DEF RunAct

\* What the deliveries in hand held waits again.
LEMMA RestartPaid ==
    ASSUME Inv, PaidInv, BackendRestart
    PROVE  PaidInv'
<1>0. /\ CasesKeep /\ OfStays /\ task' = [t \in Tasks |-> IdleTask] /\ sent' = sent
      /\ events' = events /\ extras' = extras + 1 /\ extras \in Nat
  BY CasesSame, KeepsOf, Finite DEF BackendRestart, Extra, rowVars
<1>1. Working' = {}
  BY <1>0, IdleCloses DEF Working
<1>2. \A u \in Tasks : Closes(task[u])'
  BY <1>0, IdleCloses DEF Closes
<1>3. ASSUME NEW s \in Subscriptions
      PROVE  Balanced(s)'
  <2> DEFINE Given == {task[t].event : t \in InHand(s)}
  <2>1. InHand(s)' = {}
    BY <1>1 DEF InHand
  <2>2. IsFiniteSet(Given) /\ Cardinality(Given) <= Cardinality(InHand(s))
    BY Finite, EventsInHand
  <2>3. Waiting(s)' \subseteq Waiting(s) \cup Given
    <3>1. ASSUME NEW e \in Waiting(s)', e \notin Waiting(s)
          PROVE  e \in Given
      <4>1. e \in events /\ IsPayment(e, s)
        BY <1>0, WaitingStays DEF Waiting
      <4>2. PICK u \in Working : task[u].event = e
        BY <3>1, <4>1 DEF Waiting
      <4> QED
        BY <4>1, <4>2 DEF InHand
    <3> QED
      BY <3>1
  <2> HIDE DEF Given
  <2>4. /\ IsFiniteSet(Waiting(s) \cup Given)
        /\ Cardinality(Waiting(s) \cup Given) <= Cardinality(Waiting(s)) + Cardinality(Given)
    BY <2>2, Finite, UnionAtMost
  <2>5. /\ IsFiniteSet(Waiting(s)')
        /\ Cardinality(Waiting(s)') <= Cardinality(Waiting(s) \cup Given)
    BY <2>3, <2>4, Fewer
  <2>6. /\ Cardinality(Waiting(s)') \in Nat /\ Cardinality(Waiting(s) \cup Given) \in Nat
        /\ Cardinality(Given) \in Nat /\ Cardinality(InHand(s)') = 0 /\ IsFiniteSet(InHand(s)')
    BY <2>1, <2>2, <2>4, <2>5, FS_CardinalityType, FS_EmptySet
  <2> QED
    BY <1>0, <2>2, <2>4, <2>5, <2>6, Finite, BalanceStep
<1>4. LinksOwned'
  BY <1>0, LinksStayOwned DEF PaidInv
<1> QED
  BY <1>1, <1>2, <1>3, <1>4 DEF PaidInv

LEMMA EnvironmentPaid ==
    ASSUME Inv, PaidInv, (\E e \in Entities : Delete(e)) \/ BackendRestart \/ UNCHANGED vars
    PROVE  PaidInv'
<1>1. ASSUME NEW e \in Entities, Delete(e)
      PROVE  PaidInv'
  <2>1. /\ CasesKeep /\ sent' = sent /\ events' = events /\ task' = task
        /\ extras' = extras + 1 /\ extras \in Nat
    BY <1>1, DeleteKeeps, Finite DEF Inv, Delete, Extra
  <2> QED
    BY <2>1, PaidOther
<1>2. CASE UNCHANGED vars
  <2>1. /\ CasesKeep /\ sent' = sent /\ events' = events /\ task' = task /\ extras' = extras
    BY <1>2, CasesSame DEF vars, rowVars, envVars
  <2> QED
    BY <2>1, Finite, PaidOther
<1> QED
  BY <1>1, <1>2, RestartPaid

LEMMA TaskStepPaid ==
    ASSUME Inv, PaidInv, NEW t \in Tasks, TaskStep(t)
    PROVE  PaidInv'
<1>1. t \in Working
  BY AtWorkIsWorking
<1> QED
  BY <1>1, FailureWritePaid, HaltedPaid, AssessPaid, ChargedPaid, TokenPaid, CloseReadPaid,
     CloseTransactionPaid DEF TaskStep

LEMMA PaidInvStep ==
    ASSUME Inv, PaidInv, [Next]_vars
    PROVE  PaidInv'
BY RazorpayPaid, RunPaid, TaskStepPaid, DeliveredPaid, EnvironmentPaid DEF Next

LEMMA InitPaid ==
    ASSUME Init
    PROVE  PaidInv
<1>1. sent = {} /\ events = {} /\ extras = 0 /\ Working = {}
  BY IdleCloses DEF Init, Working, IdleTask
<1>2. \A u \in Tasks : Closes(task[u])
  BY DEF Init, Closes, IdleTask
<1>3. ASSUME NEW s \in Subscriptions
      PROVE  Balanced(s)
  <2>1. RecoveredCases(s) = {} /\ InHand(s) = {} /\ Waiting(s) = {} /\ PaidBy(s) = {}
    BY <1>1 DEF Init, RecoveredCases, InHand, Waiting, PaidBy, NoCase
  <2> QED
    BY <1>1, <2>1, FS_EmptySet DEF Balanced
<1> QED
  BY <1>1, <1>2, <1>3, FS_EmptySet DEF PaidInv, LinksOwned

LEMMA AlwaysPaid == Spec => []PaidInv
<1>1. Init => PaidInv
  BY InitPaid
<1>2. Inv /\ PaidInv /\ [Next]_vars => PaidInv'
  BY PaidInvStep
<1> QED
  BY <1>1, <1>2, AlwaysInv, PTL DEF Spec

(***************************************************************************)
(* Counting failures.  A failed payment of a subscription is counted, or it*)
(* waits, or a delivery is about to count it.  Only what is delivered      *)
(* again, or what a restart cuts off after its write, is counted twice.    *)
(***************************************************************************)
IsFailure(e, s) == e.type = "pending" /\ e.of = s

ToCount(s)   == {t \in Tasks : task[t].pc = "s_write" /\ IsFailure(task[t].event, s)}
Uncounted(s) == {e \in events : IsFailure(e, s) /\ \A t \in Working : task[t].event # e}
Allowed      == extras * Cardinality(Tasks)

\* Some delivery has counted a failure.
Told(s) == \/ \E e \in sent \ events : IsFailure(e, s)
           \/ \E t \in Tasks : task[t].pc \in {"a_find", "a_create"} /\ IsFailure(task[t].event, s)

\* A deleted subscription counts no more, and its failures may wait again.
CountOf(s) ==
    /\ subscription[s].failed <= Cardinality(Pendings(s)) + Allowed
    /\ ~Deleted(s) => subscription[s].failed + Cardinality(ToCount(s)) + Cardinality(Uncounted(s))
                        <= Cardinality(Pendings(s)) + Allowed
    /\ ~Deleted(s) /\ PaidBy(s) = {} /\ Told(s) => subscription[s].failed > 0

CountInv == \A s \in Subscriptions : CountOf(s)

LEMMA Numbers ==
    ASSUME Inv, NEW s \in Subscriptions
    PROVE  /\ IsFiniteSet(ToCount(s)) /\ Cardinality(ToCount(s)) \in Nat
           /\ IsFiniteSet(Uncounted(s)) /\ Cardinality(Uncounted(s)) \in Nat
           /\ IsFiniteSet(Pendings(s)) /\ Cardinality(Pendings(s)) \in Nat
           /\ subscription[s].failed \in Nat /\ Allowed \in Nat /\ extras \in Nat
           /\ Cardinality(Tasks) \in Nat
<1>1. ToCount(s) \subseteq Tasks /\ Uncounted(s) \subseteq sent /\ Pendings(s) \subseteq sent
  BY DEF ToCount, Uncounted, Pendings, Inv, TypeOK
<1>2. IsFiniteSet(Tasks) /\ IsFiniteSet(sent)
  BY TasksAssumption DEF Inv
<1>3. IsFiniteSet(ToCount(s)) /\ IsFiniteSet(Uncounted(s)) /\ IsFiniteSet(Pendings(s))
  BY <1>1, <1>2, FS_Subset
<1>4. subscription[s].failed \in Nat /\ extras \in Nat
  BY DEF Inv, TypeOK, SubscriptionRow
<1>5. Cardinality(Tasks) \in Nat
  BY <1>2, FS_CardinalityType
<1> QED
  BY <1>3, <1>4, <1>5, FS_CardinalityType DEF Allowed

LEMMA AllowedGrows ==
    ASSUME Inv
    PROVE  /\ extras' = extras => Allowed' = Allowed
           /\ extras' = extras + 1 => Allowed' = Allowed + Cardinality(Tasks)
<1>1. extras \in Nat /\ Cardinality(Tasks) \in Nat
  BY TasksAssumption, FS_CardinalityType DEF Inv, TypeOK
<1> QED
  BY <1>1 DEF Allowed

\* The same payments as before.
LEMMA PaidBySame ==
    ASSUME Inv, PaidInv, RowsKeep, sent' = sent, NEW s \in Subscriptions
    PROVE  PaidBy(s)' = PaidBy(s) /\ Pendings(s)' = Pendings(s) /\ (Deleted(s) => Deleted(s)')
<1>1. OfStays /\ (Deleted(s) => Deleted(s)')
  BY DEF RowsKeep, OfStays, Entities
<1> QED
  BY <1>1, OwnerStays DEF PaidBy, PaidInv, Pendings

\* A step that leaves no more to count.
LEMMA CountShrinks ==
    ASSUME Inv, PaidInv, CountInv, RowsKeep, sent' = sent, NEW s \in Subscriptions,
           extras' = extras \/ extras' = extras + 1,
           subscription'[s].failed \in Nat, subscription'[s].failed <= subscription[s].failed,
           subscription'[s].failed = subscription[s].failed \/ PaidBy(s) # {},
           ~Deleted(s)' => /\ ToCount(s)' \subseteq ToCount(s) /\ Uncounted(s)' \subseteq Uncounted(s)
                           /\ Told(s)' => Told(s)
    PROVE  CountOf(s)'
<1>1. PaidBy(s)' = PaidBy(s) /\ Pendings(s)' = Pendings(s) /\ (Deleted(s) => Deleted(s)')
  BY PaidBySame
<1>2. Allowed' \in Nat /\ Allowed <= Allowed'
  BY AllowedGrows, Numbers
<1>3. ~Deleted(s)' => /\ Cardinality(ToCount(s)') <= Cardinality(ToCount(s))
                      /\ Cardinality(Uncounted(s)') <= Cardinality(Uncounted(s))
                      /\ Cardinality(ToCount(s)') \in Nat /\ Cardinality(Uncounted(s)') \in Nat
  BY Numbers, FS_Subset, FS_CardinalityType
<1>4. CountOf(s)
  BY DEF CountInv
<1>5. subscription'[s].failed <= Cardinality(Pendings(s)') + Allowed'
  BY <1>1, <1>2, <1>4, Numbers DEF CountOf
<1>6. ~Deleted(s)' =>
        subscription'[s].failed + Cardinality(ToCount(s)') + Cardinality(Uncounted(s)')
          <= Cardinality(Pendings(s)') + Allowed'
  BY <1>1, <1>2, <1>3, <1>4, Numbers DEF CountOf
<1>7. ~Deleted(s)' /\ PaidBy(s)' = {} /\ Told(s)' => subscription'[s].failed > 0
  BY <1>1, <1>4 DEF CountOf
<1> QED
  BY <1>5, <1>6, <1>7 DEF CountOf

\* A delivery ends, and what it held waits no more, unless it throws.
LEMMA EndOfDelivery ==
    ASSUME Inv, NEW t \in Working, Become(t, IdleTask), sent' = sent, NEW s \in Subscriptions,
           events' \subseteq events, NEW a, a = task[t].event,
           a \in events' => ~IsFailure(a, s)
    PROVE  ToCount(s)' \subseteq ToCount(s) /\ Uncounted(s)' \subseteq Uncounted(s)
<1>1. /\ Working' = Working \ {t} /\ t \in Tasks
      /\ \A u \in Tasks : task'[u] = IF u = t THEN IdleTask ELSE task[u]
  BY WorkingBecomes, IdleCloses DEF Working
<1>2. ToCount(s)' \subseteq ToCount(s)
  BY <1>1, IdleCloses DEF ToCount, IsFailure
<1>3. ASSUME NEW e \in Uncounted(s)'
      PROVE  e \in Uncounted(s)
  <2>1. e \in events' /\ IsFailure(e, s) /\ e # a
    BY DEF Uncounted, IsFailure
  <2>2. \A u \in Working : task[u].event # e
    BY <1>1, <2>1 DEF Uncounted, Working
  <2> QED
    BY <2>1, <2>2 DEF Uncounted
<1> QED
  BY <1>2, <1>3

LEMMA CountAnswer ==
    ASSUME Inv, PaidInv, CountInv, RowsKeep, NEW t \in Working, Answer(t), NEW s \in Subscriptions,
           subscription'[s].failed \in Nat, subscription'[s].failed <= subscription[s].failed,
           subscription'[s].failed = subscription[s].failed \/ PaidBy(s) # {},
           IsFailure(task[t].event, s) => task[t].pc \in {"a_find", "a_create"}
    PROVE  CountOf(s)'
<1>1. PICK a : a = task[t].event
  OBVIOUS
<1>2. /\ Become(t, IdleTask) /\ sent' = sent /\ extras' = extras /\ events' = events \ {a}
      /\ t \in Tasks
  BY <1>1 DEF Answer, Working
<1>3. ToCount(s)' \subseteq ToCount(s) /\ Uncounted(s)' \subseteq Uncounted(s)
  BY <1>1, <1>2, EndOfDelivery
<1>4. \A u \in Tasks : task'[u] = IF u = t THEN IdleTask ELSE task[u]
  BY <1>2, WorkingBecomes
<1>5. Told(s)' => Told(s)
  BY <1>1, <1>2, <1>4, IdleCloses DEF Told, IsFailure
<1> QED
  BY <1>2, <1>3, <1>5, CountShrinks

LEMMA CountThrow ==
    ASSUME Inv, PaidInv, CountInv, RowsKeep, NEW t \in Working, Throw(t), NEW s \in Subscriptions,
           IsFailure(task[t].event, s) => Deleted(s)
    PROVE  CountOf(s)'
<1>1. PICK a : a = task[t].event
  OBVIOUS
<1>2. /\ Become(t, IdleTask) /\ sent' = sent /\ extras' = extras /\ events' = events
      /\ subscription' = subscription /\ t \in Tasks /\ Deleted(s)' = Deleted(s)
  BY DEF Throw, Working, rowVars, envVars, Deleted
<1>3. \A u \in Tasks : task'[u] = IF u = t THEN IdleTask ELSE task[u]
  BY <1>2, WorkingBecomes
<1>4. Told(s)' => Told(s)
  BY <1>2, <1>3, IdleCloses DEF Told, IsFailure
<1>5. ~Deleted(s) => ToCount(s)' \subseteq ToCount(s) /\ Uncounted(s)' \subseteq Uncounted(s)
  BY <1>1, <1>2, EndOfDelivery
<1> QED
  BY <1>2, <1>4, <1>5, Numbers, CountShrinks

LEMMA CountMove ==
    ASSUME Inv, PaidInv, CountInv, RowsKeep, NEW t \in Working, NEW r, Become(t, r),
           r.pc \notin {"idle", "s_write"}, r.event = task[t].event, UNCHANGED <<subscription, envVars>>,
           NEW s \in Subscriptions,
           r.pc \in {"a_find", "a_create"} /\ IsFailure(r.event, s)
             => task[t].pc \in {"a_find", "a_create"}
    PROVE  CountOf(s)'
<1>1. /\ sent' = sent /\ extras' = extras /\ events' = events /\ subscription' = subscription
      /\ t \in Tasks
  BY DEF envVars, Working
<1>2. /\ Working' = Working
      /\ \A u \in Tasks : task'[u] = IF u = t THEN r ELSE task[u]
  BY <1>1, WorkingBecomes DEF Working
<1>3. ToCount(s)' \subseteq ToCount(s)
  BY <1>2 DEF ToCount, IsFailure
<1>4. Uncounted(s)' \subseteq Uncounted(s)
  BY <1>1, <1>2 DEF Uncounted, IsFailure, Working
<1>5. Told(s)' => Told(s)
  BY <1>1, <1>2 DEF Told, IsFailure
<1> QED
  BY <1>1, <1>3, <1>4, <1>5, Numbers, CountShrinks

LEMMA CountGoto ==
    ASSUME Inv, PaidInv, CountInv, RowsKeep, NEW t \in Working, NEW pc, Goto(t, pc),
           pc \notin {"idle", "s_write"}, UNCHANGED <<subscription, envVars>>,
           NEW s \in Subscriptions,
           pc \in {"a_find", "a_create"} /\ IsFailure(task[t].event, s)
             => task[t].pc \in {"a_find", "a_create"}
    PROVE  CountOf(s)'
<1>1. PICK r : r = [task[t] EXCEPT !.pc = pc]
  OBVIOUS
<1>2. task[t] \in Task
  BY DEF Working, Inv, TypeOK
<1>3. r.pc = pc /\ r.event = task[t].event /\ Become(t, r)
  BY <1>1, <1>2 DEF Task, Goto
<1> QED
  BY <1>3, CountMove

LEMMA CountWith ==
    ASSUME Inv, PaidInv, CountInv, RowsKeep, NEW t \in Working, NEW pc, NEW c, With(t, pc, c),
           pc \in {"h_read", "u_escalate"}, UNCHANGED <<subscription, envVars>>,
           NEW s \in Subscriptions
    PROVE  CountOf(s)'
<1>1. PICK r : r = [task[t] EXCEPT !.pc = pc, !.case = c]
  OBVIOUS
<1>2. task[t] \in Task
  BY DEF Working, Inv, TypeOK
<1>3. r.pc = pc /\ r.event = task[t].event /\ Become(t, r)
  BY <1>1, <1>2 DEF Task, With
<1> QED
  BY <1>3, CountMove

(***************************************************************************)
(* The handlers' steps.                                                    *)
(***************************************************************************)
\* The write counts what its delivery held.
LEMMA FailureWriteCounts ==
    ASSUME Inv, PaidInv, CountInv, RowsKeep, NEW t \in Working, FailureWrite(t),
           NEW s \in Subscriptions
    PROVE  CountOf(s)'
<1>0. t \in Tasks /\ task[t].pc = "s_write"
  BY DEF FailureWrite, At, Working
<1>1. PICK a : a = task[t].event
  OBVIOUS
<1>2. PICK o : o = EntityOf(t)
  OBVIOUS
<1>3. a.type \in {"pending", "halted"} /\ o = a.of /\ o \in Subscriptions
  BY <1>0, <1>1, <1>2, AtWork DEF Fits
<1>4. CASE Deleted(o) /\ Throw(t)
  BY <1>1, <1>3, <1>4, CountThrow DEF IsFailure
<1>5. CASE /\ ~Deleted(o) /\ SetSubscription(o, Failing(t, subscription[o]))
           /\ Goto(t, IF Is(t, "pending") THEN "a_find" ELSE "u_find") /\ UNCHANGED envVars
  <2>1. /\ sent' = sent /\ events' = events /\ extras' = extras
    BY <1>5 DEF envVars
  <2>2. PICK r : r = [task[t] EXCEPT !.pc = IF Is(t, "pending") THEN "a_find" ELSE "u_find"]
    OBVIOUS
  <2>3. /\ Become(t, r) /\ r.event = a
        /\ r.pc = IF a.type = "pending" THEN "a_find" ELSE "u_find"
    BY <1>0, <1>1, <1>5, <2>2 DEF Goto, Is, Inv, TypeOK, Task
  <2>4. /\ Working' = Working
        /\ \A u \in Tasks : task'[u] = IF u = t THEN r ELSE task[u]
    BY <1>0, <2>3, WorkingBecomes DEF Working
  <2>5. /\ PaidBy(s)' = PaidBy(s) /\ Pendings(s)' = Pendings(s) /\ Allowed' = Allowed
        /\ (Deleted(s) => Deleted(s)')
    BY <2>1, PaidBySame, AllowedGrows
  <2>6. Uncounted(s)' \subseteq Uncounted(s)
    BY <1>1, <2>1, <2>3, <2>4 DEF Uncounted, IsFailure, Working
  <2>7. \A z \in Subscriptions : subscription'[z].failed =
          subscription[z].failed + IF z = o /\ a.type = "pending" THEN 1 ELSE 0
    <3>1. \A z \in Subscriptions :
            subscription'[z] = IF z = o THEN Failing(t, subscription[o]) ELSE subscription[z]
      BY <1>3, <1>5 DEF SetSubscription, Inv, TypeOK
    <3>2. Failing(t, subscription[o]).failed
            = subscription[o].failed + IF a.type = "pending" THEN 1 ELSE 0
      BY <1>1 DEF Failing, Is
    <3> QED
      BY <3>1, <3>2, Numbers
  <2>8. CASE s = o /\ a.type = "pending"
    <3>1. t \in ToCount(s) /\ ToCount(s)' \subseteq ToCount(s) \ {t}
      BY <1>0, <1>1, <1>3, <2>3, <2>4, <2>8 DEF ToCount, IsFailure
    <3>2. /\ IsFiniteSet(ToCount(s)') /\ Cardinality(ToCount(s)') + 1 <= Cardinality(ToCount(s))
          /\ Cardinality(Uncounted(s)') <= Cardinality(Uncounted(s))
          /\ Cardinality(ToCount(s)') \in Nat /\ Cardinality(Uncounted(s)') \in Nat
      <4>1. IsFiniteSet(ToCount(s)') /\ Cardinality(ToCount(s)') + 1 <= Cardinality(ToCount(s))
        BY <3>1, Numbers, OneLess
      <4>2. IsFiniteSet(Uncounted(s)') /\ Cardinality(Uncounted(s)') <= Cardinality(Uncounted(s))
        BY <2>6, Numbers, Fewer
      <4> QED
        BY <4>1, <4>2, FS_CardinalityType
    <3>3. CountOf(s) /\ subscription'[s].failed = subscription[s].failed + 1
      BY <2>7, <2>8 DEF CountInv
    <3> QED
      BY <1>5, <2>5, <2>8, <3>2, <3>3, Numbers DEF CountOf
  <2>9. CASE ~(s = o /\ a.type = "pending")
    <3>1. subscription'[s].failed = subscription[s].failed /\ subscription[s].failed \in Nat
      BY <2>7, <2>9, Numbers
    <3>2. ToCount(s)' \subseteq ToCount(s)
      BY <2>3, <2>4 DEF ToCount, IsFailure
    <3>3. Told(s)' => Told(s)
      BY <1>3, <2>1, <2>3, <2>4, <2>9 DEF Told, IsFailure
    <3> QED
      BY <2>1, <2>6, <3>1, <3>2, <3>3, CountShrinks
  <2> QED
    BY <2>8, <2>9
<1> QED
  BY <1>2, <1>4, <1>5 DEF FailureWrite

LEMMA EscalateCounts ==
    ASSUME Inv, PaidInv, CountInv, RowsKeep, NEW t \in Working, task[t].event.type = "halted",
           NEW c, Escalate(t, c), subscription' = subscription, NEW s \in Subscriptions
    PROVE  CountOf(s)'
<1>1. CASE Answer(t)
  BY <1>1, Numbers, CountAnswer DEF IsFailure
<1>2. CASE With(t, "u_escalate", c) /\ UNCHANGED envVars
  BY <1>2, CountWith
<1> QED
  BY <1>1, <1>2 DEF Escalate

LEMMA HaltedCounts ==
    ASSUME Inv, PaidInv, CountInv, RowsKeep, NEW t \in Working, HaltedFind(t) \/ HaltedEscalate(t),
           NEW s \in Subscriptions
    PROVE  CountOf(s)'
<1>1. t \in Tasks /\ task[t].event.type = "halted"
  BY AtWork DEF HaltedFind, HaltedEscalate, At, Fits, Working
<1>2. CASE HaltedFind(t)
  <2>1. subscription' = subscription
    BY <1>2 DEF HaltedFind, rowVars
  <2>2. (\E c : Escalate(t, c)) \/ (Goto(t, "a_find") /\ UNCHANGED envVars)
    BY <1>2 DEF HaltedFind
  <2> QED
    BY <1>1, <2>1, <2>2, EscalateCounts, CountGoto DEF IsFailure
<1>3. CASE HaltedEscalate(t)
  <2>1. CASE Throw(t)
    BY <1>1, <2>1, CountThrow DEF IsFailure
  <2>2. CASE subscription' = subscription /\ Answer(t)
    BY <1>1, <2>2, Numbers, CountAnswer DEF IsFailure
  <2> QED
    BY <1>3, <2>1, <2>2 DEF HaltedEscalate, SetCase
<1> QED
  BY <1>2, <1>3

LEMMA AssessCounts ==
    ASSUME Inv, PaidInv, CountInv, RowsKeep, NEW t \in Working, AssessFind(t) \/ AssessCreate(t),
           NEW s \in Subscriptions
    PROVE  CountOf(s)'
<1>1. t \in Tasks /\ task[t].pc \in {"a_find", "a_create"} /\ EntityOf(t) = task[t].event.of
  BY AtWork DEF AssessFind, AssessCreate, At, Fits, Working, Assessed, Failures
<1>2. CASE Deleted(EntityOf(t)) /\ Throw(t)
  BY <1>1, <1>2, CountThrow DEF IsFailure
<1>3. CASE Goto(t, "a_create") /\ UNCHANGED <<subscription, envVars>>
  BY <1>1, <1>3, CountGoto
<1>4. ASSUME NEW c, NEW fresh, AssessedAs(t, c, fresh), subscription' = subscription
      PROVE  CountOf(s)'
  <2>1. CASE Answer(t)
    BY <1>1, <1>4, <2>1, Numbers, CountAnswer
  <2>2. CASE With(t, "u_escalate", c) /\ UNCHANGED envVars
    BY <1>4, <2>2, CountWith
  <2> QED
    BY <1>4, <2>1, <2>2 DEF AssessedAs, Escalate
<1>5. CASE AssessFind(t)
  BY <1>2, <1>3, <1>4, <1>5 DEF AssessFind, rowVars
<1>6. CASE AssessCreate(t)
  BY <1>2, <1>4, <1>6 DEF AssessCreate, SetCase
<1> QED
  BY <1>5, <1>6

\* A count is cleared only for money.
LEMMA ChargedCounts ==
    ASSUME Inv, PaidInv, CountInv, RowsKeep, NEW t \in Working, ChargedFind(t) \/ ChargedReset(t),
           NEW s \in Subscriptions
    PROVE  CountOf(s)'
<1>1. /\ t \in Tasks /\ task[t].event.type = "charged" /\ task[t].event \in sent
      /\ EntityOf(t) \in Subscriptions
  BY AtWork DEF ChargedFind, ChargedReset, At, Fits, Working
<1>2. CASE ChargedFind(t)
  <2>1. UNCHANGED <<subscription, envVars>>
    BY <1>2 DEF ChargedFind, rowVars
  <2>2. (\E c : With(t, "h_read", c)) \/ Goto(t, "c_reset")
    BY <1>2 DEF ChargedFind
  <2> QED
    BY <2>1, <2>2, CountWith, CountGoto
<1>3. CASE ChargedReset(t)
  <2> DEFINE o == EntityOf(t)
  <2>1. CASE Throw(t)
    BY <1>1, <2>1, CountThrow DEF IsFailure
  <2>2. CASE SetSubscription(o, Reset(o)) /\ Answer(t)
    <3>1. \A z \in Subscriptions :
            subscription'[z] = IF z = o THEN Reset(o) ELSE subscription[z]
      BY <1>1, <2>2 DEF SetSubscription, Inv, TypeOK
    <3>2. Reset(o).failed = 0
      BY <1>1, ResetRow DEF Inv
    <3>3. s = o => PaidBy(s) # {}
      BY <1>1 DEF PaidBy, IsPayment, EntityOf
    <3>4. /\ subscription'[s].failed \in Nat /\ subscription'[s].failed <= subscription[s].failed
          /\ subscription'[s].failed = subscription[s].failed \/ PaidBy(s) # {}
      BY <3>1, <3>2, <3>3, Numbers
    <3> QED
      BY <1>1, <2>2, <3>4, CountAnswer DEF IsFailure
  <2> QED
    BY <1>3, <2>1, <2>2 DEF ChargedReset
<1> QED
  BY <1>2, <1>3

LEMMA CloseCounts ==
    ASSUME Inv, PaidInv, CountInv, RowsKeep, NEW t \in Working, CloseRead(t) \/ CloseTransaction(t),
           NEW s \in Subscriptions
    PROVE  CountOf(s)'
<1> DEFINE c == task[t].case
<1>1. /\ t \in Tasks /\ task[t].pc \in {"h_read", "h_tx"} /\ task[t].event \in sent
      /\ task[t].event.type \in {"charged", "link"} /\ c \in CaseIds
  BY AtWork DEF CloseRead, CloseTransaction, At, Fits, Working
<1>2. cases[c].of = Owner(task[t].event)
  BY <1>1 DEF PaidInv, Closes
<1>3. ~IsFailure(task[t].event, s)
  BY <1>1 DEF IsFailure
<1>4. CASE Throw(t)
  BY <1>3, <1>4, CountThrow
<1>5. CASE subscription' = subscription /\ Answer(t)
  BY <1>3, <1>5, Numbers, CountAnswer
<1>6. CASE subscription' = subscription /\ Goto(t, "h_tx") /\ UNCHANGED envVars
  BY <1>6, CountGoto
<1>7. CASE /\ subscription' = [subscription EXCEPT ![cases[c].of] = Reset(cases[c].of)]
           /\ Answer(t)
  <2>1. \A z \in Subscriptions :
          subscription'[z] = IF z = cases[c].of THEN Reset(z) ELSE subscription[z]
    BY <1>7 DEF Inv, TypeOK
  <2>2. Reset(s).failed = 0
    BY ResetRow DEF Inv
  <2>3. s = cases[c].of => PaidBy(s) # {}
    BY <1>1, <1>2 DEF PaidBy, IsPayment
  <2>4. /\ subscription'[s].failed \in Nat /\ subscription'[s].failed <= subscription[s].failed
        /\ subscription'[s].failed = subscription[s].failed \/ PaidBy(s) # {}
    BY <2>1, <2>2, <2>3, Numbers
  <2> QED
    BY <1>3, <1>7, <2>4, CountAnswer
<1> QED
  BY <1>4, <1>5, <1>6, <1>7 DEF CloseRead, CloseTransaction, rowVars

LEMMA TokenCounts ==
    ASSUME Inv, PaidInv, CountInv, RowsKeep, NEW t \in Working, TokenWrite(t),
           NEW s \in Subscriptions
    PROVE  CountOf(s)'
<1>1. ~IsFailure(task[t].event, s)
  BY AtWork DEF TokenWrite, At, Fits, Working, IsFailure
<1>2. CASE Throw(t)
  BY <1>1, <1>2, CountThrow
<1>3. CASE /\ subscription' = subscription
           /\ Answer(t) \/ (Goto(t, "a_find") /\ UNCHANGED envVars)
  BY <1>1, <1>3, Numbers, CountAnswer, CountGoto
<1> QED
  BY <1>2, <1>3 DEF TokenWrite, SetMandate

LEMMA TaskStepCounts ==
    ASSUME Inv, PaidInv, CountInv, RowsKeep, NEW t \in Tasks, TaskStep(t)
    PROVE  CountInv'
<1>1. t \in Working
  BY AtWorkIsWorking
<1> QED
  BY <1>1, FailureWriteCounts, HaltedCounts, AssessCounts, ChargedCounts, CloseCounts, TokenCounts
     DEF TaskStep, CountInv

(***************************************************************************)
(* Deliveries, and the steps of no delivery.                               *)
(***************************************************************************)
\* A delivery of what waits moves it; any other is an extra one.
LEMMA DeliveredCounts ==
    ASSUME Inv, PaidInv, CountInv, RowsKeep, NEW t \in Tasks, NEW e \in sent, Delivered(t, e),
           NEW s \in Subscriptions
    PROVE  CountOf(s)'
<1> DEFINE k == [pc |-> FirstStep(e), event |-> e, case |-> IF e.type = "link" THEN e.of ELSE 0]
<1>0. /\ sent' = sent /\ t \notin Working /\ subscription' = subscription /\ e \in Event
      /\ Deleted(s)' = Deleted(s)
      /\ \/ extras' = extras /\ e \in events /\ \A u \in Tasks : task[u].event # e
         \/ extras' = extras + 1
  BY DEF Delivered, Extra, rowVars, Idle, Working, Inv, TypeOK, Deleted
<1>1. subscription'[s].failed = subscription[s].failed /\ subscription[s].failed \in Nat
  BY <1>0, Numbers
<1>2. CASE Become(t, k) /\ UNCHANGED events
  <2>1. PICK r : r = k
    OBVIOUS
  <2>2. r.event = e /\ r.pc \notin {"idle", "a_find", "a_create"} /\ Become(t, r)
    BY <1>2, <2>1 DEF FirstStep
  <2>3. /\ Working' = Working \cup {t}
        /\ \A u \in Tasks : task'[u] = IF u = t THEN r ELSE task[u]
    BY <2>2, WorkingBecomes
  <2>4. Told(s)' => Told(s)
    BY <1>0, <1>2, <2>2, <2>3 DEF Told, IsFailure
  <2>5. Uncounted(s)' \subseteq Uncounted(s) \ {e}
    BY <1>0, <1>2, <2>2, <2>3 DEF Uncounted, IsFailure, Working
  <2>6. CASE ~IsFailure(e, s)
    <3>1. ToCount(s)' \subseteq ToCount(s)
      BY <2>2, <2>3, <2>6 DEF ToCount, IsFailure
    <3> QED
      BY <1>0, <1>1, <2>4, <2>5, <3>1, CountShrinks
  <2>7. CASE IsFailure(e, s)
    <3>1. ToCount(s)' \subseteq ToCount(s) \cup {t}
      BY <2>3 DEF ToCount, IsFailure
    <3>2. IsFiniteSet(ToCount(s)') /\ Cardinality(ToCount(s)') <= Cardinality(ToCount(s)) + 1
      BY <3>1, Numbers, OneMore
    <3>3. /\ PaidBy(s)' = PaidBy(s) /\ Pendings(s)' = Pendings(s)
          /\ Cardinality(ToCount(s)') \in Nat /\ CountOf(s)
      BY <1>0, <3>2, PaidBySame, FS_CardinalityType DEF CountInv
    <3>4. CASE extras' = extras /\ e \in events /\ \A u \in Tasks : task[u].event # e
      <4>1. e \in Uncounted(s)
        BY <2>7, <3>4 DEF Uncounted, Working
      <4>2. IsFiniteSet(Uncounted(s)') /\ Cardinality(Uncounted(s)') + 1 <= Cardinality(Uncounted(s))
        BY <2>5, <4>1, Numbers, OneLess
      <4>3. Cardinality(Uncounted(s)') \in Nat /\ Allowed' = Allowed
        BY <3>4, <4>2, FS_CardinalityType, AllowedGrows
      <4> QED
        BY <1>0, <1>1, <2>4, <3>2, <3>3, <4>2, <4>3, Numbers DEF CountOf
    <3>5. CASE extras' = extras + 1
      <4>1. IsFiniteSet(Uncounted(s)') /\ Cardinality(Uncounted(s)') <= Cardinality(Uncounted(s))
        BY <2>5, Numbers, Fewer
      <4>2. Cardinality(Uncounted(s)') \in Nat /\ Allowed' = Allowed + Cardinality(Tasks)
        BY <3>5, <4>1, FS_CardinalityType, AllowedGrows
      <4>3. Cardinality(Tasks) >= 1
        BY TasksAssumption, FS_EmptySet, FS_CardinalityType
      <4> QED
        BY <1>0, <1>1, <2>4, <3>2, <3>3, <4>1, <4>2, <4>3, Numbers DEF CountOf
    <3> QED
      BY <1>0, <3>4, <3>5
  <2> QED
    BY <2>6, <2>7
<1>3. CASE ~(Recognized(e) /\ ~Duplicate(e)) /\ events' = events \ {e} /\ UNCHANGED task
  <2>1. IsFailure(e, s) => Deleted(s)
    BY <1>3 DEF Recognized, Duplicate, IsFailure
  <2>2. ToCount(s)' \subseteq ToCount(s) /\ Uncounted(s)' \subseteq Uncounted(s)
    BY <1>3 DEF ToCount, Uncounted, Working, IsFailure
  <2>3. ~Deleted(s) => (Told(s)' => Told(s))
    BY <1>0, <1>3, <2>1 DEF Told, IsFailure
  <2> QED
    BY <1>0, <1>1, <2>2, <2>3, CountShrinks
<1> QED
  BY <1>2, <1>3 DEF Delivered

LEMMA SendCounts ==
    ASSUME Inv, PaidInv, CountInv, NEW e \in Event, Send(e), NEW s \in Subscriptions
    PROVE  CountOf(s)'
<1>0. /\ sent' = sent \cup {e} /\ events' = events \cup {e} /\ e \notin sent
      /\ cases' = cases /\ task' = task /\ extras' = extras /\ subscription' = subscription
      /\ Working' = Working /\ Deleted(s)' = Deleted(s) /\ Allowed' = Allowed
  BY DEF Send, rowVars, Working, Deleted, Allowed
<1>1. ToCount(s)' = ToCount(s) /\ (Told(s)' => Told(s))
  BY <1>0 DEF ToCount, Told, IsFailure
<1>2. PaidBy(s) \subseteq PaidBy(s)'
  BY <1>0 DEF PaidBy, IsPayment, Owner
<1>3. CountOf(s)
  BY DEF CountInv
<1>4. CASE IsFailure(e, s)
  <2>1. Pendings(s)' = Pendings(s) \cup {e} /\ e \notin Pendings(s)
    BY <1>0, <1>4 DEF Pendings, IsFailure
  <2>2. Cardinality(Pendings(s)') = Cardinality(Pendings(s)) + 1
    BY <2>1, Numbers, FS_AddElement
  <2>3. Uncounted(s)' \subseteq Uncounted(s) \cup {e}
    BY <1>0 DEF Uncounted, IsFailure
  <2>4. IsFiniteSet(Uncounted(s)') /\ Cardinality(Uncounted(s)') <= Cardinality(Uncounted(s)) + 1
    BY <2>3, Numbers, OneMore
  <2>5. Cardinality(Uncounted(s)') \in Nat
    BY <2>4, FS_CardinalityType
  <2> QED
    BY <1>0, <1>1, <1>2, <1>3, <2>2, <2>4, <2>5, Numbers DEF CountOf
<1>5. CASE ~IsFailure(e, s)
  <2>1. Pendings(s)' = Pendings(s)
    BY <1>0, <1>5 DEF Pendings, IsFailure
  <2>2. Uncounted(s)' \subseteq Uncounted(s)
    BY <1>0, <1>5 DEF Uncounted, IsFailure
  <2>3. IsFiniteSet(Uncounted(s)') /\ Cardinality(Uncounted(s)') <= Cardinality(Uncounted(s))
    BY <2>2, Numbers, Fewer
  <2>4. Cardinality(Uncounted(s)') \in Nat
    BY <2>3, FS_CardinalityType
  <2> QED
    BY <1>0, <1>1, <1>2, <1>3, <2>1, <2>3, <2>4, Numbers DEF CountOf
<1> QED
  BY <1>4, <1>5

LEMMA RazorpayCounts ==
    ASSUME Inv, PaidInv, CountInv, \/ \E s \in Subscriptions : Bill(s)
                                   \/ \E m \in Mandates : TokenChanges(m)
                                   \/ \E c \in CaseIds : PayLink(c)
    PROVE  CountInv'
<1>1. \E e \in Event : Send(e)
  <2>1. ASSUME NEW s \in Subscriptions, Bill(s), NEW type \in {"charged", "pending", "halted"}
        PROVE  InCycle(s, type) \in Event
    BY <2>1, CycleInRange DEF InCycle, Event, Billing
  <2>2. ASSUME NEW m \in Mandates, NEW type \in {"confirmed", "rejected", "paused", "cancelled"}
        PROVE  TokenOf(m, type) \in Event
    BY DEF TokenOf, Event, Tokens
  <2>3. ASSUME NEW c \in CaseIds
        PROVE  [type |-> "link", of |-> c] \in Event
    BY DEF Event, Links
  <2> QED
    BY <2>1, <2>2, <2>3 DEF Bill, TokenChanges, PayLink
<1> QED
  BY <1>1, SendCounts DEF CountInv

\* A step that no delivery takes.
LEMMA OtherCounts ==
    ASSUME Inv, PaidInv, CountInv, RowsKeep, sent' = sent, events' = events, task' = task,
           extras' = extras \/ extras' = extras + 1, NEW s \in Subscriptions,
           subscription'[s].failed = subscription[s].failed
    PROVE  CountOf(s)'
<1>1. /\ ToCount(s)' \subseteq ToCount(s) /\ Uncounted(s)' \subseteq Uncounted(s)
      /\ Told(s)' => Told(s)
  BY DEF ToCount, Uncounted, Told, Working, IsFailure
<1> QED
  BY <1>1, Numbers, CountShrinks

\* What a restart cuts off may be counted once more for each delivery.
LEMMA RestartCounts ==
    ASSUME Inv, PaidInv, CountInv, RowsKeep, BackendRestart, NEW s \in Subscriptions
    PROVE  CountOf(s)'
<1>0. /\ task' = [t \in Tasks |-> IdleTask] /\ sent' = sent /\ events' = events
      /\ extras' = extras + 1 /\ subscription' = subscription /\ Deleted(s)' = Deleted(s)
  BY DEF BackendRestart, Extra, rowVars, Deleted
<1>1. /\ PaidBy(s)' = PaidBy(s) /\ Pendings(s)' = Pendings(s)
      /\ Allowed' = Allowed + Cardinality(Tasks)
  BY <1>0, PaidBySame, AllowedGrows
<1>2. ToCount(s)' = {} /\ (Told(s)' => Told(s))
  BY <1>0, IdleCloses DEF ToCount, Told, IsFailure, IdleTask
<1> DEFINE Given == {task[t].event : t \in Tasks}
<1>3. IsFiniteSet(Given) /\ Cardinality(Given) <= Cardinality(Tasks)
  BY TasksAssumption, EventsInHand
<1>4. Uncounted(s)' \subseteq Uncounted(s) \cup Given
  BY <1>0 DEF Uncounted, Working, IsFailure
<1> HIDE DEF Given
<1>5. /\ IsFiniteSet(Uncounted(s) \cup Given)
      /\ Cardinality(Uncounted(s) \cup Given) <= Cardinality(Uncounted(s)) + Cardinality(Given)
  BY <1>3, Numbers, UnionAtMost
<1>6. IsFiniteSet(Uncounted(s)') /\ Cardinality(Uncounted(s)') <= Cardinality(Uncounted(s) \cup Given)
  BY <1>4, <1>5, Fewer
<1>7. /\ Cardinality(Uncounted(s)') \in Nat /\ Cardinality(Uncounted(s) \cup Given) \in Nat
      /\ Cardinality(Given) \in Nat /\ Cardinality(ToCount(s)') = 0
  BY <1>2, <1>3, <1>5, <1>6, FS_CardinalityType, FS_EmptySet
<1>8. CountOf(s)
  BY DEF CountInv
<1> QED
  BY <1>0, <1>1, <1>2, <1>3, <1>5, <1>6, <1>7, <1>8, Numbers DEF CountOf

LEMMA EnvironmentCounts ==
    ASSUME Inv, PaidInv, CountInv, RowsKeep,
           \/ (\E e \in Entities : Delete(e)) \/ BackendRestart \/ UNCHANGED vars
           \/ \E c \in CaseIds : RunAct(c)
    PROVE  CountInv'
<1> SUFFICES ASSUME NEW s \in Subscriptions
             PROVE  CountOf(s)'
  BY DEF CountInv
<1>1. ASSUME NEW e \in Entities, Delete(e)
      PROVE  CountOf(s)'
  <2>1. sent' = sent /\ events' = events /\ task' = task /\ extras' = extras + 1
    BY <1>1 DEF Delete, Extra
  <2>2. subscription[s] \in SubscriptionRow
    BY DEF Inv, TypeOK
  <2>3. subscription'[s].failed = subscription[s].failed
    BY <1>1, <2>2 DEF Delete, SubscriptionRow, Inv, TypeOK
  <2> QED
    BY <2>1, <2>3, OtherCounts
<1>2. ASSUME NEW c \in CaseIds, RunAct(c)
      PROVE  CountOf(s)'
  BY <1>2, OtherCounts DEF RunAct, SetCase, rowVars, envVars
<1>3. CASE UNCHANGED vars
  BY <1>3, OtherCounts DEF vars, rowVars, envVars
<1> QED
  BY <1>1, <1>2, <1>3, RestartCounts

LEMMA CountInvStep ==
    ASSUME Inv, PaidInv, CountInv, [Next]_vars
    PROVE  CountInv'
<1>1. RowsKeep
  BY NextKeepsInv
<1> QED
  BY <1>1, RazorpayCounts, TaskStepCounts, DeliveredCounts, EnvironmentCounts DEF Next, CountInv

LEMMA InitCounts ==
    ASSUME Init
    PROVE  CountInv
<1> SUFFICES ASSUME NEW s \in Subscriptions
             PROVE  CountOf(s)
  BY DEF CountInv
<1>1. sent = {} /\ events = {} /\ extras = 0 /\ subscription[s].failed = 0
  BY DEF Init, NewSubscription
<1>2. ToCount(s) = {} /\ Uncounted(s) = {} /\ Pendings(s) = {} /\ ~Told(s)
  BY <1>1 DEF Init, ToCount, Uncounted, Pendings, Told, IdleTask
<1>3. Cardinality({}) = 0 /\ Allowed = 0
  BY <1>1, TasksAssumption, FS_EmptySet, FS_CardinalityType DEF Allowed
<1> QED
  BY <1>1, <1>2, <1>3 DEF CountOf

LEMMA AlwaysCount == Spec => []CountInv
<1>1. Init => CountInv
  BY InitCounts
<1>2. Inv /\ PaidInv /\ CountInv /\ [Next]_vars => CountInv'
  BY CountInvStep
<1> QED
  BY <1>1, <1>2, AlwaysInv, AlwaysPaid, PTL DEF Spec

(***************************************************************************)
(* The theorems.                                                           *)
(***************************************************************************)
\* Recurring.tla keeps its types.
THEOREM RecurringTypes == Spec => []TypeOK
<1>1. Inv => TypeOK
  BY DEF Inv
<1> QED
  BY <1>1, AlwaysInv, PTL

\* The webhook handlers answer no subscription.pending, subscription.halted or
\* token.rejected unless a case of that subscription or mandate was active after it
\* was reported, across redeliveries, restarts and deletions.
THEOREM FailuresHaveCases == Spec => []FailureHasCase
<1>1. Inv => FailureHasCase
  BY DEF Inv
<1> QED
  BY <1>1, AlwaysInv, PTL

\* The halted handler answers only if a case of the subscription was in a human's hands
\* after the halt was reported.
THEOREM HaltsAreEscalated == Spec => []HaltIsEscalated
<1>1. Inv => HaltIsEscalated
  BY DEF Inv
<1> QED
  BY <1>1, AlwaysInv, PTL

\* failedPaymentCount exceeds the subscription's failures by the repetitions at most, no
\* failure that is answered goes uncounted before money comes, and whichever handler
\* writes last, the count and the subscription's status do not contradict each other.
THEOREM CountsAgree == Spec => []CountAgrees
<1>1. ASSUME Inv, CountInv, NEW s \in Subscriptions
      PROVE  /\ Counted(s)
             /\ subscription[s].failed > 0 => subscription[s].status \in {"PAYMENT_FAILED", "DELETED"}
             /\ Pendings(s) \ events # {} /\ Payments(s) = 0 /\ ~Deleted(s)
                  => subscription[s].failed > 0
  <2>1. CountOf(s)
    BY <1>1 DEF CountInv
  <2>2. Payments(s) = Cardinality(PaidBy(s)) /\ IsFiniteSet(PaidBy(s))
    <3>1. PaidBy(s) \subseteq sent /\ IsFiniteSet(sent)
      BY <1>1 DEF PaidBy, Inv
    <3> QED
      BY <3>1, FS_Subset DEF Payments, PaidBy, IsPayment
  <2>3. Payments(s) = 0 => PaidBy(s) = {}
    BY <2>2, FS_EmptySet
  <2>4. Pendings(s) \ events # {} => Told(s)
    BY DEF Pendings, Told, IsFailure
  <2>5. subscription[s].failed > 0 => subscription[s].status \in {"PAYMENT_FAILED", "DELETED"}
    BY <1>1 DEF Inv, RowsOK, FailuresShow
  <2> QED
    BY <2>1, <2>3, <2>4, <2>5 DEF CountOf, Counted, Allowed
<1>2. Inv /\ CountInv => CountAgrees
  BY <1>1 DEF CountAgrees
<1> QED
  BY <1>2, AlwaysInv, AlwaysCount, PTL

\* The closes by subscription.charged and by a paid link record no more recoveries of a
\* subscription's cases than it had payments, but for one more with each repeated delivery
\* and each restart.
THEOREM RecoveriesAreBounded == Spec => []RecoveriesBounded
<1>1. ASSUME Inv, PaidInv, NEW s \in Subscriptions
      PROVE  Recoveries(s) <= Payments(s) + extras
  <2>1. Recoveries(s) = Cardinality(RecoveredCases(s)) /\ Payments(s) = Cardinality(PaidBy(s))
    BY DEF Recoveries, Payments, RecoveredCases, PaidBy, IsPayment
  <2>2. Balanced(s)
    BY <1>1 DEF PaidInv
  <2> QED
    BY <1>1, <2>1, <2>2, Finite DEF Balanced
<1>2. Inv /\ PaidInv => RecoveriesBounded
  BY <1>1 DEF RecoveriesBounded
<1> QED
  BY <1>2, AlwaysInv, AlwaysPaid, PTL
=============================================================================
