----------------------------- MODULE Recurring -----------------------------
(***************************************************************************)
(* Subscriptions and mandates: the subscription.charged, pending and       *)
(* halted, the token.confirmed, rejected, paused and cancelled handlers of *)
(* RazorpayWebhookService, assessSubscriptionFailure, assessMandateFailure,*)
(* the close of a subscription's case by a charge or by a paid link, and   *)
(* the deletion of either.                                                 *)
(*                                                                         *)
(* Razorpay delivers an event until it is answered and may deliver it      *)
(* again, in any order; a task is one delivery, and the backend may restart*)
(* between any two of its awaits.                                          *)
(***************************************************************************)
EXTENDS Naturals, FiniteSets

CONSTANTS
    Subscriptions, \* subscriptions of one merchant, created and authorized
    Mandates,      \* mandates of one merchant, each with its registration order
    None,          \* no event, no entity
    Tasks,         \* slots for concurrent deliveries
    MaxCases,      \* bound: RecoveryCase rows
    MaxCycles,     \* bound: charges of one subscription
    MaxSent,       \* bound: events Razorpay sends
    MaxBusy,       \* bound: subscriptions and mandates that anything happens to
    MaxExtras      \* bound: deletions, restarts, and deliveries of events that are
                   \* answered or in hand

ASSUME EntitiesAssumption == Subscriptions \cap Mandates = {} /\ None \notin Subscriptions \cup Mandates
ASSUME TasksAssumption    == IsFiniteSet(Tasks)
ASSUME BoundsAssumption   == {MaxCases, MaxCycles, MaxSent, MaxBusy, MaxExtras} \subseteq Nat

VARIABLES
    sent,          \* every event Razorpay has sent
    events,        \* those it still has to get an answer for
    subscription,  \* Subscription rows
    mandate,       \* Mandate rows
    cases,         \* RecoveryCase rows, by creation order
    task,          \* the local variables of each delivery
    acting,        \* the cases with a run under way
    extras         \* deletions, restarts and repeated deliveries so far

rowVars == <<subscription, mandate, cases>>
envVars == <<sent, events, extras>>
vars    == <<rowVars, envVars, task, acting>>

CaseIds  == 1 .. MaxCases
Entities == Subscriptions \cup Mandates

Active == {"ELIGIBLE", "IN_PROGRESS", "ESCALATED"}

SubscriptionRow == [status : {"ACTIVE", "PAYMENT_FAILED", "DELETED"}, failed : Nat]
NewSubscription == [status |-> "ACTIVE", failed |-> 0]

\* token says whether externalId is known.
MandateRow == [status : {"CREATED", "CONFIRMED", "REJECTED", "PAUSED", "CANCELLED", "DELETED"},
               token : BOOLEAN]
NewMandate == [status |-> "CREATED", token |-> FALSE]

\* What happened in a billing cycle, to a token, or to the link sent for a case.
Billing == [type : {"charged", "pending", "halted"}, of : Subscriptions, cycle : 1 .. MaxCycles]
Tokens  == [type : {"confirmed", "rejected", "paused", "cancelled"}, of : Mandates]
Links   == [type : {"link"}, of : CaseIds]
Event   == Billing \cup Tokens \cup Links

\* open and handed are history: the failures Razorpay had reported when the case last
\* stopped being active, and the halts when it last left a human's hands.
CaseRow == [of : Entities \cup {None}, outcome : BOOLEAN,
            open : SUBSET Event, handed : SUBSET Event,
            status : Active \cup {"NONE", "RECOVERED", "EXHAUSTED", "DELETED"}]
NoCase  == [of |-> None, outcome |-> FALSE, open |-> {}, handed |-> {}, status |-> "NONE"]

Pcs  == {"idle", "s_write", "t_write", "a_find", "a_create", "c_find", "c_reset", "h_read", "h_tx",
         "u_find", "u_escalate"}
Task == [pc : Pcs, event : Event \cup {None}, case : 0 .. MaxCases]

IdleTask == [pc |-> "idle", event |-> None, case |-> 0]

TypeOK ==
    /\ sent \subseteq Event /\ events \subseteq sent
    /\ subscription \in [Subscriptions -> SubscriptionRow]
    /\ mandate \in [Mandates -> MandateRow]
    /\ cases \in [CaseIds -> CaseRow]
    /\ task \in [Tasks -> Task]
    /\ acting \subseteq CaseIds
    /\ extras \in Nat

Init ==
    /\ sent = {} /\ events = {}
    /\ subscription = [s \in Subscriptions |-> NewSubscription]
    /\ mandate = [m \in Mandates |-> NewMandate]
    /\ cases = [c \in CaseIds |-> NoCase]
    /\ task = [t \in Tasks |-> IdleTask]
    /\ acting = {}
    /\ extras = 0
-----------------------------------------------------------------------------
(***************************************************************************)
(* Razorpay.                                                               *)
(***************************************************************************)
Owner(e) == IF e.type = "link" THEN cases[e.of].of ELSE e.of
Busy     == {Owner(e) : e \in sent}

Send(e) ==
    /\ e \notin sent /\ Cardinality(sent) < MaxSent
    /\ Cardinality(Busy \cup {Owner(e)}) <= MaxBusy
    /\ sent' = sent \cup {e} /\ events' = events \cup {e}
    /\ UNCHANGED <<rowVars, task, acting, extras>>

\* A cycle ends with its charge; a failed one is pending, and halted if Razorpay's
\* own retries are used up.
Cycle(s) == 1 + Cardinality({e \in sent : e.type = "charged" /\ e.of = s})
InCycle(s, type) == [type |-> type, of |-> s, cycle |-> Cycle(s)]

Bill(s) ==
    /\ Cycle(s) <= MaxCycles
    /\ \/ Send(InCycle(s, "charged"))
       \/ Send(InCycle(s, "pending"))
       \/ InCycle(s, "pending") \in sent /\ Send(InCycle(s, "halted"))

TokenOf(m, type) == [type |-> type, of |-> m]

Registered(m) == TokenOf(m, "confirmed") \in sent
Usable(m)     == Registered(m) /\ TokenOf(m, "cancelled") \notin sent

TokenChanges(m) ==
    \/ ~Registered(m) /\ TokenOf(m, "rejected") \notin sent
       /\ \E type \in {"confirmed", "rejected"} : Send(TokenOf(m, type))
    \/ Usable(m) /\ \E type \in {"paused", "cancelled"} : Send(TokenOf(m, type))

\* The customer of a subscription pays what a run sent.
PayLink(c) ==
    /\ cases[c].of \in Subscriptions
    /\ cases[c].status \notin {"NONE", "ELIGIBLE", "DELETED"}
    /\ Send([type |-> "link", of |-> c])
-----------------------------------------------------------------------------
\* Mutant: a case that is finished is taken for the case of a new failure.
AnyCaseOf(e) == {c \in CaseIds : cases[c].of = e}

CasesOf(e) == {c \in CaseIds : cases[c].of = e /\ cases[c].status \in Active}
Deleted(e) == IF e \in Subscriptions THEN subscription[e].status = "DELETED"
                                     ELSE mandate[e].status = "DELETED"

Idle(t)      == task[t].pc = "idle"
At(t, pc)    == task[t].pc = pc
Become(t, r) == task' = [task EXCEPT ![t] = r]
Goto(t, pc)  == Become(t, [task[t] EXCEPT !.pc = pc])
With(t, pc, c) == Become(t, [task[t] EXCEPT !.pc = pc, !.case = c])
EntityOf(t)  == Owner(task[t].event)
Is(t, type)  == task[t].event.type = type

\* The answer 200, and an error, upon which Razorpay delivers the event again.
Answer(t)    == /\ events' = events \ {task[t].event}
                /\ Become(t, IdleTask)
                /\ UNCHANGED <<sent, extras>>
Throw(t)     == Become(t, IdleTask) /\ UNCHANGED <<rowVars, envVars, acting>>

SetSubscription(s, r) == subscription' = [subscription EXCEPT ![s] = r] /\ UNCHANGED <<mandate, cases>>
SetMandate(m, r)      == mandate' = [mandate EXCEPT ![m] = r] /\ UNCHANGED <<subscription, cases>>
SetCase(c, r)         == cases' = [cases EXCEPT ![c] = r] /\ UNCHANGED <<subscription, mandate>>

\* The failures after which c was active, and the halts after which a human had it.
Reported(types) == {e \in sent : e.type \in types}
OpenDuring(c)   == IF cases[c].status \in Active
                   THEN Reported({"pending", "halted", "rejected"}) ELSE cases[c].open
HandedDuring(c) == IF cases[c].status = "ESCALATED"
                   THEN Reported({"halted"}) ELSE cases[c].handed

\* Every status write keeps the history; while the status tells it, no row need.
Written(c, s) ==
    [cases[c] EXCEPT !.status = s,
                     !.open   = IF s \in Active THEN {} ELSE OpenDuring(c),
                     !.handed = IF s = "ESCALATED" THEN {} ELSE HandedDuring(c)]

Escalated(c) == Written(c, "ESCALATED")

Extra == extras < MaxExtras /\ extras' = extras + 1

\* Which event is found to be somebody's: a token is unknown until it is confirmed.
Recognized(e) ==
    \/ e.type = "link" /\ cases[e.of].status # "DELETED"
    \/ e.type \in {"paused", "cancelled"} /\ ~Deleted(e.of) /\ mandate[e.of].token
    \/ e.type \in {"charged", "pending", "halted", "confirmed", "rejected"} /\ ~Deleted(e.of)

Duplicate(e) == e.type = "confirmed" /\ mandate[e.of].status = "CONFIRMED"

FirstStep(e) == CASE e.type \in {"pending", "halted"} -> "s_write"
                  [] e.type = "charged"               -> "c_find"
                  [] e.type = "link"                  -> "h_read"
                  [] OTHER                            -> "t_write"

Delivered(t, e) ==
    /\ Idle(t)
    /\ IF e \in events /\ \A u \in Tasks : task[u].event # e THEN UNCHANGED extras ELSE Extra
    /\ IF Recognized(e) /\ ~Duplicate(e)
       THEN /\ Become(t, [pc |-> FirstStep(e), event |-> e, case |-> IF e.type = "link" THEN e.of ELSE 0])
            /\ UNCHANGED events
       ELSE events' = events \ {e} /\ UNCHANGED task
    /\ UNCHANGED <<rowVars, acting, sent>>
-----------------------------------------------------------------------------
(***************************************************************************)
(* subscription.pending and halted, up to the assessment.                  *)
(***************************************************************************)
\* Mutant: a halt is counted like a failed payment.
FailingAlways(t, row) == [status |-> "PAYMENT_FAILED", failed |-> row.failed + 1]

Failing(t, row) ==
    [status |-> "PAYMENT_FAILED", failed |-> row.failed + (IF Is(t, "pending") THEN 1 ELSE 0)]

FailureWrite(t) ==
    LET s == EntityOf(t) IN
    /\ At(t, "s_write")
    /\ \/ Deleted(s) /\ Throw(t)
       \/ /\ ~Deleted(s)
          /\ SetSubscription(s, Failing(t, subscription[s]))
          /\ Goto(t, IF Is(t, "pending") THEN "a_find" ELSE "u_find")
          /\ UNCHANGED <<envVars, acting>>

\* Mutant: a case that was worked on is left to its run.
EscalateIfFresh(t, c) ==
    IF cases[c].status # "ELIGIBLE" THEN Answer(t) ELSE With(t, "u_escalate", c) /\ UNCHANGED envVars

\* An ESCALATED case is left as it is.
Escalate(t, c) ==
    \/ /\ cases[c].status = "ESCALATED"
       /\ Answer(t)
    \/ /\ cases[c].status # "ESCALATED"
       /\ With(t, "u_escalate", c)
       /\ UNCHANGED envVars

HaltedFind(t) ==
    LET found == CasesOf(EntityOf(t)) IN
    /\ At(t, "u_find")
    /\ \/ \E c \in found : Escalate(t, c)
       \/ found = {} /\ Goto(t, "a_find") /\ UNCHANGED envVars
    /\ UNCHANGED <<rowVars, acting>>

\* EscalationService.escalateRecoveryCase, on the case whatever it is by now.
HaltedEscalate(t) ==
    LET c == task[t].case IN
    /\ At(t, "u_escalate")
    /\ \/ cases[c].status = "DELETED" /\ Throw(t)
       \/ /\ cases[c].status # "DELETED"
          /\ SetCase(c, Escalated(c))
          /\ Answer(t)
          /\ UNCHANGED acting
-----------------------------------------------------------------------------
(***************************************************************************)
(* assessSubscriptionFailure and assessMandateFailure.                     *)
(***************************************************************************)
Stops(c) == cases[c].outcome \/ cases[c].status \in {"RECOVERED", "EXHAUSTED"}

AssessedAs(t, c, fresh) ==
    IF Is(t, "halted")
    THEN (IF fresh THEN With(t, "u_escalate", c) /\ UNCHANGED envVars ELSE Escalate(t, c)) /\ UNCHANGED acting
    ELSE /\ acting' = IF ~fresh /\ Stops(c) THEN acting ELSE acting \cup {c}
         /\ Answer(t)

AssessFind(t) ==
    LET e == EntityOf(t)
        found == CasesOf(e) IN
    /\ At(t, "a_find")
    /\ \/ Deleted(e) /\ Throw(t)
       \/ ~Deleted(e) /\ UNCHANGED rowVars /\ \E c \in found : AssessedAs(t, c, FALSE)
       \/ ~Deleted(e) /\ found = {} /\ Goto(t, "a_create") /\ UNCHANGED <<rowVars, envVars, acting>>

\* The foreign key refuses the case of a deleted entity.  With a full table (a bound)
\* the delivery hangs.
AssessCreate(t) ==
    LET e == EntityOf(t) IN
    /\ At(t, "a_create")
    /\ \/ Deleted(e) /\ Throw(t)
       \/ /\ ~Deleted(e)
          /\ \E c \in CaseIds :
               /\ cases[c].status = "NONE" /\ \A d \in CaseIds : d < c => cases[d].status # "NONE"
               /\ SetCase(c, [NoCase EXCEPT !.of = e, !.status = "ELIGIBLE"])
               /\ AssessedAs(t, c, TRUE)
-----------------------------------------------------------------------------
(***************************************************************************)
(* subscription.charged, payment_link.paid and closeRecoveryCase.          *)
(***************************************************************************)
\* findFirst without an order: any active case.
ChargedFind(t) ==
    LET found == CasesOf(EntityOf(t)) IN
    /\ At(t, "c_find")
    /\ \/ \E c \in found : With(t, "h_read", c)
       \/ found = {} /\ Goto(t, "c_reset")
    /\ UNCHANGED <<rowVars, envVars, acting>>

Reset(s) == [subscription[s] EXCEPT !.status = "ACTIVE", !.failed = 0]

ChargedReset(t) ==
    LET s == EntityOf(t) IN
    /\ At(t, "c_reset")
    /\ \/ Deleted(s) /\ Throw(t)
       \/ ~Deleted(s) /\ SetSubscription(s, Reset(s)) /\ Answer(t) /\ UNCHANGED acting

CloseRead(t) ==
    LET c == task[t].case IN
    /\ At(t, "h_read")
    /\ IF cases[c].status \in {"RECOVERED", "DELETED"} \/ cases[c].outcome
       THEN Answer(t)
       ELSE Goto(t, "h_tx") /\ UNCHANGED envVars
    /\ UNCHANGED <<rowVars, acting>>

\* Mutant: every open case of the subscription is closed with it.
AllRecovered(c) ==
    [d \in CaseIds |-> IF d \in CasesOf(cases[c].of) \cup {c}
                      THEN [Written(d, "RECOVERED") EXCEPT !.outcome = TRUE] ELSE cases[d]]

Recovered(c) == [cases EXCEPT ![c] = [Written(c, "RECOVERED") EXCEPT !.outcome = TRUE]]

\* One transaction; a second outcome counts as a duplicate, a deleted row as an error.
CloseTransaction(t) ==
    LET c == task[t].case IN
    /\ At(t, "h_tx")
    /\ \/ cases[c].status = "DELETED" /\ Throw(t)
       \/ /\ cases[c].status # "DELETED" /\ cases[c].outcome
          /\ Answer(t)
          /\ UNCHANGED <<rowVars, acting>>
       \/ /\ cases[c].status # "DELETED" /\ ~cases[c].outcome
          /\ cases' = Recovered(c)
          /\ subscription' = [subscription EXCEPT ![cases[c].of] = Reset(cases[c].of)]
          /\ Answer(t)
          /\ UNCHANGED <<mandate, acting>>
-----------------------------------------------------------------------------
(***************************************************************************)
(* token.*: the status is written, and all but a confirmation assessed.    *)
(***************************************************************************)
\* Mutant: a subscription's status.
TokenActive(t, row) == [status |-> "ACTIVE", token |-> TRUE]

TokenRow(t, row) ==
    CASE Is(t, "confirmed") -> [status |-> "CONFIRMED", token |-> TRUE]
      [] Is(t, "rejected")  -> [row EXCEPT !.status = "REJECTED"]
      [] Is(t, "paused")    -> [row EXCEPT !.status = "PAUSED"]
      [] OTHER              -> [row EXCEPT !.status = "CANCELLED"]

TokenWrite(t) ==
    LET m == EntityOf(t) IN
    /\ At(t, "t_write")
    /\ \/ Deleted(m) /\ Throw(t)
       \/ /\ ~Deleted(m)
          /\ SetMandate(m, TokenRow(t, mandate[m]))
          /\ IF Is(t, "confirmed") THEN Answer(t) ELSE Goto(t, "a_find") /\ UNCHANGED envVars
          /\ UNCHANGED acting
-----------------------------------------------------------------------------
(***************************************************************************)
(* Runs, deletions and restarts.                                           *)
(***************************************************************************)
\* What a run makes of the case, whatever that has become.  The strategy for a
\* mandate's root causes is ESCALATE_HUMAN, whatever the policies are.
RunAct(c) ==
    LET gone == cases[c].status = "DELETED" IN
    /\ c \in acting
    /\ acting' = acting \ {c}
    /\ \/ ~gone /\ SetCase(c, Escalated(c))
       \/ /\ ~gone /\ cases[c].of \in Subscriptions
          /\ \E s \in {"IN_PROGRESS", "EXHAUSTED"} : SetCase(c, Written(c, s))
       \/ UNCHANGED rowVars
    /\ UNCHANGED <<envVars, task>>

\* SubscriptionsService.delete and MandatesService.delete, with the cases.
WithoutCases(e) == [c \in CaseIds |-> IF cases[c].of = e THEN Written(c, "DELETED") ELSE cases[c]]

Delete(e) ==
    /\ ~Deleted(e)
    /\ Extra
    /\ Cardinality(Busy \cup {e}) <= MaxBusy
    /\ IF e \in Subscriptions
       THEN /\ subscription' = [subscription EXCEPT ![e].status = "DELETED"]
            /\ UNCHANGED mandate
       ELSE /\ mandate' = [mandate EXCEPT ![e].status = "DELETED"]
            /\ UNCHANGED subscription
    /\ cases' = WithoutCases(e)
    /\ UNCHANGED <<sent, events, task, acting>>

BackendRestart ==
    /\ Extra
    /\ task' = [t \in Tasks |-> IdleTask] /\ acting' = {}
    /\ UNCHANGED <<rowVars, sent, events>>

TaskStep(t) ==
    \/ FailureWrite(t) \/ HaltedFind(t) \/ HaltedEscalate(t)
    \/ AssessFind(t) \/ AssessCreate(t)
    \/ ChargedFind(t) \/ ChargedReset(t) \/ CloseRead(t) \/ CloseTransaction(t)
    \/ TokenWrite(t)

Next ==
    \/ \E s \in Subscriptions : Bill(s)
    \/ \E m \in Mandates : TokenChanges(m)
    \/ \E c \in CaseIds : PayLink(c) \/ RunAct(c)
    \/ \E t \in Tasks : TaskStep(t) \/ \E e \in sent : Delivered(t, e)
    \/ \E e \in Entities : Delete(e)
    \/ BackendRestart

Spec == Init /\ [][Next]_vars
-----------------------------------------------------------------------------
Answered(type) == {e \in sent \ events : e.type = type}

\* No event that reports a failure is answered before there is a case for it: one of
\* the subscription or mandate that was active after the failure, not the finished
\* one of an earlier cycle, whatever restarts, races and deletions come in between.
FailureHasCase == \A type \in {"pending", "halted", "rejected"} : \A e \in Answered(type) :
    Deleted(e.of) \/ \E c \in CaseIds : cases[c].of = e.of /\ e \in OpenDuring(c)

\* The same for a halted subscription and the hand-over of a case to a human, which
\* lasts or came after the halt.
HaltIsEscalated == \A e \in Answered("halted") :
    Deleted(e.of) \/ \E c \in CaseIds : cases[c].of = e.of /\ e \in HandedDuring(c)

Pendings(s) == {e \in sent : e.type = "pending" /\ e.of = s}
Payments(s) == Cardinality({e \in sent : e.type \in {"charged", "link"} /\ Owner(e) = s})

\* The count of failed payments, which every delivery of subscription.pending raises
\* and every payment clears, is not that of the failures: a failure counts twice if it
\* is delivered twice, or if a restart cut its delivery off after the write.
Counted(s) == subscription[s].failed <= Cardinality(Pendings(s)) + extras * Cardinality(Tasks)

\* But it is off by no more than that, no answered failure goes uncounted before money
\* comes, and whoever writes last, a subscription with counted failures is failing.
CountAgrees == \A s \in Subscriptions :
    /\ Counted(s)
    /\ subscription[s].failed > 0 => subscription[s].status \in {"PAYMENT_FAILED", "DELETED"}
    /\ Pendings(s) \ events # {} /\ Payments(s) = 0 /\ ~Deleted(s) => subscription[s].failed > 0

Recoveries(s) == Cardinality({c \in CaseIds : cases[c].of = s /\ cases[c].outcome})

\* A payment is recorded as the recovery of two cases only if it is delivered twice:
\* the recoveries exceed the payments by the repetitions at most.
RecoveriesBounded == \A s \in Subscriptions : Recoveries(s) <= Payments(s) + extras

\* closeRecoveryCase's doc comment: a "single, idempotent state transition shared by
\* every 'this case's money actually arrived' path".
OneRecoveryPerPayment == \A s \in Subscriptions : Recoveries(s) <= Payments(s)
=============================================================================
