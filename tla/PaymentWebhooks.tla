-------------------------- MODULE PaymentWebhooks --------------------------
(***************************************************************************)
(* RazorpayWebhookService for the events that confirm money on the case:   *)
(* payment.captured, order.paid and payment_link.paid, and                 *)
(* closeRecoveryCase, which all of them end in.                            *)
(*                                                                         *)
(* Razorpay itself is the environment: it delivers every event of a        *)
(* payment until one delivery is answered, and may deliver it again.  The  *)
(* customer's failed payment may be captured late, the customer may pay    *)
(* the order again at the merchant's checkout, or pay a link Vidur sent.   *)
(***************************************************************************)
EXTENDS RecoveryCase

CONSTANTS
    Hooks,    \* slots for concurrent webhook deliveries
    PayWays   \* bound: the ways the customer may pay in a run of the checker

AllPayWays == {"late", "checkout", "link"}

ASSUME PayWaysAssumption == PayWays \subseteq AllPayWays

VARIABLES
    paid,       \* "none", or how the customer paid
    paidRow,    \* the action whose link was paid, 0 if none
    newRow,     \* the Payment row of a payment by checkout or link exists
    answered,   \* events one delivery of which was answered with 2xx
    hook        \* the deliveries being handled

hookVars == <<paid, paidRow, newRow, answered, hook>>

Events == {"payment.captured", "order.paid", "payment_link.paid"}
HookPcs == {"idle", "c_read", "c_mark", "match", "l_find", "close_read", "close_tx"}

IdleHook == [pc |-> "idle", event |-> "none"]

HookTypeOK ==
    /\ paid \in {"none"} \cup PayWays
    /\ paidRow \in 0 .. MaxRows
    /\ newRow \in BOOLEAN
    /\ answered \subseteq Events
    /\ hook \in [Hooks -> [pc : HookPcs, event : Events \cup {"none"}]]

HookInit ==
    /\ paid = "none" /\ paidRow = 0 /\ newRow = FALSE /\ answered = {}
    /\ hook = [h \in Hooks |-> IdleHook]

HookAt(h, pc) == hook[h].pc = pc

HookGoto(h, pc) ==
    /\ hook' = [hook EXCEPT ![h].pc = pc]
    /\ UNCHANGED <<paid, paidRow, newRow, answered>>

\* The handler returns: the route answers 200 and Razorpay stops retrying the event.
Answer(h) ==
    /\ answered' = answered \cup {hook[h].event}
    /\ hook' = [hook EXCEPT ![h] = IdleHook]
    /\ UNCHANGED <<paid, paidRow, newRow>>

\* The handler throws: Razorpay will deliver the event again.
Throw(h) ==
    /\ hook' = [hook EXCEPT ![h] = IdleHook]
    /\ UNCHANGED <<paid, paidRow, newRow, answered>>
-----------------------------------------------------------------------------
(***************************************************************************)
(* The customer and the provider.                                          *)
(***************************************************************************)
PayOrder ==
    /\ paid = "none"
    /\ paid' \in PayWays \ {"link"}
    /\ UNCHANGED <<paidRow, newRow, answered, hook, caseVars>>

\* Only a row that sent the customer a link can be paid by link.
PayLink(i) ==
    /\ paid = "none" /\ "link" \in PayWays
    /\ rows[i].sent > 0 /\ rows[i].type \in ContactTypes
    /\ paid' = "link" /\ paidRow' = i
    /\ UNCHANGED <<newRow, answered, hook, caseVars>>

EventsOf(p) == CASE p \in {"late", "checkout"} -> {"payment.captured", "order.paid"}
                 [] p = "link" -> {"payment.captured", "payment_link.paid"}
                 [] OTHER      -> {}

FirstPc(e) == CASE e = "payment.captured" -> "c_read"
                [] e = "order.paid"       -> "match"
                [] OTHER                  -> "l_find"

Deliver(h, e) ==
    /\ HookAt(h, "idle")
    /\ e \in EventsOf(paid)
    /\ hook' = [hook EXCEPT ![h] = [pc |-> FirstPc(e), event |-> e]]
    /\ UNCHANGED <<paid, paidRow, newRow, answered, caseVars>>
-----------------------------------------------------------------------------
(***************************************************************************)
(* handlePaymentCaptured.  A late capture names the case's own payment; the*)
(* others are new payments, and those made by link carry the case's id.    *)
(***************************************************************************)
AlreadyCaptured == IF paid = "late" THEN payment = "CAPTURED" ELSE newRow

CapturedRead(h) ==
    /\ HookAt(h, "c_read")
    /\ \/ AlreadyCaptured /\ Answer(h)
       \/ ~AlreadyCaptured /\ HookGoto(h, "c_mark")
    /\ UNCHANGED caseVars

MatchAlways == "match"   \* mutant: the noted case is forgotten

\* The case to close is the one the notes name, or has to be matched.
Target == IF paid = "link" THEN "close_read" ELSE "match"

\* The known payment is updated, a new one is created; creating it twice is a
\* conflict that fails the delivery.
CapturedMark(h) ==
    /\ HookAt(h, "c_mark")
    /\ \/ /\ paid = "late"
          /\ payment' = "CAPTURED"
          /\ UNCHANGED <<status, outcome, rows>>
          /\ HookGoto(h, Target)
       \/ /\ paid # "late" /\ ~newRow
          /\ newRow' = TRUE
          /\ hook' = [hook EXCEPT ![h].pc = Target]
          /\ UNCHANGED <<paid, paidRow, answered, caseVars>>
       \/ paid # "late" /\ newRow /\ Throw(h) /\ UNCHANGED caseVars

\* Without a noted case, and for order.paid, only an active case of the order.
MatchActiveCase(h) ==
    /\ HookAt(h, "match")
    /\ \/ status \in ActiveStatuses /\ HookGoto(h, "close_read")
       \/ status \notin ActiveStatuses /\ Answer(h)
    /\ UNCHANGED caseVars

\* handlePaymentLinkPaid finds the action by its externalReferenceId.
LinkPaidFind(h) ==
    /\ HookAt(h, "l_find")
    /\ \/ rows[paidRow].linked /\ HookGoto(h, "close_read")
       \/ ~rows[paidRow].linked /\ Answer(h)
    /\ UNCHANGED caseVars
-----------------------------------------------------------------------------
(***************************************************************************)
(* closeRecoveryCase: a read, then one transaction.                        *)
(***************************************************************************)
CloseRead(h) ==
    /\ HookAt(h, "close_read")
    /\ \/ (outcome # "none" \/ status = "RECOVERED") /\ Answer(h)
       \/ outcome = "none" /\ status # "RECOVERED" /\ HookGoto(h, "close_tx")
    /\ UNCHANGED caseVars

\* The unique outcome row makes a second close roll back.
CloseTransaction(h) ==
    /\ HookAt(h, "close_tx")
    /\ \/ /\ outcome = "none"
          /\ payment' = "CAPTURED" /\ outcome' = "webhook" /\ status' = "RECOVERED"
          /\ UNCHANGED rows
       \/ outcome # "none" /\ UNCHANGED caseVars
    /\ Answer(h)

HookStep(h) ==
    \/ CapturedRead(h) \/ CapturedMark(h) \/ MatchActiveCase(h) \/ LinkPaidFind(h)
    \/ CloseRead(h) \/ CloseTransaction(h)
=============================================================================
