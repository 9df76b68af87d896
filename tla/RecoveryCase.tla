---------------------------- MODULE RecoveryCase ----------------------------
(***************************************************************************)
(* One RecoveryCase and the RecoveryAction rows beneath it, as the backend *)
(* keeps them in Postgres (backend/prisma/schema.prisma), and the pure     *)
(* rules every service applies to them: the root cause -> channel table,   *)
(* the voice escalation, the merchant's policy and the attempt ceiling.    *)
(*                                                                         *)
(* The modules that EXTEND this one are the services that read and write   *)
(* these rows.  A Prisma call is atomic; everything else interleaves.      *)
(***************************************************************************)
EXTENDS Integers, FiniteSets

CONSTANTS
    RootCause,   \* the case's root cause, as the strategy table reads it
    Policies,    \* the merchant's newest enabled Policy row per action type
    NoLimit,     \* a null column of a Policy row
    MaxRows      \* bound: rows the RecoveryAction table can hold for the case

ContactTypes == {"RETRY_PAYMENT", "SEND_PAYMENT_LINK",
                 "UPDATE_PAYMENT_METHOD", "FOLLOW_UP_RECEIVABLE"}
HandoffTypes == {"ESCALATE_HUMAN", "STOP_RECOVERY"}
ActionTypes  == ContactTypes \cup HandoffTypes
                  \cup {"SEND_EMAIL", "SEND_WHATSAPP", "SEND_VOICE_MESSAGE"}

CaseStatuses   == {"OPEN", "ELIGIBLE", "IN_PROGRESS", "RECOVERED",
                   "EXHAUSTED", "ESCALATED", "STOPPED"}
ActiveStatuses == {"OPEN", "ELIGIBLE", "IN_PROGRESS", "ESCALATED"}

AttemptedUnlessFailed == {"EXECUTING", "SUCCESS"}   \* mutant: failures not counted

Attempted   == {"EXECUTING", "SUCCESS", "FAILED"}
Claimable   == {"PENDING", "APPROVED"}
\* "NONE" is a row not created yet, "DELETED" one deleted again.
RowStatuses == Attempted \cup Claimable \cup {"BLOCKED", "NONE", "DELETED"}
Decisions   == {"ALLOW", "BLOCK", "REQUIRE_APPROVAL"}

RowIds == 1 .. MaxRows

Limit  == Nat \cup {NoLimit}
\* withinAmount is the comparison of the case's amount with maxAmount, spaced
\* says that retryIntervalMinutes is set.
Policy == [exists : BOOLEAN, withinAmount : BOOLEAN, maxRetries : Limit,
           maxContacts : Limit, spaced : BOOLEAN, decision : Decisions]

ASSUME NoLimitAssumption  == NoLimit \notin Nat
ASSUME MaxRowsAssumption  == MaxRows \in Nat
ASSUME PoliciesAssumption == Policies \in [ActionTypes -> Policy]

VARIABLES
    status,     \* RecoveryCase.status
    outcome,    \* who wrote the RecoveryOutcome row, "none" while there is none
    payment,    \* Payment.status of the case's own payment
    rows        \* RecoveryAction rows, by creation order

caseVars == <<status, outcome, payment, rows>>

(***************************************************************************)
(* sent and replaced are history fields.  sent counts the times the        *)
(* customer was really contacted (or charged) for the row, replaced the    *)
(* human decisions that were written over a row no longer PENDING.  linked *)
(* is externalReferenceId # null.                                          *)
(***************************************************************************)
Row == [type : ActionTypes \cup {"none"}, status : RowStatuses,
        decision : Decisions \cup {"null"}, linked : BOOLEAN,
        sent : Nat, replaced : Nat]

NoRow == [type |-> "none", status |-> "NONE", decision |-> "null",
          linked |-> FALSE, sent |-> 0, replaced |-> 0]

CaseTypeOK == /\ status \in CaseStatuses
              /\ outcome \in {"none", "webhook", "observer"}
              /\ payment \in {"FAILED", "CAPTURED"}
              /\ rows \in [RowIds -> Row]

\* RiskService.assessPayment opens the case ELIGIBLE for a FAILED payment, without
\* actions and without outcome.
CaseInit == /\ status = "ELIGIBLE"
            /\ outcome = "none"
            /\ payment = "FAILED"
            /\ rows = [i \in RowIds |-> NoRow]
-----------------------------------------------------------------------------
(***************************************************************************)
(* The rules.                                                              *)
(***************************************************************************)
\* RecoveryStrategyService.determine: the natural channel of a root cause.
Determine(cause) ==
    CASE cause \in {"insufficient_funds", "network_error",
                    "subscription_payment_failed"} -> "RETRY_PAYMENT"
      [] cause \in {"card_expired", "bank_declined",
                    "subscription_halted"}         -> "UPDATE_PAYMENT_METHOD"
      [] cause = "invoice_overdue"                 -> "FOLLOW_UP_RECEIVABLE"
      [] cause \in {"mandate_registration_rejected", "mandate_paused",
                    "mandate_cancelled", "repeated_failure"}
                                                   -> "ESCALATE_HUMAN"
      [] OTHER                                     -> "SEND_PAYMENT_LINK"

RowsOf(t, S) == {i \in RowIds : rows[i].type = t /\ rows[i].status \in S}
Attempts(t)  == Cardinality(RowsOf(t, Attempted))

VoiceAfterAttempts == 2

\* RecoveryService.selectStrategy: the natural channel, or the voice message
\* once the natural channel was attempted often enough.
SelectStrategy ==
    LET natural == Determine(RootCause) IN
    IF natural \in ContactTypes /\ Attempts(natural) >= VoiceAfterAttempts
    THEN "SEND_VOICE_MESSAGE"
    ELSE natural

FallbackMaxAttempts == 3

\* RecoveryService.getMaxAttempts: the policy's maxRetries, never maxContacts.
MaxAttempts(t) ==
    IF Policies[t].exists /\ Policies[t].maxRetries # NoLimit
    THEN Policies[t].maxRetries
    ELSE FallbackMaxAttempts

CeilingReachedEarly(t) == Attempts(t) + 1 >= MaxAttempts(t)   \* mutant
CeilingReachedLate(t)  == Attempts(t) > MaxAttempts(t)        \* mutant

\* No attempt of the type is left, by the attempts a snapshot holds.
CeilingReached(t) == Attempts(t) >= MaxAttempts(t)

\* PolicyService.check after n earlier attempts; elapsed says whether the
\* retry interval has passed since the last of them (a hand-off row has no
\* attemptedAt, so no interval applies to it).
PolicyCheck(t, n, elapsed) ==
    LET p == Policies[t] IN
    IF \/ ~p.exists
       \/ ~p.withinAmount
       \/ p.maxRetries # NoLimit /\ n > p.maxRetries
       \/ p.maxContacts # NoLimit /\ n >= p.maxContacts
    THEN "BLOCK"
    ELSE IF p.spaced /\ n > 0 /\ t \notin HandoffTypes /\ ~elapsed THEN "REQUIRE_APPROVAL"
    ELSE p.decision

\* The rows seeded for every merchant at signup.
DefaultPolicies ==
    LET allow(retries, contacts, spaced) ==
          [exists |-> TRUE, withinAmount |-> TRUE, maxRetries |-> retries,
           maxContacts |-> contacts, spaced |-> spaced, decision |-> "ALLOW"]
    IN [t \in ActionTypes |->
          CASE t = "RETRY_PAYMENT"         -> allow(3, NoLimit, TRUE)
            [] t \in {"SEND_PAYMENT_LINK", "SEND_WHATSAPP"}
                                           -> allow(NoLimit, 3, FALSE)
            [] t \in {"SEND_EMAIL", "FOLLOW_UP_RECEIVABLE"}
                                           -> allow(NoLimit, 5, FALSE)
            [] t = "UPDATE_PAYMENT_METHOD" -> allow(NoLimit, 2, FALSE)
            [] t = "SEND_VOICE_MESSAGE"    -> allow(1, NoLimit, FALSE)
            [] OTHER                       -> allow(NoLimit, NoLimit, FALSE)]
-----------------------------------------------------------------------------
(***************************************************************************)
(* Rows: orderBy createdAt desc and the row writes the services share.     *)
(***************************************************************************)
IsNewest(i, S) == i \in S /\ \A j \in S : j <= i

IsNextRow(i) == rows[i].status = "NONE" /\ \A j \in RowIds : j < i => rows[j].status # "NONE"

AddRow(i, t, s) ==
    /\ rows' = [rows EXCEPT ![i] = [NoRow EXCEPT !.type = t, !.status = s]]
    /\ UNCHANGED <<status, outcome, payment>>

SetRow(i, r) ==
    /\ rows' = [rows EXCEPT ![i] = r]
    /\ UNCHANGED <<status, outcome, payment>>

SetStatus(s) == status' = s /\ UNCHANGED <<outcome, payment, rows>>
=============================================================================
