---------------------------- MODULE HumanReview ----------------------------
(***************************************************************************)
(* The merchant's decisions on actions that policy put before a human:     *)
(* RecoveryService.approveAction and rejectAction, each a read, an update  *)
(* of the action and an update of the case.                                *)
(***************************************************************************)
EXTENDS RecoveryCase

CONSTANTS Reviewers   \* slots for concurrent approve and reject requests

VARIABLES review      \* the requests being handled

\* late is a history field, as in a run.
ReviewState == [pc : {"idle", "approve", "reopen", "reject", "stop"},
                act : 0 .. MaxRows, escalated : BOOLEAN, late : BOOLEAN]

IdleReview == [pc |-> "idle", act |-> 0, escalated |-> FALSE, late |-> FALSE]

ReviewTypeOK == review \in [Reviewers -> ReviewState]
ReviewInit   == review = [v \in Reviewers |-> IdleReview]

EndReview(v) == review' = [review EXCEPT ![v] = IdleReview]

\* Both requests read the action and refuse it unless it waits for approval.
Reviewable(i) == rows[i].status = "PENDING" /\ rows[i].decision = "REQUIRE_APPROVAL"

ApproveRead(v, i) ==
    /\ review[v].pc = "idle"
    /\ Reviewable(i)
    /\ review' = [review EXCEPT ![v] = [pc |-> "approve", act |-> i,
                                        escalated |-> status = "ESCALATED",
                                        late |-> outcome # "none"]]
    /\ UNCHANGED caseVars

RejectRead(v, i) ==
    /\ review[v].pc = "idle"
    /\ Reviewable(i)
    /\ review' = [review EXCEPT ![v] = [pc |-> "reject", act |-> i, escalated |-> FALSE,
                                        late |-> outcome # "none"]]
    /\ UNCHANGED caseVars

Replacing(i) == rows[i].replaced + (IF rows[i].status = "PENDING" THEN 0 ELSE 1)

\* The update names the row by its id alone; a deleted row throws.
ApproveWrite(v) ==
    LET i == review[v].act IN
    /\ review[v].pc = "approve"
    /\ \/ rows[i].status = "DELETED" /\ EndReview(v) /\ UNCHANGED caseVars
       \/ /\ rows[i].status # "DELETED"
          /\ SetRow(i, [rows[i] EXCEPT !.status = "APPROVED", !.decision = "ALLOW",
                               !.replaced = Replacing(i)])
          /\ IF review[v].escalated
             THEN review' = [review EXCEPT ![v].pc = "reopen"]
             ELSE EndReview(v)

\* The case was ESCALATED when the action was read: it goes on.
ApproveReopen(v) ==
    /\ review[v].pc = "reopen"
    /\ SetStatus("IN_PROGRESS")
    /\ EndReview(v)

RejectWrite(v) ==
    LET i == review[v].act IN
    /\ review[v].pc = "reject"
    /\ \/ rows[i].status = "DELETED" /\ EndReview(v) /\ UNCHANGED caseVars
       \/ /\ rows[i].status # "DELETED"
          /\ SetRow(i, [rows[i] EXCEPT !.status = "BLOCKED", !.replaced = Replacing(i)])
          /\ review' = [review EXCEPT ![v].pc = "stop"]

RejectStop(v) ==
    /\ review[v].pc = "stop"
    /\ SetStatus("STOPPED")
    /\ EndReview(v)

ReviewStart(v) == \E i \in RowIds : ApproveRead(v, i) \/ RejectRead(v, i)
ReviewStep(v)  == ApproveWrite(v) \/ ApproveReopen(v) \/ RejectWrite(v) \/ RejectStop(v)
=============================================================================
