--------------------------- MODULE RecoverySystem ---------------------------
(***************************************************************************)
(* One failed payment's recovery case with everything that acts on it at   *)
(* once: the runs of the orchestrator, the agent and the dashboard,        *)
(* Razorpay's confirmations, the merchant's reviewers, and restarts of the *)
(* backend process.                                                        *)
(***************************************************************************)
EXTENDS AutoRecovery, PaymentWebhooks, HumanReview

CONSTANTS MaxCrashes   \* bound: restarts over a behaviour

VARIABLES crashes      \* restarts so far

vars == <<caseVars, runVars, hookVars, review, crashes>>

TypeOK == /\ CaseTypeOK
          /\ RunTypeOK
          /\ HookTypeOK
          /\ ReviewTypeOK
          /\ crashes \in Nat

Init == /\ CaseInit
        /\ RunInit
        /\ HookInit
        /\ ReviewInit
        /\ crashes = 0

\* A restart forgets every run, delivery and request; only the rows stay.
Crash == /\ crashes < MaxCrashes
         /\ crashes' = crashes + 1
         /\ run' = [w \in Runs |-> IdleRun]
         /\ hook' = [h \in Hooks |-> IdleHook]
         /\ review' = [v \in Reviewers |-> IdleReview]
         /\ UNCHANGED <<caseVars, starts, paid, paidRow, newRow, answered>>

RunAction      == /\ \E w \in Runs : RunStart(w) \/ RunStep(w)
                  /\ UNCHANGED <<hookVars, review, crashes>>
CustomerAction == /\ PayOrder \/ \E i \in RowIds : PayLink(i)
                  /\ UNCHANGED <<runVars, review, crashes>>
HookAction     == /\ \E h \in Hooks : (\E e \in Events : Deliver(h, e)) \/ HookStep(h)
                  /\ UNCHANGED <<runVars, review, crashes>>
ReviewAction   == /\ \E v \in Reviewers : ReviewStart(v) \/ ReviewStep(v)
                  /\ UNCHANGED <<runVars, hookVars, crashes>>

Next == RunAction \/ CustomerAction \/ HookAction \/ ReviewAction \/ Crash

Spec == Init /\ [][Next]_vars

(***************************************************************************)
(* Fairness.  Node keeps running the awaits of a run or a handler to their *)
(* end.  BullMQ repeats the sweep and Razorpay repeats an event until it is*)
(* answered; both are strong because a slot the model lends to other work  *)
(* meanwhile is no obstacle in the code, where slots are not limited.      *)
(* Nothing makes people pay, click, or detectors fire.                     *)
(***************************************************************************)
Sweep       == (\E w \in Runs : RetrySweep(w)) /\ UNCHANGED <<hookVars, review, crashes>>
DeliverNew  == /\ \E h \in Hooks, e \in Events \ answered : Deliver(h, e)
               /\ UNCHANGED <<runVars, review, crashes>>

Fairness ==
    /\ \A w \in Runs : WF_vars(RunStep(w) /\ UNCHANGED <<hookVars, review, crashes>>)
    /\ \A h \in Hooks : WF_vars(HookStep(h) /\ UNCHANGED <<runVars, review, crashes>>)
    /\ \A v \in Reviewers : WF_vars(ReviewStep(v) /\ UNCHANGED <<runVars, hookVars, crashes>>)
    /\ SF_vars(Sweep)
    /\ SF_vars(DeliverNew)

FairSpec == Spec /\ Fairness
-----------------------------------------------------------------------------
(***************************************************************************)
(* Safety.                                                                 *)
(***************************************************************************)
\* A case reads RECOVERED only together with its outcome row: the webhook writes
\* both in one transaction, observeRecovery the outcome first, and nothing else
\* writes RECOVERED on the case of a payment (architecture.md section 7).
RecoveredHasOutcome == status = "RECOVERED" => outcome # "none"

\* The system implements the ledger: an outcome exists only for money the
\* provider confirmed, appears once and stays, whatever runs, approvals,
\* duplicate deliveries and restarts do meanwhile.
Ledger == INSTANCE RevenueLedger WITH confirmed <- paid # "none",
                                      recorded  <- outcome # "none"

ImplementsLedger == Ledger!Spec

\* The claim of executeRecoveryAction sends an action once, however many runs
\* race for it: a second message for one action needs a reviewer's decision
\* written over the row after it was claimed (approveAction updates by id alone).
SentOncePerDecision == \A i \in RowIds : rows[i].sent <= 1 + rows[i].replaced

\* The attempt ceiling counts a snapshot, so runs that race can pass it, but only
\* by as many attempts as there are other runs at that moment; a single run
\* never does.  A run between its snapshot and its claim counts as an attempt; an
\* attempt a reviewer's late decision was written over is not counted, as the
\* code no longer counts it.
Claimers(t)      == {w \in Runs : At(w, "x_claim") /\ run[w].type = t}
FreshAttempts(t) == {i \in RowsOf(t, Attempted) : rows[i].replaced = 0}

CeilingOverrunBounded ==
    \A t \in ActionTypes \ HandoffTypes :
        Cardinality(FreshAttempts(t)) + Cardinality(Claimers(t))
          <= MaxAttempts(t) + Cardinality(Runs) - 1

\* createStrategyForCase looks for a live action before it creates one: racing
\* runs can create one too many each, never more.
Creators(t) == {w \in Runs : At(w, "s_create") /\ run[w].type = t}
LiveRows(t) == {i \in RowsOf(t, {"PENDING", "APPROVED", "EXECUTING"}) : rows[i].replaced = 0}

DuplicatesBounded ==
    \A t \in ActionTypes :
        Cardinality(LiveRows(t)) + Cardinality(Creators(t)) <= Cardinality(Runs)

\* No blind retries (PolicyService.checkForRecoveryCase): a run, automatic or the
\* agent's, that starts after the outcome exists never reaches the execution of an
\* action, even when a stale write has taken the case out of RECOVERED again.
ExecutionPcs == {"x_read", "x_exhaust", "x_claim", "x_progress", "x_call", "x_record", "x_out"}

LateRunNeverExecutes ==
    \A w \in Runs : run[w].late /\ run[w].kind \in AutoKinds \cup ClientKinds
                       => run[w].pc \notin ExecutionPcs

\* Who takes a case that a webhook closed out of RECOVERED again: a run or a
\* reviewer that began before the confirmation and writes what an older read told
\* it, a rejection, or the escalation route (called alone or by the agent), which
\* asks no status.  Everybody else who comes later reads first and keeps off.
OverwrittenByOlder ==
    \/ \E w \in Runs : ~run[w].late /\ run'[w] # run[w]
    \/ \E v \in Reviewers : ~review[v].late /\ review'[v] # review[v]

OverwrittenByRejection ==
    /\ status' = "STOPPED"
    /\ \E v \in Reviewers : review[v].pc = "stop" /\ review'[v] # review[v]

OverwrittenByRoute ==
    /\ status' = "ESCALATED"
    /\ \E w \in Runs : /\ At(w, "e_status") /\ run[w].kind \in {"agent", "call"}
                       /\ run'[w] # run[w]

ConfirmedIsKept ==
    [][outcome = "webhook" /\ status = "RECOVERED" /\ status' # "RECOVERED"
         => OverwrittenByOlder \/ OverwrittenByRejection \/ OverwrittenByRoute]_vars

\* Nothing is executed that neither policy nor a human has looked at, although
\* execute takes the newest waiting action of whatever type and not the one its
\* run created and checked.
NothingRunsUnvetted ==
    \A i \in RowIds : rows[i].status \in Attempted /\ rows[i].type \notin HandoffTypes
                         => rows[i].decision # "null"

\* Only a restart strands an action: every run that claims one brings it to SUCCESS
\* or FAILED, a throw of the channel included, and nothing else writes EXECUTING.  A
\* case left with such a row is skipped by the sweep until a reviewer rules on it.
Stranded ==
    {i \in RowIds : /\ rows[i].status = "EXECUTING"
                    /\ \A w \in Runs : run[w].act = i
                         => run[w].pc \notin {"x_progress", "x_call", "x_record"}}

StrandedByRestarts == Cardinality(Stranded) <= crashes * Cardinality(Runs)

\* A case is given up only when the attempts of some type were used up: the
\* writes of EXHAUSTED come from older counts, and no count shrinks except by a
\* reviewer's late decision.
UsedUp(t) ==
    Cardinality({i \in RowIds : /\ rows[i].type = t
                                /\ rows[i].status \in Attempted \/ rows[i].replaced > 0})
      >= MaxAttempts(t)

ExhaustedIsJustified == status = "EXHAUSTED" => \E t \in ActionTypes : UsedUp(t)
-----------------------------------------------------------------------------
(***************************************************************************)
(* Liveness.                                                               *)
(***************************************************************************)
\* Money paid by a link Vidur sent is always recorded on the case, in whatever
\* status the case is by then: the payment's notes name the case, so
\* payment.captured closes it even if payment_link.paid came before the link's
\* id was stored and was ignored.
LinkPaymentIsRecorded == paid = "link" ~> outcome # "none"

\* The retry sweep does not retry a failing case forever: channel ceilings, the
\* voice step and exhaustion together end it (selectStrategy's comment says the
\* exhaustion logic takes over once voice is used up).
RetriesEnd == <>[](~RetryEligible)
-----------------------------------------------------------------------------
(***************************************************************************)
(* What comments in the code say, and the code does not do.                *)
(***************************************************************************)
\* maybeEscalate's comment: it "never flips an already RECOVERED/STOPPED/
\* EXHAUSTED/ESCALATED case's status".  It reads, then writes without a guard.
EscalationKeepsRecovered ==
    [][\A w \in Runs : /\ status = "RECOVERED" /\ status' = "ESCALATED"
                       /\ run[w].kind \in AutoKinds
                       => run'[w] = run[w]]_vars

\* runAutomaticRecovery returns on REQUIRE_APPROVAL because "the retry sweep will
\* check again next cycle".
Held == /\ status = "IN_PROGRESS" /\ outcome = "none"
        /\ \A w \in Runs : At(w, "idle")
        /\ \E i \in RowIds : rows[i].status = "PENDING" /\ rows[i].decision = "REQUIRE_APPROVAL"

HeldActionIsRechecked == Held ~> (status # "IN_PROGRESS" \/ \E w \in Runs : At(w, "p_case"))

\* checkForRecoveryCase: "an action a human has already approved must not be
\* re-evaluated"; executing it needs the decision ALLOW.
ApprovedStaysAllowed == \A i \in RowIds : rows[i].status = "APPROVED" => rows[i].decision = "ALLOW"
=============================================================================
