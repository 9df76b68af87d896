---------------------------- MODULE AutoRecovery ----------------------------
(***************************************************************************)
(* The recovery runs: RecoveryAutoOrchestratorService.runAutomaticRecovery *)
(* and the services it calls in turn (createStrategyForCase, checkFor-     *)
(* RecoveryCase, executeRecoveryAction, observeRecovery, maybeEscalate);   *)
(* the agent's graph (agent/app/graph/workflow.py), which calls the same   *)
(* services and EscalationService over HTTP; and the calls the dashboard   *)
(* makes.                                                                  *)
(*                                                                         *)
(* Runs is a set of slots; the runs of one case interleave at every await. *)
(* An action below is what a run does between two awaits: one database     *)
(* call and the code that acts on its answer.  pc names the next call:     *)
(*   s_ strategy, p_ policy, x_ execute, o_ observe, e_ escalate, d_ delete*)
(***************************************************************************)
EXTENDS RecoveryCase

CONSTANTS
    Runs,           \* slots for concurrent runs
    MaxStarts       \* bound: runs started from outside that may create rows

ASSUME RunsAssumption == IsFiniteSet(Runs) /\ Runs # {}

VARIABLES
    run,            \* the local variables of each run
    starts          \* how many of those have started

runVars == <<run, starts>>

RunPcs == {"idle", "s_read", "s_find", "s_create",
           "p_case", "p_count", "p_approved", "p_find", "p_write",
           "x_read", "x_exhaust", "x_claim", "x_progress", "x_call",
           "x_record", "x_out", "o_read", "o_create", "o_close", "o_exhaust",
           "e_read", "e_create", "e_status", "d_delete"}

(***************************************************************************)
(* detect and sweep are runs of the orchestrator, agent one of the agent's *)
(* graph, panel the dashboard's strategy with the policy check that follows*)
(* it, and call a single call, made alone or left over by its client.      *)
(***************************************************************************)
AutoKinds   == {"detect", "sweep"}
ClientKinds == {"agent", "panel"}
RunKinds    == {"none", "call"} \cup AutoKinds \cup ClientKinds

(***************************************************************************)
(* act is the action a run holds (its placeholder, then the one it         *)
(* executes), target the row the policy check is about to write, n an      *)
(* attempt count taken from a snapshot, result the channel's answer.       *)
(* late is a history field: the case had its outcome when the run started. *)
(***************************************************************************)
RunState == [pc : RunPcs, kind : RunKinds, type : ActionTypes \cup {"none"},
             act : 0 .. MaxRows, target : 0 .. MaxRows, n : Nat,
             decision : Decisions \cup {"null"},
             result : {"none", "ok", "unsuccessful", "thrown"}, late : BOOLEAN]

IdleRun == [pc |-> "idle", kind |-> "none", type |-> "none", act |-> 0,
            target |-> 0, n |-> 0, decision |-> "null", result |-> "none",
            late |-> FALSE]

RunTypeOK == run \in [Runs -> RunState] /\ starts \in Nat
RunInit   == run = [w \in Runs |-> IdleRun] /\ starts = 0

At(w, pc) == run[w].pc = pc
Goto(w, pc) == run' = [run EXCEPT ![w].pc = pc] /\ UNCHANGED starts
Finish(w) == run' = [run EXCEPT ![w] = IdleRun] /\ UNCHANGED starts

Begin(w, kind, pc, t) ==
    run' = [run EXCEPT ![w] = [IdleRun EXCEPT !.pc = pc, !.kind = kind,
                                 !.type = t, !.late = (outcome # "none")]]
-----------------------------------------------------------------------------
(***************************************************************************)
(* Starting a run.  createStrategyForCase's first read is part of it.      *)
(***************************************************************************)
\* Bound: a run goes to create rows only while the table has room for the two rows
\* (placeholder and escalation) that it and every other run may still create.
Creating(w) == \/ run[w].kind \in AutoKinds \cup ClientKinds
               \/ run[w].pc \in {"s_find", "s_create", "e_create"}

Room(w) == Cardinality({i \in RowIds : rows[i].status = "NONE"})
             >= 2 * (1 + Cardinality({u \in Runs \ {w} : Creating(u)}))

\* Started from outside, whatever the status of the case is by then.
Launch(w, kind, pc, t) ==
    /\ At(w, "idle")
    /\ starts < MaxStarts /\ Room(w)
    /\ starts' = starts + 1
    /\ Begin(w, kind, pc, t)
    /\ UNCHANGED caseVars

\* A detector (webhook, sweep, Recovery Lab, missed promise) fires a run for
\* the case.  Its own read of the case may be old, so no guard on the status.
Detect(w) == Launch(w, "detect", "s_find", SelectStrategy)

\* POST run-agent, or a job of the recovery queue, starts the agent's graph.
RunAgent(w) == Launch(w, "agent", "s_find", SelectStrategy)

\* The dashboard's "generate strategy".
ManualStrategy(w) == Launch(w, "panel", "s_find", SelectStrategy)

\* POST /escalation/cases/:id, which asks nothing of the case.
ManualEscalate(w) == Launch(w, "call", "e_create", "none")

\* RecoveryAutoRetrySweepService.sweepOnce selects the case and fires a run.
RetryEligible ==
    /\ status = "IN_PROGRESS"
    /\ outcome = "none"
    /\ \E i \in RowIds : rows[i].status = "FAILED"
    /\ \A i \in RowIds : rows[i].status \notin {"PENDING", "APPROVED", "EXECUTING"}

RetrySweep(w) ==
    /\ At(w, "idle")
    /\ RetryEligible /\ Room(w)
    /\ Begin(w, "sweep", "s_find", SelectStrategy)
    /\ UNCHANGED <<starts, caseVars>>

\* POST /recovery/cases/:id/execute and .../observe from the dashboard.
ManualExecute(w) ==
    /\ At(w, "idle")
    /\ Begin(w, "call", "x_read", "none")
    /\ UNCHANGED <<starts, caseVars>>

ManualObserve(w) ==
    /\ At(w, "idle")
    /\ Begin(w, "call", "o_read", "none")
    /\ UNCHANGED <<starts, caseVars>>

\* The agent observed that an attempt is left: its graph goes back to the strategy.
AgentRetry(w) ==
    /\ At(w, "s_read") /\ Room(w)
    /\ run' = [run EXCEPT ![w] = [@ EXCEPT !.pc = "s_find", !.type = SelectStrategy]]
    /\ UNCHANGED <<starts, caseVars>>

\* A client stops between two of its calls or in one of them (its ten seconds
\* are over, the process ends); the backend finishes a call it has begun.
CallStarts == {"s_read", "p_case", "x_read", "o_read", "e_create"}

ClientStops(w) ==
    /\ run[w].kind \in ClientKinds
    /\ \/ run[w].pc \in CallStarts /\ Finish(w)
       \/ /\ run[w].pc # "s_read"
          /\ run' = [run EXCEPT ![w].kind = "call"]
          /\ UNCHANGED starts
    /\ UNCHANGED caseVars
-----------------------------------------------------------------------------
(***************************************************************************)
(* createStrategyForCase: find a live action of the type, or create one.   *)
(***************************************************************************)
NothingReusable == {}   \* mutant: always creates

Reusable == {"PENDING", "APPROVED", "EXECUTING"}

\* The strategy is returned: its caller goes on to the policy check of it.
Planned(w, i) ==
    /\ run' = [run EXCEPT ![w] = IF run[w].kind = "call" THEN IdleRun
                                 ELSE [@ EXCEPT !.pc = "p_case", !.act = i]]
    /\ UNCHANGED starts

StrategyFind(w) ==
    LET existing == RowsOf(run[w].type, Reusable) IN
    /\ At(w, "s_find")
    /\ \/ existing = {} /\ Goto(w, "s_create")
       \/ \E i \in RowIds : IsNewest(i, existing) /\ Planned(w, i)
    /\ UNCHANGED caseVars

StrategyCreate(w) ==
    /\ At(w, "s_create")
    /\ \E i \in RowIds :
         /\ IsNextRow(i)
         /\ AddRow(i, run[w].type, "PENDING")
         /\ Planned(w, i)
-----------------------------------------------------------------------------
(***************************************************************************)
(* checkForRecoveryCase, and where its caller goes with the answer.        *)
(***************************************************************************)
\* runAutomaticRecovery executes what is allowed and no hand-off, leaves a sweep's
\* held action to a human, and escalates the rest.
RoutedAuto(w, d) ==
    IF d = "ALLOW" /\ rows[run[w].act].type \notin HandoffTypes THEN "x_read"
    ELSE IF d = "REQUIRE_APPROVAL" /\ run[w].kind = "sweep" THEN "idle"
    ELSE "e_read"

\* The agent knows two ways: ALLOW, or the escalation route.
RoutedAgent(d) == IF d = "ALLOW" THEN "x_read" ELSE "e_create"

\* Where a run goes once policy answered d.
Routed(w, d) ==
    CASE run[w].kind \in AutoKinds -> RoutedAuto(w, d)
      [] run[w].kind = "agent"     -> RoutedAgent(d)
      [] OTHER                     -> "idle"

Route(w, d) ==
    IF Routed(w, d) = "idle"
    THEN Finish(w)
    ELSE /\ run' = [run EXCEPT ![w] = [@ EXCEPT !.pc = Routed(w, d), !.decision = d,
                                              !.target = 0, !.n = 0]]
         /\ UNCHANGED starts

StatusIsFinal == status \in {"RECOVERED", "STOPPED", "EXHAUSTED"}   \* mutant: outcome not asked

\* A verified outcome blocks, a STOPPED or EXHAUSTED case blocks, an ESCALATED
\* one goes on.
CaseIsFinal == outcome # "none" \/ status \in {"RECOVERED", "STOPPED", "EXHAUSTED"}

PolicyReadCase(w) ==
    /\ At(w, "p_case")
    /\ \/ CaseIsFinal /\ Route(w, "BLOCK")
       \/ ~CaseIsFinal /\ Goto(w, "p_count")
    /\ UNCHANGED caseVars

PolicyCountAttempts(w) ==
    /\ At(w, "p_count")
    /\ run' = [run EXCEPT ![w] = [@ EXCEPT !.pc = "p_approved", !.n = Attempts(run[w].type)]]
    /\ UNCHANGED <<starts, caseVars>>

\* An action of the type that a human approved is allowed as it stands;
\* otherwise check() decides, and nobody knows how long the interval has run.
PolicyFindApproved(w) ==
    LET approved == RowsOf(run[w].type, {"APPROVED"}) IN
    /\ At(w, "p_approved")
    /\ \/ approved # {} /\ Route(w, "ALLOW")
       \/ /\ approved = {}
          /\ \E elapsed \in BOOLEAN :
               run' = [run EXCEPT ![w] = [@ EXCEPT
                         !.pc = "p_find",
                         !.decision = PolicyCheck(run[w].type, run[w].n, elapsed)]]
          /\ UNCHANGED starts
    /\ UNCHANGED caseVars

PolicyFindPending(w) ==
    LET pending == RowsOf(run[w].type, {"PENDING"}) IN
    /\ At(w, "p_find")
    /\ \/ pending = {} /\ Route(w, run[w].decision)
       \/ \E i \in RowIds :
            /\ IsNewest(i, pending)
            /\ run' = [run EXCEPT ![w] = [@ EXCEPT !.pc = "p_write", !.target = i]]
            /\ UNCHANGED starts
    /\ UNCHANGED caseVars

\* Writing the decision to a row deleted meanwhile throws and ends the run.
PolicyWriteDecision(w) ==
    LET i == run[w].target IN
    /\ At(w, "p_write")
    /\ \/ rows[i].status = "DELETED" /\ Finish(w) /\ UNCHANGED caseVars
       \/ /\ rows[i].status # "DELETED"
          /\ SetRow(i, [rows[i] EXCEPT !.decision = run[w].decision])
          /\ Route(w, run[w].decision)
-----------------------------------------------------------------------------
(***************************************************************************)
(* executeRecoveryAction.                                                  *)
(***************************************************************************)
NotRefused(i) == rows[i].decision \notin {"BLOCK", "REQUIRE_APPROVAL"}   \* mutant: null passes

Vetted(i) == rows[i].decision = "ALLOW"

\* The snapshot's newest PENDING or APPROVED action, whatever its type, if the
\* snapshot lets it run.
Executable(i) ==
    /\ status \notin {"RECOVERED", "STOPPED", "ESCALATED", "EXHAUSTED"}
    /\ IsNewest(i, {j \in RowIds : rows[j].status \in Claimable})
    /\ Vetted(i)
    /\ rows[i].type \notin HandoffTypes

ExecuteRead(w) ==
    /\ At(w, "x_read")
    /\ \/ (\A i \in RowIds : ~Executable(i)) /\ Finish(w)
       \/ \E i \in RowIds :
            LET t == rows[i].type IN
            /\ Executable(i)
            /\ run' = [run EXCEPT ![w] = [@ EXCEPT
                 !.pc = IF CeilingReached(t) THEN "x_exhaust" ELSE "x_claim",
                 !.act = i, !.type = t, !.n = Attempts(t), !.decision = "null"]]
            /\ UNCHANGED starts
    /\ UNCHANGED caseVars

\* The ceiling is reached: the case is EXHAUSTED and execute throws.
ExecuteExhaust(w) ==
    /\ At(w, "x_exhaust")
    /\ SetStatus("EXHAUSTED")
    /\ Finish(w)

ClaimByIdAlone(i) == rows[i].status # "DELETED"   \* mutant: update without the status filter

\* updateMany where the action is still PENDING or APPROVED.
ClaimSucceeds(i) == rows[i].status \in Claimable

ExecuteClaim(w) ==
    LET i == run[w].act IN
    /\ At(w, "x_claim")
    /\ \/ /\ ClaimSucceeds(i)
          /\ SetRow(i, [rows[i] EXCEPT !.status = "EXECUTING"])
          /\ Goto(w, "x_progress")
       \/ ~ClaimSucceeds(i) /\ Finish(w) /\ UNCHANGED caseVars

ExecuteProgress(w) ==
    /\ At(w, "x_progress")
    /\ SetStatus("IN_PROGRESS")
    /\ Goto(w, "x_call")

\* The channel call.  It is refused before anything leaves (no contact, no
\* amount, voice generation failed), succeeds, or throws, and then the message
\* may have left all the same.
ExecuteCall(w) ==
    LET i == run[w].act IN
    /\ At(w, "x_call")
    /\ \E result \in {"ok", "unsuccessful", "thrown"}, left \in BOOLEAN :
         /\ result = "ok" => left
         /\ result = "unsuccessful" => ~left
         /\ SetRow(i, [rows[i] EXCEPT !.sent = IF left THEN @ + 1 ELSE @])
         /\ run' = [run EXCEPT ![w] = [@ EXCEPT !.pc = "x_record", !.result = result]]
    /\ UNCHANGED starts

\* The pc after execute returns: the orchestrator and the agent go on to observe.
AfterExecute(w) == IF run[w].kind \in AutoKinds \cup {"agent"} THEN "o_read" ELSE "idle"

AttemptsUsedUp(w) == run[w].n + 1 >= MaxAttempts(run[w].type)

Leave(w, pc) ==
    IF pc = "idle"
    THEN Finish(w)
    ELSE /\ run' = [run EXCEPT ![w] = [IdleRun EXCEPT !.pc = pc, !.kind = run[w].kind,
                                                       !.late = run[w].late]]
         /\ UNCHANGED starts

RawResult(r) == r   \* mutant: the channel's answer stored as it is

ThrowUnrecorded(r) ==   \* mutant: a throw leaves the action as it is
    CASE r = "ok" -> "SUCCESS" [] r = "unsuccessful" -> "FAILED" [] OTHER -> "EXECUTING"

ResultStatus(r) == IF r = "ok" THEN "SUCCESS" ELSE "FAILED"

\* SUCCESS or FAILED, and the id of the payment link if there is one.  A throw
\* is recorded as FAILED and thrown on.
ExecuteRecord(w) ==
    LET i == run[w].act
        r == run[w].result IN
    /\ At(w, "x_record")
    /\ SetRow(i, [rows[i] EXCEPT
                    !.status = ResultStatus(r),
                    !.linked = @ \/ (r = "ok" /\ rows[i].type \in ContactTypes)])
    /\ CASE r = "thrown"                              -> Finish(w)
         [] r = "unsuccessful" /\ AttemptsUsedUp(w)    -> Goto(w, "x_out")
         [] OTHER                                      -> Leave(w, AfterExecute(w))

ExecuteGiveUp(w) ==
    /\ At(w, "x_out")
    /\ SetStatus("EXHAUSTED")
    /\ Leave(w, AfterExecute(w))
-----------------------------------------------------------------------------
(***************************************************************************)
(* observeRecovery.                                                        *)
(***************************************************************************)
\* No attempt is left for the type that was attempted last.
NoAttemptLeft ==
    \E i \in RowIds :
        /\ IsNewest(i, {j \in RowIds : rows[j].status \in Attempted})
        /\ CeilingReached(rows[i].type)

SomethingWasSent == \E i \in RowIds : rows[i].status = "SUCCESS"   \* mutant

MoneyObserved == payment = "CAPTURED"

\* The agent goes by the answer: another attempt while one is left, else the
\* escalation route.
AfterObserve(w, attemptLeft) ==
    IF run[w].kind # "agent" THEN "idle" ELSE IF attemptLeft THEN "s_read" ELSE "e_create"

\* The answer of the read decides the rest: an outcome is returned; a captured
\* payment needs an action that succeeded; otherwise attempts are counted.
ObserveRead(w) ==
    /\ At(w, "o_read")
    /\ CASE outcome # "none" -> Finish(w)
         [] outcome = "none" /\ MoneyObserved ->
              IF \E i \in RowIds : rows[i].status = "SUCCESS"
              THEN Goto(w, "o_create") ELSE Finish(w)
         [] OTHER ->
              IF NoAttemptLeft /\ status # "EXHAUSTED"
              THEN Goto(w, "o_exhaust") ELSE Leave(w, AfterObserve(w, ~NoAttemptLeft))
    /\ UNCHANGED caseVars

\* mutant: the case is closed before its outcome row is written
CloseBeforeOutcome(w) ==
    /\ At(w, "o_create")
    /\ SetStatus("RECOVERED")
    /\ Goto(w, "o_close")

\* recoveryCaseId is unique: a second outcome row throws.
ObserveCreateOutcome(w) ==
    /\ At(w, "o_create")
    /\ \/ /\ outcome = "none"
          /\ outcome' = "observer"
          /\ UNCHANGED <<status, payment, rows>>
          /\ Goto(w, "o_close")
       \/ outcome # "none" /\ Finish(w) /\ UNCHANGED caseVars

ObserveClose(w) ==
    /\ At(w, "o_close")
    /\ SetStatus("RECOVERED")
    /\ Finish(w)

ObserveExhaust(w) ==
    /\ At(w, "o_exhaust")
    /\ SetStatus("EXHAUSTED")
    /\ Leave(w, AfterObserve(w, FALSE))
-----------------------------------------------------------------------------
(***************************************************************************)
(* maybeEscalate, EscalationService.escalateRecoveryCase and the deletion  *)
(* of the placeholder.                                                     *)
(***************************************************************************)
\* The orchestrator deletes its placeholder, but leaves one that waits for a human;
\* nobody else deletes any.
AfterEscalation(w) ==
    IF run[w].kind \in AutoKinds /\ run[w].decision # "REQUIRE_APPROVAL"
    THEN "d_delete" ELSE "idle"

EscalationDone(w) ==
    IF AfterEscalation(w) = "idle" THEN Finish(w) ELSE Goto(w, AfterEscalation(w))

NotEscalated == status # "ESCALATED"   \* mutant: a closed case is escalated

Escalable == status \in ActiveStatuses \ {"ESCALATED"}

MaybeEscalateRead(w) ==
    /\ At(w, "e_read")
    /\ IF Escalable
       THEN Goto(w, "e_create")
       ELSE EscalationDone(w)
    /\ UNCHANGED caseVars

EscalateCreateAction(w) ==
    /\ At(w, "e_create")
    /\ \E i \in RowIds :
         /\ IsNextRow(i)
         /\ AddRow(i, "ESCALATE_HUMAN", "SUCCESS")
    /\ Goto(w, "e_status")

EscalateSetStatus(w) ==
    /\ At(w, "e_status")
    /\ SetStatus("ESCALATED")
    /\ EscalationDone(w)

\* deleteMany where the placeholder is still PENDING.
DeletePlaceholder(w) ==
    LET i == run[w].act IN
    /\ At(w, "d_delete")
    /\ IF rows[i].status = "PENDING"
       THEN SetRow(i, [rows[i] EXCEPT !.status = "DELETED"])
       ELSE UNCHANGED caseVars
    /\ Finish(w)
-----------------------------------------------------------------------------
\* What a run in flight does next, in the order of the calls.
RunStep(w) ==
    \/ AgentRetry(w)     \/ ClientStops(w)
    \/ StrategyFind(w)   \/ StrategyCreate(w)
    \/ PolicyReadCase(w) \/ PolicyCountAttempts(w) \/ PolicyFindApproved(w)
    \/ PolicyFindPending(w) \/ PolicyWriteDecision(w)
    \/ ExecuteRead(w)    \/ ExecuteExhaust(w)  \/ ExecuteClaim(w)
    \/ ExecuteProgress(w) \/ ExecuteCall(w)    \/ ExecuteRecord(w)
    \/ ExecuteGiveUp(w)
    \/ ObserveRead(w)    \/ ObserveCreateOutcome(w) \/ ObserveClose(w)
    \/ ObserveExhaust(w)
    \/ MaybeEscalateRead(w) \/ EscalateCreateAction(w) \/ EscalateSetStatus(w)
    \/ DeletePlaceholder(w)

RunStart(w) == \/ Detect(w) \/ RetrySweep(w) \/ RunAgent(w)
               \/ ManualStrategy(w) \/ ManualEscalate(w) \/ ManualExecute(w) \/ ManualObserve(w)
=============================================================================
