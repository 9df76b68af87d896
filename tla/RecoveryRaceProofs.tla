------------------------- MODULE RecoveryRaceProofs -------------------------
(***************************************************************************)
(* What a run does on a case that others change meanwhile: no blind        *)
(* retries, no message nobody looked at, and who can take a confirmed case *)
(* out of RECOVERED, for any number of runs, reviewers and deliveries.     *)
(***************************************************************************)
EXTENDS RecoveryCountProofs

(***************************************************************************)
(* No blind retries.                                                       *)
(***************************************************************************)
LatePcs == {"s_find", "s_create", "p_case", "e_read", "e_create", "e_status", "d_delete"}

VettingKinds == AutoKinds \cup ClientKinds   \* the runs that vet an action before they execute

LateInv ==
    /\ \A w \in Runs : run[w].late => outcome # "none"
    /\ \A w \in Runs : run[w].late /\ run[w].kind \in VettingKinds => run[w].pc \in LatePcs
    /\ \A v \in Reviewers : review[v].late => outcome # "none"

LEMMA LateInvInit == Init => LateInv
BY DEF Init, RunInit, ReviewInit, IdleRun, IdleReview, LateInv, LatePcs

\* A late run of these kinds stays within strategy, the refusal and escalation.
LEMMA LateRunStep ==
    ASSUME RunsOK, LateInv, NEW w \in Runs, RunStart(w) \/ RunStep(w), UNCHANGED review,
           outcome # "none" => outcome' # "none"
    PROVE  LateInv'
<1>1. ASSUME OthersKept(w), run'[w].late => outcome' # "none",
             run'[w].late /\ run'[w].kind \in VettingKinds => run'[w].pc \in LatePcs
      PROVE  LateInv'
  BY <1>1 DEF LateInv, OthersKept
<1>2. ASSUME NEW pcs, EndsOr(w, pcs),
             run[w].late /\ run[w].kind \in VettingKinds => pcs \subseteq LatePcs
      PROVE  LateInv'
  <2>1. CASE run'[w] = IdleRun
    BY <1>1, <1>2, <2>1 DEF EndsOr, IdleRun
  <2>2. CASE run'[w] # IdleRun
    BY <1>1, <1>2, <2>2 DEF EndsOr, LateInv
  <2> QED
    BY <2>1, <2>2
<1>3. CASE RunStart(w)
  <2>1. OthersKept(w) /\ (run'[w].late => outcome # "none")
    BY <1>3, StartEffect
  <2>2. run'[w].kind \in VettingKinds => run'[w].pc = "s_find"
    BY <1>3, StartEffect DEF VettingKinds, AutoKinds, ClientKinds
  <2> QED
    BY <1>1, <2>1, <2>2 DEF LatePcs
<1>4. CASE StrategyFind(w) \/ StrategyCreate(w)
  BY <1>2, <1>4, StrategyEffect DEF LatePcs
<1>5. CASE \/ PolicyReadCase(w) \/ PolicyCountAttempts(w) \/ PolicyFindApproved(w)
           \/ PolicyFindPending(w) \/ PolicyWriteDecision(w)
  <2>1. CASE run[w].late /\ run[w].kind \in VettingKinds
    <3>1. run[w].pc = "p_case" /\ outcome # "none"
      BY <1>5, <2>1, PolicyEffect DEF LateInv, LatePcs
    <3> QED
      BY <1>2, <1>5, <3>1, PolicyEffect DEF LatePcs
  <2>2. CASE ~(run[w].late /\ run[w].kind \in VettingKinds)
    BY <1>2, <1>5, <2>2, PolicyEffect
  <2> QED
    BY <2>1, <2>2
<1>6. CASE \/ ExecuteRead(w) \/ ExecuteExhaust(w) \/ ExecuteClaim(w) \/ ExecuteProgress(w)
           \/ ExecuteCall(w) \/ ExecuteRecord(w) \/ ExecuteGiveUp(w)
  BY <1>2, <1>6, ExecuteEffect DEF LateInv, LatePcs, ExecutionPcs
<1>7. CASE ObserveRead(w) \/ ObserveCreateOutcome(w) \/ ObserveClose(w) \/ ObserveExhaust(w)
  BY <1>2, <1>7, ObserveEffect DEF LateInv, LatePcs
<1>8. CASE \/ MaybeEscalateRead(w) \/ EscalateCreateAction(w) \/ EscalateSetStatus(w)
           \/ DeletePlaceholder(w)
  BY <1>2, <1>8, EscalateEffect DEF LatePcs
<1>9. CASE AgentRetry(w)
  BY <1>2, <1>9, AgentRetryEffect DEF LatePcs
<1>10. CASE ClientStops(w)
  <2>1. OthersKept(w) /\ (run'[w] = IdleRun \/ LeftBehind(w))
    BY <1>10, ClientStopsEffect
  <2>2. CASE run'[w] = IdleRun
    BY <1>1, <2>1, <2>2 DEF IdleRun
  <2>3. CASE LeftBehind(w)
    BY <1>1, <2>1, <2>3 DEF LeftBehind, LateInv, VettingKinds, AutoKinds, ClientKinds
  <2> QED
    BY <2>1, <2>2, <2>3
<1> QED
  BY <1>3, <1>4, <1>5, <1>6, <1>7, <1>8, <1>9, <1>10 DEF RunStep

\* How a review moves: it begins late exactly when the outcome is there.
LEMMA ReviewEffect ==
    ASSUME ReviewTypeOK, NEW v \in Reviewers, ReviewStart(v) \/ ReviewStep(v)
    PROVE  /\ outcome' = outcome
           /\ \A u \in Reviewers \ {v} : review'[u] = review[u]
           /\ \/ review'[v] = IdleReview
              \/ /\ review[v].pc = "idle" /\ review'[v].pc \in {"approve", "reject"}
                 /\ review'[v].late <=> outcome # "none"
                 /\ review'[v].escalated => status = "ESCALATED"
              \/ /\ review'[v].late = review[v].late /\ review'[v].escalated = review[v].escalated
                 /\ \/ review'[v].pc = "reopen" /\ review[v].pc = "approve" /\ review[v].escalated
                    \/ review'[v].pc = "stop"
<1>1. review[v] \in ReviewState
  BY DEF ReviewTypeOK
<1>2. CASE ReviewStart(v)
  <2>1. PICK i \in RowIds : ApproveRead(v, i) \/ RejectRead(v, i)
    BY <1>2 DEF ReviewStart
  <2> DEFINE r(pc, e) == [pc |-> pc, act |-> i, escalated |-> e, late |-> outcome # "none"]
  <2>2. CASE ApproveRead(v, i)
    <3>1. review' = [review EXCEPT ![v] = r("approve", status = "ESCALATED")]
      BY <2>2, Zenon DEF ApproveRead
    <3>2. /\ r("approve", status = "ESCALATED").pc = "approve"
          /\ r("approve", status = "ESCALATED").late <=> outcome # "none"
          /\ r("approve", status = "ESCALATED").escalated => status = "ESCALATED"
      BY Zenon
    <3> HIDE DEF r
    <3> QED
      BY <2>2, <3>1, <3>2 DEF ApproveRead, caseVars, ReviewTypeOK
  <2>3. CASE RejectRead(v, i)
    <3>1. review' = [review EXCEPT ![v] = r("reject", FALSE)]
      BY <2>3, Zenon DEF RejectRead
    <3>2. /\ r("reject", FALSE).pc = "reject" /\ ~r("reject", FALSE).escalated
          /\ r("reject", FALSE).late <=> outcome # "none"
      BY Zenon
    <3> HIDE DEF r
    <3> QED
      BY <2>3, <3>1, <3>2 DEF RejectRead, caseVars, ReviewTypeOK
  <2> QED
    BY <2>1, <2>2, <2>3
<1>3. CASE ReviewStep(v)
  <2>1. outcome' = outcome
    BY <1>3 DEF ReviewStep, ApproveWrite, ApproveReopen, RejectWrite, RejectStop, SetRow, SetStatus,
                caseVars
  <2>2. \/ EndReview(v)
        \/ /\ review[v].pc = "approve" /\ review[v].escalated
           /\ review' = [review EXCEPT ![v].pc = "reopen"]
        \/ review' = [review EXCEPT ![v].pc = "stop"]
    BY <1>3 DEF ReviewStep, ApproveWrite, ApproveReopen, RejectWrite, RejectStop
  <2> QED
    BY <1>1, <2>1, <2>2 DEF EndReview, ReviewTypeOK, ReviewState
<1> QED
  BY <1>2, <1>3

LEMMA LateInvStep == TypeInv /\ MoneyInv /\ LateInv /\ [Next]_vars => LateInv'
<1> SUFFICES ASSUME TypeInv, MoneyInv, LateInv, [Next]_vars PROVE LateInv'
  OBVIOUS
<1>1. outcome # "none" => outcome' # "none"
  BY LedgerStep DEF Ledger!Next, Ledger!Confirm, Ledger!Record
<1>2. CASE RunAction
  BY <1>1, <1>2, LateRunStep DEF RunAction, TypeInv, TypeOK, RunsOK
<1>3. CASE ReviewAction
  <2>1. UNCHANGED run
    BY <1>3 DEF ReviewAction, runVars
  <2>2. PICK v \in Reviewers : ReviewStart(v) \/ ReviewStep(v)
    BY <1>3 DEF ReviewAction
  <2>3. /\ outcome' = outcome
        /\ \A u \in Reviewers \ {v} : review'[u] = review[u]
        /\ review'[v].late => outcome # "none" \/ review[v].late
    BY <2>2, ReviewEffect DEF TypeInv, TypeOK, IdleReview
  <2> QED
    BY <2>1, <2>3 DEF LateInv
<1>4. CASE UNCHANGED <<run, review>>
  BY <1>1, <1>4 DEF LateInv
<1>5. CASE Crash
  BY <1>5 DEF Crash, IdleRun, IdleReview, LateInv, LatePcs
<1>6. Next => RunAction \/ ReviewAction \/ UNCHANGED <<run, review>> \/ Crash
  BY DEF Next, CustomerAction, HookAction, runVars
<1> QED
  BY <1>2, <1>3, <1>4, <1>5, <1>6 DEF vars, runVars

\* A run, automatic or the agent's, that starts after the recovery was recorded
\* contacts nobody.
THEOREM NoBlindRetries == Spec => []LateRunNeverExecutes
<1>1. LateInv => LateRunNeverExecutes
  BY DEF LateInv, LateRunNeverExecutes, VettingKinds, LatePcs, ExecutionPcs
<1> QED
  BY <1>1, TypeInvInit, TypeInvStep, MoneyInvInit, MoneyInvStep, LateInvInit, LateInvStep, PTL
  DEF Spec

(***************************************************************************)
(* Who overwrites RECOVERED.  Between the start of a run and its first     *)
(* write of the status stands a read of the case, but for the escalation   *)
(* route; a review that reopens the case has read it as ESCALATED.         *)
(***************************************************************************)
StatusPcs == {"x_exhaust", "x_claim", "x_progress", "x_call", "x_record", "x_out",
              "o_create", "o_close", "o_exhaust", "e_create", "e_status"}

OnRoute(w) == run[w].pc \in {"e_create", "e_status"} /\ run[w].kind \in {"agent", "call"}

\* Late and about to write the status, though not by the route.
Intruding(w) == run[w].late /\ run[w].pc \in StatusPcs /\ ~OnRoute(w)
Reopening(v) == /\ review[v].late
                /\ \/ review[v].pc = "reopen"
                   \/ review[v].pc = "approve" /\ review[v].escalated

KeepInv == outcome = "webhook" /\ status = "RECOVERED" =>
             /\ \A w \in Runs : ~Intruding(w)
             /\ \A v \in Reviewers : ~Reopening(v)

LEMMA StatusPcsEntered ==
    ASSUME RunsOK, NEW w \in Runs, RunStart(w) \/ RunStep(w), Intruding(w)'
    PROVE  Intruding(w) \/ outcome = "none" \/ status # "RECOVERED"
<1>1. run'[w].late /\ run'[w].pc \in StatusPcs /\ ~OnRoute(w)'
  BY DEF Intruding, OnRoute
<1>2. /\ run'[w].pc \in {"e_create", "e_status"} => run'[w].kind \notin {"agent", "call"}
      /\ run'[w] # IdleRun
  BY <1>1 DEF OnRoute, IdleRun
<1>3. ~RunStart(w)
  BY <1>1, <1>2, StartEffect DEF StatusPcs
<1>4. ASSUME run'[w].late = run[w].late, run[w].pc \in StatusPcs,
             run[w].pc \notin {"e_create", "e_status"}
      PROVE  Intruding(w)
  BY <1>1, <1>4 DEF Intruding, OnRoute
<1>5. ~(StrategyFind(w) \/ StrategyCreate(w)) /\ ~AgentRetry(w)
  BY <1>1, StrategyEffect, AgentRetryEffect DEF EndsOr, IdleRun, StatusPcs
<1>6. ~(\/ PolicyReadCase(w) \/ PolicyCountAttempts(w) \/ PolicyFindApproved(w)
        \/ PolicyFindPending(w) \/ PolicyWriteDecision(w))
  BY <1>1, <1>2, PolicyEffect DEF EndsOr, IdleRun, StatusPcs
<1>7. CASE \/ ExecuteRead(w) \/ ExecuteExhaust(w) \/ ExecuteClaim(w) \/ ExecuteProgress(w)
           \/ ExecuteCall(w) \/ ExecuteRecord(w) \/ ExecuteGiveUp(w)
  <2>1. run'[w].late = run[w].late
    BY <1>2, <1>7, ExecuteEffect DEF EndsOr
  <2>2. CASE ExecuteRead(w)
    <3>1. (\E i \in RowIds : Executable(i)) \/ Finish(w)
      BY <2>2 DEF ExecuteRead
    <3>2. (\E i \in RowIds : Executable(i)) => status # "RECOVERED"
      BY DEF Executable
    <3>3. Finish(w) => run'[w].pc = "idle"
      BY FinishEffect DEF IdleRun
    <3> QED
      BY <1>1, <3>1, <3>2, <3>3 DEF StatusPcs
  <2>3. CASE ~ExecuteRead(w)
    BY <1>4, <1>7, <2>1, <2>3
    DEF ExecuteExhaust, ExecuteClaim, ExecuteProgress, ExecuteCall, ExecuteRecord, ExecuteGiveUp,
        At, StatusPcs
  <2> QED
    BY <2>2, <2>3
<1>8. CASE ObserveRead(w) \/ ObserveCreateOutcome(w) \/ ObserveClose(w) \/ ObserveExhaust(w)
  <2>1. run'[w].late = run[w].late /\ run'[w].pc \notin {"e_create", "e_status"}
    BY <1>2, <1>8, ObserveEffect DEF EndsOr
  <2>2. CASE ObserveRead(w)
    <3>1. outcome = "none" \/ Finish(w)
      BY <2>2 DEF ObserveRead
    <3> QED
      BY <1>1, <3>1, FinishEffect DEF IdleRun, StatusPcs
  <2>3. CASE ~ObserveRead(w)
    BY <1>4, <1>8, <2>1, <2>3 DEF ObserveCreateOutcome, ObserveClose, ObserveExhaust, At, StatusPcs
  <2> QED
    BY <2>2, <2>3
<1>9. CASE \/ MaybeEscalateRead(w) \/ EscalateCreateAction(w) \/ EscalateSetStatus(w)
           \/ DeletePlaceholder(w)
  <2>1. /\ run'[w].late = run[w].late /\ run'[w].kind = run[w].kind
        /\ run'[w].pc \in {"e_create", "e_status"}
    <3>1. /\ run'[w].pc \in {"e_create", "e_status", "d_delete"}
          /\ run'[w].kind = run[w].kind /\ run'[w].late = run[w].late
      BY <1>2, <1>9, EscalateEffect DEF EndsOr
    <3> QED
      BY <1>1, <3>1 DEF StatusPcs
  <2>2. CASE MaybeEscalateRead(w)
    <3>1. status # "RECOVERED" \/ EscalationDone(w)
      BY <2>2 DEF MaybeEscalateRead, Escalable, ActiveStatuses
    <3>2. EscalationDone(w) => run'[w].pc \in {"idle", "d_delete"}
      BY FinishEffect, GotoEffect DEF EscalationDone, AfterEscalation, IdleRun
    <3> QED
      BY <2>1, <3>1, <3>2
  <2>3. CASE EscalateCreateAction(w) \/ EscalateSetStatus(w)
    <3>1. run[w].pc \in {"e_create", "e_status"}
      BY <2>3 DEF EscalateCreateAction, EscalateSetStatus, At
    <3> QED
      BY <1>1, <1>2, <2>1, <3>1 DEF Intruding, OnRoute, StatusPcs
  <2>4. ~DeletePlaceholder(w)
    BY <2>1, FinishEffect DEF DeletePlaceholder, IdleRun
  <2> QED
    BY <1>9, <2>2, <2>3, <2>4
<1>10. CASE ClientStops(w)
  <2>1. LeftBehind(w)
    BY <1>1, <1>10, ClientStopsEffect DEF IdleRun
  <2> QED
    BY <1>1, <1>2, <2>1 DEF LeftBehind, Intruding, OnRoute
<1> QED
  BY <1>3, <1>5, <1>6, <1>7, <1>8, <1>9, <1>10 DEF RunStep

\* Everybody else confirms the first time only, and writes no RECOVERED otherwise.
LEMMA OthersConfirmOnce ==
    ASSUME CustomerAction \/ HookAction \/ ReviewAction \/ UNCHANGED vars, outcome # "none"
    PROVE  outcome' = outcome /\ (status' = "RECOVERED" => status = "RECOVERED")
<1>1. CASE CustomerAction \/ UNCHANGED vars
  BY <1>1 DEF CustomerAction, PayOrder, PayLink, caseVars, vars
<1>2. CASE HookAction
  BY <1>2 DEF HookAction, Deliver, HookStep, CapturedRead, CapturedMark, MatchActiveCase,
              LinkPaidFind, CloseRead, CloseTransaction, caseVars
<1>3. CASE ReviewAction
  BY <1>3 DEF ReviewAction, ReviewStart, ReviewStep, ApproveRead, RejectRead, ApproveWrite,
              ApproveReopen, RejectWrite, RejectStop, SetRow, SetStatus, caseVars
<1> QED
  BY <1>1, <1>2, <1>3

LEMMA KeepInvStep == TypeInv /\ MoneyInv /\ LateInv /\ KeepInv /\ [Next]_vars => KeepInv'
<1> SUFFICES ASSUME TypeInv, MoneyInv, LateInv, KeepInv, [Next]_vars,
                    outcome' = "webhook", status' = "RECOVERED"
             PROVE  /\ \A u \in Runs : ~Intruding(u)'
                    /\ \A v \in Reviewers : ~Reopening(v)'
  BY DEF KeepInv
<1>1. RunsOK /\ ReviewTypeOK
  BY DEF TypeInv, TypeOK, RunsOK
<1>2. CASE RunAction
  <2>1. PICK w \in Runs : RunStart(w) \/ RunStep(w)
    BY <1>2 DEF RunAction
  <2>2. MoneyStep(w) /\ UNCHANGED review
    BY <1>1, <1>2, <2>1, RunMoney DEF RunAction
  <2>3. outcome = "webhook" /\ status = "RECOVERED"
    BY <2>2 DEF MoneyStep, MoneyInv
  <2>4. \A u \in Runs : ~Intruding(u) /\ \A v \in Reviewers : ~Reopening(v)
    BY <2>3 DEF KeepInv
  <2>5. ~Intruding(w)'
    BY <1>1, <2>1, <2>3, <2>4, StatusPcsEntered
  <2>6. \A u \in Runs \ {w} : ~Intruding(u)'
    BY <2>2, <2>4 DEF MoneyStep, Intruding, OnRoute
  <2> QED
    BY <2>2, <2>4, <2>5, <2>6, Zenon DEF Reopening
<1>3. CASE ReviewAction
  <2>1. UNCHANGED run
    BY <1>3 DEF ReviewAction, runVars
  <2>2. PICK v \in Reviewers : ReviewStart(v) \/ ReviewStep(v)
    BY <1>3 DEF ReviewAction
  <2>3. outcome = "webhook"
    BY <1>1, <2>2, ReviewEffect
  <2>4. status = "RECOVERED"
    BY <1>3, <2>3, OthersConfirmOnce
  <2>5. \A u \in Runs : ~Intruding(u)'
    BY <2>1, <2>3, <2>4 DEF KeepInv, Intruding, OnRoute
  <2>6. ~Reopening(v)
    BY <2>3, <2>4 DEF KeepInv
  <2>7. ~Reopening(v)'
    BY <1>1, <2>2, <2>4, <2>6, ReviewEffect DEF Reopening, IdleReview
  <2>8. \A u \in Reviewers \ {v} : ~Reopening(u)'
    BY <1>1, <2>2, <2>3, <2>4, ReviewEffect DEF KeepInv, Reopening
  <2> QED
    BY <2>5, <2>7, <2>8
<1>4. CASE CustomerAction \/ HookAction \/ UNCHANGED vars
  <2>1. run' = run /\ review' = review
    BY <1>4 DEF CustomerAction, HookAction, runVars, vars
  <2>2. CASE outcome = "none"
    BY <2>1, <2>2 DEF LateInv, Intruding, Reopening
  <2>3. CASE outcome # "none"
    <3>1. outcome = "webhook" /\ status = "RECOVERED"
      BY <1>4, <2>3, OthersConfirmOnce
    <3> QED
      BY <2>1, <3>1 DEF KeepInv, Intruding, OnRoute, Reopening
  <2> QED
    BY <2>2, <2>3
<1>5. CASE Crash
  BY <1>5 DEF Crash, IdleRun, IdleReview, Intruding, Reopening
<1> QED
  BY <1>2, <1>3, <1>4, <1>5 DEF Next

\* The writes of a status other than RECOVERED.
LEMMA StatusWriters ==
    ASSUME TypeInv, [Next]_vars, status' # status, status' # "RECOVERED"
    PROVE  \/ \E w \in Runs : /\ run'[w] # run[w] /\ run[w].pc \in StatusPcs
                              /\ run[w].pc \in {"e_create", "e_status"} =>
                                   run[w].pc = "e_status" /\ status' = "ESCALATED"
           \/ \E v \in Reviewers : /\ review'[v] # review[v]
                                   /\ \/ review[v].pc = "reopen"
                                      \/ review[v].pc = "stop" /\ status' = "STOPPED"
<1>1. RunsOK /\ ReviewTypeOK
  BY DEF TypeInv, TypeOK, RunsOK
<1>2. CASE RunAction
  <2>1. PICK w \in Runs : RunStart(w) \/ RunStep(w)
    BY <1>2 DEF RunAction
  <2>2. \/ ExecuteExhaust(w) \/ ExecuteProgress(w) \/ ExecuteGiveUp(w) \/ ObserveExhaust(w)
        \/ EscalateSetStatus(w)
    BY <1>1, <2>1, StartEffect
    DEF RunStep, AgentRetry, ClientStops, StrategyFind, StrategyCreate, PolicyReadCase,
        PolicyCountAttempts, PolicyFindApproved, PolicyFindPending, PolicyWriteDecision,
        ExecuteRead, ExecuteClaim, ExecuteCall, ExecuteRecord, ObserveRead,
        ObserveCreateOutcome, ObserveClose, MaybeEscalateRead, EscalateCreateAction,
        DeletePlaceholder, AddRow, SetRow, SetStatus, caseVars
  <2>3. /\ run[w].pc \in {"x_exhaust", "x_progress", "x_out", "o_exhaust", "e_status"}
        /\ run[w].pc = "e_status" => status' = "ESCALATED"
    BY <2>2 DEF ExecuteExhaust, ExecuteProgress, ExecuteGiveUp, ObserveExhaust,
                EscalateSetStatus, At, SetStatus
  <2>4. run'[w].pc # run[w].pc
    <3>1. CASE ObserveExhaust(w)
      <4> DEFINE pc == AfterObserve(w, FALSE)
      <4>1. pc # "o_exhaust" /\ Leave(w, pc) /\ run[w].pc = "o_exhaust"
        BY <3>1, AfterObserveType, Zenon DEF ObserveExhaust, At
      <4> HIDE DEF pc
      <4> QED
        BY <1>1, <4>1, LeaveKeeps DEF IdleRun
    <3>2. CASE \/ ExecuteExhaust(w) \/ ExecuteProgress(w) \/ ExecuteGiveUp(w)
               \/ EscalateSetStatus(w)
      BY <1>1, <3>2, FinishEffect, GotoEffect, LeaveEffect
      DEF ExecuteExhaust, ExecuteProgress, ExecuteGiveUp, EscalateSetStatus, EscalationDone,
          AfterEscalation, At, IdleRun
    <3> QED
      BY <2>2, <3>1, <3>2
  <2> QED
    BY <2>3, <2>4 DEF StatusPcs
<1>3. CASE ReviewAction
  <2>1. PICK v \in Reviewers : ReviewStart(v) \/ ReviewStep(v)
    BY <1>3 DEF ReviewAction
  <2>2. ApproveReopen(v) \/ RejectStop(v)
    BY <2>1 DEF ReviewStart, ReviewStep, ApproveRead, RejectRead, ApproveWrite, RejectWrite,
                SetRow, caseVars
  <2>3. review'[v] = IdleReview
    BY <1>1, <2>2 DEF ApproveReopen, RejectStop, EndReview, ReviewTypeOK
  <2> QED
    BY <2>2, <2>3 DEF ApproveReopen, RejectStop, SetStatus, IdleReview
<1>4. ~(CustomerAction \/ HookAction \/ Crash \/ UNCHANGED vars)
  BY DEF CustomerAction, HookAction, Crash, PayOrder, PayLink, Deliver, HookStep, CapturedRead,
         CapturedMark, MatchActiveCase, LinkPaidFind, CloseRead, CloseTransaction, caseVars, vars
<1> QED
  BY <1>2, <1>3, <1>4 DEF Next

LEMMA ConfirmedStep ==
    ASSUME TypeInv, KeepInv, [Next]_vars,
           outcome = "webhook", status = "RECOVERED", status' # "RECOVERED"
    PROVE  OverwrittenByOlder \/ OverwrittenByRejection \/ OverwrittenByRoute
<1>1. CASE \E w \in Runs : /\ run'[w] # run[w] /\ run[w].pc \in StatusPcs
                           /\ run[w].pc \in {"e_create", "e_status"} =>
                                run[w].pc = "e_status" /\ status' = "ESCALATED"
  BY <1>1 DEF KeepInv, Intruding, OnRoute, OverwrittenByOlder, OverwrittenByRoute, At
<1>2. CASE \E v \in Reviewers : /\ review'[v] # review[v]
                                /\ \/ review[v].pc = "reopen"
                                   \/ review[v].pc = "stop" /\ status' = "STOPPED"
  BY <1>2 DEF KeepInv, Reopening, OverwrittenByOlder, OverwrittenByRejection
<1> QED
  BY <1>1, <1>2, StatusWriters

\* A case that closeRecoveryCase closed loses RECOVERED to nothing but a run or a
\* review from before the confirmation, a rejection, or the escalation route.
THEOREM ConfirmationsAreKept == Spec => ConfirmedIsKept
<1>1. Init => KeepInv
  BY DEF Init, CaseInit, KeepInv
<1>2. TypeInv /\ KeepInv /\ [Next]_vars =>
        [outcome = "webhook" /\ status = "RECOVERED" /\ status' # "RECOVERED"
           => OverwrittenByOlder \/ OverwrittenByRejection \/ OverwrittenByRoute]_vars
  BY ConfirmedStep
<1> QED
  BY <1>1, <1>2, KeepInvStep, TypeInvInit, TypeInvStep, MoneyInvInit, MoneyInvStep, LateInvInit,
     LateInvStep, PTL DEF Spec, ConfirmedIsKept

(***************************************************************************)
(* Nothing runs unvetted.  A decision, once written, is only written over  *)
(* by another decision, and a run holds an action only if it saw it        *)
(* allowed.                                                                *)
(***************************************************************************)
DecidingPcs == {"p_find", "p_write"}

VettedInv ==
    /\ NothingRunsUnvetted
    /\ \A w \in Runs : run[w].pc \in Counting => rows[run[w].act].decision # "null"
    /\ \A w \in Runs : run[w].pc \in DecidingPcs => run[w].decision # "null"

LEMMA DecisionStays ==
    ASSUME CaseTypeOK, RunsOK, VettedInv, [Next]_vars,
           NEW i \in RowIds, rows[i].status # "NONE", rows[i].decision # "null"
    PROVE  rows'[i].decision # "null"
<1>1. Written(i)
  BY StepWrites
<1>2. CASE Decided(i)
  BY <1>2 DEF Decided, VettedInv, DecidingPcs
<1>3. CASE ~Decided(i)
  BY <1>1, <1>3 DEF Written, Untouched, Created, Executed, Dropped, Reviewed
<1> QED
  BY <1>2, <1>3

\* Attempted rows were created as hand-offs, or by a run that saw them allowed.
LEMMA UnvettedStep ==
    ASSUME CaseTypeOK, RunsOK, ExhaustInv, VettedInv, [Next]_vars
    PROVE  NothingRunsUnvetted'
<1> SUFFICES ASSUME NEW i \in RowIds, rows'[i].status \in Attempted,
                    rows'[i].type \notin HandoffTypes
             PROVE  rows'[i].decision # "null"
  BY DEF NothingRunsUnvetted
<1>1. Written(i)
  BY StepWrites
<1>2. ~Created(i) /\ ~Dropped(i) /\ ~Reviewed(i)
  BY DEF Created, Dropped, Reviewed, Attempted, HandoffTypes
<1>3. CASE Untouched(i) \/ Decided(i)
  <2>1. rows[i].status \in Attempted /\ rows[i].type \notin HandoffTypes
    BY <1>3 DEF Untouched, Decided, SameKind
  <2>2. rows[i].decision # "null" /\ rows[i].status # "NONE"
    BY <2>1 DEF VettedInv, NothingRunsUnvetted, Attempted
  <2> QED
    BY <2>2, DecisionStays
<1>4. CASE Executed(i)
  <2>1. PICK w \in Runs : run[w].pc \in Counting /\ run[w].act = i
    BY <1>4 DEF Executed, Counting, Recording
  <2> QED
    BY <1>4, <2>1 DEF Executed, VettedInv
<1> QED
  BY <1>1, <1>2, <1>3, <1>4 DEF Written

LEMMA PolicyDecides ==
    ASSUME RunsOK, VettedInv, NEW w \in Runs,
           \/ PolicyReadCase(w) \/ PolicyCountAttempts(w) \/ PolicyFindApproved(w)
           \/ PolicyFindPending(w) \/ PolicyWriteDecision(w)
    PROVE  run'[w].pc \in DecidingPcs => run'[w].decision # "null"
<1>1. run[w] \in RunState
  BY DEF RunsOK, RunTypeOK
<1>2. \A d : Route(w, d) => run'[w].pc \notin DecidingPcs
  BY RouteEffect DEF DecidingPcs, IdleRun
<1>3. CASE PolicyReadCase(w)
  BY <1>2, <1>3, GotoEffect DEF PolicyReadCase, DecidingPcs
<1>4. CASE PolicyCountAttempts(w)
  <2> DEFINE r == [run[w] EXCEPT !.pc = "p_approved", !.n = Attempts(run[w].type)]
  <2>1. r.pc = "p_approved"
    BY <1>1 DEF RunState
  <2>2. run' = [run EXCEPT ![w] = r]
    BY <1>4, Zenon DEF PolicyCountAttempts
  <2> HIDE DEF r
  <2> QED
    BY <2>1, <2>2, UpdateEffect DEF DecidingPcs
<1>5. CASE PolicyFindApproved(w)
  <2>1. run[w].type \in ActionTypes
    BY <1>5 DEF PolicyFindApproved, At, RunsOK, RunsTyped, TypedPcs
  <2> DEFINE d(e) == PolicyCheck(run[w].type, run[w].n, e)
             r(e) == [run[w] EXCEPT !.pc = "p_find", !.decision = d(e)]
  <2>2. \A e \in BOOLEAN : d(e) # "null"
    BY <2>1, PolicyCheckType DEF Decisions
  <2>3. \A e \in BOOLEAN : r(e).decision = d(e)
    BY <1>1 DEF RunState
  <2>4. Route(w, "ALLOW") \/ \E e \in BOOLEAN : run' = [run EXCEPT ![w] = r(e)]
    BY <1>5 DEF PolicyFindApproved
  <2> HIDE DEF d, r
  <2> QED
    BY <1>2, <2>2, <2>3, <2>4, UpdateEffect
<1>6. CASE PolicyFindPending(w)
  <2> DEFINE r(i) == [run[w] EXCEPT !.pc = "p_write", !.target = i]
  <2>1. \A i \in RowIds : r(i).decision = run[w].decision
    BY <1>1 DEF RunState
  <2>2. run[w].decision # "null"
    BY <1>6 DEF PolicyFindPending, At, VettedInv, DecidingPcs
  <2>3. Route(w, run[w].decision) \/ \E i \in RowIds : run' = [run EXCEPT ![w] = r(i)]
    BY <1>6 DEF PolicyFindPending
  <2> HIDE DEF r
  <2> QED
    BY <1>2, <2>1, <2>2, <2>3, UpdateEffect
<1>7. CASE PolicyWriteDecision(w)
  BY <1>2, <1>7, FinishEffect DEF PolicyWriteDecision, IdleRun, DecidingPcs
<1> QED
  BY <1>3, <1>4, <1>5, <1>6, <1>7

\* What a run holds has its decision, and keeps it.
LEMMA HeldStaysDecided ==
    ASSUME CaseTypeOK, RunsOK, ExhaustInv, VettedInv, [Next]_vars, NEW w \in Runs,
           run[w].pc \in Counting
    PROVE  rows'[run[w].act].decision # "null"
<1>1. /\ run[w].act \in RowIds /\ rows[run[w].act].status # "NONE"
      /\ rows[run[w].act].decision # "null"
  BY DEF ExhaustInv, Counted, VettedInv
<1> QED
  BY <1>1, DecisionStays

LEMMA RunVets ==
    ASSUME CaseTypeOK, RunsOK, ExhaustInv, VettedInv, [Next]_vars, NEW w \in Runs,
           RunStart(w) \/ RunStep(w)
    PROVE  /\ OthersKept(w)
           /\ run'[w].pc \in Counting => rows'[run'[w].act].decision # "null"
           /\ run'[w].pc \in DecidingPcs => run'[w].decision # "null"
<1> DEFINE Vets == /\ OthersKept(w)
                   /\ run'[w].pc \in Counting => rows'[run'[w].act].decision # "null"
                   /\ run'[w].pc \in DecidingPcs => run'[w].decision # "null"
<1>1. ASSUME NEW pcs, EndsOr(w, pcs), pcs \cap (Counting \cup DecidingPcs) = {}
      PROVE  Vets
  BY <1>1 DEF EndsOr, IdleRun, Counting, Recording, DecidingPcs
<1>2. CASE RunStart(w)
  <2>1. OthersKept(w) /\ run'[w].pc \in {"s_find", "x_read", "o_read", "e_create"}
    BY <1>2, StartEffect
  <2> QED
    BY <2>1 DEF Counting, Recording, DecidingPcs
<1>3. CASE StrategyFind(w) \/ StrategyCreate(w)
  BY <1>1, <1>3, StrategyEffect DEF Counting, Recording, DecidingPcs
<1>4. CASE \/ PolicyReadCase(w) \/ PolicyCountAttempts(w) \/ PolicyFindApproved(w)
           \/ PolicyFindPending(w) \/ PolicyWriteDecision(w)
  <2>1. OthersKept(w) /\ run'[w].pc \notin Counting
    BY <1>4, PolicyEffect DEF EndsOr, IdleRun, Counting, Recording
  <2> QED
    BY <1>4, <2>1, PolicyDecides
<1>5. CASE ExecuteRead(w)
  BY <1>5, ExecuteReadCounts DEF Counting, Recording, DecidingPcs
<1>6. CASE ExecuteClaim(w) \/ ExecuteProgress(w) \/ ExecuteCall(w)
  <2>1. CASE run'[w].pc = "idle"
    BY <1>6, <2>1, ExecutionKeeps DEF Counting, Recording, DecidingPcs
  <2>2. CASE run'[w].pc # "idle"
    <3>1. /\ OthersKept(w) /\ run[w].pc \in Counting
          /\ run'[w].pc \in Recording /\ run'[w].act = run[w].act
      BY <1>6, <2>2, ExecutionKeeps
    <3>2. rows'[run[w].act].decision # "null"
      BY <3>1, HeldStaysDecided
    <3> QED
      BY <3>1, <3>2 DEF Recording, DecidingPcs
  <2> QED
    BY <2>1, <2>2
<1>7. CASE ExecuteRecord(w)
  <2>1. OthersKept(w) /\ run'[w].pc \in {"idle", "x_out", "o_read"}
    BY <1>7, RecordEffect
  <2> QED
    BY <2>1 DEF Counting, Recording, DecidingPcs
<1>8. CASE ExecuteExhaust(w) \/ ExecuteGiveUp(w)
  <2>1. OthersKept(w) /\ run'[w].pc \in {"idle", "o_read"}
    BY <1>8, FinishEffect, LeaveEffect DEF ExecuteExhaust, ExecuteGiveUp, IdleRun
  <2> QED
    BY <2>1 DEF Counting, Recording, DecidingPcs
<1>9. CASE ObserveRead(w) \/ ObserveCreateOutcome(w) \/ ObserveClose(w) \/ ObserveExhaust(w)
  BY <1>1, <1>9, ObserveEffect DEF Counting, Recording, DecidingPcs
<1>10. CASE \/ MaybeEscalateRead(w) \/ EscalateCreateAction(w) \/ EscalateSetStatus(w)
            \/ DeletePlaceholder(w)
  BY <1>1, <1>10, EscalateEffect DEF Counting, Recording, DecidingPcs
<1>11. CASE AgentRetry(w)
  BY <1>1, <1>11, AgentRetryEffect DEF Counting, Recording, DecidingPcs
<1>12. CASE ClientStops(w)
  <2>1. OthersKept(w) /\ (run'[w] = IdleRun \/ LeftBehind(w))
    BY <1>12, ClientStopsEffect
  <2>2. CASE run'[w] = IdleRun
    BY <2>1, <2>2 DEF IdleRun, Counting, Recording, DecidingPcs
  <2>3. CASE LeftBehind(w)
    BY <2>1, <2>3, HeldStaysDecided DEF LeftBehind, VettedInv
  <2> QED
    BY <2>1, <2>2, <2>3
<1> QED
  BY <1>2, <1>3, <1>4, <1>5, <1>6, <1>7, <1>8, <1>9, <1>10, <1>11, <1>12 DEF RunStep

LEMMA VettedInvStep ==
    ASSUME TypeInv, ExhaustInv, VettedInv, [Next]_vars
    PROVE  VettedInv'
<1>1. CaseTypeOK /\ RunsOK
  BY DEF TypeInv, TypeOK, RunsOK
<1>2. NothingRunsUnvetted'
  BY <1>1, UnvettedStep
<1>3. ASSUME NEW u \in Runs, run'[u] = run[u]
      PROVE  /\ run'[u].pc \in Counting => rows'[run'[u].act].decision # "null"
             /\ run'[u].pc \in DecidingPcs => run'[u].decision # "null"
  <2>1. CASE run[u].pc \in Counting
    BY <1>1, <1>3, <2>1, HeldStaysDecided DEF VettedInv
  <2>2. CASE run[u].pc \notin Counting
    BY <1>3, <2>2 DEF VettedInv
  <2> QED
    BY <2>1, <2>2
<1>4. CASE RunAction
  <2>1. PICK w \in Runs : RunStart(w) \/ RunStep(w)
    BY <1>4 DEF RunAction
  <2>2. /\ OthersKept(w)
        /\ run'[w].pc \in Counting => rows'[run'[w].act].decision # "null"
        /\ run'[w].pc \in DecidingPcs => run'[w].decision # "null"
    BY <1>1, <2>1, RunVets
  <2>3. ASSUME NEW u \in Runs
        PROVE  /\ run'[u].pc \in Counting => rows'[run'[u].act].decision # "null"
               /\ run'[u].pc \in DecidingPcs => run'[u].decision # "null"
    BY <1>3, <2>2 DEF OthersKept
  <2> QED
    BY <1>2, <2>3 DEF VettedInv
<1>5. CASE ~RunAction
  <2>1. \A u \in Runs : run'[u] = run[u] \/ run'[u] = IdleRun
    BY <1>5 DEF Next, CustomerAction, HookAction, ReviewAction, Crash, runVars, vars
  <2>2. ASSUME NEW u \in Runs
        PROVE  /\ run'[u].pc \in Counting => rows'[run'[u].act].decision # "null"
               /\ run'[u].pc \in DecidingPcs => run'[u].decision # "null"
    BY <1>3, <2>1 DEF IdleRun, Counting, Recording, DecidingPcs
  <2> QED
    BY <1>2, <2>2 DEF VettedInv
<1> QED
  BY <1>4, <1>5

\* No charge and no message goes out for an action that neither policy nor a
\* human has looked at, whichever run created it and whichever executes it.
THEOREM NothingRunsUnseen == Spec => []NothingRunsUnvetted
<1>1. Init => VettedInv
  <2> SUFFICES ASSUME Init PROVE VettedInv
    OBVIOUS
  <2>1. \A i \in RowIds : rows[i].status = "NONE"
    BY DEF Init, CaseInit, NoRow
  <2>2. \A w \in Runs : run[w].pc = "idle"
    BY DEF Init, RunInit, IdleRun
  <2> QED
    BY <2>1, <2>2
    DEF VettedInv, NothingRunsUnvetted, Attempted, Counting, Recording, DecidingPcs
<1>2. TypeInv /\ ExhaustInv /\ VettedInv /\ [Next]_vars => VettedInv'
  BY VettedInvStep
<1>3. VettedInv => NothingRunsUnvetted
  BY DEF VettedInv
<1> QED
  BY <1>1, <1>2, <1>3, TypeInvInit, TypeInvStep, ExhaustInvariant, PTL DEF Spec
=============================================================================
