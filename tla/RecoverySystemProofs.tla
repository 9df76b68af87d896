------------------------ MODULE RecoverySystemProofs ------------------------
(***************************************************************************)
(* Proofs about RecoverySystem, for every root cause, policy, number of    *)
(* rows, runs, deliveries, reviewers and restarts.                         *)
(***************************************************************************)
EXTENDS RecoverySystem, FiniteSetTheorems, TLAPS

(***************************************************************************)
(* Type correctness.  It is inductive once a run between its strategy and  *)
(* its policy decision is known to hold a real action type.                *)
(***************************************************************************)
TypedPcs  == {"s_find", "s_create", "p_case", "p_count", "p_approved", "p_find", "p_write"}
RunsTyped == \A w \in Runs : run[w].pc \in TypedPcs => run[w].type \in ActionTypes

LEMMA DetermineType == Determine(RootCause) \in ActionTypes
BY DEF Determine, ActionTypes, ContactTypes, HandoffTypes

LEMMA SelectStrategyType == SelectStrategy \in ActionTypes
BY DetermineType DEF SelectStrategy, ActionTypes

LEMMA RowsOfFinite ==
    ASSUME NEW t, NEW S
    PROVE  IsFiniteSet(RowsOf(t, S)) /\ Cardinality(RowsOf(t, S)) \in Nat
<1>1. IsFiniteSet(RowIds)
  BY FS_Interval, MaxRowsAssumption DEF RowIds
<1>2. RowsOf(t, S) \in SUBSET RowIds
  BY DEF RowsOf
<1> QED
  BY <1>1, <1>2, FS_Subset, FS_CardinalityType

LEMMA AttemptsType == ASSUME NEW t PROVE Attempts(t) \in Nat
BY RowsOfFinite DEF Attempts

LEMMA PolicyCheckType ==
    ASSUME NEW t \in ActionTypes, NEW n, NEW elapsed
    PROVE  PolicyCheck(t, n, elapsed) \in Decisions
<1>1. Policies[t].decision \in Decisions
  BY PoliciesAssumption DEF Policy
<1> QED
  BY <1>1 DEF PolicyCheck, Decisions

RunsOK == RunTypeOK /\ RunsTyped

LEMMA IdleRunType == IdleRun \in RunState
BY MaxRowsAssumption DEF RunState, IdleRun, RunPcs, RunKinds, AutoKinds, ClientKinds

LEMMA GotoType ==
    ASSUME RunsOK, NEW w \in Runs, NEW pc \in RunPcs, Goto(w, pc),
           pc \in TypedPcs => run[w].type \in ActionTypes
    PROVE  RunsOK'
BY DEF RunsOK, RunTypeOK, RunsTyped, RunState, Goto

LEMMA FinishType ==
    ASSUME RunsOK, NEW w \in Runs, Finish(w)
    PROVE  RunsOK'
BY IdleRunType DEF RunsOK, RunTypeOK, RunsTyped, Finish, IdleRun, TypedPcs

LEMMA UpdateType ==
    ASSUME RunsOK, NEW w \in Runs, NEW r \in RunState,
           run' = [run EXCEPT ![w] = r], starts' \in Nat,
           r.pc \in TypedPcs => r.type \in ActionTypes
    PROVE  RunsOK'
BY DEF RunsOK, RunTypeOK, RunsTyped

LEMMA BeginType ==
    ASSUME RunsOK, NEW w \in Runs, NEW kind \in RunKinds, NEW pc \in RunPcs,
           NEW t \in ActionTypes \cup {"none"}, starts' \in Nat, Begin(w, kind, pc, t),
           pc \in TypedPcs => t \in ActionTypes
    PROVE  RunsOK'
<1>1. \A b \in BOOLEAN :
        LET r == [IdleRun EXCEPT !.pc = pc, !.kind = kind, !.type = t, !.late = b]
        IN  r \in RunState /\ r.pc = pc /\ r.type = t
  BY IdleRunType DEF RunState
<1>2. (outcome # "none") \in BOOLEAN
  OBVIOUS
<1> DEFINE r == [IdleRun EXCEPT !.pc = pc, !.kind = kind, !.type = t,
                                !.late = (outcome # "none")]
<1>3. r \in RunState /\ r.pc = pc /\ r.type = t
  BY <1>1, <1>2, Zenon
<1>4. run' = [run EXCEPT ![w] = r]
  BY DEF Begin
<1> HIDE DEF r
<1> QED
  BY <1>3, <1>4, UpdateType

LEMMA LeaveType ==
    ASSUME RunsOK, NEW w \in Runs, NEW pc \in {"o_read", "s_read", "e_create", "idle"}, Leave(w, pc)
    PROVE  RunsOK'
<1>1. CASE pc = "idle"
  BY <1>1, FinishType DEF Leave
<1>2. CASE pc # "idle"
  <2> DEFINE r == [IdleRun EXCEPT !.pc = pc, !.kind = run[w].kind, !.late = run[w].late]
  <2>1. r \in RunState /\ r.pc = pc
    BY IdleRunType, <1>2 DEF RunState, RunsOK, RunTypeOK, RunPcs
  <2>2. run' = [run EXCEPT ![w] = r] /\ starts' = starts
    BY <1>2 DEF Leave
  <2>3. pc \notin TypedPcs
    BY <1>2 DEF TypedPcs
  <2> HIDE DEF r
  <2> QED
    BY <2>1, <2>2, <2>3, UpdateType DEF RunsOK, RunTypeOK
<1> QED
  BY <1>1, <1>2

LEMMA RouteType ==
    ASSUME RunsOK, NEW w \in Runs, NEW d \in Decisions \cup {"null"}, Route(w, d)
    PROVE  RunsOK'
<1>1. CASE Routed(w, d) = "idle"
  BY <1>1, FinishType DEF Route
<1>2. CASE Routed(w, d) # "idle"
  <2> DEFINE r == [run[w] EXCEPT !.pc = Routed(w, d), !.decision = d, !.target = 0, !.n = 0]
  <2>1. Routed(w, d) \in {"e_read", "x_read", "e_create"}
    BY <1>2 DEF Routed, RoutedAuto, RoutedAgent
  <2>2. Routed(w, d) \in RunPcs /\ Routed(w, d) \notin TypedPcs
    BY <2>1 DEF TypedPcs, RunPcs
  <2>3. r \in RunState /\ r.pc = Routed(w, d)
    <3>1. run[w] \in RunState
      BY DEF RunsOK, RunTypeOK
    <3>2. 0 \in 0 .. MaxRows /\ 0 \in Nat
      BY MaxRowsAssumption
    <3> QED
      BY <2>2, <3>1, <3>2 DEF RunState
  <2>4. run' = [run EXCEPT ![w] = r] /\ starts' = starts
    BY <1>2, Zenon DEF Route
  <2> HIDE DEF r
  <2> QED
    BY <2>2, <2>3, <2>4, UpdateType DEF RunsOK, RunTypeOK
<1> QED
  BY <1>1, <1>2

LEMMA SetRowType ==
    ASSUME CaseTypeOK, NEW i, NEW r, i \in RowIds => r \in Row, SetRow(i, r)
    PROVE  CaseTypeOK'
BY DEF CaseTypeOK, SetRow

LEMMA RowUpdates ==
    ASSUME CaseTypeOK, NEW i \in RowIds
    PROVE  /\ \A s \in RowStatuses : [rows[i] EXCEPT !.status = s] \in Row
           /\ \A d \in Decisions \cup {"null"} : [rows[i] EXCEPT !.decision = d] \in Row
           /\ \A n \in Nat : [rows[i] EXCEPT !.sent = n] \in Row
           /\ \A s \in RowStatuses, b \in BOOLEAN :
                [rows[i] EXCEPT !.status = s, !.linked = b] \in Row
           /\ \A s \in RowStatuses, n \in Nat :
                [rows[i] EXCEPT !.status = s, !.replaced = n] \in Row
           /\ \A s \in RowStatuses, d \in Decisions, n \in Nat :
                [rows[i] EXCEPT !.status = s, !.decision = d, !.replaced = n] \in Row
<1>1. rows[i] \in Row
  BY DEF CaseTypeOK
<1> QED
  BY <1>1 DEF Row

LEMMA AddRowType ==
    ASSUME CaseTypeOK, NEW i, NEW t \in ActionTypes \cup {"none"}, NEW s \in RowStatuses,
           AddRow(i, t, s)
    PROVE  CaseTypeOK'
<1>1. [NoRow EXCEPT !.type = t, !.status = s] \in Row
  BY DEF NoRow, Row
<1> QED
  BY <1>1 DEF CaseTypeOK, AddRow

LEMMA SetStatusType ==
    ASSUME CaseTypeOK, NEW s \in CaseStatuses, SetStatus(s)
    PROVE  CaseTypeOK'
BY DEF CaseTypeOK, SetStatus

\* A row's id fits where a run keeps an action.
LEMMA RowIdsType == /\ RowIds \subseteq 0 .. MaxRows
                    /\ \A i \in RowIds : i \in 0 .. MaxRows
BY MaxRowsAssumption DEF RowIds

LEMMA CaseUnchangedType == ASSUME CaseTypeOK, UNCHANGED caseVars PROVE CaseTypeOK'
BY DEF CaseTypeOK, caseVars

LEMMA RunStartType ==
    ASSUME CaseTypeOK, RunsOK, NEW w \in Runs, RunStart(w)
    PROVE  CaseTypeOK' /\ RunsOK'
<1>1. starts \in Nat
  BY DEF RunsOK, RunTypeOK
<1>2. CASE \E kind \in {"detect", "agent", "panel"} : Launch(w, kind, "s_find", SelectStrategy)
  BY <1>1, <1>2, BeginType, SelectStrategyType, CaseUnchangedType
  DEF Launch, RunKinds, AutoKinds, ClientKinds, RunPcs
<1>3. CASE RetrySweep(w)
  BY <1>1, <1>3, BeginType, SelectStrategyType, CaseUnchangedType
  DEF RetrySweep, RunKinds, AutoKinds, RunPcs
<1>4. CASE ManualEscalate(w)
  BY <1>1, <1>4, BeginType, CaseUnchangedType
  DEF ManualEscalate, Launch, RunKinds, RunPcs, TypedPcs
<1>5. CASE ManualExecute(w) \/ ManualObserve(w)
  BY <1>1, <1>5, BeginType, CaseUnchangedType
  DEF ManualExecute, ManualObserve, RunKinds, RunPcs, TypedPcs
<1> QED
  BY <1>2, <1>3, <1>4, <1>5 DEF RunStart, Detect, RunAgent, ManualStrategy

LEMMA ClientType ==
    ASSUME CaseTypeOK, RunsOK, NEW w \in Runs, AgentRetry(w) \/ ClientStops(w)
    PROVE  CaseTypeOK' /\ RunsOK'
<1>1. run[w] \in RunState /\ starts \in Nat
  BY DEF RunsOK, RunTypeOK
<1>2. CaseTypeOK'
  BY CaseUnchangedType DEF AgentRetry, ClientStops
<1>3. CASE AgentRetry(w)
  <2> DEFINE r == [run[w] EXCEPT !.pc = "s_find", !.type = SelectStrategy]
  <2>1. r \in RunState /\ r.type \in ActionTypes
    BY <1>1, SelectStrategyType DEF RunState, RunPcs
  <2>2. run' = [run EXCEPT ![w] = r] /\ starts' = starts
    BY <1>3, Zenon DEF AgentRetry
  <2> HIDE DEF r
  <2> QED
    BY <1>1, <1>2, <2>1, <2>2, UpdateType
<1>4. CASE ClientStops(w)
  <2>1. CASE Finish(w)
    BY <1>2, <2>1, FinishType
  <2>2. CASE run' = [run EXCEPT ![w].kind = "call"] /\ starts' = starts
    <3> DEFINE r == [run[w] EXCEPT !.kind = "call"]
    <3>1. r \in RunState /\ r.type = run[w].type /\ r.pc = run[w].pc
      BY <1>1 DEF RunState, RunKinds
    <3>2. run' = [run EXCEPT ![w] = r]
      BY <2>2
    <3> HIDE DEF r
    <3> QED
      BY <1>1, <1>2, <2>2, <3>1, <3>2, UpdateType DEF RunsOK, RunsTyped
  <2> QED
    BY <1>4, <2>1, <2>2 DEF ClientStops
<1> QED
  BY <1>3, <1>4

LEMMA StrategyType ==
    ASSUME CaseTypeOK, RunsOK, NEW w \in Runs, StrategyFind(w) \/ StrategyCreate(w)
    PROVE  CaseTypeOK' /\ RunsOK'
<1>1. run[w] \in RunState /\ starts \in Nat
  BY DEF RunsOK, RunTypeOK
<1>2. run[w].pc \in {"s_find", "s_create"}
  BY DEF StrategyFind, StrategyCreate, At
<1>3. run[w].type \in ActionTypes
  BY <1>2 DEF RunsOK, RunsTyped, TypedPcs
<1>4. ASSUME NEW i \in RowIds, Planned(w, i) PROVE RunsOK'
  <2>1. CASE run[w].kind = "call"
    BY <1>4, <2>1, FinishType DEF Planned, Finish
  <2>2. CASE run[w].kind # "call"
    <3> DEFINE r == [run[w] EXCEPT !.pc = "p_case", !.act = i]
    <3>1. r \in RunState /\ r.type = run[w].type
      BY <1>1, RowIdsType DEF RunState, RunPcs
    <3>2. run' = [run EXCEPT ![w] = r] /\ starts' = starts
      BY <1>4, <2>2 DEF Planned
    <3> HIDE DEF r
    <3> QED
      BY <1>1, <1>3, <3>1, <3>2, UpdateType
  <2> QED
    BY <2>1, <2>2
<1>5. CASE StrategyFind(w)
  <2>1. CASE Goto(w, "s_create")
    BY <1>3, <1>5, <2>1, GotoType, CaseUnchangedType DEF StrategyFind, RunPcs
  <2>2. CASE \E i \in RowIds : Planned(w, i)
    BY <1>4, <1>5, <2>2, CaseUnchangedType DEF StrategyFind
  <2> QED
    BY <1>5, <2>1, <2>2 DEF StrategyFind
<1>6. CASE StrategyCreate(w)
  <2>1. PICK i \in RowIds : AddRow(i, run[w].type, "PENDING") /\ Planned(w, i)
    BY <1>6 DEF StrategyCreate
  <2>2. CaseTypeOK'
    BY <1>3, <2>1, AddRowType DEF RowStatuses, Claimable
  <2> QED
    BY <1>4, <2>1, <2>2
<1> QED
  BY <1>5, <1>6

LEMMA PolicyType ==
    ASSUME CaseTypeOK, RunsOK, NEW w \in Runs,
           \/ PolicyReadCase(w) \/ PolicyCountAttempts(w) \/ PolicyFindApproved(w)
           \/ PolicyFindPending(w) \/ PolicyWriteDecision(w)
    PROVE  CaseTypeOK' /\ RunsOK'
<1>1. run[w] \in RunState /\ starts \in Nat
  BY DEF RunsOK, RunTypeOK
<1>2. run[w].pc \in TypedPcs
  BY DEF PolicyReadCase, PolicyCountAttempts, PolicyFindApproved, PolicyFindPending,
         PolicyWriteDecision, At, TypedPcs
<1>3. run[w].type \in ActionTypes
  BY <1>2 DEF RunsOK, RunsTyped
<1>4. run[w].decision \in Decisions \cup {"null"}
  BY <1>1 DEF RunState
<1>5. CASE PolicyReadCase(w)
  BY <1>3, <1>5, RouteType, GotoType, CaseUnchangedType DEF PolicyReadCase, RunPcs, Decisions
<1>6. CASE PolicyCountAttempts(w)
  <2> DEFINE r == [run[w] EXCEPT !.pc = "p_approved", !.n = Attempts(run[w].type)]
  <2>1. r \in RunState /\ r.type = run[w].type
    BY <1>1, AttemptsType DEF RunState, RunPcs
  <2>2. run' = [run EXCEPT ![w] = r] /\ UNCHANGED <<starts, caseVars>>
    BY <1>6, Zenon DEF PolicyCountAttempts
  <2> HIDE DEF r
  <2> QED
    BY <1>1, <1>3, <2>1, <2>2, UpdateType, CaseUnchangedType
<1>7. CASE PolicyFindApproved(w)
  <2>1. CASE Route(w, "ALLOW")
    BY <1>7, <2>1, RouteType, CaseUnchangedType DEF PolicyFindApproved, Decisions
  <2> DEFINE r(e) == [run[w] EXCEPT !.pc = "p_find",
                                    !.decision = PolicyCheck(run[w].type, run[w].n, e)]
  <2>2. \A e \in BOOLEAN : r(e) \in RunState /\ r(e).type = run[w].type
    BY <1>1, <1>3, PolicyCheckType DEF RunState, RunPcs
  <2>3. CASE \E e \in BOOLEAN : run' = [run EXCEPT ![w] = r(e)] /\ UNCHANGED starts
    <3>1. PICK e \in BOOLEAN : run' = [run EXCEPT ![w] = r(e)] /\ UNCHANGED starts
      BY <2>3
    <3>2. r(e) \in RunState /\ r(e).type = run[w].type
      BY <2>2
    <3> HIDE DEF r
    <3> QED
      BY <1>1, <1>3, <1>7, <3>1, <3>2, UpdateType, CaseUnchangedType DEF PolicyFindApproved
  <2> QED
    BY <1>7, <2>1, <2>3 DEF PolicyFindApproved
<1>8. CASE PolicyFindPending(w)
  <2>1. CASE Route(w, run[w].decision)
    BY <1>4, <1>8, <2>1, RouteType, CaseUnchangedType DEF PolicyFindPending
  <2> DEFINE r(i) == [run[w] EXCEPT !.pc = "p_write", !.target = i]
  <2>2. \A i \in RowIds : r(i) \in RunState /\ r(i).type = run[w].type
    BY <1>1, RowIdsType DEF RunState, RunPcs
  <2>3. CASE \E i \in RowIds : run' = [run EXCEPT ![w] = r(i)] /\ UNCHANGED starts
    <3>1. PICK i \in RowIds : run' = [run EXCEPT ![w] = r(i)] /\ UNCHANGED starts
      BY <2>3
    <3>2. r(i) \in RunState /\ r(i).type = run[w].type
      BY <2>2
    <3> HIDE DEF r
    <3> QED
      BY <1>1, <1>3, <1>8, <3>1, <3>2, UpdateType, CaseUnchangedType DEF PolicyFindPending
  <2> QED
    BY <1>8, <2>1, <2>3 DEF PolicyFindPending
<1>9. CASE PolicyWriteDecision(w)
  <2>1. CASE Finish(w) /\ UNCHANGED caseVars
    BY <2>1, FinishType, CaseUnchangedType
  <2>2. CASE /\ SetRow(run[w].target, [rows[run[w].target] EXCEPT !.decision = run[w].decision])
             /\ Route(w, run[w].decision)
    BY <1>4, <2>2, RouteType, SetRowType, RowUpdates
  <2> QED
    BY <1>9, <2>1, <2>2 DEF PolicyWriteDecision
<1> QED
  BY <1>5, <1>6, <1>7, <1>8, <1>9

LEMMA ExecuteType ==
    ASSUME CaseTypeOK, RunsOK, NEW w \in Runs,
           \/ ExecuteRead(w) \/ ExecuteExhaust(w) \/ ExecuteClaim(w) \/ ExecuteProgress(w)
           \/ ExecuteCall(w) \/ ExecuteRecord(w) \/ ExecuteGiveUp(w)
    PROVE  CaseTypeOK' /\ RunsOK'
<1>1. run[w] \in RunState /\ starts \in Nat
  BY DEF RunsOK, RunTypeOK
<1>2. AfterExecute(w) \in {"o_read", "idle"}
  BY DEF AfterExecute
<1>3. CASE ExecuteRead(w)
  <2>1. CASE Finish(w)
    BY <1>3, <2>1, FinishType, CaseUnchangedType DEF ExecuteRead
  <2> DEFINE r(i) == [run[w] EXCEPT
                        !.pc = IF CeilingReached(rows[i].type) THEN "x_exhaust" ELSE "x_claim",
                        !.act = i, !.type = rows[i].type, !.n = Attempts(rows[i].type),
                        !.decision = "null"]
  <2>2. ASSUME NEW i \in RowIds PROVE r(i) \in RunState /\ r(i).pc \notin TypedPcs
    <3>1. rows[i].type \in ActionTypes \cup {"none"}
      BY DEF CaseTypeOK, Row
    <3>2. Attempts(rows[i].type) \in Nat /\ i \in 0 .. MaxRows
      BY AttemptsType, RowIdsType
    <3>3. ASSUME NEW pc \in {"x_exhaust", "x_claim"}, NEW n \in Nat,
                 NEW t \in ActionTypes \cup {"none"}, NEW a \in 0 .. MaxRows
          PROVE  LET q == [run[w] EXCEPT !.pc = pc, !.act = a, !.type = t, !.n = n,
                                         !.decision = "null"]
                 IN  q \in RunState /\ q.pc \notin TypedPcs
      BY <1>1 DEF RunState, RunPcs, TypedPcs
    <3> QED
      BY <3>1, <3>2, <3>3
  <2>3. CASE \E i \in RowIds : run' = [run EXCEPT ![w] = r(i)] /\ UNCHANGED starts
    <3>1. PICK i \in RowIds : run' = [run EXCEPT ![w] = r(i)] /\ UNCHANGED starts
      BY <2>3
    <3>2. r(i) \in RunState /\ r(i).pc \notin TypedPcs
      BY <2>2
    <3> HIDE DEF r
    <3> QED
      BY <1>1, <1>3, <3>1, <3>2, UpdateType, CaseUnchangedType DEF ExecuteRead
  <2> QED
    BY <1>3, <2>1, <2>3 DEF ExecuteRead
<1>4. CASE ExecuteExhaust(w)
  BY <1>4, FinishType, SetStatusType DEF ExecuteExhaust, CaseStatuses
<1>5. CASE ExecuteClaim(w)
  <2>1. CASE Finish(w) /\ UNCHANGED caseVars
    BY <2>1, FinishType, CaseUnchangedType
  <2>2. CASE /\ SetRow(run[w].act, [rows[run[w].act] EXCEPT !.status = "EXECUTING"])
             /\ Goto(w, "x_progress")
    BY <2>2, GotoType, SetRowType, RowUpdates DEF RowStatuses, Attempted, RunPcs, TypedPcs
  <2> QED
    BY <1>5, <2>1, <2>2 DEF ExecuteClaim
<1>6. CASE ExecuteProgress(w)
  BY <1>6, GotoType, SetStatusType DEF ExecuteProgress, CaseStatuses, RunPcs, TypedPcs
<1>7. CASE ExecuteCall(w)
  <2> DEFINE i == run[w].act
             r(result) == [run[w] EXCEPT !.pc = "x_record", !.result = result]
             n(left) == IF left THEN rows[i].sent + 1 ELSE rows[i].sent
  <2>1. PICK result \in {"ok", "unsuccessful", "thrown"}, left \in BOOLEAN :
             /\ SetRow(i, [rows[i] EXCEPT !.sent = n(left)])
             /\ run' = [run EXCEPT ![w] = r(result)]
    BY <1>7 DEF ExecuteCall
  <2>2. r(result) \in RunState /\ r(result).pc \notin TypedPcs
    BY <1>1 DEF RunState, RunPcs, TypedPcs
  <2>3. i \in RowIds => n(left) \in Nat
    BY DEF CaseTypeOK, Row
  <2>4. CaseTypeOK'
    <3> HIDE DEF n
    <3> QED
      BY <2>1, <2>3, SetRowType, RowUpdates
  <2>5. RunsOK'
    <3>1. starts' = starts
      BY <1>7 DEF ExecuteCall
    <3> HIDE DEF r
    <3> QED
      BY <1>1, <2>1, <2>2, <3>1, UpdateType
  <2> QED
    BY <2>4, <2>5
<1>8. CASE ExecuteRecord(w)
  <2> DEFINE i == run[w].act
             r == run[w].result
             b == rows[i].linked \/ (r = "ok" /\ rows[i].type \in ContactTypes)
  <2>1. SetRow(i, [rows[i] EXCEPT !.status = ResultStatus(r), !.linked = b])
    BY <1>8 DEF ExecuteRecord
  <2>2. ResultStatus(r) \in RowStatuses /\ b \in BOOLEAN
    BY DEF ResultStatus, RowStatuses, Attempted
  <2>3. CaseTypeOK'
    <3> HIDE DEF b
    <3> QED
      BY <2>1, <2>2, SetRowType, RowUpdates
  <2>4. Finish(w) \/ Goto(w, "x_out") \/ Leave(w, AfterExecute(w))
    BY <1>8 DEF ExecuteRecord
  <2>5. RunsOK'
    BY <1>2, <2>4, FinishType, GotoType, LeaveType DEF RunPcs, TypedPcs
  <2> QED
    BY <2>3, <2>5
<1>9. CASE ExecuteGiveUp(w)
  BY <1>2, <1>9, LeaveType, SetStatusType DEF ExecuteGiveUp, CaseStatuses
<1> QED
  BY <1>3, <1>4, <1>5, <1>6, <1>7, <1>8, <1>9

LEMMA AfterObserveType ==
    \A w : \A left : AfterObserve(w, left) \in {"s_read", "e_create", "idle"}
BY DEF AfterObserve

LEMMA ObserveType ==
    ASSUME CaseTypeOK, RunsOK, NEW w \in Runs,
           ObserveRead(w) \/ ObserveCreateOutcome(w) \/ ObserveClose(w) \/ ObserveExhaust(w)
    PROVE  CaseTypeOK' /\ RunsOK'
<1>1. CASE ObserveRead(w)
  <2>1. \/ Finish(w) \/ Goto(w, "o_create") \/ Goto(w, "o_exhaust")
        \/ Leave(w, AfterObserve(w, ~NoAttemptLeft))
    BY <1>1 DEF ObserveRead
  <2>2. CASE Leave(w, AfterObserve(w, ~NoAttemptLeft))
    BY <1>1, <2>2, LeaveType, AfterObserveType, CaseUnchangedType DEF ObserveRead
  <2> QED
    BY <1>1, <2>1, <2>2, FinishType, GotoType, CaseUnchangedType DEF ObserveRead, RunPcs, TypedPcs
<1>2. CASE ObserveCreateOutcome(w)
  <2>1. CASE Finish(w) /\ UNCHANGED caseVars
    BY <2>1, FinishType, CaseUnchangedType
  <2>2. CASE outcome' = "observer" /\ UNCHANGED <<status, payment, rows>> /\ Goto(w, "o_close")
    BY <2>2, GotoType DEF CaseTypeOK, RunPcs, TypedPcs
  <2> QED
    BY <1>2, <2>1, <2>2 DEF ObserveCreateOutcome
<1>3. CASE ObserveClose(w)
  BY <1>3, FinishType, SetStatusType DEF ObserveClose, CaseStatuses
<1>4. CASE ObserveExhaust(w)
  BY <1>4, LeaveType, AfterObserveType, SetStatusType DEF ObserveExhaust, CaseStatuses
<1> QED
  BY <1>1, <1>2, <1>3, <1>4

LEMMA EscalateType ==
    ASSUME CaseTypeOK, RunsOK, NEW w \in Runs,
           \/ MaybeEscalateRead(w) \/ EscalateCreateAction(w) \/ EscalateSetStatus(w)
           \/ DeletePlaceholder(w)
    PROVE  CaseTypeOK' /\ RunsOK'
<1>1. EscalationDone(w) => RunsOK'
  BY FinishType, GotoType DEF EscalationDone, AfterEscalation, RunPcs, TypedPcs
<1>2. CASE MaybeEscalateRead(w)
  BY <1>1, <1>2, GotoType, CaseUnchangedType DEF MaybeEscalateRead, RunPcs, TypedPcs
<1>3. CASE EscalateCreateAction(w)
  BY <1>3, GotoType, AddRowType
  DEF EscalateCreateAction, RunPcs, TypedPcs, ActionTypes, HandoffTypes, RowStatuses, Attempted
<1>4. CASE EscalateSetStatus(w)
  BY <1>1, <1>4, SetStatusType DEF EscalateSetStatus, CaseStatuses
<1>5. CASE DeletePlaceholder(w)
  BY <1>5, FinishType, SetRowType, RowUpdates, CaseUnchangedType DEF DeletePlaceholder, RowStatuses
<1> QED
  BY <1>2, <1>3, <1>4, <1>5

LEMMA RunStepType ==
    ASSUME CaseTypeOK, RunsOK, NEW w \in Runs, RunStep(w)
    PROVE  CaseTypeOK' /\ RunsOK'
BY ClientType, StrategyType, PolicyType, ExecuteType, ObserveType, EscalateType DEF RunStep

(***************************************************************************)
(* Webhook deliveries and reviews.  A delivery being handled has an event. *)
(***************************************************************************)
HooksTyped == \A h \in Hooks : hook[h].pc # "idle" => hook[h].event \in Events
HooksOK    == HookTypeOK /\ HooksTyped

LEMMA IdleHookType == IdleHook \in [pc : HookPcs, event : Events \cup {"none"}]
BY DEF IdleHook, HookPcs

LEMMA HookGotoType ==
    ASSUME HooksOK, NEW h \in Hooks, NEW pc \in HookPcs, HookGoto(h, pc), hook[h].pc # "idle"
    PROVE  HooksOK'
BY DEF HooksOK, HookTypeOK, HooksTyped, HookGoto

LEMMA HookEndType ==
    ASSUME HooksOK, NEW h \in Hooks, hook[h].pc # "idle", Answer(h) \/ Throw(h)
    PROVE  HooksOK'
<1>1. hook' = [hook EXCEPT ![h] = IdleHook] /\ UNCHANGED <<paid, paidRow, newRow>>
  BY DEF Answer, Throw
<1>2. answered' \subseteq Events
  BY DEF Answer, Throw, HooksOK, HookTypeOK, HooksTyped
<1>3. HookTypeOK'
  BY <1>1, <1>2, IdleHookType DEF HooksOK, HookTypeOK
<1>4. HooksTyped'
  BY <1>1 DEF HooksOK, HookTypeOK, HooksTyped, IdleHook
<1> QED
  BY <1>3, <1>4 DEF HooksOK

LEMMA DeliverType ==
    ASSUME CaseTypeOK, HooksOK, NEW h \in Hooks, NEW e \in Events, Deliver(h, e)
    PROVE  CaseTypeOK' /\ HooksOK'
<1> DEFINE r == [pc |-> FirstPc(e), event |-> e]
<1>1. r \in [pc : HookPcs, event : Events \cup {"none"}] /\ r.event = e
  BY DEF FirstPc, HookPcs
<1>2. hook' = [hook EXCEPT ![h] = r] /\ UNCHANGED <<paid, paidRow, newRow, answered, caseVars>>
  BY DEF Deliver
<1> HIDE DEF r
<1>3. HookTypeOK'
  BY <1>1, <1>2 DEF HooksOK, HookTypeOK
<1>4. HooksTyped'
  BY <1>1, <1>2 DEF HooksOK, HookTypeOK, HooksTyped
<1> QED
  BY <1>2, <1>3, <1>4, CaseUnchangedType DEF HooksOK

LEMMA HookStepType ==
    ASSUME CaseTypeOK, HooksOK, NEW h \in Hooks, HookStep(h)
    PROVE  CaseTypeOK' /\ HooksOK'
<1>1. hook[h].pc # "idle"
  BY DEF HookStep, CapturedRead, CapturedMark, MatchActiveCase, LinkPaidFind, CloseRead,
         CloseTransaction, HookAt
<1>2. Target \in HookPcs
  BY DEF Target, HookPcs
<1>3. CASE CapturedRead(h)
  BY <1>1, <1>3, HookGotoType, HookEndType, CaseUnchangedType DEF CapturedRead, HookPcs
<1>4. CASE CapturedMark(h)
  <2>1. CASE payment' = "CAPTURED" /\ UNCHANGED <<status, outcome, rows>> /\ HookGoto(h, Target)
    BY <1>1, <1>2, <2>1, HookGotoType DEF CaseTypeOK
  <2>2. CASE newRow' = TRUE /\ hook' = [hook EXCEPT ![h].pc = Target]
             /\ UNCHANGED <<paid, paidRow, answered, caseVars>>
    <3>1. HookTypeOK'
      BY <1>2, <2>2 DEF HooksOK, HookTypeOK
    <3>2. HooksTyped'
      BY <1>1, <2>2 DEF HooksOK, HookTypeOK, HooksTyped
    <3> QED
      BY <2>2, <3>1, <3>2, CaseUnchangedType DEF HooksOK
  <2>3. CASE Throw(h) /\ UNCHANGED caseVars
    BY <1>1, <2>3, HookEndType, CaseUnchangedType
  <2> QED
    BY <1>4, <2>1, <2>2, <2>3 DEF CapturedMark
<1>5. CASE MatchActiveCase(h)
  BY <1>1, <1>5, HookGotoType, HookEndType, CaseUnchangedType DEF MatchActiveCase, HookPcs
<1>6. CASE LinkPaidFind(h)
  BY <1>1, <1>6, HookGotoType, HookEndType, CaseUnchangedType DEF LinkPaidFind, HookPcs
<1>7. CASE CloseRead(h)
  BY <1>1, <1>7, HookGotoType, HookEndType, CaseUnchangedType DEF CloseRead, HookPcs
<1>8. CASE CloseTransaction(h)
  BY <1>1, <1>8, HookEndType, CaseUnchangedType DEF CloseTransaction, CaseTypeOK, CaseStatuses
<1> QED
  BY <1>3, <1>4, <1>5, <1>6, <1>7, <1>8 DEF HookStep

LEMMA CustomerType ==
    ASSUME CaseTypeOK, HooksOK, PayOrder \/ \E i \in RowIds : PayLink(i)
    PROVE  CaseTypeOK' /\ HooksOK'
<1>1. CASE PayOrder
  BY <1>1, CaseUnchangedType DEF PayOrder, HooksOK, HookTypeOK, HooksTyped
<1>2. CASE \E i \in RowIds : PayLink(i)
  BY <1>2, CaseUnchangedType, RowIdsType DEF PayLink, HooksOK, HookTypeOK, HooksTyped
<1> QED
  BY <1>1, <1>2

LEMMA EndReviewType ==
    ASSUME ReviewTypeOK, NEW v \in Reviewers, EndReview(v)
    PROVE  ReviewTypeOK'
BY MaxRowsAssumption DEF ReviewTypeOK, ReviewState, EndReview, IdleReview

LEMMA ReviewType ==
    ASSUME CaseTypeOK, ReviewTypeOK, NEW v \in Reviewers, ReviewStart(v) \/ ReviewStep(v)
    PROVE  CaseTypeOK' /\ ReviewTypeOK'
<1> DEFINE i == review[v].act
<1>1. i \in RowIds => Replacing(i) \in Nat
  BY DEF CaseTypeOK, Row, Replacing
<1>2. CASE ReviewStart(v)
  <2>1. (status = "ESCALATED") \in BOOLEAN /\ (outcome # "none") \in BOOLEAN
    OBVIOUS
  <2>2. ASSUME NEW j \in RowIds, NEW b \in BOOLEAN, NEW late \in BOOLEAN,
               NEW pc \in {"approve", "reject"},
               review' = [review EXCEPT ![v] = [pc |-> pc, act |-> j, escalated |-> b,
                                                late |-> late]]
        PROVE  ReviewTypeOK'
    BY <2>2, RowIdsType DEF ReviewTypeOK, ReviewState
  <2>3. CASE \E j \in RowIds : ApproveRead(v, j)
    BY <2>1, <2>2, <2>3, CaseUnchangedType, Zenon DEF ApproveRead
  <2>4. CASE \E j \in RowIds : RejectRead(v, j)
    BY <2>1, <2>2, <2>4, CaseUnchangedType, Zenon DEF RejectRead
  <2> QED
    BY <1>2, <2>3, <2>4 DEF ReviewStart
<1>3. CASE ApproveWrite(v)
  <2>1. CASE EndReview(v) /\ UNCHANGED caseVars
    BY <2>1, EndReviewType, CaseUnchangedType
  <2>2. CASE SetRow(i, [rows[i] EXCEPT !.status = "APPROVED", !.decision = "ALLOW",
                               !.replaced = Replacing(i)])
    <3>1. CaseTypeOK'
      BY <1>1, <2>2, SetRowType, RowUpdates DEF RowStatuses, Claimable, Decisions
    <3>2. ReviewTypeOK'
      BY <1>3, EndReviewType DEF ApproveWrite, ReviewTypeOK, ReviewState
    <3> QED
      BY <3>1, <3>2
  <2> QED
    BY <1>3, <2>1, <2>2 DEF ApproveWrite
<1>4. CASE ApproveReopen(v)
  BY <1>4, EndReviewType, SetStatusType DEF ApproveReopen, CaseStatuses
<1>5. CASE RejectWrite(v)
  <2>1. CASE EndReview(v) /\ UNCHANGED caseVars
    BY <2>1, EndReviewType, CaseUnchangedType
  <2>2. CASE /\ SetRow(i, [rows[i] EXCEPT !.status = "BLOCKED", !.replaced = Replacing(i)])
             /\ review' = [review EXCEPT ![v].pc = "stop"]
    <3>1. CaseTypeOK'
      BY <1>1, <2>2, SetRowType, RowUpdates DEF RowStatuses
    <3>2. ReviewTypeOK'
      BY <2>2 DEF ReviewTypeOK, ReviewState
    <3> QED
      BY <3>1, <3>2
  <2> QED
    BY <1>5, <2>1, <2>2 DEF RejectWrite
<1>6. CASE RejectStop(v)
  BY <1>6, EndReviewType, SetStatusType DEF RejectStop, CaseStatuses
<1> QED
  BY <1>2, <1>3, <1>4, <1>5, <1>6 DEF ReviewStep

-----------------------------------------------------------------------------
TypeInv == TypeOK /\ RunsTyped /\ HooksTyped

LEMMA TypeInvInit == Init => TypeInv
<1> SUFFICES ASSUME Init PROVE TypeInv
  OBVIOUS
<1>1. CaseTypeOK
  BY DEF Init, CaseInit, CaseTypeOK, CaseStatuses, NoRow, Row, RowStatuses
<1>2. RunsOK
  BY IdleRunType DEF Init, RunInit, RunsOK, RunTypeOK, RunsTyped, IdleRun, TypedPcs
<1>3. HooksOK
  <2>1. hook \in [Hooks -> [pc : HookPcs, event : Events \cup {"none"}]] /\ HooksTyped
    BY IdleHookType DEF Init, HookInit, HooksTyped, IdleHook
  <2>2. newRow \in BOOLEAN
    BY Zenon DEF Init, HookInit
  <2> QED
    BY <2>1, <2>2, MaxRowsAssumption DEF Init, HookInit, HooksOK, HookTypeOK
<1>4. ReviewTypeOK
  BY MaxRowsAssumption DEF Init, ReviewInit, ReviewTypeOK, ReviewState, IdleReview
<1>5. crashes \in Nat
  BY DEF Init
<1> QED
  BY <1>1, <1>2, <1>3, <1>4, <1>5 DEF TypeInv, TypeOK, RunsOK, HooksOK

LEMMA TypeInvStep == TypeInv /\ [Next]_vars => TypeInv'
<1> SUFFICES ASSUME CaseTypeOK, RunsOK, HooksOK, ReviewTypeOK, crashes \in Nat, [Next]_vars
             PROVE  CaseTypeOK' /\ RunsOK' /\ HooksOK' /\ ReviewTypeOK' /\ crashes' \in Nat
  BY DEF TypeInv, TypeOK, RunsOK, HooksOK
<1>1. UNCHANGED runVars => RunsOK'
  BY DEF runVars, RunsOK, RunTypeOK, RunsTyped
<1>2. UNCHANGED hookVars => HooksOK'
  BY DEF hookVars, HooksOK, HookTypeOK, HooksTyped
<1>3. UNCHANGED review => ReviewTypeOK'
  BY DEF ReviewTypeOK
<1>4. CASE RunAction
  BY <1>2, <1>3, <1>4, RunStartType, RunStepType DEF RunAction
<1>5. CASE CustomerAction
  BY <1>1, <1>3, <1>5, CustomerType DEF CustomerAction
<1>6. CASE HookAction
  BY <1>1, <1>3, <1>6, HookStepType, DeliverType DEF HookAction
<1>7. CASE ReviewAction
  BY <1>1, <1>2, <1>7, ReviewType DEF ReviewAction
<1>8. CASE Crash
  <2>1. RunsOK'
    BY <1>8, IdleRunType DEF Crash, RunsOK, RunTypeOK, RunsTyped, IdleRun, TypedPcs
  <2>2. HooksOK'
    BY <1>8, IdleHookType DEF Crash, HooksOK, HookTypeOK, HooksTyped, IdleHook
  <2>3. ReviewTypeOK'
    BY <1>8, MaxRowsAssumption DEF Crash, ReviewTypeOK, ReviewState, IdleReview
  <2> QED
    BY <1>8, <2>1, <2>2, <2>3, CaseUnchangedType DEF Crash
<1>9. CASE UNCHANGED vars
  BY <1>1, <1>2, <1>3, <1>9, CaseUnchangedType DEF vars
<1> QED
  BY <1>4, <1>5, <1>6, <1>7, <1>8, <1>9 DEF Next

\* Every value in every row, run, delivery and review has its type in every
\* reachable state: no status outside the Prisma enums is ever stored.
THEOREM TypeCorrect == Spec => []TypeOK
<1>1. TypeInv => TypeOK
  BY DEF TypeInv
<1> QED
  BY <1>1, TypeInvInit, TypeInvStep, PTL DEF Spec

(***************************************************************************)
(* What the ways of changing a run's local state leave where.              *)
(***************************************************************************)
OthersKept(w) == \A u \in Runs \ {w} : run'[u] = run[u]
Kept(w)       == /\ run'[w].kind = run[w].kind /\ run'[w].type = run[w].type
                 /\ run'[w].act = run[w].act   /\ run'[w].late = run[w].late

LEMMA UpdateEffect ==
    ASSUME RunsOK, NEW w \in Runs, NEW r, run' = [run EXCEPT ![w] = r]
    PROVE  OthersKept(w) /\ run'[w] = r
BY DEF RunsOK, RunTypeOK, OthersKept

LEMMA BeginEffect ==
    ASSUME RunsOK, NEW w \in Runs, NEW kind, NEW pc, NEW t, Begin(w, kind, pc, t)
    PROVE  /\ OthersKept(w) /\ run'[w].pc = pc /\ run'[w].kind = kind
           /\ run'[w].type = t /\ (run'[w].late <=> outcome # "none")
<1> DEFINE r == [IdleRun EXCEPT !.pc = pc, !.kind = kind, !.type = t,
                                !.late = (outcome # "none")]
<1>1. /\ r.pc = pc /\ r.kind = kind /\ r.type = t /\ (r.late <=> outcome # "none")
  BY DEF IdleRun
<1>2. run' = [run EXCEPT ![w] = r]
  BY DEF Begin
<1> HIDE DEF r
<1> QED
  BY <1>1, <1>2, UpdateEffect

LEMMA GotoEffect ==
    ASSUME RunsOK, NEW w \in Runs, NEW pc, Goto(w, pc)
    PROVE  OthersKept(w) /\ Kept(w) /\ run'[w].pc = pc
BY DEF RunsOK, RunTypeOK, RunState, Goto, OthersKept, Kept

LEMMA FinishEffect ==
    ASSUME RunsOK, NEW w \in Runs, Finish(w)
    PROVE  OthersKept(w) /\ run'[w] = IdleRun
BY UpdateEffect DEF Finish

LEMMA StartEffect ==
    ASSUME RunsOK, NEW w \in Runs, RunStart(w)
    PROVE  /\ OthersKept(w) /\ UNCHANGED caseVars
           /\ run[w].pc = "idle" /\ (run'[w].late <=> outcome # "none")
           /\ \/ run'[w].pc = "s_find" /\ run'[w].kind \in AutoKinds \cup ClientKinds
              \/ run'[w].pc \in {"x_read", "o_read", "e_create"} /\ run'[w].kind = "call"
<1>1. CASE \E kind \in {"detect", "agent", "panel"} : Launch(w, kind, "s_find", SelectStrategy)
  BY <1>1, BeginEffect DEF Launch, At, AutoKinds, ClientKinds
<1>2. CASE RetrySweep(w)
  BY <1>2, BeginEffect DEF RetrySweep, At, AutoKinds
<1>3. CASE ManualEscalate(w)
  BY <1>3, BeginEffect DEF ManualEscalate, Launch, At
<1>4. CASE ManualExecute(w) \/ ManualObserve(w)
  BY <1>4, BeginEffect DEF ManualExecute, ManualObserve, At
<1> QED
  BY <1>1, <1>2, <1>3, <1>4 DEF RunStart, Detect, RunAgent, ManualStrategy

LEMMA LeaveKeeps ==
    ASSUME RunsOK, NEW w \in Runs, NEW pc, Leave(w, pc)
    PROVE  /\ OthersKept(w)
           /\ \/ run'[w] = IdleRun
              \/ /\ run'[w].pc = pc
                 /\ run'[w].kind = run[w].kind /\ run'[w].late = run[w].late
<1>1. CASE pc = "idle"
  BY <1>1, FinishEffect DEF Leave
<1>2. CASE pc # "idle"
  <2> DEFINE r == [IdleRun EXCEPT !.pc = pc, !.kind = run[w].kind, !.late = run[w].late]
  <2>1. r.pc = pc /\ r.kind = run[w].kind /\ r.late = run[w].late
    BY DEF IdleRun
  <2>2. run' = [run EXCEPT ![w] = r]
    BY <1>2 DEF Leave
  <2> HIDE DEF r
  <2> QED
    BY <2>1, <2>2, UpdateEffect
<1> QED
  BY <1>1, <1>2

LEMMA LeaveEffect ==
    ASSUME RunsOK, NEW w \in Runs, Leave(w, AfterExecute(w))
    PROVE  /\ OthersKept(w)
           /\ \/ run'[w] = IdleRun
              \/ /\ run'[w].pc = "o_read"
                 /\ run'[w].kind = run[w].kind /\ run'[w].late = run[w].late
<1>1. CASE AfterExecute(w) = "idle"
  BY <1>1, FinishEffect DEF Leave
<1>2. CASE AfterExecute(w) = "o_read"
  BY <1>2, LeaveKeeps
<1> QED
  BY <1>1, <1>2 DEF AfterExecute

LEMMA PlannedEffect ==
    ASSUME RunsOK, NEW w \in Runs, NEW i, Planned(w, i)
    PROVE  /\ OthersKept(w)
           /\ \/ run'[w] = IdleRun
              \/ /\ run'[w].pc = "p_case"
                 /\ run'[w].kind = run[w].kind /\ run'[w].late = run[w].late
<1>1. CASE run[w].kind = "call"
  BY <1>1, FinishEffect DEF Planned, Finish
<1>2. CASE run[w].kind # "call"
  <2> DEFINE r == [run[w] EXCEPT !.pc = "p_case", !.act = i]
  <2>1. r.pc = "p_case" /\ r.kind = run[w].kind /\ r.late = run[w].late
    BY DEF RunsOK, RunTypeOK, RunState
  <2>2. run' = [run EXCEPT ![w] = r]
    BY <1>2 DEF Planned
  <2> HIDE DEF r
  <2> QED
    BY <2>1, <2>2, UpdateEffect
<1> QED
  BY <1>1, <1>2

LEMMA RouteEffect ==
    ASSUME RunsOK, NEW w \in Runs, NEW d, Route(w, d)
    PROVE  /\ OthersKept(w)
           /\ \/ run'[w] = IdleRun
              \/ /\ run'[w].pc \in {"e_read", "x_read", "e_create"} /\ Kept(w)
                 /\ d = "BLOCK" => run'[w].pc # "x_read"
                 /\ run'[w].pc = "e_create" => run[w].kind = "agent"
<1>1. CASE Routed(w, d) = "idle"
  BY <1>1, FinishEffect DEF Route
<1>2. CASE Routed(w, d) # "idle"
  <2>1. /\ Routed(w, d) \in {"e_read", "x_read", "e_create"}
        /\ d = "BLOCK" => Routed(w, d) # "x_read"
        /\ Routed(w, d) = "e_create" => run[w].kind = "agent"
    BY <1>2 DEF Routed, RoutedAuto, RoutedAgent
  <2> DEFINE r == [run[w] EXCEPT !.pc = Routed(w, d), !.decision = d, !.target = 0, !.n = 0]
  <2>2. run[w] \in RunState
    BY DEF RunsOK, RunTypeOK
  <2>3. /\ r.pc = Routed(w, d) /\ r.kind = run[w].kind /\ r.type = run[w].type
        /\ r.act = run[w].act /\ r.late = run[w].late
    BY <2>2 DEF RunState
  <2>4. run' = [run EXCEPT ![w] = r]
    BY <1>2, Zenon DEF Route
  <2> HIDE DEF r
  <2> QED
    BY <2>1, <2>3, <2>4, UpdateEffect DEF Kept
<1> QED
  BY <1>1, <1>2

(***************************************************************************)
(* Where each group of actions takes its run.                              *)
(***************************************************************************)
EndsOr(w, pcs) == /\ OthersKept(w)
                  /\ \/ run'[w] = IdleRun
                     \/ /\ run'[w].pc \in pcs
                        /\ run'[w].kind = run[w].kind /\ run'[w].late = run[w].late

LEMMA StrategyEffect ==
    ASSUME RunsOK, NEW w \in Runs, StrategyFind(w) \/ StrategyCreate(w)
    PROVE  EndsOr(w, {"s_create", "p_case"}) /\ run[w].pc \in {"s_find", "s_create"}
<1>1. Goto(w, "s_create") \/ \E i \in RowIds : Planned(w, i)
  BY DEF StrategyFind, StrategyCreate
<1>2. run[w].pc \in {"s_find", "s_create"}
  BY DEF StrategyFind, StrategyCreate, At
<1> QED
  BY <1>1, <1>2, GotoEffect, PlannedEffect DEF EndsOr, Kept

LEMMA AgentRetryEffect ==
    ASSUME RunsOK, NEW w \in Runs, AgentRetry(w)
    PROVE  EndsOr(w, {"s_find"}) /\ run[w].pc = "s_read" /\ UNCHANGED caseVars
<1> DEFINE r == [run[w] EXCEPT !.pc = "s_find", !.type = SelectStrategy]
<1>1. r.pc = "s_find" /\ r.kind = run[w].kind /\ r.late = run[w].late
  BY DEF RunsOK, RunTypeOK, RunState
<1>2. run' = [run EXCEPT ![w] = r]
  BY Zenon DEF AgentRetry
<1>3. run[w].pc = "s_read" /\ UNCHANGED caseVars
  BY DEF AgentRetry, At
<1> HIDE DEF r
<1> QED
  BY <1>1, <1>2, <1>3, UpdateEffect DEF EndsOr

\* The call a client leaves behind goes on as it was.
LeftBehind(w) == /\ run'[w].kind = "call"         /\ run'[w].pc = run[w].pc
                 /\ run'[w].type = run[w].type    /\ run'[w].act = run[w].act
                 /\ run'[w].late = run[w].late    /\ run'[w].n = run[w].n
                 /\ run'[w].decision = run[w].decision

LEMMA ClientStopsEffect ==
    ASSUME RunsOK, NEW w \in Runs, ClientStops(w)
    PROVE  /\ OthersKept(w) /\ UNCHANGED caseVars
           /\ run[w].kind \in ClientKinds
           /\ \/ run'[w] = IdleRun /\ run[w].pc \in CallStarts
              \/ LeftBehind(w)
<1>1. UNCHANGED caseVars /\ run[w].kind \in ClientKinds
  BY DEF ClientStops
<1>2. CASE Finish(w) /\ run[w].pc \in CallStarts
  BY <1>1, <1>2, FinishEffect
<1>3. CASE run' = [run EXCEPT ![w].kind = "call"]
  <2> DEFINE r == [run[w] EXCEPT !.kind = "call"]
  <2>1. /\ r.kind = "call" /\ r.pc = run[w].pc /\ r.type = run[w].type /\ r.act = run[w].act
        /\ r.late = run[w].late /\ r.n = run[w].n /\ r.decision = run[w].decision
    BY DEF RunsOK, RunTypeOK, RunState
  <2>2. run' = [run EXCEPT ![w] = r]
    BY <1>3
  <2> HIDE DEF r
  <2> QED
    BY <1>1, <2>1, <2>2, UpdateEffect DEF LeftBehind
<1> QED
  BY <1>2, <1>3 DEF ClientStops

LEMMA PolicyEffect ==
    ASSUME RunsOK, NEW w \in Runs,
           \/ PolicyReadCase(w) \/ PolicyCountAttempts(w) \/ PolicyFindApproved(w)
           \/ PolicyFindPending(w) \/ PolicyWriteDecision(w)
    PROVE  /\ EndsOr(w, {"p_count", "p_approved", "p_find", "p_write", "e_read", "x_read",
                          "e_create"})
           /\ run[w].pc \in {"p_case", "p_count", "p_approved", "p_find", "p_write"}
           /\ run[w].pc = "p_case" /\ outcome # "none" => EndsOr(w, {"e_read", "e_create"})
           /\ run'[w].pc = "e_create" => run'[w].kind = "agent"
<1>1. run[w] \in RunState
  BY DEF RunsOK, RunTypeOK
<1>2. CASE PolicyReadCase(w)
  BY <1>2, RouteEffect, GotoEffect DEF PolicyReadCase, CaseIsFinal, At, EndsOr, Kept, IdleRun
<1>3. CASE PolicyCountAttempts(w)
  <2> DEFINE r == [run[w] EXCEPT !.pc = "p_approved", !.n = Attempts(run[w].type)]
  <2>1. r.pc = "p_approved" /\ r.kind = run[w].kind /\ r.late = run[w].late
    BY <1>1 DEF RunState
  <2>2. run' = [run EXCEPT ![w] = r] /\ run[w].pc = "p_count"
    BY <1>3, Zenon DEF PolicyCountAttempts, At
  <2> HIDE DEF r
  <2> QED
    BY <2>1, <2>2, UpdateEffect DEF EndsOr
<1>4. CASE PolicyFindApproved(w)
  <2> DEFINE r(e) == [run[w] EXCEPT !.pc = "p_find",
                                    !.decision = PolicyCheck(run[w].type, run[w].n, e)]
  <2>1. \A e \in BOOLEAN : /\ r(e).pc = "p_find" /\ r(e).kind = run[w].kind
                           /\ r(e).late = run[w].late
    BY <1>1 DEF RunState
  <2>2. Route(w, "ALLOW") \/ \E e \in BOOLEAN : run' = [run EXCEPT ![w] = r(e)]
    BY <1>4 DEF PolicyFindApproved
  <2>3. run[w].pc = "p_approved"
    BY <1>4 DEF PolicyFindApproved, At
  <2> HIDE DEF r
  <2> QED
    BY <2>1, <2>2, <2>3, RouteEffect, UpdateEffect DEF EndsOr, Kept, IdleRun
<1>5. CASE PolicyFindPending(w)
  <2> DEFINE r(i) == [run[w] EXCEPT !.pc = "p_write", !.target = i]
  <2>1. \A i \in RowIds : /\ r(i).pc = "p_write" /\ r(i).kind = run[w].kind
                           /\ r(i).late = run[w].late
    BY <1>1 DEF RunState
  <2>2. Route(w, run[w].decision) \/ \E i \in RowIds : run' = [run EXCEPT ![w] = r(i)]
    BY <1>5 DEF PolicyFindPending
  <2>3. run[w].pc = "p_find"
    BY <1>5 DEF PolicyFindPending, At
  <2> HIDE DEF r
  <2> QED
    BY <2>1, <2>2, <2>3, RouteEffect, UpdateEffect DEF EndsOr, Kept, IdleRun
<1>6. CASE PolicyWriteDecision(w)
  BY <1>6, RouteEffect, FinishEffect DEF PolicyWriteDecision, At, EndsOr, Kept, IdleRun
<1> QED
  BY <1>2, <1>3, <1>4, <1>5, <1>6

LEMMA ExecuteEffect ==
    ASSUME RunsOK, NEW w \in Runs,
           \/ ExecuteRead(w) \/ ExecuteExhaust(w) \/ ExecuteClaim(w) \/ ExecuteProgress(w)
           \/ ExecuteCall(w) \/ ExecuteRecord(w) \/ ExecuteGiveUp(w)
    PROVE  EndsOr(w, ExecutionPcs \cup {"o_read"}) /\ run[w].pc \in ExecutionPcs
<1>1. run[w] \in RunState
  BY DEF RunsOK, RunTypeOK
<1>2. CASE ExecuteRead(w)
  <2> DEFINE r(i) == [run[w] EXCEPT
                        !.pc = IF CeilingReached(rows[i].type) THEN "x_exhaust" ELSE "x_claim",
                        !.act = i, !.type = rows[i].type, !.n = Attempts(rows[i].type),
                        !.decision = "null"]
  <2>1. \A i \in RowIds : /\ r(i).pc \in ExecutionPcs /\ r(i).kind = run[w].kind
                           /\ r(i).late = run[w].late
    BY <1>1 DEF RunState, ExecutionPcs
  <2>2. Finish(w) \/ \E i \in RowIds : run' = [run EXCEPT ![w] = r(i)]
    BY <1>2 DEF ExecuteRead
  <2>3. run[w].pc = "x_read"
    BY <1>2 DEF ExecuteRead, At
  <2> HIDE DEF r
  <2> QED
    BY <2>1, <2>2, <2>3, FinishEffect, UpdateEffect DEF EndsOr, ExecutionPcs
<1>3. CASE ExecuteExhaust(w)
  BY <1>3, FinishEffect DEF ExecuteExhaust, At, EndsOr, ExecutionPcs
<1>4. CASE ExecuteClaim(w)
  BY <1>4, FinishEffect, GotoEffect DEF ExecuteClaim, At, EndsOr, Kept, ExecutionPcs
<1>5. CASE ExecuteProgress(w)
  BY <1>5, GotoEffect DEF ExecuteProgress, At, EndsOr, Kept, ExecutionPcs
<1>6. CASE ExecuteCall(w)
  <2> DEFINE r(a) == [run[w] EXCEPT !.pc = "x_record", !.result = a]
  <2>1. \A a \in {"ok", "unsuccessful", "thrown"} :
           r(a).pc = "x_record" /\ r(a).kind = run[w].kind /\ r(a).late = run[w].late
    BY <1>1 DEF RunState
  <2>2. PICK a \in {"ok", "unsuccessful", "thrown"} : run' = [run EXCEPT ![w] = r(a)]
    BY <1>6 DEF ExecuteCall
  <2>3. run[w].pc = "x_call"
    BY <1>6 DEF ExecuteCall, At
  <2> HIDE DEF r
  <2>4. OthersKept(w) /\ run'[w] = r(a)
    BY <2>2, UpdateEffect
  <2> QED
    BY <2>1, <2>3, <2>4 DEF EndsOr, ExecutionPcs
<1>7. CASE ExecuteRecord(w)
  <2>1. run[w].pc = "x_record" /\ (Finish(w) \/ Goto(w, "x_out") \/ Leave(w, AfterExecute(w)))
    BY <1>7 DEF ExecuteRecord, At
  <2> QED
    BY <2>1, FinishEffect, GotoEffect, LeaveEffect DEF EndsOr, Kept, ExecutionPcs
<1>8. CASE ExecuteGiveUp(w)
  BY <1>8, LeaveEffect DEF ExecuteGiveUp, At, EndsOr, ExecutionPcs
<1> QED
  BY <1>2, <1>3, <1>4, <1>5, <1>6, <1>7, <1>8

LEMMA ObserveEffect ==
    ASSUME RunsOK, NEW w \in Runs,
           ObserveRead(w) \/ ObserveCreateOutcome(w) \/ ObserveClose(w) \/ ObserveExhaust(w)
    PROVE  /\ EndsOr(w, {"o_create", "o_close", "o_exhaust", "s_read", "e_create"})
           /\ run[w].pc \in {"o_read", "o_create", "o_close", "o_exhaust"}
           /\ run'[w].pc = "e_create" => run'[w].kind = "agent"
<1>1. ASSUME NEW left, Leave(w, AfterObserve(w, left))
      PROVE  /\ EndsOr(w, {"s_read", "e_create"})
             /\ run'[w].pc = "e_create" => run'[w].kind = "agent"
  <2>1. CASE run[w].kind # "agent"
    BY <1>1, <2>1, FinishEffect DEF AfterObserve, Leave, EndsOr, IdleRun
  <2>2. CASE run[w].kind = "agent"
    <3>1. AfterObserve(w, left) \in {"s_read", "e_create"}
      BY <2>2 DEF AfterObserve
    <3> QED
      BY <1>1, <2>2, <3>1, LeaveKeeps DEF EndsOr, IdleRun
  <2> QED
    BY <2>1, <2>2
<1>2. CASE ObserveRead(w)
  <2>1. /\ run[w].pc = "o_read"
        /\ \/ Finish(w) \/ Goto(w, "o_create") \/ Goto(w, "o_exhaust")
           \/ Leave(w, AfterObserve(w, ~NoAttemptLeft))
    BY <1>2 DEF ObserveRead, At
  <2> QED
    BY <1>1, <2>1, FinishEffect, GotoEffect DEF EndsOr, Kept, IdleRun
<1>3. CASE ObserveCreateOutcome(w)
  BY <1>3, FinishEffect, GotoEffect DEF ObserveCreateOutcome, At, EndsOr, Kept, IdleRun
<1>4. CASE ObserveClose(w)
  BY <1>4, FinishEffect DEF ObserveClose, At, EndsOr, IdleRun
<1>5. CASE ObserveExhaust(w)
  BY <1>1, <1>5 DEF ObserveExhaust, At, EndsOr
<1> QED
  BY <1>2, <1>3, <1>4, <1>5

LEMMA EscalateEffect ==
    ASSUME RunsOK, NEW w \in Runs,
           \/ MaybeEscalateRead(w) \/ EscalateCreateAction(w) \/ EscalateSetStatus(w)
           \/ DeletePlaceholder(w)
    PROVE  /\ EndsOr(w, {"e_create", "e_status", "d_delete"})
           /\ run[w].pc \in {"e_read", "e_create", "e_status", "d_delete"}
BY FinishEffect, GotoEffect
DEF MaybeEscalateRead, EscalateCreateAction, EscalateSetStatus, DeletePlaceholder,
    EscalationDone, AfterEscalation, At, EndsOr, Kept

(***************************************************************************)
(* The ledger.  Whatever leads to an outcome has seen the customer's money:*)
(* a delivery being handled, a captured payment, a run that observed one.  *)
(***************************************************************************)
MoneyInv ==
    /\ outcome # "none" => paid # "none"
    /\ payment = "CAPTURED" => paid # "none"
    /\ \A h \in Hooks : hook[h].pc # "idle" => paid # "none"
    /\ \A w \in Runs : run[w].pc = "o_create" => paid # "none"
    /\ \A w \in Runs : run[w].pc = "o_close" => outcome = "observer"
    /\ RecoveredHasOutcome

\* What one step of run w does to the case's money, and where it stands then.
MoneyStep(w) ==
    /\ payment' = payment
    /\ \/ outcome' = outcome
       \/ run[w].pc = "o_create" /\ outcome = "none" /\ outcome' = "observer"
    /\ status' = "RECOVERED" => status = "RECOVERED" \/ run[w].pc = "o_close"
    /\ \A u \in Runs \ {w} : run'[u] = run[u]
    /\ run'[w].pc = "o_create" => payment = "CAPTURED" \/ run[w].pc = "o_create"
    /\ run'[w].pc = "o_close" => outcome' = "observer" \/ run[w].pc = "o_close"

LEMMA RunMoney ==
    ASSUME RunsOK, NEW w \in Runs, RunStart(w) \/ RunStep(w)
    PROVE  MoneyStep(w)
<1>1. CASE RunStart(w)
  BY <1>1, StartEffect DEF caseVars, MoneyStep, OthersKept
<1>2. CASE StrategyFind(w) \/ StrategyCreate(w)
  <2>1. UNCHANGED <<status, outcome, payment>>
    BY <1>2 DEF StrategyFind, StrategyCreate, AddRow, caseVars
  <2> QED
    BY <1>2, <2>1, StrategyEffect DEF EndsOr, OthersKept, MoneyStep, IdleRun
<1>3. CASE \/ PolicyReadCase(w) \/ PolicyCountAttempts(w) \/ PolicyFindApproved(w)
           \/ PolicyFindPending(w) \/ PolicyWriteDecision(w)
  <2>1. UNCHANGED <<status, outcome, payment>>
    BY <1>3 DEF PolicyReadCase, PolicyCountAttempts, PolicyFindApproved, PolicyFindPending,
                PolicyWriteDecision, SetRow, caseVars
  <2> QED
    BY <1>3, <2>1, PolicyEffect DEF EndsOr, OthersKept, MoneyStep, IdleRun
<1>4. CASE \/ ExecuteRead(w) \/ ExecuteExhaust(w) \/ ExecuteClaim(w) \/ ExecuteProgress(w)
           \/ ExecuteCall(w) \/ ExecuteRecord(w) \/ ExecuteGiveUp(w)
  <2>1. UNCHANGED <<outcome, payment>> /\ (status' = "RECOVERED" => status = "RECOVERED")
    BY <1>4 DEF ExecuteRead, ExecuteExhaust, ExecuteClaim, ExecuteProgress, ExecuteCall,
                ExecuteRecord, ExecuteGiveUp, SetRow, SetStatus, caseVars
  <2> QED
    BY <1>4, <2>1, ExecuteEffect DEF EndsOr, OthersKept, MoneyStep, IdleRun, ExecutionPcs
<1>5. CASE ObserveRead(w)
  <2>1. /\ run'[w].pc = "o_create" => payment = "CAPTURED"
        /\ run'[w].pc # "o_close"
    <3>1. \/ Goto(w, "o_create") /\ MoneyObserved
          \/ Finish(w) \/ Goto(w, "o_exhaust") \/ Leave(w, AfterObserve(w, ~NoAttemptLeft))
      BY <1>5 DEF ObserveRead
    <3>2. CASE Leave(w, AfterObserve(w, ~NoAttemptLeft))
      BY <3>2, LeaveKeeps, AfterObserveType DEF IdleRun
    <3> QED
      BY <3>1, <3>2, FinishEffect, GotoEffect DEF MoneyObserved, IdleRun
  <2> QED
    BY <1>5, <2>1, ObserveEffect DEF ObserveRead, EndsOr, OthersKept, MoneyStep, caseVars
<1>6. CASE ObserveCreateOutcome(w)
  BY <1>6, FinishEffect, GotoEffect
  DEF ObserveCreateOutcome, OthersKept, MoneyStep, IdleRun, caseVars, At
<1>7. CASE ObserveClose(w) \/ ObserveExhaust(w)
  <2>1. CASE ObserveClose(w)
    BY <2>1, FinishEffect DEF ObserveClose, SetStatus, OthersKept, MoneyStep, IdleRun, At
  <2>2. CASE ObserveExhaust(w)
    <3> DEFINE pc == AfterObserve(w, FALSE)
    <3>1. pc \notin {"o_create", "o_close"} /\ Leave(w, pc)
      BY <2>2, AfterObserveType, Zenon DEF ObserveExhaust
    <3> HIDE DEF pc
    <3>2. OthersKept(w) /\ run'[w].pc \notin {"o_create", "o_close"}
      BY <3>1, LeaveKeeps DEF IdleRun
    <3> QED
      BY <2>2, <3>2 DEF ObserveExhaust, SetStatus, OthersKept, MoneyStep
  <2> QED
    BY <1>7, <2>1, <2>2
<1>8. CASE \/ MaybeEscalateRead(w) \/ EscalateCreateAction(w) \/ EscalateSetStatus(w)
           \/ DeletePlaceholder(w)
  <2>1. UNCHANGED <<outcome, payment>> /\ (status' = "RECOVERED" => status = "RECOVERED")
    BY <1>8 DEF MaybeEscalateRead, EscalateCreateAction, EscalateSetStatus, DeletePlaceholder,
                AddRow, SetRow, SetStatus, caseVars
  <2> QED
    BY <1>8, <2>1, EscalateEffect DEF EndsOr, OthersKept, MoneyStep, IdleRun
<1>9. CASE AgentRetry(w)
  BY <1>9, AgentRetryEffect DEF EndsOr, OthersKept, MoneyStep, IdleRun, caseVars
<1>10. CASE ClientStops(w)
  <2>1. /\ OthersKept(w) /\ UNCHANGED caseVars
        /\ run'[w] = IdleRun \/ run'[w].pc = run[w].pc
    BY <1>10, ClientStopsEffect DEF LeftBehind
  <2> QED
    BY <2>1 DEF OthersKept, MoneyStep, IdleRun, caseVars
<1> QED
  BY <1>1, <1>2, <1>3, <1>4, <1>5, <1>6, <1>7, <1>8, <1>9, <1>10 DEF RunStep

LEMMA MoneyInvInit == Init => MoneyInv
BY DEF Init, CaseInit, RunInit, HookInit, IdleRun, IdleHook, MoneyInv, RecoveredHasOutcome

\* A delivery handles money that is there, and leaves a RECOVERED case with its outcome.
LEMMA HookMoney ==
    ASSUME MoneyInv, HooksOK, NEW h \in Hooks, HookStep(h)
    PROVE  /\ paid # "none" /\ paid' = paid
           /\ outcome # "none" => outcome' = outcome
           /\ RecoveredHasOutcome'
<1>1. hook[h].pc # "idle"
  BY DEF HookStep, CapturedRead, CapturedMark, MatchActiveCase, LinkPaidFind, CloseRead,
         CloseTransaction, HookAt
<1>2. paid' = paid
  BY DEF HookStep, CapturedRead, CapturedMark, MatchActiveCase, LinkPaidFind, CloseRead,
         CloseTransaction, HookGoto, Answer, Throw
<1>3. \/ UNCHANGED <<status, outcome>>
      \/ outcome = "none" /\ outcome' = "webhook"
  BY DEF HookStep, CapturedRead, CapturedMark, MatchActiveCase, LinkPaidFind, CloseRead,
         CloseTransaction, caseVars
<1> QED
  BY <1>1, <1>2, <1>3 DEF MoneyInv, RecoveredHasOutcome

LEMMA MoneyInvStep == TypeInv /\ MoneyInv /\ [Next]_vars => MoneyInv'
<1> SUFFICES ASSUME TypeInv, MoneyInv, [Next]_vars PROVE MoneyInv'
  OBVIOUS
<1>1. RunsOK /\ HooksOK
  BY DEF TypeInv, TypeOK, RunsOK, HooksOK
<1>2. CASE RunAction
  <2>1. PICK w \in Runs : MoneyStep(w)
    BY <1>1, <1>2, RunMoney DEF RunAction
  <2>2. UNCHANGED <<paid, hook>>
    BY <1>2 DEF RunAction, hookVars
  <2> QED
    BY <2>1, <2>2 DEF MoneyInv, MoneyStep, RecoveredHasOutcome
<1>3. CASE CustomerAction
  <2>1. paid' # "none" /\ UNCHANGED <<run, status, outcome>>
    BY <1>3, PayWaysAssumption
    DEF CustomerAction, PayOrder, PayLink, runVars, caseVars, AllPayWays
  <2> QED
    BY <2>1 DEF MoneyInv, RecoveredHasOutcome
<1>4. CASE HookAction
  <2>1. UNCHANGED run
    BY <1>4 DEF HookAction, runVars
  <2>2. CASE \E h \in Hooks : HookStep(h)
    BY <1>1, <2>1, <2>2, HookMoney DEF MoneyInv
  <2>3. CASE \E h \in Hooks, e \in Events : Deliver(h, e)
    <3>1. paid # "none" /\ UNCHANGED <<paid, status, outcome, payment>>
      BY <2>3 DEF Deliver, EventsOf, caseVars
    <3> QED
      BY <2>1, <3>1 DEF MoneyInv, RecoveredHasOutcome
  <2> QED
    BY <1>4, <2>2, <2>3 DEF HookAction
<1>5. CASE ReviewAction
  <2>1. UNCHANGED <<run, hook, paid, outcome, payment>>
    BY <1>5
    DEF ReviewAction, runVars, hookVars, ReviewStart, ReviewStep, ApproveRead, RejectRead,
        ApproveWrite, ApproveReopen, RejectWrite, RejectStop, SetRow, SetStatus, caseVars
  <2>2. status' = "RECOVERED" => status = "RECOVERED"
    BY <1>5
    DEF ReviewAction, ReviewStart, ReviewStep, ApproveRead, RejectRead,
        ApproveWrite, ApproveReopen, RejectWrite, RejectStop, SetRow, SetStatus, caseVars
  <2> QED
    BY <2>1, <2>2 DEF MoneyInv, RecoveredHasOutcome
<1>6. CASE Crash
  BY <1>6 DEF Crash, IdleRun, IdleHook, caseVars, MoneyInv, RecoveredHasOutcome
<1>7. CASE UNCHANGED vars
  BY <1>7 DEF vars, caseVars, runVars, hookVars, MoneyInv, RecoveredHasOutcome
<1> QED
  BY <1>2, <1>3, <1>4, <1>5, <1>6, <1>7 DEF Next

\* "Recovered" is never self-declared: in every reachable state a RECOVERED case
\* has its RecoveryOutcome, whatever restarts and races happened.
THEOREM RecoveredIsBacked == Spec => []RecoveredHasOutcome
<1>1. MoneyInv => RecoveredHasOutcome
  BY DEF MoneyInv
<1> QED
  BY <1>1, TypeInvInit, TypeInvStep, MoneyInvInit, MoneyInvStep, PTL DEF Spec

\* Every step of the system is a step of the ledger, or none.
LEMMA LedgerStep ==
    TypeInv /\ MoneyInv /\ [Next]_vars => [Ledger!Next]_<<paid # "none", outcome # "none">>
<1> SUFFICES ASSUME TypeInv, MoneyInv, [Next]_vars
             PROVE  [Ledger!Next]_<<paid # "none", outcome # "none">>
  OBVIOUS
<1>1. RunsOK /\ HooksOK
  BY DEF TypeInv, TypeOK, RunsOK, HooksOK
<1>2. \/ paid' = paid /\ (outcome # "none" => outcome' # "none")
      \/ paid = "none" /\ paid' # "none" /\ outcome' = outcome
  <2>1. CASE RunAction
    BY <1>1, <2>1, RunMoney DEF RunAction, hookVars, MoneyStep
  <2>2. CASE CustomerAction
    BY <2>2, PayWaysAssumption DEF CustomerAction, PayOrder, PayLink, caseVars, AllPayWays
  <2>3. CASE HookAction
    BY <1>1, <2>3, HookMoney DEF HookAction, Deliver, caseVars
  <2>4. CASE ReviewAction
    BY <2>4
    DEF ReviewAction, hookVars, ReviewStart, ReviewStep, ApproveRead, RejectRead,
        ApproveWrite, ApproveReopen, RejectWrite, RejectStop, SetRow, SetStatus, caseVars
  <2>5. CASE Crash
    BY <2>5 DEF Crash, caseVars
  <2>6. CASE UNCHANGED vars
    BY <2>6 DEF vars, caseVars, hookVars
  <2> QED
    BY <2>1, <2>2, <2>3, <2>4, <2>5, <2>6 DEF Next
<1>3. (outcome # "none" => paid # "none") /\ (outcome' # "none" => paid' # "none")
  BY MoneyInvStep DEF MoneyInv
<1> QED
  BY <1>2, <1>3 DEF Ledger!Next, Ledger!Confirm, Ledger!Record

\* The recovery system implements RevenueLedger: money first, then one outcome,
\* which stays.
THEOREM LedgerImplemented == Spec => ImplementsLedger
<1>1. Init => Ledger!Init
  BY DEF Init, CaseInit, HookInit, Ledger!Init
<1> QED
  BY <1>1, TypeInvInit, TypeInvStep, MoneyInvInit, MoneyInvStep, LedgerStep, PTL
  DEF Spec, ImplementsLedger, Ledger!Spec
=============================================================================
