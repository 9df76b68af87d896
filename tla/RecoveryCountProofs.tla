------------------------ MODULE RecoveryCountProofs ------------------------
(***************************************************************************)
(* How far the races between runs and reviewers can go, for any number of  *)
(* each: messages per decision, attempts past the ceiling, duplicates of   *)
(* an action, a case given up, actions a restart leaves behind.            *)
(***************************************************************************)
EXTENDS RecoverySystemProofs

(***************************************************************************)
(* Counting.  A step of one run moves at most that run in or out of a set. *)
(***************************************************************************)
LEMMA RunsCounted ==
    ASSUME NEW S \in SUBSET Runs
    PROVE  /\ IsFiniteSet(S) /\ Cardinality(S) \in Nat
           /\ Cardinality(S) <= Cardinality(Runs) /\ Cardinality(Runs) \in Nat
BY RunsAssumption, FS_Subset, FS_CardinalityType

LEMMA RunsSubsetCount ==
    ASSUME NEW S \in SUBSET Runs, NEW T \in SUBSET S
    PROVE  Cardinality(T) <= Cardinality(S)
BY RunsCounted, FS_Subset

LEMMA RunLeaves ==
    ASSUME NEW S \in SUBSET Runs, NEW T \in SUBSET S, NEW w \in S, w \notin T
    PROVE  Cardinality(T) <= Cardinality(S) - 1
<1>1. Cardinality(S \ {w}) = Cardinality(S) - 1 /\ IsFiniteSet(S \ {w})
  BY RunsCounted, FS_RemoveElement
<1>2. T \in SUBSET (S \ {w})
  OBVIOUS
<1> QED
  BY <1>1, <1>2, FS_Subset

LEMMA RunJoins ==
    ASSUME NEW S \in SUBSET Runs, NEW w \in Runs, NEW T \in SUBSET (S \cup {w})
    PROVE  Cardinality(T) <= Cardinality(S) + 1
<1>1. /\ IsFiniteSet(S \cup {w}) /\ Cardinality(S) \in Nat
      /\ Cardinality(S \cup {w}) \in {Cardinality(S), Cardinality(S) + 1}
  BY RunsCounted, FS_AddElement
<1>2. Cardinality(T) <= Cardinality(S \cup {w})
  BY <1>1, FS_Subset
<1>3. Cardinality(T) \in Nat
  BY <1>1, FS_Subset, FS_CardinalityType
<1> QED
  BY <1>1, <1>2, <1>3

LEMMA RowsCounted ==
    ASSUME NEW S \in SUBSET RowIds
    PROVE  IsFiniteSet(S) /\ Cardinality(S) \in Nat
<1>1. IsFiniteSet(RowIds)
  BY FS_Interval, MaxRowsAssumption DEF RowIds
<1> QED
  BY <1>1, FS_Subset, FS_CardinalityType

LEMMA RowsSubsetCount ==
    ASSUME NEW S \in SUBSET RowIds, NEW T \in SUBSET S
    PROVE  Cardinality(T) <= Cardinality(S)
BY RowsCounted, FS_Subset

LEMMA RowJoins ==
    ASSUME NEW S \in SUBSET RowIds, NEW i \in RowIds, NEW T \in SUBSET (S \cup {i})
    PROVE  Cardinality(T) <= Cardinality(S) + 1
<1>1. /\ IsFiniteSet(S \cup {i}) /\ Cardinality(S) \in Nat
      /\ Cardinality(S \cup {i}) \in {Cardinality(S), Cardinality(S) + 1}
  BY RowsCounted, FS_AddElement
<1>2. Cardinality(T) <= Cardinality(S \cup {i}) /\ IsFiniteSet(T)
  BY <1>1, FS_Subset
<1>3. Cardinality(T) \in Nat
  BY <1>2, FS_CardinalityType
<1> QED
  BY <1>1, <1>2, <1>3

(***************************************************************************)
(* What a step does to the rows.  It writes at most one of them: a new row *)
(* is born, a row is moved to a status, or a reviewer rules on it.         *)
(***************************************************************************)
SameRows    == \A j \in RowIds : rows'[j] = rows[j]
OnlyRow(i)  == \A j \in RowIds \ {i} : rows'[j] = rows[j]

Born(i, t, s)  == /\ rows[i].status = "NONE"
                  /\ rows'[i].type = t /\ rows'[i].status = s
                  /\ rows'[i].sent = 0 /\ rows'[i].replaced = 0
Moved(i, s)    == /\ rows'[i].type = rows[i].type /\ rows'[i].status = s
                  /\ rows'[i].sent = rows[i].sent /\ rows'[i].replaced = rows[i].replaced
Called(i)      == /\ rows'[i].type = rows[i].type /\ rows'[i].status = rows[i].status
                  /\ rows'[i].sent \in {rows[i].sent, rows[i].sent + 1}
                  /\ rows'[i].replaced = rows[i].replaced
RuledOn(i)     == /\ rows'[i].type = rows[i].type /\ rows'[i].status \in {"APPROVED", "BLOCKED"}
                  /\ rows'[i].sent = rows[i].sent
                  /\ rows[i].status = "PENDING" => rows'[i].replaced = rows[i].replaced
                  /\ rows[i].status # "PENDING" => rows'[i].replaced = rows[i].replaced + 1

LEMMA SetRowEffect ==
    ASSUME CaseTypeOK, NEW i, NEW r, SetRow(i, r)
    PROVE  /\ OnlyRow(i)
           /\ i \in RowIds => rows'[i] = r
BY DEF CaseTypeOK, SetRow, OnlyRow

LEMMA AddRowEffect ==
    ASSUME CaseTypeOK, NEW i \in RowIds, NEW t, NEW s, IsNextRow(i), AddRow(i, t, s)
    PROVE  OnlyRow(i) /\ Born(i, t, s)
<1> DEFINE r == [NoRow EXCEPT !.type = t, !.status = s]
<1>1. r.type = t /\ r.status = s /\ r.sent = 0 /\ r.replaced = 0
  BY DEF NoRow
<1>2. rows' = [rows EXCEPT ![i] = r] /\ rows[i].status = "NONE"
  BY DEF AddRow, IsNextRow
<1> HIDE DEF r
<1> QED
  BY <1>1, <1>2 DEF CaseTypeOK, OnlyRow, Born

LEMMA RowFields ==
    ASSUME CaseTypeOK, NEW i \in RowIds
    PROVE  rows[i] \in Row /\ rows[i].sent \in Nat /\ rows[i].replaced \in Nat
BY DEF CaseTypeOK, Row

LEMMA UnchangedRows == UNCHANGED rows => SameRows
BY DEF SameRows

LEMMA StrategyCreateEffect ==
    ASSUME CaseTypeOK, RunsOK, NEW w \in Runs, StrategyCreate(w)
    PROVE  /\ OthersKept(w) /\ run[w].pc = "s_create" /\ run'[w].pc \in {"idle", "p_case"}
           /\ \E i \in RowIds : OnlyRow(i) /\ Born(i, run[w].type, "PENDING")
<1>1. PICK i \in RowIds : /\ IsNextRow(i) /\ AddRow(i, run[w].type, "PENDING")
                          /\ Planned(w, i)
  BY DEF StrategyCreate
<1>2. run[w].pc = "s_create"
  BY DEF StrategyCreate, At
<1> QED
  BY <1>1, <1>2, AddRowEffect, PlannedEffect DEF IdleRun

LEMMA StrategyFindEffect ==
    ASSUME CaseTypeOK, RunsOK, NEW w \in Runs, StrategyFind(w)
    PROVE  /\ OthersKept(w) /\ SameRows
           /\ \/ run'[w].pc \in {"idle", "p_case"}
              \/ /\ run'[w].pc = "s_create" /\ run'[w].type = run[w].type
                 /\ RowsOf(run[w].type, Reusable) = {}
<1>1. \/ RowsOf(run[w].type, Reusable) = {} /\ Goto(w, "s_create")
      \/ \E i \in RowIds : Planned(w, i)
  BY DEF StrategyFind
<1>2. SameRows
  BY DEF StrategyFind, SameRows, caseVars
<1> QED
  BY <1>1, <1>2, GotoEffect, PlannedEffect DEF Kept, IdleRun

LEMMA ExecuteReadEffect ==
    ASSUME CaseTypeOK, RunsOK, NEW w \in Runs, ExecuteRead(w)
    PROVE  /\ OthersKept(w) /\ SameRows
           /\ \/ run'[w].pc \in {"idle", "x_exhaust"}
              \/ /\ run'[w].pc = "x_claim" /\ run'[w].act \in RowIds
                 /\ rows[run'[w].act].status \in Claimable
                 /\ rows[run'[w].act].type = run'[w].type
                 /\ ~CeilingReached(run'[w].type)
<1> DEFINE r(i) == [run[w] EXCEPT
                      !.pc = IF CeilingReached(rows[i].type) THEN "x_exhaust" ELSE "x_claim",
                      !.act = i, !.type = rows[i].type, !.n = Attempts(rows[i].type),
                      !.decision = "null"]
<1>1. \A i \in RowIds :
        /\ r(i).act = i /\ r(i).type = rows[i].type
        /\ CeilingReached(rows[i].type) => r(i).pc = "x_exhaust"
        /\ ~CeilingReached(rows[i].type) => r(i).pc = "x_claim"
  <2>1. run[w] \in RunState
    BY DEF RunsOK, RunTypeOK
  <2> QED
    BY <2>1 DEF RunState
<1>2. SameRows
  BY DEF ExecuteRead, SameRows, caseVars
<1>3. CASE Finish(w)
  BY <1>2, <1>3, FinishEffect DEF IdleRun
<1>4. CASE \E i \in RowIds : Executable(i) /\ run' = [run EXCEPT ![w] = r(i)]
  <2>1. PICK i \in RowIds : Executable(i) /\ run' = [run EXCEPT ![w] = r(i)]
    BY <1>4
  <2>2. rows[i].status \in Claimable
    BY <2>1 DEF Executable, IsNewest
  <2> HIDE DEF r
  <2>3. OthersKept(w) /\ run'[w] = r(i)
    BY <2>1, UpdateEffect
  <2> QED
    BY <1>1, <1>2, <2>2, <2>3
<1>5. Finish(w) \/ \E i \in RowIds : Executable(i) /\ run' = [run EXCEPT ![w] = r(i)]
  BY DEF ExecuteRead
<1> QED
  BY <1>3, <1>4, <1>5

LEMMA ClaimEffect ==
    ASSUME CaseTypeOK, RunsOK, NEW w \in Runs, ExecuteClaim(w)
    PROVE  /\ OthersKept(w) /\ run[w].pc = "x_claim"
           /\ \/ run'[w].pc = "idle" /\ SameRows
              \/ /\ run'[w].pc = "x_progress" /\ run'[w].act = run[w].act
                 /\ OnlyRow(run[w].act)
                 /\ run[w].act \in RowIds =>
                      rows[run[w].act].status \in Claimable /\ Moved(run[w].act, "EXECUTING")
<1> DEFINE i == run[w].act
<1>1. run[w].pc = "x_claim"
  BY DEF ExecuteClaim, At
<1>2. CASE Finish(w) /\ UNCHANGED caseVars
  BY <1>1, <1>2, FinishEffect, UnchangedRows DEF IdleRun, caseVars
<1>3. CASE /\ ClaimSucceeds(i) /\ Goto(w, "x_progress")
           /\ SetRow(i, [rows[i] EXCEPT !.status = "EXECUTING"])
  <2>1. i \in RowIds => Moved(i, "EXECUTING")
    BY <1>3, SetRowEffect, RowFields DEF Row, Moved
  <2> QED
    BY <1>1, <1>3, <2>1, SetRowEffect, GotoEffect DEF Kept, ClaimSucceeds
<1> QED
  BY <1>2, <1>3 DEF ExecuteClaim

LEMMA ProgressEffect ==
    ASSUME RunsOK, NEW w \in Runs, ExecuteProgress(w)
    PROVE  /\ OthersKept(w) /\ SameRows /\ run[w].pc = "x_progress"
           /\ run'[w].pc = "x_call" /\ run'[w].act = run[w].act
BY GotoEffect DEF ExecuteProgress, At, SetStatus, SameRows, Kept

LEMMA CallEffect ==
    ASSUME CaseTypeOK, RunsOK, NEW w \in Runs, ExecuteCall(w)
    PROVE  /\ OthersKept(w) /\ run[w].pc = "x_call" /\ run'[w].pc = "x_record"
           /\ run'[w].act = run[w].act /\ OnlyRow(run[w].act)
           /\ run[w].act \in RowIds => Called(run[w].act)
<1> DEFINE i == run[w].act
           r(a) == [run[w] EXCEPT !.pc = "x_record", !.result = a]
           n(left) == IF left THEN rows[i].sent + 1 ELSE rows[i].sent
<1>1. PICK a \in {"ok", "unsuccessful", "thrown"}, left \in BOOLEAN :
           /\ SetRow(i, [rows[i] EXCEPT !.sent = n(left)])
           /\ run' = [run EXCEPT ![w] = r(a)]
  BY DEF ExecuteCall
<1>2. r(a).pc = "x_record" /\ r(a).act = i
  BY DEF RunsOK, RunTypeOK, RunState
<1>3. n(left) \in {rows[i].sent, rows[i].sent + 1}
  OBVIOUS
<1> HIDE DEF r, n
<1>4. i \in RowIds => Called(i)
  BY <1>1, <1>3, SetRowEffect, RowFields DEF Row, Called
<1>5. run[w].pc = "x_call"
  BY DEF ExecuteCall, At
<1> QED
  BY <1>1, <1>2, <1>4, <1>5, SetRowEffect, UpdateEffect

LEMMA RecordEffect ==
    ASSUME CaseTypeOK, RunsOK, NEW w \in Runs, ExecuteRecord(w)
    PROVE  /\ OthersKept(w) /\ run[w].pc = "x_record"
           /\ run'[w].pc \in {"idle", "x_out", "o_read"} /\ OnlyRow(run[w].act)
           /\ run[w].act \in RowIds =>
                \E s \in {"SUCCESS", "FAILED"} : Moved(run[w].act, s)
<1> DEFINE i == run[w].act
           r == run[w].result
           b == rows[i].linked \/ (r = "ok" /\ rows[i].type \in ContactTypes)
           q == [rows[i] EXCEPT !.status = ResultStatus(r), !.linked = b]
<1>1. SetRow(i, q)
  BY DEF ExecuteRecord
<1>2. ResultStatus(r) \in {"SUCCESS", "FAILED"}
  BY DEF ResultStatus
<1>3. run[w].pc = "x_record" /\ (Finish(w) \/ Goto(w, "x_out") \/ Leave(w, AfterExecute(w)))
  BY DEF ExecuteRecord, At
<1>4. i \in RowIds => /\ q.type = rows[i].type /\ q.status = ResultStatus(r)
                      /\ q.sent = rows[i].sent /\ q.replaced = rows[i].replaced
  <2> HIDE DEF b
  <2> QED
    BY RowFields DEF Row
<1> HIDE DEF q
<1>5. i \in RowIds => Moved(i, ResultStatus(r))
  BY <1>1, <1>4, SetRowEffect DEF Moved
<1> QED
  BY <1>1, <1>2, <1>3, <1>5, SetRowEffect, FinishEffect, GotoEffect, LeaveEffect DEF IdleRun

(***************************************************************************)
(* Every other step leaves the runs that are about to write a row alone,   *)
(* and at most rewrites a row without attempting it.                       *)
(***************************************************************************)
HotPcs     == {"s_create", "x_claim", "x_progress", "x_call", "x_record"}
Unmoved(w) == /\ run'[w].pc = run[w].pc   /\ run'[w].type = run[w].type
              /\ run'[w].act = run[w].act /\ run'[w].n = run[w].n
CoolRuns   == \A w \in Runs : run'[w].pc \in HotPcs => Unmoved(w)
CoolRow(i) == \/ Moved(i, rows[i].status)
              \/ rows[i].status = "PENDING" /\ Moved(i, "DELETED")
              \/ Born(i, "ESCALATE_HUMAN", "SUCCESS")
              \/ RuledOn(i)
CoolStep   == /\ CoolRuns
              /\ \A i \in RowIds : rows'[i] = rows[i] \/ CoolRow(i)

LEMMA CoolRowStep ==
    ASSUME CoolRuns, NEW i, OnlyRow(i), i \in RowIds => CoolRow(i)
    PROVE  CoolStep
BY DEF CoolStep, OnlyRow

LEMMA EndsCool ==
    ASSUME NEW w, NEW pcs, EndsOr(w, pcs), pcs \cap HotPcs = {}
    PROVE  CoolRuns
BY DEF EndsOr, OthersKept, CoolRuns, Unmoved, IdleRun, HotPcs

LEMMA PolicyCool ==
    ASSUME CaseTypeOK, RunsOK, NEW w \in Runs,
           \/ PolicyReadCase(w) \/ PolicyCountAttempts(w) \/ PolicyFindApproved(w)
           \/ PolicyFindPending(w) \/ PolicyWriteDecision(w)
    PROVE  CoolStep
<1>1. CoolRuns
  BY PolicyEffect, EndsCool DEF HotPcs
<1>2. CASE UNCHANGED caseVars
  BY <1>1, <1>2 DEF CoolStep, caseVars
<1>3. CASE PolicyWriteDecision(w) /\ ~UNCHANGED caseVars
  <2> DEFINE i == run[w].target
  <2>1. SetRow(i, [rows[i] EXCEPT !.decision = run[w].decision])
    BY <1>3 DEF PolicyWriteDecision
  <2>2. i \in RowIds => Moved(i, rows[i].status)
    BY <2>1, SetRowEffect, RowFields DEF Row, Moved
  <2> QED
    BY <1>1, <2>1, <2>2, SetRowEffect, CoolRowStep DEF CoolRow
<1> QED
  BY <1>2, <1>3 DEF PolicyReadCase, PolicyCountAttempts, PolicyFindApproved, PolicyFindPending

LEMMA EscalateCool ==
    ASSUME CaseTypeOK, RunsOK, NEW w \in Runs,
           \/ MaybeEscalateRead(w) \/ EscalateCreateAction(w) \/ EscalateSetStatus(w)
           \/ DeletePlaceholder(w)
    PROVE  CoolStep
<1>1. CoolRuns
  BY EscalateEffect, EndsCool DEF HotPcs
<1>2. CASE MaybeEscalateRead(w) \/ EscalateSetStatus(w)
  BY <1>1, <1>2 DEF MaybeEscalateRead, EscalateSetStatus, SetStatus, CoolStep, caseVars
<1>3. CASE EscalateCreateAction(w)
  <2>1. PICK i \in RowIds : IsNextRow(i) /\ AddRow(i, "ESCALATE_HUMAN", "SUCCESS")
    BY <1>3 DEF EscalateCreateAction
  <2> QED
    BY <1>1, <2>1, AddRowEffect, CoolRowStep DEF CoolRow
<1>4. CASE DeletePlaceholder(w)
  <2> DEFINE i == run[w].act
  <2>1. CASE UNCHANGED caseVars
    BY <1>1, <2>1 DEF CoolStep, caseVars
  <2>2. CASE rows[i].status = "PENDING" /\ SetRow(i, [rows[i] EXCEPT !.status = "DELETED"])
    <3>1. i \in RowIds => Moved(i, "DELETED")
      BY <2>2, SetRowEffect, RowFields DEF Row, Moved
    <3> QED
      BY <1>1, <2>2, <3>1, SetRowEffect, CoolRowStep DEF CoolRow
  <2> QED
    BY <1>4, <2>1, <2>2 DEF DeletePlaceholder
<1> QED
  BY <1>2, <1>3, <1>4

LEMMA QuietRunCool ==
    ASSUME RunsOK, NEW w \in Runs,
           \/ RunStart(w) \/ AgentRetry(w) \/ ClientStops(w) \/ ExecuteExhaust(w) \/ ExecuteGiveUp(w)
           \/ ObserveRead(w) \/ ObserveCreateOutcome(w) \/ ObserveClose(w) \/ ObserveExhaust(w)
    PROVE  CoolStep
<1>1. UNCHANGED rows
  BY StartEffect
  DEF AgentRetry, ClientStops, ExecuteExhaust, ExecuteGiveUp, ObserveRead, ObserveCreateOutcome,
      ObserveClose, ObserveExhaust, SetStatus, caseVars
<1>2. CASE RunStart(w)
  <2>1. OthersKept(w) /\ run'[w].pc \notin HotPcs
    BY <1>2, StartEffect DEF HotPcs
  <2> QED
    BY <1>1, <2>1 DEF CoolStep, CoolRuns, Unmoved, OthersKept
<1>3. CASE ClientStops(w)
  <2>1. OthersKept(w) /\ (run'[w] = IdleRun \/ Unmoved(w))
    BY <1>3, ClientStopsEffect DEF LeftBehind, Unmoved
  <2> QED
    BY <1>1, <2>1 DEF CoolStep, CoolRuns, Unmoved, OthersKept, IdleRun, HotPcs
<1>4. CASE ExecuteExhaust(w) \/ ExecuteGiveUp(w)
  <2>1. OthersKept(w) /\ run'[w].pc \in {"idle", "o_read"}
    BY <1>4, FinishEffect, LeaveEffect DEF ExecuteExhaust, ExecuteGiveUp, IdleRun
  <2> QED
    BY <1>1, <2>1 DEF CoolStep, CoolRuns, Unmoved, OthersKept, HotPcs
<1>5. CASE \/ ObserveRead(w) \/ ObserveCreateOutcome(w) \/ ObserveClose(w) \/ ObserveExhaust(w)
           \/ AgentRetry(w)
  <2>1. CoolRuns
    BY <1>5, ObserveEffect, AgentRetryEffect, EndsCool DEF HotPcs
  <2> QED
    BY <1>1, <2>1 DEF CoolStep
<1> QED
  BY <1>2, <1>3, <1>4, <1>5

LEMMA ReviewCool ==
    ASSUME CaseTypeOK, NEW v \in Reviewers, ReviewStart(v) \/ ReviewStep(v), UNCHANGED run
    PROVE  CoolStep
<1>1. CoolRuns
  BY DEF CoolRuns, Unmoved
<1> DEFINE i == review[v].act
<1>2. CASE UNCHANGED rows
  BY <1>1, <1>2 DEF CoolStep
<1> DEFINE approved == [rows[i] EXCEPT !.status = "APPROVED", !.decision = "ALLOW",
                                       !.replaced = Replacing(i)]
           rejected == [rows[i] EXCEPT !.status = "BLOCKED", !.replaced = Replacing(i)]
<1>3. CASE SetRow(i, approved) \/ SetRow(i, rejected)
  <2>1. ASSUME NEW r \in {approved, rejected}, i \in RowIds
        PROVE  /\ r.type = rows[i].type /\ r.status \in {"APPROVED", "BLOCKED"}
               /\ r.sent = rows[i].sent /\ r.replaced = Replacing(i)
    BY <2>1, RowFields DEF Row
  <2> HIDE DEF approved, rejected
  <2>2. i \in RowIds => RuledOn(i)
    BY <1>3, <2>1, SetRowEffect, RowFields DEF RuledOn, Replacing
  <2> QED
    BY <1>1, <1>3, <2>2, SetRowEffect, CoolRowStep DEF CoolRow
<1> QED
  BY <1>2, <1>3 DEF ReviewStart, ReviewStep, ApproveRead, RejectRead, ApproveWrite, ApproveReopen,
                    RejectWrite, RejectStop, SetStatus, caseVars

\* The steps that touch the runs about to write a row.
HotStep(w) == \/ StrategyFind(w) \/ StrategyCreate(w) \/ ExecuteRead(w) \/ ExecuteClaim(w)
              \/ ExecuteProgress(w) \/ ExecuteCall(w) \/ ExecuteRecord(w)

LEMMA StepCases ==
    ASSUME CaseTypeOK, RunsOK, [Next]_vars
    PROVE  CoolStep \/ \E w \in Runs : HotStep(w)
<1>1. CASE RunAction
  BY <1>1, PolicyCool, EscalateCool, QuietRunCool DEF RunAction, RunStep, HotStep
<1>2. CASE CustomerAction \/ HookAction \/ UNCHANGED vars
  <2>1. UNCHANGED rows
    BY <1>2 DEF CustomerAction, HookAction, PayOrder, PayLink, Deliver, HookStep, CapturedRead,
                CapturedMark, MatchActiveCase, LinkPaidFind, CloseRead, CloseTransaction, vars, caseVars
  <2>2. UNCHANGED run
    BY <1>2 DEF CustomerAction, HookAction, runVars, vars
  <2> QED
    BY <2>1, <2>2 DEF CoolStep, CoolRuns, Unmoved
<1>3. CASE ReviewAction
  BY <1>3, ReviewCool DEF ReviewAction, runVars
<1>4. CASE Crash
  BY <1>4 DEF Crash, caseVars, IdleRun, CoolStep, CoolRuns, HotPcs
<1> QED
  BY <1>1, <1>2, <1>3, <1>4 DEF Next

(***************************************************************************)
(* One message per decision.  Each existing decision allows one message:   *)
(* it is still to be claimed, or one run holds it, or it was sent.         *)
(***************************************************************************)
Holding    == {"x_progress", "x_call"}
Holders(i) == {w \in Runs : run[w].pc \in Holding /\ run[w].act = i}
Unclaimed  == Claimable \cup {"NONE"}
Waiting(i) == IF rows[i].status \in Unclaimed THEN 1 ELSE 0

SendInv ==
    \A i \in RowIds :
        /\ rows[i].sent + Cardinality(Holders(i)) + Waiting(i) <= 1 + rows[i].replaced
        /\ rows[i].status = "NONE" => rows[i].sent = 0 /\ rows[i].replaced = 0

LEMMA SendInvInit == Init => SendInv
<1> SUFFICES ASSUME Init, NEW i \in RowIds
             PROVE  /\ rows[i].sent + Cardinality(Holders(i)) + Waiting(i) <= 1 + rows[i].replaced
                    /\ rows[i].status = "NONE" => rows[i].sent = 0 /\ rows[i].replaced = 0
  BY DEF SendInv
<1>1. rows[i].sent = 0 /\ rows[i].replaced = 0 /\ Waiting(i) = 1
  BY DEF Init, CaseInit, NoRow, Waiting, Unclaimed
<1>2. Holders(i) = {}
  BY DEF Init, RunInit, IdleRun, Holders, Holding
<1>3. Cardinality(Holders(i)) = 0
  BY <1>2, FS_EmptySet
<1> QED
  BY <1>1, <1>3

LEMMA HoldersCounted ==
    ASSUME NEW i
    PROVE  /\ Cardinality(Holders(i)) \in Nat /\ Holders(i) \in SUBSET Runs
           /\ Cardinality(Holders(i)') \in Nat /\ Holders(i)' \in SUBSET Runs
<1>1. Holders(i) \in SUBSET Runs /\ Holders(i)' \in SUBSET Runs
  BY DEF Holders
<1> QED
  BY <1>1, RunsCounted

\* A row keeps its bound when no run joins its holders and none of what it counts grows.
LEMMA SendQuiet ==
    ASSUME CaseTypeOK, SendInv, NEW i \in RowIds, Holders(i)' \in SUBSET Holders(i),
           \/ rows'[i] = rows[i]
           \/ CoolRow(i)
           \/ Born(i, "ESCALATE_HUMAN", "SUCCESS")
           \/ \E t : Born(i, t, "PENDING")
           \/ \E s \in {"SUCCESS", "FAILED"} : Moved(i, s)
    PROVE  /\ rows'[i].sent + Cardinality(Holders(i)') + Waiting(i)' <= 1 + rows'[i].replaced
           /\ rows'[i].status = "NONE" => rows'[i].sent = 0 /\ rows'[i].replaced = 0
<1>1. Cardinality(Holders(i)') <= Cardinality(Holders(i))
  BY HoldersCounted, RunsSubsetCount
<1>2. /\ rows[i].sent + Cardinality(Holders(i)) + Waiting(i) <= 1 + rows[i].replaced
      /\ rows[i].status = "NONE" => rows[i].sent = 0 /\ rows[i].replaced = 0
  BY DEF SendInv
<1>3. /\ rows[i].sent \in Nat /\ rows[i].replaced \in Nat
      /\ Cardinality(Holders(i)) \in Nat /\ Cardinality(Holders(i)') \in Nat
  BY RowFields, HoldersCounted
<1>4. Waiting(i) \in 0 .. 1 /\ Waiting(i)' \in 0 .. 1
  BY DEF Waiting
<1>5. CASE /\ rows'[i].sent = rows[i].sent /\ rows'[i].replaced = rows[i].replaced
           /\ rows'[i].status \in Unclaimed => rows[i].status \in Unclaimed
           /\ rows'[i].status = "NONE" => rows[i].status = "NONE"
  <2>1. Waiting(i)' <= Waiting(i)
    BY <1>5 DEF Waiting
  <2> QED
    BY <1>1, <1>2, <1>3, <1>4, <1>5, <2>1
<1>6. CASE RuledOn(i)
  <2>1. CASE rows[i].status = "PENDING"
    <3>1. Waiting(i) = 1
      BY <2>1 DEF Waiting, Unclaimed, Claimable
    <3> QED
      BY <1>1, <1>2, <1>3, <1>4, <1>6, <2>1, <3>1 DEF RuledOn
  <2>2. CASE rows[i].status # "PENDING"
    BY <1>1, <1>2, <1>3, <1>4, <1>6, <2>2 DEF RuledOn
  <2> QED
    BY <2>1, <2>2
<1> QED
  BY <1>2, <1>5, <1>6 DEF CoolRow, Born, Moved, Unclaimed, Claimable

LEMMA SendInvStep ==
    ASSUME CaseTypeOK, RunsOK, SendInv, [Next]_vars
    PROVE  SendInv'
<1>1. CASE CoolStep
  <2>1. \A i \in RowIds : Holders(i)' \in SUBSET Holders(i)
    BY <1>1 DEF CoolStep, CoolRuns, Unmoved, Holders, Holding, HotPcs
  <2> QED
    BY <1>1, <2>1, SendQuiet DEF CoolStep, SendInv
<1>2. ASSUME NEW w \in Runs, HotStep(w) PROVE SendInv'
  <2>1. ASSUME OthersKept(w), run'[w].pc \notin Holding
        PROVE  \A i \in RowIds : Holders(i)' \in SUBSET Holders(i)
    BY <2>1 DEF OthersKept, Holders
  <2>2. CASE StrategyFind(w) \/ ExecuteRead(w)
    <3>1. OthersKept(w) /\ run'[w].pc \notin Holding /\ SameRows
      BY <2>2, StrategyFindEffect, ExecuteReadEffect DEF Holding
    <3> QED
      BY <2>1, <3>1, SendQuiet DEF SameRows, SendInv
  <2>3. CASE StrategyCreate(w)
    <3>1. OthersKept(w) /\ run'[w].pc \notin Holding
      BY <2>3, StrategyCreateEffect DEF Holding
    <3>2. PICK j \in RowIds : OnlyRow(j) /\ Born(j, run[w].type, "PENDING")
      BY <2>3, StrategyCreateEffect
    <3>3. \A i \in RowIds : rows'[i] = rows[i] \/ \E t : Born(i, t, "PENDING")
      BY <3>2 DEF OnlyRow
    <3> QED
      BY <2>1, <3>1, <3>3, SendQuiet DEF SendInv
  <2>4. CASE ExecuteRecord(w)
    <3>1. OthersKept(w) /\ run'[w].pc \notin Holding
      BY <2>4, RecordEffect DEF Holding
    <3>2. \A i \in RowIds : rows'[i] = rows[i] \/ \E s \in {"SUCCESS", "FAILED"} : Moved(i, s)
      BY <2>4, RecordEffect DEF OnlyRow
    <3> QED
      BY <2>1, <3>1, <3>2, SendQuiet DEF SendInv
  <2>5. CASE ExecuteProgress(w)
    <3>1. /\ OthersKept(w) /\ SameRows /\ run[w].pc \in Holding
          /\ run'[w].act = run[w].act
      BY <2>5, ProgressEffect DEF Holding
    <3>2. \A i \in RowIds : Holders(i)' \in SUBSET Holders(i)
      BY <3>1 DEF OthersKept, Holders
    <3> QED
      BY <3>1, <3>2, SendQuiet DEF SameRows, SendInv
  <2>6. CASE ExecuteClaim(w)
    <3>1. CASE run'[w].pc = "idle" /\ SameRows
      <4>1. OthersKept(w) /\ run'[w].pc \notin Holding
        BY <2>6, <3>1, ClaimEffect DEF Holding
      <4> QED
        BY <2>1, <3>1, <4>1, SendQuiet DEF SameRows, SendInv
    <3>2. CASE ~(run'[w].pc = "idle" /\ SameRows)
      <4> DEFINE c == run[w].act
      <4>1. /\ OthersKept(w) /\ run'[w].act = c /\ OnlyRow(c)
            /\ c \in RowIds => rows[c].status \in Claimable /\ Moved(c, "EXECUTING")
        BY <2>6, <3>2, ClaimEffect
      <4>2. ASSUME NEW i \in RowIds, i # c
            PROVE  rows'[i] = rows[i] /\ Holders(i)' \in SUBSET Holders(i)
        BY <4>1, <4>2 DEF OnlyRow, OthersKept, Holders
      <4>3. ASSUME NEW i \in RowIds, i = c
            PROVE  /\ rows'[i].sent + Cardinality(Holders(i)') + Waiting(i)' <= 1 + rows'[i].replaced
                   /\ rows'[i].status # "NONE"
        <5>1. Holders(i)' \in SUBSET (Holders(i) \cup {w})
          BY <4>1 DEF OthersKept, Holders
        <5>2. Cardinality(Holders(i)') <= Cardinality(Holders(i)) + 1
          BY <5>1, HoldersCounted, RunJoins
        <5>3. Waiting(i) = 1 /\ Waiting(i)' = 0 /\ rows'[i].status # "NONE"
          BY <4>1, <4>3 DEF Waiting, Unclaimed, Claimable, Moved
        <5>4. rows[i].sent + Cardinality(Holders(i)) + Waiting(i) <= 1 + rows[i].replaced
          BY <4>3 DEF SendInv
        <5> QED
          BY <4>1, <4>3, <5>2, <5>3, <5>4, RowFields, HoldersCounted DEF Moved
      <4> QED
        BY <4>2, <4>3, SendQuiet DEF SendInv
    <3> QED
      BY <3>1, <3>2
  <2>7. CASE ExecuteCall(w)
    <3> DEFINE c == run[w].act
    <3>1. /\ OthersKept(w) /\ run[w].pc \in Holding /\ run'[w].pc \notin Holding /\ OnlyRow(c)
          /\ c \in RowIds => Called(c)
      BY <2>7, CallEffect DEF Holding
    <3>2. ASSUME NEW i \in RowIds, i # c
          PROVE  rows'[i] = rows[i] /\ Holders(i)' \in SUBSET Holders(i)
      BY <2>1, <3>1, <3>2 DEF OnlyRow
    <3>3. ASSUME NEW i \in RowIds, i = c
          PROVE  /\ rows'[i].sent + Cardinality(Holders(i)') + Waiting(i)' <= 1 + rows'[i].replaced
                 /\ rows'[i].status # "NONE"
      <4>1. w \in Holders(i) /\ w \notin Holders(i)' /\ Holders(i)' \in SUBSET Holders(i)
        BY <2>1, <3>1, <3>3 DEF Holders
      <4>2. Cardinality(Holders(i)') <= Cardinality(Holders(i)) - 1
        BY <4>1, HoldersCounted, RunLeaves
      <4>3. /\ rows[i].sent + Cardinality(Holders(i)) + Waiting(i) <= 1 + rows[i].replaced
            /\ rows[i].status = "NONE" => rows[i].sent = 0 /\ rows[i].replaced = 0
        BY <3>3 DEF SendInv
      <4>4. Waiting(i)' = Waiting(i) /\ Waiting(i) \in 0 .. 1
            /\ (rows[i].status = "NONE" => Waiting(i) = 1)
        BY <3>1, <3>3 DEF Waiting, Unclaimed, Called
      <4> QED
        BY <3>1, <3>3, <4>2, <4>3, <4>4, RowFields, HoldersCounted DEF Called
    <3> QED
      BY <3>2, <3>3, SendQuiet DEF SendInv
  <2> QED
    BY <1>2, <2>2, <2>3, <2>4, <2>5, <2>6, <2>7 DEF HotStep
<1> QED
  BY <1>1, <1>2, StepCases

\* However many runs race for an action and however many reviewers decide on it,
\* the customer gets at most one message per decision.
THEOREM OneMessagePerDecision == Spec => []SentOncePerDecision
<1>1. TypeInv /\ SendInv => SentOncePerDecision
  <2> SUFFICES ASSUME TypeInv, SendInv, NEW i \in RowIds
               PROVE  rows[i].sent <= 1 + rows[i].replaced
    BY DEF SentOncePerDecision
  <2>1. rows[i].sent + Cardinality(Holders(i)) + Waiting(i) <= 1 + rows[i].replaced
    BY DEF SendInv
  <2>2. Waiting(i) \in 0 .. 1
    BY DEF Waiting
  <2> QED
    BY <2>1, <2>2, RowFields, HoldersCounted DEF TypeInv, TypeOK
<1>2. TypeInv /\ SendInv /\ [Next]_vars => SendInv'
  BY SendInvStep DEF TypeInv, TypeOK, RunsOK
<1> QED
  BY <1>1, <1>2, TypeInvInit, TypeInvStep, SendInvInit, PTL DEF Spec

(***************************************************************************)
(* Duplicates.  A run that found no live action of its type is the first of*)
(* at most Runs creators; each of them adds one row when it creates.       *)
(***************************************************************************)
LEMMA LiveCounted ==
    ASSUME NEW t
    PROVE  /\ LiveRows(t) \in SUBSET RowIds /\ LiveRows(t)' \in SUBSET RowIds
           /\ Cardinality(LiveRows(t)) \in Nat /\ Cardinality(LiveRows(t)') \in Nat
           /\ Creators(t) \in SUBSET Runs /\ Creators(t)' \in SUBSET Runs
           /\ Cardinality(Creators(t)) \in Nat /\ Cardinality(Creators(t)') \in Nat
           /\ Cardinality(Creators(t)') <= Cardinality(Runs) /\ Cardinality(Runs) \in Nat
<1>1. LiveRows(t) \in SUBSET RowIds /\ LiveRows(t)' \in SUBSET RowIds
  BY DEF LiveRows, RowsOf
<1>2. Creators(t) \in SUBSET Runs /\ Creators(t)' \in SUBSET Runs
  BY DEF Creators
<1> QED
  BY <1>1, <1>2, RowsCounted, RunsCounted

LEMMA LiveQuiet ==
    ASSUME CaseTypeOK, NEW t,
           \A i \in RowIds :
               \/ rows'[i] = rows[i]
               \/ CoolRow(i)
               \/ \E s \in {"SUCCESS", "FAILED"} : Moved(i, s)
               \/ rows[i].status \in Claimable /\ Moved(i, "EXECUTING")
               \/ Called(i)
    PROVE  LiveRows(t)' \in SUBSET LiveRows(t)
<1> SUFFICES ASSUME NEW i \in RowIds, i \in LiveRows(t)' PROVE i \in LiveRows(t)
  BY LiveCounted
<1>1. /\ rows'[i].type = t /\ rows'[i].status \in {"PENDING", "APPROVED", "EXECUTING"}
      /\ rows'[i].replaced = 0
  BY DEF LiveRows, RowsOf
<1>2. rows[i].replaced \in Nat
  BY RowFields
<1>3. CASE RuledOn(i)
  BY <1>1, <1>2, <1>3 DEF RuledOn, LiveRows, RowsOf
<1>4. CASE ~RuledOn(i)
  BY <1>1, <1>4 DEF CoolRow, Born, Moved, Called, Claimable, LiveRows, RowsOf
<1> QED
  BY <1>3, <1>4

LEMMA DuplicatesStep ==
    ASSUME CaseTypeOK, RunsOK, DuplicatesBounded, [Next]_vars
    PROVE  DuplicatesBounded'
<1> SUFFICES ASSUME NEW t \in ActionTypes
             PROVE  Cardinality(LiveRows(t)') + Cardinality(Creators(t)') <= Cardinality(Runs)
  BY DEF DuplicatesBounded
<1>1. Cardinality(LiveRows(t)) + Cardinality(Creators(t)) <= Cardinality(Runs)
  BY DEF DuplicatesBounded
<1>2. ASSUME LiveRows(t)' \in SUBSET LiveRows(t), Creators(t)' \in SUBSET Creators(t)
      PROVE  Cardinality(LiveRows(t)') + Cardinality(Creators(t)') <= Cardinality(Runs)
  <2>1. Cardinality(LiveRows(t)') <= Cardinality(LiveRows(t))
    BY <1>2, LiveCounted, RowsSubsetCount
  <2>2. Cardinality(Creators(t)') <= Cardinality(Creators(t))
    BY <1>2, LiveCounted, RunsSubsetCount
  <2> QED
    BY <1>1, <2>1, <2>2, LiveCounted
<1>3. CASE CoolStep
  <2>1. Creators(t)' \in SUBSET Creators(t)
    BY <1>3 DEF CoolStep, CoolRuns, Unmoved, HotPcs, Creators, At
  <2> QED
    BY <1>2, <1>3, <2>1, LiveQuiet DEF CoolStep
<1>4. ASSUME NEW w \in Runs, HotStep(w)
      PROVE  Cardinality(LiveRows(t)') + Cardinality(Creators(t)') <= Cardinality(Runs)
  <2>1. ASSUME OthersKept(w), run'[w].pc # "s_create"
        PROVE  Creators(t)' \in SUBSET Creators(t)
    BY <2>1 DEF OthersKept, Creators, At
  <2>2. CASE StrategyFind(w)
    <3>1. OthersKept(w) /\ SameRows
      BY <2>2, StrategyFindEffect
    <3>2. CASE run'[w].pc # "s_create" \/ run'[w].type # t
      <4>1. Creators(t)' \in SUBSET Creators(t)
        BY <3>1, <3>2 DEF OthersKept, Creators, At
      <4> QED
        BY <1>2, <3>1, <4>1, LiveQuiet DEF SameRows
    <3>3. CASE run'[w].pc = "s_create" /\ run'[w].type = t
      <4>1. RowsOf(t, Reusable) = {}
        BY <2>2, <3>3, StrategyFindEffect
      <4>2. LiveRows(t)' = {}
        BY <3>1, <4>1 DEF SameRows, LiveRows, RowsOf, Reusable
      <4> QED
        BY <4>2, LiveCounted, FS_EmptySet
    <3> QED
      BY <3>2, <3>3
  <2>3. CASE StrategyCreate(w)
    <3>1. /\ OthersKept(w) /\ run[w].pc = "s_create" /\ run'[w].pc # "s_create"
      BY <2>3, StrategyCreateEffect
    <3>2. PICK j \in RowIds : OnlyRow(j) /\ Born(j, run[w].type, "PENDING")
      BY <2>3, StrategyCreateEffect
    <3>3. Creators(t)' \in SUBSET Creators(t)
      BY <2>1, <3>1
    <3>4. CASE run[w].type # t
      <4>1. LiveRows(t)' \in SUBSET LiveRows(t)
        BY <3>2, <3>4 DEF OnlyRow, Born, LiveRows, RowsOf
      <4> QED
        BY <1>2, <3>3, <4>1
    <3>5. CASE run[w].type = t
      <4>1. w \in Creators(t) /\ w \notin Creators(t)'
        BY <3>1, <3>5 DEF Creators, At
      <4>2. Cardinality(Creators(t)') <= Cardinality(Creators(t)) - 1
        BY <3>3, <4>1, LiveCounted, RunLeaves
      <4>3. LiveRows(t)' \in SUBSET (LiveRows(t) \cup {j})
        BY <3>2 DEF OnlyRow, LiveRows, RowsOf
      <4>4. Cardinality(LiveRows(t)') <= Cardinality(LiveRows(t)) + 1
        BY <4>3, LiveCounted, RowJoins
      <4> QED
        BY <1>1, <4>2, <4>4, LiveCounted
    <3> QED
      BY <3>4, <3>5
  <2>4. CASE \/ ExecuteRead(w) \/ ExecuteClaim(w) \/ ExecuteProgress(w) \/ ExecuteCall(w)
             \/ ExecuteRecord(w)
    <3>1. OthersKept(w) /\ run'[w].pc # "s_create"
      BY <2>4, ExecuteReadEffect, ClaimEffect, ProgressEffect, CallEffect, RecordEffect
    <3>2. \A i \in RowIds :
             \/ rows'[i] = rows[i]
             \/ \E s \in {"SUCCESS", "FAILED"} : Moved(i, s)
             \/ rows[i].status \in Claimable /\ Moved(i, "EXECUTING")
             \/ Called(i)
      BY <2>4, ExecuteReadEffect, ClaimEffect, ProgressEffect, CallEffect, RecordEffect
      DEF SameRows, OnlyRow
    <3> QED
      BY <1>2, <2>1, <3>1, <3>2, LiveQuiet
  <2> QED
    BY <1>4, <2>2, <2>3, <2>4 DEF HotStep
<1> QED
  BY <1>3, <1>4, StepCases

\* Racing runs can create one live action too many each, never more: there are
\* never more live actions of one type than runs.
THEOREM DuplicatesAreBounded == Spec => []DuplicatesBounded
<1>1. Init => DuplicatesBounded
  <2> SUFFICES ASSUME Init, NEW t \in ActionTypes
               PROVE  Cardinality(LiveRows(t)) + Cardinality(Creators(t)) <= Cardinality(Runs)
    BY DEF DuplicatesBounded
  <2>1. LiveRows(t) = {} /\ Creators(t) = {}
    BY DEF Init, CaseInit, RunInit, NoRow, IdleRun, LiveRows, RowsOf, Creators, At
  <2> QED
    BY <2>1, FS_EmptySet, LiveCounted
<1>2. TypeInv /\ DuplicatesBounded /\ [Next]_vars => DuplicatesBounded'
  BY DuplicatesStep DEF TypeInv, TypeOK, RunsOK
<1> QED
  BY <1>1, <1>2, TypeInvInit, TypeInvStep, PTL DEF Spec

(***************************************************************************)
(* The ceiling.  Beside the count itself the invariant says what a run     *)
(* knows of the row it is about to claim or record: its type, and that it  *)
(* counts as an attempt already unless a reviewer wrote over it.           *)
(***************************************************************************)
Recording == {"x_progress", "x_call", "x_record"}
Tried(i)  == rows[i].status \in Attempted \/ rows[i].replaced > 0

ClaimHolds  == \A w \in Runs : run[w].pc = "x_claim" /\ run[w].act \in RowIds =>
                 rows[run[w].act].status # "NONE" /\ rows[run[w].act].type = run[w].type
RecordHolds == \A w \in Runs : run[w].pc \in Recording /\ run[w].act \in RowIds =>
                 rows[run[w].act].status # "NONE" /\ Tried(run[w].act)

CeilingInv == CeilingOverrunBounded /\ ClaimHolds /\ RecordHolds

LEMMA MaxAttemptsType == ASSUME NEW t \in ActionTypes PROVE MaxAttempts(t) \in Nat
<1>1. Policies[t].maxRetries \in Limit
  BY PoliciesAssumption DEF Policy
<1> QED
  BY <1>1 DEF MaxAttempts, Limit, FallbackMaxAttempts

\* A row that exists keeps its type and stays tried, whatever the step.
LEMMA RowsStay ==
    ASSUME CaseTypeOK, RunsOK, [Next]_vars, NEW i \in RowIds, rows[i].status # "NONE"
    PROVE  /\ rows'[i].status # "NONE" /\ rows'[i].type = rows[i].type
           /\ Tried(i) => Tried(i)'
<1>1. rows[i].replaced \in Nat
  BY RowFields
<1>2. CASE CoolStep
  <2>1. CASE RuledOn(i)
    <3>1. rows'[i].replaced \in {rows[i].replaced, rows[i].replaced + 1}
      BY <2>1 DEF RuledOn
    <3>2. rows[i].status \in Attempted => rows'[i].replaced = rows[i].replaced + 1
      BY <2>1 DEF RuledOn, Attempted
    <3>3. rows'[i].status # "NONE" /\ rows'[i].type = rows[i].type
      BY <2>1 DEF RuledOn
    <3> QED
      BY <1>1, <3>1, <3>2, <3>3 DEF Tried
  <2>2. CASE ~RuledOn(i)
    BY <1>2, <2>2 DEF CoolStep, CoolRow, Born, Moved, Tried, Attempted
  <2> QED
    BY <2>1, <2>2
<1>3. CASE \E w \in Runs : HotStep(w)
  <2>1. PICK w \in Runs : HotStep(w)
    BY <1>3
  <2>2. \/ rows'[i] = rows[i]
        \/ rows[i].status = "NONE"
        \/ \E s \in Attempted : Moved(i, s)
        \/ Called(i)
    BY <2>1, StrategyFindEffect, StrategyCreateEffect, ExecuteReadEffect, ClaimEffect,
       ProgressEffect, CallEffect, RecordEffect
    DEF HotStep, SameRows, OnlyRow, Born, Attempted
  <2> QED
    BY <2>2 DEF Moved, Called, Tried, Attempted
<1> QED
  BY <1>2, <1>3, StepCases

LEMMA HoldsStep ==
    ASSUME CaseTypeOK, RunsOK, ClaimHolds, RecordHolds, [Next]_vars
    PROVE  ClaimHolds' /\ RecordHolds'
<1> SUFFICES ASSUME NEW u \in Runs, NEW i \in RowIds, run'[u].act = i
             PROVE  /\ run'[u].pc = "x_claim" =>
                         rows'[i].status # "NONE" /\ rows'[i].type = run'[u].type
                    /\ run'[u].pc \in Recording => rows'[i].status # "NONE" /\ Tried(i)'
  BY DEF ClaimHolds, RecordHolds, Tried
<1>1. CASE Unmoved(u)
  BY <1>1, RowsStay DEF ClaimHolds, RecordHolds, Unmoved
<1>2. CASE ~Unmoved(u)
  <2>1. CASE CoolStep
    BY <1>2, <2>1 DEF CoolStep, CoolRuns, HotPcs, Recording
  <2>2. CASE \E w \in Runs : HotStep(w)
    <3>1. PICK w \in Runs : HotStep(w)
      BY <2>2
    <3>2. u = w
      BY <1>2, <3>1, StrategyFindEffect, StrategyCreateEffect, ExecuteReadEffect, ClaimEffect,
         ProgressEffect, CallEffect, RecordEffect
      DEF HotStep, OthersKept, Unmoved
    <3>3. CASE StrategyFind(u) \/ StrategyCreate(u) \/ ExecuteRecord(u)
      BY <3>3, StrategyFindEffect, StrategyCreateEffect, RecordEffect DEF Recording
    <3>4. CASE ExecuteRead(u)
      BY <3>4, ExecuteReadEffect DEF SameRows, Recording, Claimable
    <3>5. CASE ExecuteClaim(u)
      <4>1. \/ run'[u].pc = "idle"
            \/ run'[u].pc = "x_progress" /\ Moved(i, "EXECUTING")
        BY <3>5, ClaimEffect
      <4> QED
        BY <4>1 DEF Moved, Tried, Attempted, Recording
    <3>6. CASE ExecuteProgress(u) \/ ExecuteCall(u)
      <4>1. run[u].pc \in Recording /\ run[u].act = i /\ run'[u].pc # "x_claim"
        BY <3>6, ProgressEffect, CallEffect DEF Recording
      <4> QED
        BY <4>1, RowsStay DEF RecordHolds
    <3> QED
      BY <3>1, <3>2, <3>3, <3>4, <3>5, <3>6 DEF HotStep
  <2> QED
    BY <2>1, <2>2, StepCases
<1> QED
  BY <1>1, <1>2

LEMMA FreshCounted ==
    ASSUME NEW t
    PROVE  /\ FreshAttempts(t) \in SUBSET RowIds /\ FreshAttempts(t)' \in SUBSET RowIds
           /\ Cardinality(FreshAttempts(t)) \in Nat /\ Cardinality(FreshAttempts(t)') \in Nat
           /\ Claimers(t) \in SUBSET Runs /\ Claimers(t)' \in SUBSET Runs
           /\ Cardinality(Claimers(t)) \in Nat /\ Cardinality(Claimers(t)') \in Nat
           /\ Cardinality(Claimers(t)') <= Cardinality(Runs) /\ Cardinality(Runs) \in Nat
           /\ Cardinality(FreshAttempts(t)) <= Attempts(t)
<1>1. FreshAttempts(t) \in SUBSET RowIds /\ FreshAttempts(t)' \in SUBSET RowIds
  BY DEF FreshAttempts, RowsOf
<1>2. Claimers(t) \in SUBSET Runs /\ Claimers(t)' \in SUBSET Runs
  BY DEF Claimers
<1>3. RowsOf(t, Attempted) \in SUBSET RowIds /\ FreshAttempts(t) \in SUBSET RowsOf(t, Attempted)
  BY DEF FreshAttempts, RowsOf
<1>4. Cardinality(FreshAttempts(t)) <= Attempts(t)
  BY <1>3, RowsSubsetCount DEF Attempts
<1> QED
  BY <1>1, <1>2, <1>4, RowsCounted, RunsCounted

LEMMA FreshQuiet ==
    ASSUME CaseTypeOK, NEW t \in ActionTypes \ HandoffTypes, NEW i \in RowIds,
           \/ rows'[i] = rows[i]
           \/ CoolRow(i)
           \/ \E u : Born(i, u, "PENDING")
           \/ Called(i)
           \/ Tried(i) /\ \E s \in {"SUCCESS", "FAILED"} : Moved(i, s)
           \/ rows[i].type # t /\ \E s : Moved(i, s)
    PROVE  i \in FreshAttempts(t)' => i \in FreshAttempts(t)
<1> SUFFICES ASSUME i \in FreshAttempts(t)' PROVE i \in FreshAttempts(t)
  OBVIOUS
<1>1. rows'[i].type = t /\ rows'[i].status \in Attempted /\ rows'[i].replaced = 0
  BY DEF FreshAttempts, RowsOf
<1>2. rows[i].replaced \in Nat
  BY RowFields
<1>3. ~RuledOn(i) /\ ~Born(i, "ESCALATE_HUMAN", "SUCCESS") /\ ~Moved(i, "DELETED")
  BY <1>1 DEF RuledOn, Born, Moved, HandoffTypes, Attempted
<1>4. rows[i].type = t /\ rows[i].status \in Attempted /\ rows[i].replaced = 0
  BY <1>1, <1>2, <1>3 DEF CoolRow, Born, Moved, Called, Tried, Attempted
<1> QED
  BY <1>4 DEF FreshAttempts, RowsOf

LEMMA CeilingStep ==
    ASSUME CaseTypeOK, RunsOK, CeilingInv, [Next]_vars
    PROVE  CeilingOverrunBounded'
<1> SUFFICES ASSUME NEW t \in ActionTypes \ HandoffTypes
             PROVE  Cardinality(FreshAttempts(t)') + Cardinality(Claimers(t)')
                      <= MaxAttempts(t) + Cardinality(Runs) - 1
  BY DEF CeilingOverrunBounded, MaxAttempts
<1>1. Cardinality(FreshAttempts(t)) + Cardinality(Claimers(t))
        <= MaxAttempts(t) + Cardinality(Runs) - 1
  BY DEF CeilingInv, CeilingOverrunBounded
<1>2. MaxAttempts(t) \in Nat
  BY MaxAttemptsType
<1>3. ASSUME \A i \in RowIds : i \in FreshAttempts(t)' => i \in FreshAttempts(t)
      PROVE  Cardinality(FreshAttempts(t)') <= Cardinality(FreshAttempts(t))
  BY <1>3, FreshCounted, RowsSubsetCount
<1>4. ASSUME \A i \in RowIds : i \in FreshAttempts(t)' => i \in FreshAttempts(t),
             Claimers(t)' \in SUBSET Claimers(t)
      PROVE  Cardinality(FreshAttempts(t)') + Cardinality(Claimers(t)')
               <= MaxAttempts(t) + Cardinality(Runs) - 1
  <2>1. Cardinality(Claimers(t)') <= Cardinality(Claimers(t))
    BY <1>4, FreshCounted, RunsSubsetCount
  <2> QED
    BY <1>1, <1>2, <1>3, <1>4, <2>1, FreshCounted
<1>5. CASE CoolStep
  <2>1. Claimers(t)' \in SUBSET Claimers(t)
    BY <1>5 DEF CoolStep, CoolRuns, Unmoved, HotPcs, Claimers, At
  <2> QED
    BY <1>4, <1>5, <2>1, FreshQuiet DEF CoolStep
<1>6. ASSUME NEW w \in Runs, HotStep(w)
      PROVE  Cardinality(FreshAttempts(t)') + Cardinality(Claimers(t)')
               <= MaxAttempts(t) + Cardinality(Runs) - 1
  <2>1. ASSUME OthersKept(w), run'[w].pc # "x_claim" \/ run'[w].type # t
        PROVE  Claimers(t)' \in SUBSET Claimers(t)
    BY <2>1 DEF OthersKept, Claimers, At
  <2>2. CASE ExecuteRead(w)
    <3>1. OthersKept(w) /\ SameRows
      BY <2>2, ExecuteReadEffect
    <3>2. \A i \in RowIds : i \in FreshAttempts(t)' => i \in FreshAttempts(t)
      BY <3>1, FreshQuiet DEF SameRows
    <3>3. CASE run'[w].pc # "x_claim" \/ run'[w].type # t
      BY <1>4, <2>1, <3>1, <3>2, <3>3
    <3>4. CASE run'[w].pc = "x_claim" /\ run'[w].type = t
      <4>1. ~CeilingReached(t)
        BY <2>2, <3>4, ExecuteReadEffect
      <4>2. Attempts(t) < MaxAttempts(t) /\ Attempts(t) \in Nat
        BY <1>2, <4>1, AttemptsType DEF CeilingReached
      <4> QED
        BY <1>2, <1>3, <3>2, <4>2, FreshCounted
    <3> QED
      BY <3>3, <3>4
  <2>3. CASE ExecuteClaim(w)
    <3> DEFINE c == run[w].act
    <3>1. OthersKept(w) /\ run[w].pc = "x_claim" /\ run'[w].pc # "x_claim"
      BY <2>3, ClaimEffect
    <3>2. Claimers(t)' \in SUBSET Claimers(t)
      BY <2>1, <3>1
    <3>3. CASE SameRows
      BY <1>4, <3>2, <3>3, FreshQuiet DEF SameRows
    <3>4. CASE ~SameRows
      <4>1. OnlyRow(c) /\ (c \in RowIds => Moved(c, "EXECUTING") /\ rows[c].type = run[w].type)
        BY <2>3, <3>1, <3>4, ClaimEffect DEF CeilingInv, ClaimHolds
      <4>2. \A i \in RowIds : i # c => (i \in FreshAttempts(t)' => i \in FreshAttempts(t))
        BY <4>1, FreshQuiet DEF OnlyRow
      <4>3. CASE c \notin RowIds \/ run[w].type # t
        <5>1. c \in RowIds => (c \in FreshAttempts(t)' => c \in FreshAttempts(t))
          BY <4>1, <4>3 DEF Moved, FreshAttempts, RowsOf
        <5> QED
          BY <1>4, <3>2, <4>2, <5>1
      <4>4. CASE c \in RowIds /\ run[w].type = t
        <5>1. w \in Claimers(t) /\ w \notin Claimers(t)'
          BY <3>1, <4>4 DEF Claimers, At
        <5>2. Cardinality(Claimers(t)') <= Cardinality(Claimers(t)) - 1
          BY <3>2, <5>1, FreshCounted, RunLeaves
        <5>3. PICK i \in RowIds : i = c
          BY <4>4
        <5>4. FreshAttempts(t)' \in SUBSET (FreshAttempts(t) \cup {i})
          BY <4>2, <5>3, FreshCounted
        <5>5. Cardinality(FreshAttempts(t)') <= Cardinality(FreshAttempts(t)) + 1
          BY <5>4, FreshCounted, RowJoins
        <5> QED
          BY <1>1, <1>2, <5>2, <5>5, FreshCounted
      <4> QED
        BY <4>3, <4>4
    <3> QED
      BY <3>3, <3>4
  <2>4. CASE \/ StrategyFind(w) \/ StrategyCreate(w) \/ ExecuteProgress(w) \/ ExecuteCall(w)
             \/ ExecuteRecord(w)
    <3>1. OthersKept(w) /\ run'[w].pc # "x_claim"
      BY <2>4, StrategyFindEffect, StrategyCreateEffect, ProgressEffect, CallEffect, RecordEffect
    <3>2. run[w].pc = "x_record" /\ run[w].act \in RowIds => Tried(run[w].act)
      BY DEF CeilingInv, RecordHolds, Recording
    <3>3. \A i \in RowIds :
             \/ rows'[i] = rows[i]
             \/ \E u : Born(i, u, "PENDING")
             \/ Called(i)
             \/ Tried(i) /\ \E s \in {"SUCCESS", "FAILED"} : Moved(i, s)
      BY <2>4, <3>2, StrategyFindEffect, StrategyCreateEffect, ProgressEffect, CallEffect,
         RecordEffect DEF SameRows, OnlyRow
    <3> QED
      BY <1>4, <2>1, <3>1, <3>3, FreshQuiet
  <2> QED
    BY <1>6, <2>2, <2>3, <2>4 DEF HotStep
<1> QED
  BY <1>5, <1>6, StepCases

\* The attempt ceiling is passed by at most as many attempts as there are other
\* runs; with a single run it is never passed.
THEOREM CeilingHolds == Spec => []CeilingOverrunBounded
<1>1. Init => CeilingInv
  <2> SUFFICES ASSUME Init PROVE CeilingInv
    OBVIOUS
  <2>1. ClaimHolds /\ RecordHolds
    BY DEF Init, RunInit, IdleRun, ClaimHolds, RecordHolds, Recording
  <2>2. ASSUME NEW t \in ActionTypes \ HandoffTypes
        PROVE  Cardinality(FreshAttempts(t)) + Cardinality(Claimers(t))
                 <= MaxAttempts(t) + Cardinality(Runs) - 1
    <3>1. FreshAttempts(t) = {} /\ Claimers(t) = {}
      BY DEF Init, CaseInit, RunInit, NoRow, IdleRun, FreshAttempts, RowsOf, Attempted, Claimers, At
    <3>2. Cardinality(Runs) \in Nat /\ Cardinality(Runs) # 0
      BY RunsAssumption, FS_EmptySet, FS_CardinalityType
    <3> QED
      BY <3>1, <3>2, FS_EmptySet, MaxAttemptsType
  <2> QED
    BY <2>1, <2>2 DEF CeilingInv, CeilingOverrunBounded
<1>2. TypeInv /\ CeilingInv /\ [Next]_vars => CeilingInv'
  BY CeilingStep, HoldsStep DEF CeilingInv, TypeInv, TypeOK, RunsOK
<1>3. CeilingInv => CeilingOverrunBounded
  BY DEF CeilingInv
<1> QED
  BY <1>1, <1>2, <1>3, TypeInvInit, TypeInvStep, PTL DEF Spec

(***************************************************************************)
(* The writes of a row one by one, with the decision they leave: the ways  *)
(* a row is created, decided by policy, claimed or recorded by a run,      *)
(* deleted, and ruled on by a reviewer.                                    *)
(***************************************************************************)
SameKind(i)  == rows'[i].type = rows[i].type
Untouched(i) == /\ SameKind(i) /\ rows'[i].status = rows[i].status
                /\ rows'[i].decision = rows[i].decision
Created(i)   == /\ rows[i].status = "NONE"
                /\ \/ rows'[i].status = "PENDING" /\ rows'[i].type \in ActionTypes
                   \/ rows'[i].status = "SUCCESS" /\ rows'[i].type = "ESCALATE_HUMAN"
Decided(i)   == /\ SameKind(i) /\ rows'[i].status = rows[i].status
                /\ \E w \in Runs : /\ run[w].pc = "p_write"
                                   /\ rows'[i].decision = run[w].decision
Executed(i)  == /\ SameKind(i) /\ rows'[i].decision = rows[i].decision
                /\ \E w \in Runs : run[w].pc \in {"x_claim", "x_record"} /\ run[w].act = i
Dropped(i)   == /\ SameKind(i) /\ rows'[i].decision = rows[i].decision
                /\ rows[i].status = "PENDING" /\ rows'[i].status = "DELETED"
Reviewed(i)  == /\ SameKind(i) /\ rows'[i].status \in {"APPROVED", "BLOCKED"}
                /\ rows'[i].decision \in {rows[i].decision, "ALLOW"}
                /\ \E v \in Reviewers : review[v].pc # "idle" /\ review[v].act = i

Written(i) == \/ Untouched(i) \/ Created(i) \/ Decided(i) \/ Executed(i) \/ Dropped(i)
              \/ Reviewed(i)

LEMMA UnwrittenRow == ASSUME UNCHANGED rows, NEW i PROVE Written(i)
BY DEF Written, Untouched, SameKind

LEMMA OneRowWritten ==
    ASSUME NEW i \in RowIds, NEW j, OnlyRow(j), j \in RowIds => Written(j)
    PROVE  Written(i)
<1>1. CASE i = j
  BY <1>1
<1>2. CASE i # j
  BY <1>2 DEF OnlyRow, Written, Untouched, SameKind
<1> QED
  BY <1>1, <1>2

LEMMA RunWrites ==
    ASSUME CaseTypeOK, RunsOK, NEW w \in Runs, RunStart(w) \/ RunStep(w), NEW i \in RowIds
    PROVE  Written(i)
<1>1. CASE \/ RunStart(w) \/ AgentRetry(w) \/ ClientStops(w)
           \/ StrategyFind(w) \/ PolicyReadCase(w) \/ PolicyCountAttempts(w)
           \/ PolicyFindApproved(w) \/ PolicyFindPending(w) \/ ExecuteRead(w)
           \/ ExecuteExhaust(w) \/ ExecuteProgress(w) \/ ExecuteGiveUp(w) \/ ObserveRead(w)
           \/ ObserveCreateOutcome(w) \/ ObserveClose(w) \/ ObserveExhaust(w)
           \/ MaybeEscalateRead(w) \/ EscalateSetStatus(w)
  <2>1. UNCHANGED rows
    BY <1>1, StartEffect
            DEF AgentRetry, ClientStops, StrategyFind, PolicyReadCase, PolicyCountAttempts, PolicyFindApproved, PolicyFindPending,
                ExecuteRead, ExecuteExhaust, ExecuteProgress, ExecuteGiveUp, ObserveRead,
                ObserveCreateOutcome, ObserveClose, ObserveExhaust, MaybeEscalateRead,
                EscalateSetStatus, SetStatus, caseVars
  <2> QED
    BY <2>1, UnwrittenRow
<1>2. CASE StrategyCreate(w)
  <2>1. run[w].type \in ActionTypes
    BY <1>2, StrategyCreateEffect DEF RunsOK, RunsTyped, TypedPcs
  <2>2. PICK j \in RowIds : OnlyRow(j) /\ Born(j, run[w].type, "PENDING")
    BY <1>2, StrategyCreateEffect
  <2> QED
    BY <2>1, <2>2, OneRowWritten DEF Born, Written, Created
<1>3. CASE PolicyWriteDecision(w)
  <2> DEFINE j == run[w].target
             r == [rows[j] EXCEPT !.decision = run[w].decision]
  <2>1. CASE UNCHANGED caseVars
    BY <2>1, UnwrittenRow DEF caseVars
  <2>2. CASE SetRow(j, r)
    <3>1. j \in RowIds => /\ r.type = rows[j].type /\ r.status = rows[j].status
                          /\ r.decision = run[w].decision
      BY RowFields DEF Row
    <3> HIDE DEF r
    <3>2. j \in RowIds => Decided(j)
      BY <1>3, <2>2, <3>1, SetRowEffect DEF Decided, SameKind, PolicyWriteDecision, At
    <3> QED
      BY <2>2, <3>2, SetRowEffect, OneRowWritten DEF Written
  <2> QED
    BY <1>3, <2>1, <2>2 DEF PolicyWriteDecision
<1>4. CASE ExecuteClaim(w)
  <2> DEFINE j == run[w].act
             r == [rows[j] EXCEPT !.status = "EXECUTING"]
  <2>1. CASE UNCHANGED caseVars
    BY <2>1, UnwrittenRow DEF caseVars
  <2>2. CASE SetRow(j, r)
    <3>1. j \in RowIds => r.type = rows[j].type /\ r.decision = rows[j].decision
      BY RowFields DEF Row
    <3> HIDE DEF r
    <3>2. j \in RowIds => Executed(j)
      BY <1>4, <2>2, <3>1, SetRowEffect DEF Executed, SameKind, ExecuteClaim, At
    <3> QED
      BY <2>2, <3>2, SetRowEffect, OneRowWritten DEF Written
  <2> QED
    BY <1>4, <2>1, <2>2 DEF ExecuteClaim
<1>5. CASE ExecuteCall(w)
  <2> DEFINE j == run[w].act
             r(left) == [rows[j] EXCEPT !.sent = IF left THEN @ + 1 ELSE @]
  <2>1. PICK left \in BOOLEAN : SetRow(j, r(left))
    BY <1>5 DEF ExecuteCall
  <2>2. j \in RowIds => /\ r(left).type = rows[j].type /\ r(left).status = rows[j].status
                        /\ r(left).decision = rows[j].decision
    BY RowFields DEF Row
  <2> HIDE DEF r
  <2> QED
    BY <2>1, <2>2, SetRowEffect, OneRowWritten DEF Written, Untouched, SameKind
<1>6. CASE ExecuteRecord(w)
  <2> DEFINE j == run[w].act
             b == rows[j].linked \/ (run[w].result = "ok" /\ rows[j].type \in ContactTypes)
             r == [rows[j] EXCEPT !.status = ResultStatus(run[w].result), !.linked = b]
  <2>1. SetRow(j, r)
    BY <1>6 DEF ExecuteRecord
  <2>2. j \in RowIds => r.type = rows[j].type /\ r.decision = rows[j].decision
    <3> HIDE DEF b
    <3> QED
      BY RowFields DEF Row
  <2> HIDE DEF r
  <2>3. j \in RowIds => Executed(j)
    BY <1>6, <2>1, <2>2, SetRowEffect DEF Executed, SameKind, ExecuteRecord, At
  <2> QED
    BY <2>1, <2>3, SetRowEffect, OneRowWritten DEF Written
<1>7. CASE EscalateCreateAction(w)
  <2>1. PICK j \in RowIds : IsNextRow(j) /\ AddRow(j, "ESCALATE_HUMAN", "SUCCESS")
    BY <1>7 DEF EscalateCreateAction
  <2> QED
    BY <2>1, AddRowEffect, OneRowWritten DEF Born, Written, Created
<1>8. CASE DeletePlaceholder(w)
  <2> DEFINE j == run[w].act
             r == [rows[j] EXCEPT !.status = "DELETED"]
  <2>1. CASE UNCHANGED caseVars
    BY <2>1, UnwrittenRow DEF caseVars
  <2>2. CASE rows[j].status = "PENDING" /\ SetRow(j, r)
    <3>1. j \in RowIds => /\ r.type = rows[j].type /\ r.status = "DELETED"
                          /\ r.decision = rows[j].decision
      BY RowFields DEF Row
    <3> HIDE DEF r
    <3> QED
      BY <2>2, <3>1, SetRowEffect, OneRowWritten DEF Written, Dropped, SameKind
  <2> QED
    BY <1>8, <2>1, <2>2 DEF DeletePlaceholder
<1> QED
  BY <1>1, <1>2, <1>3, <1>4, <1>5, <1>6, <1>7, <1>8 DEF RunStep

LEMMA ReviewWrites ==
    ASSUME CaseTypeOK, NEW v \in Reviewers, ReviewStart(v) \/ ReviewStep(v), NEW i \in RowIds
    PROVE  Written(i)
<1> DEFINE j == review[v].act
           approved == [rows[j] EXCEPT !.status = "APPROVED", !.decision = "ALLOW",
                                       !.replaced = Replacing(j)]
           rejected == [rows[j] EXCEPT !.status = "BLOCKED", !.replaced = Replacing(j)]
<1>1. CASE UNCHANGED rows
  BY <1>1, UnwrittenRow
<1>2. CASE review[v].pc # "idle" /\ (SetRow(j, approved) \/ SetRow(j, rejected))
  <2>1. ASSUME j \in RowIds
        PROVE  /\ approved.type = rows[j].type /\ approved.status = "APPROVED"
               /\ approved.decision = "ALLOW"
               /\ rejected.type = rows[j].type /\ rejected.status = "BLOCKED"
               /\ rejected.decision = rows[j].decision
    BY <2>1, RowFields DEF Row
  <2> HIDE DEF approved, rejected
  <2>2. j \in RowIds => Reviewed(j)
    BY <1>2, <2>1, SetRowEffect DEF Reviewed, SameKind
  <2> QED
    BY <1>2, <2>2, SetRowEffect, OneRowWritten DEF Written
<1>3. UNCHANGED rows \/ (review[v].pc # "idle" /\ (SetRow(j, approved) \/ SetRow(j, rejected)))
  BY DEF ReviewStart, ReviewStep, ApproveRead, RejectRead, ApproveWrite, ApproveReopen,
         RejectWrite, RejectStop, SetStatus, caseVars
<1> QED
  BY <1>1, <1>2, <1>3

LEMMA StepWrites ==
    ASSUME CaseTypeOK, RunsOK, [Next]_vars, NEW i \in RowIds
    PROVE  Written(i)
<1>1. CASE RunAction
  BY <1>1, RunWrites DEF RunAction
<1>2. CASE ReviewAction
  BY <1>2, ReviewWrites DEF ReviewAction
<1>3. CASE CustomerAction \/ HookAction \/ Crash \/ UNCHANGED vars
  <2>1. UNCHANGED rows
    BY <1>3 DEF CustomerAction, HookAction, PayOrder, PayLink, Deliver, HookStep, CapturedRead,
                CapturedMark, MatchActiveCase, LinkPaidFind, CloseRead, CloseTransaction, Crash,
                vars, caseVars
  <2> QED
    BY <2>1, UnwrittenRow
<1> QED
  BY <1>1, <1>2, <1>3 DEF Next

(***************************************************************************)
(* Exhaustion.  A run that is about to give the case up saw the attempts of*)
(* some type used up, and rows that were tried stay tried.  What a run that*)
(* holds an action counted before it are other rows, so its own attempt is *)
(* one more.                                                               *)
(***************************************************************************)
TriedRows(t) == {i \in RowIds : rows[i].type = t /\ Tried(i)}
SomeUsedUp   == \E t \in ActionTypes : UsedUp(t)
GivingUp     == {"x_exhaust", "x_out", "o_exhaust"}
Counting     == {"x_claim"} \cup Recording

RowsTyped   == \A i \in RowIds : rows[i].status # "NONE" => rows[i].type \in ActionTypes
ReviewsHold == \A v \in Reviewers : review[v].pc # "idle" =>
                 review[v].act \in RowIds /\ rows[review[v].act].status # "NONE"
Counted(w)  == /\ run[w].act \in RowIds
               /\ rows[run[w].act].status # "NONE" /\ rows[run[w].act].type = run[w].type
               /\ run[w].n <= Cardinality(TriedRows(run[w].type) \ {run[w].act})
               /\ run[w].pc \in Recording => Tried(run[w].act)

ExhaustInv ==
    /\ RowsTyped /\ ReviewsHold
    /\ ExhaustedIsJustified
    /\ \A w \in Runs : run[w].pc \in GivingUp => SomeUsedUp
    /\ \A w \in Runs : run[w].pc \in Counting => Counted(w)

LEMMA UsedUpCounts ==
    ASSUME NEW t
    PROVE  /\ UsedUp(t) <=> Cardinality(TriedRows(t)) >= MaxAttempts(t)
           /\ TriedRows(t) \in SUBSET RowIds
BY DEF UsedUp, TriedRows, Tried

LEMMA CeilingIsUsedUp ==
    ASSUME NEW t \in ActionTypes, CeilingReached(t)
    PROVE  SomeUsedUp
<1>1. RowsOf(t, Attempted) \in SUBSET TriedRows(t)
  BY DEF RowsOf, TriedRows, Tried
<1>2. Attempts(t) <= Cardinality(TriedRows(t))
  BY <1>1, UsedUpCounts, RowsSubsetCount DEF Attempts
<1>3. Attempts(t) \in Nat /\ Cardinality(TriedRows(t)) \in Nat /\ MaxAttempts(t) \in Nat
  BY AttemptsType, UsedUpCounts, RowsCounted, MaxAttemptsType
<1>4. UsedUp(t)
  BY <1>2, <1>3, UsedUpCounts DEF CeilingReached
<1> QED
  BY <1>4 DEF SomeUsedUp

\* No step takes a tried row away from its type, so what is used up stays so.
LEMMA TriedStay ==
    ASSUME CaseTypeOK, RunsOK, SendInv, [Next]_vars, NEW t
    PROVE  TriedRows(t) \subseteq TriedRows(t)'
<1> SUFFICES ASSUME NEW i \in RowIds, rows[i].type = t, Tried(i) PROVE i \in TriedRows(t)'
  BY DEF TriedRows
<1>1. rows[i].status # "NONE"
  <2>1. rows[i].status = "NONE" => rows[i].replaced = 0
    BY DEF SendInv
  <2> QED
    BY <2>1 DEF Tried, Attempted
<1>2. rows'[i].type = t /\ Tried(i)'
  BY <1>1, RowsStay
<1> QED
  BY <1>2 DEF TriedRows

LEMMA UsedUpStays ==
    ASSUME CaseTypeOK, RunsOK, SendInv, [Next]_vars, SomeUsedUp
    PROVE  SomeUsedUp'
<1>1. PICK t \in ActionTypes : UsedUp(t)
  BY DEF SomeUsedUp
<1>2. TriedRows(t)' \in SUBSET RowIds
  BY DEF TriedRows
<1>3. Cardinality(TriedRows(t)) <= Cardinality(TriedRows(t)')
  BY <1>2, TriedStay, RowsSubsetCount
<1>4. Cardinality(TriedRows(t)) \in Nat /\ Cardinality(TriedRows(t)') \in Nat /\ MaxAttempts(t) \in Nat
  BY <1>2, UsedUpCounts, RowsCounted, MaxAttemptsType
<1>5. Cardinality(TriedRows(t)') >= MaxAttempts(t)
  BY <1>1, <1>3, <1>4, UsedUpCounts
<1>6. UsedUp(t)'
  BY <1>5 DEF UsedUp, TriedRows, Tried, MaxAttempts
<1> QED
  BY <1>6 DEF SomeUsedUp

\* The other rows a run counted keep counting.
LEMMA CountedStays ==
    ASSUME CaseTypeOK, RunsOK, SendInv, [Next]_vars, NEW w \in Runs, Counted(w),
           run'[w].act = run[w].act, run'[w].type = run[w].type, run'[w].n = run[w].n,
           run'[w].pc \in Recording => run[w].pc \in Recording \/ Tried(run[w].act)'
    PROVE  Counted(w)'
<1> DEFINE i == run[w].act
           t == run[w].type
<1>1. i \in RowIds /\ rows[i].status # "NONE" /\ rows[i].type = t
  BY DEF Counted
<1>2. rows'[i].status # "NONE" /\ rows'[i].type = t /\ (Tried(i) => Tried(i)')
  BY <1>1, RowsStay
<1>3. /\ TriedRows(t)' \ {i} \in SUBSET RowIds /\ TriedRows(t) \ {i} \in SUBSET RowIds
      /\ TriedRows(t) \ {i} \in SUBSET (TriedRows(t)' \ {i})
  BY TriedStay DEF TriedRows
<1>4. Cardinality(TriedRows(t) \ {i}) <= Cardinality(TriedRows(t)' \ {i})
  BY <1>3, RowsSubsetCount
<1>5. /\ Cardinality(TriedRows(t) \ {i}) \in Nat /\ Cardinality(TriedRows(t)' \ {i}) \in Nat
      /\ run[w].n \in Nat
  BY <1>3, RowsCounted DEF RunsOK, RunTypeOK, RunState
<1>6. run[w].n <= Cardinality(TriedRows(t)' \ {i})
  BY <1>4, <1>5 DEF Counted
<1>7. run'[w].pc \in Recording => Tried(i)'
  BY <1>2 DEF Counted
<1> QED
  BY <1>1, <1>2, <1>6, <1>7 DEF Counted, TriedRows, Tried

LEMMA ExecuteReadCounts ==
    ASSUME CaseTypeOK, RunsOK, NEW w \in Runs, ExecuteRead(w)
    PROVE  /\ OthersKept(w) /\ UNCHANGED rows
           /\ \/ run'[w].pc = "idle"
              \/ /\ run'[w].act \in RowIds /\ rows[run'[w].act].status \in Claimable
                 /\ rows[run'[w].act].decision = "ALLOW"
                 /\ run'[w].type = rows[run'[w].act].type
                 /\ run'[w].n = Attempts(run'[w].type)
                 /\ \/ run'[w].pc = "x_exhaust" /\ CeilingReached(run'[w].type)
                    \/ run'[w].pc = "x_claim"
<1> DEFINE r(i) == [run[w] EXCEPT
                      !.pc = IF CeilingReached(rows[i].type) THEN "x_exhaust" ELSE "x_claim",
                      !.act = i, !.type = rows[i].type, !.n = Attempts(rows[i].type),
                      !.decision = "null"]
<1>1. \A i \in RowIds :
        /\ r(i).act = i /\ r(i).type = rows[i].type /\ r(i).n = Attempts(rows[i].type)
        /\ CeilingReached(rows[i].type) => r(i).pc = "x_exhaust"
        /\ ~CeilingReached(rows[i].type) => r(i).pc = "x_claim"
  <2>1. run[w] \in RunState
    BY DEF RunsOK, RunTypeOK
  <2> QED
    BY <2>1 DEF RunState
<1>2. UNCHANGED rows
  BY DEF ExecuteRead, caseVars
<1>3. CASE Finish(w)
  BY <1>2, <1>3, FinishEffect DEF IdleRun
<1>4. CASE \E i \in RowIds : Executable(i) /\ run' = [run EXCEPT ![w] = r(i)]
  <2>1. PICK i \in RowIds : Executable(i) /\ run' = [run EXCEPT ![w] = r(i)]
    BY <1>4
  <2>2. rows[i].status \in Claimable /\ rows[i].decision = "ALLOW"
    BY <2>1 DEF Executable, IsNewest, Vetted
  <2> HIDE DEF r
  <2>3. OthersKept(w) /\ run'[w] = r(i)
    BY <2>1, UpdateEffect
  <2> QED
    BY <1>1, <1>2, <2>2, <2>3
<1>5. Finish(w) \/ \E i \in RowIds : Executable(i) /\ run' = [run EXCEPT ![w] = r(i)]
  BY DEF ExecuteRead
<1> QED
  BY <1>3, <1>4, <1>5

\* Between its claim and its record a run keeps its action and its count.
LEMMA ExecutionKeeps ==
    ASSUME RunsOK, NEW w \in Runs, ExecuteClaim(w) \/ ExecuteProgress(w) \/ ExecuteCall(w)
    PROVE  /\ OthersKept(w) /\ run[w].pc \in Counting
           /\ \/ run'[w].pc = "idle"
              \/ /\ run'[w].pc \in Recording /\ run'[w].act = run[w].act
                 /\ run'[w].type = run[w].type /\ run'[w].n = run[w].n
<1>1. ASSUME NEW pc \in Recording, Goto(w, pc)
      PROVE  /\ OthersKept(w) /\ run'[w].pc = pc /\ run'[w].act = run[w].act
             /\ run'[w].type = run[w].type /\ run'[w].n = run[w].n
  BY <1>1 DEF Goto, RunsOK, RunTypeOK, RunState, OthersKept
<1>2. CASE ExecuteClaim(w)
  <2>1. Goto(w, "x_progress") \/ Finish(w)
    BY <1>2 DEF ExecuteClaim
  <2> QED
    BY <1>1, <1>2, <2>1, FinishEffect DEF ExecuteClaim, At, IdleRun, Counting, Recording
<1>3. CASE ExecuteProgress(w)
  BY <1>1, <1>3 DEF ExecuteProgress, At, Counting, Recording
<1>4. CASE ExecuteCall(w)
  <2> DEFINE r(a) == [run[w] EXCEPT !.pc = "x_record", !.result = a]
  <2>1. \A a \in {"ok", "unsuccessful", "thrown"} :
           /\ r(a).pc = "x_record" /\ r(a).act = run[w].act
           /\ r(a).type = run[w].type /\ r(a).n = run[w].n
    BY DEF RunsOK, RunTypeOK, RunState
  <2>2. PICK a \in {"ok", "unsuccessful", "thrown"} : run' = [run EXCEPT ![w] = r(a)]
    BY <1>4 DEF ExecuteCall
  <2>3. run[w].pc = "x_call"
    BY <1>4 DEF ExecuteCall, At
  <2> HIDE DEF r
  <2>4. OthersKept(w) /\ run'[w] = r(a)
    BY <2>2, UpdateEffect
  <2> QED
    BY <2>1, <2>3, <2>4 DEF Counting, Recording
<1> QED
  BY <1>2, <1>3, <1>4

\* The run that steps may give the case up, or hold an action, only as the
\* invariant says.
ExhaustRun(w) == /\ OthersKept(w)
                 /\ run'[w].pc \in GivingUp => SomeUsedUp
                 /\ run'[w].pc \in Counting => Counted(w)'

LEMMA ExecutionExhausts ==
    ASSUME CaseTypeOK, RunsOK, SendInv, ExhaustInv, [Next]_vars, NEW w \in Runs,
           \/ ExecuteRead(w) \/ ExecuteClaim(w) \/ ExecuteProgress(w) \/ ExecuteCall(w)
           \/ ExecuteRecord(w)
    PROVE  ExhaustRun(w)
<1>1. CASE ExecuteRead(w)
  <2>1. CASE run'[w].pc = "idle"
    BY <1>1, <2>1, ExecuteReadCounts DEF ExhaustRun, GivingUp, Counting, Recording
  <2>2. CASE run'[w].pc # "idle"
    <3>1. PICK i \in RowIds, t \in ActionTypes :
             /\ OthersKept(w) /\ run'[w].act = i /\ run'[w].type = t
             /\ rows[i].status \in Claimable /\ rows[i].type = t
             /\ run'[w].n = Attempts(t) /\ rows' = rows
             /\ \/ run'[w].pc = "x_exhaust" /\ CeilingReached(t)
                \/ run'[w].pc = "x_claim"
      BY <1>1, <2>2, ExecuteReadCounts DEF Claimable, ExhaustInv, RowsTyped
    <3>2. run'[w].pc = "x_exhaust" => SomeUsedUp
      BY <3>1, CeilingIsUsedUp
    <3>3. run'[w].pc = "x_claim" => Counted(w)'
      <4>1. /\ RowsOf(t, Attempted) \in SUBSET (TriedRows(t) \ {i})
            /\ TriedRows(t) \ {i} \in SUBSET RowIds
        BY <3>1 DEF RowsOf, TriedRows, Tried, Claimable, Attempted
      <4>2. Attempts(t) <= Cardinality(TriedRows(t) \ {i})
        BY <4>1, RowsSubsetCount DEF Attempts
      <4>3. TriedRows(t)' = TriedRows(t)
        BY <3>1 DEF TriedRows, Tried
      <4>4. rows'[i].status # "NONE" /\ rows'[i].type = t
        BY <3>1 DEF Claimable
      <4> QED
        BY <3>1, <4>2, <4>3, <4>4 DEF Counted, TriedRows, Tried, Recording
    <3> QED
      BY <3>1, <3>2, <3>3 DEF ExhaustRun, GivingUp, Counting, Recording
  <2> QED
    BY <2>1, <2>2
<1>2. CASE ExecuteClaim(w) \/ ExecuteProgress(w) \/ ExecuteCall(w)
  <2>1. Counted(w) /\ OthersKept(w)
    BY <1>2, ExecutionKeeps DEF ExhaustInv
  <2>2. CASE run'[w].pc = "idle"
    BY <2>1, <2>2 DEF ExhaustRun, GivingUp, Counting, Recording
  <2>3. CASE run'[w].pc # "idle"
    <3>1. /\ run'[w].pc \in Recording /\ run'[w].act = run[w].act
          /\ run'[w].type = run[w].type /\ run'[w].n = run[w].n
      BY <1>2, <2>3, ExecutionKeeps
    <3>2. run[w].pc \in Recording \/ Tried(run[w].act)'
      <4>1. CASE ExecuteClaim(w)
        <5>1. Moved(run[w].act, "EXECUTING")
          BY <2>1, <2>3, <4>1, ClaimEffect DEF Counted
        <5> QED
          BY <3>1, <5>1 DEF Moved, Tried, Attempted
      <4>2. CASE ExecuteProgress(w) \/ ExecuteCall(w)
        BY <4>2, ProgressEffect, CallEffect DEF Recording
      <4> QED
        BY <1>2, <4>1, <4>2
    <3>3. Counted(w)'
      BY <2>1, <3>1, <3>2, CountedStays
    <3> QED
      BY <2>1, <3>1, <3>3 DEF ExhaustRun, GivingUp, Recording
  <2> QED
    BY <2>2, <2>3
<1>3. CASE ExecuteRecord(w)
  <2> DEFINE i == run[w].act
             t == run[w].type
  <2>1. /\ OthersKept(w) /\ run[w].pc = "x_record"
        /\ run'[w].pc \in {"idle", "x_out", "o_read"}
    BY <1>3, RecordEffect
  <2>2. Counted(w)
    BY <2>1 DEF ExhaustInv, Counting, Recording
  <2>3. run'[w].pc = "x_out" => AttemptsUsedUp(w)
    BY <1>3, FinishEffect, LeaveEffect DEF ExecuteRecord, IdleRun
  <2>4. ASSUME AttemptsUsedUp(w) PROVE SomeUsedUp
    <3>1. i \in RowIds /\ rows[i].type = t /\ rows[i].status # "NONE" /\ Tried(i)
      BY <2>1, <2>2 DEF Counted, Recording
    <3>2. t \in ActionTypes
      BY <3>1 DEF ExhaustInv, RowsTyped
    <3>3. i \in TriedRows(t) /\ IsFiniteSet(TriedRows(t)) /\ Cardinality(TriedRows(t)) \in Nat
      BY <3>1, UsedUpCounts, RowsCounted DEF TriedRows
    <3>4. Cardinality(TriedRows(t) \ {i}) = Cardinality(TriedRows(t)) - 1
      BY <3>3, FS_RemoveElement
    <3>5. run[w].n <= Cardinality(TriedRows(t)) - 1 /\ run[w].n \in Nat
      BY <2>2, <3>4 DEF Counted, RunsOK, RunTypeOK, RunState
    <3>6. run[w].n + 1 >= MaxAttempts(t) /\ MaxAttempts(t) \in Nat
      BY <2>4, <3>2, MaxAttemptsType DEF AttemptsUsedUp
    <3>7. Cardinality(TriedRows(t)) >= MaxAttempts(t)
      BY <3>3, <3>5, <3>6
    <3> QED
      BY <3>2, <3>7, UsedUpCounts DEF SomeUsedUp
  <2> QED
    BY <2>1, <2>3, <2>4 DEF ExhaustRun, GivingUp, Counting, Recording
<1> QED
  BY <1>1, <1>2, <1>3

LEMMA RunExhausts ==
    ASSUME CaseTypeOK, RunsOK, SendInv, ExhaustInv, [Next]_vars, NEW w \in Runs,
           RunStart(w) \/ RunStep(w)
    PROVE  /\ ExhaustRun(w)
           /\ status' = "EXHAUSTED" => status = "EXHAUSTED" \/ run[w].pc \in GivingUp
<1> DEFINE Stay == status' = "EXHAUSTED" => status = "EXHAUSTED" \/ run[w].pc \in GivingUp
<1>1. ASSUME NEW pcs, EndsOr(w, pcs), pcs \cap (GivingUp \cup Counting) = {}
      PROVE  ExhaustRun(w)
  BY <1>1 DEF EndsOr, ExhaustRun, IdleRun, GivingUp, Counting, Recording
<1>2. CASE RunStart(w)
  <2>1. OthersKept(w) /\ run'[w].pc \in {"s_find", "x_read", "o_read", "e_create"}
    BY <1>2, StartEffect
  <2>2. Stay
    BY <1>2, StartEffect DEF caseVars
  <2> QED
    BY <2>1, <2>2 DEF ExhaustRun, GivingUp, Counting, Recording
<1>3. CASE StrategyFind(w) \/ StrategyCreate(w)
  <2>1. Stay
    BY <1>3 DEF StrategyFind, StrategyCreate, AddRow, caseVars
  <2> QED
    BY <1>1, <1>3, <2>1, StrategyEffect DEF GivingUp, Counting, Recording
<1>4. CASE \/ PolicyReadCase(w) \/ PolicyCountAttempts(w) \/ PolicyFindApproved(w)
           \/ PolicyFindPending(w) \/ PolicyWriteDecision(w)
  <2>1. Stay
    BY <1>4 DEF PolicyReadCase, PolicyCountAttempts, PolicyFindApproved, PolicyFindPending,
                PolicyWriteDecision, SetRow, caseVars
  <2> QED
    BY <1>1, <1>4, <2>1, PolicyEffect DEF GivingUp, Counting, Recording
<1>5. CASE \/ ExecuteRead(w) \/ ExecuteClaim(w) \/ ExecuteProgress(w) \/ ExecuteCall(w)
           \/ ExecuteRecord(w)
  <2>1. Stay
    BY <1>5 DEF ExecuteRead, ExecuteClaim, ExecuteProgress, ExecuteCall, ExecuteRecord, SetRow,
                SetStatus, caseVars
  <2> QED
    BY <1>5, <2>1, ExecutionExhausts
<1>6. CASE ExecuteExhaust(w) \/ ExecuteGiveUp(w)
  <2>1. run[w].pc \in GivingUp
    BY <1>6 DEF ExecuteExhaust, ExecuteGiveUp, At, GivingUp
  <2>2. OthersKept(w) /\ run'[w].pc \in {"idle", "o_read"}
    BY <1>6, FinishEffect, LeaveEffect DEF ExecuteExhaust, ExecuteGiveUp, IdleRun
  <2> QED
    BY <2>1, <2>2 DEF ExhaustRun, GivingUp, Counting, Recording
<1>7. CASE ObserveRead(w)
  <2>1. /\ OthersKept(w)
        /\ run'[w].pc \in {"idle", "o_create", "o_close", "o_exhaust", "s_read", "e_create"}
    BY <1>7, ObserveEffect DEF EndsOr, IdleRun
  <2>2. run'[w].pc = "o_exhaust" => NoAttemptLeft
    <3>1. CASE Leave(w, AfterObserve(w, ~NoAttemptLeft))
      BY <3>1, LeaveKeeps, AfterObserveType DEF IdleRun
    <3>2. \/ Finish(w) \/ Goto(w, "o_create") \/ NoAttemptLeft
          \/ Leave(w, AfterObserve(w, ~NoAttemptLeft))
      BY <1>7 DEF ObserveRead
    <3> QED
      BY <3>1, <3>2, FinishEffect, GotoEffect DEF IdleRun
  <2>3. ASSUME NoAttemptLeft PROVE SomeUsedUp
    <3>1. PICK i \in RowIds : rows[i].status \in Attempted /\ CeilingReached(rows[i].type)
      BY <2>3 DEF NoAttemptLeft, IsNewest
    <3>2. rows[i].type \in ActionTypes
      BY <3>1 DEF Attempted, ExhaustInv, RowsTyped
    <3> QED
      BY <3>1, <3>2, CeilingIsUsedUp
  <2>4. Stay
    BY <1>7 DEF ObserveRead, caseVars
  <2> QED
    BY <2>1, <2>2, <2>3, <2>4 DEF ExhaustRun, GivingUp, Counting, Recording
<1>8. CASE ObserveCreateOutcome(w) \/ ObserveClose(w) \/ ObserveExhaust(w)
  <2>1. OthersKept(w) /\ run'[w].pc \in {"idle", "o_close", "s_read", "e_create"}
    <3>1. CASE ObserveExhaust(w)
      <4> DEFINE pc == AfterObserve(w, FALSE)
      <4>1. pc \in {"idle", "s_read", "e_create"} /\ Leave(w, pc)
        BY <3>1, AfterObserveType, Zenon DEF ObserveExhaust
      <4> HIDE DEF pc
      <4> QED
        BY <4>1, LeaveKeeps DEF IdleRun
    <3> QED
      BY <1>8, <3>1, FinishEffect, GotoEffect DEF ObserveCreateOutcome, ObserveClose, IdleRun
  <2>2. Stay
    BY <1>8 DEF ObserveCreateOutcome, ObserveClose, ObserveExhaust, At, SetStatus, caseVars, GivingUp
  <2> QED
    BY <2>1, <2>2 DEF ExhaustRun, GivingUp, Counting, Recording
<1>9. CASE \/ MaybeEscalateRead(w) \/ EscalateCreateAction(w) \/ EscalateSetStatus(w)
           \/ DeletePlaceholder(w)
  <2>1. Stay
    BY <1>9 DEF MaybeEscalateRead, EscalateCreateAction, EscalateSetStatus, DeletePlaceholder,
                AddRow, SetRow, SetStatus, caseVars
  <2> QED
    BY <1>1, <1>9, <2>1, EscalateEffect DEF GivingUp, Counting, Recording
<1>10. CASE AgentRetry(w)
  BY <1>1, <1>10, AgentRetryEffect DEF GivingUp, Counting, Recording, caseVars
<1>11. CASE ClientStops(w)
  <2>1. OthersKept(w) /\ UNCHANGED caseVars /\ (run'[w] = IdleRun \/ Unmoved(w))
    BY <1>11, ClientStopsEffect DEF LeftBehind, Unmoved
  <2>2. CASE run'[w] = IdleRun
    BY <2>1, <2>2 DEF ExhaustRun, IdleRun, GivingUp, Counting, Recording, caseVars
  <2>3. CASE Unmoved(w)
    <3>1. run'[w].pc \in Counting => Counted(w)'
      BY <2>3, CountedStays DEF ExhaustInv, Unmoved
    <3> QED
      BY <2>1, <2>3, <3>1 DEF ExhaustRun, ExhaustInv, Unmoved, caseVars
  <2> QED
    BY <2>1, <2>2, <2>3
<1> QED
  BY <1>2, <1>3, <1>4, <1>5, <1>6, <1>7, <1>8, <1>9, <1>10, <1>11 DEF RunStep

LEMMA RowsTypedStep ==
    ASSUME CaseTypeOK, RunsOK, ExhaustInv, [Next]_vars
    PROVE  RowsTyped'
<1> SUFFICES ASSUME NEW i \in RowIds, rows'[i].status # "NONE" PROVE rows'[i].type \in ActionTypes
  BY DEF RowsTyped
<1>1. CASE rows[i].status # "NONE"
  BY <1>1, RowsStay DEF ExhaustInv, RowsTyped
<1>2. CASE rows[i].status = "NONE"
  <2>1. ~Executed(i)
    BY <1>2 DEF Executed, ExhaustInv, Counting, Counted, Recording
  <2>2. ~Reviewed(i)
    BY <1>2 DEF Reviewed, ExhaustInv, ReviewsHold
  <2>3. ~Untouched(i) /\ ~Decided(i) /\ ~Dropped(i)
    BY <1>2 DEF Untouched, Decided, Dropped
  <2>4. Created(i)
    BY <2>1, <2>2, <2>3, StepWrites DEF Written
  <2> QED
    BY <2>4 DEF Created, ActionTypes, HandoffTypes
<1> QED
  BY <1>1, <1>2

\* A review holds a row that exists: it found the row, or it already held it.
LEMMA ReviewsHoldStep ==
    ASSUME CaseTypeOK, RunsOK, ReviewTypeOK, ReviewsHold, [Next]_vars
    PROVE  ReviewsHold'
<1> SUFFICES ASSUME NEW v \in Reviewers, review'[v].pc # "idle"
             PROVE  review'[v].act \in RowIds /\ rows'[review'[v].act].status # "NONE"
  BY DEF ReviewsHold
<1>1. ASSUME review[v].pc # "idle", review'[v].act = review[v].act
      PROVE  review'[v].act \in RowIds /\ rows'[review'[v].act].status # "NONE"
  BY <1>1, RowsStay DEF ReviewsHold
<1>2. CASE ReviewAction
  <2>1. PICK u \in Reviewers : ReviewStart(u) \/ ReviewStep(u)
    BY <1>2 DEF ReviewAction
  <2>2. CASE u # v
    <3>1. review'[v] = review[v]
      BY <2>1, <2>2
      DEF ReviewStart, ReviewStep, ApproveRead, RejectRead, ApproveWrite, ApproveReopen,
          RejectWrite, RejectStop, EndReview, ReviewTypeOK
    <3> QED
      BY <1>1, <3>1
  <2>3. CASE u = v /\ ReviewStart(v)
    <3>1. PICK i \in RowIds : ApproveRead(v, i) \/ RejectRead(v, i)
      BY <2>3 DEF ReviewStart
    <3>2. rows[i].status # "NONE" /\ rows' = rows
      BY <3>1 DEF ApproveRead, RejectRead, Reviewable, caseVars
    <3>3. review'[v].act = i
      BY <3>1 DEF ApproveRead, RejectRead, ReviewTypeOK
    <3> QED
      BY <3>2, <3>3
  <2>4. CASE u = v /\ ReviewStep(v)
    <3>1. review[v].pc # "idle" /\ (review'[v] = IdleReview \/ review'[v].act = review[v].act)
      BY <2>4
      DEF ReviewStep, ApproveWrite, ApproveReopen, RejectWrite, RejectStop, EndReview,
          ReviewTypeOK, ReviewState
    <3> QED
      BY <1>1, <3>1 DEF IdleReview
  <2> QED
    BY <2>1, <2>2, <2>3, <2>4
<1>3. CASE Crash
  BY <1>3 DEF Crash, IdleReview
<1>4. CASE UNCHANGED review
  BY <1>1, <1>4
<1> QED
  BY <1>2, <1>3, <1>4 DEF Next, RunAction, CustomerAction, HookAction, vars

LEMMA ExhaustInvStep ==
    ASSUME TypeInv, SendInv, ExhaustInv, [Next]_vars
    PROVE  ExhaustInv'
<1>1. CaseTypeOK /\ RunsOK /\ ReviewTypeOK
  BY DEF TypeInv, TypeOK, RunsOK
<1>2. RowsTyped' /\ ReviewsHold'
  BY <1>1, RowsTypedStep, ReviewsHoldStep DEF ExhaustInv
<1>3. SomeUsedUp => SomeUsedUp'
  BY <1>1, UsedUpStays
<1>4. ASSUME NEW u \in Runs, run'[u] = run[u]
      PROVE  /\ run'[u].pc \in GivingUp => SomeUsedUp'
             /\ run'[u].pc \in Counting => Counted(u)'
  BY <1>1, <1>3, <1>4, CountedStays DEF ExhaustInv
<1>5. CASE RunAction
  <2>1. PICK w \in Runs : RunStart(w) \/ RunStep(w)
    BY <1>5 DEF RunAction
  <2>2. /\ ExhaustRun(w)
        /\ status' = "EXHAUSTED" => status = "EXHAUSTED" \/ run[w].pc \in GivingUp
    BY <1>1, <2>1, RunExhausts
  <2>3. status' = "EXHAUSTED" => SomeUsedUp'
    BY <1>3, <2>2 DEF ExhaustInv, ExhaustedIsJustified, SomeUsedUp
  <2>4. ASSUME NEW u \in Runs
        PROVE  /\ run'[u].pc \in GivingUp => SomeUsedUp'
               /\ run'[u].pc \in Counting => Counted(u)'
    BY <1>3, <1>4, <2>2 DEF ExhaustRun, OthersKept
  <2> QED
    BY <1>2, <2>3, <2>4 DEF ExhaustInv, ExhaustedIsJustified, SomeUsedUp
<1>6. ASSUME status' = "EXHAUSTED" => status = "EXHAUSTED",
             \A u \in Runs : run'[u] = run[u] \/ run'[u] = IdleRun
      PROVE  ExhaustInv'
  <2>1. status' = "EXHAUSTED" => SomeUsedUp'
    BY <1>3, <1>6 DEF ExhaustInv, ExhaustedIsJustified, SomeUsedUp
  <2>2. ASSUME NEW u \in Runs
        PROVE  /\ run'[u].pc \in GivingUp => SomeUsedUp'
               /\ run'[u].pc \in Counting => Counted(u)'
    BY <1>4, <1>6 DEF IdleRun, GivingUp, Counting, Recording
  <2> QED
    BY <1>2, <2>1, <2>2 DEF ExhaustInv, ExhaustedIsJustified, SomeUsedUp
<1>7. CASE CustomerAction \/ HookAction \/ ReviewAction \/ UNCHANGED vars
  <2>1. UNCHANGED run
    BY <1>7 DEF CustomerAction, HookAction, ReviewAction, runVars, vars
  <2>2. status' = "EXHAUSTED" => status = "EXHAUSTED"
    BY <1>7
    DEF CustomerAction, HookAction, ReviewAction, vars, PayOrder, PayLink, Deliver, HookStep,
        CapturedRead, CapturedMark, MatchActiveCase, LinkPaidFind, CloseRead, CloseTransaction,
        ReviewStart, ReviewStep, ApproveRead, RejectRead, ApproveWrite, ApproveReopen, RejectWrite,
        RejectStop, SetRow, SetStatus, caseVars
  <2> QED
    BY <1>6, <2>1, <2>2
<1>8. CASE Crash
  BY <1>6, <1>8 DEF Crash, caseVars
<1> QED
  BY <1>5, <1>7, <1>8 DEF Next

LEMMA ExhaustInvariant == Spec => []ExhaustInv
<1>1. Init => ExhaustInv
  <2> SUFFICES ASSUME Init PROVE ExhaustInv
    OBVIOUS
  <2>1. \A i \in RowIds : rows[i].status = "NONE"
    BY DEF Init, CaseInit, NoRow
  <2>2. \A w \in Runs : run[w].pc = "idle"
    BY DEF Init, RunInit, IdleRun
  <2>3. \A v \in Reviewers : review[v].pc = "idle"
    BY DEF Init, ReviewInit, IdleReview
  <2>4. status # "EXHAUSTED"
    BY DEF Init, CaseInit
  <2> QED
    BY <2>1, <2>2, <2>3, <2>4
    DEF ExhaustInv, RowsTyped, ReviewsHold, ExhaustedIsJustified, GivingUp, Counting, Recording
<1>2. TypeInv /\ SendInv /\ [Next]_vars => SendInv'
  BY SendInvStep DEF TypeInv, TypeOK, RunsOK
<1>3. TypeInv /\ SendInv /\ ExhaustInv /\ [Next]_vars => ExhaustInv'
  BY ExhaustInvStep
<1> QED
  BY <1>1, <1>2, <1>3, TypeInvInit, TypeInvStep, SendInvInit, PTL DEF Spec

\* Races, late answers and restarts never make the system give up a case early:
\* when it reads EXHAUSTED, the attempts of some type really were used up.
THEOREM ExhaustionIsJustified == Spec => []ExhaustedIsJustified
<1>1. ExhaustInv => ExhaustedIsJustified
  BY DEF ExhaustInv
<1> QED
  BY <1>1, ExhaustInvariant, PTL

(***************************************************************************)
(* Stranded actions.  A run keeps the action it claimed until it recorded  *)
(* the answer, so that only a restart can leave one behind: at most one    *)
(* for each run that it forgets.                                           *)
(***************************************************************************)
LEMMA RecordingStays ==
    ASSUME RunsOK, [Next]_vars, ~Crash, NEW u \in Runs, run[u].pc \in Recording
    PROVE  Unmoved(u) \/ ExecuteProgress(u) \/ ExecuteCall(u) \/ ExecuteRecord(u)
<1>1. CASE RunAction
  <2>1. PICK w \in Runs : RunStart(w) \/ RunStep(w)
    BY <1>1 DEF RunAction
  <2>2. CASE u = w
    <3>1. ~RunStart(u)
      BY StartEffect DEF Recording
    <3>2. CASE ClientStops(u)
      BY <3>2, ClientStopsEffect DEF CallStarts, Recording, LeftBehind, Unmoved
    <3> QED
      BY <2>1, <2>2, <3>1, <3>2
      DEF Recording, At, RunStep, AgentRetry, StrategyFind, StrategyCreate, PolicyReadCase,
          PolicyCountAttempts, PolicyFindApproved, PolicyFindPending, PolicyWriteDecision,
          ExecuteRead, ExecuteExhaust, ExecuteClaim, ExecuteGiveUp, ObserveRead,
          ObserveCreateOutcome, ObserveClose, ObserveExhaust, MaybeEscalateRead,
          EscalateCreateAction, EscalateSetStatus, DeletePlaceholder
  <2>3. CASE u # w
    <3>1. OthersKept(w)
      BY <2>1, StartEffect, AgentRetryEffect, ClientStopsEffect, StrategyEffect, PolicyEffect,
         ExecuteEffect, ObserveEffect, EscalateEffect
      DEF RunStep, EndsOr
    <3> QED
      BY <2>3, <3>1 DEF OthersKept, Unmoved
  <2> QED
    BY <2>2, <2>3
<1>2. CASE CustomerAction \/ HookAction \/ ReviewAction \/ UNCHANGED vars
  BY <1>2 DEF CustomerAction, HookAction, ReviewAction, runVars, vars, Unmoved
<1> QED
  BY <1>1, <1>2 DEF Next

\* EXECUTING is written by a claim alone, and the claiming run then records.
LEMMA ClaimedByRun ==
    ASSUME CaseTypeOK, RunsOK, [Next]_vars, NEW i \in RowIds,
           rows'[i].status = "EXECUTING", rows[i].status # "EXECUTING"
    PROVE  \E w \in Runs : run'[w].pc \in Recording /\ run'[w].act = i
<1>1. CASE CoolStep
  BY <1>1 DEF CoolStep, CoolRow, Moved, Born, RuledOn
<1>2. ASSUME NEW w \in Runs, HotStep(w)
      PROVE  ExecuteClaim(w) /\ ~SameRows /\ ~(i # run[w].act /\ OnlyRow(run[w].act))
  BY <1>2, StrategyFindEffect, StrategyCreateEffect, ExecuteReadEffect, ClaimEffect, ProgressEffect,
     CallEffect, RecordEffect
  DEF HotStep, SameRows, OnlyRow, Born, Moved, Called
<1>3. CASE \E w \in Runs : HotStep(w)
  BY <1>2, <1>3, ClaimEffect DEF Recording
<1> QED
  BY <1>1, <1>3, StepCases

LEMMA StrandedStays ==
    ASSUME CaseTypeOK, RunsOK, [Next]_vars, ~Crash
    PROVE  Stranded' \subseteq Stranded
<1> SUFFICES ASSUME NEW i \in RowIds, i \in Stranded'
             PROVE  i \in Stranded
  BY DEF Stranded
<1>1. /\ rows'[i].status = "EXECUTING"
      /\ \A w \in Runs : run'[w].act = i => run'[w].pc \notin Recording
  BY DEF Stranded, Recording
<1>2. rows[i].status = "EXECUTING"
  BY <1>1, ClaimedByRun
<1>3. ASSUME NEW w \in Runs, run[w].act = i, run[w].pc \in Recording
      PROVE  FALSE
  <2>1. CASE Unmoved(w)
    BY <1>1, <1>3, <2>1 DEF Unmoved
  <2>2. CASE ExecuteProgress(w) \/ ExecuteCall(w)
    BY <1>1, <1>3, <2>2, ProgressEffect, CallEffect DEF Recording
  <2>3. CASE ExecuteRecord(w)
    BY <1>1, <1>3, <2>3, RecordEffect DEF Moved
  <2> QED
    BY <1>3, <2>1, <2>2, <2>3, RecordingStays
<1> QED
  BY <1>2, <1>3 DEF Stranded, Recording

LEMMA StrandedCounted ==
    /\ IsFiniteSet(Stranded) /\ Cardinality(Stranded) \in Nat
    /\ IsFiniteSet(Stranded') /\ Cardinality(Stranded') \in Nat
    /\ Cardinality(Runs) \in Nat
<1>1. Stranded \in SUBSET RowIds /\ Stranded' \in SUBSET RowIds
  BY DEF Stranded
<1> QED
  BY <1>1, RowsCounted, RunsAssumption, FS_CardinalityType

LEMMA CrashStrands ==
    ASSUME Crash
    PROVE  Cardinality(Stranded') <= Cardinality(Stranded) + Cardinality(Runs)
<1> DEFINE CutOff == {run[w].act : w \in Runs}
<1>1. IsFiniteSet(CutOff) /\ Cardinality(CutOff) <= Cardinality(Runs)
  <2> DEFINE f == [w \in Runs |-> run[w].act]
  <2>1. f \in Surjection(Runs, CutOff)
    BY DEF Surjection
  <2> HIDE DEF f, CutOff
  <2> QED
    BY <2>1, RunsAssumption, FS_Surjection
<1>2. Stranded' \subseteq Stranded \cup CutOff
  BY DEF Crash, caseVars, Stranded
<1> HIDE DEF CutOff
<1>3. /\ IsFiniteSet(Stranded \cup CutOff)
      /\ Cardinality(Stranded \cup CutOff)
           = Cardinality(Stranded) + Cardinality(CutOff) - Cardinality(Stranded \cap CutOff)
  BY <1>1, StrandedCounted, FS_Union
<1>4. Cardinality(Stranded \cap CutOff) \in Nat /\ Cardinality(CutOff) \in Nat
  BY <1>1, StrandedCounted, FS_Intersection, FS_CardinalityType
<1>5. Cardinality(Stranded') <= Cardinality(Stranded \cup CutOff)
  BY <1>2, <1>3, FS_Subset
<1> QED
  BY <1>1, <1>3, <1>4, <1>5, StrandedCounted

\* Without a restart no action stays EXECUTING with no run to record its result,
\* whatever the channel answers and however the runs race; a restart leaves behind
\* at most one for each run it cuts off.
THEOREM RestartsAloneStrand == Spec => []StrandedByRestarts
<1>1. Init => StrandedByRestarts
  <2> SUFFICES ASSUME Init PROVE StrandedByRestarts
    OBVIOUS
  <2>1. Stranded = {} /\ crashes = 0
    BY DEF Init, CaseInit, NoRow, Stranded
  <2> QED
    BY <2>1, FS_EmptySet, StrandedCounted DEF StrandedByRestarts
<1>2. TypeInv /\ StrandedByRestarts /\ [Next]_vars => StrandedByRestarts'
  <2> SUFFICES ASSUME TypeInv, StrandedByRestarts, [Next]_vars
               PROVE  StrandedByRestarts'
    OBVIOUS
  <2>1. crashes \in Nat /\ CaseTypeOK /\ RunsOK
    BY DEF TypeInv, TypeOK, RunsOK
  <2>2. CASE Crash
    <3>1. crashes' = crashes + 1
      BY <2>2 DEF Crash
    <3>2. crashes' * Cardinality(Runs) = crashes * Cardinality(Runs) + Cardinality(Runs)
      BY <2>1, <3>1, StrandedCounted
    <3> QED
      BY <2>2, <2>1, <3>2, CrashStrands, StrandedCounted DEF StrandedByRestarts
  <2>3. CASE ~Crash
    <3>1. crashes' = crashes
      BY <2>3 DEF Next, RunAction, CustomerAction, HookAction, ReviewAction, vars
    <3>2. Cardinality(Stranded') <= Cardinality(Stranded)
      BY <2>1, <2>3, StrandedStays, StrandedCounted, FS_Subset
    <3> QED
      BY <2>1, <3>1, <3>2, StrandedCounted DEF StrandedByRestarts
  <2> QED
    BY <2>2, <2>3
<1> QED
  BY <1>1, <1>2, TypeInvInit, TypeInvStep, PTL DEF Spec
=============================================================================
