----------------------- MODULE ApprovalVerdictProofs -----------------------
(***************************************************************************)
(* The approval gate implements ApprovalVerdict: every step it takes, with *)
(* all its copies, calls, retries and restarts, is a step of the abstract  *)
(* specification or none.  On the way: a run fails on a rejected task      *)
(* only, a rejection is for good, and a failed run never succeeds.         *)
(***************************************************************************)
EXTENDS ApprovalGateProofs

-----------------------------------------------------------------------------
(* The ways in which a step can change the task.                           *)

\* Nothing of the stored task changes; its age may grow.
TaskKept ==
    /\ UNCHANGED <<created, spec, status>>
    /\ \/ elapsed' = elapsed
       \/ elapsed' > elapsed /\ (created \/ pc = "decide")

TaskCreated ==
    /\ pc = "create"
    /\ created' = TRUE /\ spec' = InitialSpec /\ status' = NoStatus /\ elapsed' = 0

\* The first status is written.
StatusBegun ==
    /\ pc = "initStatus"
    /\ status' = InitialStatus
    /\ UNCHANGED <<created, spec, elapsed>>

\* The task is rejected for its age; the responses stay.
TaskExpired ==
    /\ pc = "decide" /\ elapsed > Timeout
    /\ status'.state = "rejected"
    /\ status'.received = status.received /\ status'.resp = status.resp /\ status'.member = status.member
    /\ UNCHANGED <<created, spec, elapsed>>

\* The status is computed from the stored spec.
TaskEvaluated ==
    /\ pc = "decide" /\ ~(elapsed > Timeout)
    /\ Responders(spec) # {}
    /\ status' = updateApprovalState(spec, status)
    /\ UNCHANGED <<created, spec, elapsed>>

\* A vote is admitted.
TaskVoted(u) ==
    /\ cli[u] # Idle
    /\ AdmitUpdate(spec, Edited(u), status, u)
    /\ spec' = Edited(u)
    /\ UNCHANGED <<created, status, elapsed>>

\* There are no others.  A status written from a fetched object is one of the
\* stored spec, for the API server refuses it otherwise.
LEMMA TaskSteps ==
    ASSUME TypeOK, CopyIsCurrent, [Next]_vars
    PROVE  \/ TaskKept \/ TaskCreated \/ StatusBegun \/ TaskExpired \/ TaskEvaluated
           \/ \E u \in Users : TaskVoted(u)
<1>1. CASE StartReconcile \/ GetApprovalTask \/ RefetchApprovalTask
  BY <1>1 DEF StartReconcile, GetApprovalTask, ReconcileEmpty, RefetchApprovalTask, taskVars, timeVars, TaskKept
<1>2. CASE CreateApprovalTask
  BY <1>2 DEF CreateApprovalTask, taskVars, TaskKept, TaskCreated
<1>3. CASE InitializeStatus
  BY <1>3 DEF InitializeStatus, TaskKept, StatusBegun
<1>4. CASE RejectOnTimeout
  <2>1. \/ status' = status
        \/ status' = [status EXCEPT !.state = "rejected"]
    BY <1>4 DEF RejectOnTimeout, StatusWritten, CopyIsCurrent
  <2>2. status \in StatusValue
    BY DEF TypeOK
  <2>. QED
    BY <1>4, <2>1, <2>2 DEF RejectOnTimeout, ApprovalTaskHasTimedOut, TaskKept, TaskExpired, StatusValue
<1>5. CASE EvaluateInputs
  <2>1. \/ status' = status
        \/ /\ Ctl \in holders /\ Responders(seen.spec) # {}
           /\ status' = updateApprovalState(seen.spec, seen.status)
    BY <1>5 DEF EvaluateInputs, StatusWritten
  <2>2. pc = "decide" /\ ~(elapsed > Timeout) /\ UNCHANGED <<created, spec, elapsed>>
    BY <1>5 DEF EvaluateInputs, ApprovalTaskHasTimedOut
  <2>. QED
    BY <2>1, <2>2 DEF CopyIsCurrent, TaskKept, TaskEvaluated
<1>6. CASE PropagateLabels \/ FinishReconcile
  BY <1>6 DEF PropagateLabels, FinishReconcile, taskVars, timeVars, TaskKept
<1>7. CASE CacheSync \/ Resync \/ TimerFires \/ Restart
  BY <1>7 DEF CacheSync, Resync, TimerFires, Restart, taskVars, TaskKept
<1>8. CASE Tick
  <2>1. UNCHANGED <<created, spec, status>>
    BY <1>8 DEF Tick, taskVars
  <2>2. elapsed' = elapsed \/ (elapsed' > elapsed /\ (created \/ pc = "decide"))
    BY <1>8 DEF Tick, Ageing, TypeOK
  <2>. QED
    BY <2>1, <2>2 DEF TaskKept
<1>9. ASSUME NEW u \in Users, Approve(u) \/ Reject(u)
      PROVE  TaskKept
  BY <1>9 DEF Approve, Reject, CliGet, timeVars, TaskKept
<1>10. ASSUME NEW u \in Users, CliUpdate(u)
       PROVE  TaskKept \/ TaskVoted(u)
  BY <1>10 DEF CliUpdate, Admitted, TaskKept, TaskVoted
<1>11. CASE UNCHANGED vars
  BY <1>11 DEF vars, taskVars, timeVars, TaskKept
<1>. QED
  BY <1>1, <1>2, <1>3, <1>4, <1>5, <1>6, <1>7, <1>8, <1>9, <1>10, <1>11 DEF Next, ReconcileStep

-----------------------------------------------------------------------------
(* The invariant that follows a rejection through the copies of the run,   *)
(* as IInv follows an approval.                                            *)

\* The steps of a reconcile before its outcome is known.
Working == {"get", "create", "refetch", "initStatus", "decide"}

\* A task is rejected for an input or for its age, both of which stay.
Grounded ==
    status.state = "rejected" => approvalTaskHasFalseInput(spec) \/ elapsed > Timeout

\* A task is approved with no input against it.
Uncontested == status.state = "approved" => ~approvalTaskHasFalseInput(spec)

\* How far task and reconcile have come together.
TaskPhases ==
    /\ ~created => status = NoStatus /\ elapsed = 0
    /\ pc \in {"refetch", "initStatus"} => created /\ status = NoStatus
    /\ pc = "decide" => created /\ seen.status = status

\* A reconcile that came past the validation works on an open run.
OpenWhileWorking ==
    /\ pc \in Working => orig.cond = "Unknown" /\ mine.cond = "Unknown" /\ params # "invalid"
    /\ pc = "labels" => orig.cond = "Unknown"
    /\ created => params # "invalid"

\* A failed run, stored, cached or in the controller's hands, has a reason.
FailedIsRejected ==
    \A r \in {run, cache, orig, mine} :
        r.cond = "False" => params = "invalid" \/ status.state = "rejected"

\* A success that the controller is about to report is the task's.
SucceededIsApproved == mine.cond = "True" => orig.cond = "True" \/ status.state = "approved"

\* A run that is done was started, so that a reconcile changes nothing of it.
DoneUntouched ==
    /\ run.cond # "Unknown" => run.started
    /\ cache.cond # "Unknown" => cache.started
    /\ orig.cond # "Unknown" => orig.started /\ mine = orig
    /\ pc # "idle" => mine.started
    /\ pc = "idle" => orig = NewRun /\ mine = NewRun

VInv ==
    /\ IInv
    /\ Grounded /\ Uncontested /\ TaskPhases /\ OpenWhileWorking
    /\ FailedIsRejected /\ SucceededIsApproved /\ DoneUntouched

\* Before any status is written a task is neither approved nor rejected.
LEMMA FirstStates ==
    /\ NoStatus.state \notin {"approved", "rejected"}
    /\ InitialStatus.state \notin {"approved", "rejected"}
  BY DEF NoStatus, InitialStatus

\* The states that evaluation can give.
LEMMA EvaluatedStates ==
    ASSUME NEW s, NEW st, Responders(s) # {}
    PROVE  updateApprovalState(s, st).state = NextState(s, st.state)
  BY DEF updateApprovalState

\* The initial spec has no input in it.
LEMMA InitialInputs ==
    /\ ~approvalTaskHasFalseInput(InitialSpec)
    /\ ApprovedUsers(InitialSpec) = {}
  BY DEF InitialSpec, approvalTaskHasFalseInput, ApprovedUsers

-----------------------------------------------------------------------------
(* Each part of the invariant is kept by every step.                       *)

\* The parameters of a run do not change.
LEMMA ParamsStay ==
    ASSUME [Next]_vars
    PROVE  params' = params
  BY DEF Next, ReconcileStep, StartReconcile, GetApprovalTask, ReconcileEmpty, CreateApprovalTask,
        RefetchApprovalTask, InitializeStatus, RejectOnTimeout, EvaluateInputs, PropagateLabels,
        FinishReconcile, CacheSync, Resync, TimerFires, Tick, Restart, Approve, Reject, CliGet,
        CliUpdate, vars, runVars

\* Whatever a rejection rests on stays: a rejected task takes no more votes,
\* and no task gets younger.
LEMMA KeepsGrounded ==
    ASSUME VInv, [Next]_vars
    PROVE  Grounded'
<1>. USE DEF VInv
<1>1. CASE TaskKept
  <2>1. elapsed > Timeout => elapsed' > Timeout
    BY <1>1, TimeoutType, NextKeepsType DEF TaskKept, IInv, TypeOK
  <2>. QED
    BY <1>1, <2>1 DEF TaskKept, Grounded
<1>2. CASE TaskCreated
  BY <1>2, FirstStates DEF TaskCreated, Grounded
<1>3. CASE StatusBegun
  BY <1>3, FirstStates DEF StatusBegun, Grounded
<1>4. CASE TaskExpired
  BY <1>4 DEF TaskExpired, Grounded
<1>5. CASE TaskEvaluated
  BY <1>5, EvaluatedStates DEF TaskEvaluated, NextState, Grounded
<1>6. ASSUME NEW u \in Users, TaskVoted(u)
      PROVE  Grounded'
  BY <1>6 DEF TaskVoted, AdmitUpdate, isApprovalRequired, Grounded
<1>. QED
  BY <1>1, <1>2, <1>3, <1>4, <1>5, <1>6, TaskSteps DEF IInv

\* An approved task takes no more votes either.
LEMMA KeepsUncontested ==
    ASSUME VInv, [Next]_vars
    PROVE  Uncontested'
<1>. USE DEF VInv, Uncontested
<1>1. CASE TaskKept
  BY <1>1 DEF TaskKept
<1>2. CASE TaskCreated
  BY <1>2, FirstStates DEF TaskCreated
<1>3. CASE StatusBegun
  BY <1>3, FirstStates DEF StatusBegun
<1>4. CASE TaskExpired
  BY <1>4 DEF TaskExpired
<1>5. CASE TaskEvaluated
  BY <1>5, EvaluatedStates DEF TaskEvaluated, NextState
<1>6. ASSUME NEW u \in Users, TaskVoted(u)
      PROVE  Uncontested'
  BY <1>6 DEF TaskVoted, AdmitUpdate, isApprovalRequired
<1>. QED
  BY <1>1, <1>2, <1>3, <1>4, <1>5, <1>6, TaskSteps DEF IInv

\* The task exists from its Create on; only the reconcile that created it
\* writes its first status, and only a reconcile writes any.
LEMMA KeepsTaskPhases ==
    ASSUME VInv, [Next]_vars
    PROVE  TaskPhases'
<1>. USE DEF VInv, TaskPhases
<1>1. CASE StartReconcile
  BY <1>1 DEF StartReconcile, Return, Goto, taskVars
<1>2. CASE GetApprovalTask
  BY <1>2 DEF GetApprovalTask, ReconcileEmpty, Return, Goto, timeVars
<1>3. CASE CreateApprovalTask
  BY <1>3 DEF CreateApprovalTask, Return, Goto, taskVars
<1>4. CASE RefetchApprovalTask
  BY <1>4 DEF RefetchApprovalTask, Return, Goto, timeVars
<1>5. CASE InitializeStatus
  <2>1. seen \in [spec : SpecValue, status : StatusValue]
    BY DEF IInv, TypeOK
  <2>2. [seen EXCEPT !.status = InitialStatus].status = InitialStatus
    BY <2>1
  <2>. QED
    BY <1>5, <2>2 DEF InitializeStatus, Return, Goto
<1>6. CASE RejectOnTimeout
  BY <1>6 DEF RejectOnTimeout, Return, Goto
<1>7. CASE EvaluateInputs
  BY <1>7 DEF EvaluateInputs, Return, Goto
<1>8. CASE PropagateLabels \/ FinishReconcile
  BY <1>8 DEF PropagateLabels, FinishReconcile, Return, Goto, taskVars, timeVars
<1>9. CASE CacheSync \/ Resync \/ TimerFires
  BY <1>9 DEF CacheSync, Resync, TimerFires, taskVars, locals
<1>10. CASE Tick
  BY <1>10 DEF Tick, Ageing, taskVars, locals
<1>11. CASE Restart
  BY <1>11 DEF Restart, Goto
<1>12. ASSUME NEW u \in Users, Approve(u) \/ Reject(u) \/ CliUpdate(u)
       PROVE  TaskPhases'
  BY <1>12 DEF Approve, Reject, CliGet, CliUpdate, timeVars, locals
<1>13. CASE UNCHANGED vars
  BY <1>13 DEF vars, taskVars, timeVars, locals
<1>. QED
  BY <1>1, <1>2, <1>3, <1>4, <1>5, <1>6, <1>7, <1>8, <1>9, <1>10, <1>11, <1>12, <1>13
     DEF Next, ReconcileStep

\* The run in the controller's hands is open until the outcome is known.
LEMMA KeepsOpenWhileWorking ==
    ASSUME TypeOK, OpenWhileWorking, [Next]_vars
    PROVE  OpenWhileWorking'
<1>. USE DEF OpenWhileWorking, Working
<1>1. params' = params
  BY ParamsStay
<1>2. CASE StartReconcile
  <2>1. created' = created /\ pc' # "labels"
    BY <1>2 DEF StartReconcile, Return, Goto, taskVars
  <2>2. cache \in RunValue
    BY DEF TypeOK
  <2>3. pc' \in Working =>
            params # "invalid" /\ cache.cond = "Unknown" /\ orig' = cache
            /\ mine' = [cache EXCEPT !.started = TRUE]
    BY <1>2, <2>2 DEF StartReconcile, Return, Goto, IsDone, RunValue
  <2>4. [cache EXCEPT !.started = TRUE].cond = cache.cond
    BY <2>2 DEF RunValue
  <2>. QED
    BY <1>1, <2>1, <2>3, <2>4
<1>3. CASE GetApprovalTask \/ RefetchApprovalTask
  BY <1>1, <1>3 DEF GetApprovalTask, ReconcileEmpty, RefetchApprovalTask, Return, Goto
<1>4. CASE CreateApprovalTask
  BY <1>1, <1>4 DEF CreateApprovalTask, Return, Goto, taskVars
<1>5. CASE InitializeStatus
  BY <1>1, <1>5 DEF InitializeStatus, Return, Goto
<1>6. CASE RejectOnTimeout \/ EvaluateInputs
  BY <1>1, <1>6 DEF RejectOnTimeout, EvaluateInputs, Return, Goto
<1>7. CASE PropagateLabels \/ FinishReconcile \/ Restart
  BY <1>1, <1>7 DEF PropagateLabels, FinishReconcile, Restart, Return, Goto, taskVars
<1>8. CASE CacheSync \/ Resync \/ TimerFires \/ Tick
  BY <1>1, <1>8 DEF CacheSync, Resync, TimerFires, Tick, taskVars, locals
<1>9. ASSUME NEW u \in Users, Approve(u) \/ Reject(u) \/ CliUpdate(u)
       PROVE  OpenWhileWorking'
  BY <1>1, <1>9 DEF Approve, Reject, CliGet, CliUpdate, locals
<1>10. CASE UNCHANGED vars
  BY <1>10 DEF vars, runVars, taskVars, locals
<1>. QED
  BY <1>2, <1>3, <1>4, <1>5, <1>6, <1>7, <1>8, <1>9, <1>10 DEF Next, ReconcileStep

\* A rejected task stays rejected.
LEMMA RejectionStays ==
    ASSUME VInv, [Next]_vars, status.state = "rejected"
    PROVE  status'.state = "rejected"
<1>. USE DEF VInv
<1>1. CASE TaskKept
  BY <1>1 DEF TaskKept
<1>2. CASE TaskCreated \/ StatusBegun
  BY <1>2, FirstStates DEF TaskCreated, StatusBegun, TaskPhases, IInv, NotCreatedYet
<1>3. CASE TaskExpired
  BY <1>3 DEF TaskExpired
<1>4. CASE TaskEvaluated
  BY <1>4, EvaluatedStates DEF TaskEvaluated, NextState, Grounded
<1>5. ASSUME NEW u \in Users, TaskVoted(u)
      PROVE  status'.state = "rejected"
  BY <1>5 DEF TaskVoted
<1>. QED
  BY <1>1, <1>2, <1>3, <1>4, <1>5, TaskSteps DEF IInv

\* The evaluation marks the run from the state that is then stored.
LEMMA EvaluationMarks ==
    ASSUME VInv, EvaluateInputs
    PROVE  mine' = mine \/ mine' = MarkRun(mine, status'.state)
<1>1. pc = "decide" /\ seen.status = status
  BY DEF EvaluateInputs, VInv, TaskPhases
<1>2. CASE Responders(seen.spec) # {}
  BY <1>2 DEF EvaluateInputs, StatusWritten
<1>3. CASE Responders(seen.spec) = {}
  <2>1. updateApprovalState(seen.spec, seen.status) = seen.status
    BY <1>3 DEF updateApprovalState
  <2>. QED
    BY <1>1, <1>3, <2>1 DEF EvaluateInputs
<1>. QED
  BY <1>2, <1>3

\* What MarkRun makes of an open run.
LEMMA MarkedRun ==
    ASSUME NEW r \in RunValue, NEW state
    PROVE  /\ MarkRun(r, state).started = r.started
           /\ MarkRun(r, state).cond = "True" => r.cond = "True" \/ state = "approved"
           /\ MarkRun(r, state).cond = "False" => r.cond = "False" \/ state = "rejected"
  BY DEF MarkRun, RunValue

\* A run becomes failed by invalid parameters or by a rejected task, and the
\* task stays rejected.
LEMMA KeepsFailedIsRejected ==
    ASSUME VInv, [Next]_vars
    PROVE  FailedIsRejected'
<1>. DEFINE Old == {run.cond, cache.cond, orig.cond, mine.cond}
            New == {run'.cond, cache'.cond, orig'.cond, mine'.cond}
            Reason == params = "invalid" \/ status'.state = "rejected"
<1>1. params' = params
  BY ParamsStay
<1>2. "False" \in Old => Reason
  BY RejectionStays DEF VInv, FailedIsRejected
<1>3. NewRun.cond = "Unknown"
  BY DEF NewRun
<1>4. ("False" \in New => "False" \in Old \/ Reason) => FailedIsRejected'
  BY <1>1, <1>2 DEF FailedIsRejected
<1>5. run \in RunValue /\ cache \in RunValue /\ orig \in RunValue /\ mine \in RunValue
  BY DEF VInv, IInv, TypeOK
<1>6. CASE StartReconcile
  <2>1. run' = run /\ cache' = cache /\ orig' = cache
    BY <1>6 DEF StartReconcile, runVars
  <2>2. mine'.cond = cache.cond \/ params = "invalid"
    BY <1>5, <1>6 DEF StartReconcile, RunValue
  <2>. QED
    BY <1>4, <2>1, <2>2
<1>7. CASE GetApprovalTask \/ CreateApprovalTask \/ RefetchApprovalTask \/ InitializeStatus
  BY <1>4, <1>7 DEF GetApprovalTask, ReconcileEmpty, CreateApprovalTask, RefetchApprovalTask, InitializeStatus, runVars
<1>8. CASE RejectOnTimeout
  <2>1. run' = run /\ cache' = cache /\ orig' = orig
    BY <1>8 DEF RejectOnTimeout, runVars
  <2>2. mine' = mine \/ status'.state = "rejected"
    BY <1>8 DEF RejectOnTimeout, StatusWritten, VInv, IInv, TypeOK, StatusValue
  <2>. QED
    BY <1>4, <2>1, <2>2
<1>9. CASE EvaluateInputs
  <2>1. run' = run /\ cache' = cache /\ orig' = orig
    BY <1>9 DEF EvaluateInputs, runVars
  <2>2. mine'.cond = "False" => mine.cond = "False" \/ status'.state = "rejected"
    BY <1>5, <1>9, EvaluationMarks, MarkedRun
  <2>. QED
    BY <1>4, <2>1, <2>2
<1>10. CASE PropagateLabels
  <2>1. cache' = cache /\ orig' = orig
    BY <1>10 DEF PropagateLabels
  <2>2. run'.cond = run.cond /\ mine'.cond = mine.cond
    BY <1>5, <1>10 DEF PropagateLabels, RunValue
  <2>. QED
    BY <1>4, <2>1, <2>2
<1>11. CASE FinishReconcile
  <2>1. cache' = cache /\ orig' = NewRun /\ mine' = NewRun
    BY <1>11 DEF FinishReconcile
  <2>2. run'.cond \in {run.cond, mine.cond}
    BY <1>5, <1>11 DEF FinishReconcile, RunValue
  <2>. QED
    BY <1>3, <1>4, <2>1, <2>2
<1>12. CASE CacheSync
  BY <1>4, <1>12 DEF CacheSync, locals
<1>13. CASE Restart
  BY <1>3, <1>4, <1>13 DEF Restart
<1>14. CASE Resync \/ TimerFires \/ Tick
  BY <1>4, <1>14 DEF Resync, TimerFires, Tick, runVars, locals
<1>15. CASE \E u \in Users : Approve(u) \/ Reject(u) \/ CliUpdate(u)
  BY <1>4, <1>15 DEF Approve, Reject, CliGet, CliUpdate, runVars, locals
<1>16. CASE UNCHANGED vars
  BY <1>4, <1>16 DEF vars, runVars, locals
<1>. QED
  BY <1>6, <1>7, <1>8, <1>9, <1>10, <1>11, <1>12, <1>13, <1>14, <1>15, <1>16 DEF Next, ReconcileStep

\* A reconcile reports success for a task it has found approved, or for a run
\* that it found succeeded.
LEMMA KeepsSucceededIsApproved ==
    ASSUME VInv, [Next]_vars
    PROVE  SucceededIsApproved'
<1>. USE DEF VInv, SucceededIsApproved
<1>1. run \in RunValue /\ cache \in RunValue /\ orig \in RunValue /\ mine \in RunValue
  BY DEF IInv, TypeOK
<1>2. NewRun.cond = "Unknown"
  BY DEF NewRun
<1>3. pc \in Working => mine.cond = "Unknown"
  BY DEF OpenWhileWorking
<1>4. CASE StartReconcile
  <2>1. mine'.cond = cache.cond \/ mine'.cond = "False"
    BY <1>1, <1>4 DEF StartReconcile, RunValue
  <2>. QED
    BY <1>4, <2>1 DEF StartReconcile
<1>5. CASE GetApprovalTask \/ CreateApprovalTask \/ RefetchApprovalTask \/ InitializeStatus
  BY <1>3, <1>5 DEF GetApprovalTask, ReconcileEmpty, CreateApprovalTask, RefetchApprovalTask, InitializeStatus, Working
<1>6. CASE RejectOnTimeout
  <2>1. mine'.cond \in {mine.cond, "False"}
    BY <1>1, <1>6 DEF RejectOnTimeout, RunValue
  <2>. QED
    BY <1>3, <1>6, <2>1 DEF RejectOnTimeout, Working
<1>7. CASE EvaluateInputs
  <2>1. mine'.cond = "True" => mine.cond = "True" \/ status'.state = "approved"
    BY <1>1, <1>7, EvaluationMarks, MarkedRun
  <2>. QED
    BY <1>3, <1>7, <2>1 DEF EvaluateInputs, Working
<1>8. CASE PropagateLabels
  <2>1. mine'.cond = mine.cond
    BY <1>1, <1>8 DEF PropagateLabels, RunValue
  <2>. QED
    BY <1>8, <2>1 DEF PropagateLabels, taskVars
<1>9. CASE FinishReconcile \/ Restart
  BY <1>2, <1>9 DEF FinishReconcile, Restart
<1>10. CASE CacheSync \/ Resync \/ TimerFires \/ Tick
  BY <1>10 DEF CacheSync, Resync, TimerFires, Tick, taskVars, locals
<1>11. CASE \E u \in Users : Approve(u) \/ Reject(u) \/ CliUpdate(u)
  BY <1>11 DEF Approve, Reject, CliGet, CliUpdate, locals
<1>12. CASE UNCHANGED vars
  BY <1>12 DEF vars, taskVars, locals
<1>. QED
  BY <1>4, <1>5, <1>6, <1>7, <1>8, <1>9, <1>10, <1>11, <1>12 DEF Next, ReconcileStep

\* The start time is set before anything else, and a done run is left alone.
LEMMA KeepsDoneUntouched ==
    ASSUME TypeOK, OpenWhileWorking, DoneUntouched, [Next]_vars
    PROVE  DoneUntouched'
<1>. USE DEF DoneUntouched
<1>1. run \in RunValue /\ cache \in RunValue /\ orig \in RunValue /\ mine \in RunValue
  BY DEF TypeOK
<1>2. NewRun.cond = "Unknown"
  BY DEF NewRun
<1>3. pc \in Working => orig.cond = "Unknown"
  BY DEF OpenWhileWorking
<1>4. CASE StartReconcile
  <2>1. run' = run /\ cache' = cache /\ orig' = cache /\ pc' # "idle"
    BY <1>4 DEF StartReconcile, Return, Goto, runVars
  <2>2. mine'.started
    BY <1>1, <1>4 DEF StartReconcile, RunValue
  <2>3. [cache EXCEPT !.started = TRUE].cond = cache.cond
    BY <1>1 DEF RunValue
  <2>4. cache.started => [cache EXCEPT !.started = TRUE] = cache
    BY <1>1 DEF RunValue
  <2>5. cache.cond # "Unknown" => mine' = cache
    BY <1>4, <2>3, <2>4 DEF StartReconcile, IsDone
  <2>. QED
    BY <2>1, <2>2, <2>5
<1>5. CASE GetApprovalTask \/ CreateApprovalTask \/ RefetchApprovalTask \/ InitializeStatus
  BY <1>5 DEF GetApprovalTask, ReconcileEmpty, CreateApprovalTask, RefetchApprovalTask, InitializeStatus,
        Return, Goto, runVars
<1>6. CASE RejectOnTimeout
  <2>1. run' = run /\ cache' = cache /\ orig' = orig /\ pc' # "idle" /\ orig.cond = "Unknown"
    BY <1>3, <1>6 DEF RejectOnTimeout, Return, Goto, runVars, Working
  <2>2. mine'.started
    BY <1>1, <1>6 DEF RejectOnTimeout, RunValue
  <2>. QED
    BY <2>1, <2>2
<1>7. CASE EvaluateInputs
  <2>1. run' = run /\ cache' = cache /\ orig' = orig /\ pc' # "idle" /\ orig.cond = "Unknown"
    BY <1>3, <1>7 DEF EvaluateInputs, Return, Goto, runVars, Working
  <2>2. mine.started
    BY <1>7 DEF EvaluateInputs
  <2>3. mine' = mine \/ \E state : mine' = MarkRun(mine, state)
    BY <1>7 DEF EvaluateInputs
  <2>4. mine'.started
    BY <1>1, <2>2, <2>3, MarkedRun
  <2>. QED
    BY <2>1, <2>4
<1>8. CASE PropagateLabels
  <2>1. cache' = cache /\ orig' = orig /\ pc' # "idle"
    BY <1>8 DEF PropagateLabels, Return, Goto
  <2>2. mine'.started /\ run'.cond = run.cond /\ run'.started = run.started
    BY <1>1, <1>8 DEF PropagateLabels, RunValue
  <2>3. orig.cond = "Unknown"
    BY <1>3, <1>8 DEF PropagateLabels, OpenWhileWorking, Working
  <2>. QED
    BY <2>1, <2>2, <2>3
<1>9. CASE FinishReconcile
  <2>1. cache' = cache /\ orig' = NewRun /\ mine' = NewRun /\ pc' = "idle"
    BY <1>9 DEF FinishReconcile, Goto
  <2>2. run'.cond # "Unknown" => run'.started
    BY <1>1, <1>9 DEF FinishReconcile, RunValue
  <2>. QED
    BY <1>2, <2>1, <2>2
<1>10. CASE Restart
  BY <1>2, <1>10 DEF Restart, Goto
<1>11. CASE CacheSync \/ Resync \/ TimerFires \/ Tick
  BY <1>11 DEF CacheSync, Resync, TimerFires, Tick, runVars, locals
<1>12. CASE \E u \in Users : Approve(u) \/ Reject(u) \/ CliUpdate(u)
  BY <1>12 DEF Approve, Reject, CliGet, CliUpdate, runVars, locals
<1>13. CASE UNCHANGED vars
  BY <1>13 DEF vars, runVars, locals
<1>. QED
  BY <1>4, <1>5, <1>6, <1>7, <1>8, <1>9, <1>10, <1>11, <1>12, <1>13 DEF Next, ReconcileStep

\* VInv holds at first and is kept by every step.
LEMMA InitVInv ==
    ASSUME Init
    PROVE  VInv
<1>1. Grounded /\ Uncontested
  BY FirstStates DEF Init, Grounded, Uncontested
<1>2. TaskPhases /\ OpenWhileWorking
  BY DEF Init, TaskPhases, OpenWhileWorking, Working
<1>3. FailedIsRejected /\ SucceededIsApproved /\ DoneUntouched
  BY DEF Init, FailedIsRejected, SucceededIsApproved, DoneUntouched, NewRun
<1>. QED
  BY <1>1, <1>2, <1>3, InitIInv DEF VInv

LEMMA KeepsVInv ==
    ASSUME VInv, [Next]_vars
    PROVE  VInv'
<1>1. IInv'
  BY KeepsIInv DEF VInv
<1>. QED
  BY <1>1, KeepsGrounded, KeepsUncontested, KeepsTaskPhases, KeepsOpenWhileWorking,
     KeepsFailedIsRejected, KeepsSucceededIsApproved, KeepsDoneUntouched DEF VInv, IInv

LEMMA VerdictInvariant == Spec => []VInv
<1>1. Init => VInv
  BY InitVInv
<1>2. VInv /\ [Next]_vars => VInv'
  BY KeepsVInv
<1>. QED
  BY <1>1, <1>2, PTL DEF Spec

-----------------------------------------------------------------------------
(* What it shows.                                                          *)

\* A failed run has a rejected task, unless its parameters were invalid.
LEMMA FailedHasTask ==
    ASSUME VInv
    PROVE  FailureMeansRejected
  BY FirstStates DEF VInv, FailedIsRejected, TaskPhases, FailureMeansRejected

\* A run whose parameters passed validation fails only on a rejected task: no
\* failed call, restart or stale copy marks a CustomRun failed before its
\* ApprovalTask is stored as rejected.
THEOREM FailureIsRejection == Spec => []FailureMeansRejected
<1>1. VInv => FailureMeansRejected
  BY FailedHasTask
<1>. QED
  BY <1>1, VerdictInvariant, PTL

\* A rejected task stays rejected: no vote that arrives afterwards and no
\* reconcile working from an older copy brings it back.
THEOREM RejectionIsPermanent == Spec => RejectedIsPermanent
<1>1. VInv /\ [Next]_vars => [status.state = "rejected" => status'.state = "rejected"]_vars
  BY RejectionStays
<1>. QED
  BY <1>1, VerdictInvariant, PTL DEF Spec, RejectedIsPermanent

\* How a step changes what the pipeline sees: the run's condition stays, or
\* becomes what the stored task says, or Unknown.
LEMMA TellSteps ==
    ASSUME VInv, [Next]_vars
    PROVE  \/ run'.cond = run.cond
           \/ /\ UNCHANGED <<spec, status, elapsed>>
              /\ \/ run'.cond = "Unknown"
                 \/ run'.cond = "True" /\ status.state = "approved"
                 \/ run'.cond = "False" /\ status.state = "rejected"
                 \/ run'.cond = "False" /\ params = "invalid"
<1>. USE DEF VInv
<1>1. run \in RunValue /\ orig \in RunValue /\ mine \in RunValue
  BY DEF IInv, TypeOK
<1>2. CASE FinishReconcile
  <2>1. UNCHANGED <<spec, status, elapsed>>
    BY <1>2 DEF FinishReconcile
  <2>2. CASE run' = run
    BY <2>2
  <2>3. CASE run' # run
    <3>1. run' = [mine EXCEPT !.labelled = run.labelled] /\ [mine EXCEPT !.labelled = orig.labelled] # orig
      BY <1>2, <2>3 DEF FinishReconcile
    <3>2. run'.cond = mine.cond /\ mine # orig
      BY <1>1, <3>1 DEF RunValue
    <3>3. orig.cond = "Unknown"
      BY <3>2 DEF DoneUntouched
    <3>4. mine.cond \in {"Unknown", "True", "False"}
      BY <1>1 DEF RunValue, Condition
    <3>5. mine.cond = "True" => status.state = "approved"
      BY <3>3 DEF SucceededIsApproved
    <3>6. mine.cond = "False" => params = "invalid" \/ status.state = "rejected"
      BY DEF FailedIsRejected
    <3>. QED
      BY <2>1, <3>2, <3>4, <3>5, <3>6
  <2>. QED
    BY <2>2, <2>3
<1>3. CASE PropagateLabels
  BY <1>1, <1>3 DEF PropagateLabels, RunValue
<1>4. CASE ~FinishReconcile /\ ~PropagateLabels
  BY <1>4 DEF Next, ReconcileStep, StartReconcile, GetApprovalTask, ReconcileEmpty, CreateApprovalTask,
        RefetchApprovalTask, InitializeStatus, RejectOnTimeout, EvaluateInputs,
        CacheSync, Resync, TimerFires, Tick, Restart, Approve, Reject, CliGet,
        CliUpdate, vars, runVars
<1>. QED
  BY <1>2, <1>3, <1>4

\* Success is told for an approved task, and a failed run's task is not.
LEMMA FailureStays ==
    ASSUME VInv, [Next]_vars, run.cond = "False"
    PROVE  run'.cond # "True"
<1>. SUFFICES ASSUME run'.cond = "True"
              PROVE  FALSE
  OBVIOUS
<1>1. status.state = "approved"
  BY TellSteps
<1>2. created /\ params # "invalid"
  BY <1>1, FirstStates DEF VInv, TaskPhases, OpenWhileWorking
<1>. QED
  BY <1>1, <1>2 DEF VInv, FailedIsRejected

\* A failed run never turns into a success, whichever copy of it a reconcile
\* works from.
THEOREM FailureIsPermanent == Spec => FailureNeverSucceeds
<1>1. VInv /\ [Next]_vars => [run.cond = "False" => run'.cond # "True"]_vars
  BY FailureStays
<1>. QED
  BY <1>1, VerdictInvariant, PTL DEF Spec, FailureNeverSucceeds

-----------------------------------------------------------------------------
(* The refinement.                                                         *)

\* The stored state, as a verdict.
Given == IF status.state \in {"approved", "rejected"} THEN status.state ELSE "open"

\* The grounds, one by one.
LEMMA Grounds ==
    /\ GroundsGiven \subseteq {"parameters", "rejection", "timeout"}
    /\ "parameters" \in GroundsGiven <=> params = "invalid"
    /\ "rejection" \in GroundsGiven <=> approvalTaskHasFalseInput(spec)
    /\ "timeout" \in GroundsGiven <=> elapsed > Timeout
  BY DEF GroundsGiven, approvalTaskHasFalseInput

\* And after a step.
LEMMA GroundsNext ==
    /\ GroundsGiven' \subseteq {"parameters", "rejection", "timeout"}
    /\ "parameters" \in GroundsGiven' <=> params' = "invalid"
    /\ "rejection" \in GroundsGiven' <=> approvalTaskHasFalseInput(spec')
    /\ "timeout" \in GroundsGiven' <=> elapsed' > Timeout
  BY DEF GroundsGiven, approvalTaskHasFalseInput

\* The approvals suffice in the abstract specification when they do for the
\* controller.
LEMMA SameCount == Verdict!Sufficient <=> Cardinality(ApprovedUsers(spec)) >= Required
  BY Zenon DEF Verdict!Sufficient, Verdict!Cardinality, Cardinality

\* A step after which the run's condition is another one tells the verdict,
\* or withdraws what was told.
LEMMA TellingStep ==
    ASSUME VInv, [Next]_vars, run'.cond # run.cond
    PROVE  Verdict!Tell \/ Verdict!Withdraw
<1>1. UNCHANGED <<spec, status, elapsed, params>>
  BY TellSteps, ParamsStay
<1>2. UNCHANGED <<ApprovedUsers(spec), GroundsGiven, Given>>
  BY <1>1 DEF GroundsGiven, Given
<1>3. params = "invalid" => Given = "open"
  BY FirstStates DEF VInv, TaskPhases, OpenWhileWorking, Given
<1>4. CASE run'.cond = "Unknown"
  BY <1>2, <1>4 DEF Verdict!Withdraw, Given
<1>5. CASE run'.cond = "True" /\ status.state = "approved"
  BY <1>2, <1>5 DEF Verdict!Tell, Given
<1>6. CASE run'.cond = "False" /\ status.state = "rejected"
  BY <1>2, <1>6 DEF Verdict!Tell, Given
<1>7. CASE run'.cond = "False" /\ params = "invalid"
  <2>1. "parameters" \in GroundsGiven
    BY <1>7, Grounds
  <2>. QED
    BY <1>2, <1>3, <1>7, <2>1 DEF Verdict!Tell, Given
<1>. QED
  BY <1>4, <1>5, <1>6, <1>7, TellSteps

\* A list that the webhook admits is a vote, whoever sends it: it arrives while
\* the task is open and the approvals do not suffice.
LEMMA VotingStep ==
    ASSUME NEW n, NEW u, AdmitUpdate(spec, n, status, u),
           UNCHANGED <<params, status, elapsed>>, run'.cond = run.cond
    PROVE  Verdict!Vote
<1>1. Given = "open" /\ Given' = Given /\ Cardinality(ApprovedUsers(spec)) < Required
  BY DEF AdmitUpdate, isApprovalRequired, Given
<1>2. ~Verdict!Sufficient
  BY <1>1, SameCount, CountType, RequiredPositive DEF countApprovalsReceived
<1>3. ApprovedUsers(spec)' \in SUBSET Users
  BY DEF ApprovedUsers
<1>4. \/ GroundsGiven' = GroundsGiven \ {"rejection"}
      \/ GroundsGiven' = GroundsGiven \cup {"rejection"}
  BY Grounds, GroundsNext
<1>. QED
  BY <1>1, <1>2, <1>3, <1>4 DEF Verdict!Vote, Given

\* A step after which the run's condition is the same gives a vote, a ground
\* or a verdict, or none of them.
LEMMA DecidingStep ==
    ASSUME VInv, [Next]_vars, run'.cond = run.cond
    PROVE  \/ UNCHANGED <<ApprovedUsers(spec), GroundsGiven, Given>>
           \/ Verdict!Vote \/ Verdict!Expire \/ Verdict!Grant \/ Verdict!Deny
<1>. USE DEF VInv
<1>1. params' = params
  BY ParamsStay
<1>2. CASE TaskKept
  <2>1. UNCHANGED <<ApprovedUsers(spec), Given>>
    BY <1>2 DEF TaskKept, Given
  <2>2. elapsed > Timeout => elapsed' > Timeout
    BY <1>2, TimeoutType, NextKeepsType DEF TaskKept, IInv, TypeOK
  <2>3. /\ "parameters" \in GroundsGiven' <=> "parameters" \in GroundsGiven
        /\ "rejection" \in GroundsGiven' <=> "rejection" \in GroundsGiven
        /\ "timeout" \in GroundsGiven => "timeout" \in GroundsGiven'
    BY <1>1, <1>2, <2>2, Grounds, GroundsNext DEF TaskKept
  <2>4. GroundsGiven' = GroundsGiven \/ GroundsGiven' = GroundsGiven \cup {"timeout"}
    <3>1. \A g \in {"parameters", "rejection"} : g \in GroundsGiven' <=> g \in GroundsGiven
      BY <2>3
    <3>2. CASE "timeout" \in GroundsGiven'
      BY <3>1, <3>2, <2>3, Grounds, GroundsNext, Zenon
    <3>3. CASE "timeout" \notin GroundsGiven'
      <4>1. "timeout" \notin GroundsGiven
        BY <2>3, <3>3
      <4>2. \A g : g \in GroundsGiven' <=> g \in GroundsGiven
        BY <3>1, <3>3, <4>1, Grounds, GroundsNext, Zenon
      <4>. QED
        BY <4>2, Zenon
    <3>. QED
      BY <3>2, <3>3
  <2>. QED
    BY <2>1, <2>4 DEF Verdict!Expire, Given
<1>3. CASE TaskCreated
  <2>1. UNCHANGED <<spec, status, elapsed>>
    BY <1>3 DEF TaskCreated, IInv, NotCreatedYet, TaskPhases
  <2>. QED
    BY <1>1, <2>1 DEF GroundsGiven, Given
<1>4. CASE StatusBegun
  <2>1. Given = "open" /\ Given' = "open"
    BY <1>4, FirstStates DEF StatusBegun, TaskPhases, Given
  <2>. QED
    BY <1>1, <1>4, <2>1 DEF StatusBegun, GroundsGiven
<1>5. CASE TaskExpired
  <2>1. Given' = "rejected" /\ UNCHANGED <<ApprovedUsers(spec), GroundsGiven>>
    BY <1>1, <1>5 DEF TaskExpired, GroundsGiven, Given
  <2>2. "timeout" \in GroundsGiven
    BY <1>5, Grounds DEF TaskExpired
  <2>. QED
    BY <2>1, <2>2 DEF Verdict!Deny, Given
<1>6. CASE TaskEvaluated
  <2>1. UNCHANGED <<ApprovedUsers(spec), GroundsGiven>>
    BY <1>1, <1>6 DEF TaskEvaluated, GroundsGiven
  <2>2. status'.state = NextState(spec, status.state)
    BY <1>6, EvaluatedStates DEF TaskEvaluated
  <2>3. CASE approvalTaskHasFalseInput(spec)
    <3>1. Given' = "rejected" /\ (Given = "open" \/ Given = "rejected")
      BY <2>2, <2>3 DEF NextState, Uncontested, Given
    <3>2. "rejection" \in GroundsGiven
      BY <2>3, Grounds
    <3>. QED
      BY <2>1, <3>1, <3>2 DEF Verdict!Deny, Given
  <2>4. CASE ~approvalTaskHasFalseInput(spec) /\ approvalTaskHasTrueInput(spec)
    <3>1. Given' = "approved" /\ (Given = "open" \/ Given = "approved")
      BY <1>6, <2>2, <2>4 DEF TaskEvaluated, NextState, Grounded, Given
    <3>2. "rejection" \notin GroundsGiven /\ Verdict!Sufficient
      BY <2>4, Grounds, SameCount DEF approvalTaskHasTrueInput, countApprovalsReceived
    <3>. QED
      BY <2>1, <3>1, <3>2 DEF Verdict!Grant, Given
  <2>5. CASE ~approvalTaskHasFalseInput(spec) /\ ~approvalTaskHasTrueInput(spec)
    BY <2>1, <2>2, <2>5 DEF NextState, Given
  <2>. QED
    BY <2>3, <2>4, <2>5
<1>7. ASSUME NEW u \in Users, TaskVoted(u)
      PROVE  Verdict!Vote
  BY <1>1, <1>7, VotingStep DEF TaskVoted
<1>. QED
  BY <1>2, <1>3, <1>4, <1>5, <1>6, <1>7, TaskSteps DEF IInv

\* At first nothing is given and nothing told.
LEMMA VerdictBegins ==
    ASSUME Init
    PROVE  Verdict!Init
<1>1. ApprovedUsers(spec) = {} /\ Given = "open" /\ run.cond = "Unknown"
  BY FirstStates, InitialInputs DEF Init, Given, NewRun
<1>2. elapsed = 0 /\ ~approvalTaskHasFalseInput(spec)
  BY InitialInputs DEF Init
<1>3. "rejection" \notin GroundsGiven /\ "timeout" \notin GroundsGiven
  BY <1>2, Grounds, TimeoutType
<1>4. GroundsGiven = {} \/ GroundsGiven = {"parameters"}
  BY <1>3, Grounds
<1>. QED
  BY <1>1, <1>4 DEF Verdict!Init, Given

\* The gate implements the abstract specification: the verdict is given on
\* enough approvals with nobody's input against it, or on a rejection or the
\* timeout, once and in that order, and the run is told nothing else.
THEOREM GateImplementsVerdict == Spec => ImplementsVerdict
<1>1. Init => Verdict!Init
  BY VerdictBegins
<1>2. VInv /\ [Next]_vars
        => [Verdict!Next]_<<ApprovedUsers(spec), GroundsGiven,
                IF status.state \in {"approved", "rejected"} THEN status.state ELSE "open", run.cond>>
  BY TellingStep, DecidingStep DEF Verdict!Next, Given
<1>. QED
  BY <1>1, <1>2, VerdictInvariant, PTL DEF Spec, ImplementsVerdict, Verdict!Spec
=============================================================================
