------------------------- MODULE ApprovalRestProofs -------------------------
(***************************************************************************)
(* What holds when the controller is at rest: a wake-up is armed, no vote  *)
(* was missed, every vote is recorded, and run and task tell the same      *)
(* story.  The argument follows one bit, the queue: whatever could make    *)
(* the outcome of the reconcile in progress out of date also queues the    *)
(* key again.                                                              *)
(***************************************************************************)
EXTENDS ApprovalVerdictProofs

-----------------------------------------------------------------------------
(* The wake-up.                                                            *)

\* Unless the key is queued again, the cache is as the reconcile read it.
CacheKnown == pc # "idle" /\ ~queue => cache = orig

\* A reconcile that returns nil has an outcome, one that asks to be called
\* again began with an open run.
OutcomeKnown ==
    /\ pc = "labels" => mine.cond # "Unknown"
    /\ pc = "finish" /\ result.kind = "nil" => mine.cond # "Unknown"
    /\ pc = "finish" /\ result.kind = "requeue" => orig.cond = "Unknown"

WakeInv == OpenWhileWorking /\ DoneUntouched /\ CacheKnown /\ OutcomeKnown /\ WakeupArmed

\* The kinds of the results.
LEMMA ResultKinds ==
    /\ Nil.kind = "nil"
    /\ Error.kind = "error"
    /\ WaitForTimeout.kind = "requeue"
    /\ \A n : Requeue(n).kind = "requeue" /\ Requeue(n).wait = n
  BY DEF Nil, Error, Requeue, WaitForTimeout

LEMMA KeepsCacheKnown ==
    ASSUME TypeOK, CacheKnown, [Next]_vars
    PROVE  CacheKnown'
<1>. USE DEF CacheKnown
<1>1. CASE StartReconcile
  BY <1>1 DEF StartReconcile, runVars
<1>2. CASE GetApprovalTask \/ RefetchApprovalTask
  BY <1>2 DEF GetApprovalTask, ReconcileEmpty, RefetchApprovalTask, runVars, timeVars
<1>3. CASE CreateApprovalTask
  BY <1>3 DEF CreateApprovalTask, TaskWritten, runVars, timeVars
<1>4. CASE InitializeStatus
  BY <1>4 DEF InitializeStatus, TaskWritten, runVars
<1>5. CASE RejectOnTimeout
  BY <1>5 DEF RejectOnTimeout, StatusWritten, TaskWritten, runVars
<1>6. CASE EvaluateInputs
  BY <1>6 DEF EvaluateInputs, StatusWritten, TaskWritten, runVars
<1>7. CASE PropagateLabels
  BY <1>7 DEF PropagateLabels, timeVars
<1>8. CASE FinishReconcile \/ Restart
  BY <1>8 DEF FinishReconcile, Restart, Goto
<1>9. CASE CacheSync \/ Resync \/ TimerFires \/ Tick
  BY <1>9 DEF CacheSync, Resync, TimerFires, Tick, runVars, locals
<1>10. ASSUME NEW u \in Users, Approve(u) \/ Reject(u) \/ CliUpdate(u)
       PROVE  CacheKnown'
  BY <1>10 DEF Approve, Reject, CliGet, CliUpdate, TaskWritten, runVars, timeVars, locals
<1>11. CASE UNCHANGED vars
  BY <1>11 DEF vars, runVars, timeVars, locals
<1>. QED
  BY <1>1, <1>2, <1>3, <1>4, <1>5, <1>6, <1>7, <1>8, <1>9, <1>10, <1>11 DEF Next, ReconcileStep

LEMMA KeepsOutcomeKnown ==
    ASSUME TypeOK, OpenWhileWorking, OutcomeKnown, [Next]_vars
    PROVE  OutcomeKnown'
<1>. USE DEF OutcomeKnown
<1>1. mine \in RunValue /\ cache \in RunValue
  BY DEF TypeOK
<1>2. pc \in Working => orig.cond = "Unknown"
  BY DEF OpenWhileWorking
<1>3. CASE StartReconcile
  <2>1. pc' = "finish" => result' = Nil /\ mine'.cond # "Unknown"
    BY <1>1, <1>3 DEF StartReconcile, Return, Goto, IsDone, RunValue
  <2>2. pc' # "labels"
    BY <1>3 DEF StartReconcile, Return, Goto
  <2>. QED
    BY <2>1, <2>2, ResultKinds
<1>4. CASE GetApprovalTask \/ CreateApprovalTask \/ RefetchApprovalTask \/ InitializeStatus
  <2>1. pc' # "labels" /\ orig' = orig /\ orig.cond = "Unknown"
    BY <1>2, <1>4 DEF GetApprovalTask, ReconcileEmpty, CreateApprovalTask, RefetchApprovalTask, InitializeStatus,
          Return, Goto, Working
  <2>2. pc' = "finish" => result' = Error \/ result' = Requeue(1)
    BY <1>4 DEF GetApprovalTask, ReconcileEmpty, CreateApprovalTask, RefetchApprovalTask, InitializeStatus, Return, Goto
  <2>. QED
    BY <2>1, <2>2, ResultKinds
<1>5. CASE RejectOnTimeout
  <2>1. pc' = "labels" => mine'.cond = "False"
    BY <1>1, <1>5 DEF RejectOnTimeout, Return, Goto, RunValue
  <2>2. pc' = "finish" => result' = Error
    BY <1>5 DEF RejectOnTimeout, Return, Goto
  <2>. QED
    BY <2>1, <2>2, ResultKinds
<1>6. CASE EvaluateInputs
  <2>1. pc' # "labels" /\ orig' = orig /\ orig.cond = "Unknown"
    BY <1>2, <1>6 DEF EvaluateInputs, Return, Goto, Working
  <2>2. result' = Error \/ result' = WaitForTimeout
    BY <1>6 DEF EvaluateInputs, Return
  <2>. QED
    BY <2>1, <2>2, ResultKinds
<1>7. CASE PropagateLabels
  <2>1. mine'.cond = mine.cond /\ pc' = "finish"
    BY <1>1, <1>7 DEF PropagateLabels, Return, Goto, RunValue
  <2>2. result' = Error \/ result' = Nil
    BY <1>7 DEF PropagateLabels, Return
  <2>3. mine.cond # "Unknown"
    BY <1>7 DEF PropagateLabels
  <2>. QED
    BY <2>1, <2>2, <2>3, ResultKinds
<1>8. CASE FinishReconcile \/ Restart
  BY <1>8 DEF FinishReconcile, Restart, Goto
<1>9. CASE CacheSync \/ Resync \/ TimerFires \/ Tick
  BY <1>9 DEF CacheSync, Resync, TimerFires, Tick, locals
<1>10. ASSUME NEW u \in Users, Approve(u) \/ Reject(u) \/ CliUpdate(u)
       PROVE  OutcomeKnown'
  BY <1>10 DEF Approve, Reject, CliGet, CliUpdate, locals
<1>11. CASE UNCHANGED vars
  BY <1>11 DEF vars, locals
<1>. QED
  BY <1>3, <1>4, <1>5, <1>6, <1>7, <1>8, <1>9, <1>10, <1>11 DEF Next, ReconcileStep

\* What a reconcile leaves behind when it ends with an open run and nothing
\* queued: it asked to be called again, and found the run open.
LEMMA OpenEnd ==
    ASSUME TypeOK, DoneUntouched, CacheKnown, OutcomeKnown,
           FinishReconcile, Quiescent', run'.cond = "Unknown"
    PROVE  /\ ~queue /\ result.kind = "requeue" /\ mine.cond = "Unknown"
           /\ AddAfter(result.wait) /\ faults' = faults
<1>1. run \in RunValue /\ mine \in RunValue /\ orig \in RunValue
  BY DEF TypeOK
<1>2. ~queue /\ result.kind # "error" /\ faults' = faults
  BY DEF FinishReconcile, Quiescent
<1>3. result.kind \in {"nil", "error", "requeue"}
  BY DEF TypeOK, Result
<1>4. cache' = cache /\ cache = orig /\ run' = cache
  BY <1>2 DEF FinishReconcile, Quiescent, CacheKnown
<1>5. mine.cond = "Unknown"
  <2>1. CASE [mine EXCEPT !.labelled = orig.labelled] # orig
    <3>1. run' = [mine EXCEPT !.labelled = run.labelled]
      BY <1>2, <2>1 DEF FinishReconcile, Quiescent
    <3>. QED
      BY <1>1, <3>1 DEF RunValue
  <2>2. CASE [mine EXCEPT !.labelled = orig.labelled] = orig
    BY <1>1, <1>4, <2>2 DEF RunValue
  <2>. QED
    BY <2>1, <2>2
<1>6. result.kind = "requeue"
  BY <1>2, <1>3, <1>5 DEF OutcomeKnown, FinishReconcile
<1>7. AddAfter(result.wait)
  BY <1>2, <1>6 DEF FinishReconcile, Quiescent
<1>. QED
  BY <1>2, <1>5, <1>6, <1>7

\* A pending delayed add is replaced by a sooner one only.
LEMMA Added ==
    ASSUME TypeOK, AddAfter(result.wait)
    PROVE  /\ timer' # NoTimer
           /\ result.wait \in 0 .. 1 => timer' \in 0 .. 1
<1>1. result.wait \in Nat /\ timer \in Int /\ (timer = NoTimer \/ timer \in Nat)
  BY TimeoutType DEF TypeOK, Result, NoTimer
<1>. QED
  BY <1>1 DEF AddAfter, NoTimer

\* Every step that takes the last wake-up away queues the key.
LEMMA KeepsWakeupArmed ==
    ASSUME TypeOK, WakeInv, [Next]_vars
    PROVE  WakeupArmed'
<1>. SUFFICES ASSUME Quiescent', run'.cond = "Unknown"
              PROVE  timer' # NoTimer
  BY DEF WakeupArmed
<1>. USE DEF WakeInv
<1>1. CASE FinishReconcile
  BY <1>1, OpenEnd, Added
<1>2. CASE ReconcileStep /\ ~FinishReconcile
  BY <1>2 DEF ReconcileStep, StartReconcile, GetApprovalTask, ReconcileEmpty, CreateApprovalTask,
        RefetchApprovalTask, InitializeStatus, RejectOnTimeout, EvaluateInputs, PropagateLabels,
        Return, Goto, Quiescent
<1>3. CASE CacheSync \/ Resync \/ TimerFires \/ Restart
  BY <1>3 DEF CacheSync, Resync, TimerFires, Restart, Quiescent
<1>4. CASE Tick
  <2>1. Quiescent /\ run.cond = "Unknown"
    BY <1>4 DEF Tick, runVars, Quiescent
  <2>2. timer # NoTimer /\ timer \in NoTimer .. Timeout + 1
    BY <2>1 DEF WakeupArmed, TypeOK
  <2>. QED
    BY <1>4, <2>2, TimeoutType DEF Tick, NoTimer
<1>5. ASSUME NEW u \in Users, Approve(u) \/ Reject(u) \/ CliUpdate(u)
      PROVE  timer' # NoTimer
  BY <1>5 DEF Approve, Reject, CliGet, CliUpdate, TaskWritten, Quiescent, runVars, timeVars, WakeupArmed
<1>6. CASE UNCHANGED vars
  BY <1>6 DEF vars, runVars, timeVars, Quiescent, WakeupArmed
<1>. QED
  BY <1>1, <1>2, <1>3, <1>4, <1>5, <1>6 DEF Next

\* WakeInv holds at first and is kept by every step.
LEMMA InitWakes ==
    ASSUME Init
    PROVE  WakeInv
  BY DEF Init, WakeInv, OpenWhileWorking, Working, DoneUntouched, NewRun, CacheKnown,
        OutcomeKnown, WakeupArmed, Quiescent

LEMMA KeepsWakeInv ==
    ASSUME TypeOK, WakeInv, [Next]_vars
    PROVE  WakeInv'
  BY KeepsOpenWhileWorking, KeepsDoneUntouched, KeepsCacheKnown, KeepsOutcomeKnown,
     KeepsWakeupArmed DEF WakeInv

\* At rest with an open run a delayed wake-up is armed, whatever calls failed
\* and whenever the controller was restarted: a run is never left waiting for
\* an event that need not come.
THEOREM WakeupIsArmed == Spec => []WakeupArmed
<1>1. Init => WakeInv
  BY InitWakes
<1>2. TypeOK /\ WakeInv /\ [Next]_vars => WakeInv'
  BY KeepsWakeInv
<1>3. WakeInv => WakeupArmed
  BY DEF WakeInv
<1>. QED
  BY <1>1, <1>2, <1>3, TypeCorrect, PTL DEF Spec

-----------------------------------------------------------------------------
(* Nothing is missed.                                                      *)

\* Unless the key is queued again, the controller decides on the stored spec.
SeenIsStored == pc = "decide" /\ ~queue => seen.spec = spec

\* As long as nobody has voted nothing is recorded.
Unrecorded == Responders(spec) = {} => \A u \in Users, i \in Pos : Recorded(status, u, i) = "none"

\* The stored inputs decide nothing, and the status is the record of them.
CaughtUp == Open(spec) /\ IsRecord(status, spec)

\* A reconcile that leaves the run open, with nothing queued, found nothing to
\* decide and recorded what there was, or a call failed and it comes back in
\* one tick.
OpenWasSeen ==
    pc = "finish" /\ ~queue /\ result.kind = "requeue" /\ mine.cond = "Unknown" =>
        CaughtUp \/ (faults > 0 /\ result.wait \in 0 .. 1)

\* The same at rest.
OpenAtRest ==
    Quiescent /\ run.cond = "Unknown" =>
        CaughtUp \/ (faults > 0 /\ timer \in 0 .. 1)

MissInv ==
    /\ TypeOK /\ WakeInv /\ Votes(spec) /\ Unrecorded
    /\ SeenIsStored /\ OpenWasSeen /\ OpenAtRest

\* The stored spec is the initial one or the outcome of commands.
LEMMA KeepsVotes ==
    ASSUME TypeOK, CopyIsCurrent, Votes(spec), [Next]_vars
    PROVE  Votes(spec')
<1>1. CASE spec' = spec
  BY <1>1
<1>2. CASE TaskCreated
  BY <1>2, InitialVotes DEF TaskCreated
<1>3. ASSUME NEW u \in Users, TaskVoted(u)
      PROVE  Votes(spec')
  <2>1. cli[u].input \in Decision
    BY <1>3 DEF TypeOK, TaskVoted, Command
  <2>. QED
    BY <1>3, <2>1, UpdateKeepsVotes DEF TypeOK, TaskVoted, Edited
<1>. QED
  BY <1>1, <1>2, <1>3, TaskSteps DEF TaskKept, StatusBegun, TaskExpired, TaskEvaluated

LEMMA KeepsSeenIsStored ==
    ASSUME SeenIsStored, [Next]_vars
    PROVE  SeenIsStored'
<1>. USE DEF SeenIsStored
<1>1. CASE GetApprovalTask
  BY <1>1 DEF GetApprovalTask, ReconcileEmpty, Return, Goto
<1>2. CASE InitializeStatus
  BY <1>2 DEF InitializeStatus, TaskWritten, Return, Goto
<1>3. CASE ReconcileStep /\ ~GetApprovalTask /\ ~InitializeStatus
  BY <1>3 DEF ReconcileStep, StartReconcile, CreateApprovalTask, RefetchApprovalTask,
        RejectOnTimeout, EvaluateInputs, PropagateLabels, FinishReconcile, Return, Goto
<1>4. CASE CacheSync \/ Resync \/ TimerFires \/ Tick \/ Restart
  BY <1>4 DEF CacheSync, Resync, TimerFires, Tick, Restart, Goto, taskVars, locals
<1>5. ASSUME NEW u \in Users, Approve(u) \/ Reject(u) \/ CliUpdate(u)
      PROVE  SeenIsStored'
  BY <1>5 DEF Approve, Reject, CliGet, CliUpdate, TaskWritten, timeVars, locals
<1>6. CASE UNCHANGED vars
  BY <1>6 DEF vars, taskVars, timeVars, locals
<1>. QED
  BY <1>1, <1>2, <1>3, <1>4, <1>5, <1>6 DEF Next

\* The first vote that is admitted brings a response.
LEMMA KeepsUnrecorded ==
    ASSUME TypeOK, CopyIsCurrent, Votes(spec), Unrecorded, [Next]_vars
    PROVE  Unrecorded'
<1>. SUFFICES ASSUME Responders(spec') = {}, NEW u \in Users, NEW i \in Pos
              PROVE  Recorded(status', u, i) = "none"
  BY DEF Unrecorded, Recorded, Responders, ApproverResponse, GroupMembers, ProcessedUserApprovers
<1>1. CASE TaskKept
  BY <1>1 DEF TaskKept, Unrecorded
<1>2. CASE TaskCreated \/ StatusBegun
  BY <1>2, NothingRecorded DEF TaskCreated, StatusBegun
<1>3. CASE TaskExpired
  <2>1. Recorded(status', u, i) = Recorded(status, u, i) /\ spec' = spec
    BY <1>3 DEF TaskExpired, Recorded
  <2>. QED
    BY <2>1 DEF Unrecorded
<1>4. CASE TaskEvaluated
  BY <1>4 DEF TaskEvaluated
<1>5. ASSUME NEW v \in Users, TaskVoted(v)
      PROVE  FALSE
  <2>1. spec' \in SpecValue /\ Votes(spec')
    BY NextKeepsType, KeepsVotes DEF TypeOK
  <2>2. IsUserApprovalChanged(spec, spec', v)
    BY <1>5 DEF TaskVoted, AdmitUpdate
  <2>. QED
    BY <2>1, <2>2, AdmittedResponds
<1>. QED
  BY <1>1, <1>2, <1>3, <1>4, <1>5, TaskSteps

LEMMA CaughtUpStays ==
    ASSUME UNCHANGED <<spec, status>>
    PROVE  CaughtUp' <=> CaughtUp
  BY DEF CaughtUp, Open, Quorum, approvalTaskHasFalseInput, countApprovalsReceived, ApprovedUsers,
        IsRecord, Recorded, Ballot

\* The evaluation leaves a run open only if the stored inputs are.
LEMMA EvaluationDecides ==
    ASSUME MissInv, EvaluateInputs, ~queue', mine'.cond = "Unknown", result'.kind = "requeue"
    PROVE  Open(spec)
<1>. SUFFICES ASSUME ~Open(spec)
              PROVE  FALSE
  OBVIOUS
<1>. DEFINE st == updateApprovalState(spec, seen.status)
<1>1. queue' = queue \/ queue' = TRUE
  BY DEF EvaluateInputs, StatusWritten, TaskWritten
<1>2. seen.spec = spec
  BY <1>1 DEF MissInv, SeenIsStored, EvaluateInputs
<1>3. Responders(spec) # {} /\ HashChanged(spec) /\ st.state \in {"approved", "rejected"}
  BY DecidedSpec, EvaluatedStates DEF MissInv, TypeOK
<1>. HIDE DEF st
<1>4. mine' = MarkRun(mine, st.state)
  BY <1>2, <1>3, ResultKinds DEF EvaluateInputs, Return, st
<1>5. mine \in RunValue
  BY DEF MissInv, TypeOK
<1>. QED
  BY <1>3, <1>4, <1>5 DEF MarkRun, RunValue

\* It brings the record up to date, unless the key is queued again.
LEMMA EvaluationIsRecord ==
    ASSUME MissInv, EvaluateInputs, ~queue', result'.kind = "requeue"
    PROVE  IsRecord(status', spec)
<1>1. queue' = queue \/ queue' = TRUE
  BY DEF EvaluateInputs, StatusWritten, TaskWritten
<1>2. seen.spec = spec /\ Votes(spec) /\ spec \in SpecValue
  BY <1>1 DEF MissInv, SeenIsStored, EvaluateInputs, TypeOK
<1>3. result' # Error
  BY ResultKinds
<1>4. CASE Responders(spec) = {}
  <2>1. status' = status
    BY <1>2, <1>3, <1>4 DEF EvaluateInputs, Return
  <2>2. \A u \in Users, i \in Pos : Recorded(status, u, i) = "none"
    BY <1>4 DEF MissInv, Unrecorded
  <2>3. \A u \in Users, i \in Pos : Respond(Ballot(spec, u, i)) = "none"
    BY <1>2, <1>4, UnansweredBallots, Responds
  <2>. QED
    BY <2>1, <2>2, <2>3 DEF IsRecord
<1>5. CASE Responders(spec) # {}
  <2>1. HashChanged(spec)
    <3>1. Responders(InitialSpec) = {}
      BY DEF Responders, ApproverResponse, GroupMembers, InitialSpec, Respond, Decision
    <3>. QED
      BY <1>5, <3>1 DEF HashChanged
  <2>2. status' = updateApprovalState(spec, seen.status)
    BY <1>2, <1>3, <1>5, <2>1 DEF EvaluateInputs, Return, StatusWritten
  <2>. QED
    BY <1>2, <1>5, <2>2, EvaluationRecords
<1>. QED
  BY <1>4, <1>5

LEMMA KeepsOpenWasSeen ==
    ASSUME MissInv, [Next]_vars
    PROVE  OpenWasSeen'
<1>. SUFFICES ASSUME pc' = "finish", ~queue', result'.kind = "requeue", mine'.cond = "Unknown"
              PROVE  CaughtUp' \/ (faults' > 0 /\ result'.wait \in 0 .. 1)
  BY DEF OpenWasSeen
<1>1. CASE GetApprovalTask
  <2>1. result' = Requeue(1) /\ faults' = faults + 1
    BY <1>1 DEF GetApprovalTask, ReconcileEmpty, CallFails, Return, Goto
  <2>2. faults \in Nat
    BY BoundsType DEF MissInv, TypeOK
  <2>. QED
    BY <2>1, <2>2, ResultKinds
<1>2. CASE EvaluateInputs
  <2>1. spec' = spec
    BY <1>2 DEF EvaluateInputs
  <2>2. Open(spec) /\ IsRecord(status', spec)
    BY <1>2, EvaluationDecides, EvaluationIsRecord
  <2>3. Open(spec') /\ IsRecord(status', spec')
    BY <2>1, <2>2
  <2>. QED
    BY <2>3 DEF CaughtUp, Open, Quorum, approvalTaskHasFalseInput, countApprovalsReceived,
          ApprovedUsers, IsRecord, Recorded, Ballot
<1>3. CASE ReconcileStep /\ ~GetApprovalTask /\ ~EvaluateInputs
  <2>1. CASE StartReconcile
    BY <2>1, ResultKinds DEF StartReconcile, Return, Goto
  <2>2. CASE CreateApprovalTask \/ RefetchApprovalTask \/ InitializeStatus \/ RejectOnTimeout
    BY <2>2, ResultKinds DEF CreateApprovalTask, RefetchApprovalTask, InitializeStatus,
          RejectOnTimeout, Return, Goto
  <2>3. CASE PropagateLabels \/ FinishReconcile
    BY <2>3, ResultKinds DEF PropagateLabels, FinishReconcile, Return, Goto
  <2>. QED
    BY <1>3, <2>1, <2>2, <2>3 DEF ReconcileStep
<1>4. CASE CacheSync \/ Resync \/ TimerFires \/ Tick \/ Restart
  BY <1>4, CaughtUpStays DEF CacheSync, Resync, TimerFires, Tick, Restart, Goto, taskVars, locals,
        MissInv, OpenWasSeen
<1>5. ASSUME NEW u \in Users, Approve(u) \/ Reject(u) \/ CliUpdate(u)
      PROVE  CaughtUp' \/ (faults' > 0 /\ result'.wait \in 0 .. 1)
  BY <1>5, CaughtUpStays DEF Approve, Reject, CliGet, CliUpdate, TaskWritten, timeVars, locals,
        MissInv, OpenWasSeen
<1>6. CASE UNCHANGED vars
  BY <1>6, CaughtUpStays DEF vars, taskVars, timeVars, locals, MissInv, OpenWasSeen
<1>. QED
  BY <1>1, <1>2, <1>3, <1>4, <1>5, <1>6 DEF Next

LEMMA KeepsOpenAtRest ==
    ASSUME MissInv, [Next]_vars
    PROVE  OpenAtRest'
<1>. SUFFICES ASSUME Quiescent', run'.cond = "Unknown"
              PROVE  CaughtUp' \/ (faults' > 0 /\ timer' \in 0 .. 1)
  BY DEF OpenAtRest
<1>. USE DEF MissInv
<1>1. CASE FinishReconcile
  <2>1. /\ ~queue /\ result.kind = "requeue" /\ mine.cond = "Unknown"
        /\ AddAfter(result.wait) /\ faults' = faults
    BY <1>1, OpenEnd DEF WakeInv
  <2>2. CaughtUp \/ (faults > 0 /\ result.wait \in 0 .. 1)
    BY <1>1, <2>1 DEF OpenWasSeen, FinishReconcile
  <2>3. CaughtUp' <=> CaughtUp
    BY <1>1, CaughtUpStays DEF FinishReconcile
  <2>. QED
    BY <2>1, <2>2, <2>3, Added
<1>2. CASE ReconcileStep /\ ~FinishReconcile
  BY <1>2 DEF ReconcileStep, StartReconcile, GetApprovalTask, ReconcileEmpty, CreateApprovalTask,
        RefetchApprovalTask, InitializeStatus, RejectOnTimeout, EvaluateInputs, PropagateLabels,
        Return, Goto, Quiescent
<1>3. CASE CacheSync \/ Resync \/ TimerFires \/ Restart
  BY <1>3 DEF CacheSync, Resync, TimerFires, Restart, Quiescent
<1>4. CASE Tick
  <2>1. Quiescent /\ run.cond = "Unknown" /\ (CaughtUp' <=> CaughtUp) /\ faults' = faults
    BY <1>4, CaughtUpStays DEF Tick, runVars, taskVars, Quiescent
  <2>2. timer \in 0 .. 1 => timer' \in 0 .. 1
    BY <1>4 DEF Tick
  <2>. QED
    BY <2>1, <2>2 DEF OpenAtRest
<1>5. ASSUME NEW u \in Users, Approve(u) \/ Reject(u) \/ CliUpdate(u)
      PROVE  CaughtUp' \/ (faults' > 0 /\ timer' \in 0 .. 1)
  BY <1>5, CaughtUpStays
     DEF Approve, Reject, CliGet, CliUpdate, TaskWritten, Quiescent, runVars, timeVars, OpenAtRest
<1>6. CASE UNCHANGED vars
  BY <1>6, CaughtUpStays DEF vars, runVars, taskVars, timeVars, Quiescent, OpenAtRest
<1>. QED
  BY <1>1, <1>2, <1>3, <1>4, <1>5, <1>6 DEF Next

\* MissInv holds at first and is kept by every step.
LEMMA InitMissInv ==
    ASSUME Init
    PROVE  MissInv
<1>1. SeenIsStored /\ OpenWasSeen /\ OpenAtRest
  BY DEF Init, SeenIsStored, OpenWasSeen, OpenAtRest, Quiescent
<1>2. Votes(spec)
  BY InitialVotes DEF Init
<1>3. status \in {NoStatus, InitialStatus}
  BY DEF Init
<1>4. Unrecorded
  BY <1>3, NothingRecorded DEF Unrecorded
<1>. QED
  BY <1>1, <1>2, <1>4, InitIsTyped, InitWakes DEF MissInv

LEMMA KeepsMissInv ==
    ASSUME IInv, MissInv, [Next]_vars
    PROVE  MissInv'
<1>1. TypeOK' /\ WakeInv'
  BY NextKeepsType, KeepsWakeInv DEF MissInv
<1>2. Votes(spec)'
  BY KeepsVotes DEF MissInv, IInv, Votes, LinesAreVotes, InputsAreVotes
<1>3. Unrecorded'
  BY KeepsUnrecorded DEF MissInv, IInv
<1>. QED
  BY <1>1, <1>2, <1>3, KeepsSeenIsStored, KeepsOpenWasSeen, KeepsOpenAtRest DEF MissInv

LEMMA MissInvariant == Spec => []MissInv
<1>1. Init => MissInv
  BY InitMissInv
<1>2. IInv /\ MissInv /\ [Next]_vars => MissInv'
  BY KeepsMissInv
<1>. QED
  BY <1>1, <1>2, InductiveInvariant, PTL DEF Spec

\* What the invariant says of ballots.
LEMMA OpenBallots ==
    ASSUME MissInv
    PROVE  NothingMissed
<1>. SUFFICES ASSUME Open(spec)
              PROVE  (\A i \in Pos : spec.input[i] # "reject") /\ ~EnoughApprovals(spec)
  BY DEF MissInv, OpenAtRest, CaughtUp, NothingMissed
<1>1. \A i \in Pos : spec.input[i] # "reject"
  BY DEF Open, approvalTaskHasFalseInput
<1>2. ApprovedUsers(spec) = Approving(spec)
  BY OpenCount DEF MissInv, TypeOK, Open
<1>. QED
  BY <1>1, <1>2 DEF Open, Quorum, countApprovalsReceived, EnoughApprovals

\* At rest with an open run the controller has missed nothing: the ballots
\* decide neither way, or, after a failed call, it looks again within a tick.
THEOREM NothingIsMissed == Spec => []NothingMissed
<1>1. MissInv => NothingMissed
  BY OpenBallots
<1>. QED
  BY <1>1, MissInvariant, PTL

-----------------------------------------------------------------------------
(* Run and task settle together.                                           *)

\* A controller that holds a decided task holds it as it is stored: such a
\* task takes no votes, and nobody else writes its status.
DecidedIsSeen == pc = "decide" /\ status.state \in {"approved", "rejected"} => Ctl \in holders

\* The run's condition once the reconcile in progress has written what it
\* has to write.
StatusChanged == [mine EXCEPT !.labelled = orig.labelled] # orig
DueCondition  == IF pc \in {"labels", "finish"} /\ StatusChanged THEN mine.cond ELSE run.cond

Agree(cond, state) == /\ cond = "True"  <=> state = "approved"
                      /\ cond = "False" <=> state = "rejected"

\* As long as nothing has failed, what is due agrees with the task.
Settled == created /\ faults = 0 => Agree(DueCondition, status.state)

SettleInv == VInv /\ Votes(spec) /\ OutcomeKnown /\ DecidedIsSeen /\ Settled

LEMMA KeepsDecidedIsSeen ==
    ASSUME VInv, DecidedIsSeen, [Next]_vars
    PROVE  DecidedIsSeen'
<1>. USE DEF DecidedIsSeen
<1>1. CASE GetApprovalTask
  BY <1>1 DEF GetApprovalTask, ReconcileEmpty, Return, Goto
<1>2. CASE InitializeStatus
  BY <1>2, FirstStates DEF InitializeStatus, Return, Goto
<1>3. CASE ReconcileStep /\ ~GetApprovalTask /\ ~InitializeStatus
  BY <1>3 DEF ReconcileStep, StartReconcile, CreateApprovalTask, RefetchApprovalTask,
        RejectOnTimeout, EvaluateInputs, PropagateLabels, FinishReconcile, Return, Goto
<1>4. CASE CacheSync \/ Resync \/ TimerFires \/ Tick \/ Restart
  BY <1>4 DEF CacheSync, Resync, TimerFires, Tick, Restart, Goto, taskVars, locals
<1>5. ASSUME NEW u \in Users, Approve(u) \/ Reject(u)
      PROVE  DecidedIsSeen'
  BY <1>5 DEF Approve, Reject, CliGet, locals
<1>6. ASSUME NEW u \in Users, CliUpdate(u)
      PROVE  DecidedIsSeen'
  BY <1>6, CtlIsNoUser DEF CliUpdate, Admitted, AdmitUpdate, isApprovalRequired, locals
<1>7. CASE UNCHANGED vars
  BY <1>7 DEF vars, taskVars, locals
<1>. QED
  BY <1>1, <1>2, <1>3, <1>4, <1>5, <1>6, <1>7 DEF Next

\* Before a task is created its run is open.
LEMMA OpenBeforeTask ==
    ASSUME VInv, pc = "create"
    PROVE  ~created /\ run.cond = "Unknown"
<1>1. ~created /\ spec = InitialSpec /\ status = NoStatus /\ params # "invalid"
  BY DEF VInv, IInv, NotCreatedYet, TaskPhases, OpenWhileWorking, Working
<1>2. run.cond # "False"
  BY <1>1, FirstStates DEF VInv, FailedIsRejected
<1>3. run.cond # "True"
  <2>1. ~Quorum(InitialSpec)
    BY InitialInputs, FS_EmptySet, RequiredPositive DEF Quorum, countApprovalsReceived
  <2>. QED
    BY <1>1, <2>1 DEF VInv, IInv, SucceededHasQuorum
<1>4. run.cond \in Condition
  BY DEF VInv, IInv, TypeOK, RunValue
<1>. QED
  BY <1>1, <1>2, <1>3, <1>4 DEF Condition

\* A run that is done, and was open when read, has something to write.
LEMMA OutcomeIsDue ==
    ASSUME NEW m \in RunValue, NEW o \in RunValue, m.cond # o.cond
    PROVE  [m EXCEPT !.labelled = o.labelled] # o
<1>1. [m EXCEPT !.labelled = o.labelled].cond = m.cond
  BY DEF RunValue
<1>. QED
  BY <1>1

\* A task that is decided before its deadline has the inputs for it.
LEMMA DecidedHasInputs ==
    ASSUME SettleInv, ~ApprovalTaskHasTimedOut, status.state \in {"approved", "rejected"}
    PROVE  HashChanged(spec)
<1>1. ~Open(spec)
  BY DEF SettleInv, VInv, IInv, ApprovedHasQuorum, Grounded, ApprovalTaskHasTimedOut, Open
<1>. QED
  BY <1>1, DecidedSpec DEF SettleInv, VInv, IInv, TypeOK

\* The evaluation, undisturbed, gives the run the condition of the state that
\* is then stored.
LEMMA EvaluationSettles ==
    ASSUME SettleInv, EvaluateInputs, faults' = 0
    PROVE  Agree(mine'.cond, status'.state)
<1>. DEFINE st == updateApprovalState(seen.spec, seen.status)
<1>1. created /\ seen.status = status /\ mine.cond = "Unknown" /\ mine \in RunValue
  BY DEF EvaluateInputs, TaskPhases, OpenWhileWorking, Working, IInv, TypeOK, SettleInv, VInv
<1>2. \A state : Agree(MarkRun(mine, state).cond, state)
  BY <1>1 DEF Agree, MarkRun, RunValue
<1>3. ~CallFails
  BY BoundsType DEF IInv, TypeOK, CallFails, SettleInv, VInv
<1>4. CASE mine' = MarkRun(mine, status'.state)
  BY <1>2, <1>4
<1>5. CASE mine' # MarkRun(mine, status'.state)
  <2>1. mine' # MarkRun(mine, st.state) \/ status' # st
    BY <1>5
  <2>2. Responders(seen.spec) = {} => st = status
    BY <1>1 DEF updateApprovalState
  <2>. HIDE DEF st
  <2>3. /\ ~HashChanged(seen.spec) \/ Ctl \notin holders
        /\ mine' = mine /\ status' = status
    BY <1>3, <2>1, <2>2 DEF EvaluateInputs, StatusWritten, st
  <2>4. status.state \notin {"approved", "rejected"}
    <3>. SUFFICES ASSUME status.state \in {"approved", "rejected"}
                  PROVE  FALSE
      OBVIOUS
    <3>1. Ctl \in holders /\ ~ApprovalTaskHasTimedOut
      BY DEF SettleInv, DecidedIsSeen, EvaluateInputs
    <3>2. seen.spec = spec
      BY <3>1 DEF SettleInv, VInv, IInv, CopyIsCurrent
    <3>. QED
      BY <2>3, <3>1, <3>2, DecidedHasInputs
  <2>. QED
    BY <1>1, <2>3, <2>4 DEF Agree
<1>. QED
  BY <1>4, <1>5

\* The evaluation takes no decision back.
LEMMA DecisionStays ==
    ASSUME VInv, EvaluateInputs, status.state \in {"approved", "rejected"}
    PROVE  status'.state \in {"approved", "rejected"}
<1>1. seen.status = status
  BY DEF EvaluateInputs, VInv, TaskPhases
<1>2. \/ status' = status
      \/ /\ Responders(seen.spec) # {}
         /\ status' = updateApprovalState(seen.spec, seen.status)
  BY DEF EvaluateInputs, StatusWritten
<1>. QED
  BY <1>1, <1>2, EvaluatedStates DEF NextState

\* What is due agrees with the task after every step, unless one fails.
LEMMA KeepsSettled ==
    ASSUME SettleInv, [Next]_vars
    PROVE  Settled'
<1>. SUFFICES ASSUME created', faults' = 0
              PROVE  Agree(DueCondition', status'.state)
  BY DEF Settled, Agree
<1>. USE DEF SettleInv, VInv
<1>1. /\ run \in RunValue /\ cache \in RunValue /\ orig \in RunValue /\ mine \in RunValue
      /\ faults \in Nat
  BY BoundsType DEF IInv, TypeOK
<1>2. faults' # faults + 1
  BY <1>1
<1>3. /\ pc \in Working => orig.cond = "Unknown" /\ mine.cond = "Unknown"
      /\ created => params # "invalid"
  BY DEF OpenWhileWorking
<1>4. CASE StartReconcile
  <2>1. UNCHANGED <<created, status, faults, run>> /\ DueCondition = run.cond
    BY <1>4 DEF StartReconcile, taskVars, runVars, DueCondition
  <2>2. ASSUME pc' \in {"labels", "finish"}
        PROVE  ~StatusChanged'
    <3>1. mine' = [cache EXCEPT !.started = TRUE] /\ orig' = cache /\ cache.cond # "Unknown"
      BY <1>1, <1>3, <1>4, <2>1, <2>2 DEF StartReconcile, Return, Goto, IsDone, RunValue
    <3>2. cache.started = TRUE
      BY <1>1, <3>1 DEF DoneUntouched, RunValue
    <3>. QED
      BY <1>1, <3>1, <3>2 DEF StatusChanged, RunValue
  <2>3. DueCondition' = run.cond
    BY <2>1, <2>2 DEF DueCondition
  <2>. QED
    BY <2>1, <2>3 DEF Settled
<1>5. CASE GetApprovalTask \/ RefetchApprovalTask
  <2>1. UNCHANGED <<created, status, run>> /\ pc' \notin {"labels", "finish"} /\ pc \notin {"labels", "finish"}
    BY <1>2, <1>5 DEF GetApprovalTask, ReconcileEmpty, RefetchApprovalTask, CallFails, Goto, runVars
  <2>2. faults' = faults
    BY <1>2, <1>5 DEF GetApprovalTask, ReconcileEmpty, RefetchApprovalTask, CallFails
  <2>. QED
    BY <2>1, <2>2 DEF DueCondition, Settled
<1>6. CASE CreateApprovalTask
  <2>1. ~created /\ run.cond = "Unknown"
    BY <1>6, OpenBeforeTask DEF CreateApprovalTask
  <2>2. pc' = "refetch" /\ status' = NoStatus /\ run' = run
    BY <1>6, <2>1 DEF CreateApprovalTask, taskVars, runVars, Goto
  <2>. QED
    BY <2>1, <2>2, FirstStates DEF DueCondition, Agree
<1>7. CASE InitializeStatus
  <2>1. created /\ status = NoStatus /\ DueCondition = run.cond /\ run' = run /\ faults' = faults
    BY <1>2, <1>7 DEF InitializeStatus, TaskPhases, DueCondition, runVars, CallFails
  <2>2. run.cond = "Unknown"
    BY <1>1, <2>1, FirstStates DEF Settled, Agree, RunValue, Condition
  <2>3. mine' = mine /\ mine.cond = "Unknown" /\ status' \in {NoStatus, InitialStatus}
    BY <1>3, <1>7, <2>1 DEF InitializeStatus, Working
  <2>4. DueCondition' = "Unknown"
    BY <2>1, <2>2, <2>3 DEF DueCondition
  <2>. QED
    BY <2>3, <2>4, FirstStates DEF Agree
<1>8. CASE RejectOnTimeout
  <2>1. created /\ DueCondition = run.cond /\ run' = run /\ faults' = faults /\ orig' = orig
    BY <1>2, <1>8 DEF RejectOnTimeout, TaskPhases, DueCondition, runVars, CallFails
  <2>2. CASE Ctl \in holders
    <3>1. status'.state = "rejected" /\ mine' = [mine EXCEPT !.cond = "False"] /\ pc' = "labels"
      BY <1>2, <1>8, <2>2 DEF RejectOnTimeout, StatusWritten, CallFails, Goto, IInv, TypeOK, StatusValue
    <3>2. mine' \in RunValue /\ mine'.cond = "False" /\ orig'.cond = "Unknown"
      BY <1>1, <1>3, <1>8, <2>1, <3>1 DEF RunValue, Condition, RejectOnTimeout, Working
    <3>3. StatusChanged'
      BY <1>1, <2>1, <3>2, OutcomeIsDue DEF StatusChanged
    <3>. QED
      BY <3>1, <3>2, <3>3 DEF DueCondition, Agree
  <2>3. CASE Ctl \notin holders
    <3>1. status' = status /\ mine' = mine /\ mine.cond = "Unknown"
      BY <1>2, <1>3, <1>8, <2>3 DEF RejectOnTimeout, CallFails, Working
    <3>2. status.state \notin {"approved", "rejected"}
      BY <1>8, <2>3 DEF DecidedIsSeen, RejectOnTimeout
    <3>3. run.cond = "Unknown"
      BY <1>1, <2>1, <3>2 DEF Settled, Agree, RunValue, Condition
    <3>. QED
      BY <2>1, <3>1, <3>2, <3>3 DEF DueCondition, Agree
  <2>. QED
    BY <2>2, <2>3
<1>9. CASE EvaluateInputs
  <2>1. /\ created /\ DueCondition = run.cond /\ run' = run /\ faults' = faults /\ orig' = orig
        /\ orig.cond = "Unknown"
    BY <1>2, <1>3, <1>9 DEF EvaluateInputs, TaskPhases, DueCondition, runVars, CallFails, Working
  <2>2. Agree(mine'.cond, status'.state)
    BY <1>9, EvaluationSettles
  <2>3. CASE StatusChanged'
    BY <1>9, <2>2, <2>3 DEF EvaluateInputs, Return, Goto, DueCondition
  <2>4. CASE ~StatusChanged'
    <3>1. mine' \in RunValue
      BY NextKeepsType DEF IInv, TypeOK
    <3>2. mine'.cond = "Unknown"
      BY <1>1, <2>1, <2>4, <3>1, OutcomeIsDue DEF StatusChanged
    <3>3. status'.state \notin {"approved", "rejected"}
      BY <2>2, <3>2 DEF Agree
    <3>4. status.state \notin {"approved", "rejected"}
      BY <1>9, <3>3, DecisionStays
    <3>5. run.cond = "Unknown"
      BY <1>1, <2>1, <3>4 DEF Settled, Agree, RunValue, Condition
    <3>. QED
      BY <2>1, <2>4, <3>3, <3>5 DEF DueCondition, Agree
  <2>. QED
    BY <2>3, <2>4
<1>10. CASE PropagateLabels
  <2>1. UNCHANGED <<created, status, orig>> /\ pc' = "finish" /\ faults' = faults
    BY <1>2, <1>10 DEF PropagateLabels, taskVars, Return, Goto, CallFails
  <2>2. mine' \in RunValue /\ mine'.cond = mine.cond /\ mine.cond # orig.cond
    BY <1>1, <1>10 DEF PropagateLabels, RunValue, OutcomeKnown, OpenWhileWorking
  <2>3. StatusChanged /\ StatusChanged'
    BY <1>1, <2>1, <2>2, OutcomeIsDue DEF StatusChanged
  <2>4. DueCondition' = DueCondition
    BY <1>10, <2>1, <2>2, <2>3 DEF DueCondition, PropagateLabels
  <2>. QED
    BY <2>1, <2>4 DEF Settled
<1>11. CASE FinishReconcile
  <2>1. UNCHANGED <<created, status>> /\ pc' = "idle" /\ faults' = faults
    BY <1>2, <1>11 DEF FinishReconcile, Goto, CallFails
  <2>2. run' = IF StatusChanged THEN [mine EXCEPT !.labelled = run.labelled] ELSE run
    BY <1>2, <1>11 DEF FinishReconcile, StatusChanged, CallFails
  <2>3. run'.cond = DueCondition
    BY <1>1, <1>11, <2>2 DEF FinishReconcile, DueCondition, RunValue
  <2>. QED
    BY <2>1, <2>3 DEF DueCondition, Settled
<1>12. CASE CacheSync \/ Resync \/ TimerFires \/ Tick
  BY <1>12 DEF CacheSync, Resync, TimerFires, Tick, runVars, taskVars, locals,
        Settled, DueCondition, StatusChanged
<1>13. CASE Restart
  BY <1>2, <1>13 DEF Restart
<1>14. ASSUME NEW u \in Users, Approve(u) \/ Reject(u) \/ CliUpdate(u)
       PROVE  Agree(DueCondition', status'.state)
  BY <1>14 DEF Approve, Reject, CliGet, CliUpdate, runVars, locals, Settled, DueCondition, StatusChanged
<1>15. CASE UNCHANGED vars
  BY <1>15 DEF vars, runVars, taskVars, locals, Settled, DueCondition, StatusChanged
<1>. QED
  BY <1>4, <1>5, <1>6, <1>7, <1>8, <1>9, <1>10, <1>11, <1>12, <1>13, <1>14, <1>15 DEF Next, ReconcileStep

\* SettleInv holds at first and is kept by every step.
LEMMA SettleInvariant == Spec => []SettleInv
<1>1. Init => DecidedIsSeen /\ Settled
  BY DEF Init, DecidedIsSeen, Settled
<1>2. SettleInv /\ [Next]_vars => DecidedIsSeen' /\ Settled'
  BY KeepsDecidedIsSeen, KeepsSettled DEF SettleInv
<1>3. VInv /\ MissInv /\ DecidedIsSeen /\ Settled <=> SettleInv /\ MissInv
  BY DEF SettleInv, MissInv, WakeInv
<1>. QED
  BY <1>1, <1>2, <1>3, VerdictInvariant, MissInvariant, PTL DEF Spec

\* What is due at rest is what is stored.
LEMMA SettledAtRest ==
    ASSUME Settled
    PROVE  SettledTogether
<1>. SUFFICES ASSUME Quiescent, created, faults = 0
              PROVE  /\ StateShown(status) = "Approved" <=> run.cond = "True"
                     /\ StateShown(status) = "Rejected" <=> run.cond = "False"
  BY DEF SettledTogether
<1>1. Agree(run.cond, status.state)
  BY DEF Settled, DueCondition, Quiescent
<1>2. /\ StateShown(status) = "Approved" <=> status.state = "approved"
      /\ StateShown(status) = "Rejected" <=> status.state = "rejected"
  BY Zenon DEF StateShown
<1>. QED
  BY <1>1, <1>2 DEF Agree

\* As long as nothing has failed, the run and the word `list' shows for its
\* task tell the same story at rest.
THEOREM RunAndTaskAgree == Spec => []SettledTogether
<1>1. SettleInv => SettledTogether
  BY SettledAtRest DEF SettleInv
<1>. QED
  BY <1>1, SettleInvariant, PTL
=============================================================================
