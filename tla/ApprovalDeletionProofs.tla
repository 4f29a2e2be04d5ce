----------------------- MODULE ApprovalDeletionProofs -----------------------
(***************************************************************************)
(* What is left of the gate's guarantees when its ApprovalTask may be      *)
(* deleted at any moment.  IInv and VInv do not survive a deletion, for    *)
(* they tie a success to the votes stored now; the run's own history and   *)
(* the wake-ups do.                                                        *)
(***************************************************************************)
EXTENDS ApprovalGateDeletion, ApprovalRestProofs

\* A deletion leaves a typed state, and nobody with a copy of the task.
LEMMA DeletionIsTyped ==
    ASSUME TypeOK, CopyIsCurrent, [NextDeletion]_allVars
    PROVE  TypeOK' /\ CopyIsCurrent'
<1>1. CASE [Next]_vars
  BY <1>1, NextKeepsType, KeepsCopyIsCurrent
<1>2. CASE DeleteTask
  <2>1. spec' \in SpecValue /\ status' \in StatusValue
    BY <1>2, InitialValues DEF DeleteTask
  <2>2. faults' \in 0 .. MaxFaults /\ elapsed' \in 0 .. Timeout + 1
    BY <1>2, BoundsType, TimeoutType DEF DeleteTask, TypeOK
  <2>3. holders' = {} /\ queue' = TRUE /\ created' = FALSE
    BY <1>2 DEF DeleteTask, TaskDeleted
  <2>4. UNCHANGED <<runVars, timer, pc, locals, userVars>>
    BY <1>2 DEF DeleteTask
  <2>. QED
    BY <2>1, <2>2, <2>3, <2>4 DEF TypeOK, CopyIsCurrent, runVars, locals, userVars
<1>. QED
  BY <1>1, <1>2 DEF NextDeletion, GateStep, allVars

-----------------------------------------------------------------------------
(* A success was voted.                                                    *)

\* An approved state, stored or fetched, and a succeeded run, whichever copy
\* of it, rest on the inputs last granted.
GrantedHasQuorum ==
    /\ status.state = "approved" \/ seen.status.state = "approved" => Quorum(granted)
    /\ "True" \in Conditions => Quorum(granted)

VotedInv == TypeOK /\ CopyIsCurrent /\ GrantedHasQuorum

\* A task turns approved on a quorum of the inputs stored with it.
LEMMA GrantIsEarned ==
    ASSUME TypeOK, CopyIsCurrent, [Next]_vars, status'.state = "approved", status.state # "approved"
    PROVE  Quorum(spec)
<1>1. CASE TaskEvaluated
  BY <1>1, EvaluatedStates DEF TaskEvaluated, NextState, approvalTaskHasTrueInput, Quorum
<1>2. CASE TaskCreated \/ StatusBegun
  BY <1>2, FirstStates DEF TaskCreated, StatusBegun
<1>. QED
  BY <1>1, <1>2, TaskSteps DEF TaskKept, TaskExpired, TaskVoted

LEMMA KeepsGrantedHasQuorum ==
    ASSUME VotedInv, [NextDeletion]_allVars
    PROVE  GrantedHasQuorum'
<1>. USE DEF VotedInv
<1>1. CASE GateStep
  <2>1. [Next]_vars
    BY <1>1 DEF GateStep
  <2>2. Quorum(granted) => Quorum(granted')
    BY <1>1, <2>1, GrantIsEarned DEF GateStep
  <2>3. status'.state = "approved" => Quorum(granted')
    BY <1>1, <2>1, GrantIsEarned DEF GateStep, GrantedHasQuorum
  <2>4. seen'.status.state = "approved" => Quorum(granted')
    BY <2>1, <2>2, SeenWasStored DEF GrantedHasQuorum
  <2>5. "True" \in Conditions' => Quorum(granted')
    BY <2>1, <2>2, <2>3, SuccessHasSource DEF GrantedHasQuorum
  <2>. QED
    BY <2>3, <2>4, <2>5 DEF GrantedHasQuorum, Quorum
<1>2. CASE DeleteTask
  <2>1. UNCHANGED <<run, cache, orig, mine, seen, granted>> /\ status' = NoStatus
    BY <1>2 DEF DeleteTask, runVars, locals
  <2>. QED
    BY <2>1, FirstStates DEF GrantedHasQuorum, Conditions, Quorum
<1>3. CASE UNCHANGED allVars
  BY <1>3 DEF allVars, vars, runVars, taskVars, locals, GrantedHasQuorum, Conditions, Quorum
<1>. QED
  BY <1>1, <1>2, <1>3 DEF NextDeletion

\* Whatever is deleted when, a run succeeds on the votes of one task: enough
\* users approved the task that was found approved.
THEOREM SuccessIsVoted == FairSpecDeletion => []SuccessWasVoted
<1>1. InitDeletion => VotedInv
  <2>. SUFFICES ASSUME InitDeletion PROVE VotedInv
    OBVIOUS
  <2>1. TypeOK /\ CopyIsCurrent
    BY InitIsTyped DEF InitDeletion, Init, CopyIsCurrent
  <2>2. GrantedHasQuorum
    BY NoStatusState DEF InitDeletion, Init, GrantedHasQuorum, Conditions, NewRun
  <2>. QED
    BY <2>1, <2>2 DEF VotedInv
<1>2. VotedInv /\ [NextDeletion]_allVars => VotedInv'
  BY DeletionIsTyped, KeepsGrantedHasQuorum DEF VotedInv
<1>3. VotedInv => SuccessWasVoted
  BY CountedApprove, CountType, RequiredPositive
     DEF VotedInv, GrantedHasQuorum, Conditions, Quorum, SuccessWasVoted, EnoughApprovals
<1>. QED
  BY <1>1, <1>2, <1>3, PTL DEF FairSpecDeletion

-----------------------------------------------------------------------------
(* An open run keeps a task.                                               *)

\* Unless the key is queued again, the task a reconcile decides on exists.
DecidesOnTask == pc = "decide" /\ ~queue => created

\* A reconcile that leaves the run open, with nothing queued, had a task, or a
\* call failed and it comes back in one tick.
OpenHadTask ==
    pc = "finish" /\ ~queue /\ result.kind = "requeue" /\ mine.cond = "Unknown" =>
        created \/ result.wait \in 0 .. 1

TaskInv == TypeOK /\ CopyIsCurrent /\ WakeInv /\ DecidesOnTask /\ OpenHadTask /\ OpenRunHasTask

\* A deletion queues the key, which is all that the wake-ups need.
LEMMA DeletionWakes ==
    ASSUME WakeInv, DeleteTask
    PROVE  WakeInv'
<1>1. /\ UNCHANGED <<params, run, cache, pc, orig, mine, result>>
      /\ queue' = TRUE /\ created' = FALSE
  BY DEF DeleteTask, TaskDeleted, runVars, locals
<1>. QED
  BY <1>1 DEF WakeInv, OpenWhileWorking, DoneUntouched, CacheKnown, OutcomeKnown, WakeupArmed, Quiescent

\* A task once created stays, but for a deletion.
LEMMA TaskStays ==
    ASSUME TypeOK, CopyIsCurrent, [Next]_vars, created
    PROVE  created'
  BY TaskSteps DEF TaskKept, TaskCreated, StatusBegun, TaskExpired, TaskEvaluated, TaskVoted

LEMMA KeepsDecidesOnTask ==
    ASSUME TaskInv, [Next]_vars
    PROVE  DecidesOnTask'
<1>. USE DEF DecidesOnTask, TaskInv
<1>1. CASE GetApprovalTask
  BY <1>1 DEF GetApprovalTask, ReconcileEmpty, Return, Goto
<1>2. CASE InitializeStatus
  BY <1>2 DEF InitializeStatus, TaskWritten, Return, Goto
<1>3. CASE ReconcileStep /\ ~GetApprovalTask /\ ~InitializeStatus
  BY <1>3 DEF ReconcileStep, StartReconcile, CreateApprovalTask, RefetchApprovalTask,
        RejectOnTimeout, EvaluateInputs, PropagateLabels, FinishReconcile, Return, Goto
<1>4. CASE CacheSync \/ Resync \/ TimerFires \/ Tick \/ Restart
  BY <1>4, TaskStays DEF CacheSync, Resync, TimerFires, Tick, Restart, Goto
<1>5. ASSUME NEW u \in Users, Approve(u) \/ Reject(u) \/ CliUpdate(u)
      PROVE  DecidesOnTask'
  BY <1>5, TaskStays DEF Approve, Reject, CliGet, CliUpdate, TaskWritten, timeVars
<1>6. CASE UNCHANGED vars
  BY <1>6 DEF vars, taskVars, timeVars
<1>. QED
  BY <1>1, <1>2, <1>3, <1>4, <1>5, <1>6 DEF Next

LEMMA KeepsOpenHadTask ==
    ASSUME TaskInv, [Next]_vars
    PROVE  OpenHadTask'
<1>. SUFFICES ASSUME pc' = "finish", ~queue', result'.kind = "requeue", mine'.cond = "Unknown"
              PROVE  created' \/ result'.wait \in 0 .. 1
  BY DEF OpenHadTask
<1>1. CASE GetApprovalTask
  <2>1. result' = Requeue(1)
    BY <1>1 DEF GetApprovalTask, ReconcileEmpty, Return, Goto
  <2>. QED
    BY <2>1, ResultKinds
<1>2. CASE EvaluateInputs
  <2>1. ~queue /\ pc = "decide"
    BY <1>2 DEF EvaluateInputs, StatusWritten, TaskWritten
  <2>. QED
    BY <2>1, TaskStays DEF TaskInv, DecidesOnTask
<1>3. CASE StartReconcile \/ CreateApprovalTask \/ RefetchApprovalTask \/ InitializeStatus
           \/ RejectOnTimeout \/ PropagateLabels \/ FinishReconcile
  <2>1. CASE StartReconcile
    BY <2>1, ResultKinds DEF StartReconcile, Return, Goto
  <2>2. CASE CreateApprovalTask \/ RefetchApprovalTask \/ InitializeStatus \/ RejectOnTimeout
    BY <2>2, ResultKinds DEF CreateApprovalTask, RefetchApprovalTask, InitializeStatus,
          RejectOnTimeout, Return, Goto
  <2>3. CASE PropagateLabels \/ FinishReconcile
    BY <2>3, ResultKinds DEF PropagateLabels, FinishReconcile, Return, Goto
  <2>. QED
    BY <1>3, <2>1, <2>2, <2>3
<1>4. CASE CacheSync \/ Resync \/ TimerFires \/ Tick \/ Restart
  BY <1>4, TaskStays DEF CacheSync, Resync, TimerFires, Tick, Restart, Goto, locals, TaskInv, OpenHadTask
<1>5. ASSUME NEW u \in Users, Approve(u) \/ Reject(u) \/ CliUpdate(u)
      PROVE  created' \/ result'.wait \in 0 .. 1
  BY <1>5, TaskStays DEF Approve, Reject, CliGet, CliUpdate, TaskWritten, timeVars, locals,
        TaskInv, OpenHadTask
<1>6. CASE UNCHANGED vars
  BY <1>6 DEF vars, taskVars, timeVars, locals, TaskInv, OpenHadTask
<1>. QED
  BY <1>1, <1>2, <1>3, <1>4, <1>5, <1>6 DEF Next, ReconcileStep

LEMMA KeepsOpenRunHasTask ==
    ASSUME TaskInv, [Next]_vars
    PROVE  OpenRunHasTask'
<1>. SUFFICES ASSUME Quiescent', run'.cond = "Unknown"
              PROVE  created' \/ timer' \in 0 .. 1
  BY DEF OpenRunHasTask
<1>. USE DEF TaskInv
<1>1. CASE FinishReconcile
  <2>1. /\ ~queue /\ result.kind = "requeue" /\ mine.cond = "Unknown"
        /\ AddAfter(result.wait)
    BY <1>1, OpenEnd DEF WakeInv
  <2>2. created \/ result.wait \in 0 .. 1
    BY <1>1, <2>1 DEF OpenHadTask, FinishReconcile
  <2>. QED
    BY <2>1, <2>2, Added, TaskStays
<1>2. CASE ReconcileStep /\ ~FinishReconcile
  BY <1>2 DEF ReconcileStep, StartReconcile, GetApprovalTask, ReconcileEmpty, CreateApprovalTask,
        RefetchApprovalTask, InitializeStatus, RejectOnTimeout, EvaluateInputs, PropagateLabels,
        Return, Goto, Quiescent
<1>3. CASE CacheSync \/ Resync \/ TimerFires \/ Restart
  BY <1>3 DEF CacheSync, Resync, TimerFires, Restart, Quiescent
<1>4. CASE Tick
  <2>1. Quiescent /\ run.cond = "Unknown"
    BY <1>4 DEF Tick, runVars, Quiescent
  <2>2. timer \in 0 .. 1 => timer' \in 0 .. 1
    BY <1>4 DEF Tick
  <2>. QED
    BY <2>1, <2>2, TaskStays DEF OpenRunHasTask
<1>5. ASSUME NEW u \in Users, Approve(u) \/ Reject(u) \/ CliUpdate(u)
      PROVE  created' \/ timer' \in 0 .. 1
  BY <1>5, TaskStays DEF Approve, Reject, CliGet, CliUpdate, TaskWritten, Quiescent, runVars,
        timeVars, OpenRunHasTask
<1>6. CASE UNCHANGED vars
  BY <1>6 DEF vars, runVars, taskVars, timeVars, Quiescent, OpenRunHasTask
<1>. QED
  BY <1>1, <1>2, <1>3, <1>4, <1>5, <1>6 DEF Next

\* An open run keeps a task to vote on: at rest a deleted task has been
\* created anew, or the controller looks again within a tick.
THEOREM TaskIsKept == FairSpecDeletion => []OpenRunHasTask
<1>1. InitDeletion => TaskInv
  <2>. SUFFICES ASSUME InitDeletion PROVE TaskInv
    OBVIOUS
  <2>1. TypeOK /\ WakeInv
    BY InitIsTyped, InitWakes DEF InitDeletion
  <2>2. CopyIsCurrent /\ DecidesOnTask /\ OpenHadTask /\ OpenRunHasTask
    BY DEF InitDeletion, Init, CopyIsCurrent, DecidesOnTask, OpenHadTask, OpenRunHasTask, Quiescent
  <2>. QED
    BY <2>1, <2>2 DEF TaskInv
<1>2. TaskInv /\ [NextDeletion]_allVars => TaskInv'
  <2>. SUFFICES ASSUME TaskInv, [NextDeletion]_allVars PROVE TaskInv'
    OBVIOUS
  <2>1. TypeOK' /\ CopyIsCurrent'
    BY DeletionIsTyped DEF TaskInv
  <2>2. CASE [Next]_vars
    BY <2>1, <2>2, KeepsWakeInv, KeepsDecidesOnTask, KeepsOpenHadTask, KeepsOpenRunHasTask DEF TaskInv
  <2>3. CASE DeleteTask
    <3>1. queue' = TRUE
      BY <2>3 DEF DeleteTask, TaskDeleted
    <3>. QED
      BY <2>1, <2>3, <3>1, DeletionWakes DEF TaskInv, DecidesOnTask, OpenHadTask, OpenRunHasTask, Quiescent
  <2>. QED
    BY <2>2, <2>3 DEF NextDeletion, GateStep, allVars
<1>3. TaskInv => OpenRunHasTask
  BY DEF TaskInv
<1>. QED
  BY <1>1, <1>2, <1>3, PTL DEF FairSpecDeletion
=============================================================================
