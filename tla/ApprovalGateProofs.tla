------------------------- MODULE ApprovalGateProofs -------------------------
(***************************************************************************)
(* Theorems about ApprovalGate, for every set of users, every list of      *)
(* approvers, every group membership, every required number, timeout and   *)
(* bound: types, and what a success rests on.  The last part has lemmas    *)
(* about lists of approvers in general, on which the other proofs build:   *)
(* what the CLI's edits make of a list, and what controller and webhook    *)
(* then read in it.                                                        *)
(***************************************************************************)
EXTENDS ApprovalGateProperties, FiniteSetTheorems, WellFoundedInduction, TLAPS

-----------------------------------------------------------------------------
(* The values the actions compute have the types their variables need.     *)

\* The initial spec and the two first statuses are well typed.
LEMMA InitialValues ==
    /\ InitialSpec \in SpecValue
    /\ NoStatus \in StatusValue
    /\ InitialStatus \in StatusValue
  BY DEF InitialSpec, NoStatus, InitialStatus, SpecValue, StatusValue, Input, State, Response

\* Approving users are users, so that their number is a natural number.
LEMMA CountType ==
    ASSUME NEW s
    PROVE  countApprovalsReceived(s) \in Nat
<1>1. ApprovedUsers(s) \subseteq Users
  BY DEF ApprovedUsers
<1>2. IsFiniteSet(ApprovedUsers(s))
  BY <1>1, UsersFinite, FS_Subset
<1>. QED
  BY <1>2, FS_CardinalityType DEF countApprovalsReceived

\* A group's members respond with a response.
LEMMA GroupMembersType ==
    ASSUME NEW s, NEW i
    PROVE  GroupMembers(s, i) \in [Users -> Response]
  BY DEF GroupMembers, Respond, Response

\* An approver responds with a response.
LEMMA ApproverResponseType ==
    ASSUME NEW s, NEW i
    PROVE  ApproverResponse(s, i) \in Response
<1>1. CASE IsUser(i)
  BY <1>1 DEF ApproverResponse, Respond, Response
<1>2. CASE ~IsUser(i)
  BY <1>2 DEF ApproverResponse, Response
<1>. QED
  BY <1>1, <1>2

\* Evaluating inputs turns a status into a status.
LEMMA UpdateStateType ==
    ASSUME NEW s \in SpecValue, NEW st \in StatusValue
    PROVE  updateApprovalState(s, st) \in StatusValue
<1>1. NextState(s, st.state) \in State
  BY DEF NextState, State, StatusValue
<1>2. countApprovalsReceived(s) \in Nat
  BY CountType
<1>3. [i \in Pos |-> ApproverResponse(s, i)] \in [Pos -> Response]
  BY ApproverResponseType
<1>4. [i \in Pos |-> GroupMembers(s, i)] \in [Pos -> [Users -> Response]]
  BY GroupMembersType
<1>. QED
  BY <1>1, <1>2, <1>3, <1>4 DEF updateApprovalState, StatusValue

\* The edit the CLI makes to a spec gives a spec.
LEMMA UpdateType ==
    ASSUME NEW s \in SpecValue, NEW u \in Users, NEW d \in Decision, NEW groups
    PROVE  update(s, u, d, groups) \in SpecValue
<1>1. d \in Input
  BY DEF Decision, Input
<1>2. [i \in Pos |-> IF OwnEntry(u, i) \/ AmongGroups(groups, i) THEN d ELSE s.input[i]]
        \in [Pos -> Input]
  BY <1>1 DEF SpecValue
<1>3. [i \in Pos |-> IF AmongGroups(groups, i) /\ ~HasOwnEntry(u)
                     THEN [s.member[i] EXCEPT ![u] = d] ELSE s.member[i]]
        \in [Pos -> [Users -> Input \cup {"absent"}]]
  BY <1>1 DEF SpecValue
<1>. QED
  BY <1>2, <1>3 DEF update, SpecValue

-----------------------------------------------------------------------------
(* Type correctness.                                                       *)

\* The ways in which the actions change a run give a run.
LEMMA RunType ==
    ASSUME NEW r \in RunValue
    PROVE  /\ [r EXCEPT !.started = TRUE] \in RunValue
           /\ [r EXCEPT !.audit = TRUE] \in RunValue
           /\ \A b \in BOOLEAN : [r EXCEPT !.labelled = b] \in RunValue
           /\ \A c \in Condition : [r EXCEPT !.cond = c] \in RunValue
           /\ \A state : MarkRun(r, state) \in RunValue
           /\ r.labelled \in BOOLEAN
  BY DEF RunValue, Condition, MarkRun

\* The constant results and runs are well typed.
LEMMA ConstantTypes ==
    /\ NewRun \in RunValue
    /\ Nil \in Result
    /\ Error \in Result
    /\ \A n \in 0 .. Timeout + 1 : Requeue(n) \in Result
    /\ NotSeen \in [spec : SpecValue, status : StatusValue]
  BY TimeoutType, InitialValues
     DEF NewRun, RunValue, Condition, Nil, Error, Requeue, Result, NotSeen

\* A failed call stays within the bound on failures.
LEMMA CallFailsType ==
    ASSUME faults \in 0 .. MaxFaults, CallFails
    PROVE  faults' \in 0 .. MaxFaults
  BY BoundsType DEF CallFails

\* A copy of the stored ApprovalTask is well typed.
LEMMA CopyType ==
    ASSUME TypeOK
    PROVE  [spec |-> spec, status |-> status] \in [spec : SpecValue, status : StatusValue]
  BY DEF TypeOK

\* The wait a reconcile asks for is a result.
LEMMA WaitType ==
    ASSUME elapsed \in 0 .. Timeout + 1
    PROVE  WaitForTimeout \in Result
  BY TimeoutType DEF WaitForTimeout, Requeue, Result

\* The controller's part of a step keeps the types.
LEMMA ReconcileKeepsType ==
    ASSUME TypeOK, ReconcileStep
    PROVE  TypeOK'
<1>. USE DEF TypeOK
<1>1. CASE StartReconcile
  <2>1. cache \in RunValue /\ [cache EXCEPT !.started = TRUE] \in RunValue
    BY RunType
  <2>2. [[cache EXCEPT !.started = TRUE] EXCEPT !.cond = "False"] \in RunValue
    BY <2>1, RunType DEF Condition
  <2>3. mine' \in RunValue /\ orig' \in RunValue
    BY <1>1, <2>1, <2>2 DEF StartReconcile
  <2>4. pc' \in Steps /\ result' \in Result
    BY <1>1, ConstantTypes DEF StartReconcile, Return, Goto, Steps
  <2>. QED
    BY <1>1, <2>3, <2>4 DEF StartReconcile, runVars, taskVars, userVars
<1>2. CASE GetApprovalTask
  <2>1. faults' \in 0 .. MaxFaults
    BY <1>2, CallFailsType DEF GetApprovalTask, ReconcileEmpty
  <2>2. seen' \in [spec : SpecValue, status : StatusValue]
    BY <1>2, CopyType DEF GetApprovalTask, ReconcileEmpty
  <2>3. pc' \in Steps /\ result' \in Result /\ holders' \subseteq Clients
    BY <1>2, TimeoutType, ConstantTypes DEF GetApprovalTask, ReconcileEmpty, Return, Goto, Steps, Clients
  <2>. QED
    BY <1>2, <2>1, <2>2, <2>3 DEF GetApprovalTask, ReconcileEmpty, runVars, timeVars, userVars
<1>3. CASE CreateApprovalTask
  <2>1. faults' \in 0 .. MaxFaults
    BY <1>3, CallFailsType DEF CreateApprovalTask
  <2>2. pc' \in Steps /\ result' \in Result
    BY <1>3, ConstantTypes DEF CreateApprovalTask, Return, Goto, Steps
  <2>3. created' \in BOOLEAN /\ spec' \in SpecValue /\ status' \in StatusValue /\ holders' \subseteq Clients
    BY <1>3, InitialValues DEF CreateApprovalTask, TaskWritten, taskVars
  <2>4. queue' \in BOOLEAN
    BY <1>3 DEF CreateApprovalTask, TaskWritten
  <2>5. 0 \in 0 .. Timeout + 1
    BY TimeoutType
  <2>6. elapsed' \in 0 .. Timeout + 1
    BY <1>3, <2>5 DEF CreateApprovalTask
  <2>. QED
    BY <1>3, <2>1, <2>2, <2>3, <2>4, <2>6 DEF CreateApprovalTask, runVars, userVars
<1>4. CASE RefetchApprovalTask
  <2>1. faults' \in 0 .. MaxFaults
    BY <1>4, CallFailsType DEF RefetchApprovalTask
  <2>2. seen' \in [spec : SpecValue, status : StatusValue]
    BY <1>4, CopyType DEF RefetchApprovalTask
  <2>3. pc' \in Steps /\ result' \in Result /\ holders' \subseteq Clients
    BY <1>4, ConstantTypes DEF RefetchApprovalTask, Return, Goto, Steps, Clients
  <2>. QED
    BY <1>4, <2>1, <2>2, <2>3 DEF RefetchApprovalTask, runVars, timeVars, userVars
<1>5. CASE InitializeStatus
  <2>1. faults' \in 0 .. MaxFaults
    BY <1>5, CallFailsType DEF InitializeStatus
  <2>2. pc' \in Steps /\ result' \in Result
    BY <1>5, ConstantTypes DEF InitializeStatus, Return, Goto, Steps
  <2>3. status' \in StatusValue /\ seen' \in [spec : SpecValue, status : StatusValue]
    BY <1>5, InitialValues DEF InitializeStatus
  <2>4. holders' \subseteq Clients /\ queue' \in BOOLEAN
    BY <1>5 DEF InitializeStatus, TaskWritten
  <2>. QED
    BY <1>5, <2>1, <2>2, <2>3, <2>4 DEF InitializeStatus, runVars, userVars
<1>6. CASE RejectOnTimeout
  <2>1. [seen.status EXCEPT !.state = "rejected"] \in StatusValue
    BY DEF StatusValue, State
  <2>2. faults' \in 0 .. MaxFaults
    BY <1>6, CallFailsType DEF RejectOnTimeout
  <2>3. pc' \in Steps /\ result' \in Result
    BY <1>6, ConstantTypes DEF RejectOnTimeout, Return, Goto, Steps
  <2>4. mine' \in RunValue
    BY <1>6, RunType DEF RejectOnTimeout, Condition
  <2>5. status' \in StatusValue /\ holders' \subseteq Clients /\ queue' \in BOOLEAN
    BY <1>6, <2>1 DEF RejectOnTimeout, StatusWritten, TaskWritten
  <2>. QED
    BY <1>6, <2>2, <2>3, <2>4, <2>5 DEF RejectOnTimeout, runVars, userVars
<1>7. CASE EvaluateInputs
  <2>1. updateApprovalState(seen.spec, seen.status) \in StatusValue
    BY UpdateStateType
  <2>2. WaitForTimeout \in Result
    BY WaitType
  <2>3. faults' \in 0 .. MaxFaults
    BY <1>7, CallFailsType DEF EvaluateInputs
  <2>4. pc' \in Steps /\ result' \in Result
    BY <1>7, <2>2, ConstantTypes DEF EvaluateInputs, Return, Goto, Steps
  <2>5. mine' \in RunValue
    BY <1>7, RunType DEF EvaluateInputs
  <2>6. status' \in StatusValue /\ holders' \subseteq Clients /\ queue' \in BOOLEAN
    BY <1>7, <2>1 DEF EvaluateInputs, StatusWritten, TaskWritten
  <2>. QED
    BY <1>7, <2>3, <2>4, <2>5, <2>6 DEF EvaluateInputs, runVars, userVars
<1>8. CASE PropagateLabels
  <2>1. faults' \in 0 .. MaxFaults
    BY <1>8, CallFailsType DEF PropagateLabels
  <2>2. pc' \in Steps /\ result' \in Result
    BY <1>8, ConstantTypes DEF PropagateLabels, Return, Goto, Steps
  <2>3. mine' \in RunValue /\ run' \in RunValue
    BY <1>8, RunType DEF PropagateLabels
  <2>. QED
    BY <1>8, <2>1, <2>2, <2>3 DEF PropagateLabels, taskVars, timeVars, userVars
<1>9. CASE FinishReconcile
  <2>1. result.wait \in 0 .. Timeout + 1
    BY DEF Result
  <2>2. faults' \in 0 .. MaxFaults
    BY <1>9, CallFailsType DEF FinishReconcile
  <2>3. pc' \in Steps /\ orig' \in RunValue /\ mine' \in RunValue /\ result' \in Result
        /\ seen' \in [spec : SpecValue, status : StatusValue]
    BY <1>9, ConstantTypes DEF FinishReconcile, Goto, Steps
  <2>4. run' \in RunValue
    BY <1>9, RunType DEF FinishReconcile
  <2>5. timer' \in NoTimer .. Timeout + 1
    BY <1>9, <2>1, TimeoutType DEF FinishReconcile, AddAfter, NoTimer
  <2>6. queue' \in BOOLEAN /\ holders' \subseteq Clients
    BY <1>9 DEF FinishReconcile
  <2>. QED
    BY <1>9, <2>2, <2>3, <2>4, <2>5, <2>6 DEF FinishReconcile, userVars
<1>. QED
  BY <1>1, <1>2, <1>3, <1>4, <1>5, <1>6, <1>7, <1>8, <1>9 DEF ReconcileStep

\* Every step keeps the types.
LEMMA NextKeepsType ==
    ASSUME TypeOK, [Next]_vars
    PROVE  TypeOK'
<1>1. CASE ReconcileStep
  BY <1>1, ReconcileKeepsType
<1>2. CASE CacheSync
  BY <1>2 DEF TypeOK, CacheSync, taskVars, locals, userVars
<1>3. CASE Resync
  BY <1>3 DEF TypeOK, Resync, runVars, taskVars, locals, userVars
<1>4. CASE TimerFires
  BY <1>4, TimeoutType DEF TypeOK, TimerFires, NoTimer, runVars, taskVars, locals, userVars
<1>5. CASE Tick
  BY <1>5, TimeoutType DEF TypeOK, Tick, Ageing, NoTimer, runVars, taskVars, locals, userVars
<1>6. CASE Restart
  BY <1>6, TimeoutType, BoundsType, ConstantTypes
     DEF TypeOK, Restart, Goto, Steps, NoTimer, runVars, taskVars, userVars
<1>7. ASSUME NEW u \in Users, Approve(u) \/ Reject(u)
      PROVE  TypeOK'
  <2>1. PICK d \in Decision : CliGet(u, d)
    BY <1>7 DEF Approve, Reject, Decision
  <2>2. \A groups \in getUserInfo(u) : [input |-> d, groups |-> groups] \in Command
    BY MemberOfType, UserObjectType DEF getUserInfo, Command
  <2>3. cli' \in [Users -> Command]
    BY <2>1, <2>2 DEF TypeOK, CliGet
  <2>. QED
    BY <2>1, <2>3, BoundsType DEF TypeOK, CliGet, Clients, runVars, timeVars, locals
<1>8. ASSUME NEW u \in Users, CliUpdate(u)
      PROVE  TypeOK'
  <2>1. cli[u].input \in Decision
    BY <1>8 DEF TypeOK, CliUpdate, Command
  <2>2. Edited(u) \in SpecValue
    BY <2>1, UpdateType DEF TypeOK, Edited
  <2>3. cli' \in [Users -> Command]
    BY <1>8 DEF TypeOK, CliUpdate, Command
  <2>. QED
    BY <1>8, <2>2, <2>3 DEF TypeOK, CliUpdate, TaskWritten, runVars, locals
<1>9. CASE UNCHANGED vars
  BY <1>9 DEF TypeOK, vars, runVars, taskVars, timeVars, locals, userVars
<1>. QED
  BY <1>1, <1>2, <1>3, <1>4, <1>5, <1>6, <1>7, <1>8, <1>9 DEF Next

\* The initial states are well typed.
LEMMA InitIsTyped ==
    ASSUME Init
    PROVE  TypeOK
<1>1. timer \in NoTimer .. Timeout + 1 /\ elapsed \in 0 .. Timeout + 1
  BY TimeoutType DEF Init, NoTimer
<1>2. commands \in 0 .. MaxCommands /\ faults \in 0 .. MaxFaults
  BY BoundsType DEF Init
<1>3. cli \in [Users -> Command]
  BY DEF Init, Command
<1>. QED
  BY <1>1, <1>2, <1>3, ConstantTypes, InitialValues DEF Init, TypeOK, Steps

\* Every reachable state of the gate is well typed: the statuses the
\* controller writes, the edits the CLI makes and the waits a reconcile asks
\* for stay within what the fields and bounds allow.
THEOREM TypeCorrect == Spec => []TypeOK
<1>1. Init => TypeOK
  BY InitIsTyped
<1>2. TypeOK /\ [Next]_vars => TypeOK'
  BY NextKeepsType
<1>. QED
  BY <1>1, <1>2, PTL DEF Spec

-----------------------------------------------------------------------------
(* No success without approvals.                                           *)

\* The approvals in a spec, counted as the controller counts, suffice.
Quorum(s) == countApprovalsReceived(s) >= Required

\* Before the task exists nothing was voted and nobody has a command on it.
NotCreatedYet ==
    /\ pc = "create" => ~created
    /\ ~created => spec = InitialSpec /\ \A u \in Users : cli[u] = Idle

\* While the controller's copy carries the stored resourceVersion, it is the
\* stored object.
CopyIsCurrent == Ctl \in holders => seen.spec = spec /\ seen.status = status

\* An approved state, stored or in the controller's hands, rests on a quorum.
ApprovedHasQuorum ==
    /\ status.state = "approved" =>
            Quorum(spec) /\ status.received = countApprovalsReceived(spec)
    /\ seen.status.state = "approved" => Quorum(spec)

\* A succeeded run, stored, cached or in the controller's hands, does too.
SucceededHasQuorum ==
    \A r \in {run, cache, orig, mine} : r.cond = "True" => Quorum(spec)

\* The inductive invariant.
IInv == TypeOK /\ NotCreatedYet /\ CopyIsCurrent /\ ApprovedHasQuorum /\ SucceededHasQuorum

\* Once the approvals suffice the stored inputs stay as they are: the webhook
\* refuses every edit, and the task is not created a second time.
LEMMA QuorumFreezes ==
    ASSUME IInv, [Next]_vars, Quorum(spec)
    PROVE  spec' = spec
<1>1. CASE ReconcileStep
  <2>1. CASE CreateApprovalTask
    BY <2>1 DEF IInv, NotCreatedYet, CreateApprovalTask, taskVars
  <2>2. CASE ~CreateApprovalTask
    BY <1>1, <2>2 DEF ReconcileStep, StartReconcile, GetApprovalTask, ReconcileEmpty, RefetchApprovalTask,
        InitializeStatus, RejectOnTimeout, EvaluateInputs, PropagateLabels, FinishReconcile, taskVars
  <2>. QED
    BY <2>1, <2>2
<1>2. CASE CacheSync \/ Resync \/ TimerFires \/ Tick \/ Restart
  BY <1>2 DEF CacheSync, Resync, TimerFires, Tick, Restart, taskVars
<1>3. ASSUME NEW u \in Users, Approve(u) \/ Reject(u)
      PROVE  spec' = spec
  BY <1>3 DEF Approve, Reject, CliGet
<1>4. ASSUME NEW u \in Users, CliUpdate(u)
      PROVE  spec' = spec
  <2>1. ~isApprovalRequired(spec, status)
    BY CountType, RequiredPositive DEF Quorum, countApprovalsReceived, isApprovalRequired
  <2>2. ~Admitted(u)
    BY <2>1 DEF Admitted, AdmitUpdate
  <2>. QED
    BY <1>4, <2>2 DEF CliUpdate
<1>5. CASE UNCHANGED vars
  BY <1>5 DEF vars, taskVars
<1>. QED
  BY <1>1, <1>2, <1>3, <1>4, <1>5 DEF Next

\* The task is created once, and votes come after it.
LEMMA KeepsNotCreatedYet ==
    ASSUME IInv, [Next]_vars
    PROVE  NotCreatedYet'
<1>. USE DEF IInv, NotCreatedYet
<1>1. CASE StartReconcile \/ GetApprovalTask \/ RefetchApprovalTask \/ InitializeStatus
  BY <1>1 DEF StartReconcile, GetApprovalTask, ReconcileEmpty, RefetchApprovalTask, InitializeStatus,
        Return, Goto, taskVars, userVars
<1>2. CASE CreateApprovalTask
  BY <1>2 DEF CreateApprovalTask, Return, Goto, taskVars, userVars
<1>3. CASE RejectOnTimeout \/ EvaluateInputs \/ PropagateLabels \/ FinishReconcile
  BY <1>3 DEF RejectOnTimeout, EvaluateInputs, PropagateLabels, FinishReconcile,
        Return, Goto, taskVars, userVars
<1>4. CASE CacheSync \/ Resync \/ TimerFires \/ Tick \/ Restart
  BY <1>4 DEF CacheSync, Resync, TimerFires, Tick, Restart, Goto, taskVars, userVars, locals
<1>5. ASSUME NEW u \in Users, Approve(u) \/ Reject(u)
      PROVE  NotCreatedYet'
  BY <1>5 DEF Approve, Reject, CliGet
<1>6. ASSUME NEW u \in Users, CliUpdate(u)
      PROVE  NotCreatedYet'
  BY <1>6 DEF CliUpdate
<1>7. CASE UNCHANGED vars
  BY <1>7 DEF vars, taskVars, userVars
<1>. QED
  BY <1>1, <1>2, <1>3, <1>4, <1>5, <1>6, <1>7 DEF Next, ReconcileStep

\* Every write of the task invalidates the controller's copy, every read
\* renews it.
LEMMA KeepsCopyIsCurrent ==
    ASSUME TypeOK, CopyIsCurrent, [Next]_vars
    PROVE  CopyIsCurrent'
<1>. USE DEF CopyIsCurrent
<1>1. CASE StartReconcile \/ GetApprovalTask \/ CreateApprovalTask \/ RefetchApprovalTask
  BY <1>1 DEF StartReconcile, GetApprovalTask, ReconcileEmpty, CreateApprovalTask, RefetchApprovalTask,
        TaskWritten, taskVars
<1>2. CASE InitializeStatus
  BY <1>2 DEF InitializeStatus, TaskWritten
<1>3. CASE RejectOnTimeout
  BY <1>3 DEF RejectOnTimeout, StatusWritten, TaskWritten
<1>4. CASE EvaluateInputs
  BY <1>4 DEF EvaluateInputs, StatusWritten, TaskWritten
<1>5. CASE PropagateLabels \/ FinishReconcile
  BY <1>5 DEF PropagateLabels, FinishReconcile, taskVars
<1>6. CASE CacheSync \/ Resync \/ TimerFires \/ Tick \/ Restart
  BY <1>6 DEF CacheSync, Resync, TimerFires, Tick, Restart, taskVars, locals
<1>7. ASSUME NEW u \in Users, Approve(u) \/ Reject(u)
      PROVE  CopyIsCurrent'
  BY <1>7, CtlIsNoUser DEF Approve, Reject, CliGet, locals
<1>8. ASSUME NEW u \in Users, CliUpdate(u)
      PROVE  CopyIsCurrent'
  BY <1>8 DEF CliUpdate, TaskWritten, locals
<1>9. CASE UNCHANGED vars
  BY <1>9 DEF vars, taskVars, locals
<1>. QED
  BY <1>1, <1>2, <1>3, <1>4, <1>5, <1>6, <1>7, <1>8, <1>9 DEF Next, ReconcileStep

\* A task without a status is not approved.
LEMMA NoStatusState ==
    /\ NoStatus.state # "approved"
    /\ NotSeen.status = NoStatus
    /\ InitialStatus.state = "pending"
  BY DEF NoStatus, NotSeen, InitialStatus

\* The state evaluated from the stored spec is approved on a quorum only.
LEMMA EvaluatedState ==
    ASSUME IInv, Ctl \in holders, Responders(seen.spec) # {},
           updateApprovalState(seen.spec, seen.status).state = "approved"
    PROVE  /\ Quorum(spec)
           /\ updateApprovalState(seen.spec, seen.status).received = countApprovalsReceived(spec)
<1>1. seen.spec = spec /\ seen.status = status
  BY DEF IInv, CopyIsCurrent
<1>2. NextState(spec, status.state) = "approved"
  BY <1>1 DEF updateApprovalState
<1>3. Quorum(spec)
  BY <1>2 DEF NextState, approvalTaskHasTrueInput, Quorum, IInv, ApprovedHasQuorum
<1>. QED
  BY <1>1, <1>3 DEF updateApprovalState

\* An approved state comes from a quorum, and the quorum stays.
LEMMA KeepsApprovedHasQuorum ==
    ASSUME IInv, [Next]_vars
    PROVE  ApprovedHasQuorum'
<1>1. Quorum(spec) => spec' = spec
  BY QuorumFreezes
<1>2. status' = status /\ seen' = seen => ApprovedHasQuorum'
  BY <1>1 DEF IInv, ApprovedHasQuorum, Quorum
<1>3. CASE StartReconcile \/ PropagateLabels
  BY <1>2, <1>3 DEF StartReconcile, PropagateLabels, taskVars
<1>4. CASE GetApprovalTask \/ RefetchApprovalTask
  <2>1. spec' = spec /\ status' = status
    BY <1>4 DEF GetApprovalTask, ReconcileEmpty, RefetchApprovalTask
  <2>2. seen' = seen \/ seen'.status = status
    BY <1>4 DEF GetApprovalTask, ReconcileEmpty, RefetchApprovalTask
  <2>. QED
    BY <2>1, <2>2 DEF IInv, ApprovedHasQuorum, Quorum
<1>5. CASE CreateApprovalTask
  <2>1. seen' = seen /\ (status' = status \/ status' = NoStatus)
    BY <1>5 DEF CreateApprovalTask, taskVars
  <2>. QED
    BY <1>1, <2>1, NoStatusState DEF IInv, ApprovedHasQuorum, Quorum
<1>6. CASE InitializeStatus
  <2>1. spec' = spec
    BY <1>6 DEF InitializeStatus
  <2>2. InitialStatus.state = "pending"
    BY NoStatusState
  <2>3. \/ status' = status /\ seen' = seen
        \/ status'.state = "pending" /\ seen'.status.state = "pending"
    BY <1>6, <2>2 DEF InitializeStatus, IInv, TypeOK
  <2>. QED
    BY <1>2, <2>1, <2>3 DEF ApprovedHasQuorum
<1>7. CASE RejectOnTimeout
  <2>1. seen' = seen /\ (status' = status \/ status'.state = "rejected")
    BY <1>7 DEF RejectOnTimeout, StatusWritten, IInv, TypeOK, StatusValue
  <2>. QED
    BY <1>1, <2>1 DEF IInv, ApprovedHasQuorum, Quorum
<1>8. CASE EvaluateInputs
  <2>1. spec' = spec /\ seen' = seen
    BY <1>8 DEF EvaluateInputs
  <2>2. \/ status' = status
        \/ /\ Ctl \in holders /\ Responders(seen.spec) # {}
           /\ status' = updateApprovalState(seen.spec, seen.status)
    BY <1>8 DEF EvaluateInputs, StatusWritten
  <2>3. CASE status' = status
    BY <1>2, <2>1, <2>3
  <2>4. CASE status' # status
    BY <2>1, <2>2, <2>4, EvaluatedState DEF IInv, ApprovedHasQuorum, Quorum
  <2>. QED
    BY <2>3, <2>4
<1>9. CASE FinishReconcile \/ Restart
  <2>1. status' = status /\ seen' = NotSeen
    BY <1>9 DEF FinishReconcile, Restart
  <2>. QED
    BY <1>1, <2>1, NoStatusState DEF IInv, ApprovedHasQuorum, Quorum
<1>10. CASE CacheSync \/ Resync \/ TimerFires \/ Tick
  BY <1>2, <1>10 DEF CacheSync, Resync, TimerFires, Tick, taskVars, locals
<1>11. CASE \E u \in Users : Approve(u) \/ Reject(u) \/ CliUpdate(u)
  BY <1>2, <1>11 DEF Approve, Reject, CliGet, CliUpdate, locals
<1>12. CASE UNCHANGED vars
  BY <1>2, <1>12 DEF vars, taskVars, locals
<1>. QED
  BY <1>3, <1>4, <1>5, <1>6, <1>7, <1>8, <1>9, <1>10, <1>11, <1>12 DEF Next, ReconcileStep

\* The conditions of the run as stored, cached, read and modified.
Conditions == {run.cond, cache.cond, orig.cond, mine.cond}

\* A run becomes succeeded by an approved state only, the one that is then
\* stored or the one fetched, and copies of a run carry no other condition
\* than the run's.
LEMMA SuccessHasSource ==
    ASSUME TypeOK, [Next]_vars, "True" \in Conditions'
    PROVE  "True" \in Conditions \/ status'.state = "approved" \/ seen.status.state = "approved"
<1>. DEFINE Goal == "True" \in Conditions \/ status'.state = "approved" \/ seen.status.state = "approved"
<1>. USE DEF Conditions
<1>1. NewRun.cond = "Unknown"
  BY DEF NewRun
<1>2. run \in RunValue /\ cache \in RunValue /\ orig \in RunValue /\ mine \in RunValue
  BY DEF TypeOK
<1>3. CASE StartReconcile
  <2>1. run' = run /\ cache' = cache /\ orig' = cache
    BY <1>3 DEF StartReconcile, runVars
  <2>2. mine'.cond \in {cache.cond, "False"}
    BY <1>2, <1>3 DEF StartReconcile, RunValue
  <2>. QED
    BY <2>1, <2>2
<1>4. CASE GetApprovalTask \/ CreateApprovalTask \/ RefetchApprovalTask \/ InitializeStatus
  BY <1>4 DEF GetApprovalTask, ReconcileEmpty, CreateApprovalTask, RefetchApprovalTask, InitializeStatus, runVars
<1>5. CASE RejectOnTimeout
  <2>1. run' = run /\ cache' = cache /\ orig' = orig
    BY <1>5 DEF RejectOnTimeout, runVars
  <2>2. mine'.cond \in {mine.cond, "False"}
    BY <1>2, <1>5 DEF RejectOnTimeout, RunValue
  <2>. QED
    BY <2>1, <2>2
<1>6. CASE EvaluateInputs
  <2>. DEFINE st == updateApprovalState(seen.spec, seen.status)
  <2>1. run' = run /\ cache' = cache /\ orig' = orig
    BY <1>6 DEF EvaluateInputs, runVars
  <2>2. \/ mine' = mine
        \/ /\ mine' = MarkRun(mine, st.state)
           /\ Responders(seen.spec) # {} => status' = st
    BY <1>6 DEF EvaluateInputs, StatusWritten
  <2>3. Responders(seen.spec) = {} => st = seen.status
    BY DEF updateApprovalState
  <2>. HIDE DEF st
  <2>4. ASSUME mine' = MarkRun(mine, st.state), mine'.cond = "True", mine.cond # "True"
        PROVE  st.state = "approved"
    BY <1>2, <2>4 DEF MarkRun, RunValue
  <2>. QED
    BY <2>1, <2>2, <2>3, <2>4
<1>7. CASE PropagateLabels
  <2>1. cache' = cache /\ orig' = orig
    BY <1>7 DEF PropagateLabels
  <2>2. run'.cond = run.cond /\ mine'.cond = mine.cond
    BY <1>2, <1>7 DEF PropagateLabels, RunValue
  <2>. QED
    BY <2>1, <2>2
<1>8. CASE FinishReconcile
  <2>1. cache' = cache /\ orig' = NewRun /\ mine' = NewRun
    BY <1>8 DEF FinishReconcile
  <2>2. run'.cond \in {run.cond, mine.cond}
    BY <1>2, <1>8 DEF FinishReconcile, RunValue
  <2>. QED
    BY <1>1, <2>1, <2>2
<1>9. CASE CacheSync \/ Restart
  BY <1>1, <1>9 DEF CacheSync, Restart, locals
<1>10. CASE Resync \/ TimerFires \/ Tick
  BY <1>10 DEF Resync, TimerFires, Tick, runVars, locals
<1>11. ASSUME NEW u \in Users, Approve(u) \/ Reject(u) \/ CliUpdate(u)
       PROVE  Goal
  BY <1>11 DEF Approve, Reject, CliGet, CliUpdate, runVars, locals
<1>12. CASE UNCHANGED vars
  BY <1>12 DEF vars, runVars, locals
<1>. QED
  BY <1>3, <1>4, <1>5, <1>6, <1>7, <1>8, <1>9, <1>10, <1>11, <1>12 DEF Next, ReconcileStep

\* The status a reconcile holds is one that was stored.
LEMMA SeenWasStored ==
    ASSUME TypeOK, [Next]_vars, seen'.status.state = "approved"
    PROVE  status.state = "approved" \/ seen.status.state = "approved"
<1>1. CASE GetApprovalTask \/ RefetchApprovalTask
  BY <1>1 DEF GetApprovalTask, ReconcileEmpty, RefetchApprovalTask
<1>2. CASE InitializeStatus
  BY <1>2, NoStatusState DEF InitializeStatus, TypeOK
<1>3. CASE FinishReconcile \/ Restart
  BY <1>3, NoStatusState DEF FinishReconcile, Restart
<1>4. CASE StartReconcile \/ CreateApprovalTask \/ RejectOnTimeout \/ EvaluateInputs \/ PropagateLabels
  BY <1>4 DEF StartReconcile, CreateApprovalTask, RejectOnTimeout, EvaluateInputs, PropagateLabels
<1>5. CASE CacheSync \/ Resync \/ TimerFires \/ Tick
  BY <1>5 DEF CacheSync, Resync, TimerFires, Tick, locals
<1>6. ASSUME NEW u \in Users, Approve(u) \/ Reject(u) \/ CliUpdate(u)
      PROVE  seen' = seen
  BY <1>6 DEF Approve, Reject, CliGet, CliUpdate, locals
<1>7. CASE UNCHANGED vars
  BY <1>7 DEF vars, locals
<1>. QED
  BY <1>1, <1>2, <1>3, <1>4, <1>5, <1>6, <1>7 DEF Next, ReconcileStep

\* So a succeeded run, whichever copy of it, rests on a quorum.
LEMMA KeepsSucceededHasQuorum ==
    ASSUME IInv, [Next]_vars
    PROVE  SucceededHasQuorum'
<1>1. Quorum(spec) => Quorum(spec')
  BY QuorumFreezes
<1>2. "True" \in Conditions \/ seen.status.state = "approved" => Quorum(spec')
  BY <1>1 DEF IInv, SucceededHasQuorum, ApprovedHasQuorum, Conditions
<1>3. status'.state = "approved" => Quorum(spec')
  BY KeepsApprovedHasQuorum DEF ApprovedHasQuorum, Quorum
<1>4. "True" \in Conditions' => Quorum(spec')
  BY <1>2, <1>3, SuccessHasSource DEF IInv
<1>. QED
  BY <1>4 DEF SucceededHasQuorum, Conditions, Quorum

\* IInv holds at first and is kept by every step.
LEMMA InitIInv ==
    ASSUME Init
    PROVE  IInv
<1>1. TypeOK
  BY InitIsTyped
<1>2. NotCreatedYet /\ CopyIsCurrent
  BY DEF Init, NotCreatedYet, CopyIsCurrent
<1>3. ApprovedHasQuorum
  BY NoStatusState DEF Init, ApprovedHasQuorum
<1>4. SucceededHasQuorum
  BY DEF Init, SucceededHasQuorum, NewRun
<1>. QED
  BY <1>1, <1>2, <1>3, <1>4 DEF IInv

LEMMA KeepsIInv ==
    ASSUME IInv, [Next]_vars
    PROVE  IInv'
<1>1. TypeOK'
  BY NextKeepsType DEF IInv
<1>. QED
  BY <1>1, KeepsNotCreatedYet, KeepsCopyIsCurrent, KeepsApprovedHasQuorum,
     KeepsSucceededHasQuorum DEF IInv

LEMMA InductiveInvariant == Spec => []IInv
<1>1. Init => IInv
  BY InitIInv
<1>2. IInv /\ [Next]_vars => IInv'
  BY KeepsIInv
<1>. QED
  BY <1>1, <1>2, PTL DEF Spec

\* What the controller counts are users with an approving ballot.
LEMMA CountedApprove ==
    ASSUME NEW s
    PROVE  /\ Cardinality(Approving(s)) \in Nat
           /\ countApprovalsReceived(s) <= Cardinality(Approving(s))
<1>1. ApprovedUsers(s) \subseteq Approving(s)
  BY DEF ApprovedUsers, Approving, Ballot, OwnEntry, IsUser, IsGroup
<1>2. IsFiniteSet(Approving(s))
  BY UsersFinite, FS_Subset DEF Approving
<1>. QED
  BY <1>1, <1>2, FS_Subset, FS_CardinalityType DEF countApprovalsReceived

\* What the invariant says of ballots.
LEMMA EnoughHaveApproved ==
    ASSUME IInv
    PROVE  SuccessNeedsQuorum /\ ApprovedIsCounted
<1>1. SuccessNeedsQuorum
  BY CountedApprove, CountType, RequiredPositive
     DEF IInv, SucceededHasQuorum, Quorum, SuccessNeedsQuorum, EnoughApprovals
<1>2. ASSUME status.state = "approved"
      PROVE  /\ EnoughApprovals(spec)
             /\ status.received \in Required .. Cardinality(Approving(spec))
  <2>1. Quorum(spec) /\ status.received = countApprovalsReceived(spec)
    BY <1>2 DEF IInv, ApprovedHasQuorum
  <2>. QED
    BY <2>1, CountedApprove, CountType, RequiredPositive DEF Quorum, EnoughApprovals
<1>. QED
  BY <1>1, <1>2 DEF ApprovedIsCounted

\* The run succeeds only on enough approvals: no interleaving of votes,
\* reconciles, failed calls and restarts marks a CustomRun succeeded while
\* fewer than the required users have an approving ballot.
THEOREM SuccessIsEarned == Spec => []SuccessNeedsQuorum
<1>1. IInv => SuccessNeedsQuorum
  BY EnoughHaveApproved
<1>. QED
  BY <1>1, InductiveInvariant, PTL

\* The state approved is written on enough approvals only, with an
\* approvalsReceived between the required number and the approving users.
THEOREM ApprovalIsCounted == Spec => []ApprovedIsCounted
<1>1. IInv => ApprovedIsCounted
  BY EnoughHaveApproved
<1>. QED
  BY <1>1, InductiveInvariant, PTL

\* Once the approvals suffice no step changes an input any more: the webhook
\* counts what the controller counts, and the task is not created again.
THEOREM QuorumIsFrozen == Spec => QuorumFreezesInputs
<1>1. IInv /\ [Next]_vars => [countApprovalsReceived(spec) >= Required => spec' = spec]_vars
  BY QuorumFreezes DEF Quorum
<1>. QED
  BY <1>1, InductiveInvariant, PTL DEF Spec, QuorumFreezesInputs

-----------------------------------------------------------------------------
(* The shape of a list that only commands have edited.                     *)

\* A line under a group is somebody's decision, that of a user who has no
\* individual entry, and the group has an input since.
LinesAreVotes(s) ==
    \A i \in Pos, u \in Users :
        s.member[i][u] # "absent" =>
            /\ s.member[i][u] \in Decision /\ s.input[i] \in Decision
            /\ IsGroup(i) /\ ~HasOwnEntry(u)

\* Behind every input there is somebody's own decision.
InputsAreVotes(s) ==
    \A i \in Pos :
        s.input[i] \in Decision =>
            \E u \in Users : \/ \E j \in Pos : OwnEntry(u, j) /\ s.input[j] \in Decision
                             \/ s.member[i][u] \in Decision

Votes(s) == LinesAreVotes(s) /\ InputsAreVotes(s)

\* A set of positions has a first one.
LEMMA FirstPosition ==
    ASSUME NEW S, S \subseteq Pos, S # {}
    PROVE  Min(S) \in S
<1>. DEFINE less == OpToRel(<, Nat)
<1>1. Pos \subseteq Nat
  <2>. DEFINE T == [name : STRING, type : ApproverType]
  <2>1. ApproverList \in Seq(T)
    BY ApproverListType
  <2>. HIDE DEF T
  <2>. QED
    BY <2>1 DEF Pos
<1>2. IsWellFoundedOn(less, Nat)
  BY NatLessThanWellFounded, Zenon
<1>3. \A x, y \in Nat : x < y => <<x, y>> \in less
  BY DEF OpToRel
<1>. HIDE DEF less
<1>4. PICK x \in S : \A y \in S : ~(<<y, x>> \in less)
  BY <1>1, <1>2, WFMin
<1>5. ASSUME NEW y \in S
      PROVE  x =< y
  <2>1. x \in Nat /\ y \in Nat
    BY <1>1
  <2>2. ~(y < x)
    BY <1>3, <1>4, <2>1, Zenon
  <2>. QED
    BY <2>1, <2>2
<1>. QED
  BY <1>5 DEF Min

\* A position is a user's or a group's, not both.
LEMMA UserOrGroup ==
    ASSUME NEW i \in Pos
    PROVE  /\ ~(IsUser(i) /\ IsGroup(i))
           /\ IsUser(i) \/ IsGroup(i)
<1>. DEFINE t == ApproverList[i].type
<1>1. ApproverList[i] \in [name : STRING, type : ApproverType]
  <2>. DEFINE T == [name : STRING, type : ApproverType]
  <2>1. ApproverList \in Seq(T)
    BY ApproverListType
  <2>. HIDE DEF T
  <2>2. ApproverList[i] \in T
    BY <2>1 DEF Pos
  <2>. QED
    BY <2>2 DEF T
<1>2. t \in ApproverType
  BY <1>1
<1>3. DefaultedApproverType(t) \in {"User", "Group"}
  BY <1>2, Zenon DEF DefaultedApproverType, ApproverType
<1>. QED
  BY <1>3 DEF IsUser, IsGroup

\* The new list has no lines and no inputs.
LEMMA InitialVotes == Votes(InitialSpec)
  BY DEF InitialSpec, Votes, LinesAreVotes, InputsAreVotes, Decision

\* What an edit leaves at each position.
LEMMA Updated ==
    ASSUME NEW s \in SpecValue, NEW u \in Users, NEW d \in Decision, NEW groups, NEW i \in Pos
    PROVE  /\ update(s, u, d, groups).input[i] =
                IF OwnEntry(u, i) \/ AmongGroups(groups, i) THEN d ELSE s.input[i]
           /\ \A v \in Users :
                update(s, u, d, groups).member[i][v] =
                    IF v = u /\ AmongGroups(groups, i) /\ ~HasOwnEntry(u) THEN d ELSE s.member[i][v]
  BY DEF update, SpecValue

\* An edit keeps the shape.
LEMMA UpdateKeepsVotes ==
    ASSUME NEW s \in SpecValue, NEW u \in Users, NEW d \in Decision, NEW groups, Votes(s)
    PROVE  Votes(update(s, u, d, groups))
<1>. DEFINE n == update(s, u, d, groups)
<1>1. \A i \in Pos : s.input[i] \in Decision => n.input[i] \in Decision
  BY Updated
<1>2. LinesAreVotes(n)
  <2>. SUFFICES ASSUME NEW i \in Pos, NEW v \in Users, n.member[i][v] # "absent"
                PROVE  /\ n.member[i][v] \in Decision /\ n.input[i] \in Decision
                       /\ IsGroup(i) /\ ~HasOwnEntry(v)
    BY DEF LinesAreVotes
  <2>1. CASE v = u /\ AmongGroups(groups, i) /\ ~HasOwnEntry(u)
    BY <2>1, Updated DEF AmongGroups
  <2>2. CASE ~(v = u /\ AmongGroups(groups, i) /\ ~HasOwnEntry(u))
    <3>1. n.member[i][v] = s.member[i][v]
      BY <2>2, Updated
    <3>. QED
      BY <1>1, <3>1 DEF Votes, LinesAreVotes
  <2>. QED
    BY <2>1, <2>2
<1>3. InputsAreVotes(n)
  <2>. SUFFICES ASSUME NEW i \in Pos, n.input[i] \in Decision
                PROVE  \E v \in Users : \/ \E j \in Pos : OwnEntry(v, j) /\ n.input[j] \in Decision
                                        \/ n.member[i][v] \in Decision
    BY DEF InputsAreVotes
  <2>1. CASE OwnEntry(u, i)
    BY <2>1
  <2>2. CASE AmongGroups(groups, i) /\ HasOwnEntry(u)
    <3>1. PICK j \in Pos : OwnEntry(u, j)
      BY <2>2 DEF HasOwnEntry
    <3>2. n.input[j] = d
      BY <3>1, Updated
    <3>. QED
      BY <3>1, <3>2
  <2>3. CASE AmongGroups(groups, i) /\ ~HasOwnEntry(u)
    <3>1. n.member[i][u] = d
      BY <2>3, Updated
    <3>. QED
      BY <3>1
  <2>4. CASE ~OwnEntry(u, i) /\ ~AmongGroups(groups, i)
    <3>1. s.input[i] \in Decision
      BY <2>4, Updated
    <3>2. PICK v \in Users : \/ \E j \in Pos : OwnEntry(v, j) /\ s.input[j] \in Decision
                             \/ s.member[i][v] \in Decision
      BY <3>1 DEF Votes, InputsAreVotes
    <3>3. n.member[i][v] = s.member[i][v]
      BY <2>4, Updated
    <3>. HIDE DEF n
    <3>. QED
      BY <1>1, <3>2, <3>3
  <2>. QED
    BY <2>1, <2>2, <2>3, <2>4
<1>. QED
  BY <1>2, <1>3 DEF Votes

-----------------------------------------------------------------------------
(* What the controller reads in such a list.                               *)

\* Whoever decided in an individual entry, or under a group without one, is a
\* response.
LEMMA DecisionResponds ==
    ASSUME NEW s \in SpecValue, Votes(s), NEW i \in Pos, s.input[i] \in Decision
    PROVE  Responders(s) # {}
<1>1. PICK u \in Users : \/ \E j \in Pos : OwnEntry(u, j) /\ s.input[j] \in Decision
                         \/ s.member[i][u] \in Decision
  BY DEF Votes, InputsAreVotes
<1>2. ASSUME NEW j \in Pos, OwnEntry(u, j), s.input[j] \in Decision
      PROVE  j \in Responders(s)
  BY <1>2 DEF Responders, ApproverResponse, OwnEntry, Respond, Decision
<1>3. ASSUME s.member[i][u] \in Decision
      PROVE  i \in Responders(s)
  <2>1. IsGroup(i) /\ ~HasOwnEntry(u)
    BY <1>3 DEF Votes, LinesAreVotes, Decision
  <2>2. u \notin ProcessedUserApprovers(s)
    BY <2>1 DEF ProcessedUserApprovers, HasOwnEntry
  <2>3. GroupMembers(s, i)[u] = Respond(s.member[i][u])
    BY <2>1, <2>2 DEF GroupMembers
  <2>4. GroupMembers(s, i)[u] \in {"approved", "rejected"}
    BY <1>3, <2>3 DEF Respond, Decision
  <2>5. ~IsUser(i)
    BY <2>1, UserOrGroup
  <2>. QED
    BY <2>4, <2>5 DEF Responders, ApproverResponse
<1>. QED
  BY <1>1, <1>2, <1>3

\* The inputs decide neither way, as the controller sees it.
Open(s) == ~approvalTaskHasFalseInput(s) /\ ~Quorum(s)

\* A list that decides has responses in it, is not the initial one, and gives
\* a state of its own.
LEMMA DecidedSpec ==
    ASSUME NEW s \in SpecValue, Votes(s), ~Open(s)
    PROVE  /\ Responders(s) # {}
           /\ HashChanged(s)
           /\ \A state : NextState(s, state) \in {"approved", "rejected"}
<1>1. \E i \in Pos : s.input[i] \in Decision
  <2>1. CASE approvalTaskHasFalseInput(s)
    BY <2>1 DEF approvalTaskHasFalseInput, Decision
  <2>2. CASE Quorum(s)
    <3>1. ApprovedUsers(s) # {}
      BY <2>2, FS_EmptySet, RequiredPositive DEF Quorum, countApprovalsReceived
    <3>. QED
      BY <3>1 DEF ApprovedUsers, Decision
  <2>. QED
    BY <2>1, <2>2 DEF Open
<1>2. HashChanged(s)
  BY <1>1 DEF HashChanged, InitialSpec, Decision
<1>3. \A state : NextState(s, state) \in {"approved", "rejected"}
  BY DEF Open, NextState, approvalTaskHasTrueInput, Quorum
<1>. QED
  BY <1>1, <1>2, <1>3, DecisionResponds

\* With no input against it, the approvals counted are the approving ballots.
LEMMA OpenCount ==
    ASSUME NEW s \in SpecValue, Votes(s), ~approvalTaskHasFalseInput(s)
    PROVE  ApprovedUsers(s) = Approving(s)
<1>1. ASSUME NEW u \in Users, NEW i \in Pos, Ballot(s, u, i) = "approve"
      PROVE  u \in ApprovedUsers(s)
  <2>1. CASE OwnEntry(u, i)
    BY <1>1, <2>1 DEF Ballot, ApprovedUsers
  <2>2. CASE ~OwnEntry(u, i)
    <3>1. IsGroup(i) /\ s.member[i][u] = "approve"
      BY <1>1, <2>2 DEF Ballot
    <3>2. s.input[i] = "approve"
      BY <3>1 DEF Votes, LinesAreVotes, Decision, approvalTaskHasFalseInput
    <3>. QED
      BY <3>1, <3>2 DEF ApprovedUsers
  <2>. QED
    BY <2>1, <2>2
<1>2. ApprovedUsers(s) \subseteq Approving(s)
  BY DEF ApprovedUsers, Approving, Ballot, OwnEntry, IsUser, IsGroup
<1>. QED
  BY <1>1, <1>2 DEF Approving

-----------------------------------------------------------------------------
(* The groups a command works with, and those the webhook goes by.         *)

\* In the user's own groups an edit reaches every position it ever reached.
LEMMA AmongOwnGroups ==
    ASSUME NEW u \in Users, NEW i \in Pos
    PROVE  AmongGroups(MemberOf[u], i) <=> InGroup(u, i)
  BY DEF AmongGroups, InGroup

\* The lines of u are under u's groups, and there are none if u has an
\* individual entry.
LinesWithin(s, u) ==
    \A i \in Pos : s.member[i][u] # "absent" => InGroup(u, i) /\ ~HasOwnEntry(u)

\* An edit that the webhook admits does what it would have done in the user's
\* own groups among those that the command worked with.
LEMMA AdmittedGroups ==
    ASSUME NEW s \in SpecValue, NEW u \in Users, NEW d \in Decision, NEW groups, LinesWithin(s, u),
           CheckOtherUsersForInvalidChanges(s, update(s, u, d, groups), u)
    PROVE  update(s, u, d, groups) = update(s, u, d, groups \cap MemberOf[u])
<1>. DEFINE n == update(s, u, d, groups)
            m == update(s, u, d, groups \cap MemberOf[u])
<1>1. \A i \in Pos : AmongGroups(groups \cap MemberOf[u], i) <=> AmongGroups(groups, i) /\ InGroup(u, i)
  BY DEF AmongGroups, InGroup
<1>2. ASSUME NEW i \in Pos, AmongGroups(groups, i), ~InGroup(u, i)
      PROVE  HasOwnEntry(u) /\ s.input[i] = d
  <2>1. IsGroup(i) /\ s.member[i][u] = "absent" /\ ~isUserInGroup(s, u, i)
    BY <1>2 DEF AmongGroups, LinesWithin, isUserInGroup
  <2>2. n.input[i] = s.input[i] /\ n.member[i][u] = "absent"
    BY <2>1 DEF CheckOtherUsersForInvalidChanges
  <2>3. n.input[i] = d /\ (~HasOwnEntry(u) => n.member[i][u] = d)
    BY <1>2, Updated
  <2>. QED
    BY <2>2, <2>3 DEF Decision
<1>3. ASSUME NEW i \in Pos
      PROVE  /\ n.input[i] = m.input[i]
             /\ \A v \in Users : n.member[i][v] = m.member[i][v]
  <2>1. AmongGroups(groups, i) /\ ~AmongGroups(groups \cap MemberOf[u], i) => HasOwnEntry(u) /\ s.input[i] = d
    BY <1>1, <1>2
  <2>2. AmongGroups(groups \cap MemberOf[u], i) => AmongGroups(groups, i)
    BY <1>1
  <2>3. /\ n.input[i] = (IF OwnEntry(u, i) \/ AmongGroups(groups, i) THEN d ELSE s.input[i])
        /\ m.input[i] = (IF OwnEntry(u, i) \/ AmongGroups(groups \cap MemberOf[u], i) THEN d ELSE s.input[i])
    BY Updated
  <2>4. \A v \in Users :
          /\ n.member[i][v] = (IF v = u /\ AmongGroups(groups, i) /\ ~HasOwnEntry(u) THEN d ELSE s.member[i][v])
          /\ m.member[i][v] = (IF v = u /\ AmongGroups(groups \cap MemberOf[u], i) /\ ~HasOwnEntry(u)
                               THEN d ELSE s.member[i][v])
    BY Updated
  <2>. HIDE DEF n, m
  <2>. QED
    BY <2>1, <2>2, <2>3, <2>4
<1>4. n \in SpecValue /\ m \in SpecValue
  BY UpdateType
<1>. HIDE DEF n, m
<1>5. n.input = m.input
  BY <1>3, <1>4 DEF SpecValue
<1>6. \A i \in Pos : n.member[i] = m.member[i]
  BY <1>3, <1>4 DEF SpecValue
<1>7. n.member = m.member
  BY <1>4, <1>6 DEF SpecValue
<1>8. n = m
  BY <1>4, <1>5, <1>7 DEF SpecValue
<1>. QED
  BY <1>8 DEF n, m

\* So it adds no line outside the user's groups.
LEMMA AdmittedLines ==
    ASSUME NEW s \in SpecValue, NEW u \in Users, NEW d \in Decision, NEW groups,
           CheckOtherUsersForInvalidChanges(s, update(s, u, d, groups), u),
           \A v \in Users : LinesWithin(s, v)
    PROVE  \A v \in Users : LinesWithin(update(s, u, d, groups), v)
<1>. DEFINE within == groups \cap MemberOf[u]
<1>1. update(s, u, d, groups) = update(s, u, d, within)
  BY AdmittedGroups
<1>2. \A i \in Pos : AmongGroups(within, i) => InGroup(u, i)
  BY DEF AmongGroups, InGroup
<1>. HIDE DEF within
<1>3. \A v \in Users : LinesWithin(update(s, u, d, within), v)
  BY <1>2, Updated DEF LinesWithin
<1>. QED
  BY <1>1, <1>3

-----------------------------------------------------------------------------
(* The shape of a list when commands know all the groups of their users.   *)

\* The User object lacks no group of the authenticated user.  When it does, a
\* second command of a user may leave an input, or a line, of the first behind.
AllGroupsKnown == \A u \in Users : MemberOf[u] \subseteq UserObject[u]

\* An input reject is somebody's own: that of the individual entry, of a line
\* under the group, or of a member of the group with an individual entry.
RejectsAreVotes(s) ==
    \A i \in Pos :
        s.input[i] = "reject" =>
            \E u \in Users :
                \/ OwnEntry(u, i)
                \/ s.member[i][u] = "reject"
                \/ InGroup(u, i) /\ \E j \in Pos : OwnEntry(u, j) /\ s.input[j] = "reject"

\* The lines of a user are under the user's groups, and say the same.
LinesTogether(s) ==
    \A u \in Users, i \in Pos :
        s.member[i][u] # "absent" =>
            /\ InGroup(u, i)
            /\ \A j \in Pos : InGroup(u, j) => s.member[j][u] = s.member[i][u]

Ballots(s) == Votes(s) /\ RejectsAreVotes(s) /\ LinesTogether(s)

LEMMA InitialBallots == Ballots(InitialSpec)
  BY InitialVotes DEF InitialSpec, Ballots, RejectsAreVotes, LinesTogether

\* An edit in the user's own groups keeps this shape, too.
LEMMA UpdateKeepsBallots ==
    ASSUME NEW s \in SpecValue, NEW u \in Users, NEW d \in Decision, Ballots(s)
    PROVE  Ballots(update(s, u, d, MemberOf[u]))
<1>. DEFINE n == update(s, u, d, MemberOf[u])
<1>1. \A i \in Pos : n.input[i] = IF OwnEntry(u, i) \/ InGroup(u, i) THEN d ELSE s.input[i]
  BY Updated, AmongOwnGroups
<1>2. \A i \in Pos, v \in Users :
        n.member[i][v] = IF v = u /\ InGroup(u, i) /\ ~HasOwnEntry(u) THEN d ELSE s.member[i][v]
  BY Updated, AmongOwnGroups
<1>3. Votes(n)
  BY UpdateKeepsVotes DEF Ballots
<1>. HIDE DEF n
<1>4. RejectsAreVotes(n)
  <2>. SUFFICES ASSUME NEW i \in Pos, n.input[i] = "reject"
                PROVE  \E v \in Users :
                         \/ OwnEntry(v, i)
                         \/ n.member[i][v] = "reject"
                         \/ InGroup(v, i) /\ \E j \in Pos : OwnEntry(v, j) /\ n.input[j] = "reject"
    BY DEF RejectsAreVotes
  <2>1. CASE OwnEntry(u, i)
    BY <2>1
  <2>2. CASE InGroup(u, i) /\ HasOwnEntry(u)
    <3>1. PICK j \in Pos : OwnEntry(u, j)
      BY <2>2 DEF HasOwnEntry
    <3>. QED
      BY <1>1, <2>2, <3>1
  <2>3. CASE InGroup(u, i) /\ ~HasOwnEntry(u)
    BY <1>1, <1>2, <2>3
  <2>4. CASE ~OwnEntry(u, i) /\ ~InGroup(u, i)
    <3>1. PICK v \in Users :
            \/ OwnEntry(v, i)
            \/ s.member[i][v] = "reject"
            \/ InGroup(v, i) /\ \E j \in Pos : OwnEntry(v, j) /\ s.input[j] = "reject"
      BY <1>1, <2>4 DEF Ballots, RejectsAreVotes
    <3>2. CASE OwnEntry(v, i)
      BY <3>2
    <3>3. CASE s.member[i][v] = "reject"
      BY <1>2, <2>4, <3>3
    <3>4. ASSUME InGroup(v, i), NEW j \in Pos, OwnEntry(v, j), s.input[j] = "reject"
          PROVE  n.input[j] = "reject"
      <4>1. v # u
        BY <2>4, <3>4
      <4>2. ~InGroup(u, j)
        BY <3>4, UserOrGroup DEF OwnEntry, InGroup
      <4>3. ~OwnEntry(u, j)
        BY <3>4, <4>1 DEF OwnEntry
      <4>. QED
        BY <1>1, <3>4, <4>2, <4>3
    <3>. QED
      BY <3>1, <3>2, <3>3, <3>4
  <2>. QED
    BY <2>1, <2>2, <2>3, <2>4
<1>5. LinesTogether(n)
  <2>. SUFFICES ASSUME NEW v \in Users, NEW i \in Pos, n.member[i][v] # "absent"
                PROVE  /\ InGroup(v, i)
                       /\ \A j \in Pos : InGroup(v, j) => n.member[j][v] = n.member[i][v]
    BY DEF LinesTogether
  <2>1. CASE v = u /\ ~HasOwnEntry(u)
    <3>1. InGroup(u, i)
      BY <1>2, <2>1 DEF Ballots, LinesTogether
    <3>. QED
      BY <1>2, <2>1, <3>1
  <2>2. CASE ~(v = u /\ ~HasOwnEntry(u))
    BY <1>2, <2>2 DEF Ballots, LinesTogether
  <2>. QED
    BY <2>1, <2>2
<1>. QED
  BY <1>3, <1>4, <1>5 DEF Ballots, n

\* So an input reject means that somebody rejects.
LEMMA RejectingExists ==
    ASSUME NEW s \in SpecValue, Ballots(s), approvalTaskHasFalseInput(s)
    PROVE  Rejecting(s) # {}
<1>1. PICK i \in Pos : s.input[i] = "reject"
  BY DEF approvalTaskHasFalseInput
<1>2. PICK u \in Users :
        \/ OwnEntry(u, i)
        \/ s.member[i][u] = "reject"
        \/ InGroup(u, i) /\ \E j \in Pos : OwnEntry(u, j) /\ s.input[j] = "reject"
  BY <1>1 DEF Ballots, RejectsAreVotes
<1>3. s.member[i][u] = "reject" => IsGroup(i) /\ ~OwnEntry(u, i)
  BY DEF Ballots, Votes, LinesAreVotes, HasOwnEntry
<1>4. \E j \in Pos : Ballot(s, u, j) = "reject"
  BY <1>1, <1>2, <1>3 DEF Ballot
<1>. QED
  BY <1>4 DEF Rejecting

-----------------------------------------------------------------------------
(* Ballots as the status records them.                                     *)

\* What the status says of u at position i.
Recorded(st, u, i) == IF OwnEntry(u, i) THEN st.resp[i]
                      ELSE IF IsGroup(i) THEN st.member[i][u] ELSE "none"

\* The status is the record of the list.
IsRecord(st, s) == \A u \in Users, i \in Pos : Recorded(st, u, i) = Respond(Ballot(s, u, i))

\* What Respond makes of an input.
LEMMA Responds ==
    ASSUME NEW input
    PROVE  /\ Respond(input) \in Response
           /\ Respond(input) = "approved" <=> input = "approve"
           /\ Respond(input) = "rejected" <=> input = "reject"
           /\ Respond(input) # "none" <=> input \in Decision
  BY DEF Respond, Decision, Response

\* A status computed from a list is its record.
LEMMA EvaluationRecords ==
    ASSUME NEW s \in SpecValue, NEW st, Votes(s), Responders(s) # {}
    PROVE  IsRecord(updateApprovalState(s, st), s)
<1>. DEFINE n == updateApprovalState(s, st)
<1>. SUFFICES ASSUME NEW u \in Users, NEW i \in Pos
              PROVE  Recorded(n, u, i) = Respond(Ballot(s, u, i))
  BY DEF IsRecord
<1>1. n.resp[i] = ApproverResponse(s, i) /\ n.member[i] = GroupMembers(s, i)
  BY DEF updateApprovalState
<1>. HIDE DEF n
<1>2. CASE OwnEntry(u, i)
  BY <1>1, <1>2 DEF Recorded, Ballot, ApproverResponse, OwnEntry
<1>3. CASE ~OwnEntry(u, i) /\ IsGroup(i)
  <2>1. n.member[i][u] = IF s.input[i] \in Decision /\ u \notin ProcessedUserApprovers(s)
                         THEN Respond(s.member[i][u]) ELSE "none"
    BY <1>1, <1>3 DEF GroupMembers
  <2>2. s.member[i][u] \in Decision => s.input[i] \in Decision /\ ~HasOwnEntry(u)
    BY DEF Votes, LinesAreVotes, Decision
  <2>3. ~HasOwnEntry(u) => u \notin ProcessedUserApprovers(s)
    BY DEF HasOwnEntry, ProcessedUserApprovers
  <2>4. n.member[i][u] = Respond(s.member[i][u])
    BY <2>1, <2>2, <2>3, Responds
  <2>. QED
    BY <1>3, <2>4 DEF Recorded, Ballot
<1>4. CASE ~OwnEntry(u, i) /\ ~IsGroup(i)
  BY <1>4, Responds DEF Recorded, Ballot, Decision
<1>. QED
  BY <1>2, <1>3, <1>4

\* Nothing is recorded at first.
LEMMA NothingRecorded ==
    ASSUME NEW st \in {NoStatus, InitialStatus}
    PROVE  /\ \A u \in Users, i \in Pos : Recorded(st, u, i) = "none"
           /\ RespondedUsers(st) = {} /\ st.received = 0
<1>1. /\ InitialStatus.resp = NoStatus.resp /\ InitialStatus.member = NoStatus.member
      /\ InitialStatus.received = NoStatus.received
  BY DEF InitialStatus, NoStatus
<1>2. \A u \in Users, i \in Pos : NoStatus.resp[i] = "none" /\ NoStatus.member[i][u] = "none"
  BY DEF NoStatus
<1>3. NoStatus.received = 0
  BY DEF NoStatus
<1>4. \A u \in Users, i \in Pos : st.resp[i] = "none" /\ st.member[i][u] = "none"
  BY <1>1, <1>2
<1>5. st.received = 0
  BY <1>1, <1>3
<1>. QED
  BY <1>4, <1>5 DEF Recorded, RespondedUsers

\* A list without responses has no ballots.
LEMMA UnansweredBallots ==
    ASSUME NEW s \in SpecValue, Votes(s), Responders(s) = {}, NEW u \in Users, NEW i \in Pos
    PROVE  s.input[i] \notin Decision /\ Ballot(s, u, i) \notin Decision
<1>1. \A j \in Pos : s.input[j] \notin Decision
  BY DecisionResponds
<1>. QED
  BY <1>1 DEF Ballot, Votes, LinesAreVotes, Decision

\* A list that the webhook takes for somebody's vote has a response.
LEMMA AdmittedResponds ==
    ASSUME NEW o, NEW n \in SpecValue, Votes(n), NEW u \in Users, IsUserApprovalChanged(o, n, u)
    PROVE  Responders(n) # {}
<1>. DEFINE deciding == {i \in Pos : OwnEntry(u, i) \/ GroupChanged(o, n, u, i)}
            k        == Min(deciding)
<1>1. deciding # {} /\ (n.input[k] \in Decision \/ n.member[k][u] \in Decision)
  BY DEF IsUserApprovalChanged
<1>2. k \in Pos
  BY <1>1, FirstPosition
<1>. HIDE DEF k, deciding
<1>3. n.input[k] \in Decision
  BY <1>1, <1>2 DEF Votes, LinesAreVotes, Decision
<1>. QED
  BY <1>2, <1>3, DecisionResponds

\* The users whom `list' counts as having responded, and as having rejected.
LEMMA RespondedRecords ==
    ASSUME NEW st \in StatusValue
    PROVE  /\ RespondedUsers(st) = {u \in Users : \E i \in Pos : Recorded(st, u, i) # "none"}
           /\ rejected(st) = Cardinality({u \in Users : \E i \in Pos : Recorded(st, u, i) = "rejected"})
<1>1. \A u \in Users, i \in Pos : st.member[i][u] # "none" <=> st.member[i][u] \in {"approved", "rejected"}
  BY DEF StatusValue, Response
<1>2. \A u \in Users, i \in Pos : OwnEntry(u, i) => ~IsGroup(i)
  BY UserOrGroup DEF OwnEntry
<1>3. \A u \in Users, i \in Pos :
        Recorded(st, u, i) # "none" <=>
            \/ OwnEntry(u, i) /\ st.resp[i] # "none"
            \/ IsGroup(i) /\ st.member[i][u] \in {"approved", "rejected"}
  BY <1>1, <1>2 DEF Recorded
<1>4. \A u \in Users, i \in Pos :
        Recorded(st, u, i) = "rejected" <=>
            \/ OwnEntry(u, i) /\ st.resp[i] = "rejected"
            \/ IsGroup(i) /\ st.member[i][u] = "rejected"
  BY <1>2 DEF Recorded
<1>5. RespondedUsers(st) = {u \in Users : \E i \in Pos : Recorded(st, u, i) # "none"}
  BY <1>3 DEF RespondedUsers
<1>6. rejected(st) = Cardinality({u \in Users : \E i \in Pos : Recorded(st, u, i) = "rejected"})
  BY <1>4, Zenon DEF rejected
<1>. QED
  BY <1>5, <1>6

\* With nobody rejecting, the record counts what the controller counts.
LEMMA RecordCount ==
    ASSUME NEW s \in SpecValue, NEW st \in StatusValue, Ballots(s), IsRecord(st, s), Rejecting(s) = {}
    PROVE  Cardinality(RespondedUsers(st)) = countApprovalsReceived(s)
<1>1. \A u \in Users, i \in Pos : Ballot(s, u, i) # "reject"
  BY DEF Rejecting
<1>2. \A u \in Users, i \in Pos : Recorded(st, u, i) # "none" <=> Ballot(s, u, i) = "approve"
  BY <1>1, Responds DEF IsRecord, Decision
<1>3. RespondedUsers(st) = Approving(s)
  BY <1>2, RespondedRecords DEF Approving
<1>4. ApprovedUsers(s) = Approving(s)
  BY OpenCount, RejectingExists DEF Ballots
<1>. QED
  BY <1>3, <1>4 DEF countApprovalsReceived
=============================================================================
