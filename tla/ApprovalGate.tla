---------------------------- MODULE ApprovalGate ----------------------------
(***************************************************************************)
(* One CustomRun, its ApprovalTask and everybody who touches them: the     *)
(* controller's reconcile loop, the informer cache and work queue in front *)
(* of it, the API server with optimistic concurrency, the webhook, and the *)
(* approvers' CLI.                                                         *)
(*                                                                         *)
(* A reconcile is several API calls.  Each call is one action, so that     *)
(* votes, clock ticks, cache updates, failures and a controller restart    *)
(* may come between any two of them.                                       *)
(***************************************************************************)
EXTENDS ApprovalCLI, ApprovalWebhook

CONSTANTS
    ParamForms,     \* the forms in which a run may carry its parameters
    Timeout,        \* the run's timeout, in clock ticks
    MaxFaults,      \* bound: failed API calls and restarts
    MaxCommands,    \* bound: approve and reject commands started
    Ctl             \* the controller, as a client of the API server

\* "invalid": ValidateCustomRunParameters or ParseDuration refuses them.
\* "array":   approvers given as an array; they become ApproverList.
\* "json":    approvers given as a JSON string, which the validation parses
\*            but createApprovalTask does not read: no approvers at all.
ASSUME ParamFormsType == ParamForms \subseteq {"array", "json", "invalid"}
ASSUME TimeoutType == Timeout \in Nat
ASSUME BoundsType == MaxFaults \in Nat /\ MaxCommands \in Nat
ASSUME CtlIsNoUser == Ctl \notin Users

VARIABLES
    \* CustomRun as stored, and the informer's copy of its status and labels
    params, run, cache,
    \* ApprovalTask as stored; holders: the clients whose copy still carries
    \* the stored resourceVersion
    created, spec, status, holders,
    \* work queue: is the key queued, ticks until the delayed add
    queue, timer,
    \* ticks since the ApprovalTask's creationTimestamp
    elapsed,
    \* the reconcile in progress: next step, the run as read, as modified, the
    \* ApprovalTask as fetched, the result to return
    pc, orig, mine, seen, result,
    \* the approvers' commands in flight
    cli,
    faults, commands

runVars  == <<params, run, cache>>
taskVars == <<created, spec, status, holders>>
timeVars == <<queue, timer, elapsed>>
locals   == <<orig, mine, seen, result>>
userVars == <<cli, commands>>
vars == <<runVars, taskVars, timeVars, pc, locals, userVars, faults>>

Clients   == Users \cup {Ctl}
Steps     == {"idle", "get", "create", "refetch", "initStatus", "decide", "labels", "finish"}
NoTimer   == -1
Condition == {"Unknown", "True", "False"}

\* started: StartTime is set; cond: the Succeeded condition; audit: ExtraFields
\* hold the ApprovalTask's spec; labelled: labels propagated to the metadata.
RunValue == [started : BOOLEAN, cond : Condition, audit : BOOLEAN, labelled : BOOLEAN]
NewRun   == [started |-> FALSE, cond |-> "Unknown", audit |-> FALSE, labelled |-> FALSE]

\* What a reconcile returns: nil, an error, or a request to come back.
Result   == [kind : {"nil", "error", "requeue"}, wait : 0 .. Timeout + 1]
Nil      == [kind |-> "nil", wait |-> 0]
Error    == [kind |-> "error", wait |-> 0]
Requeue(ticks) == [kind |-> "requeue", wait |-> ticks]

NotSeen == [spec |-> InitialSpec, status |-> NoStatus]

\* A command in flight: the decision to deliver and the user's groups.
Idle    == [input |-> "idle", groups |-> {}]
Command == [input : Decision, groups : SUBSET STRING] \cup {Idle}

IsDone(r) == r.cond # "Unknown"

Init ==
    /\ params \in ParamForms
    /\ run = NewRun /\ cache = NewRun
    /\ created = FALSE /\ spec = InitialSpec /\ status = NoStatus /\ holders = {}
    /\ queue = TRUE /\ timer = NoTimer /\ elapsed = 0
    /\ pc = "idle" /\ orig = NewRun /\ mine = NewRun /\ seen = NotSeen /\ result = Nil
    /\ cli = [u \in Users |-> Idle] /\ commands = 0
    /\ faults = 0

-----------------------------------------------------------------------------
(* Steps inside a reconcile.                                               *)

Goto(step) == pc' = step
Return(r)  == Goto("finish") /\ result' = r

\* Any call to the API server may fail without effect.
CallFails == faults < MaxFaults /\ faults' = faults + 1

\* Slip: the ApprovalTask is not watched.
TaskWritten_NotWatched == holders' = {} /\ UNCHANGED queue

\* A write of the ApprovalTask: every copy is out of date, the informer
\* enqueues the key (object and run share one name).
TaskWritten == holders' = {} /\ queue' = TRUE

\* Dequeue the key and run ReconcileKind up to its first API call: the run is
\* read from the informer's cache.  A done run ends it, and so do parameters
\* that fail validation.
StartReconcile ==
    /\ pc = "idle" /\ queue
    /\ queue' = FALSE
    /\ orig' = cache
    /\ LET begun == [cache EXCEPT !.started = TRUE]
       IN  IF IsDone(begun) THEN mine' = begun /\ Return(Nil)
           ELSE IF params = "invalid"
           THEN mine' = [begun EXCEPT !.cond = "False"] /\ Return(Nil)
           ELSE mine' = begun /\ Goto("get") /\ UNCHANGED result
    /\ UNCHANGED <<runVars, taskVars, timer, elapsed, seen, userVars, faults>>

\* Slip: the empty object is evaluated although it has no responses, and no
\* approvals out of none required are enough.
ReconcileEmpty_Approves == mine' = [mine EXCEPT !.cond = "True"] /\ Return(Requeue(1))

\* reconcile with the empty object.  Its start time is zero, which is never
\* timed out (IsZero) but leaves no time to wait; it has no approvers and so no
\* responses, without which updateApprovalState neither computes nor writes a
\* state, and the empty state marks no run.
ReconcileEmpty == UNCHANGED mine /\ Return(Requeue(1))

\* getOrCreateApprovalTask: Get.  An error other than NotFound is dropped and
\* the empty object is used; no call follows before the reconcile ends.
GetApprovalTask ==
    /\ pc = "get"
    /\ \/ /\ created
          /\ Goto("decide") /\ seen' = [spec |-> spec, status |-> status]
          /\ holders' = holders \cup {Ctl}
          /\ UNCHANGED <<mine, result, faults>>
       \/ /\ ~created
          /\ Goto("create")
          /\ UNCHANGED <<seen, holders, mine, result, faults>>
       \/ /\ CallFails
          /\ ReconcileEmpty
          /\ UNCHANGED <<seen, holders>>
    /\ UNCHANGED <<runVars, created, spec, status, timeVars, orig, userVars>>

\* createApprovalTask: Create, subject to the webhook.
CreateApprovalTask ==
    LET approvers == IF params = "array" THEN ApproverList ELSE << >>
        admitted  == AdmitCreate(approvers, Required, InitialSpec)
    IN  /\ pc = "create"
        /\ \/ /\ admitted
              /\ created' = TRUE /\ spec' = InitialSpec /\ status' = NoStatus
              /\ TaskWritten /\ elapsed' = 0
              /\ Goto("refetch")
              /\ UNCHANGED <<result, faults>>
           \/ /\ ~admitted
              /\ Return(Error)
              /\ UNCHANGED <<taskVars, queue, elapsed, faults>>
           \/ /\ CallFails
              /\ Return(Error)
              /\ UNCHANGED <<taskVars, queue, elapsed>>
        /\ UNCHANGED <<runVars, timer, orig, mine, seen, userVars>>

\* createApprovalTask: the Get after the Create.  An object deleted in
\* between is an error like any other.
RefetchApprovalTask ==
    /\ pc = "refetch"
    /\ \/ /\ created
          /\ Goto("initStatus")
          /\ seen' = [spec |-> spec, status |-> status]
          /\ holders' = holders \cup {Ctl}
          /\ UNCHANGED <<result, faults>>
       \/ /\ ~created
          /\ Return(Error)
          /\ UNCHANGED <<seen, holders, faults>>
       \/ /\ CallFails
          /\ Return(Error)
          /\ UNCHANGED <<seen, holders>>
    /\ UNCHANGED <<runVars, created, spec, status, timeVars, orig, mine, userVars>>

\* createApprovalTask: the first UpdateStatus.  What it returns is the object
\* fetched before the write, status replaced, resourceVersion out of date.
InitializeStatus ==
    /\ pc = "initStatus"
    /\ \/ /\ Ctl \in holders
          /\ status' = InitialStatus
          /\ seen' = [seen EXCEPT !.status = InitialStatus]
          /\ TaskWritten
          /\ Goto("decide")
          /\ UNCHANGED <<result, faults>>
       \/ /\ Ctl \notin holders
          /\ Return(Error)
          /\ UNCHANGED <<status, seen, holders, queue, faults>>
       \/ /\ CallFails
          /\ Return(Error)
          /\ UNCHANGED <<status, seen, holders, queue>>
    /\ UNCHANGED <<runVars, created, spec, timer, elapsed, orig, mine, userVars>>

\* Slip: the task times out at the deadline, not after it.
ApprovalTaskHasTimedOut_AtDeadline == elapsed >= Timeout

ApprovalTaskHasTimedOut == elapsed > Timeout

\* Slip: no wake-up is asked for when the deadline is now.
WaitForTimeout_NotAtDeadline ==
    IF Timeout - elapsed <= 0 THEN Nil ELSE Requeue(Timeout - elapsed)

\* The end of reconcile: come back when the timeout is due, or in one tick.
WaitForTimeout == Requeue(IF Timeout - elapsed <= 0 THEN 1 ELSE Timeout - elapsed)

\* Slip: Update is called instead of UpdateStatus; it leaves the status alone.
StatusWritten_WrongCall(st, reordered) == UNCHANGED status /\ TaskWritten

\* UpdateStatus of the fetched object with a new status.  The API server
\* drops a write that changes nothing; two or more responses are written in
\* the random order of a Go map, so repeating them may count as a change.
StatusWritten(st, reordered) ==
    /\ status' = st
    /\ IF st # status \/ reordered THEN TaskWritten ELSE UNCHANGED <<holders, queue>>

\* reconcile after the deadline: the task is rejected whatever it says, the
\* run is marked failed once that write went through.
RejectOnTimeout ==
    /\ pc = "decide" /\ ApprovalTaskHasTimedOut
    /\ \/ /\ Ctl \in holders
          /\ StatusWritten([seen.status EXCEPT !.state = "rejected"], FALSE)
          /\ mine' = [mine EXCEPT !.cond = "False"]
          /\ Goto("labels")
          /\ UNCHANGED <<result, faults>>
       \/ /\ Ctl \notin holders
          /\ Return(Error)
          /\ UNCHANGED <<status, holders, queue, mine, faults>>
       \/ /\ CallFails
          /\ Return(Error)
          /\ UNCHANGED <<status, holders, queue, mine>>
    /\ UNCHANGED <<runVars, created, spec, timer, elapsed, orig, seen, userVars>>

\* Slip: the rejected state is not passed on to the run.
MarkRun_ApprovedOnly(r, state) ==
    IF state = "approved" THEN [r EXCEPT !.cond = "True"] ELSE r

\* The condition that checkIfUpdateRequired gives the run for a task's state.
MarkRun(r, state) ==
    CASE state = "rejected" -> [r EXCEPT !.cond = "False"]
      [] state = "approved" -> [r EXCEPT !.cond = "True"]
      [] OTHER              -> r

\* checkIfUpdateRequired before the deadline: recompute the status from the
\* fetched spec, write it, and mark the run from the state written.
EvaluateInputs ==
    LET st   == updateApprovalState(seen.spec, seen.status)
        some == Responders(seen.spec) # {}
    IN  /\ pc = "decide" /\ ~ApprovalTaskHasTimedOut
        /\ \/ /\ ~HashChanged(seen.spec)
              /\ Return(WaitForTimeout)
              /\ UNCHANGED <<status, holders, queue, mine, faults>>
           \/ /\ HashChanged(seen.spec)
              /\ some => Ctl \in holders
              /\ IF some
                 THEN \E reordered \in BOOLEAN :
                        /\ reordered => Cardinality(Responders(seen.spec)) > 1
                        /\ StatusWritten(st, reordered)
                 ELSE UNCHANGED <<status, holders, queue>>
              /\ mine' = MarkRun(mine, st.state)
              /\ Return(WaitForTimeout)
              /\ UNCHANGED faults
           \/ /\ HashChanged(seen.spec) /\ some /\ Ctl \notin holders
              /\ Return(Error)
              /\ UNCHANGED <<status, holders, queue, mine, faults>>
           \/ /\ HashChanged(seen.spec) /\ some /\ CallFails
              /\ Return(Error)
              /\ UNCHANGED <<status, holders, queue, mine>>
        /\ UNCHANGED <<runVars, created, spec, timer, elapsed, orig, seen, userVars>>

\* updateLabelsAndAnnotations and EncodeExtraFields: reached only when
\* reconcile returned nil, which only the timeout path does.
PropagateLabels ==
    /\ pc = "labels"
    /\ mine' = [mine EXCEPT !.audit = TRUE]
    /\ \/ /\ run' = IF cache.labelled THEN run ELSE [run EXCEPT !.labelled = TRUE]
          /\ Return(Nil)
          /\ UNCHANGED faults
       \/ /\ ~cache.labelled /\ CallFails
          /\ Return(Error)
          /\ UNCHANGED run
    /\ UNCHANGED <<params, cache, taskVars, timeVars, orig, seen, userVars>>

AddAfter(ticks) == timer' = IF timer = NoTimer \/ ticks < timer THEN ticks ELSE timer

\* The generated reconciler's tail: the run's status is written when it
\* changed, over whatever is stored (conflicts are retried on a fresh copy);
\* then the queue is told about the result.
FinishReconcile ==
    /\ pc = "finish"
    /\ Goto("idle") /\ orig' = NewRun /\ mine' = NewRun /\ seen' = NotSeen /\ result' = Nil
    /\ holders' = holders \ {Ctl}
    /\ LET changed == [mine EXCEPT !.labelled = orig.labelled] # orig
       IN  \/ /\ run' = IF changed THEN [mine EXCEPT !.labelled = run.labelled] ELSE run
              /\ queue' = (queue \/ result.kind = "error")
              /\ IF result.kind = "requeue" THEN AddAfter(result.wait) ELSE UNCHANGED timer
              /\ UNCHANGED faults
           \/ /\ changed /\ CallFails
              /\ queue' = TRUE
              /\ UNCHANGED <<run, timer>>
    /\ UNCHANGED <<params, cache, created, spec, status, elapsed, userVars>>

-----------------------------------------------------------------------------
(* Around the reconcile: informer, queue, clock, restart.                  *)

\* The run's change reaches the informer, which enqueues the key.
CacheSync ==
    /\ cache # run
    /\ cache' = run /\ queue' = TRUE
    /\ UNCHANGED <<params, run, taskVars, timer, elapsed, pc, locals, userVars, faults>>

\* A late or repeated event, or the informers' periodic resync.  During a
\* reconcile it only marks the key for later, as it does right after it.
Resync ==
    /\ pc = "idle" /\ ~queue
    /\ queue' = TRUE
    /\ UNCHANGED <<runVars, taskVars, timer, elapsed, pc, locals, userVars, faults>>

TimerFires ==
    /\ timer = 0
    /\ timer' = NoTimer /\ queue' = TRUE
    /\ UNCHANGED <<runVars, taskVars, elapsed, pc, locals, userVars, faults>>

\* The task, or the copy of it that a reconcile goes by, has an age.
Ageing == (created \/ pc = "decide") /\ elapsed <= Timeout

\* Time passes.  Beyond one tick after the deadline it makes no difference.
Tick ==
    /\ Ageing \/ timer > 0
    /\ elapsed' = IF Ageing THEN elapsed + 1 ELSE elapsed
    /\ timer' = IF timer > 0 THEN timer - 1 ELSE timer
    /\ UNCHANGED <<runVars, taskVars, queue, pc, locals, userVars, faults>>

\* The controller is restarted: the reconcile in progress, the queue and its
\* timers are gone; the informers list everything again.
Restart ==
    /\ faults < MaxFaults /\ faults' = faults + 1
    /\ Goto("idle") /\ orig' = NewRun /\ mine' = NewRun /\ seen' = NotSeen /\ result' = Nil
    /\ holders' = holders \ {Ctl}
    /\ cache' = run /\ queue' = TRUE /\ timer' = NoTimer
    /\ UNCHANGED <<params, run, created, spec, status, elapsed, userVars>>

-----------------------------------------------------------------------------
(* The approvers.                                                          *)

\* A command up to its Get: it finds out who the user is, fetches the object
\* and goes on if the user is listed.
CliGet(u, d) ==
    /\ cli[u] = Idle /\ commands < MaxCommands
    /\ created
    /\ \E groups \in getUserInfo(u) :
            /\ containsUsername(u, groups)
            /\ cli' = [cli EXCEPT ![u] = [input |-> d, groups |-> groups]]
    /\ commands' = commands + 1
    /\ holders' = holders \cup {u}
    /\ UNCHANGED <<runVars, created, spec, status, timeVars, pc, locals, faults>>

Approve(u) == CliGet(u, "approve")
Reject(u)  == CliGet(u, "reject")

\* The object as the command of u sends it back.
Edited(u) == update(spec, u, cli[u].input, cli[u].groups)

Admitted(u) ==
    /\ u \in holders
    /\ AdmitUpdate(spec, Edited(u), status, u)

\* update: the edited object is sent back; the stored status is not touched
\* (it is a subresource).
CliUpdate(u) ==
    /\ cli[u] # Idle
    /\ cli' = [cli EXCEPT ![u] = Idle]
    /\ \/ /\ Admitted(u)
          /\ spec' = Edited(u)
          /\ TaskWritten
       \/ /\ ~Admitted(u)
          /\ holders' = holders \ {u}
          /\ UNCHANGED <<spec, queue>>
    /\ UNCHANGED <<runVars, created, status, timer, elapsed, pc, locals, commands, faults>>

-----------------------------------------------------------------------------
(* The specification.                                                      *)

ReconcileStep ==
    \/ StartReconcile
    \/ GetApprovalTask
    \/ CreateApprovalTask
    \/ RefetchApprovalTask
    \/ InitializeStatus
    \/ RejectOnTimeout
    \/ EvaluateInputs
    \/ PropagateLabels
    \/ FinishReconcile

Next ==
    \/ ReconcileStep
    \/ CacheSync \/ Resync \/ TimerFires \/ Tick \/ Restart
    \/ \E u \in Users : Approve(u) \/ Reject(u) \/ CliUpdate(u)

Spec == Init /\ [][Next]_vars

\* The worker keeps working, watches deliver, timers fire and time passes.
\* Nobody has to vote, and nothing has to fail.
Fairness ==
    /\ WF_vars(ReconcileStep)
    /\ WF_vars(CacheSync)
    /\ WF_vars(TimerFires)
    /\ WF_vars(Tick)

FairSpec == Spec /\ Fairness

\* The worker and the watches keep working, but no time need pass.
PromptSpec == Spec /\ WF_vars(ReconcileStep) /\ WF_vars(CacheSync)
=============================================================================
