# Formal models of manual-approval-gate

TLA+ models of the approval gate for Tekton pipelines, the TLC configurations
that check them on small instances, and theorems about them proved with TLAPS.

## 1. The system

A pipeline that contains an approval point creates a Tekton **CustomRun**. The
controller of this repository gives that run an **ApprovalTask** object, people
vote by editing the inputs in that object's spec, an admission webhook judges
every edit, and the controller turns the inputs into a state (`pending`,
`approved`, `rejected`) and the state into the run's `Succeeded` condition. A
run that is not decided in time is rejected.

| Component | Source | State it keeps | Operations |
|---|---|---|---|
| ApprovalTask type | `pkg/apis/approvaltask/v1alpha1` | spec (approvers, inputs, required number), status (state, count, responses), stored by the API server | timeout test, defaulting of the approver type |
| Controller: parameters | `pkg/reconciler/approvaltask/utils.go` | none | `ValidateCustomRunParameters`, the list built in `createApprovalTask` |
| Controller: evaluation | `utils.go` | none (a function of spec and old status) | `countApprovalsReceived`, `approvalTaskHasTrueInput`/`FalseInput`, `updateApprovalState` |
| Controller: reconcile loop | `approvaltask.go`, `utils.go`, `controller.go` | the run (modified copy), the fetched ApprovalTask | `ReconcileKind`: Get, Create, second Get, UpdateStatus, timeout, evaluation, labels and extra fields |
| Generated reconciler, work queue | vendored Tekton and knative code | informer cache, queue, delayed adds | read from the lister, status write with conflict retry, requeue |
| Admission webhook | `pkg/reconciler/webhook/webhook.go` | none | `Admit` for CREATE and UPDATE |
| Webhook configuration | `webhook.go`, `pkg/reconciler/webhook/controller.go`, `cmd/webhook` | the `ValidatingWebhookConfiguration`; copies of it and of the secret, a work queue, leadership | `Reconcile`: fill in rules, path and CA bundle, Update |
| CLI approve, reject | `pkg/actions`, `pkg/cli/cmd`, `pkg/cli/params.go` | the object as fetched | `getUserInfo`, Get, check, edit, Update |
| CLI list, describe | `pkg/cli/cmd/list`, `describe` | none | figures and tables from the status |
| Processes | `cmd/` | none | start, restart |

How they interact: everything goes through the API server. The controller and
the CLI send updates that carry a `resourceVersion`, so that an update of an
object that moved on is refused. The status is a subresource: the CLI cannot
write it, and the webhook does not see writes of it. Changes of the run and of
the ApprovalTask come back to the controller as watch events that put the
run's key in the work queue (run and task share name and namespace).

What is hard here, and hardly reached by the unit tests:

* a reconcile is up to five API calls, with votes, clock ticks, failures and
  restarts possible between any two of them;
* the run is read from a cache that may be older than the run's own completion;
* the webhook's check for "already decided" reads the status, which the
  controller writes some time after the input it describes;
* a group has one input for all of its members, next to a line per member;
* the timeout lives in an in-memory delayed queue, and races the last vote;
* a user may be listed, be in a listed group, and be in several groups, and the
  CLI and the webhook may not agree on which;
* other clients may send a list of approvers they read long ago, or delete the
  task of an open run;
* the webhook is consulted only if its configuration is right, which it keeps
  right itself, from copies, in several pods, while certificates rotate.

What makes each part correct: the controller neither succeeds without the
required number of distinct approving users nor fails without a rejected task,
misses no decision, and always comes back for the timeout; the webhook freezes
a decided task and locks nobody out who still has a decision to take; the CLI
makes edits that the webhook admits and shows figures that agree with the
controller's; parameters that pass validation lead to a task that the webhook
admits. The complete list of hazards, each at its line, is in `PROJECT.json`.

## 2. Modules

```
ApprovalTask ──┬── ApprovalCLI ──────┐                                            ┌── MCGate
               └── ApprovalWebhook ──┴── ApprovalGate ── ApprovalGateProperties ──┼── ApprovalGateClients ── MCClients
                                             (INSTANCE)── ApprovalVerdict         └── ApprovalGateDeletion ── MCDeletion
ApprovalParams ── MCParams
WebhookConfig ── MCWebhookConfig
```

and the proofs, which extend the modules they are about:

```
ApprovalGateProofs ── ApprovalVerdictProofs ── ApprovalRestProofs ──┬── ApprovalRecordProofs ── ApprovalClientsProofs
                                                                    └── ApprovalDeletionProofs
ApprovalParamsProofs        WebhookConfigProofs
```

* **ApprovalTask**: values of spec and status, and the functions by which the
  controller derives one from the other, under their names in `utils.go`. The
  approver list is a constant, because no client modelled here changes more than
  inputs (see *Scope of the requests* below); a spec is the inputs by position,
  and for a group also the input of each user listed under it (`"absent"` when
  not listed).
* **ApprovalCLI**: what the commands compute: the user and groups they work
  with (what the API server authenticates, or the User object when that request
  fails), the edit made by `approve` and `reject`, and from the status the figures
  and words of `list` and the rows of `describe`.
* **ApprovalWebhook**: `Admit`, split as the code splits it: structure, final
  state, membership, earlier decision, own change, other people's changes.
* **ApprovalGate**: the state machine that composes them. Its variables are
  the stored run and its cached copy, the stored ApprovalTask, the queue and
  its delayed add, the clock, the local variables of the reconcile in progress,
  and the commands in flight. One action per API call of a reconcile, plus the
  informer, the clock, the restart and the two round trips of the CLI.
* **ApprovalGateProperties**: what the gate promises. Ballots are read off the
  stored inputs there, independently of the functions that count them.
* **ApprovalParams**: from the run's parameters to the list of approvers:
  validation, construction (one step per name that `createApprovalTask` walks
  over), and the webhook's structural validation.
* **ApprovalVerdict**: the abstract specification: votes, grounds for refusal,
  one verdict, and what the pipeline is told. No copies, calls or queues.
* **ApprovalGateClients**: the gate with clients that prepare a merge patch of the
  approvers and send it later, without a resourceVersion (as `test/e2e_test.go`
  patches), and a history of the decisions accepted.
* **ApprovalGateDeletion**: the gate when the ApprovalTask of an open run is
  deleted, and a history of the inputs on which a task was approved.
* **WebhookConfig**: the webhook's reconciler of its own configuration, in
  several pods. It stands alone: its only relation to the gate is that the gate's
  models assume what it establishes, that the webhook is asked.
* **MCGate**, **MCClients**, **MCDeletion**, **MCParams**, **MCWebhookConfig**: the
  small instances.
* **ApprovalGateProofs**, **ApprovalVerdictProofs**, **ApprovalRestProofs**,
  **ApprovalRecordProofs**, **ApprovalDeletionProofs**, **ApprovalClientsProofs**,
  **ApprovalParamsProofs**, **WebhookConfigProofs**: the theorems (section 4).

Operators commented `Slip:` are plausible mistakes in the code that the next
operator models (a dropped guard, a count per entry instead of per user). They
are used by nothing; `PROJECT.json` pairs each with the property that detects it
when it takes the place of the correct operator.

### Correspondence of `ApprovalGate` with the code

| Action | Code |
|---|---|
| `StartReconcile` | dequeue; the lister read of the generated reconciler; `ReconcileKind` up to its first API call, with the returns for a finished run and for invalid parameters |
| `GetApprovalTask` | `getOrCreateApprovalTask`: Get. Found, NotFound, or an error that the code drops, going on with an empty object (`ReconcileEmpty`: what `reconcile` makes of an object without start time, approvers and responses) |
| `CreateApprovalTask`, `RefetchApprovalTask`, `InitializeStatus` | the three calls of `createApprovalTask` |
| `RejectOnTimeout` | `reconcile` when `ApprovalTaskHasTimedOut` |
| `EvaluateInputs` | `checkIfUpdateRequired` with `updateApprovalState`, and the request to come back that ends `reconcile` |
| `PropagateLabels` | what `ReconcileKind` does after a nil return: labels, annotations, extra fields |
| `FinishReconcile` | the tail of the generated reconciler: status write if it changed, then the work queue's treatment of the result |
| `CacheSync`, `Resync`, `TimerFires` | informer events, late or repeated events and the periodic resync, `AddAfter` |
| `Tick`, `Restart` | the clock; the controller process started again |
| `Approve`, `Reject` | the commands up to their Get (`CliGet`): user information, the object, is the user listed |
| `CliUpdate` | `update` and its answer, with the webhook's judgement |
| `PreparePatch`, `SendPatch` | (ApprovalGateClients) another client reads the list and edits it; its patch is applied and judged |
| `DeleteTask` | (ApprovalGateDeletion) the object is removed; the delete event enqueues the key |

### Correspondence of `WebhookConfig` with the code

| Action | Code |
|---|---|
| `Reconcile` | `Reconcile` and `reconcileValidatingWebhook` up to the API call: leader check, secret, configuration, service reference, comparison |
| `Update` | the `Update` call: done, refused because the copy was old, failed, or done with the answer lost |
| `SyncSecret`, `SyncConfig` | the two informer handlers of `NewAdmissionController`, which enqueue the key |
| `Promote`, `Demote` | leader election; `PromoteFunc` enqueues the key |
| `Restart` | `main` of `cmd/webhook`: informers list everything, the key is enqueued |
| `Rotate`, `Edit` | the certificates controller (vendored); somebody applies a manifest or removes the configuration |

Rules and path are "as wanted" or not, a certificate is its number, and an
entry has a service reference or none. Entries under other names, which the code
skips, show in `entry` being false. A pod has one key and one worker. The code's
handlers enqueue different keys (`controller.go:37`, `63`, `73`), which may be
worked on at once; two such reconciles race as those of two pods do, and like them
are kept apart by the resourceVersion alone.

Abstractions, and why they lose nothing that the properties look at:

* *Optimistic concurrency*: `holders` is the set of clients whose copy still
  has the stored resourceVersion. A write empties it; an update by a client
  outside it is refused. A write that changes nothing does not produce a new
  version, as in the API server; the responses, however, come out of a Go map,
  so two or more of them may be written in another order (`reordered`).
* *The hash annotation* is computed at creation and never refreshed, so "the
  hash changed" is "the spec is not the initial one".
* *Reading the clock* and the UpdateStatus that follows it are one step: the
  clock is local, and a tick between the two can be moved before the first or
  after the second.
* *Scope of the requests*: the updates put to the webhook keep the names, types,
  order and number of the approvers and the required number. `update` of the
  commands and the patches of `test/e2e_test.go` do, but the webhook does not insist
  on it: `webhook.go:518-597` walks the old list and compares inputs by index, and
  `Admit` compares neither the required number nor what a longer list appends. The
  code's bounds checks (`webhook.go:362`, `382`, `394`, `422`) are true in this scope.
  What the project states of requests is stated within it, and says nothing about a
  client that edits anything else, or a group's input without a line of its own.
* *Extra fields*: the error path of `DecodeExtraFields` is left out, since only
  `EncodeExtraFields` writes what it reads.
* *One key*: the gate has one run. Runs share nothing but the worker.
* *Messages, descriptions, events, log lines* are left out: no decision reads
  them.
* *Failures*: a failed call has no effect. A call that took effect although
  its answer was lost is covered for the status writes by a restart right after
  the write; for the CLI by a command that is not repeated.
* *Strings in parameters* are an identity and a shape (`plain`, `blank`,
  `spaced`, `colon`, `detached`), the shape being all that the two validations
  look at.

## 3. Runs

TLC is run with deadlock checking, except for the parameter pipeline, which
really ends, and for the webhook's configuration, which comes to rest once the
bounds on what others do are used up.

| Run | Instance | Shows |
|---|---|---|
| `faults` | one user and a group of two, two approvals required, all forms of parameters; three commands, or two and one failed call or restart anywhere | `TypeOK`, `SuccessNeedsQuorum`, `ApprovedIsCounted`, `FailureMeansRejected`, `RejectionHasCause`, `WakeupArmed`, `NothingMissed`, `SettledTogether`, `TablesAgree`, `ListAgrees`, `RejectedIsPermanent`, `FailureNeverSucceeds`, `QuorumFreezesInputs`, and the refinement `ImplementsVerdict` |
| `overlap` | a listed user who is also in a listed group, another in two groups; three commands, `PromptSpec` (no time need pass) | `SuccessNeedsQuorum`, `OpenDecisionsAdmitted`, `ListAgrees`, `TablesAgree`, `DecisionSettles` |
| `live` | individual approvers only (one in the v0.6.0 form), both required, valid and invalid parameters, two commands, one failed call, restart or deletion, `FairSpecDeletion` | `RunEnds`, `SuccessWasVoted`, `OpenRunHasTask` |
| `clients` | two groups; one person in both, who patches as well and whose User object names only one, another whose User object names one group too many; three commands and patches | `BallotsAreCurrent`, `AcceptedVoteCounts`, `LostVoteCanBeRecast`, `ImplementsVerdict` |
| `params` | every approvers parameter of up to three entries, in every form and shape | `ValidatedIsAdmitted`, `ListedAsNamed` |
| `webhook_config` | two pods, four manifests (as released, with another service, broken, renamed), two certificates, one edit, two failures, restarts or changes of leader | `RestIsProtected`, `OthersFieldsStay`, `Converges` |

`NothingMissed` allows for failures: after a failed Get the code goes on with an
empty object, and the vote waits for the retry one second later, with the timer
running; until then the responses in the status are behind the votes, so that
`TablesAgree` and `LostVoteCanBeRecast`, which rest on the responses, allow for the
same tick. `SettledTogether` says `faults = 0` because a restart after the timeout
was written to a task whose run had already succeeded (see `final_state` below)
leaves the two telling different stories for good.

### The abstract specification

`ImplementsVerdict` maps the gate to `ApprovalVerdict`: the approvals that count are
`ApprovedUsers` of the stored spec, the grounds are invalid parameters, a stored
`reject`, and the age of the task, the verdict is the stored state, and what the
pipeline is told is the run's condition. Every step of the gate is then an abstract
step or a stutter (checked in `faults`, and with patches in `clients`; proved as
`GateImplementsVerdict` and `ClientsImplementVerdict`). Two clauses of the
abstraction are weaker than one would write down at first, because the code is:

* `Deny` may follow `approved` once the timeout is a ground (the finding
  `final_state`);
* `Withdraw`: a run already told may be shown as undecided again. A reconcile
  that starts from a cached copy older than the run's first status write, and
  whose Get fails, sets the start time anew; the generated reconciler resolves
  the conflict by writing that status over the stored one. `RunEnds` shows that
  the run is told again.

### Disagreements between the code and what is said of it

Six runs state what a comment or a document says and end in a
counterexample. The quotations are in `PROJECT.json`, under `findings`.

| Run | Counterexample |
|---|---|
| `lost_rejection` | a member's approval overwrites the group's input before another member's rejection was reconciled; the task is approved with that rejection on record |
| `retracted_rejection` | a user who rejected may approve afterwards, until the controller has recorded the rejection |
| `final_state` | the run's success has not reached the informer's cache; a reconcile past the deadline turns the approved task into a rejected one, and then the run into a failed one. A failed status write of the run has the same effect |
| `json_approvers` | approvers given as a JSON string pass the validation and are not read by the construction: the Create is denied and retried, and the run never ends, not even by timeout |
| `dropped_line` | a patch prepared before another member's vote takes that member's line away; what is lost can be given again (`LostVoteCanBeRecast`), and nothing but a missing line gets through (`BallotsAreCurrent`) |
| `same_name` | of a user and a group of one name, as in the repository README's own example, only the first becomes an approver: `AddApprover` is keyed by the bare name |

More observations, for which no run is kept:

* When the controller stops or a call fails between Create and the first
  UpdateStatus, no later reconcile writes the state `pending`; the state stays
  empty until a decision or the timeout. The webhook and the controller treat
  the empty state as pending.
* Before the deadline `reconcile` always asks to be called again, which
  `ReconcileKind` treats as an error and returns before the extra fields are
  encoded: a run decided by votes never carries the task's spec, although
  approvaltask.go:204 stores it "for auditing". Only the timeout path does
  (`PropagateLabels` is the only action that sets `audit`).
* A command whose user information names other groups than the webhook is told
  may leave an older ballot of the same user behind under the groups it did not
  know of. `BallotsAreCurrent` is therefore stated by entry: every ballot is the
  last one its owner got accepted *there*. `AcceptedVoteCounts` says that the new
  vote counts nevertheless.

### Bounds

* `Timeout = 1` tick. Time matters in three places only: before, at, and after
  the deadline; one tick gives all three, and a wake-up that is early, due and
  overdue. `elapsed` stops one tick after the deadline, since nothing tells
  later moments apart. `live` has two ticks, so that a task can be deleted and
  created anew before the first one's deadline; `overlap` and `clients`, whose
  properties are about votes, have none: the deadline is at once and the timeout
  a tick later.
* `MaxFaults = 1`. Every call of a reconcile can be the one that fails, and a
  restart can come anywhere; combinations of two failures are not explored
  by TLC, only covered by the theorems. In `live` a deletion counts as one. In
  `webhook_config` there are two, so that a leader can change and a call fail.
* `Budget` (`MCGate`): in `faults` three commands where nothing fails, two where
  something does, so that the run stays small enough to be repeated often.
* `MaxCommands = 2` or `3`: enough for two members of one group to overwrite
  each other and for a user to change an approval into a rejection while
  somebody else votes.
* `MaxRotations = 2`, `MaxEdits = 1`: the secret is empty, filled and renewed;
  one edit can come before, between and after any two steps of both pods, and
  the configuration starts as any of the manifests.
* Two or three users, two or three entries: each relation between two users
  (same group, one listed, both) occurs. The theorems hold without the bounds.

### Fairness

`FairSpec` has weak fairness of the controller's next step (a work-queue worker
blocks in no step: every API call returns), of the delivery of watch events, of
a due timer, and of time. Nothing is assumed of the voters, nothing has to fail
and `Resync` has no fairness. `PromptSpec` leaves out time and timers: what it
implies is brought about by the events alone. In `WebhookConfig` each pod's worker
and watches are weakly fair, somebody is elected while nobody leads, and the
secret gets its first certificate; nobody has to rotate, edit, fail or restart.

## 4. Proofs

### Types and quorum: `ApprovalGateProofs`

Proved for every finite set of users, every approver
list, group membership, required number, timeout and bound that satisfies the
assumptions in `ApprovalTask` and `ApprovalGate`:

* `TypeCorrect`: `Spec => []TypeOK`;
* `SuccessIsEarned`: `Spec => []SuccessNeedsQuorum`;
* `ApprovalIsCounted`: `Spec => []ApprovedIsCounted`;
* `QuorumIsFrozen`: `Spec => QuorumFreezesInputs`.

The assumptions: users are finitely many, every individual approver is one of
them, names in the list are distinct (proved of the construction,
`BuiltNamesDistinct`), the required number is positive (refused otherwise), and the
controller's client is not one of the users.

`SuccessNeedsQuorum` speaks of the stored run and is not inductive: the
condition `True` travels from the evaluation of a fetched spec into the modified
run, the stored run, the cache and back into a later reconcile, while the inputs
could move. The inductive invariant `IInv` therefore says of each copy what is
needed there:

* `NotCreatedYet`: the Create step is reached only while there is no task, and
  before there is one nobody has a command on it, so that no step resets a spec;
* `CopyIsCurrent`: while the controller's resourceVersion is the stored one, its
  copy is the stored object. This is what optimistic concurrency is for: a
  status is written only for the spec it was computed from;
* `ApprovedHasQuorum`: an approved state, stored or fetched, rests on a quorum,
  and the stored count is the count of the stored spec;
* `SucceededHasQuorum`: so does the condition `True` in each of the four copies
  of the run.

The step that carries the others is the lemma `QuorumFreezes`: once the
approvals suffice, the webhook (which counts as the controller counts) refuses
every edit, so that a quorum seen once is there for good. `CountedApprove` then
leads from the controller's count to the ballots of the properties. `IInv` was
model-checked in the instance of `faults` before it was proved.

### Verdicts: `ApprovalVerdictProofs`

* `FailureIsRejection`: `Spec => []FailureMeansRejected`;
* `RejectionIsPermanent`: `Spec => RejectedIsPermanent`;
* `FailureIsPermanent`: `Spec => FailureNeverSucceeds`;
* `GateImplementsVerdict`: `Spec => ImplementsVerdict`.

The invariant `VInv` adds to `IInv` what follows a *rejection* through the copies:
`Grounded` and `Uncontested` (a stored rejection has its ground, an input `reject` or
the age of the task; an approved task has no input against it), `TaskPhases` and
`OpenWhileWorking` (what the task can look like while a reconcile that creates or
evaluates it is under way), `FailedIsRejected`, `SucceededIsApproved` (each copy of
the run's condition against the stored state) and `DoneUntouched` (a reconcile that
found its copy of the run done changes nothing in it). The lemma `TaskSteps` sorts
all steps by what they do to the task: keep it, create it, begin its status, let it
expire, evaluate it, vote. Every later proof argues over those six cases instead of
over the seventeen actions. The refinement needs nothing more: `TellingStep` maps
the steps that write the run to `Tell` or `Withdraw`, `DecidingStep` the others.

### At rest: `ApprovalRestProofs`

* `WakeupIsArmed`: `Spec => []WakeupArmed`;
* `NothingIsMissed`: `Spec => []NothingMissed`;
* `RunAndTaskAgree`: `Spec => []SettledTogether`.

What holds at rest is what the last reconcile left, so the invariants describe a
reconcile on its way there: `WakeInv` says what its result and its copy of the run
must be for a wake-up to be armed when it ends, `MissInv` that the object it has
fetched is the stored one unless the key is queued again, and that a reconcile which
leaves the run open has found nothing to decide and brought the record up to date
(`CaughtUp`), or a call failed and it comes back in one tick; `SettleInv` says the
same of state and condition. A list without a response is not evaluated at all, so
`MissInv` also says that nothing is recorded then (`Unrecorded`): whatever list the
webhook admits has a response (`AdmittedResponds`).

### Lists and records: the last part of `ApprovalGateProofs`, `ApprovalRecordProofs`

* `RejectionIsCaused`: `Spec => []RejectionHasCause`;
* `ListIsRight`: `Spec => []ListAgrees`;
* `TablesAreRight`: `Spec => []TablesAgree`;
* `OpenDecisionsPass`: `Spec => []OpenDecisionsAdmitted`.

These compare the ballots with what controller, webhook and CLI make of them.
`RecordInv` holds whatever groups a command works with: nobody's lines are under a
group the user is not in (`LinesContained`), and the status of a task that was
decided in time is the record of its list (`FinalIsRecord`). With `MissInv` it
gives `RecordAtRest`: at rest before the deadline the status is the record of the
stored list, or the controller looks again within a tick. `RecordStands` (a recorded
response is never without its ballot) holds at any time, at rest or not, but only as
long as commands alone change the list. `LinesContained` is the webhook's doing: the
lemma `AdmittedGroups` shows that an edit it admits does what it would have done in
the groups of the authenticated user alone, among those the command worked with.
`BallotInv` is about lists in which, besides, no input `reject` is without somebody's
rejection and the lines of one user agree (`Ballots`), so that the count from the
responses is the count from the inputs (`RecordCounts`).

`BallotInv`, and with it the first three theorems, has the hypothesis `AllGroupsKnown`:
the User object lacks no group of the authenticated user. Without it TLC finds
counterexamples to all three, where one or two groups are missing from the User
objects: a command that falls back to that object reaches fewer groups than the one
before it, and the input or the line of the earlier vote stays behind in the others.
`OpenDecisionsPass` needs another one, `GroupsAreNoUsers`: the commands look for
their user's name among all entries, groups included, the webhook among the
individual ones only, so that a user named like a group is let through by the first
and refused by the second.

### Deletion: `ApprovalDeletionProofs`

* `SuccessIsVoted`: `FairSpecDeletion => []SuccessWasVoted`;
* `TaskIsKept`: `FairSpecDeletion => []OpenRunHasTask`.

A deletion breaks `IInv` (the quorum is gone with the task), so the first has an
invariant of its own, `VotedInv`, over the history `granted`: each copy of the
condition `True` rests on the inputs a task was granted on. `TaskInv` says that a
reconcile which leaves the run open has seen or made a task, and that a deletion
after that leaves the key queued.

### Patching clients: `ApprovalClientsProofs`

* `BallotsStayCurrent`: `SpecClients => []BallotsAreCurrent`;
* `AcceptedVotesCount`: `SpecClients => AcceptedVoteCounts`;
* `LostVotesAreRecast`: `SpecClients => []LostVoteCanBeRecast`;
* `PatchesDecideNothing`: `SpecClients => []` of `SuccessNeedsQuorum`,
  `ApprovedIsCounted` and `FailureMeansRejected`;
* `PatchesAreNotMissed`: `SpecClients => []` of `WakeupArmed`, `NothingMissed` and
  `SettledTogether`;
* `PatchesUndoNothing`: `SpecClients =>` `RejectedIsPermanent`, `FailureNeverSucceeds`
  and `QuorumFreezesInputs`;
* `ClientsImplementVerdict`: `SpecClients => ImplementsVerdict`;
* `PatchesAreShown`: under `AllGroupsKnown`, `SpecClients => []` of `RejectionHasCause`
  and `TablesAgree`.

A patch is a list that was stored at some time, of any age, with the sender's own
vote put in; other lists are outside the scope stated in section 2. The history
`cast` keeps by user and entry the last decision accepted, so that
`BallotsStayCurrent` holds of every user, whatever groups the User objects name.

`ClientInv` is about the lists on their way: each patch says one thing of its sender
(`PatchesVote`), and the lines of a user are under the user's groups wherever the
list is (`ListsContained`). The webhook's comparison with the stored list does the
rest: the others' ballots are the stored ones or gone (`OthersKept`), and what it
reads as the sender's wish is the vote (`DesiredIsVote`). Only the last theorem
assumes anything of the User objects: `AdmittedGroups` again.

The other six carry the gate's own invariants over to a gate whose list may be
replaced as a whole (`GateInv`). A patch was made by `update` from a list that was
stored at some time, so that it has the shape of such a list (`PatchesHoldVotes`,
`PatchesHoldBallots`) whatever it drops; it is admitted only while the task is open
and the approvals do not suffice (`AdmittedIsOpen`); and like a command it queues the
key and makes the controller's copy stale. The steps of the gate keep `GateInv` by
the lemmas of the earlier modules, the steps of the clients for these three reasons.
`LostVotesAreRecast` then follows from `CaughtUp`: the evaluation records the list it
finds, so a dropped ballot is forgotten by the next rest, and a user who ever voted is
one the webhook finds in the list (`CastIsKnown`). Before that rest `RecordStands`
fails, and with it `OpenDecisionsAdmitted`: TLC shows the user whose line was dropped
refused until the controller has evaluated the new list. This is why the property is
stated at rest, and why that theorem is not among the six.

### Parameters: `ApprovalParamsProofs`

* `ValidationsAgree`: `Spec => []ValidatedIsAdmitted`;
* `ListIsAsNamed`: `Spec => []ListedAsNamed`;
* `BuiltNamesDistinct`: `Spec => []NamesDistinct`.

They hold for parameters of every length. `ParamsInv` is the invariant of the loop
in `createApprovalTask`: every approver is what one of the names walked over stands
for (`AddedWereNamed`), each of those names has an approver (`NamedWereAdded`), and no
two approvers have one name (`AddedOnce`). `SameSyntax` compares the two validations
of one name. `BuiltNamesDistinct` is the assumption `NamesUnique` of the gate; its
other side, that a second mention of a name is lost, is the finding `same_name`.

### Webhook configuration: `WebhookConfigProofs`

Proved for any number of pods, services, manifests,
rotations, edits and failures:

* `RestImpliesProtection`: `Spec => []RestIsProtected`;
* `OthersFieldsSurvive`: `Spec => OthersFieldsStay`.

The inductive invariant `ConfigInv` has, besides the types, three parts:
`FreshIsCurrent` (a copy with the stored resourceVersion is the stored object),
`RestIsRight` (a leader with nothing queued or prepared, and no event of the
configuration on its way, found its copy to be as wanted: each step that could
make it wrong, a promotion, an event, a failed write, also enqueues the key) and
`BasedKeepsFields` (a prepared write that will not be refused was made from the
stored object).

Every invariant named here was model-checked on the instances of the runs, those
with patching clients also with a failed call, before it was proved.

### Only model-checked

Liveness (`RunEnds`, `DecisionSettles`, `Converges`): the prover does not treat
fairness. Every invariant and every action property of the passing runs is proved.

## 5. Not modelled, and the plan

Done, in this order: the object and its evaluation, the webhook and the CLI,
the gate that composes them, the parameters, the first theorems; then the
abstract specification and the refinement, deletion, patching clients, user
information, the tables of `list` and `describe`, and the webhook's
configuration with its theorems.

Then the proofs of section 4: verdicts and the refinement, rest, records, deletion,
clients, parameters, and last the gate's promises with patching clients.

Nothing of the plan is left. A next step could be the gate with patches and
deletions together, which the two modules treat separately.

Left out for good:

* generated clients, informers, listers, registration and deep copies
  (`pkg/client`, `zz_generated.deepcopy.go`, more than a third of the lines under `pkg`):
  they hold no decision of this program, and what they do is in the API server's
  and the informers' actions;
* test doubles (`pkg/test`);
* set-up of connections, kubeconfig and namespaces, flags, and the layout of
  tables;
* updates of an ApprovalTask that change its approvers or the required number, for
  which the webhook has no rule of its own;
* embedded specs (the code does not support them), events and log lines;
* leader election of the controller (one replica is deployed) and deletion of the
  run, with which its task no longer matters;
* certificates and leader election of the webhook, which are vendored: they are
  external actions of `WebhookConfig`.
