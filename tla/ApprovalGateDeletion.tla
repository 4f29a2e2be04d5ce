------------------------ MODULE ApprovalGateDeletion ------------------------
(***************************************************************************)
(* The approval gate when somebody deletes the ApprovalTask of an open     *)
(* run.  The webhook is not asked about deletions; the controller finds    *)
(* the task missing and creates it anew: no votes, no status, a new        *)
(* creation time.                                                          *)
(***************************************************************************)
EXTENDS ApprovalGateProperties

VARIABLE
    granted     \* history: the inputs on which a task was last found approved

allVars == <<vars, granted>>

InitDeletion == Init /\ granted = InitialSpec

\* A step of the gate; a state that becomes approved is granted on the inputs
\* stored with it.
GateStep ==
    /\ Next
    /\ granted' = IF status'.state = "approved" /\ status.state # "approved" THEN spec ELSE granted

\* Slip: only additions and updates are watched.
TaskDeleted_NotWatched == holders' = {} /\ UNCHANGED queue

\* The informer's delete event enqueues the key; nobody's copy is of an
\* object that exists.
TaskDeleted == holders' = {} /\ queue' = TRUE

\* Deletions share the bound on failures.  The age of a deleted task still
\* matters to a reconcile that has fetched it.
DeleteTask ==
    /\ created
    /\ faults < MaxFaults /\ faults' = faults + 1
    /\ created' = FALSE /\ spec' = InitialSpec /\ status' = NoStatus
    /\ TaskDeleted
    /\ elapsed' = IF pc = "decide" THEN elapsed ELSE 0
    /\ UNCHANGED <<runVars, timer, pc, locals, userVars, granted>>

NextDeletion == GateStep \/ DeleteTask

\* The fairness of the gate itself; nobody has to delete anything.
FairSpecDeletion == InitDeletion /\ [][NextDeletion]_allVars /\ Fairness

-----------------------------------------------------------------------------
(* Properties.                                                             *)

\* A run succeeds on the votes of one task: enough users approved the task
\* that was found approved, votes given to a deleted one do not add up with
\* later ones.
SuccessWasVoted == run.cond = "True" => EnoughApprovals(granted)

\* An open run keeps a task to vote on: at rest a deleted task has been created
\* anew, or, after a failed call, the controller looks again within a tick; it
\* does not wait for the timeout.
OpenRunHasTask ==
    Quiescent /\ run.cond = "Unknown" => created \/ timer \in 0 .. 1
=============================================================================
