----------------------- MODULE ApprovalGateProperties -----------------------
(***************************************************************************)
(* What the approval gate promises, stated over module ApprovalGate.       *)
(* Ballots are read off the stored inputs here, independently of the       *)
(* functions by which controller and webhook count them.                   *)
(***************************************************************************)
EXTENDS ApprovalGate

\* Every variable holds what its declaration says: run and cache a run's
\* status, spec and status the ApprovalTask's, seen the copy a reconcile holds.
TypeOK ==
    /\ params \in ParamForms
    /\ run \in RunValue /\ cache \in RunValue
    /\ created \in BOOLEAN /\ spec \in SpecValue /\ status \in StatusValue
    /\ holders \subseteq Clients
    /\ queue \in BOOLEAN /\ timer \in NoTimer .. Timeout + 1 /\ elapsed \in 0 .. Timeout + 1
    /\ pc \in Steps /\ orig \in RunValue /\ mine \in RunValue
    /\ seen \in [spec : SpecValue, status : StatusValue]
    /\ result \in Result
    /\ cli \in [Users -> Command] /\ commands \in 0 .. MaxCommands
    /\ faults \in 0 .. MaxFaults

-----------------------------------------------------------------------------
(* Ballots, as the stored spec records them.                               *)

\* u's own ballot at position i: the individual entry, or u's line there.
Ballot(s, u, i) == IF OwnEntry(u, i) THEN s.input[i]
                   ELSE IF IsGroup(i) THEN s.member[i][u] ELSE "absent"

Approving(s) == {u \in Users : \E i \in Pos : Ballot(s, u, i) = "approve"}
Rejecting(s) == {u \in Users : \E i \in Pos : Ballot(s, u, i) = "reject"}

EnoughApprovals(s) == Cardinality(Approving(s)) >= Required

\* Nothing is queued, in progress, or on its way to the controller.
Quiescent == pc = "idle" /\ ~queue /\ cache = run

\* A decision u may still take: a first vote, or a rejection after an approval
\* (README.md: "user can still change his input and mark the approval task as
\* reject").
OpenDecision(u, d) ==
    \/ u \notin Approving(spec) \cup Rejecting(spec)
    \/ u \in Approving(spec) /\ u \notin Rejecting(spec) /\ d = "reject"

-----------------------------------------------------------------------------
(* Safety.                                                                 *)

\* The run succeeds only on enough approvals: whenever the CustomRun's
\* condition is True, at least the required number of distinct users have an
\* approving ballot in the stored ApprovalTask.
SuccessNeedsQuorum == run.cond = "True" => EnoughApprovals(spec)

\* The state approved is reported on enough approvals only, and
\* status.approvalsReceived beside it covers the required number.
ApprovedIsCounted ==
    status.state = "approved" =>
        /\ EnoughApprovals(spec)
        /\ status.received \in Required .. Cardinality(Approving(spec))

\* A run whose parameters passed validation fails only on a rejected
\* ApprovalTask: the task is rejected before the run is marked failed.
FailureMeansRejected ==
    run.cond = "False" /\ params # "invalid" => created /\ status.state = "rejected"

\* The controller rejects for a reason: somebody's input is reject, or the
\* task is strictly older than the timeout.
RejectionHasCause ==
    status.state = "rejected" => Rejecting(spec) # {} \/ elapsed > Timeout

\* At rest, with the run still open, the controller has missed nothing: the
\* stored inputs decide neither way.  After a failed call it may have, but
\* then it looks again within a tick; it does not wait for the timeout.
NothingMissed ==
    Quiescent /\ run.cond = "Unknown" /\ created =>
        \/ /\ \A i \in Pos : spec.input[i] # "reject"
           /\ ~EnoughApprovals(spec)
        \/ faults > 0 /\ timer \in 0 .. 1

\* At rest with an open run a delayed wake-up is armed: nothing else would
\* bring the timeout about, and after a failed Get nothing else would make up
\* for the vote it missed.
WakeupArmed == Quiescent /\ run.cond = "Unknown" => timer # NoTimer

\* As long as no call has failed and the controller was not restarted, the
\* run and the word `list' shows for the ApprovalTask tell the same story at
\* rest.
SettledTogether ==
    Quiescent /\ created /\ faults = 0 =>
        /\ StateShown(status) = "Approved" <=> run.cond = "True"
        /\ StateShown(status) = "Rejected" <=> run.cond = "False"

\* Whoever is in the list and has a decision left can deliver it: while the
\* task is undecided, the edit the CLI makes is one the webhook admits.
OpenDecisionsAdmitted ==
    created /\ status.state \notin {"approved", "rejected"} /\ ~EnoughApprovals(spec) =>
        \A u \in Users, d \in Decision :
            containsUsername(u, MemberOf[u]) /\ OpenDecision(u, d)
                => AdmitUpdate(spec, update(spec, u, d, MemberOf[u]), status, u)

\* `list', which counts from the status, agrees with the controller, which
\* counts from the spec: at rest, with no rejection given, the approvals shown
\* as pending are the required less the received.
ListAgrees ==
    Quiescent /\ created /\ Rejecting(spec) = {}
        => pendingApprovals(status) = Required - status.received

\* What a table has of u's own ballots: a row with their mark and all the
\* groups u answered under, or none.
BallotRows(u) ==
    LET under == {Name(i) : i \in {j \in Pos : IsGroup(j) /\ spec.member[j][u] \in Decision}}
    IN  IF u \in Rejecting(spec) THEN {[groups |-> under, mark |-> "cross"]}
        ELSE IF u \in Approving(spec) THEN {[groups |-> under, mark |-> "check"]}
        ELSE {}

\* `describe' and `list' show the votes as they were given: at rest before the
\* deadline every voter has one row, every row names all the groups the voter
\* answered under and bears the mark of the voter's own ballot, nobody else has
\* a row, and the rejections listed are the users who reject.  After a failed
\* call the tables may lag, but then the controller looks again within a tick.
TablesAgree ==
    Quiescent /\ created /\ elapsed <= Timeout =>
        \/ /\ \A u \in Users : DescribeRows(status, u) = BallotRows(u)
           /\ rejected(status) = Cardinality(Rejecting(spec))
        \/ faults > 0 /\ timer \in 0 .. 1

\* A task that was approved carries nobody's rejection (README.md: "If any one
\* approver rejects the approval task controller will mark the approvalState
\* as rejected").
ApprovedExcludesRejection == status.state = "approved" => Rejecting(spec) = {}

-----------------------------------------------------------------------------
(* Action properties.                                                      *)

\* A rejected task stays rejected, whatever is voted afterwards.
RejectedIsPermanent ==
    [][status.state = "rejected" => status'.state = "rejected"]_vars

\* A run that failed never turns into a success.
FailureNeverSucceeds == [][run.cond = "False" => run'.cond # "True"]_vars

\* Once the approvals suffice no input moves any more: what the controller
\* will count is what was there when the last vote was admitted.
QuorumFreezesInputs ==
    [][countApprovalsReceived(spec) >= Required => spec' = spec]_vars

\* A final state stays (webhook.go: "If the task has reached a final state, no
\* more approvals are needed").
FinalStateIsFinal ==
    [][status.state \in {"approved", "rejected"} => status'.state = status.state]_vars

\* A rejecting user takes no further action (webhook.go: "Block duplicate
\* approvals and any action after rejection").
RejectionStands == [][Rejecting(spec) \subseteq Rejecting(spec')]_vars

-----------------------------------------------------------------------------
(* The abstract specification.                                             *)

\* What speaks against the request, in the objects stored and the clock.
GroundsGiven ==
    {g \in {"parameters", "rejection", "timeout"} :
        \/ g = "parameters" /\ params = "invalid"
        \/ g = "rejection"  /\ \E i \in Pos : spec.input[i] = "reject"
        \/ g = "timeout"    /\ elapsed > Timeout}

Verdict == INSTANCE ApprovalVerdict WITH
    Voters  <- Users,
    Needed  <- Required,
    counted <- ApprovedUsers(spec),
    grounds <- GroundsGiven,
    verdict <- IF status.state \in {"approved", "rejected"} THEN status.state ELSE "open",
    told    <- run.cond

\* The gate, with all its copies, calls, retries and restarts, does what
\* ApprovalVerdict says: every step of it is an abstract step or none.
ImplementsVerdict == Verdict!Spec

-----------------------------------------------------------------------------
(* Liveness.                                                               *)

\* Under FairSpec every run ends, by decision or by timeout, whatever calls
\* fail and whenever the controller restarts.
RunEnds == <>[](run.cond # "Unknown")

\* The stored inputs decide the task, one way or the other.
Decided == countApprovalsReceived(spec) >= Required \/ \E i \in Pos : spec.input[i] = "reject"

\* Under PromptSpec, where no time need pass, the votes alone settle the run,
\* unless the decision is taken back first: the controller is woken by the
\* ApprovalTask's own change.
DecisionSettles == Decided ~> (run.cond # "Unknown" \/ ~Decided)
=============================================================================
