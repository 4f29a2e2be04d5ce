------------------------ MODULE ApprovalRecordProofs ------------------------
(***************************************************************************)
(* The status is a record of the votes: what it says of a user the user    *)
(* voted, and at rest it says all of it.  `list' and `describe' show the   *)
(* status, and the webhook refuses a user for what the status says, so     *)
(* neither is misled.                                                      *)
(***************************************************************************)
EXTENDS ApprovalRestProofs

Final == {"approved", "rejected"}

-----------------------------------------------------------------------------
(* The invariant.                                                          *)

\* Nobody's lines are under a group that the user is not in.
LinesContained == \A u \in Users : LinesWithin(spec, u)

\* A task decided before its deadline records the votes that decided it.
FinalIsRecord == status.state \in Final /\ ~ApprovalTaskHasTimedOut => IsRecord(status, spec)

\* A succeeded run's task is decided.
SucceededIsFinal ==
    seen.status.state = "approved" \/ "True" \in Conditions => status.state \in Final

RecordInv == LinesContained /\ FinalIsRecord /\ SucceededIsFinal

\* What is true besides when commands alone change the list, as no command
\* takes a vote away: whoever is recorded has voted, and whoever is
\* recorded as rejecting rejects.
RecordStands ==
    \A u \in Users, i \in Pos :
        /\ Recorded(status, u, i) # "none" => u \in Approving(spec) \cup Rejecting(spec)
        /\ Recorded(status, u, i) = "rejected" => u \in Rejecting(spec)

\* What is true besides when commands know all the groups of their users: a
\* command in flight works with every group of the authenticated user, ...
CommandGroups == \A u \in Users : cli[u] # Idle => MemberOf[u] \subseteq cli[u].groups

\* ... and the count in the status is the number of users recorded, or one of
\* them is recorded as rejecting.
RecordCounts ==
    \/ Cardinality(RespondedUsers(status)) = status.received
    \/ \E u \in Users, i \in Pos : Recorded(status, u, i) = "rejected"

BallotInv == CommandGroups /\ Ballots(spec) /\ RecordCounts

-----------------------------------------------------------------------------
(* Commands and the list.                                                  *)

LEMMA KeepsCommandGroups ==
    ASSUME AllGroupsKnown, TypeOK, CommandGroups, [Next]_vars
    PROVE  CommandGroups'
<1>. USE DEF CommandGroups
<1>1. CASE cli' = cli
  BY <1>1
<1>2. ASSUME NEW u \in Users, Approve(u) \/ Reject(u)
      PROVE  CommandGroups'
  <2>1. PICK d \in Decision, groups \in getUserInfo(u) :
            cli' = [cli EXCEPT ![u] = [input |-> d, groups |-> groups]]
    BY <1>2 DEF Approve, Reject, CliGet, Decision
  <2>2. MemberOf[u] \subseteq groups
    BY <2>1 DEF getUserInfo, AllGroupsKnown
  <2>. QED
    BY <2>1, <2>2 DEF TypeOK
<1>3. ASSUME NEW u \in Users, CliUpdate(u)
      PROVE  CommandGroups'
  BY <1>3 DEF CliUpdate, TypeOK
<1>4. CASE ReconcileStep
  BY <1>1, <1>4 DEF ReconcileStep, StartReconcile, GetApprovalTask, ReconcileEmpty, CreateApprovalTask,
        RefetchApprovalTask, InitializeStatus, RejectOnTimeout, EvaluateInputs, PropagateLabels,
        FinishReconcile, userVars
<1>5. CASE CacheSync \/ Resync \/ TimerFires \/ Tick \/ Restart
  BY <1>1, <1>5 DEF CacheSync, Resync, TimerFires, Tick, Restart, userVars
<1>6. CASE UNCHANGED vars
  BY <1>1, <1>6 DEF vars, userVars
<1>. QED
  BY <1>2, <1>3, <1>4, <1>5, <1>6 DEF Next

\* What a command that the webhook admits makes of the list.
LEMMA VoteEdits ==
    ASSUME TypeOK, LinesContained, NEW u \in Users, TaskVoted(u)
    PROVE  /\ cli[u].input \in Decision /\ spec \in SpecValue
           /\ spec' = update(spec, u, cli[u].input, cli[u].groups \cap MemberOf[u])
           /\ \A v \in Users : LinesWithin(spec', v)
<1>1. cli[u].input \in Decision /\ spec \in SpecValue
  BY DEF TypeOK, TaskVoted, Command
<1>2. /\ spec' = update(spec, u, cli[u].input, cli[u].groups)
      /\ CheckOtherUsersForInvalidChanges(spec, update(spec, u, cli[u].input, cli[u].groups), u)
  BY DEF TaskVoted, AdmitUpdate, Edited
<1>. QED
  BY <1>1, <1>2, AdmittedGroups, AdmittedLines DEF LinesContained

LEMMA KeepsLinesContained ==
    ASSUME IInv, LinesContained, [Next]_vars
    PROVE  LinesContained'
<1>. SUFFICES \A u \in Users : LinesWithin(spec', u)
  BY DEF LinesContained, LinesWithin
<1>1. CASE spec' = spec
  BY <1>1 DEF LinesContained
<1>2. CASE TaskCreated
  BY <1>2 DEF TaskCreated, InitialSpec, LinesWithin
<1>3. ASSUME NEW u \in Users, TaskVoted(u)
      PROVE  \A v \in Users : LinesWithin(spec', v)
  BY <1>3, VoteEdits DEF IInv
<1>. QED
  BY <1>1, <1>2, <1>3, TaskSteps DEF IInv, TaskKept, StatusBegun, TaskExpired, TaskEvaluated

LEMMA KeepsBallots ==
    ASSUME IInv, LinesContained, CommandGroups, Ballots(spec), [Next]_vars
    PROVE  Ballots(spec')
<1>1. CASE spec' = spec
  BY <1>1
<1>2. CASE TaskCreated
  BY <1>2, InitialBallots DEF TaskCreated
<1>3. ASSUME NEW u \in Users, TaskVoted(u)
      PROVE  Ballots(spec')
  <2>1. cli[u].groups \cap MemberOf[u] = MemberOf[u]
    BY <1>3 DEF TaskVoted, CommandGroups
  <2>. QED
    BY <1>3, <2>1, VoteEdits, UpdateKeepsBallots DEF IInv
<1>. QED
  BY <1>1, <1>2, <1>3, TaskSteps DEF IInv, TaskKept, StatusBegun, TaskExpired, TaskEvaluated

\* A command takes nobody's vote away: its user still has one, and those of
\* the others are as they were.
LEMMA VotersStay ==
    ASSUME NEW s \in SpecValue, NEW v \in Users, NEW d \in Decision, NEW groups, NEW u \in Users
    PROVE  LET n == update(s, v, d, groups)
           IN  /\ u \in Approving(s) \cup Rejecting(s) => u \in Approving(n) \cup Rejecting(n)
               /\ u # v /\ u \in Rejecting(s) => u \in Rejecting(n)
<1>. DEFINE n == update(s, v, d, groups)
<1>1. \A i \in Pos : OwnEntry(u, i) => ~IsGroup(i)
  BY UserOrGroup DEF OwnEntry
<1>2. \A i \in Pos : u # v /\ OwnEntry(u, i) => ~OwnEntry(v, i)
  BY DEF OwnEntry
<1>3. \A i \in Pos : Ballot(n, u, i) = Ballot(s, u, i) \/ (u = v /\ Ballot(n, u, i) = d)
  BY <1>1, <1>2, Updated DEF Ballot, AmongGroups
<1>. HIDE DEF n
<1>4. u \in Approving(s) \cup Rejecting(s) => u \in Approving(n) \cup Rejecting(n)
  BY <1>3 DEF Approving, Rejecting, Decision
<1>5. u # v /\ u \in Rejecting(s) => u \in Rejecting(n)
  BY <1>3 DEF Rejecting
<1>. QED
  BY <1>4, <1>5 DEF n

-----------------------------------------------------------------------------
(* The record.                                                             *)

\* Who is recorded voted.
LEMMA RecordIsTrue ==
    ASSUME NEW s, NEW st, IsRecord(st, s), NEW u \in Users, NEW i \in Pos
    PROVE  /\ Recorded(st, u, i) # "none" => u \in Approving(s) \cup Rejecting(s)
           /\ Recorded(st, u, i) = "rejected" => u \in Rejecting(s)
  BY Responds DEF IsRecord, Approving, Rejecting, Decision

\* The evaluation of the stored list records it.
LEMMA TaskIsRecorded ==
    ASSUME IInv, Votes(spec), TaskEvaluated
    PROVE  IsRecord(status', spec)
  BY EvaluationRecords DEF TaskEvaluated, IInv, TypeOK

LEMMA KeepsRecordStands ==
    ASSUME IInv, Votes(spec), RecordStands, [Next]_vars
    PROVE  RecordStands'
<1>. SUFFICES ASSUME NEW u \in Users, NEW i \in Pos
              PROVE  /\ Recorded(status', u, i) # "none" => u \in Approving(spec') \cup Rejecting(spec')
                     /\ Recorded(status', u, i) = "rejected" => u \in Rejecting(spec')
  BY DEF RecordStands, Recorded, Approving, Rejecting, Ballot
<1>1. /\ Recorded(status, u, i) # "none" => u \in Approving(spec) \cup Rejecting(spec)
      /\ Recorded(status, u, i) = "rejected" => u \in Rejecting(spec)
  BY DEF RecordStands
<1>2. CASE TaskKept
  BY <1>1, <1>2 DEF TaskKept
<1>3. CASE TaskCreated \/ StatusBegun
  BY <1>3, NothingRecorded DEF TaskCreated, StatusBegun
<1>4. CASE TaskExpired
  <2>1. Recorded(status', u, i) = Recorded(status, u, i) /\ spec' = spec
    BY <1>4 DEF TaskExpired, Recorded
  <2>. QED
    BY <1>1, <2>1
<1>5. CASE TaskEvaluated
  BY <1>5, TaskIsRecorded, RecordIsTrue DEF TaskEvaluated
<1>6. ASSUME NEW v \in Users, TaskVoted(v)
      PROVE  /\ Recorded(status', u, i) # "none" => u \in Approving(spec') \cup Rejecting(spec')
             /\ Recorded(status', u, i) = "rejected" => u \in Rejecting(spec')
  <2>1. cli[v].input \in Decision
    BY <1>6 DEF IInv, TypeOK, TaskVoted, Command
  <2>2. spec' = update(spec, v, cli[v].input, cli[v].groups) /\ status' = status
    BY <1>6 DEF TaskVoted, Edited
  <2>3. Recorded(status, u, i) = "rejected" => u # v
    BY <1>6 DEF TaskVoted, AdmitUpdate, checkIfUserAlreadyDecided, RecordedResponses, Recorded
  <2>. QED
    BY <1>1, <2>1, <2>2, <2>3, VotersStay DEF IInv, TypeOK
<1>. QED
  BY <1>2, <1>3, <1>4, <1>5, <1>6, TaskSteps DEF IInv

LEMMA KeepsRecordCounts ==
    ASSUME IInv, Ballots(spec), RecordCounts, [Next]_vars
    PROVE  RecordCounts'
<1>. SUFFICES \/ Cardinality(RespondedUsers(status')) = status'.received
              \/ \E u \in Users, i \in Pos : Recorded(status', u, i) = "rejected"
  BY DEF RecordCounts, RespondedUsers, Recorded
<1>1. CASE status' = status
  BY <1>1 DEF RecordCounts
<1>2. CASE TaskCreated \/ StatusBegun
  <2>1. status' \in {NoStatus, InitialStatus}
    BY <1>2 DEF TaskCreated, StatusBegun
  <2>2. RespondedUsers(status') = {} /\ status'.received = 0
    BY <2>1, NothingRecorded
  <2>. QED
    BY <2>2, FS_EmptySet
<1>3. CASE TaskExpired
  <2>1. RespondedUsers(status') = RespondedUsers(status)
    BY <1>3 DEF TaskExpired, RespondedUsers
  <2>2. \A u \in Users, i \in Pos : Recorded(status', u, i) = Recorded(status, u, i)
    BY <1>3 DEF TaskExpired, Recorded
  <2>. QED
    BY <1>3, <2>1, <2>2 DEF TaskExpired, RecordCounts
<1>4. CASE TaskEvaluated
  <2>1. IsRecord(status', spec) /\ status' \in StatusValue
    BY <1>4, TaskIsRecorded, NextKeepsType DEF IInv, TypeOK, Ballots
  <2>2. status'.received = countApprovalsReceived(spec)
    BY <1>4 DEF TaskEvaluated, updateApprovalState
  <2>3. CASE Rejecting(spec) = {}
    BY <2>1, <2>2, <2>3, RecordCount DEF IInv, TypeOK
  <2>4. CASE Rejecting(spec) # {}
    <3>1. PICK u \in Users, i \in Pos : Ballot(spec, u, i) = "reject"
      BY <2>4 DEF Rejecting
    <3>. QED
      BY <2>1, <3>1, Responds DEF IsRecord
  <2>. QED
    BY <2>3, <2>4
<1>. QED
  BY <1>1, <1>2, <1>3, <1>4, TaskSteps DEF IInv, TaskKept, TaskVoted

LEMMA KeepsFinalIsRecord ==
    ASSUME IInv, Votes(spec), FinalIsRecord, [Next]_vars
    PROVE  FinalIsRecord'
<1>. SUFFICES ASSUME status'.state \in Final, ~(elapsed' > Timeout)
              PROVE  IsRecord(status', spec')
  BY DEF FinalIsRecord, ApprovalTaskHasTimedOut, IsRecord, Recorded, Ballot
<1>1. CASE TaskKept
  <2>1. ~(elapsed > Timeout)
    BY <1>1, TimeoutType, NextKeepsType DEF TaskKept, IInv, TypeOK
  <2>. QED
    BY <1>1, <2>1 DEF TaskKept, FinalIsRecord, ApprovalTaskHasTimedOut
<1>2. CASE TaskCreated \/ StatusBegun
  BY <1>2, FirstStates DEF TaskCreated, StatusBegun, Final
<1>3. CASE TaskExpired
  BY <1>3 DEF TaskExpired
<1>4. CASE TaskEvaluated
  BY <1>4, TaskIsRecorded DEF TaskEvaluated
<1>5. ASSUME NEW v \in Users, TaskVoted(v)
      PROVE  IsRecord(status', spec')
  BY <1>5 DEF TaskVoted, AdmitUpdate, isApprovalRequired, Final
<1>. QED
  BY <1>1, <1>2, <1>3, <1>4, <1>5, TaskSteps DEF IInv

\* A decision, once taken, is replaced by another one only.
LEMMA FinalStays ==
    ASSUME VInv, [Next]_vars, status.state \in Final
    PROVE  status'.state \in Final
<1>. USE DEF VInv, Final
<1>1. CASE TaskCreated \/ StatusBegun
  BY <1>1, FirstStates DEF TaskCreated, StatusBegun, TaskPhases, IInv, NotCreatedYet
<1>2. CASE TaskEvaluated
  BY <1>2, EvaluatedStates DEF TaskEvaluated, NextState
<1>. QED
  BY <1>1, <1>2, TaskSteps DEF IInv, TaskKept, TaskExpired, TaskVoted

LEMMA KeepsSucceededIsFinal ==
    ASSUME VInv, SucceededIsFinal, [Next]_vars
    PROVE  SucceededIsFinal'
<1>1. TypeOK
  BY DEF VInv, IInv
<1>2. seen'.status.state = "approved" => status'.state \in Final
  BY <1>1, SeenWasStored, FinalStays DEF SucceededIsFinal, Final
<1>3. "True" \in Conditions' => status'.state \in Final
  BY <1>1, SuccessHasSource, FinalStays DEF SucceededIsFinal, Final
<1>. QED
  BY <1>2, <1>3 DEF SucceededIsFinal

\* A run that is done has a decided task.
LEMMA DoneIsFinal ==
    ASSUME VInv, SucceededIsFinal, created, cache.cond # "Unknown"
    PROVE  status.state \in Final
<1>1. cache.cond \in Condition
  BY DEF VInv, IInv, TypeOK, RunValue
<1>2. cache.cond = "False" => status.state = "rejected"
  BY DEF VInv, FailedIsRejected, OpenWhileWorking
<1>3. cache.cond = "True" => status.state \in Final
  BY DEF SucceededIsFinal, Conditions
<1>. QED
  BY <1>1, <1>2, <1>3 DEF Condition, Final

\* RecordInv holds at first and is kept by every step.
LEMMA InitRecordInv ==
    ASSUME Init
    PROVE  RecordInv
<1>1. LinesContained
  BY DEF Init, InitialSpec, LinesContained, LinesWithin
<1>2. FinalIsRecord
  BY FirstStates DEF Init, FinalIsRecord, Final
<1>3. SucceededIsFinal
  BY NoStatusState DEF Init, SucceededIsFinal, Conditions, NewRun
<1>. QED
  BY <1>1, <1>2, <1>3 DEF RecordInv

LEMMA KeepsRecordInv ==
    ASSUME VInv, Votes(spec), RecordInv, [Next]_vars
    PROVE  RecordInv'
<1>1. IInv
  BY DEF VInv
<1>. QED
  BY <1>1, KeepsLinesContained, KeepsFinalIsRecord, KeepsSucceededIsFinal DEF RecordInv

LEMMA RecordInvariant == Spec => []RecordInv
<1>1. Init => RecordInv
  BY InitRecordInv
<1>2. VInv /\ MissInv /\ RecordInv /\ [Next]_vars => RecordInv'
  BY KeepsRecordInv DEF MissInv
<1>. QED
  BY <1>1, <1>2, VerdictInvariant, MissInvariant, PTL DEF Spec

\* At rest before the deadline the status is the record of the stored list: an
\* open run was left by a reconcile that brought it up to date, and the task of
\* a run that is done takes no more votes.
LEMMA RecordAtRest ==
    ASSUME VInv, MissInv, RecordInv, Quiescent, created, elapsed <= Timeout
    PROVE  IsRecord(status, spec) \/ (faults > 0 /\ timer \in 0 .. 1)
<1>1. CASE run.cond = "Unknown"
  BY <1>1 DEF MissInv, OpenAtRest, CaughtUp
<1>2. CASE run.cond # "Unknown"
  <2>1. status.state \in Final
    BY <1>2, DoneIsFinal DEF Quiescent, RecordInv
  <2>2. ~ApprovalTaskHasTimedOut
    BY TimeoutType DEF ApprovalTaskHasTimedOut, MissInv, TypeOK
  <2>. QED
    BY <2>1, <2>2 DEF RecordInv, FinalIsRecord
<1>. QED
  BY <1>1, <1>2

LEMMA RecordStandsAlways == Spec => []RecordStands
<1>1. Init => RecordStands
  <2>. SUFFICES ASSUME Init PROVE RecordStands
    OBVIOUS
  <2>1. status \in {NoStatus, InitialStatus}
    BY DEF Init
  <2>. QED
    BY <2>1, NothingRecorded DEF RecordStands
<1>2. MissInv /\ VInv /\ RecordStands /\ [Next]_vars => RecordStands'
  BY KeepsRecordStands DEF MissInv, VInv
<1>. QED
  BY <1>1, <1>2, VerdictInvariant, MissInvariant, PTL DEF Spec

\* BallotInv holds, when commands know all the groups of their users.
LEMMA BallotInvariant ==
    ASSUME AllGroupsKnown
    PROVE  Spec => []BallotInv
<1>1. Init => BallotInv
  <2>. SUFFICES ASSUME Init PROVE BallotInv
    OBVIOUS
  <2>1. CommandGroups /\ Ballots(spec)
    BY InitialBallots DEF Init, CommandGroups
  <2>2. status \in {NoStatus, InitialStatus}
    BY DEF Init
  <2>3. RecordCounts
    BY <2>2, NothingRecorded, FS_EmptySet DEF RecordCounts
  <2>. QED
    BY <2>1, <2>3 DEF BallotInv
<1>2. VInv /\ RecordInv /\ BallotInv /\ [Next]_vars => BallotInv'
  <2>. SUFFICES ASSUME VInv, RecordInv, BallotInv, [Next]_vars PROVE BallotInv'
    OBVIOUS
  <2>1. IInv /\ TypeOK
    BY DEF VInv, IInv
  <2>2. CommandGroups'
    BY <2>1, KeepsCommandGroups DEF BallotInv
  <2>3. Ballots(spec)'
    BY <2>1, KeepsBallots DEF RecordInv, BallotInv, Ballots, Votes, LinesAreVotes, InputsAreVotes,
          RejectsAreVotes, LinesTogether
  <2>4. RecordCounts'
    BY <2>1, KeepsRecordCounts DEF BallotInv
  <2>. QED
    BY <2>2, <2>3, <2>4 DEF BallotInv
<1>. QED
  BY <1>1, <1>2, VerdictInvariant, RecordInvariant, PTL DEF Spec

\* Where the lists hold ballots, a rejected input is somebody's ballot.
LEMMA CauseIsShown ==
    ASSUME VInv, Ballots(spec)
    PROVE  RejectionHasCause
  BY RejectingExists DEF VInv, IInv, TypeOK, Grounded, RejectionHasCause

\* The controller rejects for a reason: somebody's own input is reject, or
\* the task is older than its timeout.
THEOREM RejectionIsCaused ==
    ASSUME AllGroupsKnown
    PROVE  Spec => []RejectionHasCause
<1>1. VInv /\ BallotInv => RejectionHasCause
  BY CauseIsShown DEF BallotInv
<1>. QED
  BY <1>1, VerdictInvariant, BallotInvariant, PTL

\* `list', which counts from the status, agrees with the controller, which
\* counts from the spec, as long as nobody rejects.
THEOREM ListIsRight ==
    ASSUME AllGroupsKnown
    PROVE  Spec => []ListAgrees
<1>1. RecordStands /\ BallotInv => ListAgrees
  BY DEF BallotInv, RecordStands, RecordCounts, ListAgrees, pendingApprovals
<1>. QED
  BY <1>1, RecordStandsAlways, BallotInvariant, PTL

-----------------------------------------------------------------------------
(* The tables.                                                             *)

\* The mark that belongs to a ballot.
LEMMA Marks ==
    ASSUME NEW input \in Decision
    PROVE  response(Respond(input)) = IF input = "reject" THEN "cross" ELSE "check"
  BY DEF response, Respond, Decision

\* The row of a user with an individual entry.
LEMMA OwnRow ==
    ASSUME NEW s \in SpecValue, NEW st \in StatusValue, Ballots(s), IsRecord(st, s),
           NEW u \in Users, NEW k \in Pos, OwnEntry(u, k)
    PROVE  /\ DescribeRows(st, u) =
                IF s.input[k] \in Decision
                THEN {[groups |-> {}, mark |-> response(Respond(s.input[k]))]} ELSE {}
           /\ {j \in Pos : IsGroup(j) /\ s.member[j][u] \in Decision} = {}
           /\ u \in Rejecting(s) <=> s.input[k] = "reject"
           /\ u \in Approving(s) <=> s.input[k] = "approve"
<1>1. \A i \in Pos : OwnEntry(u, i) <=> i = k
  BY NamesUnique DEF OwnEntry
<1>2. \A i \in Pos : s.member[i][u] = "absent"
  BY DEF Ballots, Votes, LinesAreVotes, HasOwnEntry
<1>3. \A i \in Pos : Ballot(s, u, i) = IF i = k THEN s.input[k] ELSE "absent"
  BY <1>1, <1>2 DEF Ballot
<1>4. \A i \in Pos : Recorded(st, u, i) = IF i = k THEN Respond(s.input[k]) ELSE "none"
  BY <1>3, Responds DEF IsRecord, Decision
<1>5. \A i \in Pos : IsGroup(i) => i # k /\ st.member[i][u] = "none"
  BY <1>1, <1>4, UserOrGroup DEF Recorded, OwnEntry
<1>6. st.resp[k] = Respond(s.input[k])
  BY <1>1, <1>4 DEF Recorded
<1>7. userGroups(st, u) = {}
  BY <1>5 DEF userGroups
<1>8. {j \in Pos : OwnEntry(u, j) /\ st.resp[j] # "none"} = IF s.input[k] \in Decision THEN {k} ELSE {}
  BY <1>1, <1>6, Responds
<1>9. DescribeRows(st, u) =
        IF s.input[k] \in Decision THEN {[groups |-> {}, mark |-> response(Respond(s.input[k]))]} ELSE {}
  BY <1>6, <1>7, <1>8 DEF DescribeRows
<1>10. {j \in Pos : IsGroup(j) /\ s.member[j][u] \in Decision} = {}
  BY <1>2 DEF Decision
<1>. QED
  BY <1>3, <1>9, <1>10 DEF Rejecting, Approving

\* The row of a user without one.
LEMMA GroupRow ==
    ASSUME NEW s \in SpecValue, NEW st \in StatusValue, Ballots(s), IsRecord(st, s),
           NEW u \in Users, ~HasOwnEntry(u)
    PROVE  LET under == {j \in Pos : IsGroup(j) /\ s.member[j][u] \in Decision}
           IN  /\ DescribeRows(st, u) =
                    {[groups |-> {Name(i) : i \in under}, mark |-> response(Respond(s.member[j][u]))] : j \in under}
               /\ \A i, j \in under : s.member[i][u] = s.member[j][u]
               /\ u \in Rejecting(s) <=> \E j \in under : s.member[j][u] = "reject"
               /\ u \in Approving(s) <=> \E j \in under : s.member[j][u] = "approve"
<1>. DEFINE under == {j \in Pos : IsGroup(j) /\ s.member[j][u] \in Decision}
<1>1. \A i \in Pos : ~OwnEntry(u, i)
  BY DEF HasOwnEntry
<1>2. \A i \in Pos : IsGroup(i) => st.member[i][u] = Respond(s.member[i][u])
  BY <1>1 DEF IsRecord, Recorded, Ballot
<1>3. {i \in Pos : IsGroup(i) /\ st.member[i][u] # "none"} = under
  BY <1>2, Responds
<1>4. userGroups(st, u) =
        {[groups |-> {Name(i) : i \in under}, mark |-> response(st.member[j][u])] : j \in under}
  BY <1>3 DEF userGroups
<1>5. \A j \in under : st.member[j][u] = Respond(s.member[j][u])
  BY <1>2
<1>6. {j \in Pos : OwnEntry(u, j) /\ st.resp[j] # "none"} = {}
  BY <1>1
<1>7. DescribeRows(st, u) = userGroups(st, u)
  BY <1>6 DEF DescribeRows
<1>8. \A i, j \in under : s.member[i][u] = s.member[j][u]
  BY DEF Ballots, LinesTogether, Decision
<1>9. /\ u \in Rejecting(s) <=> \E j \in under : s.member[j][u] = "reject"
      /\ u \in Approving(s) <=> \E j \in under : s.member[j][u] = "approve"
  BY <1>1 DEF Rejecting, Approving, Ballot, Decision
<1>. HIDE DEF under
<1>10. DescribeRows(st, u) =
         {[groups |-> {Name(i) : i \in under}, mark |-> response(Respond(s.member[j][u]))] : j \in under}
  BY <1>4, <1>5, <1>7
<1>. QED
  BY <1>8, <1>9, <1>10 DEF under

\* A list of ballots and its record give the rows of the tables.
LEMMA RowsAreRight ==
    ASSUME TypeOK, Ballots(spec), IsRecord(status, spec), NEW u \in Users
    PROVE  DescribeRows(status, u) = BallotRows(u)
<1>. USE DEF TypeOK, BallotRows
<1>. DEFINE pos   == {j \in Pos : IsGroup(j) /\ spec.member[j][u] \in Decision}
            under == {Name(i) : i \in pos}
<1>1. CASE HasOwnEntry(u)
  <2>1. PICK k \in Pos : OwnEntry(u, k)
    BY <1>1 DEF HasOwnEntry
  <2>2. /\ DescribeRows(status, u) =
             IF spec.input[k] \in Decision
             THEN {[groups |-> {}, mark |-> response(Respond(spec.input[k]))]} ELSE {}
        /\ pos = {}
        /\ u \in Rejecting(spec) <=> spec.input[k] = "reject"
        /\ u \in Approving(spec) <=> spec.input[k] = "approve"
    BY <2>1, OwnRow
  <2>3. under = {}
    BY <2>2
  <2>. HIDE DEF pos, under
  <2>4. DescribeRows(status, u) =
          IF u \in Rejecting(spec) THEN {[groups |-> under, mark |-> "cross"]}
          ELSE IF u \in Approving(spec) THEN {[groups |-> under, mark |-> "check"]} ELSE {}
    BY <2>2, <2>3, Marks DEF Decision
  <2>. QED
    BY <2>4 DEF under, pos
<1>2. CASE ~HasOwnEntry(u)
  <2>1. /\ DescribeRows(status, u) =
             {[groups |-> under, mark |-> response(Respond(spec.member[j][u]))] : j \in pos}
        /\ \A i, j \in pos : spec.member[i][u] = spec.member[j][u]
        /\ u \in Rejecting(spec) <=> \E j \in pos : spec.member[j][u] = "reject"
        /\ u \in Approving(spec) <=> \E j \in pos : spec.member[j][u] = "approve"
    BY <1>2, GroupRow
  <2>2. \A j \in pos : spec.member[j][u] \in Decision
    OBVIOUS
  <2>. HIDE DEF pos, under
  <2>3. CASE pos = {}
    BY <2>1, <2>3 DEF under, pos
  <2>4. CASE pos # {}
    <3>1. PICK k \in pos : TRUE
      BY <2>4
    <3>2. DescribeRows(status, u) = {[groups |-> under, mark |-> response(Respond(spec.member[k][u]))]}
      BY <2>1, <3>1
    <3>3. DescribeRows(status, u) =
            IF u \in Rejecting(spec) THEN {[groups |-> under, mark |-> "cross"]}
            ELSE IF u \in Approving(spec) THEN {[groups |-> under, mark |-> "check"]} ELSE {}
      BY <2>1, <2>2, <3>1, <3>2, Marks DEF Decision
    <3>. QED
      BY <3>3 DEF under, pos
  <2>. QED
    BY <2>3, <2>4
<1>. QED
  BY <1>1, <1>2

\* They do, then, when the record is up to date at rest.
LEMMA TablesAtRest ==
    ASSUME VInv, MissInv, RecordInv, Ballots(spec)
    PROVE  TablesAgree
<1>. SUFFICES ASSUME Quiescent, created, elapsed <= Timeout, IsRecord(status, spec)
              PROVE  /\ \A u \in Users : DescribeRows(status, u) = BallotRows(u)
                     /\ rejected(status) = Cardinality(Rejecting(spec))
  BY RecordAtRest DEF TablesAgree
<1>1. TypeOK
  BY DEF MissInv
<1>2. \A u \in Users : DescribeRows(status, u) = BallotRows(u)
  BY <1>1, RowsAreRight
<1>3. rejected(status) = Cardinality(Rejecting(spec))
  <2>1. \A u \in Users, i \in Pos : Recorded(status, u, i) = "rejected" <=> Ballot(spec, u, i) = "reject"
    BY Responds DEF IsRecord
  <2>2. {u \in Users : \E i \in Pos : Recorded(status, u, i) = "rejected"} = Rejecting(spec)
    BY <2>1 DEF Rejecting
  <2>. QED
    BY <1>1, <2>2, RespondedRecords DEF TypeOK
<1>. QED
  BY <1>2, <1>3

\* `describe' and `list' show the votes as they were given: one row for every
\* voter, with the voter's groups and mark, and no other, or, after a failed
\* call, the controller looks again within a tick.
THEOREM TablesAreRight ==
    ASSUME AllGroupsKnown
    PROVE  Spec => []TablesAgree
<1>1. VInv /\ MissInv /\ RecordInv /\ BallotInv => TablesAgree
  BY TablesAtRest DEF BallotInv
<1>. QED
  BY <1>1, VerdictInvariant, MissInvariant, RecordInvariant, BallotInvariant, PTL

-----------------------------------------------------------------------------
(* The webhook and the CLI.                                                *)

\* No group bears the name of a user.  The CLI lets a user through whose name
\* is any entry's, the webhook only one whose own entry it is.
GroupsAreNoUsers == \A i \in Pos : IsGroup(i) => Name(i) \notin Users

\* A user whom the CLI finds in the list is one the webhook finds there.
LEMMA ListedIsKnown ==
    ASSUME GroupsAreNoUsers, NEW u \in Users, containsUsername(u, MemberOf[u])
    PROVE  \E i \in Pos : OwnEntry(u, i) \/ InGroup(u, i)
<1>1. CASE \E i \in Pos : Name(i) = u
  BY <1>1, UserOrGroup DEF GroupsAreNoUsers, OwnEntry
<1>2. CASE \E i \in Pos : ApproverList[i].type = "Group" /\ Name(i) \in MemberOf[u]
  BY <1>2 DEF InGroup, IsGroup, DefaultedApproverType
<1>. QED
  BY <1>1, <1>2 DEF containsUsername

\* What the edit of a user with a decision left makes of the list.
LEMMA OpenEdit ==
    ASSUME NEW s \in SpecValue, NEW u \in Users, LinesWithin(s, u), NEW d \in Decision,
           \/ u \notin Approving(s) \cup Rejecting(s)
           \/ u \notin Rejecting(s) /\ d = "reject"
    PROVE  LET n == update(s, u, d, MemberOf[u])
           IN  /\ \A i \in Pos : OwnEntry(u, i) => n.input[i] = d /\ s.input[i] # d
               /\ \A i \in Pos : InGroup(u, i) => n.input[i] = d
               /\ \A i \in Pos : ~OwnEntry(u, i) /\ ~InGroup(u, i) => n.input[i] = s.input[i]
               /\ \A i \in Pos : HasOwnEntry(u) => n.member[i][u] = "absent" /\ s.member[i][u] = "absent"
               /\ \A i \in Pos : ~HasOwnEntry(u) /\ InGroup(u, i) => n.member[i][u] = d /\ s.member[i][u] # d
               /\ \A i \in Pos : ~InGroup(u, i) => n.member[i][u] = "absent" /\ s.member[i][u] = "absent"
               /\ \A i \in Pos, v \in Users : v # u => n.member[i][v] = s.member[i][v]
<1>. DEFINE n == update(s, u, d, MemberOf[u])
<1>1. \A i \in Pos : n.input[i] = IF OwnEntry(u, i) \/ InGroup(u, i) THEN d ELSE s.input[i]
  BY Updated, AmongOwnGroups
<1>2. \A i \in Pos, v \in Users :
        n.member[i][v] = IF v = u /\ InGroup(u, i) /\ ~HasOwnEntry(u) THEN d ELSE s.member[i][v]
  BY Updated, AmongOwnGroups
<1>. HIDE DEF n
<1>3. \A i \in Pos : Ballot(s, u, i) # d
  BY DEF Approving, Rejecting, Decision
<1>4. \A i \in Pos : OwnEntry(u, i) => s.input[i] # d
  BY <1>3 DEF Ballot
<1>5. \A i \in Pos : ~HasOwnEntry(u) /\ InGroup(u, i) => s.member[i][u] # d
  BY <1>3 DEF Ballot, HasOwnEntry, InGroup
<1>6. \A i \in Pos : HasOwnEntry(u) \/ ~InGroup(u, i) => s.member[i][u] = "absent"
  BY DEF LinesWithin
<1>. QED
  BY <1>1, <1>2, <1>4, <1>5, <1>6 DEF n

\* The webhook takes the edit for the vote that it is.
LEMMA EditIsVote ==
    ASSUME NEW s \in SpecValue, NEW u \in Users, LinesWithin(s, u), NEW d \in Decision,
           \/ u \notin Approving(s) \cup Rejecting(s)
           \/ u \notin Rejecting(s) /\ d = "reject",
           \E i \in Pos : OwnEntry(u, i) \/ InGroup(u, i)
    PROVE  LET n == update(s, u, d, MemberOf[u])
           IN  /\ DesiredInput(n, u) = d
               /\ IsUserApprovalChanged(s, n, u)
               /\ CheckOtherUsersForInvalidChanges(s, n, u)
<1>. DEFINE n == update(s, u, d, MemberOf[u])
<1>1. /\ \A i \in Pos : OwnEntry(u, i) => n.input[i] = d /\ s.input[i] # d
      /\ \A i \in Pos : InGroup(u, i) => n.input[i] = d
      /\ \A i \in Pos : ~OwnEntry(u, i) /\ ~InGroup(u, i) => n.input[i] = s.input[i]
      /\ \A i \in Pos : HasOwnEntry(u) => n.member[i][u] = "absent" /\ s.member[i][u] = "absent"
      /\ \A i \in Pos : ~HasOwnEntry(u) /\ InGroup(u, i) => n.member[i][u] = d /\ s.member[i][u] # d
      /\ \A i \in Pos : ~InGroup(u, i) => n.member[i][u] = "absent" /\ s.member[i][u] = "absent"
      /\ \A i \in Pos, v \in Users : v # u => n.member[i][v] = s.member[i][v]
  BY OpenEdit
<1>. HIDE DEF n
<1>2. d # "absent"
  BY DEF Decision
<1>3. \A i \in Pos : /\ isUserInGroup(n, u, i) <=> InGroup(u, i)
                     /\ isUserInGroup(s, u, i) <=> InGroup(u, i)
  BY <1>1 DEF isUserInGroup, InGroup
<1>4. \A i \in Pos : OwnEntry(u, i) => ~IsGroup(i) /\ ~InGroup(u, i)
  BY UserOrGroup DEF OwnEntry, InGroup
<1>5. DesiredInput(n, u) = d
  <2>. DEFINE own == {i \in Pos : OwnEntry(u, i)}
              grp == {i \in Pos : isUserInGroup(n, u, i)}
  <2>1. CASE own # {}
    <3>1. Min(own) \in own
      BY <2>1, FirstPosition
    <3>2. n.input[Min(own)] = d
      BY <1>1, <3>1
    <3>. QED
      BY <2>1, <3>2 DEF DesiredInput
  <2>2. CASE own = {}
    <3>1. grp # {} /\ ~HasOwnEntry(u)
      BY <1>3, <2>2 DEF HasOwnEntry
    <3>2. Min(grp) \in grp
      BY <3>1, FirstPosition
    <3>3. n.member[Min(grp)][u] = d
      BY <1>1, <1>3, <3>1, <3>2
    <3>. QED
      BY <1>2, <2>2, <3>1, <3>3 DEF DesiredInput
  <2>. QED
    BY <2>1, <2>2
<1>6. IsUserApprovalChanged(s, n, u)
  <2>. DEFINE deciding == {i \in Pos : OwnEntry(u, i) \/ GroupChanged(s, n, u, i)}
              k        == Min(deciding)
  <2>1. deciding # {}
    <3>1. PICK i \in Pos : OwnEntry(u, i) \/ InGroup(u, i)
      OBVIOUS
    <3>2. CASE HasOwnEntry(u)
      BY <3>2 DEF HasOwnEntry
    <3>3. CASE ~HasOwnEntry(u)
      <4>1. GroupChanged(s, n, u, i)
        BY <1>1, <1>2, <1>3, <3>1, <3>3 DEF GroupChanged, HasOwnEntry
      <4>. QED
        BY <4>1
    <3>. QED
      BY <3>2, <3>3
  <2>2. k \in deciding
    BY <2>1, FirstPosition
  <2>. HIDE DEF k
  <2>3. k \in Pos /\ (OwnEntry(u, k) \/ GroupChanged(s, n, u, k))
    BY <2>2
  <2>4. n.input[k] = d
    BY <1>1, <1>3, <2>3 DEF GroupChanged
  <2>5. s.input[k] = n.input[k] => ~OwnEntry(u, k) /\ n.member[k][u] = d
    BY <1>1, <1>3, <2>3, <2>4 DEF GroupChanged
  <2>. QED
    BY <2>1, <2>4, <2>5 DEF IsUserApprovalChanged, k
<1>7. CheckOtherUsersForInvalidChanges(s, n, u)
  <2>. SUFFICES ASSUME NEW i \in Pos
                PROVE  /\ IsUser(i) /\ ~OwnEntry(u, i) => n.input[i] = s.input[i]
                       /\ IsGroup(i) =>
                            /\ ~isUserInGroup(s, u, i) => n.input[i] = s.input[i]
                            /\ \A v \in Users \ {u} : n.member[i][v] \in {s.member[i][v], "absent"}
                            /\ (n.member[i][u] # "absent" /\ s.member[i][u] = "absent")
                                    => isUserInGroup(s, u, i)
    BY DEF CheckOtherUsersForInvalidChanges
  <2>1. IsUser(i) => ~InGroup(u, i)
    BY UserOrGroup DEF InGroup
  <2>. QED
    BY <1>1, <1>3, <1>4, <2>1
<1>. QED
  BY <1>5, <1>6, <1>7 DEF n

\* The webhook admits the edit of a user whom the status records no further
\* than the list shows.
LEMMA OpenEditAdmitted ==
    ASSUME TypeOK, LinesContained, isApprovalRequired(spec, status),
           NEW u \in Users, NEW d \in Decision, OpenDecision(u, d),
           \E i \in Pos : OwnEntry(u, i) \/ InGroup(u, i),
           \A i \in Pos : /\ Recorded(status, u, i) # "none" => u \in Approving(spec) \cup Rejecting(spec)
                          /\ Recorded(status, u, i) = "rejected" => u \in Rejecting(spec)
    PROVE  AdmitUpdate(spec, update(spec, u, d, MemberOf[u]), status, u)
<1>. DEFINE n == update(spec, u, d, MemberOf[u])
<1>1. spec \in SpecValue /\ LinesWithin(spec, u)
  BY DEF TypeOK, LinesContained
<1>2. /\ DesiredInput(n, u) = d
      /\ IsUserApprovalChanged(spec, n, u)
      /\ CheckOtherUsersForInvalidChanges(spec, n, u)
  BY <1>1, EditIsVote DEF OpenDecision
<1>. HIDE DEF n
<1>3. validateApprovalTaskSpec(ApproverList, Required)
  <2>. DEFINE T == [name : STRING, type : ApproverType]
  <2>1. ApproverList \in Seq(T)
    BY ApproverListType
  <2>. HIDE DEF T
  <2>2. Len(ApproverList) > 0
    BY <2>1 DEF Pos
  <2>. QED
    BY <2>2, RequiredPositive, NamesUnique DEF validateApprovalTaskSpec, Pos, Name
<1>4. ifUserExists(spec, u)
  BY DEF ifUserExists, isUserInGroup, InGroup
<1>5. ~checkIfUserAlreadyDecided(status, n, u)
  <2>1. ASSUME NEW r \in RecordedResponses(status, u), r # "none"
        PROVE  \E i \in Pos : Recorded(status, u, i) = r
    BY <2>1, UserOrGroup DEF RecordedResponses, Recorded, OwnEntry
  <2>2. "rejected" \notin RecordedResponses(status, u)
    BY <2>1 DEF OpenDecision
  <2>3. "approved" \in RecordedResponses(status, u) => d = "reject"
    BY <2>1 DEF OpenDecision
  <2>. QED
    BY <1>2, <2>2, <2>3 DEF checkIfUserAlreadyDecided
<1>. QED
  BY <1>2, <1>3, <1>4, <1>5 DEF AdmitUpdate, n

\* Whoever is in the list and has a decision left can deliver it: as long as
\* the task is undecided the webhook admits the edit the CLI makes.
THEOREM OpenDecisionsPass ==
    ASSUME GroupsAreNoUsers
    PROVE  Spec => []OpenDecisionsAdmitted
<1>1. TypeOK /\ RecordInv /\ RecordStands => OpenDecisionsAdmitted
  <2>. SUFFICES ASSUME TypeOK, RecordInv, RecordStands, created,
                       status.state \notin {"approved", "rejected"},
                       ~EnoughApprovals(spec), NEW u \in Users, NEW d \in Decision,
                       containsUsername(u, MemberOf[u]), OpenDecision(u, d)
                PROVE  AdmitUpdate(spec, update(spec, u, d, MemberOf[u]), status, u)
    BY DEF OpenDecisionsAdmitted
  <2>1. isApprovalRequired(spec, status)
    BY CountedApprove, CountType, RequiredPositive
       DEF isApprovalRequired, EnoughApprovals, countApprovalsReceived
  <2>. QED
    BY <2>1, ListedIsKnown, OpenEditAdmitted DEF RecordInv, RecordStands
<1>. QED
  BY <1>1, TypeCorrect, RecordInvariant, RecordStandsAlways, PTL
=============================================================================
