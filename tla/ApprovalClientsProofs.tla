----------------------- MODULE ApprovalClientsProofs -----------------------
(***************************************************************************)
(* Votes by commands and by patches alike: a ballot is its owner's last    *)
(* decision accepted for it, and an accepted vote counts at once.  The     *)
(* argument is about the lists that are on their way to the webhook: each  *)
(* says one thing of the user who sends it, and the webhook lets it say    *)
(* nothing new of anybody else.  What the gate promises when commands      *)
(* alone change the list it promises then, too, and a vote that a patch    *)
(* drops can be given again.                                               *)
(***************************************************************************)
EXTENDS ApprovalGateClients, ApprovalRecordProofs

-----------------------------------------------------------------------------
(* The invariant.                                                          *)

\* The list says d of u, in the individual entry and in all of u's groups.
VoteOf(s, u, d) ==
    \A i \in Pos :
        /\ OwnEntry(u, i) \/ InGroup(u, i) => s.input[i] = d
        /\ InGroup(u, i) /\ ~HasOwnEntry(u) => s.member[i][u] = d

PatchesTyped ==
    /\ patch \in [Patchers -> SpecValue \cup {NoPatch}]
    /\ DOMAIN cast = Users

CommandsInformed == \A u \in Users : cli[u] # Idle => cli[u].groups \in getUserInfo(u)

PatchesVote == \A u \in Patchers : patch[u] # NoPatch => \E d \in Decision : VoteOf(patch[u], u, d)

ListsContained ==
    \A v \in Users :
        /\ LinesWithin(spec, v)
        /\ \A u \in Patchers : patch[u] # NoPatch => LinesWithin(patch[u], v)

ClientInv ==
    /\ TypeOK /\ PatchesTyped /\ CommandsInformed /\ PatchesVote /\ ListsContained
    /\ BallotsAreCurrent

-----------------------------------------------------------------------------
(* Lists.                                                                  *)

\* The list an edit in the user's own groups makes is that user's vote.
LEMMA UpdateVotes ==
    ASSUME NEW s \in SpecValue, NEW u \in Users, NEW d \in Decision
    PROVE  VoteOf(update(s, u, d, MemberOf[u]), u, d)
  BY Updated, AmongOwnGroups DEF VoteOf

\* Such an edit adds no line outside the user's groups.
LEMMA UpdateKeepsWithin ==
    ASSUME NEW s \in SpecValue, NEW u \in Users, NEW d \in Decision, NEW v \in Users, LinesWithin(s, v)
    PROVE  LinesWithin(update(s, u, d, MemberOf[u]), v)
  BY Updated, AmongOwnGroups DEF LinesWithin

\* The new list has no lines and no votes.
LEMMA InitialList ==
    ASSUME NEW u \in Users
    PROVE  /\ LinesWithin(InitialSpec, u)
           /\ \A i \in Pos : Ballot(InitialSpec, u, i) \notin Decision
  BY DEF InitialSpec, LinesWithin, Ballot, Decision

\* What the webhook reads as the wish of the sender is the vote.
LEMMA DesiredIsVote ==
    ASSUME NEW n \in SpecValue, NEW u \in Users, NEW d \in Decision, VoteOf(n, u, d), LinesWithin(n, u),
           NEW i \in Pos, OwnEntry(u, i) \/ InGroup(u, i)
    PROVE  DesiredInput(n, u) = d
<1>. DEFINE own == {j \in Pos : OwnEntry(u, j)}
            grp == {j \in Pos : isUserInGroup(n, u, j)}
<1>1. CASE own # {}
  <2>1. Min(own) \in own
    BY <1>1, FirstPosition
  <2>2. n.input[Min(own)] = d
    BY <2>1 DEF VoteOf
  <2>. QED
    BY <1>1, <2>2 DEF DesiredInput
<1>2. CASE own = {}
  <2>1. ~HasOwnEntry(u) /\ grp # {}
    BY <1>2 DEF HasOwnEntry, isUserInGroup, InGroup
  <2>2. Min(grp) \in grp
    BY <2>1, FirstPosition
  <2>3. Min(grp) \in Pos /\ InGroup(u, Min(grp))
    BY <2>2 DEF isUserInGroup, LinesWithin
  <2>4. n.member[Min(grp)][u] = d /\ d # "absent"
    BY <2>1, <2>3 DEF VoteOf, Decision
  <2>. QED
    BY <1>2, <2>1, <2>4 DEF DesiredInput
<1>. QED
  BY <1>1, <1>2

\* The ballots of the others in a list that the webhook admits are the stored
\* ones, or gone.
LEMMA OthersKept ==
    ASSUME NEW o, NEW n, NEW u \in Users, CheckOtherUsersForInvalidChanges(o, n, u),
           NEW v \in Users, v # u, NEW i \in Pos
    PROVE  Ballot(n, v, i) \in {Ballot(o, v, i), "absent"}
<1>1. CASE OwnEntry(v, i)
  <2>1. IsUser(i) /\ ~OwnEntry(u, i)
    BY <1>1 DEF OwnEntry
  <2>. QED
    BY <1>1, <2>1 DEF CheckOtherUsersForInvalidChanges, Ballot
<1>2. CASE ~OwnEntry(v, i)
  BY <1>2 DEF CheckOtherUsersForInvalidChanges, Ballot
<1>. QED
  BY <1>1, <1>2

-----------------------------------------------------------------------------
(* Steps.                                                                  *)

\* A command that changes the list sends its user's edit, and the webhook finds
\* the user's vote in it and nothing that is not the user's.
CommandVotes(u) ==
    /\ cli[u] # Idle
    /\ IsUserApprovalChanged(spec, Edited(u), u)
    /\ CheckOtherUsersForInvalidChanges(spec, Edited(u), u)
    /\ spec' = Edited(u)
    /\ cli' = [cli EXCEPT ![u] = Idle]

\* The gate changes the list by creating the task or by a command.
LEMMA ListSteps ==
    ASSUME [Next]_vars
    PROVE  \/ spec' = spec
           \/ spec' = InitialSpec /\ cli' = cli
           \/ \E u \in Users : CommandVotes(u)
<1>1. CASE CreateApprovalTask
  BY <1>1 DEF CreateApprovalTask, taskVars, userVars
<1>2. CASE ReconcileStep /\ ~CreateApprovalTask
  BY <1>2 DEF ReconcileStep, StartReconcile, GetApprovalTask, ReconcileEmpty, RefetchApprovalTask, InitializeStatus,
        RejectOnTimeout, EvaluateInputs, PropagateLabels, FinishReconcile, taskVars
<1>3. CASE CacheSync \/ Resync \/ TimerFires \/ Tick \/ Restart
  BY <1>3 DEF CacheSync, Resync, TimerFires, Tick, Restart, taskVars
<1>4. ASSUME NEW u \in Users, Approve(u) \/ Reject(u)
      PROVE  spec' = spec
  BY <1>4 DEF Approve, Reject, CliGet
<1>5. ASSUME NEW u \in Users, CliUpdate(u)
      PROVE  spec' = spec \/ CommandVotes(u)
  BY <1>5 DEF CliUpdate, Admitted, AdmitUpdate, CommandVotes
<1>6. CASE UNCHANGED vars
  BY <1>6 DEF vars, taskVars
<1>. QED
  BY <1>1, <1>2, <1>3, <1>4, <1>5, <1>6 DEF Next

\* What a client's step leaves alone.
LEMMA ClientSteps ==
    ASSUME NEW u \in Patchers, PreparePatch(u) \/ SendPatch(u)
    PROVE  /\ UNCHANGED <<runVars, created, status, timer, elapsed, pc, locals, cli, faults>>
           /\ PreparePatch(u) => UNCHANGED <<spec, holders, queue, cast>>
           /\ SendPatch(u) => commands' = commands
  BY DEF PreparePatch, SendPatch, taskVars, timeVars, userVars

LEMMA ClientsKeepType ==
    ASSUME TypeOK, PatchesTyped, [NextClients]_allVars
    PROVE  TypeOK' /\ PatchesTyped'
<1>1. CASE GateStep
  BY <1>1, NextKeepsType DEF GateStep, PatchesTyped
<1>2. ASSUME NEW u \in Patchers, PreparePatch(u)
      PROVE  TypeOK' /\ PatchesTyped'
  <2>1. UNCHANGED <<runVars, taskVars, timeVars, pc, locals, cli, faults, cast>>
    BY <1>2 DEF PreparePatch
  <2>2. commands' \in 0 .. MaxCommands
    BY <1>2, BoundsType DEF PreparePatch, TypeOK
  <2>3. PICK d \in Decision : patch' = [patch EXCEPT ![u] = update(spec, u, d, MemberOf[u])]
    BY <1>2 DEF PreparePatch
  <2>4. update(spec, u, d, MemberOf[u]) \in SpecValue
    BY PatchersAreUsers, UpdateType DEF TypeOK
  <2>5. TypeOK'
    BY <2>1, <2>2 DEF TypeOK, runVars, taskVars, timeVars, locals
  <2>. QED
    BY <2>1, <2>3, <2>4, <2>5 DEF PatchesTyped
<1>3. ASSUME NEW u \in Patchers, SendPatch(u)
      PROVE  TypeOK' /\ PatchesTyped'
  <2>1. UNCHANGED <<runVars, created, status, timer, elapsed, pc, locals, userVars, faults>>
    BY <1>3 DEF SendPatch
  <2>2. spec' \in SpecValue /\ holders' \subseteq Clients /\ queue' \in BOOLEAN
    BY <1>3 DEF SendPatch, TaskWritten, PatchesTyped, TypeOK
  <2>3. patch' \in [Patchers -> SpecValue \cup {NoPatch}] /\ DOMAIN cast' = Users
    BY <1>3 DEF SendPatch, PatchesTyped
  <2>. QED
    BY <2>1, <2>2, <2>3 DEF TypeOK, PatchesTyped, runVars, locals, userVars
<1>4. CASE UNCHANGED allVars
  <2>1. UNCHANGED vars /\ UNCHANGED <<patch, cast>>
    BY <1>4 DEF allVars, clientVars
  <2>. QED
    BY <2>1, NextKeepsType DEF PatchesTyped
<1>. QED
  BY <1>1, <1>2, <1>3, <1>4 DEF NextClients

\* A command carries a decision, and groups the user was found to be in.
LEMMA CommandKnows ==
    ASSUME TypeOK, CommandsInformed, NEW u \in Users, cli[u] # Idle
    PROVE  cli[u].input \in Decision /\ cli[u].groups \in getUserInfo(u)
  BY DEF TypeOK, Command, CommandsInformed

LEMMA KeepsCommandsInformed ==
    ASSUME TypeOK, CommandsInformed, [NextClients]_allVars
    PROVE  CommandsInformed'
<1>1. ASSUME NEW u \in Users, NEW d \in Decision, CliGet(u, d)
      PROVE  CommandsInformed'
  <2>1. PICK groups \in getUserInfo(u) : cli' = [cli EXCEPT ![u] = [input |-> d, groups |-> groups]]
    BY <1>1 DEF CliGet
  <2>2. \A v \in Users : cli'[v] = IF v = u THEN [input |-> d, groups |-> groups] ELSE cli[v]
    BY <2>1 DEF TypeOK
  <2>. QED
    BY <2>2 DEF CommandsInformed
<1>2. ASSUME NEW u \in Users, CliUpdate(u)
      PROVE  CommandsInformed'
  <2>1. \A v \in Users : cli'[v] = IF v = u THEN Idle ELSE cli[v]
    BY <1>2 DEF CliUpdate, TypeOK
  <2>. QED
    BY <2>1 DEF CommandsInformed
<1>3. CASE cli' = cli
  BY <1>3 DEF CommandsInformed
<1>4. CASE ReconcileStep
  <2>1. cli' = cli
    BY <1>4 DEF ReconcileStep, StartReconcile, GetApprovalTask, ReconcileEmpty, CreateApprovalTask, RefetchApprovalTask,
          InitializeStatus, RejectOnTimeout, EvaluateInputs, PropagateLabels, FinishReconcile, userVars
  <2>. QED
    BY <1>3, <2>1
<1>5. CASE CacheSync \/ Resync \/ TimerFires \/ Tick \/ Restart
  <2>1. cli' = cli
    BY <1>5 DEF CacheSync, Resync, TimerFires, Tick, Restart, userVars
  <2>. QED
    BY <1>3, <2>1
<1>6. CASE GateStep
  BY <1>1, <1>2, <1>4, <1>5, <1>6 DEF GateStep, Next, Approve, Reject, Decision
<1>7. CASE \E u \in Patchers : PreparePatch(u) \/ SendPatch(u)
  BY <1>3, <1>7, ClientSteps
<1>8. CASE UNCHANGED allVars
  BY <1>3, <1>8 DEF allVars, vars, userVars
<1>. QED
  BY <1>6, <1>7, <1>8 DEF NextClients

LEMMA KeepsPatchesVote ==
    ASSUME TypeOK, PatchesTyped, PatchesVote, [NextClients]_allVars
    PROVE  PatchesVote'
<1>1. ASSUME NEW u \in Patchers, PreparePatch(u)
      PROVE  PatchesVote'
  <2>1. PICK d \in Decision : patch' = [patch EXCEPT ![u] = update(spec, u, d, MemberOf[u])]
    BY <1>1 DEF PreparePatch
  <2>2. \A v \in Patchers : patch'[v] = IF v = u THEN update(spec, u, d, MemberOf[u]) ELSE patch[v]
    BY <2>1 DEF PatchesTyped
  <2>3. VoteOf(update(spec, u, d, MemberOf[u]), u, d)
    BY PatchersAreUsers, UpdateVotes DEF TypeOK
  <2>. QED
    BY <2>2, <2>3 DEF PatchesVote
<1>2. ASSUME NEW u \in Patchers, SendPatch(u)
      PROVE  PatchesVote'
  <2>1. \A v \in Patchers : patch'[v] = IF v = u THEN NoPatch ELSE patch[v]
    BY <1>2 DEF SendPatch, PatchesTyped
  <2>. QED
    BY <2>1 DEF PatchesVote
<1>3. CASE patch' = patch
  BY <1>3 DEF PatchesVote
<1>. QED
  BY <1>1, <1>2, <1>3 DEF NextClients, GateStep, allVars, clientVars

LEMMA KeepsListsContained ==
    ASSUME TypeOK, PatchesTyped, CommandsInformed, ListsContained, [NextClients]_allVars
    PROVE  ListsContained'
<1>. SUFFICES ASSUME NEW v \in Users
              PROVE  /\ LinesWithin(spec', v)
                     /\ \A u \in Patchers : patch'[u] # NoPatch => LinesWithin(patch'[u], v)
  BY DEF ListsContained
<1>1. LinesWithin(spec, v) /\ \A u \in Patchers : patch[u] # NoPatch => LinesWithin(patch[u], v)
  BY DEF ListsContained
<1>2. CASE GateStep \/ UNCHANGED allVars
  <2>1. [Next]_vars /\ patch' = patch
    BY <1>2 DEF GateStep, allVars, clientVars
  <2>2. ASSUME NEW u \in Users, CommandVotes(u)
        PROVE  LinesWithin(spec', v)
    <3>1. cli[u].input \in Decision /\ spec \in SpecValue
      BY <2>2, CommandKnows DEF CommandVotes, TypeOK
    <3>2. \A w \in Users : LinesWithin(spec, w)
      BY DEF ListsContained
    <3>. QED
      BY <2>2, <3>1, <3>2, AdmittedLines DEF CommandVotes, Edited
  <2>3. LinesWithin(spec', v)
    BY <1>1, <2>1, <2>2, ListSteps, InitialList
  <2>. QED
    BY <1>1, <2>1, <2>3
<1>3. ASSUME NEW u \in Patchers, PreparePatch(u)
      PROVE  /\ LinesWithin(spec', v)
             /\ \A w \in Patchers : patch'[w] # NoPatch => LinesWithin(patch'[w], v)
  <2>1. PICK d \in Decision : patch' = [patch EXCEPT ![u] = update(spec, u, d, MemberOf[u])]
    BY <1>3 DEF PreparePatch
  <2>2. \A w \in Patchers : patch'[w] = IF w = u THEN update(spec, u, d, MemberOf[u]) ELSE patch[w]
    BY <2>1 DEF PatchesTyped
  <2>3. LinesWithin(update(spec, u, d, MemberOf[u]), v)
    BY <1>1, PatchersAreUsers, UpdateKeepsWithin DEF TypeOK
  <2>4. spec' = spec
    BY <1>3, ClientSteps
  <2>. QED
    BY <1>1, <2>2, <2>3, <2>4
<1>4. ASSUME NEW u \in Patchers, SendPatch(u)
      PROVE  /\ LinesWithin(spec', v)
             /\ \A w \in Patchers : patch'[w] # NoPatch => LinesWithin(patch'[w], v)
  <2>1. \A w \in Patchers : patch'[w] = IF w = u THEN NoPatch ELSE patch[w]
    BY <1>4 DEF SendPatch, PatchesTyped
  <2>2. patch[u] # NoPatch /\ (spec' = patch[u] \/ spec' = spec)
    BY <1>4 DEF SendPatch
  <2>. QED
    BY <1>1, <2>1, <2>2
<1>. QED
  BY <1>2, <1>3, <1>4 DEF NextClients

-----------------------------------------------------------------------------
(* Ballots are current.                                                    *)

\* An edit leaves the user no other ballot where it reaches, and elsewhere the
\* ballots that were there.
LEMMA OwnEdited ==
    ASSUME NEW s \in SpecValue, NEW u \in Users, NEW d \in Decision, NEW groups, LinesWithin(s, u),
           NEW i \in Pos, Ballot(update(s, u, d, groups), u, i) \in Decision
    PROVE  Ballot(update(s, u, d, groups), u, i)
              = IF OwnEntry(u, i) \/ AmongGroups(groups, i) THEN d ELSE Ballot(s, u, i)
<1>. DEFINE n == update(s, u, d, groups)
<1>1. n.input[i] = IF OwnEntry(u, i) \/ AmongGroups(groups, i) THEN d ELSE s.input[i]
  BY Updated
<1>2. n.member[i][u] = IF AmongGroups(groups, i) /\ ~HasOwnEntry(u) THEN d ELSE s.member[i][u]
  BY Updated
<1>3. Ballot(n, u, i) \in Decision
  OBVIOUS
<1>. HIDE DEF n
<1>4. Ballot(n, u, i) = IF OwnEntry(u, i) \/ AmongGroups(groups, i) THEN d ELSE Ballot(s, u, i)
  BY <1>1, <1>2, <1>3 DEF Ballot, LinesWithin, Decision
<1>. QED
  BY <1>4 DEF n

\* An edit leaves the ballots of the others as they were.
LEMMA OthersEdited ==
    ASSUME NEW s \in SpecValue, NEW u \in Users, NEW d \in Decision, NEW groups,
           NEW v \in Users, v # u, NEW i \in Pos
    PROVE  Ballot(update(s, u, d, groups), v, i) = Ballot(s, v, i)
<1>1. OwnEntry(v, i) => ~AmongGroups(groups, i) /\ ~OwnEntry(u, i)
  BY UserOrGroup DEF OwnEntry, AmongGroups
<1>. QED
  BY <1>1, Updated DEF Ballot

LEMMA KeepsBallotsAreCurrent ==
    ASSUME ClientInv, [NextClients]_allVars
    PROVE  BallotsAreCurrent'
<1>. SUFFICES ASSUME NEW v \in Users, NEW i \in Pos,
                     Ballot(spec', v, i) \in Decision
              PROVE  Ballot(spec', v, i) = cast'[v][i]
  BY DEF BallotsAreCurrent
<1>. USE DEF ClientInv
<1>1. Ballot(spec, v, i) \in Decision => Ballot(spec, v, i) = cast[v][i]
  BY DEF BallotsAreCurrent
<1>2. LinesWithin(spec, v) /\ \A u \in Patchers : patch[u] # NoPatch => LinesWithin(patch[u], v)
  BY DEF ListsContained
<1>3. CASE GateStep
  <2>1. cast'[v] = IF spec' # spec /\ cli'[v] # cli[v]
                   THEN Voted(v, cli[v].input, cli[v].groups) ELSE cast[v]
    BY <1>3 DEF GateStep
  <2>2. CASE spec' = spec
    BY <1>1, <2>1, <2>2
  <2>3. CASE spec' = InitialSpec
    BY <2>3, InitialList
  <2>4. ASSUME NEW u \in Users, CommandVotes(u), spec' # spec
        PROVE  Ballot(spec', v, i) = cast'[v][i]
    <3>1. cli[u].input \in Decision /\ spec \in SpecValue
      BY <2>4, CommandKnows DEF CommandVotes, TypeOK
    <3>2. cli'[v] = IF v = u THEN Idle ELSE cli[v]
      BY <2>4 DEF CommandVotes, TypeOK
    <3>3. CASE v # u
      <4>1. Ballot(spec', v, i) = Ballot(spec, v, i)
        BY <2>4, <3>1, <3>3, OthersEdited DEF CommandVotes, Edited
      <4>. QED
        BY <1>1, <2>1, <3>2, <3>3, <4>1
    <3>4. CASE v = u
      <4>. DEFINE reached == OwnEntry(v, i) \/ AmongGroups(cli[v].groups, i)
      <4>1. Ballot(spec', v, i) = IF reached THEN cli[v].input ELSE Ballot(spec, v, i)
        BY <1>2, <2>4, <3>1, <3>4, OwnEdited DEF CommandVotes, Edited
      <4>2. cast'[v][i] = IF reached THEN cli[v].input ELSE cast[v][i]
        BY <2>1, <2>4, <3>2, <3>4 DEF CommandVotes, Voted
      <4>. QED
        BY <1>1, <4>1, <4>2
    <3>. QED
      BY <3>3, <3>4
  <2>. QED
    BY <1>3, <2>2, <2>3, <2>4, ListSteps DEF GateStep
<1>4. ASSUME NEW u \in Patchers, PreparePatch(u)
      PROVE  Ballot(spec', v, i) = cast'[v][i]
  BY <1>1, <1>4, ClientSteps
<1>5. ASSUME NEW u \in Patchers, SendPatch(u)
      PROVE  Ballot(spec', v, i) = cast'[v][i]
  <2>1. CASE UNCHANGED <<spec, cast>>
    BY <1>1, <2>1
  <2>2. CASE /\ AdmitUpdate(spec, patch[u], status, u)
             /\ spec' = patch[u]
             /\ cast' = [cast EXCEPT ![u] = Voted(u, DesiredInput(patch[u], u), MemberOf[u])]
    <3>1. u \in Users /\ patch[u] # NoPatch
      BY <1>5, PatchersAreUsers DEF SendPatch
    <3>2. cast'[v] = IF v = u THEN Voted(u, DesiredInput(patch[u], u), MemberOf[u]) ELSE cast[v]
      BY <2>2 DEF PatchesTyped
    <3>3. CASE v # u
      <4>1. Ballot(spec', v, i) \in {Ballot(spec, v, i), "absent"}
        BY <2>2, <3>1, <3>3, OthersKept DEF AdmitUpdate
      <4>. QED
        BY <1>1, <3>2, <3>3, <4>1 DEF Decision
    <3>4. CASE v = u
      <4>1. PICK d \in Decision : VoteOf(patch[u], u, d)
        BY <3>1 DEF PatchesVote
      <4>2. patch[u] \in SpecValue /\ LinesWithin(patch[u], u)
        BY <1>2, <3>1, <3>4 DEF PatchesTyped
      <4>3. OwnEntry(u, i) \/ InGroup(u, i)
        BY <2>2, <3>4, <4>2 DEF Ballot, LinesWithin, Decision
      <4>4. Ballot(patch[u], u, i) = d
        BY <2>2, <3>4, <4>1, <4>2, <4>3 DEF Ballot, LinesWithin, VoteOf, Decision
      <4>5. DesiredInput(patch[u], u) = d
        BY <3>1, <4>1, <4>2, <4>3, DesiredIsVote
      <4>6. cast'[v][i] = DesiredInput(patch[u], u)
        BY <3>1, <3>2, <3>4, <4>3, AmongOwnGroups DEF Voted
      <4>. QED
        BY <2>2, <3>4, <4>4, <4>5, <4>6
    <3>. QED
      BY <3>3, <3>4
  <2>. QED
    BY <1>5, <2>1, <2>2 DEF SendPatch
<1>6. CASE UNCHANGED allVars
  BY <1>1, <1>6 DEF allVars, vars, taskVars, clientVars
<1>. QED
  BY <1>3, <1>4, <1>5, <1>6 DEF NextClients

LEMMA InitClientInv ==
    ASSUME InitClients
    PROVE  ClientInv
<1>1. TypeOK
  BY InitIsTyped DEF InitClients
<1>2. PatchesTyped /\ PatchesVote
  BY DEF InitClients, PatchesTyped, PatchesVote
<1>3. CommandsInformed
  BY DEF InitClients, Init, CommandsInformed
<1>4. ListsContained /\ BallotsAreCurrent
  BY InitialList DEF InitClients, Init, ListsContained, BallotsAreCurrent
<1>. QED
  BY <1>1, <1>2, <1>3, <1>4 DEF ClientInv

LEMMA KeepsClientInv ==
    ASSUME ClientInv, [NextClients]_allVars
    PROVE  ClientInv'
  BY ClientsKeepType, KeepsCommandsInformed, KeepsPatchesVote, KeepsListsContained,
     KeepsBallotsAreCurrent DEF ClientInv

LEMMA ClientInvariant == SpecClients => []ClientInv
<1>1. InitClients => ClientInv
  BY InitClientInv
<1>2. ClientInv /\ [NextClients]_allVars => ClientInv'
  BY KeepsClientInv
<1>. QED
  BY <1>1, <1>2, PTL DEF SpecClients

\* No decision comes back that its owner has revised, and nobody's vote is put
\* in by anybody else, however old the lists are that clients send with their
\* own vote put in: the webhook admits a list that says something new of its
\* sender only, and what it says of the sender is the decision accepted.
THEOREM BallotsStayCurrent == SpecClients => []BallotsAreCurrent
  BY ClientInvariant, PTL DEF ClientInv

-----------------------------------------------------------------------------
(* An accepted vote counts.                                                *)

\* The list shows u's decision d where the controller looks for it.
Shown(n, u, d) ==
    \E i \in Pos : /\ n.input[i] = d
                   /\ OwnEntry(u, i) \/ (IsGroup(i) /\ ~HasOwnEntry(u) /\ n.member[i][u] = d)

LEMMA ShownCounts ==
    ASSUME NEW n, NEW u \in Users, NEW d, Shown(n, u, d)
    PROVE  /\ d = "approve" => u \in ApprovedUsers(n)
           /\ d = "reject" => u \in Rejecting(n) /\ approvalTaskHasFalseInput(n)
<1>1. PICK i \in Pos : /\ n.input[i] = d
                       /\ OwnEntry(u, i) \/ (IsGroup(i) /\ ~HasOwnEntry(u) /\ n.member[i][u] = d)
  BY DEF Shown
<1>2. Ballot(n, u, i) = d
  BY <1>1 DEF Ballot, HasOwnEntry
<1>. QED
  BY <1>1, <1>2 DEF ApprovedUsers, Rejecting, approvalTaskHasFalseInput

\* A command that changes the list shows its decision there, whichever groups
\* it takes its user to be in.
LEMMA EditShows ==
    ASSUME NEW s \in SpecValue, NEW u \in Users, NEW d \in Decision, NEW groups,
           update(s, u, d, groups) # s
    PROVE  Shown(update(s, u, d, groups), u, d)
<1>. DEFINE n == update(s, u, d, groups)
<1>1. CASE HasOwnEntry(u)
  <2>1. PICK i \in Pos : OwnEntry(u, i)
    BY <1>1 DEF HasOwnEntry
  <2>2. n.input[i] = d
    BY <2>1, Updated
  <2>. QED
    BY <2>1, <2>2 DEF Shown
<1>2. CASE ~HasOwnEntry(u) /\ \E i \in Pos : AmongGroups(groups, i)
  <2>1. PICK i \in Pos : AmongGroups(groups, i)
    BY <1>2
  <2>2. n.input[i] = d /\ n.member[i][u] = d /\ IsGroup(i)
    BY <1>2, <2>1, Updated DEF AmongGroups
  <2>. QED
    BY <1>2, <2>2 DEF Shown
<1>3. CASE ~HasOwnEntry(u) /\ \A i \in Pos : ~AmongGroups(groups, i)
  <2>1. \A i \in Pos : ~OwnEntry(u, i)
    BY <1>3 DEF HasOwnEntry
  <2>2. n = [input |-> [i \in Pos |-> s.input[i]], member |-> [i \in Pos |-> s.member[i]]]
    BY <1>3, <2>1 DEF update
  <2>3. n = s
    BY <2>2 DEF SpecValue
  <2>. QED
    BY ONLY <2>3, n # s DEF n
<1>. QED
  BY <1>1, <1>2, <1>3

\* A patch shows the decision that the webhook reads in it.
LEMMA PatchShows ==
    ASSUME NEW n \in SpecValue, NEW u \in Users, NEW e \in Decision, VoteOf(n, u, e), LinesWithin(n, u),
           NEW d \in Decision, DesiredInput(n, u) = d
    PROVE  Shown(n, u, d)
<1>1. \E i \in Pos : OwnEntry(u, i) \/ isUserInGroup(n, u, i)
  <2>1. SUFFICES ASSUME \A i \in Pos : ~OwnEntry(u, i) /\ ~isUserInGroup(n, u, i)
                 PROVE  FALSE
    OBVIOUS
  <2>2. {i \in Pos : OwnEntry(u, i)} = {} /\ {i \in Pos : isUserInGroup(n, u, i)} = {}
    BY <2>1
  <2>3. DesiredInput(n, u) = ""
    BY <2>2, Zenon DEF DesiredInput
  <2>4. "" \notin Decision
    BY Zenon DEF Decision
  <2>. QED
    BY <2>3, <2>4, Zenon
<1>2. PICK i \in Pos : OwnEntry(u, i) \/ isUserInGroup(n, u, i)
  BY <1>1
<1>3. OwnEntry(u, i) \/ InGroup(u, i)
  BY <1>2 DEF isUserInGroup, LinesWithin
<1>4. e = d
  BY <1>3, DesiredIsVote
<1>5. CASE HasOwnEntry(u)
  <2>1. PICK j \in Pos : OwnEntry(u, j)
    BY <1>5 DEF HasOwnEntry
  <2>2. n.input[j] = d
    BY <1>4, <2>1 DEF VoteOf
  <2>. QED
    BY <2>1, <2>2 DEF Shown
<1>6. CASE ~HasOwnEntry(u)
  <2>1. InGroup(u, i)
    BY <1>3, <1>6 DEF HasOwnEntry
  <2>. QED
    <3>1. IsGroup(i) /\ n.input[i] = d /\ n.member[i][u] = d
      BY <1>4, <1>6, <2>1 DEF VoteOf, InGroup
    <3>. QED
      BY <1>6, <3>1 DEF Shown
<1>. QED
  BY <1>5, <1>6

LEMMA AcceptedIsShown ==
    ASSUME ClientInv, [NextClients]_allVars,
           NEW u \in Users, NEW d \in Decision, Accepted(u, d)
    PROVE  Shown(spec', u, d)
<1>. USE DEF ClientInv
<1>1. spec' # spec
  BY DEF Accepted
<1>2. CASE GateStep
  <2>1. patch' = patch
    BY <1>2 DEF GateStep
  <2>2. cli'[u] # cli[u] /\ cli[u].input = d
    BY <2>1 DEF Accepted
  <2>3. PICK w \in Users : CommandVotes(w)
    BY <1>1, <1>2, <2>2, ListSteps DEF GateStep
  <2>4. w = u
    BY <2>2, <2>3 DEF CommandVotes, TypeOK
  <2>5. spec' = update(spec, u, d, cli[u].groups)
    BY <2>2, <2>3, <2>4 DEF CommandVotes, Edited
  <2>. QED
    BY <1>1, <2>5, EditShows DEF TypeOK
<1>3. ASSUME NEW w \in Patchers, SendPatch(w)
      PROVE  Shown(spec', u, d)
  <2>1. spec' = patch[w] /\ patch[w] # NoPatch
    BY <1>1, <1>3 DEF SendPatch
  <2>2. u \in Patchers /\ patch'[u] # patch[u] /\ DesiredInput(patch[u], u) = d
    BY <1>3, ClientSteps DEF Accepted
  <2>3. w = u
    BY <1>3, <2>2 DEF SendPatch, PatchesTyped
  <2>4. PICK e \in Decision : VoteOf(patch[u], u, e)
    BY <2>1, <2>3 DEF PatchesVote
  <2>5. patch[u] \in SpecValue /\ LinesWithin(patch[u], u)
    BY <2>1, <2>2, <2>3 DEF PatchesTyped, ListsContained
  <2>. QED
    BY <2>1, <2>2, <2>3, <2>4, <2>5, PatchShows
<1>4. ASSUME NEW w \in Patchers, PreparePatch(w)
      PROVE  FALSE
  BY <1>1, <1>4, ClientSteps
<1>5. CASE UNCHANGED allVars
  BY <1>1, <1>5 DEF allVars, vars, taskVars
<1>. QED
  BY <1>2, <1>3, <1>4, <1>5 DEF NextClients

\* A vote that is accepted has its effect at once: an approval is among those
\* the controller counts, a rejection is one the controller sees.  This holds
\* whatever groups the User objects name, for the webhook admits no line under
\* a group that the authenticated user is not in.
THEOREM AcceptedVotesCount == SpecClients => AcceptedVoteCounts
<1>1. ASSUME ClientInv, [NextClients]_allVars, NEW u \in Users
      PROVE  /\ Accepted(u, "approve") => u \in ApprovedUsers(spec')
             /\ Accepted(u, "reject")  => u \in Rejecting(spec') /\ approvalTaskHasFalseInput(spec')
  BY <1>1, AcceptedIsShown, ShownCounts DEF Decision
<1>2. ClientInv /\ [NextClients]_allVars =>
        [\A u \in Users :
            /\ Accepted(u, "approve") => u \in ApprovedUsers(spec')
            /\ Accepted(u, "reject")  => u \in Rejecting(spec') /\ approvalTaskHasFalseInput(spec')]_allVars
  BY <1>1
<1>. QED
  BY <1>2, ClientInvariant, PTL DEF SpecClients, AcceptedVoteCounts

-----------------------------------------------------------------------------
(* The gate with patching clients.                                         *)

\* The invariants of the gate itself.
GateInv == VInv /\ MissInv /\ DecidedIsSeen /\ Settled /\ RecordInv

\* What is under way is somebody's edit of a list of votes.
PatchesHoldVotes == \A u \in Patchers : patch[u] # NoPatch => Votes(patch[u])

\* Whoever has voted is known to the webhook.
CastIsKnown ==
    \A u \in Users :
        (\E i \in Pos : cast[u][i] # "none") => \E i \in Pos : OwnEntry(u, i) \/ InGroup(u, i)

AllInv == ClientInv /\ GateInv /\ PatchesHoldVotes /\ CastIsKnown

\* The client's step replaces the list: the webhook finds the task open and
\* its approvals short, and the controller's copy goes out of date.
PatchVotes(u) ==
    /\ patch[u] # NoPatch /\ created
    /\ AdmitUpdate(spec, patch[u], status, u)
    /\ spec' = patch[u]
    /\ holders' = {} /\ queue' = TRUE

LEMMA PatchSteps ==
    ASSUME NEW u \in Patchers, PreparePatch(u) \/ SendPatch(u)
    PROVE  /\ UNCHANGED <<params, run, cache, created, status, timer, elapsed, pc,
                          orig, mine, seen, result, cli, faults>>
           /\ UNCHANGED <<spec, holders, queue>> \/ PatchVotes(u)
  BY DEF PreparePatch, SendPatch, PatchVotes, TaskWritten, runVars, taskVars, timeVars, locals, userVars

\* Every step is one of the gate's, or a client's.
LEMMA AllSteps ==
    ASSUME [NextClients]_allVars
    PROVE  [Next]_vars \/ \E u \in Patchers : PreparePatch(u) \/ SendPatch(u)
  BY DEF NextClients, GateStep, allVars

LEMMA PatchesMove ==
    ASSUME [NextClients]_allVars
    PROVE  patch' = patch \/ \E u \in Patchers : PreparePatch(u) \/ SendPatch(u)
  BY DEF NextClients, GateStep, allVars, clientVars

\* The webhook admits no list once the task is decided or the approvals suffice.
LEMMA AdmittedIsOpen ==
    ASSUME NEW n, NEW u, AdmitUpdate(spec, n, status, u)
    PROVE  status.state \notin Final /\ ~Quorum(spec)
  BY CountType, RequiredPositive
     DEF AdmitUpdate, isApprovalRequired, Quorum, countApprovalsReceived, Final

\* It admits the lists of users only whom it finds in the stored one.
LEMMA AdmittedIsKnown ==
    ASSUME NEW o, NEW n, NEW u \in Users, LinesWithin(o, u), IsUserApprovalChanged(o, n, u)
    PROVE  \E i \in Pos : OwnEntry(u, i) \/ InGroup(u, i)
<1>1. PICK i \in Pos : OwnEntry(u, i) \/ GroupChanged(o, n, u, i)
  BY DEF IsUserApprovalChanged
<1>. QED
  BY <1>1 DEF GroupChanged, isUserInGroup, LinesWithin

LEMMA PatchKeepsIInv ==
    ASSUME IInv, TypeOK', NEW u \in Patchers, PreparePatch(u) \/ SendPatch(u)
    PROVE  IInv'
<1>1. /\ UNCHANGED <<run, cache, created, status, pc, orig, mine, seen, cli>>
      /\ UNCHANGED <<spec, holders>> \/ PatchVotes(u)
  BY PatchSteps
<1>2. spec' = spec \/ (created /\ holders' = {} /\ status.state # "approved" /\ ~Quorum(spec))
  BY <1>1, AdmittedIsOpen DEF PatchVotes, Final
<1>3. NotCreatedYet'
  BY <1>1, <1>2 DEF IInv, NotCreatedYet
<1>4. CopyIsCurrent'
  BY <1>1 DEF IInv, CopyIsCurrent, PatchVotes
<1>5. ApprovedHasQuorum'
  BY <1>1, <1>2 DEF IInv, ApprovedHasQuorum, Quorum, countApprovalsReceived, ApprovedUsers
<1>6. SucceededHasQuorum'
  BY <1>1, <1>2 DEF IInv, SucceededHasQuorum, Quorum, countApprovalsReceived, ApprovedUsers
<1>. QED
  BY <1>3, <1>4, <1>5, <1>6 DEF IInv

LEMMA PatchKeepsVInv ==
    ASSUME VInv, TypeOK', NEW u \in Patchers, PreparePatch(u) \/ SendPatch(u)
    PROVE  VInv'
<1>. USE DEF VInv
<1>1. /\ UNCHANGED <<params, run, cache, created, status, elapsed, pc, orig, mine, seen>>
      /\ spec' = spec \/ status.state \notin Final
  BY PatchSteps, AdmittedIsOpen DEF PatchVotes
<1>2. IInv'
  BY PatchKeepsIInv
<1>3. Grounded' /\ Uncontested'
  BY <1>1 DEF Grounded, Uncontested, approvalTaskHasFalseInput, Final
<1>4. TaskPhases' /\ OpenWhileWorking'
  BY <1>1 DEF TaskPhases, OpenWhileWorking
<1>5. FailedIsRejected' /\ SucceededIsApproved' /\ DoneUntouched'
  BY <1>1 DEF FailedIsRejected, SucceededIsApproved, DoneUntouched
<1>. QED
  BY <1>2, <1>3, <1>4, <1>5

\* A list that replaces the stored one wakes the controller up.
LEMMA PatchKeepsMissInv ==
    ASSUME MissInv, TypeOK', PatchesTyped, PatchesHoldVotes,
           NEW u \in Patchers, PreparePatch(u) \/ SendPatch(u)
    PROVE  MissInv'
<1>. USE DEF MissInv
<1>1. /\ UNCHANGED <<params, run, cache, created, status, timer, elapsed, pc,
                     orig, mine, seen, result, faults>>
      /\ UNCHANGED <<spec, holders, queue>> \/ PatchVotes(u)
  BY PatchSteps
<1>2. WakeInv'
  BY <1>1 DEF WakeInv, OpenWhileWorking, DoneUntouched, CacheKnown, OutcomeKnown, WakeupArmed,
        Quiescent, PatchVotes
<1>3. Votes(spec')
  BY <1>1 DEF PatchVotes, PatchesHoldVotes
<1>4. Unrecorded'
  <2>1. CASE UNCHANGED spec
    BY <1>1, <2>1 DEF Unrecorded, Recorded, Responders, ApproverResponse, GroupMembers,
          ProcessedUserApprovers
  <2>2. CASE PatchVotes(u)
    <3>1. spec' \in SpecValue /\ u \in Users /\ IsUserApprovalChanged(spec, spec', u)
      BY <2>2, PatchersAreUsers DEF TypeOK, PatchVotes, AdmitUpdate
    <3>2. Responders(spec') # {}
      BY <1>3, <3>1, AdmittedResponds
    <3>. QED
      BY <3>2 DEF Unrecorded, Responders, ApproverResponse, GroupMembers, ProcessedUserApprovers
  <2>. QED
    BY <1>1, <2>1, <2>2
<1>5. SeenIsStored' /\ OpenWasSeen' /\ OpenAtRest'
  BY <1>1, CaughtUpStays DEF SeenIsStored, OpenWasSeen, OpenAtRest, Quiescent, PatchVotes
<1>6. Votes(spec)'
  BY <1>3 DEF Votes, LinesAreVotes, InputsAreVotes
<1>. QED
  BY <1>2, <1>4, <1>5, <1>6

LEMMA PatchKeepsRest ==
    ASSUME DecidedIsSeen, Settled, RecordInv, ListsContained',
           NEW u \in Patchers, PreparePatch(u) \/ SendPatch(u)
    PROVE  DecidedIsSeen' /\ Settled' /\ RecordInv'
<1>1. /\ UNCHANGED <<run, cache, created, status, elapsed, pc, orig, mine, seen, faults>>
      /\ UNCHANGED <<spec, holders>> \/ status.state \notin Final
  BY PatchSteps, AdmittedIsOpen DEF PatchVotes
<1>2. DecidedIsSeen' /\ Settled'
  BY <1>1 DEF DecidedIsSeen, Settled, Agree, DueCondition, StatusChanged, Final
<1>3. FinalIsRecord' /\ SucceededIsFinal'
  BY <1>1 DEF RecordInv, FinalIsRecord, SucceededIsFinal, Conditions, ApprovalTaskHasTimedOut,
        IsRecord, Recorded, Ballot
<1>4. LinesContained'
  BY DEF ListsContained, LinesContained
<1>. QED
  BY <1>2, <1>3, <1>4 DEF RecordInv

\* The gate keeps its invariants when clients patch the list.
LEMMA KeepsGateInv ==
    ASSUME AllInv, ClientInv', [NextClients]_allVars
    PROVE  GateInv'
<1>. USE DEF AllInv, GateInv
<1>1. CASE [Next]_vars
  <2>1. SettleInv /\ IInv /\ Votes(spec)
    BY DEF SettleInv, MissInv, WakeInv, VInv
  <2>2. VInv' /\ MissInv'
    BY <1>1, <2>1, KeepsVInv, KeepsMissInv
  <2>3. DecidedIsSeen' /\ Settled' /\ RecordInv'
    BY <1>1, <2>1, KeepsDecidedIsSeen, KeepsSettled, KeepsRecordInv
  <2>. QED
    BY <2>2, <2>3
<1>2. ASSUME NEW u \in Patchers, PreparePatch(u) \/ SendPatch(u)
      PROVE  GateInv'
  <2>1. TypeOK' /\ ListsContained' /\ PatchesTyped
    BY DEF ClientInv
  <2>. QED
    BY <1>2, <2>1, PatchKeepsVInv, PatchKeepsMissInv, PatchKeepsRest
<1>. QED
  BY <1>1, <1>2, AllSteps

\* A patch is made from the stored list.
LEMMA KeepsPatchesHoldVotes ==
    ASSUME AllInv, [NextClients]_allVars
    PROVE  PatchesHoldVotes'
<1>. SUFFICES ASSUME NEW v \in Patchers, patch'[v] # NoPatch
              PROVE  Votes(patch'[v])
  BY DEF PatchesHoldVotes, Votes, LinesAreVotes, InputsAreVotes
<1>1. /\ PatchesTyped /\ TypeOK /\ Votes(spec)
      /\ patch[v] # NoPatch => Votes(patch[v])
  BY DEF AllInv, ClientInv, GateInv, MissInv, PatchesHoldVotes
<1>2. ASSUME NEW u \in Patchers, PreparePatch(u)
      PROVE  Votes(patch'[v])
  <2>1. PICK d \in Decision : patch' = [patch EXCEPT ![u] = update(spec, u, d, MemberOf[u])]
    BY <1>2 DEF PreparePatch
  <2>2. patch'[v] = IF v = u THEN update(spec, u, d, MemberOf[u]) ELSE patch[v]
    BY <1>1, <2>1 DEF PatchesTyped
  <2>3. Votes(update(spec, u, d, MemberOf[u]))
    BY <1>1, PatchersAreUsers, UpdateKeepsVotes DEF TypeOK
  <2>. QED
    BY <1>1, <2>2, <2>3
<1>3. ASSUME NEW u \in Patchers, SendPatch(u)
      PROVE  Votes(patch'[v])
  <2>1. patch'[v] = IF v = u THEN NoPatch ELSE patch[v]
    BY <1>1, <1>3 DEF SendPatch, PatchesTyped
  <2>. QED
    BY <1>1, <2>1
<1>4. CASE patch' = patch
  BY <1>1, <1>4
<1>. QED
  BY <1>2, <1>3, <1>4, PatchesMove

LEMMA KeepsCastIsKnown ==
    ASSUME AllInv, [NextClients]_allVars
    PROVE  CastIsKnown'
<1>. SUFFICES ASSUME NEW u \in Users, NEW j \in Pos, cast'[u][j] # "none"
              PROVE  \E i \in Pos : OwnEntry(u, i) \/ InGroup(u, i)
  BY DEF CastIsKnown, OwnEntry, InGroup
<1>1. TypeOK /\ PatchesTyped /\ LinesWithin(spec, u)
  BY DEF AllInv, ClientInv, ListsContained
<1>2. CASE cast'[u] = cast[u]
  BY <1>2 DEF AllInv, CastIsKnown
<1>3. CASE GateStep /\ cast'[u] # cast[u]
  <2>1. [Next]_vars /\ spec' # spec /\ cli'[u] # cli[u]
    BY <1>3 DEF GateStep
  <2>2. PICK w \in Users : CommandVotes(w)
    BY <2>1, ListSteps
  <2>3. w = u
    BY <1>1, <2>1, <2>2 DEF CommandVotes, TypeOK
  <2>. QED
    BY <1>1, <2>2, <2>3, AdmittedIsKnown DEF CommandVotes
<1>4. ASSUME NEW w \in Patchers, SendPatch(w), cast'[u] # cast[u]
      PROVE  \E i \in Pos : OwnEntry(u, i) \/ InGroup(u, i)
  <2>1. AdmitUpdate(spec, patch[w], status, w) /\ w = u
    BY <1>1, <1>4 DEF SendPatch, PatchesTyped
  <2>. QED
    BY <1>1, <2>1, AdmittedIsKnown DEF AdmitUpdate
<1>5. CASE UNCHANGED cast
  BY <1>2, <1>5
<1>. QED
  BY <1>2, <1>3, <1>4, <1>5 DEF NextClients, PreparePatch, allVars, clientVars

LEMMA AllInvariant == SpecClients => []AllInv
<1>1. InitClients => AllInv
  <2>. SUFFICES ASSUME InitClients
                PROVE  AllInv
    OBVIOUS
  <2>1. Init
    BY DEF InitClients
  <2>2. VInv /\ MissInv /\ RecordInv
    BY <2>1, InitVInv, InitMissInv, InitRecordInv
  <2>3. DecidedIsSeen /\ Settled
    BY <2>1 DEF Init, DecidedIsSeen, Settled
  <2>4. PatchesHoldVotes /\ CastIsKnown
    BY DEF InitClients, PatchesHoldVotes, CastIsKnown
  <2>5. ClientInv
    BY InitClientInv
  <2>. QED
    BY <2>2, <2>3, <2>4, <2>5 DEF AllInv, GateInv
<1>2. AllInv /\ [NextClients]_allVars => AllInv'
  <2>. SUFFICES ASSUME AllInv, [NextClients]_allVars
                PROVE  AllInv'
    OBVIOUS
  <2>1. ClientInv'
    BY KeepsClientInv DEF AllInv
  <2>2. GateInv' /\ PatchesHoldVotes' /\ CastIsKnown'
    BY <2>1, KeepsGateInv, KeepsPatchesHoldVotes, KeepsCastIsKnown
  <2>. QED
    BY <2>1, <2>2 DEF AllInv
<1>. QED
  BY <1>1, <1>2, PTL DEF SpecClients

\* A vote that was overwritten by somebody's older list can be given again.  At
\* rest the status has forgotten it: an open run was left by a reconcile that
\* evaluated the stored list, and the evaluation records that list alone.
THEOREM LostVotesAreRecast == SpecClients => []LostVoteCanBeRecast
<1>1. AllInv => LostVoteCanBeRecast
  <2>. SUFFICES ASSUME AllInv, Quiescent, created, status.state \notin {"approved", "rejected"},
                       ~(faults > 0 /\ timer \in 0 .. 1),
                       NEW u \in Users, NEW d \in Decision, NEW j \in Pos, cast[u][j] # "none",
                       u \notin Approving(spec) \cup Rejecting(spec)
                PROVE  AdmitUpdate(spec, update(spec, u, d, MemberOf[u]), status, u)
    BY DEF LostVoteCanBeRecast
  <2>1. VInv /\ MissInv /\ RecordInv /\ TypeOK /\ LinesContained
    BY DEF AllInv, GateInv, MissInv, RecordInv
  <2>2. run.cond = "Unknown"
    BY <2>1, DoneIsFinal DEF Quiescent, RecordInv, Final
  <2>3. CaughtUp
    BY <2>1, <2>2 DEF MissInv, OpenAtRest
  <2>4. isApprovalRequired(spec, status)
    BY <2>3, CountType, RequiredPositive
       DEF CaughtUp, Open, Quorum, countApprovalsReceived, isApprovalRequired
  <2>5. \A i \in Pos : Recorded(status, u, i) = "none"
    <3>1. \A i \in Pos : Ballot(spec, u, i) \notin Decision
      BY DEF Approving, Rejecting, Decision
    <3>. QED
      BY <2>3, <3>1, Responds DEF CaughtUp, IsRecord
  <2>6. OpenDecision(u, d)
    BY DEF OpenDecision
  <2>7. \E i \in Pos : OwnEntry(u, i) \/ InGroup(u, i)
    BY DEF AllInv, CastIsKnown
  <2>. QED
    BY <2>1, <2>4, <2>5, <2>6, <2>7, OpenEditAdmitted
<1>. QED
  BY <1>1, AllInvariant, PTL

\* However old the lists are that clients send with their own vote put in, the
\* run succeeds and the task is approved on enough approvals only, and the run
\* fails on a rejected task only.
THEOREM PatchesDecideNothing ==
    SpecClients => [](SuccessNeedsQuorum /\ ApprovedIsCounted /\ FailureMeansRejected)
<1>1. AllInv => SuccessNeedsQuorum /\ ApprovedIsCounted /\ FailureMeansRejected
  BY EnoughHaveApproved, FailedHasTask DEF AllInv, GateInv, VInv
<1>. QED
  BY <1>1, AllInvariant, PTL

\* A list that a client sends is not missed: at rest the wake-up is armed, the
\* stored ballots decide nothing, and run and task tell the same story.
THEOREM PatchesAreNotMissed ==
    SpecClients => [](WakeupArmed /\ NothingMissed /\ SettledTogether)
<1>1. AllInv => WakeupArmed /\ NothingMissed /\ SettledTogether
  BY OpenBallots, SettledAtRest DEF AllInv, GateInv, MissInv, WakeInv
<1>. QED
  BY <1>1, AllInvariant, PTL

\* No list that a client sends undoes what is decided: a rejected task stays
\* rejected, a failed run never succeeds, and enough approvals stay as they are.
THEOREM PatchesUndoNothing ==
    SpecClients => RejectedIsPermanent /\ FailureNeverSucceeds /\ QuorumFreezesInputs
<1>1. ASSUME AllInv, [NextClients]_allVars
      PROVE  /\ status.state = "rejected" => status'.state = "rejected"
             /\ run.cond = "False" => run'.cond # "True"
             /\ countApprovalsReceived(spec) >= Required => spec' = spec
  <2>1. VInv /\ IInv
    BY <1>1 DEF AllInv, GateInv, VInv
  <2>2. CASE [Next]_vars
    BY <2>1, <2>2, RejectionStays, FailureStays, QuorumFreezes DEF Quorum
  <2>3. ASSUME NEW u \in Patchers, PreparePatch(u) \/ SendPatch(u)
        PROVE  UNCHANGED <<status, run>> /\ (Quorum(spec) => spec' = spec)
    BY <2>3, PatchSteps, AdmittedIsOpen DEF PatchVotes
  <2>. QED
    BY <1>1, <2>2, <2>3, AllSteps DEF Quorum
<1>2. AllInv /\ [NextClients]_allVars =>
        /\ [status.state = "rejected" => status'.state = "rejected"]_vars
        /\ [run.cond = "False" => run'.cond # "True"]_vars
        /\ [countApprovalsReceived(spec) >= Required => spec' = spec]_vars
  BY <1>1
<1>. QED
  BY <1>2, AllInvariant, PTL DEF SpecClients, RejectedIsPermanent, FailureNeverSucceeds, QuorumFreezesInputs

\* The gate implements the abstract specification with patching clients, too: a
\* list that is admitted is one more vote.
THEOREM ClientsImplementVerdict == SpecClients => ImplementsVerdict
<1>1. InitClients => Verdict!Init
  BY VerdictBegins DEF InitClients
<1>2. AllInv /\ [NextClients]_allVars
        => [Verdict!Next]_<<ApprovedUsers(spec), GroundsGiven,
                IF status.state \in {"approved", "rejected"} THEN status.state ELSE "open", run.cond>>
  <2>. SUFFICES ASSUME AllInv, [NextClients]_allVars
                PROVE  Verdict!Next \/ UNCHANGED <<ApprovedUsers(spec), GroundsGiven, Given, run.cond>>
    BY DEF Given
  <2>1. CASE [Next]_vars
    BY <2>1, TellingStep, DecidingStep DEF AllInv, GateInv, Verdict!Next
  <2>2. ASSUME NEW u \in Patchers, PreparePatch(u) \/ SendPatch(u)
        PROVE  Verdict!Next \/ UNCHANGED <<ApprovedUsers(spec), GroundsGiven, Given, run.cond>>
    <3>1. UNCHANGED <<params, status, elapsed, run>> /\ (spec' = spec \/ PatchVotes(u))
      BY <2>2, PatchSteps
    <3>2. CASE spec' = spec
      BY <3>1, <3>2 DEF GroundsGiven, Given
    <3>3. CASE PatchVotes(u)
      BY <3>1, <3>3, VotingStep DEF PatchVotes, Verdict!Next
    <3>. QED
      BY <3>1, <3>2, <3>3
  <2>. QED
    BY <2>1, <2>2, AllSteps
<1>. QED
  BY <1>1, <1>2, AllInvariant, PTL DEF SpecClients, ImplementsVerdict, Verdict!Spec

-----------------------------------------------------------------------------
(* Ballots, when commands know all the groups of their users.              *)

\* A patch is made for all the groups of its user.
PatchesHoldBallots == \A u \in Patchers : patch[u] # NoPatch => Ballots(patch[u])

ListInv == CommandGroups /\ Ballots(spec) /\ PatchesHoldBallots

LEMMA KeepsPatchesHoldBallots ==
    ASSUME ClientInv, ListInv, [NextClients]_allVars
    PROVE  PatchesHoldBallots'
<1>. SUFFICES ASSUME NEW v \in Patchers, patch'[v] # NoPatch
              PROVE  Ballots(patch'[v])
  BY DEF PatchesHoldBallots, Ballots, Votes, LinesAreVotes, InputsAreVotes, RejectsAreVotes,
        LinesTogether
<1>1. /\ PatchesTyped /\ TypeOK /\ Ballots(spec)
      /\ patch[v] # NoPatch => Ballots(patch[v])
  BY DEF ClientInv, ListInv, PatchesHoldBallots
<1>2. ASSUME NEW u \in Patchers, PreparePatch(u)
      PROVE  Ballots(patch'[v])
  <2>1. PICK d \in Decision : patch' = [patch EXCEPT ![u] = update(spec, u, d, MemberOf[u])]
    BY <1>2 DEF PreparePatch
  <2>2. patch'[v] = IF v = u THEN update(spec, u, d, MemberOf[u]) ELSE patch[v]
    BY <1>1, <2>1 DEF PatchesTyped
  <2>3. Ballots(update(spec, u, d, MemberOf[u]))
    BY <1>1, PatchersAreUsers, UpdateKeepsBallots DEF TypeOK
  <2>. QED
    BY <1>1, <2>2, <2>3
<1>3. ASSUME NEW u \in Patchers, SendPatch(u)
      PROVE  Ballots(patch'[v])
  <2>1. patch'[v] = IF v = u THEN NoPatch ELSE patch[v]
    BY <1>1, <1>3 DEF SendPatch, PatchesTyped
  <2>. QED
    BY <1>1, <2>1
<1>4. CASE patch' = patch
  BY <1>1, <1>4
<1>. QED
  BY <1>2, <1>3, <1>4, PatchesMove

LEMMA ListInvariant ==
    ASSUME AllGroupsKnown
    PROVE  SpecClients => []ListInv
<1>1. InitClients => ListInv
  BY InitialBallots DEF InitClients, Init, ListInv, CommandGroups, PatchesHoldBallots
<1>2. AllInv /\ ListInv /\ [NextClients]_allVars => ListInv'
  <2>. SUFFICES ASSUME AllInv, ListInv, [NextClients]_allVars
                PROVE  ListInv'
    OBVIOUS
  <2>1. /\ ClientInv /\ IInv /\ TypeOK /\ LinesContained
        /\ CommandGroups /\ Ballots(spec) /\ PatchesHoldBallots
    BY DEF AllInv, GateInv, VInv, IInv, RecordInv, ListInv
  <2>2. PatchesHoldBallots'
    BY <2>1, KeepsPatchesHoldBallots
  <2>3. CASE [Next]_vars
    <3>1. CommandGroups' /\ Ballots(spec')
      BY <2>1, <2>3, KeepsCommandGroups, KeepsBallots
    <3>. QED
      BY <2>2, <3>1 DEF ListInv, Ballots, Votes, LinesAreVotes, InputsAreVotes, RejectsAreVotes,
            LinesTogether
  <2>4. ASSUME NEW u \in Patchers, PreparePatch(u) \/ SendPatch(u)
        PROVE  ListInv'
    <3>1. cli' = cli /\ (spec' = spec \/ PatchVotes(u))
      BY <2>4, PatchSteps
    <3>2. CommandGroups'
      BY <2>1, <3>1 DEF CommandGroups
    <3>3. Ballots(spec')
      BY <2>1, <3>1 DEF PatchVotes, PatchesHoldBallots
    <3>. QED
      BY <2>2, <3>2, <3>3 DEF ListInv, Ballots, Votes, LinesAreVotes, InputsAreVotes, RejectsAreVotes,
            LinesTogether
  <2>. QED
    BY <2>3, <2>4, AllSteps
<1>. QED
  BY <1>1, <1>2, AllInvariant, PTL DEF SpecClients

\* The tables show, and a rejection is due to, what the users themselves said,
\* also when clients replace the list.
THEOREM PatchesAreShown ==
    ASSUME AllGroupsKnown
    PROVE  SpecClients => [](RejectionHasCause /\ TablesAgree)
<1>1. AllInv /\ ListInv => RejectionHasCause /\ TablesAgree
  BY CauseIsShown, TablesAtRest DEF AllInv, GateInv, ListInv
<1>. QED
  BY <1>1, AllInvariant, ListInvariant, PTL
=============================================================================
