------------------------- MODULE ApprovalGateClients -------------------------
(***************************************************************************)
(* The approval gate with clients other than the CLI.  A client may send   *)
(* the whole list of approvers as a merge patch, as test/e2e_test.go does: *)
(* a patch carries no resourceVersion, so that only the webhook stands     *)
(* between a list read some time ago and the votes given since.            *)
(*                                                                         *)
(* A patch is a list that was stored at some time, with the sender's own   *)
(* vote put in.  The webhook does not insist on that: it compares the      *)
(* inputs at the positions of the old list, not names, types, entries at   *)
(* the end or the required number.  What is stated here is stated of       *)
(* clients that leave those alone.                                         *)
(***************************************************************************)
EXTENDS ApprovalGateProperties

CONSTANT
    Patchers    \* the users who may also work with patches

ASSUME PatchersAreUsers == Patchers \subseteq Users

VARIABLES
    patch,      \* the list each user is about to send, or NoPatch
    cast        \* history: by user and entry, the last decision accepted for it

clientVars == <<patch, cast>>
allVars    == <<vars, clientVars>>

NoPatch == [input |-> << >>, member |-> << >>]

InitClients ==
    /\ Init
    /\ patch = [u \in Patchers |-> NoPatch]
    /\ cast = [u \in Users |-> [i \in Pos |-> "none"]]

\* u's history after the vote d, in the individual entry and in these groups.
Voted(u, d, groups) ==
    [i \in Pos |-> IF OwnEntry(u, i) \/ AmongGroups(groups, i) THEN d ELSE cast[u][i]]

\* A step of the gate; a command that changes the list has cast a vote.
GateStep ==
    /\ Next
    /\ cast' = [u \in Users |-> IF spec' # spec /\ cli'[u] # cli[u]
                                THEN Voted(u, cli[u].input, cli[u].groups) ELSE cast[u]]
    /\ UNCHANGED patch

\* A user prepares a patch from the list as it is now.
PreparePatch(u) ==
    /\ patch[u] = NoPatch /\ commands < MaxCommands
    /\ created /\ containsUsername(u, MemberOf[u])
    /\ \E d \in Decision : patch' = [patch EXCEPT ![u] = update(spec, u, d, MemberOf[u])]
    /\ commands' = commands + 1
    /\ UNCHANGED <<runVars, taskVars, timeVars, pc, locals, cli, faults, cast>>

\* The patch is applied to the object as it is by then, if the webhook admits
\* the outcome.
SendPatch(u) ==
    /\ patch[u] # NoPatch
    /\ patch' = [patch EXCEPT ![u] = NoPatch]
    /\ LET admitted == created /\ AdmitUpdate(spec, patch[u], status, u)
       IN  \/ /\ admitted
              /\ spec' = patch[u]
              /\ cast' = [cast EXCEPT ![u] = Voted(u, DesiredInput(patch[u], u), MemberOf[u])]
              /\ TaskWritten
           \/ /\ ~admitted
              /\ UNCHANGED <<spec, cast, holders, queue>>
    /\ UNCHANGED <<runVars, created, status, timer, elapsed, pc, locals, userVars, faults>>

NextClients == GateStep \/ \E u \in Patchers : PreparePatch(u) \/ SendPatch(u)

SpecClients == InitClients /\ [][NextClients]_allVars

-----------------------------------------------------------------------------
(* Properties.                                                             *)

\* No decision comes back that its owner has revised, and no client's list,
\* however old, puts a vote in for anybody else: a ballot in the stored list is
\* the last decision that its owner got accepted for that entry.  This is so for
\* every user, also for one whose commands see other groups than the webhook is
\* told: such a vote leaves the ballots under the groups it did not see, and
\* those are the last that were accepted for them.
BallotsAreCurrent ==
    \A u \in Users, i \in Pos :
        Ballot(spec, u, i) \in Decision => Ballot(spec, u, i) = cast[u][i]

\* u's vote d is accepted in this step.
Accepted(u, d) ==
    /\ spec' # spec
    /\ \/ cli'[u] # cli[u] /\ cli[u].input = d
       \/ u \in Patchers /\ patch'[u] # patch[u] /\ DesiredInput(patch[u], u) = d

\* A vote that is accepted has its effect at once, whichever groups the
\* command took its user to be in: an approval is among those the controller
\* counts, a rejection is one the controller sees.
AcceptedVoteCounts ==
    [][\A u \in Users :
        /\ Accepted(u, "approve") => u \in ApprovedUsers(spec')
        /\ Accepted(u, "reject")  => u \in Rejecting(spec') /\ approvalTaskHasFalseInput(spec')]_allVars

\* A vote that was overwritten by somebody's older list can be given again:
\* at rest, with the task undecided, a user who once voted and has no ballot
\* left is not refused as having decided already.  After a failed call the
\* status may still say so, but then the controller looks again within a tick.
LostVoteCanBeRecast ==
    Quiescent /\ created /\ status.state \notin {"approved", "rejected"} =>
        \/ \A u \in Users, d \in Decision :
                (\E i \in Pos : cast[u][i] # "none") /\ u \notin Approving(spec) \cup Rejecting(spec)
                    => AdmitUpdate(spec, update(spec, u, d, MemberOf[u]), status, u)
        \/ faults > 0 /\ timer \in 0 .. 1

\* Nobody's ballot is touched by anybody else (webhook.go: "validates that no
\* other approvers inputs have been changed").
OthersVotesStand ==
    [][\A u \in Users, i \in Pos :
        Ballot(spec', u, i) # Ballot(spec, u, i) => \E d \in Decision : Accepted(u, d)]_allVars
=============================================================================
