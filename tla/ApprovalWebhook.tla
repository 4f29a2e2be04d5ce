--------------------------- MODULE ApprovalWebhook ---------------------------
(***************************************************************************)
(* The validating admission webhook for ApprovalTasks                      *)
(* (pkg/reconciler/webhook/webhook.go).  It keeps no state: a request is   *)
(* judged from the old object, the new object and the identity of the      *)
(* requester.  The status subresource is not subject to it.                *)
(*                                                                         *)
(* UPDATE is modelled for requests that keep the names, the types, the     *)
(* order and the number of the approvers, and the required number, as the  *)
(* commands and the patches of the tests do.  Old and new list then have   *)
(* the same positions, and the guards i < len(newObjApprovers) are true.   *)
(* It is not the webhook that ensures this: it walks the old list and      *)
(* compares inputs by index, so that its answer to any other request is    *)
(* outside this module.                                                    *)
(***************************************************************************)
EXTENDS ApprovalTask, FiniteSetsExt

\* validateApprovalTaskSpec on a list of approvers.  The well-formedness of
\* the names is the subject of module ApprovalParams.
validateApprovalTaskSpec(approvers, required) ==
    /\ required > 0
    /\ Len(approvers) > 0
    /\ \A i, j \in DOMAIN approvers :
            /\ DefaultedApproverType(approvers[i].type) = DefaultedApproverType(approvers[j].type)
            /\ approvers[i].name = approvers[j].name
            => i = j

\* CREATE: structure, and every input pending.
AdmitCreate(approvers, required, s) ==
    /\ validateApprovalTaskSpec(approvers, required)
    /\ \A i \in DOMAIN approvers :
            /\ s.input[i] = "pending"
            /\ \A u \in Users : s.member[i][u] \in {"absent", "pending"}

-----------------------------------------------------------------------------
(* UPDATE: old spec o, new spec n, stored status st, requester u.          *)

\* The requester counts as a member of the group at i: by the groups of the
\* authenticated user, or because the old object already lists the user.
isUserInGroup(o, u, i) == IsGroup(i) /\ (InGroup(u, i) \/ o.member[i][u] # "absent")

ifUserExists(o, u) ==
    \/ Pos = {}
    \/ \E i \in Pos : OwnEntry(u, i) \/ isUserInGroup(o, u, i)

\* Slip: the stored state is not looked at.
isApprovalRequired_CountOnly(o, st) == Cardinality(ApprovedUsers(o)) < Required

\* Slip: the approvals already given are not counted.
isApprovalRequired_StateOnly(o, st) == st.state \notin {"rejected", "approved"}

isApprovalRequired(o, st) ==
    /\ st.state \notin {"rejected", "approved"}
    /\ Cardinality(ApprovedUsers(o)) < Required

\* The input the request asks for: the individual entry decides, otherwise
\* the first group that lists the user or has the user as a member.
DesiredInput(n, u) ==
    LET own == {i \in Pos : OwnEntry(u, i)}
        grp == {i \in Pos : isUserInGroup(n, u, i)}
    IN  IF own # {} THEN n.input[Min(own)]
        ELSE IF grp = {} THEN ""
        ELSE IF n.member[Min(grp)][u] # "absent" THEN n.member[Min(grp)][u]
        ELSE n.input[Min(grp)]

\* The decisions of u that the controller has recorded in the status.
RecordedResponses(st, u) ==
    {st.resp[i] : i \in {j \in Pos : OwnEntry(u, j)}}
        \cup {st.member[i][u] : i \in {j \in Pos : IsGroup(j)}}

\* Slip: the response of a group is taken for the response of its members.
checkIfUserAlreadyDecided_ByGroup(st, n, u) ==
    \E i \in Pos : /\ OwnEntry(u, i) \/ InGroup(u, i)
                   /\ \/ st.resp[i] = "rejected"
                      \/ st.resp[i] = "approved" /\ DesiredInput(n, u) = "approve"

checkIfUserAlreadyDecided(st, n, u) ==
    \/ "rejected" \in RecordedResponses(st, u)
    \/ "approved" \in RecordedResponses(st, u) /\ DesiredInput(n, u) = "approve"

\* A change the requester may make at the group at i: the group's own input,
\* a line of their own, or the input of their line.
GroupChanged(o, n, u, i) ==
    /\ isUserInGroup(o, u, i)
    /\ \/ o.input[i] # n.input[i]
       \/ n.member[i][u] # "absent" /\ n.member[i][u] # o.member[i][u]

\* The list is walked in order and the first position that decides, decides:
\* the individual entry always does, a group only when it changed.
IsUserApprovalChanged(o, n, u) ==
    LET deciding == {i \in Pos : OwnEntry(u, i) \/ GroupChanged(o, n, u, i)}
        i        == Min(deciding)
    IN  /\ deciding # {}
        /\ IF o.input[i] # n.input[i]
           THEN n.input[i] \in Decision
           ELSE ~OwnEntry(u, i) /\ n.member[i][u] \in Decision

\* Slip: the individual entries are compared, the lines under groups are not.
CheckOtherUsersForInvalidChanges_EntriesOnly(o, n, u) ==
    \A i \in Pos :
        /\ IsUser(i) /\ ~OwnEntry(u, i) => n.input[i] = o.input[i]
        /\ IsGroup(i) /\ ~isUserInGroup(o, u, i) => n.input[i] = o.input[i]

\* Nobody else's input moves, and nobody else is listed.  A line of somebody
\* else may disappear: the code compares the lines present on both sides.
CheckOtherUsersForInvalidChanges(o, n, u) ==
    \A i \in Pos :
        /\ IsUser(i) /\ ~OwnEntry(u, i) => n.input[i] = o.input[i]
        /\ IsGroup(i) =>
            /\ ~isUserInGroup(o, u, i) => n.input[i] = o.input[i]
            /\ \A v \in Users \ {u} : n.member[i][v] \in {o.member[i][v], "absent"}
            /\ (n.member[i][u] # "absent" /\ o.member[i][u] = "absent")
                    => isUserInGroup(o, u, i)

AdmitUpdate(o, n, st, u) ==
    /\ validateApprovalTaskSpec(ApproverList, Required)
    /\ isApprovalRequired(o, st)
    /\ ifUserExists(o, u)
    /\ ~checkIfUserAlreadyDecided(st, n, u)
    /\ IsUserApprovalChanged(o, n, u)
    /\ CheckOtherUsersForInvalidChanges(o, n, u)
=============================================================================
