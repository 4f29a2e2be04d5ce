---------------------------- MODULE ApprovalTask ----------------------------
(***************************************************************************)
(* The ApprovalTask object (pkg/apis/approvaltask/v1alpha1) and the pure   *)
(* functions by which the controller derives its status from its spec      *)
(* (pkg/reconciler/approvaltask/utils.go).                                 *)
(*                                                                         *)
(* The approver list (names and types) is fixed when the object is         *)
(* created: no client modelled here changes anything but inputs.  A spec   *)
(* is therefore the inputs alone, by position in that list, and for a      *)
(* group also the input of every user listed under it ("absent" when the   *)
(* user is not listed).  Messages and descriptions are left out: no        *)
(* decision reads them.                                                    *)
(***************************************************************************)
EXTENDS Integers, Sequences, FiniteSets

CONSTANTS
    Users,          \* the people who may run the CLI
    ApproverList,   \* Spec.Approvers: a sequence of [name, type] records
    Required,       \* Spec.NumberOfApprovalsRequired
    MemberOf        \* MemberOf[u]: the groups the API server knows u to be in

\* ApproverDetails.Type; the empty string is what v0.6.0 objects carry.
ApproverType == {"User", "Group", ""}
Input        == {"pending", "approve", "reject"}
Decision     == {"approve", "reject"}
Response     == {"none", "approved", "rejected"}
State        == {"", "pending", "approved", "rejected"}

DefaultedApproverType(t) == IF t = "" THEN "User" ELSE t

Pos        == DOMAIN ApproverList
Name(i)    == ApproverList[i].name
IsUser(i)  == DefaultedApproverType(ApproverList[i].type) = "User"
IsGroup(i) == DefaultedApproverType(ApproverList[i].type) = "Group"

\* Position i is the individual entry of user u.
OwnEntry(u, i) == IsUser(i) /\ Name(i) = u

\* u is in the group at position i by the groups of the authenticated user.
InGroup(u, i) == IsGroup(i) /\ Name(i) \in MemberOf[u]

ASSUME UsersFinite == IsFiniteSet(Users)
ASSUME ApproverListType ==
    ApproverList \in Seq([name : STRING, type : ApproverType])
\* Every individual approver is somebody, and createApprovalTask never keeps
\* two approvers of one name.
ASSUME ApproversAreUsers == \A i \in Pos : IsUser(i) => Name(i) \in Users
ASSUME NamesUnique == \A i, j \in Pos : Name(i) = Name(j) => i = j
ASSUME RequiredPositive == Required \in Nat \ {0}
ASSUME MemberOfType == MemberOf \in [Users -> SUBSET STRING]

-----------------------------------------------------------------------------
(* Spec and status values.                                                 *)

SpecValue == [input : [Pos -> Input], member : [Pos -> [Users -> Input \cup {"absent"}]]]
StatusValue ==
          [state    : State,
           received : Nat,
           resp     : [Pos -> Response],
           member   : [Pos -> [Users -> Response]]]

\* Spec.Approvers as createApprovalTask builds it: everything pending, no
\* user listed under any group.
InitialSpec == [input  |-> [i \in Pos |-> "pending"],
                member |-> [i \in Pos |-> [u \in Users |-> "absent"]]]

\* The status of an object whose status was never written.
NoStatus == [state    |-> "",
             received |-> 0,
             resp     |-> [i \in Pos |-> "none"],
             member   |-> [i \in Pos |-> [u \in Users |-> "none"]]]

\* The status createApprovalTask writes right after Create.
InitialStatus == [NoStatus EXCEPT !.state = "pending"]

-----------------------------------------------------------------------------
(* Counting.                                                               *)

\* The distinct users whose approval counts: individual entries with input
\* approve, and approving users listed under a group whose own input is
\* approve.
ApprovedUsers(s) ==
    {u \in Users : \E i \in Pos : /\ s.input[i] = "approve"
                                  /\ \/ OwnEntry(u, i)
                                     \/ IsGroup(i) /\ s.member[i][u] = "approve"}

\* Slip: an approval counts once for every entry it appears under.
countApprovalsReceived_PerEntry(s) ==
    Cardinality({p \in Users \X Pos : /\ s.input[p[2]] = "approve"
                                      /\ \/ OwnEntry(p[1], p[2])
                                         \/ IsGroup(p[2]) /\ s.member[p[2]][p[1]] = "approve"})

countApprovalsReceived(s) == Cardinality(ApprovedUsers(s))

\* Slip: one approval short of the required number is enough.
approvalTaskHasTrueInput_OneShort(s) == countApprovalsReceived(s) + 1 >= Required

approvalTaskHasTrueInput(s) == countApprovalsReceived(s) >= Required

\* Slip: rejections are looked for among the individual entries only.
approvalTaskHasFalseInput_UsersOnly(s) ==
    \E i \in Pos : IsUser(i) /\ s.input[i] = "reject"

approvalTaskHasFalseInput(s) == \E i \in Pos : s.input[i] = "reject"

\* The hash annotation is computed when the object is created and never
\* refreshed, so the hashes differ exactly when some input was ever given.
HashChanged(s) == s # InitialSpec

-----------------------------------------------------------------------------
(* updateApprovalState: the responses, the count and the state.            *)

\* Slip: the input is stored where the response belongs.
Respond_Raw(input) == IF input \in Decision THEN input ELSE "none"

Respond(input) == CASE input = "approve" -> "approved"
                    [] input = "reject"  -> "rejected"
                    [] OTHER             -> "none"

\* Users answered for by their individual entry: not repeated under groups.
ProcessedUserApprovers(s) ==
    {u \in Users : \E i \in Pos : OwnEntry(u, i) /\ s.input[i] \in Decision}

GroupMembers(s, i) ==
    [u \in Users |->
        IF IsGroup(i) /\ s.input[i] \in Decision /\ u \notin ProcessedUserApprovers(s)
        THEN Respond(s.member[i][u])
        ELSE "none"]

ApproverResponse(s, i) ==
    IF IsUser(i) THEN Respond(s.input[i])
    ELSE LET given == {GroupMembers(s, i)[u] : u \in Users}
         IN  CASE "rejected" \in given -> "rejected"
               [] "approved" \in given -> "approved"
               [] OTHER                -> "none"

Responders(s) == {i \in Pos : ApproverResponse(s, i) # "none"}

\* The state is only ever moved to rejected or approved; otherwise it stays
\* as it was stored.
NextState(s, state) ==
    IF approvalTaskHasFalseInput(s) THEN "rejected"
    ELSE IF approvalTaskHasTrueInput(s) THEN "approved"
    ELSE state

\* Slip: the approvals received are counted by responding entry.
updateApprovalState_CountsEntries(s, st) ==
    IF Responders(s) = {} THEN st
    ELSE [state    |-> NextState(s, st.state),
          received |-> Cardinality(Responders(s)),
          resp     |-> [i \in Pos |-> ApproverResponse(s, i)],
          member   |-> [i \in Pos |-> GroupMembers(s, i)]]

\* Slip: a response once recorded stays when its line is gone.
updateApprovalState_NeverForgets(s, st) ==
    IF Responders(s) = {} THEN st
    ELSE [state    |-> NextState(s, st.state),
          received |-> countApprovalsReceived(s),
          resp     |-> [i \in Pos |-> ApproverResponse(s, i)],
          member   |-> [i \in Pos |-> [u \in Users |->
                          IF GroupMembers(s, i)[u] = "none" THEN st.member[i][u]
                          ELSE GroupMembers(s, i)[u]]]]

\* The status written; without a single response nothing is.
updateApprovalState(s, st) ==
    IF Responders(s) = {} THEN st
    ELSE [state    |-> NextState(s, st.state),
          received |-> countApprovalsReceived(s),
          resp     |-> [i \in Pos |-> ApproverResponse(s, i)],
          member   |-> [i \in Pos |-> GroupMembers(s, i)]]
=============================================================================
