----------------------------- MODULE ApprovalCLI -----------------------------
(***************************************************************************)
(* What tkn-approvaltask computes: who the user is (pkg/cli/params.go),    *)
(* the edit `approve' and `reject' make to the object they fetched         *)
(* (pkg/actions/actions.go) and what `list' and `describe' show of a       *)
(* status (pkg/cli/cmd/list, pkg/cli/cmd/describe).  The round trips       *)
(* themselves are actions of ApprovalGate.                                 *)
(***************************************************************************)
EXTENDS ApprovalTask

CONSTANT
    UserObject      \* UserObject[u]: the groups in u's OpenShift User object

ASSUME UserObjectType == UserObject \in [Users -> SUBSET STRING]

\* The groups a command works with: those the API server authenticates, or,
\* when the SelfSubjectReview fails, those of the User object.  When that
\* fails too the command goes on with no name and finds itself unlisted.
getUserInfo(u) == {MemberOf[u], UserObject[u]}

\* The approve and reject commands stop here unless the user is named or is
\* in a named group.
containsUsername(u, groups) ==
    \/ \E i \in Pos : Name(i) = u
    \/ \E i \in Pos : ApproverList[i].type = "Group" /\ Name(i) \in groups

HasOwnEntry(u) == \E i \in Pos : OwnEntry(u, i)

\* The group at position i is one the command takes the user to be in.
AmongGroups(groups, i) == IsGroup(i) /\ Name(i) \in groups

\* Slip: the group's own input is set, the user's line under it is not.
update_NoLine(s, u, d, groups) ==
    [s EXCEPT !.input =
        [i \in Pos |-> IF OwnEntry(u, i) \/ AmongGroups(groups, i) THEN d ELSE @[i]]]

\* Two passes: the user's individual entry first; then, in every group the
\* user belongs to, the group's own input and, unless the individual entry
\* already took the vote, the user's line under the group.
update(s, u, d, groups) ==
    [input  |-> [i \in Pos |->
                    IF OwnEntry(u, i) \/ AmongGroups(groups, i) THEN d ELSE s.input[i]],
     member |-> [i \in Pos |->
                    IF AmongGroups(groups, i) /\ ~HasOwnEntry(u)
                    THEN [s.member[i] EXCEPT ![u] = d]
                    ELSE s.member[i]]]

-----------------------------------------------------------------------------
(* What `list' and `describe' show of a status.                            *)

RespondedUsers(st) ==
    {u \in Users : \E i \in Pos : \/ OwnEntry(u, i) /\ st.resp[i] # "none"
                                  \/ IsGroup(i) /\ st.member[i][u] \in {"approved", "rejected"}}

\* Slip: responding entries are counted, not responding users.
pendingApprovals_PerEntry(st) == Required - Cardinality({i \in Pos : st.resp[i] # "none"})

pendingApprovals(st) == Required - Cardinality(RespondedUsers(st))

\* The number of users who rejected, each counted once.
rejected(st) ==
    Cardinality({u \in Users :
        \E i \in Pos : \/ OwnEntry(u, i) /\ st.resp[i] = "rejected"
                       \/ IsGroup(i) /\ st.member[i][u] = "rejected"})

\* The word for a state; an object without a status shows none.
StateShown(st) == CASE st.state = "approved" -> "Approved"
                    [] st.state = "rejected" -> "Rejected"
                    [] st.state = "pending"  -> "Pending"
                    [] OTHER                 -> ""

\* The mark in the response column.
response(r) == IF r = "approved" THEN "check" ELSE "cross"

\* Slip: every group a user answered under makes a row of its own.
userGroups_PerGroup(st, u) ==
    {[groups |-> {Name(i)}, mark |-> response(st.member[i][u])] :
        i \in {j \in Pos : IsGroup(j) /\ st.member[j][u] # "none"}}

\* The rows describe may show for a user listed under groups: one row, naming
\* all of them.  The response is the one found first, and the responses are
\* stored in no particular order.
userGroups(st, u) ==
    LET under == {i \in Pos : IsGroup(i) /\ st.member[i][u] # "none"}
    IN  {[groups |-> {Name(i) : i \in under}, mark |-> response(st.member[j][u])] : j \in under}

\* The rows describe may show for a user: those, and one for an individual
\* entry.
DescribeRows(st, u) ==
    userGroups(st, u) \cup
        {[groups |-> {}, mark |-> response(st.resp[i])] :
            i \in {j \in Pos : OwnEntry(u, j) /\ st.resp[j] # "none"}}
=============================================================================
