--------------------------- MODULE ApprovalParams ---------------------------
(***************************************************************************)
(* From the parameters of a CustomRun to the approver list of its          *)
(* ApprovalTask: the controller's validation (ValidateCustomRunParameters),*)
(* its construction of the list (createApprovalTask), and the structural   *)
(* validation that the webhook repeats on the object.                      *)
(*                                                                         *)
(* A string is abstracted to an identity and a shape, the shape being what *)
(* the two validations look at:                                            *)
(*   plain    neither blank, nor a colon or a space in it                  *)
(*   blank    empty, or white space only                                   *)
(*   spaced   a space, but not next to a colon                             *)
(*   colon    a colon without a space next to it                           *)
(*   detached a colon with a space next to it                              *)
(* A raw approver is such a string, with the prefix "group:" or without.   *)
(* In a JSON string an element may also be no string at all (notString).   *)
(***************************************************************************)
EXTENDS Integers, Sequences

CONSTANTS
    Ids,            \* identities of approver names
    Shapes,         \* the shapes in use
    MaxApprovers,   \* bound: length of the approvers parameter
    Counts          \* values of numberOfApprovalsRequired that are integers

ASSUME ShapesType ==
    Shapes \subseteq {"plain", "blank", "spaced", "colon", "detached", "notString"}
ASSUME CountsType == Counts \subseteq Int
ASSUME MaxApproversType == MaxApprovers \in Nat

Text == [id : Ids, shape : Shapes]
Raw  == [group : BOOLEAN, text : Text]

\* The approvers parameter: absent, an array, a JSON string holding a list or
\* something else, or an object.
Forms == {"absent", "array", "json", "notJsonList", "object"}

\* numberOfApprovalsRequired: "absent", "notInt" or one of Counts.
RequiredParam == {<<"absent">>, <<"notInt">>} \cup {<<"int", n>> : n \in Counts}

Params == [form     : Forms,
           list     : UNION {[1 .. n -> Raw] : n \in 0 .. MaxApprovers},
           required : RequiredParam,
           timeout  : {"absent", "duration", "notDuration"}]

-----------------------------------------------------------------------------
(* The controller's validation.                                            *)

\* Slip: a colon in a group name passes.
validateGroupSyntax_AnyColon(t) == t.shape \notin {"blank", "spaced"}

validateGroupSyntax(t) == t.shape \notin {"blank", "colon", "spaced"}

validateUserSyntax(t) == t.shape # "blank"

validateApproverParameter(raw) ==
    /\ raw.text.shape # "detached"
    /\ IF raw.group THEN validateGroupSyntax(raw.text) ELSE validateUserSyntax(raw.text)

\* The elements found, whatever the form; objects and unparsable strings are
\* errors of their own.
parseApproversList(p) == IF p.form \in {"array", "json"} THEN p.list ELSE << >>

validateApproversParam(p) ==
    LET list == parseApproversList(p)
    IN  /\ p.form \notin {"notJsonList", "object"}
        /\ \A i \in DOMAIN list : list[i].text.shape # "notString" /\ validateApproverParameter(list[i])
        /\ Len(list) > 0

validateApprovalsRequired(v) ==
    \/ v = <<"absent">>
    \/ v[1] = "int" /\ v[2] > 0

ValidateCustomRunParameters(p) ==
    /\ p.form # "absent"
    /\ validateApproversParam(p)
    /\ validateApprovalsRequired(p.required)

-----------------------------------------------------------------------------
(* createApprovalTask: the list of approvers, and the names for the status.*)

\* The approver that a raw name stands for.
ApproverFor(raw) == [name |-> raw.text, type |-> IF raw.group THEN "Group" ELSE "User"]

\* Slip: the type is set for groups only; the record is declared before the loop
\* and keeps what the round before has left in it.
AddApprover_TypeStays(added, raw) ==
    LET last     == Len(added.approvers)
        approver == [name |-> raw.text,
                     type |-> IF raw.group THEN "Group"
                              ELSE IF last = 0 THEN "User" ELSE added.approvers[last].type]
        known    == \E i \in DOMAIN added.approvers : added.approvers[i].name = raw.text
    IN  IF ~raw.group /\ raw.text \in added.userExists THEN added
        ELSE [approvers  |-> IF known THEN added.approvers ELSE Append(added.approvers, approver),
              users      |-> Append(added.users, raw.text),
              userExists |-> added.userExists \cup {raw.text}]

\* A name that was met bare is not looked at again; a name that has an
\* approver gets no second one, whatever its type.
AddApprover(added, raw) ==
    LET known == \E i \in DOMAIN added.approvers : added.approvers[i].name = raw.text
    IN  IF ~raw.group /\ raw.text \in added.userExists THEN added
        ELSE [approvers  |-> IF known THEN added.approvers
                             ELSE Append(added.approvers, ApproverFor(raw)),
              users      |-> Append(added.users, raw.text),
              userExists |-> added.userExists \cup {raw.text}]

\* The names that are walked; only the array form is read.
ArrayVal(p) == IF p.form = "array" THEN p.list ELSE << >>

\* Before the first name.
NoneAdded == [approvers |-> << >>, users |-> << >>, userExists |-> {}]

\* The object made of what the walk has left.
ApprovalTaskOf(added, p) ==
    [approvers |-> added.approvers,
     users     |-> added.users,
     required  |-> IF p.required[1] = "int" THEN p.required[2] ELSE 1]

-----------------------------------------------------------------------------
(* The webhook's validation of the object.                                 *)

validateUserName(t) == t.shape # "blank"

validateGroupName(t) == t.shape \notin {"blank", "spaced", "colon", "detached"}

validateApprover(a) ==
    IF a.type = "User" THEN validateUserName(a.name) ELSE validateGroupName(a.name)

validateApprovalTaskSpec(at) ==
    /\ at.required > 0
    /\ Len(at.approvers) > 0
    /\ \A i \in DOMAIN at.approvers : validateApprover(at.approvers[i])
    /\ \A i, j \in DOMAIN at.approvers : at.approvers[i] = at.approvers[j] => i = j

-----------------------------------------------------------------------------
(* A run's way to its ApprovalTask.                                        *)

VARIABLES
    params,     \* CustomRun.Spec.Params
    stage,      \* how far the run has come
    pos,        \* createApprovalTask: the position of the next name
    acc,        \* createApprovalTask: approvers, users and userExists so far
    task        \* the ApprovalTask built from the parameters

vars == <<params, stage, pos, acc, task>>

NoTask == [approvers |-> << >>, users |-> << >>, required |-> 0]

Init ==
    /\ params \in Params
    /\ params.form \in {"absent", "notJsonList", "object"} => params.list = << >>
    /\ params.form # "json" => \A i \in DOMAIN params.list : params.list[i].text.shape # "notString"
    /\ stage = "submitted" /\ pos = 1 /\ acc = NoneAdded /\ task = NoTask

\* ReconcileKind: validation, then the timeout parameter.
Validate ==
    /\ stage = "submitted"
    /\ stage' = IF ValidateCustomRunParameters(params) /\ params.timeout # "notDuration"
                THEN "validated" ELSE "failed"
    /\ UNCHANGED <<params, pos, acc, task>>

\* createApprovalTask: one round of the walk through the names.
AddNext ==
    /\ stage = "validated" /\ pos <= Len(ArrayVal(params))
    /\ acc' = AddApprover(acc, ArrayVal(params)[pos])
    /\ pos' = pos + 1
    /\ UNCHANGED <<params, stage, task>>

\* createApprovalTask after the walk, up to the Create.
Build ==
    /\ stage = "validated" /\ pos > Len(ArrayVal(params))
    /\ task' = ApprovalTaskOf(acc, params)
    /\ stage' = "built"
    /\ UNCHANGED <<params, pos, acc>>

Admit ==
    /\ stage = "built"
    /\ stage' = IF validateApprovalTaskSpec(task) THEN "admitted" ELSE "denied"
    /\ UNCHANGED <<params, pos, acc, task>>

Next == Validate \/ AddNext \/ Build \/ Admit

Spec == Init /\ [][Next]_vars

-----------------------------------------------------------------------------
(* Properties.                                                             *)

\* The two validations agree: the webhook never denies an ApprovalTask that
\* the controller built from an approvers array it had validated.
ValidatedIsAdmitted == stage = "denied" => params.form # "array"

\* The list is made of what the parameter says and leaves no name out: whoever
\* is listed, as a user or as a group, is named so in the parameter, and every
\* name in the parameter is listed.
ListedAsNamed ==
    stage \in {"built", "admitted", "denied"} /\ params.form = "array" =>
        /\ \A k \in DOMAIN task.approvers :
                \E i \in DOMAIN params.list : task.approvers[k] = ApproverFor(params.list[i])
        /\ \A i \in DOMAIN params.list :
                \E k \in DOMAIN task.approvers : task.approvers[k].name = params.list[i].text

\* Everybody whom the parameter names becomes an approver, as a user or as the
\* group that is named (README.md: the example names both a user and a group
\* tekton as approvers).
EveryMentionListed ==
    stage = "admitted" =>
        \A i \in DOMAIN params.list :
            \E k \in DOMAIN task.approvers : task.approvers[k] = ApproverFor(params.list[i])
=============================================================================
