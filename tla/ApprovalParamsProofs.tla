------------------------ MODULE ApprovalParamsProofs ------------------------
(***************************************************************************)
(* Of every list of approvers that passes the controller's validation, the *)
(* walk in createApprovalTask makes a list without repeated names that has *)
(* every name, none but these, and which the webhook admits.               *)
(***************************************************************************)
EXTENDS ApprovalParams, TLAPS

Approver == [name : Text, type : {"User", "Group"}]

\* No two approvers of a built list have one name, whatever their types.
NamesDistinct ==
    \A i, j \in DOMAIN task.approvers : task.approvers[i].name = task.approvers[j].name => i = j

\* The names already walked.
Walked == 1 .. pos - 1

ParamsTyped ==
    /\ params \in Params
    /\ pos \in Nat \ {0} /\ Walked \subseteq DOMAIN ArrayVal(params)
    /\ acc.approvers \in Seq(Approver)

\* Nothing is added on anybody's behalf.
AddedWereNamed ==
    \A k \in DOMAIN acc.approvers : \E i \in Walked : acc.approvers[k] = ApproverFor(ArrayVal(params)[i])

AddedOnce ==
    \A i, j \in DOMAIN acc.approvers : acc.approvers[i].name = acc.approvers[j].name => i = j

\* Nobody walked over is left out; who was met bare has been added.
NamedWereAdded ==
    /\ \A i \in Walked :
            \E k \in DOMAIN acc.approvers : acc.approvers[k].name = ArrayVal(params)[i].text
    /\ \A t \in acc.userExists : \E k \in DOMAIN acc.approvers : acc.approvers[k].name = t

\* What each stage has behind it.
StageReached ==
    /\ stage \in {"validated", "built", "admitted", "denied"} => ValidateCustomRunParameters(params)
    /\ stage \in {"built", "admitted", "denied"} =>
        task = ApprovalTaskOf(acc, params) /\ pos > Len(ArrayVal(params))
    /\ stage \notin {"built", "admitted", "denied"} => task = NoTask

ParamsInv ==
    /\ ParamsTyped /\ AddedWereNamed /\ AddedOnce /\ NamedWereAdded /\ StageReached
    /\ ValidatedIsAdmitted

-----------------------------------------------------------------------------
(* The list that is walked.                                                *)

\* A parameter's list is a sequence of raw names.
LEMMA ListType ==
    ASSUME NEW p \in Params
    PROVE  p.list \in Seq(Raw) /\ ArrayVal(p) \in Seq(Raw)
<1>1. PICK n \in 0 .. MaxApprovers : p.list \in [1 .. n -> Raw]
  BY DEF Params
<1>2. n \in Nat
  BY <1>1, MaxApproversType
<1>. DEFINE R == Raw
<1>3. p.list \in Seq(R)
  <2>1. p.list \in [1 .. n -> R]
    BY <1>1
  <2>. HIDE DEF R
  <2>. QED
    BY <1>2, <2>1
<1>. HIDE DEF R
<1>4. ArrayVal(p) \in Seq(R)
  BY <1>3 DEF ArrayVal
<1>. QED
  BY <1>3, <1>4 DEF R

\* A raw name stands for an approver.
LEMMA ApproverForType ==
    ASSUME NEW raw \in Raw
    PROVE  ApproverFor(raw) \in Approver /\ ApproverFor(raw).name = raw.text
  BY DEF Raw, Approver, ApproverFor

\* One round: the name has been met before, or it gets its approver.
LEMMA Added ==
    ASSUME NEW added, NEW raw
    PROVE  LET new == AddApprover(added, raw)
           IN  /\ \/ /\ \/ raw.text \in added.userExists
                        \/ \E k \in DOMAIN added.approvers : added.approvers[k].name = raw.text
                     /\ new.approvers = added.approvers
                  \/ /\ \A k \in DOMAIN added.approvers : added.approvers[k].name # raw.text
                     /\ new.approvers = Append(added.approvers, ApproverFor(raw))
               /\ new.userExists \subseteq added.userExists \cup {raw.text}
  BY DEF AddApprover, ApproverFor

-----------------------------------------------------------------------------
(* One round of the walk.                                                  *)

LEMMA WalkAdds ==
    ASSUME ParamsInv, AddNext
    PROVE  ParamsTyped' /\ AddedWereNamed' /\ AddedOnce' /\ NamedWereAdded'
<1>. DEFINE list == ArrayVal(params)
            raw  == list[pos]
            old  == acc.approvers
            new  == acc'.approvers
<1>1. /\ ArrayVal(params)' = list /\ params' = params /\ pos' = pos + 1
      /\ pos \in Nat \ {0} /\ pos <= Len(list) /\ list \in Seq(Raw) /\ raw \in Raw
  BY ListType DEF AddNext, ParamsInv, ParamsTyped
<1>2. Walked' = Walked \cup {pos} /\ Walked' \subseteq DOMAIN list
  BY <1>1 DEF Walked
<1>3. /\ \/ /\ \/ raw.text \in acc.userExists
               \/ \E k \in DOMAIN old : old[k].name = raw.text
            /\ new = old
         \/ /\ \A k \in DOMAIN old : old[k].name # raw.text
            /\ new = Append(old, ApproverFor(raw))
      /\ acc'.userExists \subseteq acc.userExists \cup {raw.text}
  BY Added DEF AddNext
<1>4. old \in Seq(Approver) /\ ApproverFor(raw) \in Approver /\ ApproverFor(raw).name = raw.text
  BY <1>1, ApproverForType DEF ParamsInv, ParamsTyped
<1>5. /\ new \in Seq(Approver)
      /\ \A k \in DOMAIN new : \/ k \in DOMAIN old /\ new[k] = old[k]
                               \/ /\ k \notin DOMAIN old /\ new[k] = ApproverFor(raw)
                                  /\ k = Len(old) + 1
                                  /\ \A m \in DOMAIN old : old[m].name # raw.text
      /\ \A k \in DOMAIN old : k \in DOMAIN new /\ new[k] = old[k]
  <2>. DEFINE A == Approver
              a == ApproverFor(raw)
  <2>1. old \in Seq(A) /\ a \in A
    BY <1>4
  <2>2. (new = old) \/ (new = Append(old, a) /\ \A m \in DOMAIN old : old[m].name # raw.text)
    BY <1>3
  <2>. HIDE DEF A, a, old, new, raw
  <2>. QED
    BY <2>1, <2>2 DEF A, a
<1>6. ParamsTyped'
  BY <1>1, <1>2, <1>5 DEF ParamsInv, ParamsTyped
<1>. HIDE DEF old, new, raw, list
<1>7. AddedWereNamed'
  <2>1. \A k \in DOMAIN old : \E i \in Walked : old[k] = ApproverFor(list[i])
    BY DEF ParamsInv, AddedWereNamed, old, list
  <2>2. \A k \in DOMAIN new : \E i \in Walked' : new[k] = ApproverFor(list[i])
    BY <1>2, <1>5, <2>1 DEF raw
  <2>. QED
    BY <1>1, <2>2 DEF AddedWereNamed, new
<1>8. AddedOnce'
  <2>1. \A i, j \in DOMAIN old : old[i].name = old[j].name => i = j
    BY DEF ParamsInv, AddedOnce, old
  <2>2. \A i, j \in DOMAIN new : new[i].name = new[j].name => i = j
    BY <1>4, <1>5, <2>1
  <2>. QED
    BY <2>2 DEF AddedOnce, new
<1>9. NamedWereAdded'
  <2>1. /\ \A i \in Walked : \E k \in DOMAIN old : old[k].name = list[i].text
        /\ \A t \in acc.userExists : \E k \in DOMAIN old : old[k].name = t
    BY DEF ParamsInv, NamedWereAdded, old, list
  <2>2. \E k \in DOMAIN new : new[k].name = raw.text
    <3>1. CASE new = old
      BY <1>3, <1>5, <2>1, <3>1
    <3>2. CASE new = Append(old, ApproverFor(raw))
      <4>. DEFINE A == Approver
                  a == ApproverFor(raw)
      <4>1. old \in Seq(A) /\ a \in A /\ new = Append(old, a)
        BY <1>4, <3>2
      <4>. HIDE DEF A, a
      <4>2. Len(old) + 1 \in DOMAIN new /\ new[Len(old) + 1] = a
        BY <4>1
      <4>. QED
        BY <1>4, <4>2 DEF a
    <3>. QED
      BY <1>3, <3>1, <3>2
  <2>3. \A i \in Walked' : \E k \in DOMAIN new : new[k].name = list[i].text
    BY <1>2, <1>5, <2>1, <2>2 DEF raw
  <2>4. \A t \in acc'.userExists : \E k \in DOMAIN new : new[k].name = t
    BY <1>3, <1>5, <2>1, <2>2
  <2>. QED
    BY <1>1, <2>3, <2>4 DEF NamedWereAdded, new
<1>. QED
  BY <1>6, <1>7, <1>8, <1>9

-----------------------------------------------------------------------------
(* The webhook's judgement.                                                *)

\* A name that passed the controller's validation passes the webhook's.
LEMMA SameSyntax ==
    ASSUME NEW raw \in Raw, validateApproverParameter(raw)
    PROVE  validateApprover(ApproverFor(raw))
<1>1. raw.group => validateGroupName(raw.text)
  BY DEF validateApproverParameter, validateGroupSyntax, validateGroupName
<1>2. ~raw.group => validateUserName(raw.text)
  BY DEF validateApproverParameter, validateUserSyntax, validateUserName
<1>3. ApproverFor(raw).name = raw.text /\ (ApproverFor(raw).type = "User" <=> ~raw.group)
  BY DEF ApproverFor
<1>. QED
  BY <1>1, <1>2, <1>3 DEF validateApprover

\* The required number that was validated is the one in the object.
LEMMA RequiredIsPositive ==
    ASSUME NEW p \in Params, validateApprovalsRequired(p.required), NEW added
    PROVE  ApprovalTaskOf(added, p).required > 0
<1>1. CASE p.required = <<"absent">>
  <2>1. p.required[1] # "int"
    BY <1>1
  <2>. QED
    BY <2>1 DEF ApprovalTaskOf
<1>2. CASE p.required[1] = "int" /\ p.required[2] > 0
  BY <1>2 DEF ApprovalTaskOf
<1>. QED
  BY <1>1, <1>2 DEF validateApprovalsRequired

\* At the end of the walk through a validated array.
LEMMA BuiltIsAdmitted ==
    ASSUME ParamsInv, stage = "built", params.form = "array"
    PROVE  validateApprovalTaskSpec(task)
<1>. DEFINE list == ArrayVal(params)
<1>1. /\ list \in Seq(Raw) /\ list = params.list
      /\ params \in Params /\ pos \in Nat /\ pos > Len(list)
      /\ task = ApprovalTaskOf(acc, params) /\ ValidateCustomRunParameters(params)
  BY ListType DEF ParamsInv, ParamsTyped, StageReached, ArrayVal
<1>2. task.approvers = acc.approvers
  BY <1>1 DEF ApprovalTaskOf
<1>3. /\ validateApprovalsRequired(params.required)
      /\ Len(list) > 0
      /\ \A i \in DOMAIN list : validateApproverParameter(list[i])
  BY <1>1 DEF ValidateCustomRunParameters, validateApproversParam, parseApproversList
<1>. HIDE DEF list
<1>4. Walked \subseteq DOMAIN list /\ 1 \in Walked
  BY <1>1, <1>3 DEF ParamsInv, ParamsTyped, Walked, list
<1>5. acc.approvers \in Seq(Approver)
  BY DEF ParamsInv, ParamsTyped
<1>6. task.required > 0
  BY <1>1, <1>3, RequiredIsPositive
<1>7. Len(task.approvers) > 0
  <2>1. \E k \in DOMAIN acc.approvers : acc.approvers[k].name = list[1].text
    BY <1>4 DEF ParamsInv, NamedWereAdded, list
  <2>. QED
    BY <1>2, <1>5, <2>1
<1>8. ASSUME NEW k \in DOMAIN task.approvers
      PROVE  validateApprover(task.approvers[k])
  <2>1. PICK i \in Walked : task.approvers[k] = ApproverFor(list[i])
    BY <1>2 DEF ParamsInv, AddedWereNamed, list
  <2>2. list[i] \in Raw /\ validateApproverParameter(list[i])
    BY <1>1, <1>3, <1>4
  <2>. QED
    BY <2>1, <2>2, SameSyntax
<1>9. \A i, j \in DOMAIN task.approvers : task.approvers[i] = task.approvers[j] => i = j
  BY <1>2 DEF ParamsInv, AddedOnce
<1>. QED
  BY <1>6, <1>7, <1>8, <1>9 DEF validateApprovalTaskSpec

LEMMA ParamsInvariant == Spec => []ParamsInv
<1>1. Init => ParamsInv
  <2>. SUFFICES ASSUME Init
                PROVE  ParamsInv
    OBVIOUS
  <2>1. ParamsTyped /\ Walked = {}
    BY DEF Init, ParamsTyped, Walked, NoneAdded
  <2>2. AddedWereNamed /\ AddedOnce /\ NamedWereAdded
    BY <2>1 DEF Init, NoneAdded, AddedWereNamed, AddedOnce, NamedWereAdded
  <2>. QED
    BY <2>1, <2>2 DEF Init, ParamsInv, StageReached, ValidatedIsAdmitted
<1>2. ParamsInv /\ [Next]_vars => ParamsInv'
  <2>. SUFFICES ASSUME ParamsInv, [Next]_vars
                PROVE  ParamsInv'
    OBVIOUS
  <2>1. ParamsTyped' /\ AddedWereNamed' /\ AddedOnce' /\ NamedWereAdded'
    <3>1. CASE UNCHANGED <<params, pos, acc>>
      <4>1. Walked' = Walked /\ ArrayVal(params)' = ArrayVal(params)
        BY <3>1 DEF Walked
      <4>2. ParamsTyped' /\ AddedWereNamed'
        BY <3>1, <4>1 DEF ParamsInv, ParamsTyped, AddedWereNamed
      <4>3. AddedOnce' /\ NamedWereAdded'
        BY <3>1, <4>1 DEF ParamsInv, AddedOnce, NamedWereAdded
      <4>. QED
        BY <4>2, <4>3
    <3>. QED
      BY <3>1, WalkAdds DEF Next, Validate, Build, Admit, vars
  <2>2. StageReached' /\ ValidatedIsAdmitted'
    <3>1. CASE Validate
      BY <3>1 DEF Validate, ParamsInv, StageReached, ValidatedIsAdmitted
    <3>2. CASE AddNext
      BY <3>2 DEF AddNext, ParamsInv, StageReached, ValidatedIsAdmitted
    <3>3. CASE Build
      BY <3>3 DEF Build, ParamsInv, StageReached, ValidatedIsAdmitted
    <3>4. CASE Admit
      <4>1. stage' \in {"admitted", "denied"} /\ stage = "built" /\ UNCHANGED <<params, pos, acc, task>>
        BY <3>4 DEF Admit
      <4>2. ValidatedIsAdmitted'
        BY <3>4, BuiltIsAdmitted DEF Admit, ValidatedIsAdmitted
      <4>. QED
        BY <4>1, <4>2 DEF ParamsInv, StageReached
    <3>5. CASE UNCHANGED vars
      BY <3>5 DEF vars, ParamsInv, StageReached, ValidatedIsAdmitted
    <3>. QED
      BY <3>1, <3>2, <3>3, <3>4, <3>5 DEF Next
  <2>. QED
    BY <2>1, <2>2 DEF ParamsInv
<1>. QED
  BY <1>1, <1>2, PTL DEF Spec

-----------------------------------------------------------------------------
(* The theorems.                                                           *)

\* The controller's validation and the webhook's agree on arrays of any length:
\* what the first lets through and createApprovalTask makes of it, the second
\* never denies.
THEOREM ValidationsAgree == Spec => []ValidatedIsAdmitted
  BY ParamsInvariant, PTL DEF ParamsInv

\* No two approvers of a built list have one name, for parameters of any length.
\* This is the assumption NamesUnique of the gate; that the second mention of a
\* name is lost to it is what EveryMentionListed is refuted for.
THEOREM BuiltNamesDistinct == Spec => []NamesDistinct
<1>1. ParamsInv => NamesDistinct
  BY DEF ParamsInv, StageReached, AddedOnce, NamesDistinct, ApprovalTaskOf, NoTask
<1>. QED
  BY <1>1, ParamsInvariant, PTL

\* Whoever is listed is named so in the parameter, and every name in the
\* parameter is listed.
THEOREM ListIsAsNamed == Spec => []ListedAsNamed
<1>1. ASSUME ParamsInv, stage \in {"built", "admitted", "denied"}, params.form = "array"
      PROVE  /\ \A k \in DOMAIN task.approvers :
                    \E i \in DOMAIN params.list : task.approvers[k] = ApproverFor(params.list[i])
             /\ \A i \in DOMAIN params.list :
                    \E k \in DOMAIN task.approvers : task.approvers[k].name = params.list[i].text
  <2>1. ArrayVal(params) = params.list /\ params.list \in Seq(Raw)
    BY <1>1, ListType DEF ArrayVal, ParamsInv, ParamsTyped
  <2>2. task.approvers = acc.approvers /\ pos \in Nat /\ pos > Len(params.list)
    BY <1>1, <2>1 DEF ParamsInv, ParamsTyped, StageReached, ApprovalTaskOf
  <2>3. Walked = DOMAIN params.list
    <3>1. Walked \subseteq DOMAIN params.list
      BY <1>1, <2>1 DEF ParamsInv, ParamsTyped
    <3>2. ASSUME NEW i \in DOMAIN params.list PROVE i \in Walked
      <4>1. i \in 1 .. Len(params.list) /\ Len(params.list) \in Nat
        BY <2>1, <3>2
      <4>. QED
        BY <4>1, <2>2 DEF Walked
    <3>. QED
      BY <3>1, <3>2
  <2>. QED
    BY <1>1, <2>1, <2>2, <2>3 DEF ParamsInv, AddedWereNamed, NamedWereAdded
<1>2. ParamsInv => ListedAsNamed
  BY <1>1 DEF ListedAsNamed
<1>. QED
  BY <1>2, ParamsInvariant, PTL
=============================================================================
