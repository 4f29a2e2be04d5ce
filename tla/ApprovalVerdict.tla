--------------------------- MODULE ApprovalVerdict ---------------------------
(***************************************************************************)
(* What the approval gate promises, with no controller, no queue, no       *)
(* copies and no API calls: the approvals that count, the grounds on which *)
(* the request may be refused, one verdict, and what the waiting pipeline  *)
(* is told.                                                                *)
(*                                                                         *)
(*   - The verdict is approved on enough approvals and nobody's rejection, *)
(*     and rejected on a rejection or after the timeout.                   *)
(*   - Votes come and go until the approvals suffice or the verdict is     *)
(*     given, and not after.                                               *)
(*   - Rejected is for good; approved gives way to the timeout only.       *)
(*   - The pipeline is told the verdict as it stands, or nothing yet.      *)
(***************************************************************************)
EXTENDS Naturals, FiniteSets

CONSTANTS Voters, Needed

VARIABLES
    counted,    \* the voters whose approval counts
    grounds,    \* what speaks against the request
    verdict,    \* "open", "approved" or "rejected"
    told        \* the condition the pipeline sees

Init ==
    /\ counted = {}
    /\ grounds \in {{}, {"parameters"}}
    /\ verdict = "open"
    /\ told = "Unknown"

Sufficient == Cardinality(counted) >= Needed

\* Somebody approves or rejects, or takes it back.
Vote ==
    /\ verdict = "open" /\ ~Sufficient
    /\ counted' \in SUBSET Voters
    /\ grounds' \in {grounds \ {"rejection"}, grounds \cup {"rejection"}}
    /\ UNCHANGED <<verdict, told>>

Expire ==
    /\ grounds' = grounds \cup {"timeout"}
    /\ UNCHANGED <<counted, verdict, told>>

Grant ==
    /\ verdict = "open" /\ Sufficient /\ "rejection" \notin grounds
    /\ verdict' = "approved"
    /\ UNCHANGED <<counted, grounds, told>>

Deny ==
    /\ \/ verdict = "open" /\ "rejection" \in grounds
       \/ "timeout" \in grounds
    /\ verdict' = "rejected"
    /\ UNCHANGED <<counted, grounds, told>>

Tell ==
    /\ told' = CASE verdict = "approved" -> "True"
                 [] verdict = "rejected" -> "False"
                 [] OTHER                -> IF "parameters" \in grounds THEN "False" ELSE "Unknown"
    /\ UNCHANGED <<counted, grounds, verdict>>

\* A run already told may be shown as undecided again, until it is told anew.
Withdraw ==
    /\ told' = "Unknown"
    /\ UNCHANGED <<counted, grounds, verdict>>

Next == Vote \/ Expire \/ Grant \/ Deny \/ Tell \/ Withdraw

Spec == Init /\ [][Next]_<<counted, grounds, verdict, told>>
=============================================================================
