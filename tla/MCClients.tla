------------------------------ MODULE MCClients ------------------------------
(***************************************************************************)
(* Small instances of the approval gate with patching clients and with     *)
(* commands that see only part of their user's groups.                     *)
(***************************************************************************)
EXTENDS ApprovalGateClients

Pair == {"bob", "carol"}

\* Two groups; both people are in the first, bob in the second as well, and
\* bob's User object knows of the second only, carol's of one too many.
GroupsOnly  == <<[name |-> "dev", type |-> "Group"], [name |-> "ops", type |-> "Group"]>>
Memberships == [u \in Pair |-> IF u = "bob" THEN {"dev", "ops"} ELSE {"dev"}]
UserObjects == [u \in Pair |-> IF u = "bob" THEN {"ops"} ELSE {"dev", "ops"}]
=============================================================================
