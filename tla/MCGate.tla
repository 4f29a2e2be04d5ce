------------------------------- MODULE MCGate -------------------------------
(***************************************************************************)
(* Small instances of the approval gate.  The names are those of one team; *)
(* the configurations choose the list of approvers.                        *)
(***************************************************************************)
EXTENDS ApprovalGateProperties

U(name) == [name |-> name, type |-> "User"]
G(name) == [name |-> name, type |-> "Group"]

TwoUsers   == {"alice", "bob"}
ThreeUsers == {"alice", "bob", "carol"}

\* One individual approver, and a group of two.
UserAndGroup == <<U("alice"), G("dev")>>
GroupOfTwo   == [u \in ThreeUsers |-> IF u = "alice" THEN {} ELSE {"dev"}]
GroupOfOne   == [u \in TwoUsers |-> IF u = "alice" THEN {} ELSE {"dev"}]

\* Individual approvers only; alice's entry is as v0.6.0 wrote it.
UsersOnly == <<[name |-> "alice", type |-> ""], U("bob")>>
NoGroups  == [u \in TwoUsers |-> {}]

\* Overlaps: alice is an individual approver and in dev, bob is in two groups,
\* and the first group stands before alice's own entry.
Overlapping == <<G("dev"), U("alice"), G("ops")>>
TwoGroups   == [u \in TwoUsers |-> IF u = "alice" THEN {"dev"} ELSE {"dev", "ops"}]

\* Bound: three commands while nothing fails, two where something does.
Budget == commands + faults <= 3
=============================================================================
