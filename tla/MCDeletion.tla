----------------------------- MODULE MCDeletion -----------------------------
(***************************************************************************)
(* A small instance of the approval gate with deletions.                   *)
(***************************************************************************)
EXTENDS ApprovalGateDeletion

TwoUsers  == {"alice", "bob"}
UsersOnly == <<[name |-> "alice", type |-> ""], [name |-> "bob", type |-> "User"]>>
NoGroups  == [u \in TwoUsers |-> {}]
=============================================================================
