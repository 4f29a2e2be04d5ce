------------------------------ MODULE MCParams ------------------------------
(* Small instances of the parameter pipeline.                              *)
EXTENDS ApprovalParams

SomeIds    == {"tekton", "infra"}
AllShapes  == {"plain", "blank", "spaced", "colon", "detached", "notString"}
PlainOnly  == {"plain"}
ZeroToTwo  == {0, 2}
=============================================================================
