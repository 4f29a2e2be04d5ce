--------------------------- MODULE MCWebhookConfig ---------------------------
(***************************************************************************)
(* A small instance of the webhook's configuration: two pods, a manifest   *)
(* as released, one of an owner that uses another service and has filled   *)
(* in the rules, and one that is broken.                                   *)
(***************************************************************************)
EXTENDS WebhookConfig

Released == [exists |-> TRUE, owned |-> FALSE, entry |-> TRUE, rules |-> FALSE, path |-> FALSE,
             bundle |-> 0, service |-> "webhook"]
Moved    == [Released EXCEPT !.owned = TRUE, !.rules = TRUE, !.service = "other"]
Broken   == [Released EXCEPT !.service = NoService]
Renamed  == [Moved EXCEPT !.entry = FALSE]

SomeManifests == {Released, Moved, Broken, Renamed}
=============================================================================
