---------------------------- MODULE MCHubChannel ----------------------------
(* HubChannel on small instances. *)
EXTENDS HubChannel

CONSTANT l1   \* the loop
=============================================================================
