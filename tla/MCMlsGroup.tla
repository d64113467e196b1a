----------------------------- MODULE MCMlsGroup -----------------------------
(* MlsGroup on small instances: each device has its tab. *)
EXTENDS MlsGroup

CONSTANTS a, b

TabOf == (a :> 1) @@ (b :> 2)

=============================================================================
