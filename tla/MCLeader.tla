------------------------------ MODULE MCLeader ------------------------------
(* Leader on small instances. *)
EXTENDS Leader

CONSTANTS t1, t2   \* tabs
=============================================================================
