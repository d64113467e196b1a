------------------------------ MODULE MCOutbox ------------------------------
(* Outbox on small instances: messages a and b of one conversation, and c  *)
(* of another.                                                             *)
EXTENDS Outbox, TLC

CONSTANTS a, b, c,   \* messages
          dm, hub,   \* an encrypted conversation, a readable hub channel
          t1, t2     \* tabs

OneConversation  == [m \in {a, b} |-> dm]
TwoConversations == [m \in {a, b, c} |-> IF m = c THEN hub ELSE dm]

\* a and b are composed in either order, and tabs do not differ.
Symmetry == Permutations({a, b}) \cup Permutations(Tab)
=============================================================================
