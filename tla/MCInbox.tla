------------------------------ MODULE MCInbox ------------------------------
(* Inbox on small instances. *)
EXTENDS Inbox, TLC

CONSTANTS g1, g2,   \* history-key generations
          t1, t2    \* tabs

OneKey == [m \in Message |-> g1]
\* The last message is sealed under a rotated key.
Rotated == [m \in Message |-> IF m = Count THEN g2 ELSE g1]
\* The first message is sealed under a key of its own.
FirstApart == [m \in Message |-> IF m = 1 THEN g2 ELSE g1]

TabSymmetry == Permutations(Tab)

\* One fault at most, a dead tab or a failed request.
OneFault == crashes + fails <= 1
=============================================================================
