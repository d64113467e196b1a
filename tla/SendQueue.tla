----------------------------- MODULE SendQueue -----------------------------
(***************************************************************************)
(* What the outbox promises, with none of the machinery: every message     *)
(* accepted from the composer becomes at most one row on the server, and   *)
(* within a conversation a message is delivered only once everything typed *)
(* before it has been delivered or given up on.  Outbox.tla is shown to    *)
(* implement this module.                                                  *)
(***************************************************************************)
EXTENDS Naturals

CONSTANTS Message,       (* composed messages                              *)
          Conversation,  (* conversations                                  *)
          ConvOf         (* the conversation each message is composed in   *)

VARIABLES promised,      (* messages the device has accepted               *)
          before,        (* <<n, m>>: n was typed, and accepted, before m  *)
          givenUp,       (* messages that were parked as failed            *)
          copies         (* server rows created for each message           *)

vars == <<promised, before, givenUp, copies>>

Init ==
    /\ promised = {}
    /\ before = {}
    /\ givenUp = {}
    /\ copies = [m \in Message |-> 0]

\* A message is accepted behind some of those already accepted in its conversation.
Promise(m) ==
    /\ m \notin promised
    /\ promised' = promised \cup {m}
    /\ \E ahead \in SUBSET {n \in promised : ConvOf[n] = ConvOf[m]} :
          before' = before \cup (ahead \X {m})
    /\ UNCHANGED <<givenUp, copies>>

Settled(n) == copies[n] > 0 \/ n \in givenUp

Deliver(m) ==
    /\ m \in promised
    /\ copies[m] = 0
    /\ \A n \in Message : <<n, m>> \in before => Settled(n)
    /\ copies' = [copies EXCEPT ![m] = 1]
    /\ UNCHANGED <<promised, before, givenUp>>

\* Giving up is reported for a whole conversation at once, or for one message.
GiveUp(lost) ==
    /\ lost \subseteq promised
    /\ givenUp' = givenUp \cup lost
    /\ UNCHANGED <<promised, before, copies>>

Next ==
    \/ \E m \in Message : Promise(m) \/ Deliver(m)
    \/ \E lost \in SUBSET Message : GiveUp(lost)

Spec == Init /\ [][Next]_vars
=============================================================================
