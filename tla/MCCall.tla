------------------------------- MODULE MCCall -------------------------------
(* A call, on its way in and in the page: the registration by which a      *)
(* phone is alerted (NativePush), the ring of an Android phone (PhoneRing) *)
(* and the page's session (VoiceSession).  Each is checked against         *)
(* whatever the others may do, so a behaviour is one's, and the others     *)
(* rest.                                                                   *)
EXTENDS PhoneRing

CONSTANTS Conv, Sealed, Mortal, JoinRuns, Downs, MaxLeaves, None,
          MaxPresses, MaxSignIns, MaxEvents, MaxFaults

VARIABLES part,
    ui, plan, attempt, transport, hangingUp, leaves, watching, joins, downs,
    lock, room, row, open, forgotten, followUp, sweep,
    provider, pushRow, pushLive, owner, signingOut, stored, job, running, pushHeard, choice,
    signIns, presses, tokenEvents, faults

V == INSTANCE VoiceSession WITH Hasty <- FALSE, Joins <- JoinRuns, leaving <- hangingUp, gone <- forgotten
P == INSTANCE NativePush WITH
        PushRaces <- {}, row <- pushRow, live <- pushLive, leaving <- signingOut, told <- pushHeard,
        events <- tokenEvents

(* None is no conversation, no join and no teardown. *)
ASSUME SessionAssumption == None \notin Conv /\ None \notin JoinRuns /\ None \notin Downs

sessionVars == <<ui, plan, attempt, transport, hangingUp, leaves, watching, joins, downs,
                 lock, room, row, open, forgotten, followUp, sweep>>
pushVars == <<provider, pushRow, pushLive, owner, signingOut, stored, job, running, pushHeard, choice,
              signIns, presses, tokenEvents, faults>>

(* A part that rests has one initial state. *)
CallInit ==
    /\ part \in {"ring", "session", "push"} /\ Init /\ V!Init /\ P!Init
    /\ part = "ring" \/ (run = "none" /\ ~front)
    /\ part = "push" \/ provider = "apns"

CallNext ==
    \/ part = "ring" /\ Next /\ UNCHANGED <<part, sessionVars, pushVars>>
    \/ part = "session" /\ V!Next /\ UNCHANGED <<part, vars, pushVars>>
    \/ part = "push" /\ P!Next /\ UNCHANGED <<part, vars, sessionVars>>

callVars == <<part, vars, sessionVars, pushVars>>

CallSpec == CallInit /\ [][CallNext]_callVars

-----------------------------------------------------------------------------
(* While a call rings, one thing rings for it: never two, and never none.  *)
RingsOnce == OneRing /\ NeverSilent
(* A room that is open while nobody hangs up is the session's, and whoever *)
(* is in a call the page carries on holds the lock.                        *)
CallIsHeld == V!NothingLeftBehind /\ V!OneWindow
(* The server counts the device in the call it is in, and in no other; a   *)
(* row whose leave was lost has a departure or the sweep to clear it.      *)
RowIsTrue == V!RowIsTrue
(* A phone is alerted by push when, and only when, its switch says so, or  *)
(* it knows what it still owes the server.                                 *)
SwitchIsTrue == P!OffIsOwed /\ P!ShownIsServed
=============================================================================
