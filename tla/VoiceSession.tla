---------------------------- MODULE VoiceSession ----------------------------
(***************************************************************************)
(* The one voice session of a page (client/src/voice/session.ts): joining, *)
(* leaving, switching rooms, switching engines, and the teardown they all  *)
(* go through.                                                             *)
(*                                                                         *)
(* #join and #teardown are async functions and nothing serialises them: a  *)
(* join is a process that runs from one await to the next, a teardown is   *)
(* another, and they share the fields of the session.  An action below is  *)
(* the code between two awaits.  The page shares the voice lock with the   *)
(* other windows of the profile, a row per call with the server, and a     *)
(* room per transport with the SFU.                                        *)
(*                                                                         *)
(* A request that fails was served before its answer was lost, or never    *)
(* was: the page cannot tell.                                              *)
(*                                                                         *)
(* Abstracted: a conversation has one call, named by it; the keys, the     *)
(* volumes, the roster and the video of a call; the wording of errors.     *)
(***************************************************************************)
EXTENDS Naturals, FiniteSets

CONSTANTS
    Conv,       \* conversations
    Sealed,     \* those whose media is frame-encrypted: the join waits for a key
    Mortal,     \* those whose room a restart of the SFU may lose
    Joins,      \* runs of #join, numbered
    Downs,      \* runs of #teardown, numbered
    MaxLeaves,  \* how often the person hangs up
    Hasty,      \* may a join pass its checks while an earlier one or a hang-up is unfinished?
    None

VARIABLES
    ui,         \* #state: [phase, conv, call, override]
    plan,       \* #plan: the conversation the engine switch would rejoin
    attempt,    \* #attempt: the join under way
    transport,  \* #transport, named by the join that made it
    leaving,    \* #leaving
    leaves,     \* #leaves
    watching,   \* the join whose #watchSync is subscribed
    joins,      \* per run of #join: its place, its arguments, its JoinAttempt
    downs,      \* per run of #teardown: its place and what it read at its start
    lock,       \* the Web Lock messenger.voice: free, this page's, or another window's
    room,       \* per transport: what the SFU has of it
    row,        \* the calls the server counts this device in
    open,       \* the calls that have not ended
    gone,       \* the calls whose room the SFU forgot in a restart
    followUp,   \* #followUp: the ended call whose room is being asked about
    sweep       \* the calls whose row, if one is left, is the server's sweep's to clear

page == <<ui, plan, attempt, transport, leaving, leaves, watching>>
sfu == <<gone, followUp, sweep>>
vars == <<page, joins, downs, lock, room, row, open, sfu>>

InCall == {"connecting", "connected", "reconnecting"}
Idle == [phase |-> "idle", conv |-> None, call |-> None, override |-> FALSE]
Unused == [pc |-> "unused", conv |-> None, override |-> FALSE, leaves |-> 0,
           down |-> None, live |-> FALSE, tell |-> FALSE, ended |-> FALSE]
NoDown == [pc |-> "unused", transport |-> None, call |-> None, keep |-> FALSE]
Ended == [NoDown EXCEPT !.pc = "done"]

Init ==
    /\ ui = Idle
    /\ plan = None
    /\ attempt = None
    /\ transport = None
    /\ leaving = FALSE
    /\ leaves = 0
    /\ watching = None
    /\ joins = [j \in Joins |-> Unused]
    /\ downs = [d \in Downs |-> NoDown]
    /\ lock = "free"
    /\ room = [j \in Joins |-> "none"]
    /\ row = {}
    /\ open = Conv
    /\ gone = {}
    /\ followUp = None
    /\ sweep = {}

(* A join that is over, of which only the conversation still matters.      *)
Over(js, j) == [js EXCEPT ![j] = [Unused EXCEPT !.pc = "done", !.conv = js[j].conv]]

Running(j) == joins[j].pc \notin {"unused", "done"}
TearingDown == {d \in Downs : downs[d].pc \notin {"unused", "done"}}
Admittance(j) == joins[j].pc \in {"key", "connect", "mic", "close", "abandon"}
(* The SFU's participant_left is still to come for a room of a call: it    *)
(* clears the row, unless the device has joined the call again.            *)
Departing(j) == room[j] \in {"closed", "ended"} /\ joins[j].conv \notin gone
Again(j) == \E k \in Joins \ {j} : joins[k].conv = joins[j].conv /\ (Admittance(k) \/ room[k] = "open")
Healed(c) == \E j \in Joins : joins[j].conv = c /\ Departing(j) /\ ~Again(j)
AtRest == TearingDown = {} /\ \A j \in Joins : ~Running(j)

(* A hang-up is unfinished while its teardown waits, or while the join it  *)
(* superseded has not noticed; a join is at the lock before it shows.      *)
Unfinished(j) ==
    \/ TearingDown # {}
    \/ \E k \in Joins \ {j} : joins[k].pc \in {"lock", "held", "refused"}
    \/ \E k \in Joins \ {j} : Running(k) /\ joins[k].pc # "checks" /\ ~joins[k].live

FirstJoin(j) == j \in Joins /\ joins[j].pc = "unused" /\ \A k \in Joins : k < j => joins[k].pc # "unused"
FirstDown(d) == d \in Downs /\ downs[d].pc = "unused" /\ \A e \in Downs : e < d => downs[e].pc # "unused"

-----------------------------------------------------------------------------
(* #supersedeJoin: the join under way stops at its next check.             *)
Superseded(tell) ==
    IF attempt = None THEN joins
    ELSE [joins EXCEPT ![attempt].live = FALSE, ![attempt].tell = tell]

(* The end of a teardown, after its last await.  It acts on the fields as  *)
(* they are by then: the lock it lets go is whichever the page holds.      *)
Tail(keep) ==
    /\ ui' = Idle
    /\ lock' = IF ~keep /\ lock = "me" THEN "free" ELSE lock

(* #teardown up to its first await; with nothing to await, all of it.  js  *)
(* is joins with the caller's own place moved on.                          *)
Teardown(d, tell, keep, js) ==
    LET told == IF tell THEN ui.call ELSE None
        pc == IF transport # None THEN "disconnect" ELSE IF told # None THEN "tell" ELSE "done"
    IN  /\ FirstDown(d)
        /\ leaving' = TRUE
        /\ attempt' = None
        /\ watching' = None
        /\ transport' = None
        /\ plan' = IF keep THEN plan ELSE None
        /\ joins' = js
        /\ downs' = [downs EXCEPT ![d] = IF pc = "done" THEN Ended
                                         ELSE [pc |-> pc, transport |-> transport, call |-> told, keep |-> keep]]
        /\ IF pc = "done" THEN Tail(keep) ELSE UNCHANGED <<ui, lock>>

(* transport.disconnect() has answered.  A room still connecting is not    *)
(* closed by it for certain: the join finds out when its connect returns;  *)
(* and where the connect got no room, there is none to close.              *)
(* An engine switch tells nobody, and a room the SFU forgot tells nobody.  *)
Disconnected(d) ==
    /\ downs[d].pc = "disconnect"
    /\ LET t == downs[d].transport IN
       /\ room' = [room EXCEPT ![t] = IF @ \in {"none", "connecting"} THEN @ ELSE "closed"]
       /\ sweep' = IF downs[d].keep THEN sweep \cup ({joins[t].conv} \cap gone) ELSE sweep
    /\ downs' = [downs EXCEPT ![d] = IF @.call # None THEN [@ EXCEPT !.pc = "tell"] ELSE Ended]
    /\ IF downs[d].call = None THEN Tail(downs[d].keep) ELSE UNCHANGED <<ui, lock>>
    /\ UNCHANGED <<plan, attempt, transport, leaving, leaves, watching, joins, row, open, gone, followUp>>

(* leaveCall or leaveVoiceRoom has reached the server, or is lost, and the *)
(* page goes on as though it had: the departure clears the row if there is *)
(* one to come, and otherwise only the server's sweep does.                *)
Told(d) ==
    /\ downs[d].pc = "tell"
    /\ \/ row' = row \ {downs[d].call} /\ UNCHANGED sweep
       \/ /\ sweep' = IF Healed(downs[d].call) THEN sweep ELSE sweep \cup {downs[d].call}
          /\ UNCHANGED row
    /\ downs' = [downs EXCEPT ![d] = Ended]
    /\ Tail(downs[d].keep)
    /\ UNCHANGED <<plan, attempt, transport, leaving, leaves, watching, joins, room, open, gone, followUp>>

-----------------------------------------------------------------------------
(* startCall, answerCall, joinRoom: a press.  #join first waits for the    *)
(* orphan check of the page load.                                          *)
Press(j, c) ==
    /\ FirstJoin(j)
    /\ joins' = [joins EXCEPT ![j].pc = "checks", ![j].conv = c, ![j].leaves = leaves]
    /\ UNCHANGED <<page, downs, lock, room, row, open, sfu>>

(* switchEngineForThisCall: out without telling the server, then in again. *)
(* Its buttons are drawn in a connected call.                              *)
SwitchEngine(j, d) ==
    /\ FirstJoin(j)
    /\ Hasty \/ ~Unfinished(j)
    /\ ui.phase \in {"connected", "reconnecting"}
    /\ plan # None /\ ~ui.override
    /\ Teardown(d, FALSE, TRUE,
                [Superseded(FALSE) EXCEPT ![j] = [Unused EXCEPT !.pc = "switch", !.conv = plan,
                                                  !.override = TRUE, !.leaves = leaves, !.down = d]])
    /\ UNCHANGED <<leaves, room, row, open, sfu>>

SwitchBack(j) ==
    /\ joins[j].pc = "switch" /\ downs[joins[j].down].pc = "done"
    /\ ui' = [ui EXCEPT !.override = TRUE]
    /\ joins' = [joins EXCEPT ![j].pc = "checks"]
    /\ UNCHANGED <<plan, attempt, transport, leaving, leaves, watching, downs, lock, room, row, open, sfu>>

(* Into the attempt: whatever join was under way is superseded, and the    *)
(* lock is asked for unless the page holds it already (#acquireLock).      *)
Attempt(j, js) ==
    /\ attempt' = j
    /\ joins' = [js EXCEPT ![j].live = TRUE, ![j].pc = IF lock = "me" THEN "held" ELSE "lock"]
    /\ UNCHANGED <<ui, plan, transport, leaving, leaves, watching, downs, lock, room, row, open, sfu>>

GiveUp(j) ==
    /\ joins' = Over(joins, j)
    /\ UNCHANGED <<page, downs, lock, room, row, open, sfu>>

(* The checks have answered: give up after a hang-up or in the call the    *)
(* page is in; leave another call first; or go on.                         *)
Checked(j) ==
    /\ joins[j].pc = "checks"
    /\ Hasty \/ ~Unfinished(j)
    /\ \/ /\ leaves # joins[j].leaves \/ (ui.phase \in InCall /\ ui.conv = joins[j].conv)
          /\ GiveUp(j)
       \/ /\ leaves = joins[j].leaves
          /\ ui.phase \in InCall /\ ui.conv # joins[j].conv
          /\ \E d \in Downs : Teardown(d, TRUE, FALSE, [Superseded(TRUE) EXCEPT ![j].pc = "out", ![j].down = d])
          /\ UNCHANGED <<leaves, room, row, open, sfu>>
       \/ /\ leaves = joins[j].leaves
          /\ ui.phase \notin InCall
          /\ Attempt(j, Superseded(FALSE))

(* The teardown the join itself asked for has returned.                    *)
Out(j) ==
    /\ joins[j].pc = "out" /\ downs[joins[j].down].pc = "done"
    /\ IF leaves # joins[j].leaves THEN GiveUp(j) ELSE Attempt(j, Superseded(FALSE))

(* Mutant of LockAnswer: the page goes on without the lock.                *)
LockIgnored(j) ==
    /\ joins[j].pc = "lock"
    /\ \A k \in Joins : k < j => joins[k].pc # "lock"
    /\ lock' = IF lock = "free" THEN "me" ELSE lock
    /\ joins' = [joins EXCEPT ![j].pc = "held"]
    /\ UNCHANGED <<page, downs, room, row, open, sfu>>

(* The lock manager answers requests in order, a request that need not     *)
(* wait with yes or no; a grant is the page's, whatever became of the join.*)
LockAnswer(j) ==
    /\ joins[j].pc = "lock"
    /\ \A k \in Joins : k < j => joins[k].pc # "lock"
    /\ lock' = IF lock = "free" THEN "me" ELSE lock
    /\ joins' = [joins EXCEPT ![j].pc = IF lock = "free" THEN "held" ELSE "refused"]
    /\ UNCHANGED <<page, downs, room, row, open, sfu>>

Refused(j) ==
    /\ joins[j].pc = "refused"
    /\ IF joins[j].live
       THEN /\ ui' = [Idle EXCEPT !.phase = "elsewhere"]
            /\ attempt' = None
            /\ joins' = Over(Superseded(FALSE), j)
       ELSE /\ joins' = Over(joins, j)
            /\ UNCHANGED <<ui, attempt>>
    /\ UNCHANGED <<plan, transport, leaving, leaves, watching, downs, lock, room, row, open, sfu>>

(* Mutant of Connecting: the last hang-up's flag is not reset.             *)
ConnectingStillLeaving(j) ==
    /\ joins[j].pc = "held"
    /\ IF joins[j].live
       THEN /\ plan' = joins[j].conv
            /\ ui' = [phase |-> "connecting", conv |-> joins[j].conv, call |-> None, override |-> joins[j].override]
            /\ joins' = [joins EXCEPT ![j].pc = "obtain"]
       ELSE /\ joins' = Over(joins, j)
            /\ UNCHANGED <<plan, ui>>
    /\ UNCHANGED <<attempt, transport, leaving, leaves, watching, downs, lock, room, row, open, sfu>>

(* The lock is ours: the page shows the call it is joining.                *)
Connecting(j) ==
    /\ joins[j].pc = "held"
    /\ IF joins[j].live
       THEN /\ leaving' = FALSE
            /\ plan' = joins[j].conv
            /\ ui' = [phase |-> "connecting", conv |-> joins[j].conv, call |-> None, override |-> joins[j].override]
            /\ joins' = [joins EXCEPT ![j].pc = "obtain"]
       ELSE /\ joins' = Over(joins, j)
            /\ UNCHANGED <<leaving, plan, ui>>
    /\ UNCHANGED <<attempt, transport, leaves, watching, downs, lock, room, row, open, sfu>>

-----------------------------------------------------------------------------
(* A teardown with nobody to tell and no room: what a join that failed     *)
(* before its connect runs.                                                *)
FailedBefore(j, tell) ==
    /\ \E d \in Downs : Teardown(d, tell, FALSE, Over(Superseded(tell), j))
    /\ UNCHANGED <<leaves, open>>

(* createTransport and the start of its connect.                           *)
Dial(j, js) ==
    /\ transport' = j
    /\ room' = [room EXCEPT ![j] = "connecting"]
    /\ joins' = [js EXCEPT ![j].pc = "connect"]

(* Mutant of Admitted: an abandoned join never says so.                    *)
AdmittedSilently(j) ==
    LET c == joins[j].conv IN
    /\ joins[j].pc = "obtain" /\ c \in open
    /\ row' = row \cup {c} /\ sweep' = sweep \ {c}
    /\ IF joins[j].live
       THEN /\ ui' = [ui EXCEPT !.call = c]
            /\ watching' = j
            /\ IF c \in Sealed
               THEN joins' = [joins EXCEPT ![j].pc = "key"] /\ UNCHANGED <<transport, room>>
               ELSE Dial(j, joins)
       ELSE /\ joins' = Over(joins, j)
            /\ UNCHANGED <<ui, watching, transport, room>>
    /\ UNCHANGED <<plan, attempt, leaving, leaves, downs, lock, open, gone, followUp>>

(* startCall, answerCall or joinVoiceRoom has answered: the device has a   *)
(* row in the call, which is this join's to leave whatever became of an    *)
(* earlier one.  An abandoned join says so only if its hang-up told.       *)
Admitted(j) ==
    LET c == joins[j].conv IN
    /\ joins[j].pc = "obtain" /\ c \in open
    /\ row' = row \cup {c} /\ sweep' = sweep \ {c}
    /\ IF joins[j].live
       THEN /\ ui' = [ui EXCEPT !.call = c]
            /\ watching' = j
            /\ IF c \in Sealed
               THEN joins' = [joins EXCEPT ![j].pc = "key"] /\ UNCHANGED <<transport, room>>
               ELSE Dial(j, joins)
       ELSE /\ joins' = IF joins[j].tell THEN [joins EXCEPT ![j].pc = "abandon"] ELSE Over(joins, j)
            /\ UNCHANGED <<ui, watching, transport, room>>
    /\ UNCHANGED <<plan, attempt, leaving, leaves, downs, lock, open, gone, followUp>>

(* The request failed: the page tells nobody, whether or not the server    *)
(* had admitted it.                                                        *)
NotAdmitted(j) ==
    LET c == joins[j].conv IN
    /\ joins[j].pc = "obtain"
    /\ \/ UNCHANGED <<row, sweep>>
       \/ c \in open /\ row' = row \cup {c} /\ sweep' = sweep \cup {c}
    /\ IF joins[j].live
       THEN FailedBefore(j, FALSE)
       ELSE joins' = Over(joins, j) /\ UNCHANGED <<page, downs, lock, open>>
    /\ UNCHANGED <<room, gone, followUp>>

(* leaveAbandoned has reached the server, or is lost.                      *)
Abandoned(j) ==
    /\ joins[j].pc = "abandon"
    /\ \/ row' = row \ {joins[j].conv} /\ UNCHANGED sweep
       \/ sweep' = sweep \cup {joins[j].conv} /\ UNCHANGED row
    /\ joins' = Over(joins, j)
    /\ UNCHANGED <<page, downs, lock, room, open, gone, followUp>>

(* #deriveKeyWithPatience: a key, none in time, or superseded meanwhile.   *)
KeyDerived(j) ==
    /\ joins[j].pc = "key"
    /\ \/ /\ joins[j].live
          /\ Dial(j, joins)
          /\ UNCHANGED <<ui, plan, attempt, leaving, leaves, watching, downs, lock, row, open, sfu>>
       \/ ~joins[j].live /\ GiveUp(j)

NoKey(j) ==
    /\ joins[j].pc = "key" /\ joins[j].live
    /\ FailedBefore(j, TRUE)
    /\ UNCHANGED <<room, row, sfu>>

(* Mutant of Connected: a superseded join does not close its room.         *)
ConnectedAndGone(j) ==
    /\ joins[j].pc = "connect" /\ joins[j].conv \notin gone
    /\ room' = [room EXCEPT ![j] = "open"]
    /\ IF joins[j].live
       THEN /\ ui' = [ui EXCEPT !.phase = "connected"]
            /\ joins' = [joins EXCEPT ![j].pc = "mic"]
            /\ followUp' = IF followUp = joins[j].conv THEN None ELSE followUp
       ELSE /\ joins' = Over(joins, j)
            /\ UNCHANGED <<ui, followUp>>
    /\ UNCHANGED <<plan, attempt, transport, leaving, leaves, watching, downs, lock, row, open, gone, sweep>>
(* The connect has returned.  A join superseded meanwhile closes the room  *)
(* it got, or the one it could not be sure of; a live one is back in the   *)
(* call a follow-up may be asking about, and ends the asking.              *)
Connected(j) ==
    /\ joins[j].pc = "connect" /\ joins[j].conv \notin gone
    /\ room' = [room EXCEPT ![j] = "open"]
    /\ IF joins[j].live
       THEN /\ ui' = [ui EXCEPT !.phase = "connected"]
            /\ joins' = [joins EXCEPT ![j].pc = "mic"]
            /\ followUp' = IF followUp = joins[j].conv THEN None ELSE followUp
       ELSE /\ joins' = [joins EXCEPT ![j].pc = "close"]
            /\ UNCHANGED <<ui, followUp>>
    /\ UNCHANGED <<plan, attempt, transport, leaving, leaves, watching, downs, lock, row, open, gone, sweep>>

(* The connect has failed, before the SFU had the device in its room or    *)
(* after.                                                                  *)
NotConnected(j) ==
    /\ joins[j].pc = "connect"
    /\ \E r \in {"none", "closed"} : room' = [room EXCEPT ![j] = r]
    /\ IF joins[j].live
       THEN FailedBefore(j, TRUE) /\ UNCHANGED <<row, sfu>>
       ELSE /\ joins' = [joins EXCEPT ![j].pc = "close"]
            /\ UNCHANGED <<page, downs, lock, row, open, sfu>>

Closed(j) ==
    /\ joins[j].pc = "close"
    /\ room' = [room EXCEPT ![j] = IF @ = "none" THEN @ ELSE "closed"]
    /\ joins' = Over(joins, j)
    /\ UNCHANGED <<page, downs, lock, row, open, sfu>>

(* The microphone is published, or refused: the join is over, and acts on  *)
(* an end it was told of while it ran (joined()).                          *)
Joined(j) ==
    /\ joins[j].pc = "mic"
    /\ \/ ~joins[j].live /\ GiveUp(j)
       \/ /\ joins[j].live /\ ~(joins[j].ended /\ ~leaving)
          /\ attempt' = None
          /\ joins' = Over(joins, j)
          /\ UNCHANGED <<ui, plan, transport, leaving, leaves, watching, downs, lock, room, row, open, sfu>>
       \/ /\ joins[j].live /\ joins[j].ended /\ ~leaving
          /\ \E d \in Downs : Teardown(d, FALSE, FALSE, Over(joins, j))
          /\ UNCHANGED <<leaves, room, row, open, sfu>>

-----------------------------------------------------------------------------
(* leave(): the person hangs up, at any moment.                            *)
Leave(d) ==
    /\ leaves < MaxLeaves
    /\ ui.phase \in InCall
    /\ leaves' = leaves + 1
    /\ Teardown(d, TRUE, FALSE, Superseded(TRUE))
    /\ UNCHANGED <<room, row, open, sfu>>

(* The SFU wavers, and the transport says so.                              *)
Wavering ==
    /\ ~leaving /\ transport # None /\ room[transport] = "open"
    /\ ui.phase \in {"connected", "reconnecting"}
    /\ \E p \in {"connected", "reconnecting"} : ui' = [ui EXCEPT !.phase = p]
    /\ UNCHANGED <<plan, attempt, transport, leaving, leaves, watching, joins, downs, lock, room, row, open, sfu>>

(* The SFU restarts, and forgets a room with everyone in it: nobody's      *)
(* departure is sent any more.                                             *)
Forgets(c) ==
    /\ c \in Mortal \ gone
    /\ gone' = gone \cup {c}
    /\ sweep' = IF \E j \in Joins : joins[j].conv = c /\ room[j] \in {"closed", "ended"}
                THEN sweep \cup {c} ELSE sweep
    /\ UNCHANGED <<page, joins, downs, lock, room, row, open, followUp>>

(* The room of a transport ends, and the page learns why: the SFU said so  *)
(* to a server that knows ("told"), its own answer is that the room is     *)
(* gone ("gone"), or nobody can say ("unsettled") and #followUpRoom asks.  *)
SfuEnds(j, why) ==
    /\ room[j] = "open"
    /\ IF joins[j].conv \in gone THEN why \in {"gone", "unsettled"} ELSE why \in {"told", "unsettled"}
    /\ room' = [room EXCEPT ![j] = "ended"]
    /\ IF transport # j \/ leaving
       THEN UNCHANGED <<page, joins, downs, lock, followUp, sweep>>
       ELSE /\ \E d \in Downs : Teardown(d, why = "gone", FALSE, Superseded(why = "gone"))
            /\ UNCHANGED leaves
            /\ IF why = "unsettled" /\ ui.call # None
               THEN /\ followUp' = ui.call
                    /\ sweep' = sweep \cup ({followUp} \ {None, ui.call})
               ELSE UNCHANGED <<followUp, sweep>>
    /\ UNCHANGED <<row, open, gone>>

(* The SFU's participant_left reaches the server, for a room that exists.  *)
(* A row that is the sweep's may be of a later, unanswered join, and stay. *)
Departed(j) ==
    /\ Departing(j)
    /\ room' = [room EXCEPT ![j] = "left"]
    /\ \/ ~Again(j) /\ row' = row \ {joins[j].conv}
       \/ (Again(j) \/ joins[j].conv \in sweep) /\ UNCHANGED row
    /\ UNCHANGED <<page, joins, downs, lock, open, sfu>>

(* The follow-up has its answer: gone, and the page leaves by the call's   *)
(* id; or there, or no answer in five minutes, and the page tells nobody,  *)
(* which is also what a lost leave comes to.                               *)
FollowUpLeaves ==
    /\ followUp # None /\ followUp \in gone
    /\ row' = row \ {followUp}
    /\ followUp' = None
    /\ UNCHANGED <<page, joins, downs, lock, room, open, gone, sweep>>

FollowUpStops ==
    /\ followUp # None
    /\ followUp' = None
    /\ sweep' = IF followUp \in gone THEN sweep \cup {followUp} ELSE sweep
    /\ UNCHANGED <<page, joins, downs, lock, room, row, open, gone>>

(* The server ends the call: everyone's row with it.                       *)
EndCall(c) ==
    /\ c \in open
    /\ open' = open \ {c}
    /\ row' = row \ {c}
    /\ UNCHANGED <<page, joins, downs, lock, room, sfu>>

(* #watchSync hears the ended frame: a join under way keeps it for joined.  *)
HearEnded(j) ==
    /\ watching = j /\ ui.call # None /\ ui.call \notin open /\ ~leaving
    /\ IF joins[j].pc = "done"
       THEN (\E d \in Downs : Teardown(d, FALSE, FALSE, Superseded(FALSE))) /\ UNCHANGED leaves
       ELSE /\ ~joins[j].ended
            /\ joins' = [joins EXCEPT ![j].ended = TRUE]
            /\ UNCHANGED <<page, downs, lock>>
    /\ UNCHANGED <<room, row, open, sfu>>

-----------------------------------------------------------------------------
(* The other windows of the profile: one takes the lock for a call of its  *)
(* own and lets it go; #watchTabs hears them say so.                       *)
OtherWindow ==
    /\ \/ lock = "free" /\ lock' = "other"
       \/ lock = "other" /\ lock' = "free"
    /\ UNCHANGED <<page, joins, downs, room, row, open, sfu>>

HearOther ==
    /\ ui.phase \in {"idle", "elsewhere"}
    /\ ui' = [Idle EXCEPT !.phase = IF lock = "other" THEN "elsewhere" ELSE "idle"]
    /\ UNCHANGED <<plan, attempt, transport, leaving, leaves, watching, joins, downs, lock, room, row, open, sfu>>

-----------------------------------------------------------------------------
Down(d) == Disconnected(d) \/ Told(d)

Join(j) ==
    \/ SwitchBack(j) \/ Checked(j) \/ Out(j) \/ LockAnswer(j) \/ Refused(j) \/ Connecting(j)
    \/ Admitted(j) \/ NotAdmitted(j) \/ Abandoned(j) \/ KeyDerived(j) \/ NoKey(j)
    \/ Connected(j) \/ NotConnected(j) \/ Closed(j) \/ Joined(j)

Next ==
    \/ \E d \in Downs : Down(d) \/ Leave(d)
    \/ \E j \in Joins : \/ Join(j) \/ HearEnded(j) \/ Departed(j)
                        \/ \E c \in Conv : Press(j, c)
                        \/ \E d \in Downs : SwitchEngine(j, d)
                        \/ \E why \in {"told", "gone", "unsettled"} : SfuEnds(j, why)
    \/ \E c \in Conv : EndCall(c) \/ Forgets(c)
    \/ Wavering \/ FollowUpLeaves \/ FollowUpStops \/ OtherWindow \/ HearOther

Spec == Init /\ [][Next]_vars

(* Every promise a join or a teardown waits for settles; an ended call is  *)
(* heard of in a frame, or from the SFU whose room the server deletes.     *)
(* Joins and teardowns are finitely many and only ever move on, so that    *)
(* fairness to all of them is fairness to each.                            *)
Settling == (\E d \in Downs : Down(d)) \/ (\E j \in Joins : Join(j))

Hearing ==
    \E j \in Joins : \/ HearEnded(j)
                     \/ joins[j].conv \notin open /\ \E why \in {"told", "gone"} : SfuEnds(j, why)

Fairness == WF_vars(Settling) /\ WF_vars(Hearing)

LiveSpec == Spec /\ Fairness

-----------------------------------------------------------------------------
TypeOK ==
    /\ ui \in [phase : InCall \cup {"idle", "elsewhere"}, conv : Conv \cup {None},
               call : Conv \cup {None}, override : BOOLEAN]
    /\ plan \in Conv \cup {None}
    /\ {attempt, transport, watching} \subseteq Joins \cup {None}
    /\ leaving \in BOOLEAN /\ leaves \in 0..MaxLeaves
    /\ joins \in [Joins -> [pc : {"unused", "switch", "checks", "out", "lock", "held", "refused", "obtain",
                                  "abandon", "key", "connect", "close", "mic", "done"},
                            conv : Conv \cup {None}, override : BOOLEAN, leaves : 0..MaxLeaves,
                            down : Downs \cup {None}, live : BOOLEAN, tell : BOOLEAN, ended : BOOLEAN]]
    /\ downs \in [Downs -> [pc : {"unused", "disconnect", "tell", "done"}, transport : Joins \cup {None},
                            call : Conv \cup {None}, keep : BOOLEAN]]
    /\ lock \in {"free", "me", "other"}
    /\ room \in [Joins -> {"none", "connecting", "open", "closed", "ended", "left"}]
    /\ {row, open, gone, sweep} \subseteq SUBSET Conv
    /\ followUp \in Conv \cup {None}

(* A room that is open while nobody is hanging up is the session's: the    *)
(* page shows its call and holds the lock.  No microphone is left behind   *)
(* that nothing on the page can mute (client-voice-1).                     *)
NothingLeftBehind ==
    AtRest => /\ \A j \in Joins : room[j] = "open" =>
                    /\ transport = j /\ watching = j
                    /\ ui.phase \in {"connected", "reconnecting"} /\ ui.conv = joins[j].conv
                    /\ lock = "me"
              /\ lock = "me" => ui.phase \in InCall

(* Whoever is in a call the page carries on holds the lock: no other       *)
(* window of the profile can be in one as well.                            *)
OneWindow == \A j \in Joins : (joins[j].live /\ joins[j].pc \in {"obtain", "key", "connect", "mic"}) => lock = "me"

(* The server counts the device in the call it is in, and in no other: out *)
(* of every other somebody has told it, a follow-up may yet, the departure *)
(* of a room is to come, or the row is the sweep's: the leave was lost     *)
(* with no departure to heal it, the answer that admitted the device was   *)
(* lost, or the SFU forgot the room.                                       *)
RowIsTrue ==
    AtRest =>
        /\ ui.phase \in InCall /\ ui.call \in open /\ room[transport] = "open" => ui.call \in row
        /\ \A c \in row :
              \/ ui.phase \in InCall /\ ui.call = c
              \/ c \in sweep \/ followUp = c
              \/ c \notin gone /\ \E j \in Joins : joins[j].conv = c /\ room[j] \in {"closed", "ended"}

(* A call the server has ended leaves the screen, whatever the page was    *)
(* doing when the frame came.                                              *)
EndedLeaves == \A c \in Conv : (c \notin open /\ ui.call = c) ~> ui.call # c
=============================================================================
