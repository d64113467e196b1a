----------------------------- MODULE ShellCall -----------------------------
(***************************************************************************)
(* The call a desktop shell holds for its page (src-tauri/src/voice/mod.rs:*)
(* voice_connect, voice_disconnect, voice_current), the transport that     *)
(* asks for it (client/src/voice/transport-native.ts), and the check by    *)
(* which a page finds the call of the page before it (voice/handoff.ts,    *)
(* and #checkOrphan and #adopt of voice/session.ts).                       *)
(*                                                                         *)
(* Every command is a task of its own in the shell: two of one page run    *)
(* side by side, begin in any order, and outlive the page that asked.  A   *)
(* reload destroys the page and none of the shell.                         *)
(*                                                                         *)
(* Abstracted: the devices, keys and roster of a call; what a join does    *)
(* before its transport and after it, and a press during a hang-up (see    *)
(* VoiceSession); the engines other than the shell's.                      *)
(***************************************************************************)
EXTENDS Naturals

CONSTANTS
    Calls,      \* runs of voice_connect, numbered; each with its transport
    Commands,   \* runs of voice_disconnect, numbered
    MaxLoads,   \* how often the page is reloaded
    Retries,    \* ORPHAN_RETRIES
    InOrder,    \* do commands begin, and their answers arrive, in order?
    None

VARIABLES
    session,    \* SESSION: the call whose room the shell holds
    claim,      \* CONNECT_IN_FLIGHT, named by the connect that holds it
    cancelled,  \* CONNECT_CANCELLED
    con,        \* per voice_connect: its place, and its answer
    room,       \* per voice_connect: the SDK's room
    dis,        \* per voice_disconnect: its place, the room it took, the call it was sent for
    tr,         \* per voice_connect: the page's NativeTransport for it, if any
    cur,        \* #transport of the session
    join,       \* the join before its transport
    down,       \* the voice_disconnect a teardown or a check waits for
    check,      \* the orphan check that runs: its place, who asked, what it read
    tries,      \* retries of the check still to come
    missed,     \* ghost: the last check ended without an answer
    lock,       \* the Web Lock messenger.voice: free, this page's, or the reloaded one's
    loads

shell == <<session, claim, cancelled, con, room>>
page == <<tr, cur, join, down, check, tries, missed, lock>>
vars == <<shell, dis, page, loads>>

NoCheck == [pc |-> "none", by |-> None, saw |-> FALSE, found |-> None]
NoTransport == [pc |-> "none", closed |-> FALSE]
NoCommand == [pc |-> "unused", room |-> None, for |-> None]

Init ==
    /\ session = None /\ claim = None /\ cancelled = FALSE
    /\ con = [k \in Calls |-> [pc |-> "unused", ans |-> "none"]]
    /\ room = [k \in Calls |-> "none"]
    /\ dis = [d \in Commands |-> NoCommand]
    /\ tr = [k \in Calls |-> NoTransport]
    /\ cur = None /\ join = "none" /\ down = None
    /\ check = [NoCheck EXCEPT !.pc = "poll", !.by = "load"]
    /\ tries = 0 /\ missed = FALSE /\ lock = "free" /\ loads = 0

-----------------------------------------------------------------------------
(* voice_connect.  The claim is the connect's until it returns.            *)

Answers(k, ans) == con' = [con EXCEPT ![k] = [pc |-> "done", ans |-> ans]]
At(k, from, to) == con[k].pc = from /\ con' = [con EXCEPT ![k].pc = to]

(* Refused while another connects or a call runs; otherwise the claim is   *)
(* taken, and a cancel meant for an earlier connect cleared.               *)
Claims(k) ==
    /\ con[k].pc = "sent"
    /\ InOrder => \A d \in Commands : dis[d].pc = "sent" => dis[d].for = k
    /\ IF claim # None \/ session # None
       THEN Answers(k, "already") /\ UNCHANGED <<claim, cancelled>>
       ELSE /\ con' = [con EXCEPT ![k].pc = "setup"]
            /\ claim' = k
            /\ cancelled' = FALSE
    /\ UNCHANGED <<session, room, dis, page, loads>>

(* The devices and the key are ready, or are not; the cancel is read just  *)
(* before the SDK is asked for a room.                                     *)
SetUp(k) ==
    /\ con[k].pc = "setup"
    /\ \/ ~cancelled /\ con' = [con EXCEPT ![k].pc = "join"] /\ UNCHANGED claim
       \/ cancelled /\ Answers(k, "cancelled") /\ claim' = None
       \/ Answers(k, "failed") /\ claim' = None
    /\ UNCHANGED <<session, cancelled, room, dis, page, loads>>

(* Room::connect, raced against the hang-up: whichever is ready first.     *)
Opens(k) ==
    /\ At(k, "join", "open")
    /\ room' = [room EXCEPT ![k] = "open"]
    /\ UNCHANGED <<session, claim, cancelled, dis, page, loads>>

OpensNot(k) ==
    /\ con[k].pc = "join"
    /\ Answers(k, IF cancelled THEN "cancelled" ELSE "failed")
    /\ claim' = None
    /\ UNCHANGED <<session, cancelled, room, dis, page, loads>>

(* Stored only if nobody hung up meanwhile, under the lock a disconnect    *)
(* takes.                                                                  *)
Stores(k) ==
    /\ con[k].pc = "open"
    /\ IF cancelled THEN con' = [con EXCEPT ![k].pc = "refuse"] /\ UNCHANGED session
                    ELSE con' = [con EXCEPT ![k].pc = "return"] /\ session' = k
    /\ UNCHANGED <<claim, cancelled, room, dis, page, loads>>

\* Mutant: a refused call keeps its room
ReturnsOnly(k) ==
    /\ con[k].pc \in {"return", "refuse"}
    /\ Answers(k, IF con[k].pc = "return" THEN "ok" ELSE "cancelled")
    /\ claim' = None
    /\ UNCHANGED <<session, cancelled, room, dis, page, loads>>

(* The way out: a refused call closes its room first.                      *)
Returns(k) ==
    /\ con[k].pc \in {"return", "refuse"}
    /\ Answers(k, IF con[k].pc = "return" THEN "ok" ELSE "cancelled")
    /\ claim' = None
    /\ room' = IF con[k].pc = "refuse" THEN [room EXCEPT ![k] = "closed"] ELSE room
    /\ UNCHANGED <<session, cancelled, dis, page, loads>>

(* voice_disconnect: it takes the session, or, with none and a connect in  *)
(* flight, tells that connect.                                             *)
\* Mutant: a connect in flight is not told
TakesOnly(d) ==
    /\ dis[d].pc = "sent"
    /\ InOrder => con[dis[d].for].pc # "sent"
    /\ session' = None
    /\ dis' = [dis EXCEPT ![d].pc = IF session = None THEN "done" ELSE "closing", ![d].room = session]
    /\ UNCHANGED <<claim, cancelled, con, room, page, loads>>
Takes(d) ==
    /\ dis[d].pc = "sent"
    /\ InOrder => con[dis[d].for].pc # "sent"
    /\ session' = None
    /\ dis' = [dis EXCEPT ![d].pc = IF session = None THEN "done" ELSE "closing", ![d].room = session]
    /\ cancelled' = IF session = None /\ claim # None THEN TRUE ELSE cancelled
    /\ UNCHANGED <<claim, con, room, page, loads>>

(* Video, microphone and room are closed, one after the other.             *)
Closes(d) ==
    /\ dis[d].pc = "closing"
    /\ room' = [room EXCEPT ![dis[d].room] = "closed"]
    /\ dis' = [dis EXCEPT ![d].pc = "done"]
    /\ UNCHANGED <<session, claim, cancelled, con, page, loads>>

(* The SFU ends a room; the shell keeps its session.                       *)
SfuEnds(k) ==
    /\ room[k] = "open"
    /\ room' = [room EXCEPT ![k] = "ended"]
    /\ UNCHANGED <<session, claim, cancelled, con, dis, page, loads>>

-----------------------------------------------------------------------------
(* The page's transport.                                                   *)

FreeCommand(d) == d \in Commands /\ dis[d].pc = "unused" /\ \A e \in Commands : e < d => dis[e].pc # "unused"
Send(d, k) == FreeCommand(d) /\ dis' = [dis EXCEPT ![d] = [NoCommand EXCEPT !.pc = "sent", !.for = k]]

(* disconnect(): once per connect, and not before there is a shell to ask. *)
(* The teardown that called it waits, then lets the lock go.               *)
Disconnect(k) ==
    /\ cur' = None
    /\ IF tr[k].pc = "pre" \/ tr[k].closed
       THEN /\ tr' = [tr EXCEPT ![k].closed = TRUE]
            /\ lock' = "free"
            /\ UNCHANGED <<dis, down>>
       ELSE \E d \in Commands :
            /\ Send(d, k)
            /\ down' = d
            /\ tr' = [tr EXCEPT ![k] = [pc |-> IF @.pc = "live" THEN "done" ELSE @.pc, closed |-> TRUE]]
            /\ UNCHANGED lock

HoldsNothing == cur = None /\ join \notin {"obtain"} /\ check.pc # "adopt"

(* A press.  The join waits for the check that runs, and asks again.       *)
Press ==
    /\ join = "none" /\ down = None /\ HoldsNothing
    /\ join' = "wait"
    /\ UNCHANGED <<shell, dis, tr, cur, down, check, tries, missed, lock, loads>>

StartCheck(by) ==
    /\ check.pc = "none"
    /\ IF HoldsNothing /\ lock # "me"
       THEN check' = [NoCheck EXCEPT !.pc = "poll", !.by = by] /\ missed' = FALSE
       ELSE UNCHANGED <<check, missed>>
    /\ UNCHANGED <<shell, dis, tr, cur, down, lock, loads>>

JoinChecks == join = "wait" /\ join' = "checked" /\ StartCheck("join") /\ UNCHANGED tries

(* The check has answered: this page has a call now, or goes for the lock. *)
JoinGoesOn ==
    /\ join = "checked" /\ check.pc = "none" /\ down = None
    /\ join' = IF cur # None THEN "none" ELSE "lock"
    /\ UNCHANGED <<shell, dis, tr, cur, down, check, tries, missed, lock, loads>>

JoinLocks ==
    /\ join = "lock"
    /\ join' = IF lock = "old" THEN "none" ELSE "obtain"
    /\ lock' = IF lock = "old" THEN lock ELSE "me"
    /\ UNCHANGED <<shell, dis, tr, cur, down, check, tries, missed, loads>>

(* The server admits the device, or does not.                              *)
Obtained(k) ==
    /\ join = "obtain"
    /\ join' = "none"
    /\ con[k].pc = "unused" /\ tr[k].pc = "none" /\ \A j \in Calls : j < k => tr[j].pc # "none" \/ con[j].pc # "unused"
    /\ tr' = [tr EXCEPT ![k].pc = "pre"]
    /\ cur' = k
    /\ UNCHANGED <<shell, dis, down, check, tries, missed, lock, loads>>

NotObtained ==
    /\ join = "obtain"
    /\ join' = "none" /\ lock' = "free"
    /\ UNCHANGED <<shell, dis, tr, cur, down, check, tries, missed, loads>>

(* connect(): the Tauri modules, the listener and the devices, then        *)
(* voice_connect; #closed is read after every await.                       *)
Imported(k) ==
    /\ tr[k].pc = "pre"
    /\ tr' = [tr EXCEPT ![k].pc = IF tr[k].closed THEN "done" ELSE "ready"]
    /\ UNCHANGED <<shell, dis, cur, join, down, check, tries, missed, lock, loads>>

Dials(k) ==
    /\ tr[k].pc = "ready"
    /\ IF tr[k].closed
       THEN tr' = [tr EXCEPT ![k].pc = "done"] /\ UNCHANGED con
       ELSE tr' = [tr EXCEPT ![k].pc = "sent"] /\ con' = [con EXCEPT ![k].pc = "sent"]
    /\ UNCHANGED <<session, claim, cancelled, room, dis, cur, join, down, check, tries, missed, lock, loads>>

\* Mutant: a transport that was closed asks the shell again
AnsweredClosingTwice(k) ==
    /\ tr[k].pc = "sent" /\ con[k].pc = "done"
    /\ \/ /\ ~tr[k].closed /\ con[k].ans = "ok"
          /\ tr' = [tr EXCEPT ![k].pc = "live"]
          /\ UNCHANGED <<dis, cur, down, lock>>
       \/ /\ tr[k].closed \/ con[k].ans # "ok"
          /\ \E d \in Commands : Send(d, k)
          /\ tr' = [tr EXCEPT ![k] = [pc |-> "done", closed |-> TRUE]]
          /\ cur' = IF cur = k THEN None ELSE cur
          /\ UNCHANGED <<down, lock>>
    /\ UNCHANGED <<shell, join, check, tries, missed, loads>>
(* The answer of voice_connect.  After a hang-up an "ok" is closed by this *)
(* side; a refusal because of another call leaves that call alone.         *)
Answered(k) ==
    /\ tr[k].pc = "sent" /\ con[k].pc = "done"
    /\ \/ /\ tr[k].closed /\ con[k].ans = "ok"
          /\ \E d \in Commands : Send(d, k)
          /\ tr' = [tr EXCEPT ![k].pc = "done"]
          /\ UNCHANGED <<cur, down, lock>>
       \/ /\ tr[k].closed /\ con[k].ans # "ok"
          /\ tr' = [tr EXCEPT ![k].pc = "done"]
          /\ UNCHANGED <<dis, cur, down, lock>>
       \/ /\ ~tr[k].closed /\ con[k].ans = "ok"
          /\ tr' = [tr EXCEPT ![k].pc = "live"]
          /\ UNCHANGED <<dis, cur, down, lock>>
       \/ /\ ~tr[k].closed /\ con[k].ans = "already"
          /\ tr' = [tr EXCEPT ![k] = [pc |-> "done", closed |-> TRUE]]
          /\ cur' = None /\ lock' = "free"
          /\ UNCHANGED <<dis, down>>
       \/ /\ ~tr[k].closed /\ con[k].ans \in {"cancelled", "failed"}
          /\ \E d \in Commands : Send(d, k) /\ down' = d
          /\ tr' = [tr EXCEPT ![k] = [pc |-> "done", closed |-> TRUE]]
          /\ cur' = None
          /\ UNCHANGED lock
    /\ UNCHANGED <<shell, join, check, tries, missed, loads>>

(* The end of a teardown that waited.                                      *)
Downed ==
    /\ down # None /\ dis[down].pc = "done"
    /\ InOrder => \A k \in Calls : ~(tr[k].pc = "sent" /\ con[k].pc \in {"return", "done"})
    /\ down' = None /\ lock' = "free"
    /\ UNCHANGED <<shell, dis, tr, cur, join, check, tries, missed, loads>>

(* A hang-up, and a room that ended under the call.                        *)
HangUp ==
    /\ down = None
    /\ \/ cur # None /\ Disconnect(cur) /\ UNCHANGED <<join, check>>
       \/ /\ cur = None /\ join = "obtain"
          /\ join' = "none" /\ lock' = "free"
          /\ UNCHANGED <<dis, tr, cur, down, check>>
    /\ UNCHANGED <<shell, tries, missed, loads>>

HearsEnd(k) ==
    /\ cur = k /\ down = None /\ tr[k].pc = "live" /\ room[k] = "ended"
    /\ Disconnect(k)
    /\ UNCHANGED <<shell, join, check, tries, missed, loads>>

-----------------------------------------------------------------------------
(* The orphan check.                                                       *)

Settled(m) == check' = NoCheck /\ missed' = m

(* voice_current: first the claim, then the session.                       *)
ReadsClaim ==
    /\ check.pc = "poll"
    /\ check' = [check EXCEPT !.pc = "read", !.saw = (claim # None)]
    /\ UNCHANGED <<shell, dis, tr, cur, join, down, tries, missed, lock, loads>>

(* A session is the page's to look at; a connect in flight is waited for,  *)
(* for twenty seconds.                                                     *)
\* Mutant: a connect in flight is not waited for
SettlesAtOnce ==
    /\ check.pc = "read"
    /\ \/ session # None /\ check' = [check EXCEPT !.pc = "lock", !.found = session] /\ UNCHANGED missed
       \/ session = None /\ Settled(FALSE)
    /\ UNCHANGED <<shell, dis, tr, cur, join, down, tries, lock, loads>>
SettlesReading ==
    /\ check.pc = "read"
    /\ \/ session # None /\ check' = [check EXCEPT !.pc = "lock", !.found = session] /\ UNCHANGED missed
       \/ session = None /\ ~check.saw /\ Settled(FALSE)
       \/ session = None /\ check.saw /\ check' = [check EXCEPT !.pc = "poll"] /\ UNCHANGED missed
       \/ session = None /\ check.saw /\ Settled(TRUE)
    /\ UNCHANGED <<shell, dis, tr, cur, join, down, tries, lock, loads>>

(* The lock says whose the call is; the load's check waits for it a while. *)
CheckLocks ==
    /\ check.pc = "lock"
    /\ \/ /\ lock # "old"
          /\ lock' = "me" /\ check' = [check EXCEPT !.pc = "decide"]
          /\ UNCHANGED <<missed, tries>>
       \/ /\ lock = "old"
          /\ Settled(TRUE)
          /\ tries' = IF check.by = "load" THEN Retries ELSE tries
          /\ UNCHANGED lock
    /\ UNCHANGED <<shell, dis, tr, cur, join, down, loads>>

(* Later, in the background.  The few milliseconds between a join's check  *)
(* and its lock are left out: a retry begun there overlaps the join.       *)
RetryChecks ==
    /\ tries > 0 /\ check.pc = "none"
    /\ join # "lock"
    /\ tries' = tries - 1
    /\ StartCheck("retry")
    /\ UNCHANGED join

(* The call is this account's, or is dropped.                              *)
Decides ==
    /\ check.pc = "decide"
    /\ \/ check' = [check EXCEPT !.pc = "adopt"] /\ UNCHANGED <<dis, down>>
       \/ \E d \in Commands : Send(d, check.found) /\ down' = d /\ check' = NoCheck
    /\ UNCHANGED <<shell, tr, cur, join, tries, missed, lock, loads>>

(* The session is read again, and is the page's; or it is over, and what   *)
(* is left of it is discarded.                                             *)
Adopts ==
    /\ check.pc = "adopt"
    /\ LET k == check.found IN
       \/ /\ session = k
          /\ tr' = [tr EXCEPT ![k] = [pc |-> "live", closed |-> FALSE]]
          /\ cur' = k
          /\ UNCHANGED <<dis, down>>
       \/ /\ session # k
          /\ \E d \in Commands : Send(d, k) /\ down' = d
          /\ UNCHANGED <<tr, cur>>
    /\ check' = NoCheck
    /\ UNCHANGED <<shell, join, tries, missed, lock, loads>>

-----------------------------------------------------------------------------
(* A reload: the page goes with everything it knew, and its hold on the    *)
(* lock drains.  A command it sent has begun before the next page's do.    *)
Reload ==
    /\ loads < MaxLoads
    /\ \A k \in Calls : con[k].pc # "sent"
    /\ \A d \in Commands : dis[d].pc # "sent"
    /\ loads' = loads + 1
    /\ tr' = [k \in Calls |-> IF tr[k].pc = "none" THEN NoTransport ELSE [pc |-> "gone", closed |-> FALSE]]
    /\ cur' = None /\ join' = "none" /\ down' = None
    /\ check' = [NoCheck EXCEPT !.pc = "poll", !.by = "load"]
    /\ tries' = 0 /\ missed' = FALSE
    /\ lock' = IF lock = "me" THEN "old" ELSE lock
    /\ UNCHANGED <<shell, dis>>

Drained ==
    /\ lock = "old" /\ lock' = "free"
    /\ UNCHANGED <<shell, dis, tr, cur, join, down, check, tries, missed, loads>>

-----------------------------------------------------------------------------
Connect(k) == Claims(k) \/ SetUp(k) \/ Opens(k) \/ OpensNot(k) \/ Stores(k) \/ Returns(k)
Transport(k) == Imported(k) \/ Dials(k) \/ Answered(k) \/ HearsEnd(k)
Checking == ReadsClaim \/ SettlesReading \/ CheckLocks \/ Decides \/ Adopts

Next ==
    \/ \E k \in Calls : Connect(k) \/ Transport(k) \/ Obtained(k) \/ SfuEnds(k)
    \/ \E d \in Commands : Takes(d) \/ Closes(d)
    \/ Press \/ JoinChecks \/ JoinGoesOn \/ JoinLocks \/ NotObtained
    \/ Downed \/ HangUp \/ Checking \/ RetryChecks \/ Reload \/ Drained

Spec == Init /\ [][Next]_vars

(* Commands, answers and the page's own code go on; the SDK's connect      *)
(* succeeds or times out; a hold on a lock drains with its document.       *)
Settling ==
    \/ \E k \in Calls : Connect(k) \/ Transport(k)
    \/ \E d \in Commands : Takes(d) \/ Closes(d)
    \/ Downed \/ Checking \/ JoinGoesOn \/ JoinLocks \/ RetryChecks \/ Drained

LiveSpec == Spec /\ WF_vars(Settling)

-----------------------------------------------------------------------------
TypeOK ==
    /\ {session, claim, cur} \subseteq Calls \cup {None}
    /\ cancelled \in BOOLEAN /\ missed \in BOOLEAN
    /\ con \in [Calls -> [pc : {"unused", "sent", "setup", "join", "open", "return", "refuse", "done"},
                          ans : {"none", "ok", "already", "cancelled", "failed"}]]
    /\ room \in [Calls -> {"none", "open", "ended", "closed"}]
    /\ dis \in [Commands -> [pc : {"unused", "sent", "closing", "done"},
                             room : Calls \cup {None}, for : Calls \cup {None}]]
    /\ tr \in [Calls -> [pc : {"none", "pre", "ready", "sent", "live", "done", "gone"}, closed : BOOLEAN]]
    /\ join \in {"none", "wait", "checked", "lock", "obtain"}
    /\ down \in Commands \cup {None}
    /\ check \in [pc : {"none", "poll", "read", "lock", "decide", "adopt"}, by : {"load", "join", "retry", None},
                  saw : BOOLEAN, found : Calls \cup {None}]
    /\ tries \in 0..Retries /\ loads \in 0..MaxLoads
    /\ lock \in {"free", "me", "old"}

(* Commands that run, and what the page still means to do.                 *)
ShellAtRest ==
    /\ \A k \in Calls : con[k].pc \in {"unused", "done"}
    /\ \A d \in Commands : dis[d].pc \in {"unused", "done"}
PageAtRest ==
    /\ check.pc = "none" /\ tries = 0 /\ join = "none" /\ down = None
    /\ \A k \in Calls : tr[k].pc \in {"none", "live", "done", "gone"}

(* No room is open that nothing will close: it is the session's, or its    *)
(* connect is still to store or close it, or a disconnect has taken it.    *)
NoRoomIsLost ==
    \A k \in Calls : room[k] = "open" =>
        \/ session = k
        \/ con[k].pc \in {"open", "refuse"}
        \/ \E d \in Commands : dis[d].pc = "closing" /\ dis[d].room = k

(* The call the shell holds is the page's, and the page can hang it up.    *)
Held == cur = session /\ tr[cur].pc = "live" /\ ~tr[cur].closed /\ lock = "me"

(* When nothing is under way, no call runs that the page does not hold,    *)
(* but for a check that gave up or could not have the lock, which leaves   *)
(* it to the next; and a page that shows a call has it.                    *)
PageAndShellAgree ==
    ShellAtRest /\ PageAtRest =>
        /\ session # None => Held \/ missed
        /\ cur # None => session = cur

(* A disconnect closes the call it was sent for.                           *)
ClosesItsOwn ==
    [][\A d \in Commands : dis[d].pc = "sent" /\ dis'[d].pc = "closing" => dis[d].for = session \/ missed]_vars

(* A check adopts a call of the page before, never this page's own.        *)
AdoptsStrangers == [][(check.pc = "adopt" => tr[check.found].pc \in {"none", "gone"})']_vars

(* Whatever is interrupted by a reload or a hang-up, a call that reaches   *)
(* the shell is closed, or held by a page.                                 *)
FoundOrClosed == session # None ~> (session = None \/ Held \/ missed)
=============================================================================
