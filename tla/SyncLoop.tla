------------------------------ MODULE SyncLoop ------------------------------
(***************************************************************************)
(* When the sync loop of a leading tab runs and when it sleeps             *)
(* (client/src/sync/engine.ts: poke, #runLoop, #runLoopBody,               *)
(* #waitForNextTick), and the socket that is allowed to slow it down       *)
(* (client/src/sync/socket.ts).                                            *)
(*                                                                         *)
(* The socket carries no payload: whatever it says makes one poke, and a   *)
(* healthy one turns the two-second poll into one of thirty seconds.  So   *)
(* everything depends on no poke being dropped, and on the socket not      *)
(* being thought healthy, or given up, for longer than it is.              *)
(*                                                                         *)
(* Abstracted: what a pass does with what it finds (Inbox, Outbox,         *)
(* MlsGroup) to three kinds of news it must not sleep on; who leads to     *)
(* Lead and Abort (Leader); intervals to a wait that is long or short.     *)
(***************************************************************************)
EXTENDS Naturals, FiniteSets

CONSTANTS
    Sock,     \* sockets alive at once, the ones being closed included
    MaxNews,  \* how much news arrives
    None

ASSUME SyncAssumption == None \notin Sock /\ MaxNews \in Nat

(* A message in the outbox, an envelope in the inbox, a message of a       *)
(* readable channel.                                                       *)
News == {"out", "mail", "post"}

VARIABLES
    loop,        \* where #runLoopBody is: a phase of a pass, or a wait
    aborted,     \* the signal of this run
    long,        \* is the wait the thirty seconds of a healthy socket?
    pokePending, \* #pokePending
    publicWake,  \* #publicWake
    owed,        \* ghost: a poke since the last pass began
    news,        \* per kind: none, untold, told (this page was poked for it) or taken by the pass
    arrived,     \* news so far
    token,       \* is there a session?
    m            \* the SocketManager: its fields, and its sockets

vars == <<loop, aborted, long, pokePending, publicWake, owed, news, arrived, token, m>>

Passing == {"members", "flush", "drain", "sweep", "rest"}
Waiting == {"tick", "backoff"}

NoManager == [sock |-> None, conn |-> [k \in Sock |-> "none"], healthy |-> FALSE, stopped |-> TRUE, timer |-> FALSE]

Init ==
    /\ loop = "off"
    /\ aborted = FALSE
    /\ long = FALSE
    /\ pokePending = FALSE
    /\ publicWake = FALSE
    /\ owed = FALSE
    /\ news = [i \in News |-> "none"]
    /\ arrived = 0
    /\ token = TRUE
    /\ m = NoManager

-----------------------------------------------------------------------------
(* The SocketManager: what each of its methods may make of it.             *)

Free(s) == {k \in Sock : s.conn[k] = "none"}

Dialed(s, k) == [s EXCEPT !.sock = k, !.conn[k] = "dialing"]

(* #scheduleReconnect: one timer at a time, none once stopped.             *)
Rescheduled(s) == IF s.stopped THEN s ELSE [s EXCEPT !.timer = TRUE]

(* #connect: nothing without a token; a socket, or a constructor that      *)
(* throws and is tried again.                                              *)
Connects(s, hasToken) ==
    IF s.stopped \/ ~hasToken THEN {s}
    ELSE {Rescheduled(s)} \cup {Dialed(s, k) : k \in Free(s)}

(* The socket in hand is dropped, and closed.                              *)
Dropped(s) ==
    IF s.sock = None THEN s
    ELSE [s EXCEPT !.sock = None, !.conn[s.sock] = "closing"]

(* stop()                                                                  *)
Stopped(s) == [Dropped(s) EXCEPT !.stopped = TRUE, !.timer = FALSE, !.healthy = FALSE]

(* reconnectNow: nothing for a socket that is stopped or healthy; one      *)
(* still in its handshake is replaced, and closed.                         *)
\* Mutant: the socket in its handshake is left open
ReconnectsLeavingOne(s, hasToken) ==
    IF s.stopped \/ s.healthy THEN {s} ELSE Connects([s EXCEPT !.timer = FALSE, !.sock = None], hasToken)
Reconnects(s, hasToken) ==
    IF s.stopped \/ s.healthy THEN {s} ELSE Connects([Dropped(s) EXCEPT !.timer = FALSE], hasToken)

-----------------------------------------------------------------------------
(* What a phase of a pass does with the news: it reads what there is when  *)
(* it begins, and what arrives after that is for the next pass.            *)
Taken(n, i) == [n EXCEPT ![i] = IF @ \in {"told", "untold"} THEN "taken" ELSE @]
Handled(n, i) == [n EXCEPT ![i] = IF @ = "taken" THEN "none" ELSE @]
LeftAlone(n) == [i \in News |-> IF n[i] = "taken" THEN "untold" ELSE n[i]]

(* What the page has heard of by a frame of the socket.                    *)
Heard(n) == [i \in News |-> IF i # "out" /\ n[i] = "untold" THEN "told" ELSE n[i]]

Begin == loop' = "members" /\ owed' = FALSE

(* poke(): a wait that is armed is woken, and a pass begins; otherwise the *)
(* poke is kept for the next wait.                                         *)
\* Mutant: a poke that finds no wait is dropped
PokeUnlatched ==
    IF loop \in Waiting
    THEN Begin /\ UNCHANGED pokePending
    ELSE /\ owed' = TRUE
         /\ UNCHANGED <<loop, pokePending>>
Poke ==
    IF loop \in Waiting
    THEN Begin /\ UNCHANGED pokePending
    ELSE /\ owed' = TRUE /\ pokePending' = TRUE
         /\ UNCHANGED loop

(* notify: every wake owes the readable channels a sweep too.              *)
Notify == publicWake' = TRUE /\ Poke

-----------------------------------------------------------------------------
(* start(): a session begins.  Its clocks and latches are set back, and    *)
(* nothing has been heard in it.                                           *)
SignIn ==
    /\ ~token /\ loop = "off"
    /\ token' = TRUE
    /\ pokePending' = FALSE /\ publicWake' = FALSE /\ owed' = FALSE
    /\ news' = [i \in News |-> IF news[i] = "told" THEN "untold" ELSE news[i]]
    /\ UNCHANGED <<loop, aborted, long, arrived, m>>

(* The tab gets the lock: #runLoop opens a socket of its own.              *)
Lead ==
    /\ loop = "off" /\ token
    /\ loop' = "opening"
    /\ aborted' = FALSE
    /\ m' \in Connects([m EXCEPT !.stopped = FALSE], token)
    /\ UNCHANGED <<long, pokePending, publicWake, owed, news, arrived, token>>

(* The way out of #runLoop, whatever led there: the socket goes with it.   *)
Ends ==
    /\ loop' = "off"
    /\ m' = Stopped(m)
    /\ news' = LeftAlone(news)
    /\ UNCHANGED <<long, pokePending, publicWake, owed, arrived>>

(* Leadership is lost, or the engine stopped: a wait ends at once, a pass  *)
(* at its next check.                                                      *)
Abort ==
    /\ loop # "off" /\ ~aborted
    /\ aborted' = TRUE
    /\ IF loop \in Waiting \cup {"sleep"} THEN Ends
       ELSE UNCHANGED <<loop, long, pokePending, publicWake, owed, news, arrived, m>>
    /\ UNCHANGED token

Aborted == loop # "off" /\ aborted /\ Ends /\ UNCHANGED <<aborted, token>>

(* A 401: the loop ends, and signs the page out.                           *)
Unauthorized ==
    /\ loop \in Passing \cup {"opening"} /\ ~aborted
    /\ Ends
    /\ token' = FALSE
    /\ UNCHANGED aborted

-----------------------------------------------------------------------------
(* A pass, one phase after another.                                        *)
(* The keys and the walk of the archive, which may fail, and then a pass.  *)
Opened ==
    /\ loop = "opening" /\ ~aborted
    /\ Begin
    /\ UNCHANGED <<aborted, long, pokePending, publicWake, news, arrived, token, m>>

Phase(from, to, n) ==
    /\ loop = from /\ ~aborted
    /\ loop' = to /\ news' = n
    /\ UNCHANGED <<aborted, long, pokePending, owed, arrived, token, m>>

(* #refreshConversations, the groups and the keys are up to date.          *)
Prepared == Phase("members", "flush", Taken(news, "out")) /\ UNCHANGED publicWake
Flushed == Phase("flush", "drain", Taken(Handled(news, "out"), "mail")) /\ UNCHANGED publicWake

(* #publicChannelSync: all channels after a wake or ten seconds.  The wake *)
(* is spent before the requests.                                           *)
\* Mutant: only a wake makes it due
DrainedOnWake(due) ==
    /\ due = publicWake
    /\ Phase("drain", "sweep", IF due THEN Taken(Handled(news, "mail"), "post") ELSE Handled(news, "mail"))
    /\ publicWake' = FALSE
Drained(due) ==
    /\ publicWake => due
    /\ Phase("drain", "sweep", IF due THEN Taken(Handled(news, "mail"), "post") ELSE Handled(news, "mail"))
    /\ publicWake' = (publicWake /\ ~due)
(* A channel that fails is logged, and left for the next full sweep.       *)
Swept(ok) ==
    Phase("sweep", "rest", IF ok THEN Handled(news, "post") ELSE LeftAlone(news)) /\ UNCHANGED publicWake

(* #waitForNextTick: a poke kept from the pass is a pass at once.          *)
Wait(w) ==
    IF pokePending
    THEN pokePending' = FALSE /\ Begin
    ELSE loop' = w /\ UNCHANGED <<pokePending, owed>>

Rested ==
    /\ loop = "rest" /\ ~aborted
    /\ Wait("tick")
    /\ long' = m.healthy
    /\ UNCHANGED <<aborted, publicWake, news, arrived, token, m>>

(* A phase fails: the wait is the back-off, which a poke cuts short.       *)
Fails ==
    /\ loop \in Passing /\ ~aborted
    /\ Wait("backoff")
    /\ news' = LeftAlone(news)
    /\ UNCHANGED <<aborted, long, publicWake, arrived, token, m>>

(* The server said how long to stay away.                                  *)
ToldToWait ==
    /\ loop \in Passing /\ ~aborted
    /\ loop' = "sleep"
    /\ news' = LeftAlone(news)
    /\ UNCHANGED <<aborted, long, pokePending, publicWake, owed, arrived, token, m>>

Tick ==
    /\ loop \in Waiting \cup {"sleep"} /\ ~aborted
    /\ Begin
    /\ UNCHANGED <<aborted, long, pokePending, publicWake, news, arrived, token, m>>

-----------------------------------------------------------------------------
(* News.  An envelope or a post is on the server until a frame or a pass   *)
(* tells; a message another tab of the profile composes pokes the engine   *)
(* of that tab, and one composed here this one (enqueue, retry).           *)
Arrives(i, how) ==
    /\ arrived < MaxNews
    /\ news[i] \in {"none", "taken"}
    /\ arrived' = arrived + 1
    /\ news' = [news EXCEPT ![i] = how]

Posted(i) ==
    /\ Arrives(i, "untold")
    /\ UNCHANGED <<loop, aborted, long, pokePending, publicWake, owed, token, m>>

Enqueue ==
    /\ Arrives("out", "told")
    /\ Poke
    /\ UNCHANGED <<aborted, long, publicWake, token, m>>

(* online, or the page is looked at again (#reviveNow).                    *)
Revive ==
    /\ m' \in Reconnects(m, token)
    /\ Poke
    /\ UNCHANGED <<aborted, long, publicWake, news, arrived, token>>

-----------------------------------------------------------------------------
(* The sockets.  One that is not the manager's any more is inert.          *)
Inert(k) == m.sock # k

(* The handshake ends in ready: the socket is healthy, and what was sent   *)
(* while it was down is fetched.                                           *)
Ready(k) ==
    /\ m.conn[k] = "dialing"
    /\ m' = [m EXCEPT !.conn[k] = "ready", !.healthy = IF Inert(k) THEN @ ELSE TRUE]
    /\ IF Inert(k) THEN UNCHANGED <<loop, pokePending, publicWake, owed, news>>
       ELSE Notify /\ news' = Heard(news)
    /\ UNCHANGED <<aborted, long, arrived, token>>

Wake ==
    /\ m.sock # None /\ m.conn[m.sock] = "ready"
    /\ Heard(news) # news
    /\ news' = Heard(news)
    /\ Notify
    /\ UNCHANGED <<aborted, long, arrived, token, m>>

(* The network under a socket is gone, and nobody has noticed.             *)
HalfOpen(k) ==
    /\ m.conn[k] = "ready"
    /\ m' = [m EXCEPT !.conn[k] = "silent"]
    /\ UNCHANGED <<loop, aborted, long, pokePending, publicWake, owed, news, arrived, token>>

(* Nothing heard for STALE_MS, where a ping is due every thirty seconds.   *)
\* Mutant: the check gives the socket up without closing it
StaleDropped ==
    /\ m.healthy /\ m.sock # None /\ m.conn[m.sock] = "silent"
    /\ m' = [Dropped(m) EXCEPT !.healthy = FALSE]
    /\ UNCHANGED <<loop, aborted, long, pokePending, publicWake, owed, news, arrived, token>>
Stale ==
    /\ m.healthy /\ m.sock # None /\ m.conn[m.sock] = "silent"
    /\ m' = [m EXCEPT !.conn[m.sock] = "closing"]
    /\ UNCHANGED <<loop, aborted, long, pokePending, publicWake, owed, news, arrived, token>>

(* The close event.  4401 and 4403 are final; otherwise a socket that was  *)
(* healthy says so, for the long wait is not justified any more.           *)
Closed(k, final) ==
    /\ m.conn[k] \in {"dialing", "ready", "closing"}
    /\ LET s == [m EXCEPT !.conn[k] = "none"] IN
       IF Inert(k) THEN m' = s
       ELSE m' = IF final THEN Stopped([s EXCEPT !.sock = None])
                 ELSE Rescheduled([s EXCEPT !.sock = None, !.healthy = FALSE])
    /\ IF ~Inert(k) /\ m.healthy /\ ~final THEN Notify
       ELSE UNCHANGED <<loop, pokePending, publicWake, owed>>
    /\ UNCHANGED <<aborted, long, news, arrived, token>>

ReconnectTimer ==
    /\ m.timer
    /\ m' \in Connects([m EXCEPT !.timer = FALSE], token)
    /\ UNCHANGED <<loop, aborted, long, pokePending, publicWake, owed, news, arrived, token>>

-----------------------------------------------------------------------------
Next ==
    \/ SignIn \/ Lead \/ Abort \/ Aborted \/ Unauthorized
    \/ Opened \/ Prepared \/ Flushed \/ Rested \/ Fails \/ ToldToWait \/ Tick
    \/ \E b \in BOOLEAN : Drained(b) \/ Swept(b)
    \/ Enqueue \/ Revive \/ (\E i \in News : Posted(i))
    \/ Wake \/ Stale \/ ReconnectTimer
    \/ \E k \in Sock : Ready(k) \/ HalfOpen(k) \/ \E final \in BOOLEAN : Closed(k, final)

Spec == Init /\ [][Next]_vars

(* Timers fire, requests settle one way or the other, and a request that   *)
(* is tried again and again succeeds in the end; a closing socket closes,  *)
(* one that dials gets an answer, and a server that is asked again and     *)
(* again accepts.                                                          *)
Settles == Opened \/ Fails \/ (\E b \in BOOLEAN : Swept(b)) \/ Tick \/ Aborted

Fairness ==
    /\ WF_vars(Settles)
    /\ SF_vars(Prepared) /\ SF_vars(Flushed) /\ SF_vars(Rested)
    /\ SF_vars(Drained(TRUE)) /\ SF_vars(Swept(TRUE) /\ news["post"] = "taken")
    /\ WF_vars(Stale) /\ WF_vars(ReconnectTimer)
    /\ \A k \in Sock : WF_vars(\E final \in BOOLEAN : Closed(k, final) /\ m.conn[k] = "closing")
    /\ SF_vars(\E k \in Sock : ~Inert(k) /\ Ready(k))

LiveSpec == Spec /\ Fairness

-----------------------------------------------------------------------------
TypeOK ==
    /\ loop \in {"off", "opening", "sleep"} \cup Passing \cup Waiting
    /\ {aborted, long, pokePending, publicWake, owed, token} \subseteq BOOLEAN
    /\ news \in [News -> {"none", "untold", "told", "taken"}]
    /\ arrived \in 0..MaxNews
    /\ m \in [sock : Sock \cup {None}, conn : [Sock -> {"none", "dialing", "ready", "silent", "closing"}],
              healthy : BOOLEAN, stopped : BOOLEAN, timer : BOOLEAN]

(* "Never lost": the loop waits only when every poke has had a pass that   *)
(* began after it and everything it was told of is dealt with, a wake in   *)
(* the middle of a pass included; and it waits the thirty seconds only     *)
(* while the socket is healthy, or has been turned away for good.          *)
NothingIsSlept ==
    /\ loop \in Waiting => ~owed
    /\ loop = "tick" => \A i \in News : news[i] # "told"
    /\ loop = "tick" /\ long => m.healthy \/ m.stopped

(* One socket, the manager's, and none when no loop runs; and no manager   *)
(* that is neither stopped nor connecting.                                 *)
OneSocket ==
    /\ \A k \in Sock : m.conn[k] \in {"dialing", "ready", "silent"} => m.sock = k
    /\ loop = "off" => m.sock = None /\ ~m.timer
    /\ ~m.stopped => m.sock # None \/ m.timer
    /\ m.healthy => m.sock # None /\ m.conn[m.sock] # "dialing"

(* Whatever the socket does, what is posted or composed, in any tab, is    *)
(* dealt with while a loop runs.                                           *)
Delivered == \A i \in News : news[i] # "none" ~> (news[i] = "none" \/ loop = "off")

(* A connection is made again in the end, a half-open one included.        *)
ConnectsAgain == loop # "off" ~> (loop = "off" \/ m.stopped \/ (m.sock # None /\ m.conn[m.sock] = "ready"))

(* enqueue: "Queues a message and tries to send it immediately"; "Any tab  *)
(* may call this".                                                         *)
SentAtOnce == news["out"] # "none" => ~(loop = "tick" /\ long)
=============================================================================
