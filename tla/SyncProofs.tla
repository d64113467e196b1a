----------------------------- MODULE SyncProofs ------------------------------
(***************************************************************************)
(* Proofs about the two loops that must not forget anything: SyncLoop, for *)
(* any sockets and any amount of news, and ShellCall, for any calls,       *)
(* commands, reloads and retries.                                          *)
(***************************************************************************)
EXTENDS MCSync, TLAPS

USE SyncAssumption DEF SyncAssumption

-----------------------------------------------------------------------------
(* SyncLoop: the strengthening, first of the manager of the sockets.       *)

(***************************************************************************)
(* A manager that is stopped keeps nothing, and one that is not has either *)
(* a socket or the timer of the next.                                      *)
(***************************************************************************)
Manager ==
    [sock : Sock \cup {None}, conn : [Sock -> {"none", "dialing", "ready", "silent", "closing"}],
     healthy : BOOLEAN, stopped : BOOLEAN, timer : BOOLEAN]

ManagerInv(s) ==
    /\ s \in Manager
    /\ \A k \in Sock : s.conn[k] \in {"dialing", "ready", "silent"} => s.sock = k
    /\ s.stopped => s.sock = None /\ ~s.timer
    /\ ~s.stopped => (s.timer <=> s.sock = None)
    /\ s.healthy => s.sock # None /\ s.conn[s.sock] # "dialing"

(***************************************************************************)
(* The latch.  A poke the pass did not begin after is kept; news that was  *)
(* told and is not taken yet is in front of a phase that takes it, or has  *)
(* its poke kept; and a post that was told has its sweep due.              *)
(***************************************************************************)
Kept(i, past) == news[i] = "told" /\ loop \in past => pokePending /\ loop # "tick"

LatchInv ==
    /\ owed => pokePending
    /\ loop \in Waiting => ~owed
    /\ Kept("out", {"flush", "drain", "sweep", "rest", "tick"})
    /\ Kept("mail", {"drain", "sweep", "rest", "tick"})
    /\ Kept("post", {"sweep", "rest", "tick"})
    /\ news["post"] = "told" => publicWake

LoopTypes ==
    /\ loop \in {"off", "opening", "sleep"} \cup Passing \cup Waiting
    /\ aborted \in BOOLEAN /\ long \in BOOLEAN /\ token \in BOOLEAN
    /\ pokePending \in BOOLEAN /\ publicWake \in BOOLEAN /\ owed \in BOOLEAN
    /\ news \in [News -> {"none", "untold", "told", "taken"}]
    /\ arrived \in 0..MaxNews

LoopInv ==
    /\ LoopTypes /\ ManagerInv(m) /\ LatchInv
    /\ loop = "off" => m.stopped
    /\ ~m.stopped => token
    /\ loop = "tick" /\ long => m.healthy \/ m.stopped

-----------------------------------------------------------------------------
(* The manager's methods.  What #connect is given has no socket and no     *)
(* timer; what it makes of it has one of the two, or is as it was.         *)

LEMMA ConnectsKeeps ==
    ASSUME NEW s \in Manager, NEW r \in Connects(s, TRUE),
           \A k \in Sock : s.conn[k] \notin {"dialing", "ready", "silent"},
           s.sock = None, ~s.timer, ~s.healthy
    PROVE  ManagerInv(r) /\ r.stopped = s.stopped /\ r.healthy = FALSE
<1>1. CASE s.stopped
  BY <1>1 DEF Connects, ManagerInv, Manager
<1>2. CASE ~s.stopped /\ r = Rescheduled(s)
  BY <1>2 DEF Rescheduled, ManagerInv, Manager
<1>3. ASSUME ~s.stopped, NEW k \in Free(s), r = Dialed(s, k)
      PROVE  ManagerInv(r) /\ r.stopped = s.stopped /\ r.healthy = FALSE
  <2>1. k \in Sock BY DEF Free
  <2> QED BY <1>3, <2>1 DEF Dialed, ManagerInv, Manager
<1> QED BY <1>1, <1>2, <1>3 DEF Connects

LEMMA DroppedSock ==
    ASSUME NEW s, ManagerInv(s)
    PROVE  /\ Dropped(s) \in Manager /\ Dropped(s).sock = None
           /\ \A k \in Sock : Dropped(s).conn[k] \notin {"dialing", "ready", "silent"}
           /\ Dropped(s).stopped = s.stopped
  BY DEF ManagerInv, Manager, Dropped

LEMMA StoppedKeeps ==
    ASSUME NEW s, ManagerInv(s)
    PROVE  ManagerInv(Stopped(s)) /\ Stopped(s).stopped
  BY DroppedSock DEF Stopped, ManagerInv, Manager

LEMMA ReconnectsKeeps ==
    ASSUME NEW s, ManagerInv(s), NEW has \in BOOLEAN, ~s.stopped => has, NEW r \in Reconnects(s, has)
    PROVE  ManagerInv(r) /\ r.stopped = s.stopped /\ r.healthy = s.healthy
<1>1. CASE s.stopped \/ s.healthy
  BY <1>1 DEF Reconnects
<1>2. CASE ~s.stopped /\ ~s.healthy
  <2> DEFINE q == [Dropped(s) EXCEPT !.timer = FALSE]
  <2>1. /\ q \in Manager /\ q.sock = None /\ ~q.timer /\ ~q.healthy /\ ~q.stopped
        /\ \A k \in Sock : q.conn[k] \notin {"dialing", "ready", "silent"}
    BY <1>2, DroppedSock DEF ManagerInv, Manager, Dropped
  <2>2. r \in Connects(q, TRUE) BY <1>2 DEF Reconnects
  <2>3. s.stopped = q.stopped /\ s.healthy = FALSE BY <1>2, DroppedSock DEF ManagerInv, Manager, Dropped
  <2> HIDE DEF q
  <2> QED BY <2>1, <2>2, <2>3, ConnectsKeeps
<1> QED BY <1>1, <1>2 DEF ManagerInv, Manager

-----------------------------------------------------------------------------
(* What every step of the loop keeps. *)

LEMMA InitKeeps ==
    ASSUME Init
    PROVE  LoopInv
<1>1. ManagerInv(m) /\ m.stopped BY DEF Init, ManagerInv, Manager, NoManager
<1>2. LoopTypes
  <2>1. arrived \in 0..MaxNews BY DEF Init
  <2>2. news \in [News -> {"none", "untold", "told", "taken"}] BY DEF Init
  <2>3. aborted \in BOOLEAN /\ long \in BOOLEAN /\ token \in BOOLEAN BY DEF Init
  <2>4. pokePending \in BOOLEAN /\ publicWake \in BOOLEAN /\ owed \in BOOLEAN BY DEF Init
  <2>5. loop \in {"off", "opening", "sleep"} \cup Passing \cup Waiting BY DEF Init
  <2> QED BY <2>1, <2>2, <2>3, <2>4, <2>5 DEF LoopTypes
<1>3. LatchInv BY DEF Init, LatchInv, Kept, Waiting, News
<1> QED BY <1>1, <1>2, <1>3 DEF Init, LoopInv

\* The way out stops the manager, and leaves the latch alone.
LEMMA EndsKeeps ==
    ASSUME LoopInv, Ends, aborted' \in BOOLEAN, token' \in BOOLEAN
    PROVE  LoopInv'
<1>1. ManagerInv(m)' /\ m'.stopped BY StoppedKeeps DEF LoopInv, Ends
<1>2. LoopTypes' BY DEF LoopInv, LoopTypes, Ends, LeftAlone
<1>3. LatchInv' BY DEF LoopInv, LoopTypes, LatchInv, Kept, Kept, Ends, LeftAlone, News, Waiting
<1> QED BY <1>1, <1>2, <1>3 DEF LoopInv, Ends

LEMMA SignInKeeps ==
    ASSUME LoopInv, SignIn
    PROVE  LoopInv'
<1>1. LoopTypes'
  <2>1. owed' \in BOOLEAN /\ pokePending' \in BOOLEAN /\ publicWake' \in BOOLEAN BY DEF LoopInv, LoopTypes, SignIn
  <2> QED BY <2>1 DEF LoopInv, LoopTypes, SignIn, News, Waiting, Passing
<1>2. LatchInv' BY DEF LoopInv, LoopTypes, LatchInv, Kept, SignIn, News, Waiting
<1> QED BY <1>1, <1>2 DEF LoopInv, SignIn, Waiting

LEMMA LeadKeeps ==
    ASSUME LoopInv, Lead
    PROVE  LoopInv'
<1> DEFINE s == [m EXCEPT !.stopped = FALSE]
<1>1. /\ s \in Manager /\ s.sock = None /\ ~s.timer /\ ~s.healthy /\ ~s.stopped
      /\ \A k \in Sock : s.conn[k] \notin {"dialing", "ready", "silent"}
  BY DEF LoopInv, ManagerInv, Manager, Lead
<1>2. m' \in Connects(s, TRUE) BY DEF LoopInv, LoopTypes, Lead
<1> HIDE DEF s
<1>3. ManagerInv(m)' /\ ~m'.stopped BY <1>1, <1>2, ConnectsKeeps
<1> QED BY <1>3 DEF LoopInv, LoopTypes, LatchInv, Kept, Lead, News, Waiting, Passing

LEMMA AbortKeeps ==
    ASSUME LoopInv, Abort
    PROVE  LoopInv'
<1>1. CASE loop \in Waiting \cup {"sleep"}
  <2>1. Ends /\ aborted' \in BOOLEAN /\ token' \in BOOLEAN BY <1>1 DEF Abort, LoopInv, LoopTypes
  <2> QED BY <2>1, EndsKeeps
<1>2. CASE loop \notin Waiting \cup {"sleep"}
  BY <1>2 DEF Abort, LoopInv, LoopTypes, LatchInv, Kept
<1> QED BY <1>1, <1>2

LEMMA AbortedKeeps == LoopInv /\ Aborted => LoopInv'
  BY EndsKeeps DEF Aborted, LoopInv, LoopTypes

LEMMA UnauthorizedKeeps == LoopInv /\ Unauthorized => LoopInv'
  BY EndsKeeps DEF Unauthorized, LoopInv, LoopTypes

-----------------------------------------------------------------------------
(* A pass, and the wait after it. *)

LEMMA OpenedKeeps ==
    ASSUME LoopInv, Opened
    PROVE  LoopInv'
<1>1. LoopTypes'
  <2>1. owed' \in BOOLEAN /\ pokePending' \in BOOLEAN /\ publicWake' \in BOOLEAN BY DEF LoopInv, LoopTypes, Opened, Begin
  <2> QED BY <2>1 DEF LoopInv, LoopTypes, Opened, Begin, News, Waiting, Passing
<1>2. LatchInv' BY DEF LoopInv, LoopTypes, LatchInv, Kept, Opened, Begin, News, Waiting
<1> QED BY <1>1, <1>2 DEF LoopInv, Opened, Begin, Waiting

LEMMA TickKeeps ==
    ASSUME LoopInv, Tick
    PROVE  LoopInv'
<1>1. LoopTypes'
  <2>1. owed' \in BOOLEAN /\ pokePending' \in BOOLEAN /\ publicWake' \in BOOLEAN BY DEF LoopInv, LoopTypes, Tick, Begin
  <2> QED BY <2>1 DEF LoopInv, LoopTypes, Tick, Begin, News, Waiting, Passing
<1>2. LatchInv' BY DEF LoopInv, LoopTypes, LatchInv, Kept, Tick, Begin, News, Waiting
<1> QED BY <1>1, <1>2 DEF LoopInv, Tick, Begin, Waiting

LEMMA PreparedKeeps == LoopInv /\ Prepared => LoopInv'
  BY DEF LoopInv, LoopTypes, LatchInv, Kept, Prepared, Phase, Taken, News, Waiting, Passing

LEMMA FlushedKeeps == LoopInv /\ Flushed => LoopInv'
  BY DEF LoopInv, LoopTypes, LatchInv, Kept, Flushed, Phase, Taken, Handled, News, Waiting, Passing

LEMMA DrainedKeeps ==
    ASSUME LoopInv, NEW due \in BOOLEAN, Drained(due)
    PROVE  LoopInv'
  BY DEF LoopInv, LoopTypes, LatchInv, Kept, Drained, Phase, Taken, Handled, News, Waiting, Passing

LEMMA SweptKeeps ==
    ASSUME LoopInv, NEW ok \in BOOLEAN, Swept(ok)
    PROVE  LoopInv'
  BY DEF LoopInv, LoopTypes, LatchInv, Kept, Swept, Phase, LeftAlone, Handled, News, Waiting, Passing

LEMMA RestedKeeps ==
    ASSUME LoopInv, Rested
    PROVE  LoopInv'
<1>1. LoopTypes'
  <2>1. owed' \in BOOLEAN /\ pokePending' \in BOOLEAN /\ publicWake' \in BOOLEAN BY DEF LoopInv, LoopTypes, Rested, Wait, Begin
  <2> QED BY <2>1 DEF LoopInv, LoopTypes, ManagerInv, Manager, Rested, Wait, Begin, News, Waiting, Passing
<1>2. LatchInv' BY DEF LoopInv, LoopTypes, LatchInv, Kept, Rested, Wait, Begin, News, Waiting
<1> QED BY <1>1, <1>2 DEF LoopInv, Rested, Wait, Begin, Waiting, LoopTypes, ManagerInv, Manager

LEMMA FailsKeeps ==
    ASSUME LoopInv, Fails
    PROVE  LoopInv'
<1>1. LoopTypes'
  <2>1. owed' \in BOOLEAN /\ pokePending' \in BOOLEAN /\ publicWake' \in BOOLEAN BY DEF LoopInv, LoopTypes, Fails, Wait, Begin, LeftAlone
  <2> QED BY <2>1 DEF LoopInv, LoopTypes, Fails, Wait, Begin, LeftAlone, News, Waiting, Passing
<1>2. LatchInv' BY DEF LoopInv, LoopTypes, LatchInv, Kept, Fails, Wait, Begin, LeftAlone, News, Waiting
<1> QED BY <1>1, <1>2 DEF LoopInv, Fails, Wait, Begin, LeftAlone, Waiting

LEMMA ToldToWaitKeeps == LoopInv /\ ToldToWait => LoopInv'
  BY DEF LoopInv, LoopTypes, LatchInv, Kept, ToldToWait, LeftAlone, News, Waiting, Passing

-----------------------------------------------------------------------------
(* News, and the sockets that tell of it. *)

LEMMA PostedKeeps ==
    ASSUME LoopInv, NEW i \in News, Posted(i)
    PROVE  LoopInv'
  BY DEF LoopInv, LoopTypes, LatchInv, Kept, Posted, Arrives

LEMMA EnqueueKeeps ==
    ASSUME LoopInv, Enqueue
    PROVE  LoopInv'
<1>1. LoopTypes'
  <2>1. owed' \in BOOLEAN /\ pokePending' \in BOOLEAN /\ publicWake' \in BOOLEAN BY DEF LoopInv, LoopTypes, Enqueue, Arrives, Poke, Begin
  <2> QED BY <2>1 DEF LoopInv, LoopTypes, Enqueue, Arrives, Poke, Begin, News, Waiting, Passing
<1>2. LatchInv' BY DEF LoopInv, LoopTypes, LatchInv, Kept, Enqueue, Arrives, Poke, Begin, News, Waiting
<1> QED BY <1>1, <1>2 DEF LoopInv, Enqueue, Arrives, Poke, Begin, Waiting

LEMMA ReviveKeeps ==
    ASSUME LoopInv, Revive
    PROVE  LoopInv'
<1>1. ManagerInv(m)' /\ m'.stopped = m.stopped /\ m'.healthy = m.healthy
  BY ReconnectsKeeps DEF LoopInv, LoopTypes, Revive
<1> QED BY <1>1 DEF LoopInv, LoopTypes, LatchInv, Kept, Revive, Poke, Begin, News, Waiting, Passing

LEMMA WakeKeeps ==
    ASSUME LoopInv, Wake
    PROVE  LoopInv'
<1>1. LoopTypes'
  <2>1. owed' \in BOOLEAN /\ pokePending' \in BOOLEAN /\ publicWake' \in BOOLEAN BY DEF LoopInv, LoopTypes, Wake, Notify, Poke, Begin, Heard
  <2> QED BY <2>1 DEF LoopInv, LoopTypes, Wake, Notify, Poke, Begin, Heard, News, Waiting, Passing
<1>2. LatchInv' BY DEF LoopInv, LoopTypes, LatchInv, Kept, Wake, Notify, Poke, Begin, Heard, News, Waiting
<1> QED BY <1>1, <1>2 DEF LoopInv, Wake, Notify, Poke, Begin, Heard, Waiting

LEMMA ReadyKeeps ==
    ASSUME LoopInv, NEW k \in Sock, Ready(k)
    PROVE  LoopInv'
<1>1. ManagerInv(m)' /\ m'.stopped = m.stopped /\ (Inert(k) => m'.healthy = m.healthy)
  BY DEF LoopInv, ManagerInv, Manager, Ready, Inert
<1>2. CASE Inert(k)
  BY <1>1, <1>2 DEF LoopInv, LoopTypes, LatchInv, Kept, Ready
<1>3. CASE ~Inert(k)
  <2>1. LoopTypes'
    <3>1. LoopTypes /\ loop' \in {loop, "members"} BY <1>3 DEF LoopInv, Ready, Notify, Poke, Begin, Waiting
    <3>2. news' \in [News -> {"none", "untold", "told", "taken"}]
      BY <1>3 DEF LoopInv, LoopTypes, Ready, Notify, Heard, News
    <3> QED BY <1>3, <3>1, <3>2 DEF LoopTypes, Ready, Notify, Poke, Begin, Waiting, Passing
  <2>2. LatchInv'
    BY <1>1, <1>3 DEF LoopInv, LoopTypes, LatchInv, Kept, Ready, Notify, Poke, Begin, Heard, News, Waiting, Passing
  <2> QED BY <1>1, <1>3, <2>1, <2>2 DEF LoopInv, LoopTypes, Ready, Notify, Poke, Begin, Heard, Waiting, Passing
<1> QED BY <1>2, <1>3

LEMMA HalfOpenKeeps ==
    ASSUME LoopInv, NEW k \in Sock, HalfOpen(k)
    PROVE  LoopInv'
<1>1. ManagerInv(m)' /\ m'.stopped = m.stopped /\ m'.healthy = m.healthy
  BY DEF LoopInv, ManagerInv, Manager, HalfOpen
<1> QED BY <1>1 DEF LoopInv, LoopTypes, LatchInv, Kept, HalfOpen

LEMMA StaleKeeps == 
    ASSUME LoopInv, Stale
    PROVE  LoopInv'
<1>1. ManagerInv(m)' /\ m'.stopped = m.stopped /\ m'.healthy = m.healthy
  BY DEF LoopInv, ManagerInv, Manager, Stale
<1> QED BY <1>1 DEF LoopInv, LoopTypes, LatchInv, Kept, Stale

LEMMA ClosedKeeps ==
    ASSUME LoopInv, NEW k \in Sock, NEW final \in BOOLEAN, Closed(k, final)
    PROVE  LoopInv'
<1> DEFINE s == [m EXCEPT !.conn[k] = "none"]
<1>1. CASE Inert(k)
  <2>1. m' = s /\ UNCHANGED <<loop, pokePending, publicWake, owed>> BY <1>1 DEF Closed
  <2>2. ManagerInv(m)' /\ m'.stopped = m.stopped /\ m'.healthy = m.healthy
    BY <1>1, <2>1 DEF LoopInv, ManagerInv, Manager, Inert
  <2> QED BY <2>1, <2>2 DEF LoopInv, LoopTypes, LatchInv, Kept, Closed
<1>2. CASE ~Inert(k) /\ final
  <2>1. m' = Stopped([s EXCEPT !.sock = None]) /\ UNCHANGED <<loop, pokePending, publicWake, owed>>
    BY <1>2 DEF Closed
  <2>2. ManagerInv(m)' /\ m'.stopped
    BY <1>2, <2>1 DEF LoopInv, ManagerInv, Manager, Inert, Stopped, Dropped
  <2> QED BY <2>1, <2>2 DEF LoopInv, LoopTypes, LatchInv, Kept, Closed
<1>3. CASE ~Inert(k) /\ ~final
  <2>1. m' = Rescheduled([s EXCEPT !.sock = None, !.healthy = FALSE]) BY <1>3 DEF Closed
  <2>2. ManagerInv(m)' /\ m'.stopped = m.stopped
    BY <1>3, <2>1 DEF LoopInv, ManagerInv, Manager, Inert, Rescheduled
  <2>3. CASE m.healthy
    <3>1. Notify BY <1>3, <2>3 DEF Closed
    <3> QED BY <2>2, <3>1 DEF LoopInv, LoopTypes, LatchInv, Kept, Closed, Notify, Poke, Begin, News, Waiting, Passing
  <2>4. CASE ~m.healthy
    BY <1>3, <2>2, <2>4 DEF LoopInv, LoopTypes, LatchInv, Kept, Closed
  <2> QED BY <2>3, <2>4
<1> QED BY <1>1, <1>2, <1>3

LEMMA ReconnectTimerKeeps ==
    ASSUME LoopInv, ReconnectTimer
    PROVE  LoopInv'
<1> DEFINE s == [m EXCEPT !.timer = FALSE]
<1>1. /\ s \in Manager /\ s.sock = None /\ ~s.timer /\ ~s.healthy /\ ~s.stopped
      /\ \A k \in Sock : s.conn[k] \notin {"dialing", "ready", "silent"}
      /\ ~m.stopped /\ token = TRUE
  BY DEF LoopInv, LoopTypes, ManagerInv, Manager, ReconnectTimer
<1>2. m' \in Connects(s, TRUE) BY <1>1 DEF ReconnectTimer
<1>3. ~m.healthy BY <1>1
<1> HIDE DEF s
<1>4. ManagerInv(m)' /\ ~m'.stopped /\ ~m'.healthy BY <1>1, <1>2, ConnectsKeeps
<1> QED BY <1>1, <1>3, <1>4 DEF LoopInv, LoopTypes, LatchInv, Kept, ReconnectTimer

-----------------------------------------------------------------------------
LEMMA NextKeeps ==
    ASSUME LoopInv, [Next]_vars
    PROVE  LoopInv'
<1>1. CASE SignIn \/ Lead \/ Abort \/ Aborted \/ Unauthorized
  BY <1>1, SignInKeeps, LeadKeeps, AbortKeeps, AbortedKeeps, UnauthorizedKeeps
<1>2. CASE Opened \/ Prepared \/ Flushed \/ Rested \/ Fails \/ ToldToWait \/ Tick
  BY <1>2, OpenedKeeps, PreparedKeeps, FlushedKeeps, RestedKeeps, FailsKeeps, ToldToWaitKeeps, TickKeeps
<1>3. ASSUME NEW b \in BOOLEAN, Drained(b) \/ Swept(b) PROVE LoopInv'
  BY <1>3, DrainedKeeps, SweptKeeps
<1>4. CASE Enqueue \/ Revive \/ (\E i \in News : Posted(i))
  BY <1>4, EnqueueKeeps, ReviveKeeps, PostedKeeps
<1>5. CASE Wake \/ Stale \/ ReconnectTimer
  BY <1>5, WakeKeeps, StaleKeeps, ReconnectTimerKeeps
<1>6. ASSUME NEW k \in Sock, Ready(k) \/ HalfOpen(k) \/ \E final \in BOOLEAN : Closed(k, final) PROVE LoopInv'
  BY <1>6, ReadyKeeps, HalfOpenKeeps, ClosedKeeps
<1>7. CASE UNCHANGED vars
  BY <1>7 DEF vars, LoopInv, LoopTypes, LatchInv, Kept
<1> QED BY <1>1, <1>2, <1>3, <1>4, <1>5, <1>6, <1>7 DEF Next

THEOREM LoopInvariance == Spec => []LoopInv
<1>1. Init => LoopInv BY InitKeeps
<1>2. LoopInv /\ [Next]_vars => LoopInv' BY NextKeeps
<1> QED BY <1>1, <1>2, PTL DEF Spec

(***************************************************************************)
(* "Never lost": for any news, in any order and over any socket, the loop  *)
(* waits only when every poke has had a pass that began after it and what  *)
(* it was told is dealt with, and waits the thirty seconds of a healthy    *)
(* socket only with one (poke, #waitForNextTick, the socket's onWake).     *)
(***************************************************************************)
THEOREM NeverLost == Spec => []NothingIsSlept
<1>1. LoopInv => NothingIsSlept
  BY DEF LoopInv, LatchInv, Kept, NothingIsSlept, News, Waiting
<1> QED BY <1>1, LoopInvariance, PTL

(***************************************************************************)
(* Through reconnects, stale sockets, final closes and the ends of loops,  *)
(* one socket is open, the manager's, none without a loop, and the manager *)
(* of a loop has a socket or the timer of its next (socket.ts).            *)
(***************************************************************************)
THEOREM OneSocketAtATime == Spec => []OneSocket
<1>1. LoopInv => OneSocket
  BY DEF LoopInv, ManagerInv, OneSocket
<1> QED BY <1>1, LoopInvariance, PTL

-----------------------------------------------------------------------------
(* ShellCall, for any number of calls, commands, loads and retries, as     *)
(* commands begin and their answers arrive in order: the strengthening.    *)

ConState == [pc : {"unused", "sent", "setup", "join", "open", "return", "refuse", "done"},
             ans : {"none", "ok", "already", "cancelled", "failed"}]
DisState == [pc : {"unused", "sent", "closing", "done"}, room : Calls \cup {None}, for : Calls \cup {None}]
TrState == [pc : {"none", "pre", "ready", "sent", "live", "done", "gone"}, closed : BOOLEAN]
CheckState == [pc : {"none", "poll", "read", "lock", "decide", "adopt"}, by : {"load", "join", "retry", None},
               saw : BOOLEAN, found : Calls \cup {None}]

CallTypes ==
    /\ session \in Calls \cup {None} /\ claim \in Calls \cup {None} /\ cancelled \in BOOLEAN
    /\ con \in [Calls -> ConState] /\ dis \in [Commands -> DisState] /\ tr \in [Calls -> TrState]
    /\ room \in [Calls -> {"none", "open", "ended", "closed"}]
    /\ cur \in Calls \cup {None} /\ join \in {"none", "wait", "checked", "lock", "obtain"}
    /\ down \in Commands \cup {None} /\ check \in CheckState /\ missed \in BOOLEAN /\ lock \in {"free", "me", "old"}

InFlight(k) == con[k].pc \in {"setup", "join", "open"}
Stored(k) == con[k].pc = "return" \/ (con[k].pc = "done" /\ con[k].ans = "ok")
Sent(d) == dis[d].pc = "sent"
\* The teardown or the check of this page waits for a hang-up of that call that has not begun.
DownFor(k) == down # None /\ Sent(down) /\ dis[down].for = k
\* A call of the page before is the shell's, or is about to be.
Strange == \E k \in Calls : tr[k].pc = "gone" /\ (session = k \/ InFlight(k))

\* The shell: one connect at a time has the claim, and stores its call
\* where there is none.
ShellInv ==
    /\ \A k \in Calls : con[k].pc \in {"setup", "join", "open", "return", "refuse"} => claim = k
    /\ \A k \in Calls : InFlight(k) => session = None
    /\ session # None => Stored(session)

\* The page: what it has, and what it is doing about another.
PageInv ==
    /\ \A k \in Calls :
        /\ cur = k <=> tr[k].pc \in {"pre", "ready", "sent", "live"} /\ ~tr[k].closed
        /\ tr[k].pc = "live" => ~tr[k].closed /\ Stored(k)
        /\ tr[k].pc \in {"none", "pre", "ready"} => con[k].pc = "unused"
        /\ tr[k].pc = "none" => ~tr[k].closed
        /\ con[k].pc = "sent" => tr[k].pc = "sent"
    /\ cur # None => lock = "me" /\ down = None /\ check.pc = "none"
    /\ down # None => lock = "me" /\ check.pc = "none" /\ dis[down].pc # "unused"
    /\ check.pc \in {"poll", "read", "lock"} => lock # "me"
    /\ check.pc \in {"decide", "adopt"} => lock = "me"
    /\ check.pc # "none" => ~missed
    /\ join \in {"lock", "obtain"} => check.pc = "none" /\ cur = None /\ down = None
    /\ join = "obtain" => lock = "me"

\* A call of this page is the one it has, or a hang-up of it is on its way.
OwnInv(k) ==
    /\ con[k].pc = "sent" => cur = k \/ DownFor(k)
    /\ InFlight(k) /\ tr[k].pc # "gone" => cancelled \/ cur = k \/ DownFor(k)
    /\ session = k /\ tr[k].pc # "gone" => (cur = k /\ tr[k].pc \in {"sent", "live"}) \/ DownFor(k)
    /\ tr[k].pc = "sent" /\ tr[k].closed /\ Stored(k) => down # None /\ dis[down].for = k
    /\ tr[k].pc \in {"sent", "live"} /\ ~tr[k].closed /\ Stored(k) => session = k
    /\ (InFlight(k) \/ Stored(k)) /\ tr[k].pc # "gone" => ~Strange

\* A hang-up that has not begun finds the call it was sent for, or none.
HangUpInv(d) ==
    Sent(d) => /\ dis[d].for \in Calls /\ dis[d].for # cur /\ tr[dis[d].for].pc # "none"
               /\ tr[dis[d].for].pc = "gone" \/ Strange => down = d
               /\ session # None => dis[d].for = session \/ (missed /\ tr[session].pc = "gone")
               /\ \A k \in Calls : InFlight(k) => cancelled \/ dis[d].for = k \/ (missed /\ tr[k].pc = "gone")

\* A call of the page before is found by the check that runs, is being
\* dropped, or was missed.
FoundInv ==
    /\ Strange => \/ missed
                  \/ check.pc \in {"poll", "read"}
                  \/ check.pc \in {"lock", "decide", "adopt"} /\ session = check.found
                  \/ session # None /\ DownFor(session)
    /\ check.pc = "read" /\ ~check.saw => \A k \in Calls : tr[k].pc = "gone" => ~InFlight(k)
    /\ check.pc \in {"lock", "decide", "adopt"} => check.found \in Calls /\ tr[check.found].pc = "gone"

CallInv ==
    /\ CallTypes /\ ShellInv /\ PageInv /\ FoundInv /\ S!NoRoomIsLost
    /\ \A k \in Calls : OwnInv(k)
    /\ \A d \in Commands : HangUpInv(d)

LEMMA CallInitKeeps == S!Init => CallInv
<1> SUFFICES ASSUME S!Init PROVE CallInv OBVIOUS
<1>1. /\ \A k \in Calls : con[k].pc = "unused" /\ con[k].ans = "none" /\ room[k] = "none" /\ tr[k] = S!NoTransport
      /\ \A d \in Commands : dis[d] = S!NoCommand
      /\ session = None /\ claim = None /\ ~cancelled /\ cur = None /\ join = "none" /\ down = None /\ ~missed
      /\ lock = "free" /\ check = [pc |-> "poll", by |-> "load", saw |-> FALSE, found |-> None]
  BY DEF S!Init, S!NoCheck
<1>2. CallTypes
  <2>1. con \in [Calls -> ConState] BY DEF S!Init, ConState
  <2>2. dis \in [Commands -> DisState] BY DEF S!Init, DisState, S!NoCommand
  <2>3. tr \in [Calls -> TrState] BY DEF S!Init, TrState, S!NoTransport
  <2>4. room \in [Calls -> {"none", "open", "ended", "closed"}] BY DEF S!Init
  <2>5. check \in CheckState BY <1>1 DEF CheckState
  <2>6. /\ session \in Calls \cup {None} /\ claim \in Calls \cup {None} /\ cancelled \in BOOLEAN
        /\ cur \in Calls \cup {None} /\ join \in {"none", "wait", "checked", "lock", "obtain"}
        /\ down \in Commands \cup {None} /\ missed \in BOOLEAN /\ lock \in {"free", "me", "old"}
    BY DEF S!Init
  <2> QED BY <2>1, <2>2, <2>3, <2>4, <2>5, <2>6 DEF CallTypes
<1>3. ~Strange BY <1>1 DEF Strange, S!NoTransport
<1>4. PageInv BY <1>1, CallAssumption DEF PageInv, S!NoTransport
<1>5. ShellInv /\ FoundInv /\ S!NoRoomIsLost
  BY <1>1, <1>3 DEF ShellInv, FoundInv, InFlight, S!NoRoomIsLost
<1>6. \A k \in Calls : OwnInv(k) BY <1>1, <1>3, CallAssumption DEF OwnInv, InFlight, Stored, S!NoTransport
<1>7. \A d \in Commands : HangUpInv(d) BY <1>1 DEF HangUpInv, Sent, S!NoCommand
<1> QED BY <1>2, <1>4, <1>5, <1>6, <1>7 DEF CallInv

\* One connect, hang-up or transport goes on, and the others stay.
ConTo(k, p, a) ==
    /\ con' \in [Calls -> ConState] /\ con'[k].pc = p /\ con'[k].ans = a
    /\ \A j \in Calls : j # k => con'[j] = con[j]
TrTo(k, p, c) ==
    /\ tr' \in [Calls -> TrState] /\ tr'[k].pc = p /\ tr'[k].closed = c
    /\ \A j \in Calls : j # k => tr'[j] = tr[j]
SentFor(d, k) ==
    /\ d \in Commands /\ dis[d].pc = "unused"
    /\ dis' \in [Commands -> DisState] /\ dis'[d].pc = "sent" /\ dis'[d].for = k
    /\ \A b \in Commands : b # d => dis'[b] = dis[b]

LEMMA ConMoves ==
    ASSUME CallTypes, NEW k \in Calls, NEW p, [con[k] EXCEPT !.pc = p] \in ConState, con' = [con EXCEPT ![k].pc = p]
    PROVE  ConTo(k, p, con[k].ans)
<1>1. con[k] \in ConState BY DEF CallTypes
<1> QED BY <1>1 DEF CallTypes, ConState, ConTo

LEMMA ConAnswers ==
    ASSUME CallTypes, NEW k \in Calls, NEW a \in {"ok", "already", "cancelled", "failed"}, S!Answers(k, a)
    PROVE  ConTo(k, "done", a)
<1>1. [pc |-> "done", ans |-> a] \in ConState BY DEF ConState
<1> QED BY <1>1 DEF CallTypes, S!Answers, ConTo

LEMMA TrMoves ==
    ASSUME CallTypes, NEW k \in Calls, NEW p, [tr[k] EXCEPT !.pc = p] \in TrState, tr' = [tr EXCEPT ![k].pc = p]
    PROVE  TrTo(k, p, tr[k].closed)
<1>1. tr[k] \in TrState BY DEF CallTypes
<1> QED BY <1>1 DEF CallTypes, TrState, TrTo

LEMMA TrBecomes ==
    ASSUME CallTypes, NEW k \in Calls, NEW r \in TrState, tr' = [tr EXCEPT ![k] = r]
    PROVE  TrTo(k, r.pc, r.closed)
BY DEF CallTypes, TrTo

LEMMA SendIs == ASSUME CallTypes, NEW d \in Commands, NEW k \in Calls, S!Send(d, k) PROVE SentFor(d, k)
<1> DEFINE r == [S!NoCommand EXCEPT !.pc = "sent", !.for = k]
<1>1. r \in DisState /\ r.pc = "sent" /\ r.for = k BY DEF S!NoCommand, DisState
<1>2. dis' = [dis EXCEPT ![d] = r] /\ dis[d].pc = "unused" BY DEF S!Send, S!FreeCommand
<1> HIDE DEF r
<1> QED BY <1>1, <1>2 DEF CallTypes, SentFor

-----------------------------------------------------------------------------
(* The shell. *)

LEMMA ClaimsKeeps == ASSUME CallInv, NEW k \in Calls, S!Claims(k) PROVE CallInv'
<1> USE DEF CallInv
<1>1. /\ con[k].pc = "sent" /\ tr[k].pc = "sent"
      /\ \A d \in Commands : Sent(d) => dis[d].for = k
      /\ UNCHANGED <<session, room, dis, tr, cur, join, down, check, tries, missed, lock>>
  BY DEF S!Claims, S!page, Sent, PageInv
<1>2. CASE claim # None \/ session # None
  <2>1. ConTo(k, "done", "already") BY <1>2, ConAnswers DEF S!Claims
  <2>2. UNCHANGED <<claim, cancelled>> BY <1>2 DEF S!Claims
  <2>3. Strange' <=> Strange BY <1>1, <2>1 DEF Strange, InFlight, ConTo
  <2>20. CallTypes' BY CallAssumption, <1>1, <2>1, <2>2, <2>3 DEF CallTypes, ConTo, TrTo, SentFor
  <2>21. ShellInv'
    BY CallAssumption, <1>1, <2>1, <2>2, <2>3 DEF ShellInv, CallTypes, InFlight, Stored, Sent, DownFor, ConTo,
       TrTo, SentFor
  <2>22. PageInv'
    BY CallAssumption, <1>1, <2>1, <2>2, <2>3 DEF PageInv, CallTypes, InFlight, Stored, Sent, DownFor, ConTo,
       TrTo, SentFor
  <2>23. \A j \in Calls : OwnInv(j)'
    BY CallAssumption, <1>1, <2>1, <2>2, <2>3 DEF OwnInv, PageInv, ShellInv, CallTypes, InFlight, Stored, Sent,
       DownFor, ConTo, TrTo, SentFor
  <2>24. \A b \in Commands : HangUpInv(b)'
    BY CallAssumption, <1>1, <2>1, <2>2, <2>3 DEF HangUpInv, OwnInv, PageInv, ShellInv, CallTypes, InFlight,
       Stored, Sent, DownFor, ConTo, TrTo, SentFor
  <2>25. FoundInv'
    BY CallAssumption, <1>1, <2>1, <2>2, <2>3 DEF FoundInv, OwnInv, PageInv, ShellInv, CallTypes, InFlight,
       Stored, Sent, DownFor, ConTo, TrTo, SentFor
  <2>26. S!NoRoomIsLost'
    BY CallAssumption, <1>1, <2>1, <2>2, <2>3 DEF S!NoRoomIsLost, ShellInv, CallTypes, ConTo, TrTo, SentFor
  <2> QED BY <2>20, <2>21, <2>22, <2>23, <2>24, <2>25, <2>26 DEF CallInv
<1>3. CASE ~(claim # None \/ session # None)
  <2>1. ConTo(k, "setup", con[k].ans)
    <3>1. [con[k] EXCEPT !.pc = "setup"] \in ConState BY DEF CallTypes, ConState
    <3>2. con' = [con EXCEPT ![k].pc = "setup"] BY <1>3 DEF S!Claims
    <3> QED BY <3>1, <3>2, ConMoves
  <2>2. claim' = k /\ cancelled' = FALSE /\ session = None BY <1>3 DEF S!Claims
  <2>3. ~Strange /\ ~Strange' BY <1>1, <1>3, <2>1, CallAssumption DEF Strange, InFlight, ConTo, ShellInv
  <2>20. CallTypes' BY CallAssumption, <1>1, <2>1, <2>2, <2>3, <1>3 DEF CallTypes, ConTo, TrTo, SentFor
  <2>21. ShellInv'
    BY CallAssumption, <1>1, <2>1, <2>2, <2>3, <1>3 DEF ShellInv, CallTypes, InFlight, Stored, Sent, DownFor,
       ConTo, TrTo, SentFor
  <2>22. PageInv'
    BY CallAssumption, <1>1, <2>1, <2>2, <2>3, <1>3 DEF PageInv, CallTypes, InFlight, Stored, Sent, DownFor,
       ConTo, TrTo, SentFor
  <2>23. \A j \in Calls : OwnInv(j)'
    BY CallAssumption, <1>1, <2>1, <2>2, <2>3, <1>3 DEF OwnInv, PageInv, ShellInv, CallTypes, InFlight, Stored,
       Sent, DownFor, ConTo, TrTo, SentFor
  <2>24. \A b \in Commands : HangUpInv(b)'
    BY CallAssumption, <1>1, <2>1, <2>2, <2>3, <1>3 DEF HangUpInv, OwnInv, PageInv, ShellInv, CallTypes,
       InFlight, Stored, Sent, DownFor, ConTo, TrTo, SentFor
  <2>25. FoundInv'
    BY CallAssumption, <1>1, <2>1, <2>2, <2>3, <1>3 DEF FoundInv, OwnInv, PageInv, ShellInv, CallTypes,
       InFlight, Stored, Sent, DownFor, ConTo, TrTo, SentFor
  <2>26. S!NoRoomIsLost'
    BY CallAssumption, <1>1, <2>1, <2>2, <2>3, <1>3 DEF S!NoRoomIsLost, ShellInv, CallTypes, ConTo, TrTo, SentFor
  <2> QED BY <2>20, <2>21, <2>22, <2>23, <2>24, <2>25, <2>26 DEF CallInv
<1> QED BY <1>2, <1>3

LEMMA SetUpKeeps == ASSUME CallInv, NEW k \in Calls, S!SetUp(k) PROVE CallInv'
<1> USE DEF CallInv
<1>1. con[k].pc = "setup" /\ UNCHANGED <<session, cancelled, room, dis, tr, cur, join, down, check, tries, missed, lock>>
  BY DEF S!SetUp, S!page
<1>2. CASE con' = [con EXCEPT ![k].pc = "join"] /\ claim' = claim
  <2>1. ConTo(k, "join", con[k].ans)
    <3>1. [con[k] EXCEPT !.pc = "join"] \in ConState BY DEF CallTypes, ConState
    <3> QED BY <1>2, <3>1, ConMoves
  <2>2. claim' = claim BY <1>2
  <2>3. Strange' <=> Strange BY <1>1, <2>1 DEF Strange, InFlight, ConTo
  <2>20. CallTypes' BY CallAssumption, <1>1, <2>1, <2>2, <2>3 DEF CallTypes, ConTo, TrTo, SentFor
  <2>21. ShellInv'
    BY CallAssumption, <1>1, <2>1, <2>2, <2>3 DEF ShellInv, CallTypes, InFlight, Stored, Sent, DownFor, ConTo,
       TrTo, SentFor
  <2>22. PageInv'
    BY CallAssumption, <1>1, <2>1, <2>2, <2>3 DEF PageInv, CallTypes, InFlight, Stored, Sent, DownFor, ConTo,
       TrTo, SentFor
  <2>23. \A j \in Calls : OwnInv(j)'
    BY CallAssumption, <1>1, <2>1, <2>2, <2>3 DEF OwnInv, PageInv, ShellInv, CallTypes, InFlight, Stored, Sent,
       DownFor, ConTo, TrTo, SentFor
  <2>24. \A b \in Commands : HangUpInv(b)'
    BY CallAssumption, <1>1, <2>1, <2>2, <2>3 DEF HangUpInv, OwnInv, PageInv, ShellInv, CallTypes, InFlight,
       Stored, Sent, DownFor, ConTo, TrTo, SentFor
  <2>25. FoundInv'
    BY CallAssumption, <1>1, <2>1, <2>2, <2>3 DEF FoundInv, OwnInv, PageInv, ShellInv, CallTypes, InFlight,
       Stored, Sent, DownFor, ConTo, TrTo, SentFor
  <2>26. S!NoRoomIsLost'
    BY CallAssumption, <1>1, <2>1, <2>2, <2>3 DEF S!NoRoomIsLost, ShellInv, CallTypes, ConTo, TrTo, SentFor
  <2> QED BY <2>20, <2>21, <2>22, <2>23, <2>24, <2>25, <2>26 DEF CallInv
<1>3. CASE (S!Answers(k, "cancelled") \/ S!Answers(k, "failed")) /\ claim' = None
  <2>1. \E a \in {"cancelled", "failed"} : ConTo(k, "done", a) BY <1>3, ConAnswers
  <2>2. claim' = None BY <1>3
  <2>3. Strange' => Strange BY <1>1, <2>1 DEF Strange, InFlight, ConTo
  <2>20. CallTypes' BY CallAssumption, <1>1, <2>1, <2>2, <2>3 DEF CallTypes, ConTo, TrTo, SentFor
  <2>21. ShellInv'
    BY CallAssumption, <1>1, <2>1, <2>2, <2>3 DEF ShellInv, CallTypes, InFlight, Stored, Sent, DownFor, ConTo,
       TrTo, SentFor
  <2>22. PageInv'
    BY CallAssumption, <1>1, <2>1, <2>2, <2>3 DEF PageInv, CallTypes, InFlight, Stored, Sent, DownFor, ConTo,
       TrTo, SentFor
  <2>23. \A j \in Calls : OwnInv(j)'
    BY CallAssumption, <1>1, <2>1, <2>2, <2>3 DEF OwnInv, PageInv, ShellInv, CallTypes, InFlight, Stored, Sent,
       DownFor, ConTo, TrTo, SentFor
  <2>24. \A b \in Commands : HangUpInv(b)'
    BY CallAssumption, <1>1, <2>1, <2>2, <2>3 DEF HangUpInv, OwnInv, PageInv, ShellInv, CallTypes, InFlight,
       Stored, Sent, DownFor, ConTo, TrTo, SentFor
  <2>25. FoundInv'
    BY CallAssumption, <1>1, <2>1, <2>2, <2>3 DEF FoundInv, OwnInv, PageInv, ShellInv, CallTypes, InFlight,
       Stored, Sent, DownFor, ConTo, TrTo, SentFor
  <2>26. S!NoRoomIsLost'
    BY CallAssumption, <1>1, <2>1, <2>2, <2>3 DEF S!NoRoomIsLost, ShellInv, CallTypes, ConTo, TrTo, SentFor
  <2> QED BY <2>20, <2>21, <2>22, <2>23, <2>24, <2>25, <2>26 DEF CallInv
<1> QED BY <1>2, <1>3 DEF S!SetUp

LEMMA OpensKeeps == ASSUME CallInv, NEW k \in Calls, S!Opens(k) PROVE CallInv'
<1> USE DEF CallInv
<1>1. /\ con[k].pc = "join" /\ room' = [room EXCEPT ![k] = "open"]
      /\ UNCHANGED <<session, claim, cancelled, dis, tr, cur, join, down, check, tries, missed, lock>>
  BY DEF S!Opens, S!At, S!page
<1>2. ConTo(k, "open", con[k].ans)
  <2>1. [con[k] EXCEPT !.pc = "open"] \in ConState BY DEF CallTypes, ConState
  <2> QED BY <2>1, ConMoves DEF S!Opens, S!At
<1>3. Strange' <=> Strange BY <1>1, <1>2 DEF Strange, InFlight, ConTo
<1>20. CallTypes' BY CallAssumption, <1>1, <1>2, <1>3 DEF CallTypes, ConTo, TrTo, SentFor
<1>21. ShellInv'
  BY CallAssumption, <1>1, <1>2, <1>3 DEF ShellInv, CallTypes, InFlight, Stored, Sent, DownFor, ConTo, TrTo, SentFor
<1>22. PageInv'
  BY CallAssumption, <1>1, <1>2, <1>3 DEF PageInv, CallTypes, InFlight, Stored, Sent, DownFor, ConTo, TrTo, SentFor
<1>23. \A j \in Calls : OwnInv(j)'
  BY CallAssumption, <1>1, <1>2, <1>3 DEF OwnInv, PageInv, ShellInv, CallTypes, InFlight, Stored, Sent,
     DownFor, ConTo, TrTo, SentFor
<1>24. \A b \in Commands : HangUpInv(b)'
  BY CallAssumption, <1>1, <1>2, <1>3 DEF HangUpInv, OwnInv, PageInv, ShellInv, CallTypes, InFlight, Stored,
     Sent, DownFor, ConTo, TrTo, SentFor
<1>25. FoundInv'
  BY CallAssumption, <1>1, <1>2, <1>3 DEF FoundInv, OwnInv, PageInv, ShellInv, CallTypes, InFlight, Stored,
     Sent, DownFor, ConTo, TrTo, SentFor
<1>26. S!NoRoomIsLost'
  BY CallAssumption, <1>1, <1>2, <1>3 DEF S!NoRoomIsLost, ShellInv, CallTypes, ConTo, TrTo, SentFor
<1> QED BY <1>20, <1>21, <1>22, <1>23, <1>24, <1>25, <1>26 DEF CallInv

LEMMA OpensNotKeeps == ASSUME CallInv, NEW k \in Calls, S!OpensNot(k) PROVE CallInv'
<1> USE DEF CallInv
<1>1. /\ con[k].pc = "join" /\ claim' = None
      /\ UNCHANGED <<session, cancelled, room, dis, tr, cur, join, down, check, tries, missed, lock>>
  BY DEF S!OpensNot, S!page
<1>2. \E a \in {"cancelled", "failed"} : ConTo(k, "done", a) BY ConAnswers DEF S!OpensNot
<1>3. Strange' => Strange BY <1>1, <1>2 DEF Strange, InFlight, ConTo
<1>20. CallTypes' BY CallAssumption, <1>1, <1>2, <1>3 DEF CallTypes, ConTo, TrTo, SentFor
<1>21. ShellInv'
  BY CallAssumption, <1>1, <1>2, <1>3 DEF ShellInv, CallTypes, InFlight, Stored, Sent, DownFor, ConTo, TrTo, SentFor
<1>22. PageInv'
  BY CallAssumption, <1>1, <1>2, <1>3 DEF PageInv, CallTypes, InFlight, Stored, Sent, DownFor, ConTo, TrTo, SentFor
<1>23. \A j \in Calls : OwnInv(j)'
  BY CallAssumption, <1>1, <1>2, <1>3 DEF OwnInv, PageInv, ShellInv, CallTypes, InFlight, Stored, Sent,
     DownFor, ConTo, TrTo, SentFor
<1>24. \A b \in Commands : HangUpInv(b)'
  BY CallAssumption, <1>1, <1>2, <1>3 DEF HangUpInv, OwnInv, PageInv, ShellInv, CallTypes, InFlight, Stored,
     Sent, DownFor, ConTo, TrTo, SentFor
<1>25. FoundInv'
  BY CallAssumption, <1>1, <1>2, <1>3 DEF FoundInv, OwnInv, PageInv, ShellInv, CallTypes, InFlight, Stored,
     Sent, DownFor, ConTo, TrTo, SentFor
<1>26. S!NoRoomIsLost'
  BY CallAssumption, <1>1, <1>2, <1>3 DEF S!NoRoomIsLost, ShellInv, CallTypes, ConTo, TrTo, SentFor
<1> QED BY <1>20, <1>21, <1>22, <1>23, <1>24, <1>25, <1>26 DEF CallInv

LEMMA StoresKeeps == ASSUME CallInv, NEW k \in Calls, S!Stores(k) PROVE CallInv'
<1> USE DEF CallInv
<1>1. con[k].pc = "open" /\ UNCHANGED <<claim, cancelled, room, dis, tr, cur, join, down, check, tries, missed, lock>>
  BY DEF S!Stores, S!page
<1>2. CASE cancelled
  <2>1. ConTo(k, "refuse", con[k].ans)
    <3>1. [con[k] EXCEPT !.pc = "refuse"] \in ConState BY DEF CallTypes, ConState
    <3> QED BY <1>2, <3>1, ConMoves DEF S!Stores
  <2>2. session' = session BY <1>2 DEF S!Stores
  <2>3. Strange' => Strange BY <1>1, <2>1, <2>2 DEF Strange, InFlight, ConTo
  <2>20. CallTypes' BY CallAssumption, <1>1, <2>1, <2>2, <2>3 DEF CallTypes, ConTo, TrTo, SentFor
  <2>21. ShellInv'
    BY CallAssumption, <1>1, <2>1, <2>2, <2>3 DEF ShellInv, CallTypes, InFlight, Stored, Sent, DownFor, ConTo,
       TrTo, SentFor
  <2>22. PageInv'
    BY CallAssumption, <1>1, <2>1, <2>2, <2>3 DEF PageInv, CallTypes, InFlight, Stored, Sent, DownFor, ConTo,
       TrTo, SentFor
  <2>23. \A j \in Calls : OwnInv(j)'
    BY CallAssumption, <1>1, <2>1, <2>2, <2>3 DEF OwnInv, PageInv, ShellInv, CallTypes, InFlight, Stored, Sent,
       DownFor, ConTo, TrTo, SentFor
  <2>24. \A b \in Commands : HangUpInv(b)'
    BY CallAssumption, <1>1, <2>1, <2>2, <2>3 DEF HangUpInv, OwnInv, PageInv, ShellInv, CallTypes, InFlight,
       Stored, Sent, DownFor, ConTo, TrTo, SentFor
  <2>25. FoundInv'
    BY CallAssumption, <1>1, <2>1, <2>2, <2>3 DEF FoundInv, OwnInv, PageInv, ShellInv, CallTypes, InFlight,
       Stored, Sent, DownFor, ConTo, TrTo, SentFor
  <2>26. S!NoRoomIsLost'
    BY CallAssumption, <1>1, <2>1, <2>2, <2>3 DEF S!NoRoomIsLost, ShellInv, CallTypes, ConTo, TrTo, SentFor
  <2> QED BY <2>20, <2>21, <2>22, <2>23, <2>24, <2>25, <2>26 DEF CallInv
<1>3. CASE ~cancelled
  <2>1. ConTo(k, "return", con[k].ans)
    <3>1. [con[k] EXCEPT !.pc = "return"] \in ConState BY DEF CallTypes, ConState
    <3> QED BY <1>3, <3>1, ConMoves DEF S!Stores
  <2>2. session' = k /\ session = None /\ claim = k BY <1>1, <1>3 DEF S!Stores, ShellInv, InFlight
  <2>4. \A j \in Calls : j # k => ~InFlight(j) BY <1>1, <2>2 DEF ShellInv, InFlight
  <2>3. (Strange' <=> Strange) /\ (Strange <=> tr[k].pc = "gone")
    BY <1>1, <2>1, <2>2, <2>4, CallAssumption DEF Strange, InFlight, ConTo
  <2>20. CallTypes' BY CallAssumption, <1>1, <2>1, <2>2, <2>3, <2>4, <1>3 DEF CallTypes, ConTo, TrTo, SentFor
  <2>21. ShellInv'
    BY CallAssumption, <1>1, <2>1, <2>2, <2>3, <2>4, <1>3 DEF ShellInv, CallTypes, InFlight, Stored, Sent,
       DownFor, ConTo, TrTo, SentFor
  <2>22. PageInv'
    BY CallAssumption, <1>1, <2>1, <2>2, <2>3, <2>4, <1>3 DEF PageInv, CallTypes, InFlight, Stored, Sent,
       DownFor, ConTo, TrTo, SentFor
  <2>23. \A j \in Calls : OwnInv(j)'
    BY CallAssumption, <1>1, <2>1, <2>2, <2>3, <2>4, <1>3 DEF OwnInv, PageInv, ShellInv, CallTypes, InFlight,
       Stored, Sent, DownFor, ConTo, TrTo, SentFor
  <2>24. \A b \in Commands : HangUpInv(b)'
    BY CallAssumption, <1>1, <2>1, <2>2, <2>3, <2>4, <1>3 DEF HangUpInv, OwnInv, PageInv, ShellInv, CallTypes,
       InFlight, Stored, Sent, DownFor, ConTo, TrTo, SentFor
  <2>25. FoundInv'
    BY CallAssumption, <1>1, <2>1, <2>2, <2>3, <2>4, <1>3 DEF FoundInv, OwnInv, PageInv, ShellInv, CallTypes,
       InFlight, Stored, Sent, DownFor, ConTo, TrTo, SentFor
  <2>26. S!NoRoomIsLost'
    BY CallAssumption, <1>1, <2>1, <2>2, <2>3, <2>4, <1>3 DEF S!NoRoomIsLost, ShellInv, CallTypes, ConTo, TrTo,
       SentFor
  <2> QED BY <2>20, <2>21, <2>22, <2>23, <2>24, <2>25, <2>26 DEF CallInv
<1> QED BY <1>2, <1>3

LEMMA ReturnsKeeps == ASSUME CallInv, NEW k \in Calls, S!Returns(k) PROVE CallInv'
<1> USE DEF CallInv
<1>1. con[k].pc \in {"return", "refuse"} /\ claim' = None
      /\ UNCHANGED <<session, cancelled, dis, tr, cur, join, down, check, tries, missed, lock>>
  BY DEF S!Returns, S!page
<1>2. ConTo(k, "done", IF con[k].pc = "return" THEN "ok" ELSE "cancelled") BY ConAnswers DEF S!Returns
<1>3. /\ room' \in [Calls -> {"none", "open", "ended", "closed"}] /\ \A j \in Calls : j # k => room'[j] = room[j]
      /\ con[k].pc = "return" => room' = room
      /\ con[k].pc = "refuse" => room'[k] = "closed"
  BY <1>1 DEF S!Returns, CallTypes
<1>4. Strange' <=> Strange BY <1>1, <1>2 DEF Strange, InFlight, ConTo
<1>20. CallTypes' BY CallAssumption, <1>1, <1>2, <1>3, <1>4 DEF CallTypes, ConTo, TrTo, SentFor
<1>21. ShellInv'
  BY CallAssumption, <1>1, <1>2, <1>3, <1>4 DEF ShellInv, CallTypes, InFlight, Stored, Sent, DownFor, ConTo,
     TrTo, SentFor
<1>22. PageInv'
  BY CallAssumption, <1>1, <1>2, <1>3, <1>4 DEF PageInv, CallTypes, InFlight, Stored, Sent, DownFor, ConTo,
     TrTo, SentFor
<1>23. \A j \in Calls : OwnInv(j)'
  BY CallAssumption, <1>1, <1>2, <1>3, <1>4 DEF OwnInv, PageInv, ShellInv, CallTypes, InFlight, Stored, Sent,
     DownFor, ConTo, TrTo, SentFor
<1>24. \A b \in Commands : HangUpInv(b)'
  BY CallAssumption, <1>1, <1>2, <1>3, <1>4 DEF HangUpInv, OwnInv, PageInv, ShellInv, CallTypes, InFlight,
     Stored, Sent, DownFor, ConTo, TrTo, SentFor
<1>25. FoundInv'
  BY CallAssumption, <1>1, <1>2, <1>3, <1>4 DEF FoundInv, OwnInv, PageInv, ShellInv, CallTypes, InFlight,
     Stored, Sent, DownFor, ConTo, TrTo, SentFor
<1>26. S!NoRoomIsLost'
  BY CallAssumption, <1>1, <1>2, <1>3, <1>4 DEF S!NoRoomIsLost, ShellInv, CallTypes, ConTo, TrTo, SentFor
<1> QED BY <1>20, <1>21, <1>22, <1>23, <1>24, <1>25, <1>26 DEF CallInv

LEMMA TakesKeeps == ASSUME CallInv, NEW d \in Commands, S!Takes(d) PROVE CallInv'
<1> USE DEF CallInv
<1>1. /\ Sent(d) /\ session' = None /\ con[dis[d].for].pc # "sent"
      /\ cancelled' = (IF session = None /\ claim # None THEN TRUE ELSE cancelled)
      /\ UNCHANGED <<claim, con, room, tr, cur, join, down, check, tries, missed, lock>>
  BY DEF S!Takes, S!page, Sent
<1>2. /\ dis' \in [Commands -> DisState] /\ \A b \in Commands : b # d => dis'[b] = dis[b]
      /\ dis'[d].for = dis[d].for /\ dis'[d].room = session
      /\ dis'[d].pc = (IF session = None THEN "done" ELSE "closing")
  <2> DEFINE r == [dis[d] EXCEPT !.pc = IF session = None THEN "done" ELSE "closing", !.room = session]
  <2>1. dis[d] \in DisState BY DEF CallTypes
  <2>2. r \in DisState /\ r.for = dis[d].for /\ r.room = session /\ r.pc = (IF session = None THEN "done" ELSE "closing")
    BY <2>1 DEF DisState, CallTypes
  <2>3. dis' = [dis EXCEPT ![d] = r] BY DEF S!Takes
  <2> HIDE DEF r
  <2> QED BY <2>2, <2>3 DEF CallTypes
<1>3. /\ dis[d].for \in Calls /\ con[dis[d].for].pc # "sent" /\ (session # None => ~(\E k \in Calls : InFlight(k)))
      /\ \A k \in Calls : InFlight(k) => cancelled'
  BY <1>1, CallAssumption DEF HangUpInv, ShellInv, InFlight
<1>4. (Strange' => Strange) /\ (session # None => ~Strange')
  BY <1>1, <1>3, CallAssumption DEF Strange, InFlight
<1>5. \A k \in Calls : session = k /\ tr[k].pc # "gone" => dis[d].for = k /\ cur # k
  BY <1>1, CallAssumption DEF HangUpInv
<1>26. S!NoRoomIsLost'
  <2> SUFFICES ASSUME NEW k \in Calls, room[k] = "open"
               PROVE  \/ con[k].pc \in {"open", "refuse"}
                      \/ \E b \in Commands : dis'[b].pc = "closing" /\ dis'[b].room = k
    BY <1>1 DEF S!NoRoomIsLost
  <2>1. CASE session = k BY <1>2, <2>1, CallAssumption
  <2>2. ASSUME NEW b \in Commands, dis[b].pc = "closing", dis[b].room = k
        PROVE  dis'[b].pc = "closing" /\ dis'[b].room = k
    BY <1>1, <1>2, <2>2 DEF Sent
  <2> QED BY <2>1, <2>2 DEF S!NoRoomIsLost
<1>20. CallTypes' BY CallAssumption, <1>1, <1>2, <1>3, <1>4, <1>5 DEF CallTypes, ConTo, TrTo, SentFor
<1>21. ShellInv'
  BY CallAssumption, <1>1, <1>2, <1>3, <1>4, <1>5 DEF ShellInv, CallTypes, InFlight, Stored, Sent, DownFor,
     ConTo, TrTo, SentFor
<1>22. PageInv'
  BY CallAssumption, <1>1, <1>2, <1>3, <1>4, <1>5 DEF PageInv, CallTypes, InFlight, Stored, Sent, DownFor,
     ConTo, TrTo, SentFor
<1>23. \A j \in Calls : OwnInv(j)'
  BY CallAssumption, <1>1, <1>2, <1>3, <1>4, <1>5 DEF OwnInv, PageInv, ShellInv, CallTypes, InFlight, Stored,
     Sent, DownFor, ConTo, TrTo, SentFor
<1>24. \A b \in Commands : HangUpInv(b)'
  BY CallAssumption, <1>1, <1>2, <1>3, <1>4, <1>5 DEF HangUpInv, OwnInv, PageInv, ShellInv, CallTypes,
     InFlight, Stored, Sent, DownFor, ConTo, TrTo, SentFor
<1>25. FoundInv'
  BY CallAssumption, <1>1, <1>2, <1>3, <1>4, <1>5 DEF FoundInv, OwnInv, PageInv, ShellInv, CallTypes, InFlight,
     Stored, Sent, DownFor, ConTo, TrTo, SentFor
<1> QED BY <1>20, <1>21, <1>22, <1>23, <1>24, <1>25, <1>26 DEF CallInv

LEMMA ClosesKeeps == ASSUME CallInv, NEW d \in Commands, S!Closes(d) PROVE CallInv'
<1> USE DEF CallInv
<1>1. /\ dis[d].pc = "closing" /\ room' = [room EXCEPT ![dis[d].room] = "closed"]
      /\ UNCHANGED <<session, claim, cancelled, con, tr, cur, join, down, check, tries, missed, lock>>
  BY DEF S!Closes, S!page
<1>2. /\ dis' \in [Commands -> DisState] /\ \A b \in Commands : b # d => dis'[b] = dis[b]
      /\ dis'[d].for = dis[d].for /\ dis'[d].pc = "done"
  <2> DEFINE r == [dis[d] EXCEPT !.pc = "done"]
  <2>1. dis[d] \in DisState BY DEF CallTypes
  <2>2. r \in DisState /\ r.for = dis[d].for /\ r.pc = "done" BY <2>1 DEF DisState
  <2>3. dis' = [dis EXCEPT ![d] = r] BY DEF S!Closes
  <2> HIDE DEF r
  <2> QED BY <2>2, <2>3 DEF CallTypes
<1>4. Strange' <=> Strange BY <1>1 DEF Strange, InFlight
<1>20. CallTypes' BY CallAssumption, <1>1, <1>2, <1>4 DEF CallTypes, ConTo, TrTo, SentFor
<1>21. ShellInv'
  BY CallAssumption, <1>1, <1>2, <1>4 DEF ShellInv, CallTypes, InFlight, Stored, Sent, DownFor, ConTo, TrTo, SentFor
<1>22. PageInv'
  BY CallAssumption, <1>1, <1>2, <1>4 DEF PageInv, CallTypes, InFlight, Stored, Sent, DownFor, ConTo, TrTo, SentFor
<1>23. \A j \in Calls : OwnInv(j)'
  BY CallAssumption, <1>1, <1>2, <1>4 DEF OwnInv, PageInv, ShellInv, CallTypes, InFlight, Stored, Sent,
     DownFor, ConTo, TrTo, SentFor
<1>24. \A b \in Commands : HangUpInv(b)'
  BY CallAssumption, <1>1, <1>2, <1>4 DEF HangUpInv, OwnInv, PageInv, ShellInv, CallTypes, InFlight, Stored,
     Sent, DownFor, ConTo, TrTo, SentFor
<1>25. FoundInv'
  BY CallAssumption, <1>1, <1>2, <1>4 DEF FoundInv, OwnInv, PageInv, ShellInv, CallTypes, InFlight, Stored,
     Sent, DownFor, ConTo, TrTo, SentFor
<1>26. S!NoRoomIsLost'
  BY CallAssumption, <1>1, <1>2, <1>4 DEF S!NoRoomIsLost, ShellInv, CallTypes, ConTo, TrTo, SentFor
<1> QED BY <1>20, <1>21, <1>22, <1>23, <1>24, <1>25, <1>26 DEF CallInv

LEMMA SfuEndsKeeps == ASSUME CallInv, NEW k \in Calls, S!SfuEnds(k) PROVE CallInv'
<1> USE DEF CallInv
<1>1. /\ room' = [room EXCEPT ![k] = "ended"]
      /\ UNCHANGED <<session, claim, cancelled, con, dis, tr, cur, join, down, check, tries, missed, lock>>
  BY DEF S!SfuEnds, S!page
<1>4. Strange' <=> Strange BY <1>1 DEF Strange, InFlight
<1>20. CallTypes' BY CallAssumption, <1>1, <1>4 DEF CallTypes, ConTo, TrTo, SentFor
<1>21. ShellInv'
  BY CallAssumption, <1>1, <1>4 DEF ShellInv, CallTypes, InFlight, Stored, Sent, DownFor, ConTo, TrTo, SentFor
<1>22. PageInv'
  BY CallAssumption, <1>1, <1>4 DEF PageInv, CallTypes, InFlight, Stored, Sent, DownFor, ConTo, TrTo, SentFor
<1>23. \A j \in Calls : OwnInv(j)'
  BY CallAssumption, <1>1, <1>4 DEF OwnInv, PageInv, ShellInv, CallTypes, InFlight, Stored, Sent, DownFor,
     ConTo, TrTo, SentFor
<1>24. \A b \in Commands : HangUpInv(b)'
  BY CallAssumption, <1>1, <1>4 DEF HangUpInv, OwnInv, PageInv, ShellInv, CallTypes, InFlight, Stored, Sent,
     DownFor, ConTo, TrTo, SentFor
<1>25. FoundInv'
  BY CallAssumption, <1>1, <1>4 DEF FoundInv, OwnInv, PageInv, ShellInv, CallTypes, InFlight, Stored, Sent,
     DownFor, ConTo, TrTo, SentFor
<1>26. S!NoRoomIsLost' BY CallAssumption, <1>1, <1>4 DEF S!NoRoomIsLost, ShellInv, CallTypes, ConTo, TrTo, SentFor
<1> QED BY <1>20, <1>21, <1>22, <1>23, <1>24, <1>25, <1>26 DEF CallInv

-----------------------------------------------------------------------------
(* The page's joins and hang-ups. *)

LEMMA PressKeeps == ASSUME CallInv, S!Press \/ S!JoinGoesOn \/ S!JoinLocks \/ S!NotObtained PROVE CallInv'
<1> USE DEF CallInv
<1>1. UNCHANGED <<session, claim, cancelled, con, room, dis, tr, cur, down, check, tries, missed>>
  BY DEF S!Press, S!JoinGoesOn, S!JoinLocks, S!NotObtained, S!shell
<1>2. \/ join' \in {"none", "wait"} /\ lock' = lock
      \/ join' \in {"none", "lock"} /\ lock' = lock /\ (join' = "lock" => check.pc = "none" /\ cur = None /\ down = None)
      \/ join = "lock" /\ join' = "obtain" /\ lock' = "me"
      \/ join = "obtain" /\ join' = "none" /\ lock' = "free"
  BY DEF S!Press, S!JoinGoesOn, S!JoinLocks, S!NotObtained
<1>4. Strange' <=> Strange BY <1>1 DEF Strange, InFlight
<1>20. CallTypes' BY CallAssumption, <1>1, <1>2, <1>4 DEF CallTypes, ConTo, TrTo, SentFor
<1>21. ShellInv'
  BY CallAssumption, <1>1, <1>2, <1>4 DEF ShellInv, CallTypes, InFlight, Stored, Sent, DownFor, ConTo, TrTo, SentFor
<1>22. PageInv'
  BY CallAssumption, <1>1, <1>2, <1>4 DEF PageInv, CallTypes, InFlight, Stored, Sent, DownFor, ConTo, TrTo, SentFor
<1>23. \A j \in Calls : OwnInv(j)'
  BY CallAssumption, <1>1, <1>2, <1>4 DEF OwnInv, PageInv, ShellInv, CallTypes, InFlight, Stored, Sent,
     DownFor, ConTo, TrTo, SentFor
<1>24. \A b \in Commands : HangUpInv(b)'
  BY CallAssumption, <1>1, <1>2, <1>4 DEF HangUpInv, OwnInv, PageInv, ShellInv, CallTypes, InFlight, Stored,
     Sent, DownFor, ConTo, TrTo, SentFor
<1>25. FoundInv'
  BY CallAssumption, <1>1, <1>2, <1>4 DEF FoundInv, OwnInv, PageInv, ShellInv, CallTypes, InFlight, Stored,
     Sent, DownFor, ConTo, TrTo, SentFor
<1>26. S!NoRoomIsLost'
  BY CallAssumption, <1>1, <1>2, <1>4 DEF S!NoRoomIsLost, ShellInv, CallTypes, ConTo, TrTo, SentFor
<1> QED BY <1>20, <1>21, <1>22, <1>23, <1>24, <1>25, <1>26 DEF CallInv

LEMMA StartCheckIs ==
    ASSUME CallInv, NEW by \in {"load", "join", "retry"}, S!StartCheck(by)
    PROVE  /\ check.pc = "none"
           /\ UNCHANGED <<session, claim, cancelled, con, room, dis, tr, cur, down, lock, loads>>
           /\ \/ check' = check /\ missed' = missed
              \/ /\ cur = None /\ join # "obtain" /\ lock # "me" /\ check' \in CheckState /\ check'.pc = "poll" /\ missed' = FALSE
                 /\ down = None
<1> USE DEF CallInv
<1>1. [S!NoCheck EXCEPT !.pc = "poll", !.by = by] \in CheckState /\ [S!NoCheck EXCEPT !.pc = "poll", !.by = by].pc = "poll"
  BY DEF S!NoCheck, CheckState
<1> QED BY <1>1 DEF S!StartCheck, S!shell, S!HoldsNothing, PageInv

LEMMA ChecksKeeps ==
    ASSUME CallInv, NEW by \in {"load", "join", "retry"}, S!StartCheck(by), join' = join \/ join' = "checked", join # "lock"
    PROVE  CallInv'
<1> USE DEF CallInv
<1>1. /\ check.pc = "none"
      /\ UNCHANGED <<session, claim, cancelled, con, room, dis, tr, cur, down, lock, loads>>
  BY StartCheckIs
<1>2. \/ check' = check /\ missed' = missed
      \/ /\ cur = None /\ join # "obtain" /\ lock # "me" /\ check' \in CheckState /\ check'.pc = "poll" /\ missed' = FALSE
         /\ down = None
  BY StartCheckIs
<1>4. Strange' <=> Strange BY <1>1 DEF Strange, InFlight
<1>5. /\ join' \in {"none", "wait", "checked", "lock", "obtain"}
      /\ missed' = missed \/ (missed' = FALSE /\ \A d \in Commands : Sent(d) => ~Strange)
  BY <1>2, CallAssumption DEF HangUpInv, CallTypes
<1>6. missed' = missed \/ \A k \in Calls : tr[k].pc = "gone" /\ (session = k \/ InFlight(k)) => Strange
  BY DEF Strange
<1>20. CallTypes' BY CallAssumption, <1>1, <1>2, <1>4, <1>5, <1>6 DEF CallTypes, ConTo, TrTo, SentFor
<1>21. ShellInv'
  BY CallAssumption, <1>1, <1>2, <1>4, <1>5, <1>6 DEF ShellInv, CallTypes, InFlight, Stored, Sent, DownFor,
     ConTo, TrTo, SentFor
<1>22. PageInv'
  BY CallAssumption, <1>1, <1>2, <1>4, <1>5, <1>6 DEF PageInv, CallTypes, InFlight, Stored, Sent, DownFor,
     ConTo, TrTo, SentFor
<1>23. \A j \in Calls : OwnInv(j)'
  BY CallAssumption, <1>1, <1>2, <1>4, <1>5, <1>6 DEF OwnInv, PageInv, ShellInv, CallTypes, InFlight, Stored,
     Sent, DownFor, ConTo, TrTo, SentFor
<1>24. \A b \in Commands : HangUpInv(b)'
  BY CallAssumption, <1>1, <1>2, <1>4, <1>5, <1>6 DEF HangUpInv, OwnInv, PageInv, ShellInv, CallTypes,
     InFlight, Stored, Sent, DownFor, ConTo, TrTo, SentFor
<1>25. FoundInv'
  BY CallAssumption, <1>1, <1>2, <1>4, <1>5, <1>6 DEF FoundInv, OwnInv, PageInv, ShellInv, CallTypes, InFlight,
     Stored, Sent, DownFor, ConTo, TrTo, SentFor
<1>26. S!NoRoomIsLost'
  BY CallAssumption, <1>1, <1>2, <1>4, <1>5, <1>6 DEF S!NoRoomIsLost, ShellInv, CallTypes, ConTo, TrTo, SentFor
<1> QED BY <1>20, <1>21, <1>22, <1>23, <1>24, <1>25, <1>26 DEF CallInv

LEMMA ObtainedKeeps == ASSUME CallInv, NEW k \in Calls, S!Obtained(k) PROVE CallInv'
<1> USE DEF CallInv
<1>1. /\ join = "obtain" /\ join' = "none" /\ con[k].pc = "unused" /\ tr[k].pc = "none" /\ cur' = k
      /\ UNCHANGED <<session, claim, cancelled, con, room, dis, down, check, tries, missed, lock>>
  BY DEF S!Obtained, S!shell
<1>2. \E c \in BOOLEAN : TrTo(k, "pre", c) /\ c = tr[k].closed
  <2>1. tr[k] \in TrState BY DEF CallTypes
  <2>2. [tr[k] EXCEPT !.pc = "pre"] \in TrState BY <2>1 DEF TrState
  <2> QED BY <2>1, <2>2, TrMoves DEF S!Obtained, TrState
<1>4. Strange' <=> Strange BY <1>1, <1>2 DEF Strange, InFlight, TrTo
<1>20. CallTypes' BY CallAssumption, <1>1, <1>2, <1>4 DEF CallTypes, ConTo, TrTo, SentFor
<1>21. ShellInv'
  BY CallAssumption, <1>1, <1>2, <1>4 DEF ShellInv, CallTypes, InFlight, Stored, Sent, DownFor, ConTo, TrTo, SentFor
<1>22. PageInv'
  BY CallAssumption, <1>1, <1>2, <1>4 DEF PageInv, CallTypes, InFlight, Stored, Sent, DownFor, ConTo, TrTo, SentFor
<1>23. \A j \in Calls : OwnInv(j)'
  BY CallAssumption, <1>1, <1>2, <1>4 DEF OwnInv, PageInv, ShellInv, CallTypes, InFlight, Stored, Sent,
     DownFor, ConTo, TrTo, SentFor
<1>24. \A b \in Commands : HangUpInv(b)'
  BY CallAssumption, <1>1, <1>2, <1>4 DEF HangUpInv, OwnInv, PageInv, ShellInv, CallTypes, InFlight, Stored,
     Sent, DownFor, ConTo, TrTo, SentFor
<1>25. FoundInv'
  BY CallAssumption, <1>1, <1>2, <1>4 DEF FoundInv, OwnInv, PageInv, ShellInv, CallTypes, InFlight, Stored,
     Sent, DownFor, ConTo, TrTo, SentFor
<1>26. S!NoRoomIsLost'
  BY CallAssumption, <1>1, <1>2, <1>4 DEF S!NoRoomIsLost, ShellInv, CallTypes, ConTo, TrTo, SentFor
<1> QED BY <1>20, <1>21, <1>22, <1>23, <1>24, <1>25, <1>26 DEF CallInv

LEMMA ImportedKeeps == ASSUME CallInv, NEW k \in Calls, S!Imported(k) PROVE CallInv'
<1> USE DEF CallInv
<1>1. tr[k].pc = "pre" /\ UNCHANGED <<session, claim, cancelled, con, room, dis, cur, join, down, check, tries, missed, lock>>
  BY DEF S!Imported, S!shell
<1>2. TrTo(k, IF tr[k].closed THEN "done" ELSE "ready", tr[k].closed)
  <2>1. tr[k] \in TrState BY DEF CallTypes
  <2>2. [tr[k] EXCEPT !.pc = IF tr[k].closed THEN "done" ELSE "ready"] \in TrState BY <2>1 DEF TrState
  <2> QED BY <2>2, TrMoves DEF S!Imported
<1>4. Strange' <=> Strange BY <1>1, <1>2 DEF Strange, InFlight, TrTo
<1>20. CallTypes' BY CallAssumption, <1>1, <1>2, <1>4 DEF CallTypes, ConTo, TrTo, SentFor
<1>21. ShellInv'
  BY CallAssumption, <1>1, <1>2, <1>4 DEF ShellInv, CallTypes, InFlight, Stored, Sent, DownFor, ConTo, TrTo, SentFor
<1>22. PageInv'
  BY CallAssumption, <1>1, <1>2, <1>4 DEF PageInv, CallTypes, InFlight, Stored, Sent, DownFor, ConTo, TrTo, SentFor
<1>23. \A j \in Calls : OwnInv(j)'
  BY CallAssumption, <1>1, <1>2, <1>4 DEF OwnInv, PageInv, ShellInv, CallTypes, InFlight, Stored, Sent,
     DownFor, ConTo, TrTo, SentFor
<1>24. \A b \in Commands : HangUpInv(b)'
  BY CallAssumption, <1>1, <1>2, <1>4 DEF HangUpInv, OwnInv, PageInv, ShellInv, CallTypes, InFlight, Stored,
     Sent, DownFor, ConTo, TrTo, SentFor
<1>25. FoundInv'
  BY CallAssumption, <1>1, <1>2, <1>4 DEF FoundInv, OwnInv, PageInv, ShellInv, CallTypes, InFlight, Stored,
     Sent, DownFor, ConTo, TrTo, SentFor
<1>26. S!NoRoomIsLost'
  BY CallAssumption, <1>1, <1>2, <1>4 DEF S!NoRoomIsLost, ShellInv, CallTypes, ConTo, TrTo, SentFor
<1> QED BY <1>20, <1>21, <1>22, <1>23, <1>24, <1>25, <1>26 DEF CallInv

LEMMA DialsKeeps == ASSUME CallInv, NEW k \in Calls, S!Dials(k) PROVE CallInv'
<1> USE DEF CallInv
<1>1. tr[k].pc = "ready" /\ con[k].pc = "unused"
      /\ UNCHANGED <<session, claim, cancelled, room, dis, cur, join, down, check, tries, missed, lock>>
  BY DEF S!Dials, PageInv
<1>2. CASE tr[k].closed
  <2>1. TrTo(k, "done", tr[k].closed)
    <3>1. tr[k] \in TrState BY DEF CallTypes
    <3>2. [tr[k] EXCEPT !.pc = "done"] \in TrState BY <3>1 DEF TrState
    <3> QED BY <1>2, <3>2, TrMoves DEF S!Dials
  <2>2. con' = con BY <1>2 DEF S!Dials
  <2>3. Strange' <=> Strange BY <1>1, <2>1, <2>2 DEF Strange, InFlight, TrTo
  <2>20. CallTypes' BY CallAssumption, <1>1, <2>1, <2>2, <2>3, <1>2 DEF CallTypes, ConTo, TrTo, SentFor
  <2>21. ShellInv'
    BY CallAssumption, <1>1, <2>1, <2>2, <2>3, <1>2 DEF ShellInv, CallTypes, InFlight, Stored, Sent, DownFor,
       ConTo, TrTo, SentFor
  <2>22. PageInv'
    BY CallAssumption, <1>1, <2>1, <2>2, <2>3, <1>2 DEF PageInv, CallTypes, InFlight, Stored, Sent, DownFor,
       ConTo, TrTo, SentFor
  <2>23. \A j \in Calls : OwnInv(j)'
    BY CallAssumption, <1>1, <2>1, <2>2, <2>3, <1>2 DEF OwnInv, PageInv, ShellInv, CallTypes, InFlight, Stored,
       Sent, DownFor, ConTo, TrTo, SentFor
  <2>24. \A b \in Commands : HangUpInv(b)'
    BY CallAssumption, <1>1, <2>1, <2>2, <2>3, <1>2 DEF HangUpInv, OwnInv, PageInv, ShellInv, CallTypes,
       InFlight, Stored, Sent, DownFor, ConTo, TrTo, SentFor
  <2>25. FoundInv'
    BY CallAssumption, <1>1, <2>1, <2>2, <2>3, <1>2 DEF FoundInv, OwnInv, PageInv, ShellInv, CallTypes,
       InFlight, Stored, Sent, DownFor, ConTo, TrTo, SentFor
  <2>26. S!NoRoomIsLost'
    BY CallAssumption, <1>1, <2>1, <2>2, <2>3, <1>2 DEF S!NoRoomIsLost, ShellInv, CallTypes, ConTo, TrTo, SentFor
  <2> QED BY <2>20, <2>21, <2>22, <2>23, <2>24, <2>25, <2>26 DEF CallInv
<1>3. CASE ~tr[k].closed
  <2>1. TrTo(k, "sent", tr[k].closed)
    <3>1. tr[k] \in TrState BY DEF CallTypes
    <3>2. [tr[k] EXCEPT !.pc = "sent"] \in TrState BY <3>1 DEF TrState
    <3> QED BY <1>3, <3>2, TrMoves DEF S!Dials
  <2>2. ConTo(k, "sent", con[k].ans)
    <3>1. [con[k] EXCEPT !.pc = "sent"] \in ConState BY DEF CallTypes, ConState
    <3> QED BY <1>3, <3>1, ConMoves DEF S!Dials
  <2>3. Strange' <=> Strange BY <1>1, <2>1, <2>2 DEF Strange, InFlight, TrTo, ConTo
  <2>20. CallTypes' BY CallAssumption, <1>1, <2>1, <2>2, <2>3, <1>3 DEF CallTypes, ConTo, TrTo, SentFor
  <2>21. ShellInv'
    BY CallAssumption, <1>1, <2>1, <2>2, <2>3, <1>3 DEF ShellInv, CallTypes, InFlight, Stored, Sent, DownFor,
       ConTo, TrTo, SentFor
  <2>22. PageInv'
    BY CallAssumption, <1>1, <2>1, <2>2, <2>3, <1>3 DEF PageInv, CallTypes, InFlight, Stored, Sent, DownFor,
       ConTo, TrTo, SentFor
  <2>23. \A j \in Calls : OwnInv(j)'
    BY CallAssumption, <1>1, <2>1, <2>2, <2>3, <1>3 DEF OwnInv, PageInv, ShellInv, CallTypes, InFlight, Stored,
       Sent, DownFor, ConTo, TrTo, SentFor
  <2>24. \A b \in Commands : HangUpInv(b)'
    BY CallAssumption, <1>1, <2>1, <2>2, <2>3, <1>3 DEF HangUpInv, OwnInv, PageInv, ShellInv, CallTypes,
       InFlight, Stored, Sent, DownFor, ConTo, TrTo, SentFor
  <2>25. FoundInv'
    BY CallAssumption, <1>1, <2>1, <2>2, <2>3, <1>3 DEF FoundInv, OwnInv, PageInv, ShellInv, CallTypes,
       InFlight, Stored, Sent, DownFor, ConTo, TrTo, SentFor
  <2>26. S!NoRoomIsLost'
    BY CallAssumption, <1>1, <2>1, <2>2, <2>3, <1>3 DEF S!NoRoomIsLost, ShellInv, CallTypes, ConTo, TrTo, SentFor
  <2> QED BY <2>20, <2>21, <2>22, <2>23, <2>24, <2>25, <2>26 DEF CallInv
<1> QED BY <1>2, <1>3

\* A hang-up that is sent while nothing else is on its way.
LEMMA DisconnectIs ==
    ASSUME CallInv, NEW k \in Calls, cur = k, S!Disconnect(k)
    PROVE  /\ cur' = None
           /\ \/ /\ tr[k].pc = "pre" /\ TrTo(k, "pre", TRUE) /\ lock' = "free" /\ UNCHANGED <<dis, down>>
              \/ /\ tr[k].pc # "pre" /\ lock' = lock
                 /\ TrTo(k, IF tr[k].pc = "live" THEN "done" ELSE tr[k].pc, TRUE)
                 /\ \E d \in Commands : SentFor(d, k) /\ down' = d
<1> USE DEF CallInv
<1>1. tr[k] \in TrState /\ ~tr[k].closed BY DEF CallTypes, PageInv
<1>2. CASE tr[k].pc = "pre"
  <2>1. [tr[k] EXCEPT !.closed = TRUE] \in TrState BY <1>1 DEF TrState
  <2>2. TrTo(k, "pre", TRUE)
    <3>1. tr' = [tr EXCEPT ![k].closed = TRUE] BY <1>2 DEF S!Disconnect
    <3>2. tr \in [Calls -> TrState] BY DEF CallTypes
    <3>3. tr' \in [Calls -> TrState] BY <2>1, <3>1, <3>2
    <3>4. tr'[k] = [tr[k] EXCEPT !.closed = TRUE] /\ \A j \in Calls : j # k => tr'[j] = tr[j] BY <3>1, <3>2
    <3>5. tr'[k].pc = "pre" /\ tr'[k].closed = TRUE BY <1>1, <1>2, <3>4 DEF TrState
    <3> QED BY <3>3, <3>4, <3>5 DEF TrTo
  <2> QED BY <1>2, <2>2 DEF S!Disconnect
<1>3. CASE tr[k].pc # "pre"
  <2> DEFINE r == [pc |-> IF tr[k].pc = "live" THEN "done" ELSE tr[k].pc, closed |-> TRUE]
  <2>1. r \in TrState /\ r.pc = (IF tr[k].pc = "live" THEN "done" ELSE tr[k].pc) /\ r.closed BY <1>1 DEF TrState
  <2>2. PICK d \in Commands : S!Send(d, k) /\ down' = d BY <1>1, <1>3 DEF S!Disconnect
  <2>3. tr' = [tr EXCEPT ![k] = r] /\ lock' = lock /\ cur' = None BY <1>1, <1>3 DEF S!Disconnect
  <2> HIDE DEF r
  <2>4. TrTo(k, r.pc, TRUE) BY <2>1, <2>3 DEF CallTypes, TrTo
  <2> QED BY <1>3, <2>1, <2>2, <2>3, <2>4, SendIs
<1> QED BY <1>2, <1>3

LEMMA DisconnectKeeps ==
    ASSUME CallInv, NEW k \in Calls, cur = k, S!Disconnect(k), UNCHANGED <<S!shell, join, check, tries, missed, loads>>
    PROVE  CallInv'
<1> USE DEF CallInv
<1>1. /\ cur = k /\ cur' = None /\ UNCHANGED <<session, claim, cancelled, con, room, join, check, tries, missed>>
  BY DisconnectIs DEF S!shell
<1>2. CASE /\ tr[k].pc = "pre" /\ TrTo(k, "pre", TRUE) /\ lock' = "free" /\ UNCHANGED <<dis, down>>
  <2>1. TrTo(k, "pre", TRUE) /\ tr[k].pc = "pre" /\ con[k].pc = "unused" /\ lock' = "free" /\ UNCHANGED <<dis, down>>
    BY <1>2 DEF PageInv
  <2>2. Strange' <=> Strange BY <1>1, <2>1 DEF Strange, InFlight, TrTo
  <2>20. CallTypes' BY CallAssumption, <1>1, <2>1, <2>2 DEF CallTypes, ConTo, TrTo, SentFor
  <2>21. ShellInv'
    BY CallAssumption, <1>1, <2>1, <2>2 DEF ShellInv, CallTypes, InFlight, Stored, Sent, DownFor, ConTo, TrTo,
       SentFor
  <2>22. PageInv'
    BY CallAssumption, <1>1, <2>1, <2>2 DEF PageInv, CallTypes, InFlight, Stored, Sent, DownFor, ConTo, TrTo,
       SentFor
  <2>23. \A j \in Calls : OwnInv(j)'
    BY CallAssumption, <1>1, <2>1, <2>2 DEF OwnInv, PageInv, ShellInv, CallTypes, InFlight, Stored, Sent,
       DownFor, ConTo, TrTo, SentFor
  <2>24. \A b \in Commands : HangUpInv(b)'
    BY CallAssumption, <1>1, <2>1, <2>2 DEF HangUpInv, OwnInv, PageInv, ShellInv, CallTypes, InFlight, Stored,
       Sent, DownFor, ConTo, TrTo, SentFor
  <2>25. FoundInv'
    BY CallAssumption, <1>1, <2>1, <2>2 DEF FoundInv, OwnInv, PageInv, ShellInv, CallTypes, InFlight, Stored,
       Sent, DownFor, ConTo, TrTo, SentFor
  <2>26. S!NoRoomIsLost'
    BY CallAssumption, <1>1, <2>1, <2>2 DEF S!NoRoomIsLost, ShellInv, CallTypes, ConTo, TrTo, SentFor
  <2> QED BY <2>20, <2>21, <2>22, <2>23, <2>24, <2>25, <2>26 DEF CallInv
<1>3. CASE /\ tr[k].pc # "pre" /\ lock' = lock /\ TrTo(k, IF tr[k].pc = "live" THEN "done" ELSE tr[k].pc, TRUE)
           /\ \E d \in Commands : SentFor(d, k) /\ down' = d
  <2>1. tr[k].pc \in {"ready", "sent", "live"} /\ TrTo(k, IF tr[k].pc = "live" THEN "done" ELSE tr[k].pc, TRUE)
    BY <1>1, <1>3 DEF PageInv
  <2>2. PICK d \in Commands : SentFor(d, k) /\ down' = d BY <1>3
  <2>3. lock = "me" /\ lock' = "me" /\ down = None /\ check.pc = "none" BY <1>1, <1>3, CallAssumption DEF PageInv
  <2>4. Strange' <=> Strange BY <1>1, <2>1 DEF Strange, InFlight, TrTo
  <2>5. /\ Strange => missed /\ \A b \in Commands : ~Sent(b)
        /\ session # None => session = k \/ (missed /\ tr[session].pc = "gone")
        /\ \A j \in Calls : InFlight(j) => cancelled \/ j = k \/ (missed /\ tr[j].pc = "gone")
    <3>1. Strange => missed BY <2>3 DEF FoundInv, DownFor
    <3>2. Strange => \A b \in Commands : ~Sent(b) BY <2>3, CallAssumption DEF HangUpInv
    <3>3. \A j \in Calls : session = j \/ InFlight(j) => Strange \/ tr[j].pc # "gone" BY DEF Strange
    <3>4. \A j \in Calls : session = j /\ tr[j].pc # "gone" => j = k BY <1>1, <2>3 DEF OwnInv, DownFor
    <3>5. \A j \in Calls : InFlight(j) /\ tr[j].pc # "gone" => cancelled \/ j = k BY <1>1, <2>3 DEF OwnInv, DownFor
    <3> QED BY <3>1, <3>2, <3>3, <3>4, <3>5 DEF CallTypes
  <2>20. CallTypes' BY CallAssumption, <1>1, <2>1, <2>2, <2>3, <2>4, <2>5 DEF CallTypes, ConTo, TrTo, SentFor
  <2>21. ShellInv'
    BY CallAssumption, <1>1, <2>1, <2>2, <2>3, <2>4, <2>5 DEF ShellInv, CallTypes, InFlight, Stored, Sent,
       DownFor, ConTo, TrTo, SentFor
  <2>22. PageInv'
    BY CallAssumption, <1>1, <2>1, <2>2, <2>3, <2>4, <2>5 DEF PageInv, CallTypes, InFlight, Stored, Sent,
       DownFor, ConTo, TrTo, SentFor
  <2>23. \A j \in Calls : OwnInv(j)'
    BY CallAssumption, <1>1, <2>1, <2>2, <2>3, <2>4, <2>5 DEF OwnInv, PageInv, ShellInv, CallTypes, InFlight,
       Stored, Sent, DownFor, ConTo, TrTo, SentFor
  <2>24. \A b \in Commands : HangUpInv(b)'
    BY CallAssumption, <1>1, <2>1, <2>2, <2>3, <2>4, <2>5 DEF HangUpInv, OwnInv, PageInv, ShellInv, CallTypes,
       InFlight, Stored, Sent, DownFor, ConTo, TrTo, SentFor
  <2>25. FoundInv'
    BY CallAssumption, <1>1, <2>1, <2>2, <2>3, <2>4, <2>5 DEF FoundInv, OwnInv, PageInv, ShellInv, CallTypes,
       InFlight, Stored, Sent, DownFor, ConTo, TrTo, SentFor
  <2>26. S!NoRoomIsLost'
    BY CallAssumption, <1>1, <2>1, <2>2, <2>3, <2>4, <2>5 DEF S!NoRoomIsLost, ShellInv, CallTypes, ConTo, TrTo,
       SentFor
  <2> QED BY <2>20, <2>21, <2>22, <2>23, <2>24, <2>25, <2>26 DEF CallInv
<1> QED BY <1>2, <1>3, DisconnectIs

LEMMA HangUpKeeps == ASSUME CallInv, S!HangUp PROVE CallInv'
<1> USE DEF CallInv
<1>1. CASE cur # None /\ S!Disconnect(cur) /\ UNCHANGED <<join, check>>
  <2>1. cur \in Calls BY <1>1 DEF CallTypes
  <2> QED BY <1>1, <2>1, DisconnectKeeps DEF S!HangUp
<1>2. CASE cur = None /\ join = "obtain" /\ join' = "none" /\ lock' = "free" /\ UNCHANGED <<dis, tr, cur, down, check>>
  <2>1. /\ cur = None /\ join = "obtain" /\ join' = "none" /\ lock' = "free"
        /\ UNCHANGED <<session, claim, cancelled, con, room, dis, tr, cur, down, check, missed>>
    BY <1>2 DEF S!HangUp, S!shell
  <2>2. Strange' <=> Strange BY <2>1 DEF Strange, InFlight
  <2>20. CallTypes' BY CallAssumption, <2>1, <2>2 DEF CallTypes, ConTo, TrTo, SentFor
  <2>21. ShellInv'
    BY CallAssumption, <2>1, <2>2 DEF ShellInv, CallTypes, InFlight, Stored, Sent, DownFor, ConTo, TrTo, SentFor
  <2>22. PageInv'
    BY CallAssumption, <2>1, <2>2 DEF PageInv, CallTypes, InFlight, Stored, Sent, DownFor, ConTo, TrTo, SentFor
  <2>23. \A j \in Calls : OwnInv(j)'
    BY CallAssumption, <2>1, <2>2 DEF OwnInv, PageInv, ShellInv, CallTypes, InFlight, Stored, Sent, DownFor,
       ConTo, TrTo, SentFor
  <2>24. \A b \in Commands : HangUpInv(b)'
    BY CallAssumption, <2>1, <2>2 DEF HangUpInv, OwnInv, PageInv, ShellInv, CallTypes, InFlight, Stored, Sent,
       DownFor, ConTo, TrTo, SentFor
  <2>25. FoundInv'
    BY CallAssumption, <2>1, <2>2 DEF FoundInv, OwnInv, PageInv, ShellInv, CallTypes, InFlight, Stored, Sent,
       DownFor, ConTo, TrTo, SentFor
  <2>26. S!NoRoomIsLost' BY CallAssumption, <2>1, <2>2 DEF S!NoRoomIsLost, ShellInv, CallTypes, ConTo, TrTo, SentFor
  <2> QED BY <2>20, <2>21, <2>22, <2>23, <2>24, <2>25, <2>26 DEF CallInv
<1> QED BY <1>1, <1>2 DEF S!HangUp

LEMMA HearsEndKeeps == ASSUME CallInv, NEW k \in Calls, S!HearsEnd(k) PROVE CallInv'
BY DisconnectKeeps DEF S!HearsEnd

LEMMA DownedKeeps == ASSUME CallInv, S!Downed PROVE CallInv'
<1> USE DEF CallInv
<1>1. /\ down \in Commands /\ dis[down].pc = "done" /\ down' = None /\ lock' = "free"
      /\ \A k \in Calls : ~(tr[k].pc = "sent" /\ con[k].pc \in {"return", "done"})
      /\ UNCHANGED <<session, claim, cancelled, con, room, dis, tr, cur, join, check, tries, missed>>
  BY DEF S!Downed, S!shell, CallTypes
<1>4. Strange' <=> Strange BY <1>1 DEF Strange, InFlight
<1>20. CallTypes' BY CallAssumption, <1>1, <1>4 DEF CallTypes, ConTo, TrTo, SentFor
<1>21. ShellInv'
  BY CallAssumption, <1>1, <1>4 DEF ShellInv, CallTypes, InFlight, Stored, Sent, DownFor, ConTo, TrTo, SentFor
<1>22. PageInv'
  BY CallAssumption, <1>1, <1>4 DEF PageInv, CallTypes, InFlight, Stored, Sent, DownFor, ConTo, TrTo, SentFor
<1>23. \A j \in Calls : OwnInv(j)'
  BY CallAssumption, <1>1, <1>4 DEF OwnInv, PageInv, ShellInv, CallTypes, InFlight, Stored, Sent, DownFor,
     ConTo, TrTo, SentFor
<1>24. \A b \in Commands : HangUpInv(b)'
  BY CallAssumption, <1>1, <1>4 DEF HangUpInv, OwnInv, PageInv, ShellInv, CallTypes, InFlight, Stored, Sent,
     DownFor, ConTo, TrTo, SentFor
<1>25. FoundInv'
  BY CallAssumption, <1>1, <1>4 DEF FoundInv, OwnInv, PageInv, ShellInv, CallTypes, InFlight, Stored, Sent,
     DownFor, ConTo, TrTo, SentFor
<1>26. S!NoRoomIsLost' BY CallAssumption, <1>1, <1>4 DEF S!NoRoomIsLost, ShellInv, CallTypes, ConTo, TrTo, SentFor
<1> QED BY <1>20, <1>21, <1>22, <1>23, <1>24, <1>25, <1>26 DEF CallInv

-----------------------------------------------------------------------------
(* The answers of the shell. *)

LEMMA AnsweredKeeps == ASSUME CallInv, NEW k \in Calls, S!Answered(k) PROVE CallInv'
<1> USE DEF CallInv
<1>1. /\ tr[k].pc = "sent" /\ con[k].pc = "done"
      /\ UNCHANGED <<session, claim, cancelled, con, room, join, check, tries, missed>>
  BY DEF S!Answered, S!shell
<1>2. tr[k] \in TrState /\ con[k] \in ConState BY DEF CallTypes
<1>3. CASE tr[k].closed /\ con[k].ans = "ok" /\ (\E d \in Commands : S!Send(d, k)) /\ tr' = [tr EXCEPT ![k].pc = "done"]
           /\ UNCHANGED <<cur, down, lock>>
  <2>1. TrTo(k, "done", TRUE)
    <3>1. [tr[k] EXCEPT !.pc = "done"] \in TrState BY <1>2 DEF TrState
    <3>2. TrTo(k, "done", tr[k].closed) BY <1>3, <3>1, TrMoves
    <3>3. tr[k].closed = TRUE BY <1>2, <1>3 DEF TrState
    <3> QED BY <3>2, <3>3
  <2>2. PICK d \in Commands : SentFor(d, k) BY <1>3, SendIs
  <2>3. UNCHANGED <<cur, down, lock>> /\ tr[k].closed /\ Stored(k) BY <1>1, <1>3 DEF Stored
  <2>4. /\ ~Strange /\ down # None /\ dis[down].for = k /\ cur = None /\ down # d
        /\ down \in Commands
    BY <1>1, <2>2, <2>3, CallAssumption DEF OwnInv, PageInv, CallTypes, SentFor
  <2>5. ~Strange' BY <1>1, <2>1, <2>4 DEF Strange, InFlight, TrTo
  <2>6. /\ session # None => session = k
        /\ \A j \in Calls : InFlight(j) => cancelled \/ j = k
    <3>1. \A j \in Calls : session = j \/ InFlight(j) => tr[j].pc # "gone" BY <2>4 DEF Strange
    <3> QED BY <2>4, <3>1, CallAssumption DEF OwnInv, DownFor, CallTypes
  <2>20. CallTypes' BY CallAssumption, <1>1, <2>1, <2>2, <2>3, <2>4, <2>5, <2>6 DEF CallTypes, ConTo, TrTo, SentFor
  <2>21. ShellInv'
    BY CallAssumption, <1>1, <2>1, <2>2, <2>3, <2>4, <2>5, <2>6 DEF ShellInv, CallTypes, InFlight, Stored,
       Sent, DownFor, ConTo, TrTo, SentFor
  <2>22. PageInv'
    BY CallAssumption, <1>1, <2>1, <2>2, <2>3, <2>4, <2>5, <2>6 DEF PageInv, CallTypes, InFlight, Stored, Sent,
       DownFor, ConTo, TrTo, SentFor
  <2>23. \A j \in Calls : OwnInv(j)'
    BY CallAssumption, <1>1, <2>1, <2>2, <2>3, <2>4, <2>5, <2>6 DEF OwnInv, PageInv, ShellInv, CallTypes,
       InFlight, Stored, Sent, DownFor, ConTo, TrTo, SentFor
  <2>24. \A b \in Commands : HangUpInv(b)'
    BY CallAssumption, <1>1, <2>1, <2>2, <2>3, <2>4, <2>5, <2>6 DEF HangUpInv, OwnInv, PageInv, ShellInv,
       CallTypes, InFlight, Stored, Sent, DownFor, ConTo, TrTo, SentFor
  <2>25. FoundInv'
    BY CallAssumption, <1>1, <2>1, <2>2, <2>3, <2>4, <2>5, <2>6 DEF FoundInv, OwnInv, PageInv, ShellInv,
       CallTypes, InFlight, Stored, Sent, DownFor, ConTo, TrTo, SentFor
  <2>26. S!NoRoomIsLost'
    BY CallAssumption, <1>1, <2>1, <2>2, <2>3, <2>4, <2>5, <2>6 DEF S!NoRoomIsLost, ShellInv, CallTypes, ConTo,
       TrTo, SentFor
  <2> QED BY <2>20, <2>21, <2>22, <2>23, <2>24, <2>25, <2>26 DEF CallInv
<1>4. CASE tr[k].closed /\ con[k].ans # "ok" /\ tr' = [tr EXCEPT ![k].pc = "done"] /\ UNCHANGED <<dis, cur, down, lock>>
  <2>1. TrTo(k, "done", tr[k].closed)
    <3>1. [tr[k] EXCEPT !.pc = "done"] \in TrState BY <1>2 DEF TrState
    <3> QED BY <1>4, <3>1, TrMoves
  <2>2. UNCHANGED <<dis, cur, down, lock>> /\ tr[k].closed /\ ~Stored(k) /\ ~InFlight(k)
    BY <1>1, <1>4 DEF Stored, InFlight
  <2>3. Strange' <=> Strange BY <1>1, <2>1 DEF Strange, InFlight, TrTo
  <2>20. CallTypes' BY CallAssumption, <1>1, <2>1, <2>2, <2>3 DEF CallTypes, ConTo, TrTo, SentFor
  <2>21. ShellInv'
    BY CallAssumption, <1>1, <2>1, <2>2, <2>3 DEF ShellInv, CallTypes, InFlight, Stored, Sent, DownFor, ConTo,
       TrTo, SentFor
  <2>22. PageInv'
    BY CallAssumption, <1>1, <2>1, <2>2, <2>3 DEF PageInv, CallTypes, InFlight, Stored, Sent, DownFor, ConTo,
       TrTo, SentFor
  <2>23. \A j \in Calls : OwnInv(j)'
    BY CallAssumption, <1>1, <2>1, <2>2, <2>3 DEF OwnInv, PageInv, ShellInv, CallTypes, InFlight, Stored, Sent,
       DownFor, ConTo, TrTo, SentFor
  <2>24. \A b \in Commands : HangUpInv(b)'
    BY CallAssumption, <1>1, <2>1, <2>2, <2>3 DEF HangUpInv, OwnInv, PageInv, ShellInv, CallTypes, InFlight,
       Stored, Sent, DownFor, ConTo, TrTo, SentFor
  <2>25. FoundInv'
    BY CallAssumption, <1>1, <2>1, <2>2, <2>3 DEF FoundInv, OwnInv, PageInv, ShellInv, CallTypes, InFlight,
       Stored, Sent, DownFor, ConTo, TrTo, SentFor
  <2>26. S!NoRoomIsLost'
    BY CallAssumption, <1>1, <2>1, <2>2, <2>3 DEF S!NoRoomIsLost, ShellInv, CallTypes, ConTo, TrTo, SentFor
  <2> QED BY <2>20, <2>21, <2>22, <2>23, <2>24, <2>25, <2>26 DEF CallInv
<1>5. CASE ~tr[k].closed /\ con[k].ans = "ok" /\ tr' = [tr EXCEPT ![k].pc = "live"] /\ UNCHANGED <<dis, cur, down, lock>>
  <2>1. TrTo(k, "live", tr[k].closed)
    <3>1. [tr[k] EXCEPT !.pc = "live"] \in TrState BY <1>2 DEF TrState
    <3> QED BY <1>5, <3>1, TrMoves
  <2>2. UNCHANGED <<dis, cur, down, lock>> /\ ~tr[k].closed /\ Stored(k) /\ ~InFlight(k)
    BY <1>1, <1>5 DEF Stored, InFlight
  <2>3. Strange' <=> Strange BY <1>1, <2>1 DEF Strange, InFlight, TrTo
  <2>4. session = k /\ cur = k BY <1>1, <2>2 DEF OwnInv, PageInv
  <2>20. CallTypes' BY CallAssumption, <1>1, <2>1, <2>2, <2>3, <2>4 DEF CallTypes, ConTo, TrTo, SentFor
  <2>21. ShellInv'
    BY CallAssumption, <1>1, <2>1, <2>2, <2>3, <2>4 DEF ShellInv, CallTypes, InFlight, Stored, Sent, DownFor,
       ConTo, TrTo, SentFor
  <2>22. PageInv'
    BY CallAssumption, <1>1, <2>1, <2>2, <2>3, <2>4 DEF PageInv, CallTypes, InFlight, Stored, Sent, DownFor,
       ConTo, TrTo, SentFor
  <2>23. \A j \in Calls : OwnInv(j)'
    BY CallAssumption, <1>1, <2>1, <2>2, <2>3, <2>4 DEF OwnInv, PageInv, ShellInv, CallTypes, InFlight, Stored,
       Sent, DownFor, ConTo, TrTo, SentFor
  <2>24. \A b \in Commands : HangUpInv(b)'
    BY CallAssumption, <1>1, <2>1, <2>2, <2>3, <2>4 DEF HangUpInv, OwnInv, PageInv, ShellInv, CallTypes,
       InFlight, Stored, Sent, DownFor, ConTo, TrTo, SentFor
  <2>25. FoundInv'
    BY CallAssumption, <1>1, <2>1, <2>2, <2>3, <2>4 DEF FoundInv, OwnInv, PageInv, ShellInv, CallTypes,
       InFlight, Stored, Sent, DownFor, ConTo, TrTo, SentFor
  <2>26. S!NoRoomIsLost'
    BY CallAssumption, <1>1, <2>1, <2>2, <2>3, <2>4 DEF S!NoRoomIsLost, ShellInv, CallTypes, ConTo, TrTo, SentFor
  <2> QED BY <2>20, <2>21, <2>22, <2>23, <2>24, <2>25, <2>26 DEF CallInv
<1>6. CASE /\ ~tr[k].closed /\ con[k].ans = "already" /\ tr' = [tr EXCEPT ![k] = [pc |-> "done", closed |-> TRUE]]
           /\ cur' = None /\ lock' = "free" /\ UNCHANGED <<dis, down>>
  <2>1. TrTo(k, "done", TRUE)
    <3>1. [pc |-> "done", closed |-> TRUE] \in TrState BY DEF TrState
    <3> QED BY <1>6, <3>1, TrBecomes
  <2>2. cur' = None /\ lock' = "free" /\ UNCHANGED <<dis, down>> /\ ~tr[k].closed /\ ~Stored(k) /\ ~InFlight(k)
    BY <1>1, <1>6 DEF Stored, InFlight
  <2>3. Strange' <=> Strange BY <1>1, <2>1 DEF Strange, InFlight, TrTo
  <2>4. session # k /\ cur = k /\ down = None /\ check.pc = "none" /\ join \notin {"lock", "obtain"}
    BY <1>1, <2>2, CallAssumption DEF ShellInv, PageInv
  <2>20. CallTypes' BY CallAssumption, <1>1, <2>1, <2>2, <2>3, <2>4 DEF CallTypes, ConTo, TrTo, SentFor
  <2>21. ShellInv'
    BY CallAssumption, <1>1, <2>1, <2>2, <2>3, <2>4 DEF ShellInv, CallTypes, InFlight, Stored, Sent, DownFor,
       ConTo, TrTo, SentFor
  <2>22. PageInv'
    BY CallAssumption, <1>1, <2>1, <2>2, <2>3, <2>4 DEF PageInv, CallTypes, InFlight, Stored, Sent, DownFor,
       ConTo, TrTo, SentFor
  <2>23. \A j \in Calls : OwnInv(j)'
    BY CallAssumption, <1>1, <2>1, <2>2, <2>3, <2>4 DEF OwnInv, PageInv, ShellInv, CallTypes, InFlight, Stored,
       Sent, DownFor, ConTo, TrTo, SentFor
  <2>24. \A b \in Commands : HangUpInv(b)'
    BY CallAssumption, <1>1, <2>1, <2>2, <2>3, <2>4 DEF HangUpInv, OwnInv, PageInv, ShellInv, CallTypes,
       InFlight, Stored, Sent, DownFor, ConTo, TrTo, SentFor
  <2>25. FoundInv'
    BY CallAssumption, <1>1, <2>1, <2>2, <2>3, <2>4 DEF FoundInv, OwnInv, PageInv, ShellInv, CallTypes,
       InFlight, Stored, Sent, DownFor, ConTo, TrTo, SentFor
  <2>26. S!NoRoomIsLost'
    BY CallAssumption, <1>1, <2>1, <2>2, <2>3, <2>4 DEF S!NoRoomIsLost, ShellInv, CallTypes, ConTo, TrTo, SentFor
  <2> QED BY <2>20, <2>21, <2>22, <2>23, <2>24, <2>25, <2>26 DEF CallInv
<1>7. CASE /\ ~tr[k].closed /\ con[k].ans \in {"cancelled", "failed"} /\ (\E d \in Commands : S!Send(d, k) /\ down' = d)
           /\ tr' = [tr EXCEPT ![k] = [pc |-> "done", closed |-> TRUE]] /\ cur' = None /\ lock' = lock
  <2>1. TrTo(k, "done", TRUE)
    <3>1. [pc |-> "done", closed |-> TRUE] \in TrState BY DEF TrState
    <3> QED BY <1>7, <3>1, TrBecomes
  <2>2. cur' = None /\ lock' = lock /\ ~tr[k].closed /\ ~Stored(k) /\ ~InFlight(k)
    BY <1>1, <1>7 DEF Stored, InFlight
  <2>3. PICK d \in Commands : SentFor(d, k) /\ down' = d BY <1>7, SendIs
  <2>4. Strange' <=> Strange BY <1>1, <2>1 DEF Strange, InFlight, TrTo
  <2>5. session # k /\ cur = k /\ down = None /\ lock = "me" /\ check.pc = "none" /\ join \notin {"lock", "obtain"}
    BY <1>1, <2>2, CallAssumption DEF ShellInv, PageInv
  <2>6. /\ Strange => missed /\ \A b \in Commands : ~Sent(b)
        /\ session # None => missed /\ tr[session].pc = "gone"
        /\ \A j \in Calls : InFlight(j) => cancelled \/ (missed /\ tr[j].pc = "gone")
    <3>1. Strange => missed BY <2>5 DEF FoundInv, DownFor
    <3>2. Strange => \A b \in Commands : ~Sent(b) BY <2>3, <2>5, CallAssumption DEF HangUpInv
    <3>3. \A j \in Calls : session = j \/ InFlight(j) => Strange \/ tr[j].pc # "gone" BY DEF Strange
    <3>4. \A j \in Calls : session = j => tr[j].pc = "gone" BY <2>5 DEF OwnInv, DownFor
    <3>5. \A j \in Calls : InFlight(j) /\ tr[j].pc # "gone" => cancelled BY <2>2, <2>5 DEF OwnInv, DownFor
    <3> QED BY <3>1, <3>2, <3>3, <3>4, <3>5 DEF CallTypes
  <2>20. CallTypes' BY CallAssumption, <1>1, <2>1, <2>2, <2>3, <2>4, <2>5, <2>6 DEF CallTypes, ConTo, TrTo, SentFor
  <2>21. ShellInv'
    BY CallAssumption, <1>1, <2>1, <2>2, <2>3, <2>4, <2>5, <2>6 DEF ShellInv, CallTypes, InFlight, Stored,
       Sent, DownFor, ConTo, TrTo, SentFor
  <2>22. PageInv'
    BY CallAssumption, <1>1, <2>1, <2>2, <2>3, <2>4, <2>5, <2>6 DEF PageInv, CallTypes, InFlight, Stored, Sent,
       DownFor, ConTo, TrTo, SentFor
  <2>23. \A j \in Calls : OwnInv(j)'
    BY CallAssumption, <1>1, <2>1, <2>2, <2>3, <2>4, <2>5, <2>6 DEF OwnInv, PageInv, ShellInv, CallTypes,
       InFlight, Stored, Sent, DownFor, ConTo, TrTo, SentFor
  <2>24. \A b \in Commands : HangUpInv(b)'
    BY CallAssumption, <1>1, <2>1, <2>2, <2>3, <2>4, <2>5, <2>6 DEF HangUpInv, OwnInv, PageInv, ShellInv,
       CallTypes, InFlight, Stored, Sent, DownFor, ConTo, TrTo, SentFor
  <2>25. FoundInv'
    BY CallAssumption, <1>1, <2>1, <2>2, <2>3, <2>4, <2>5, <2>6 DEF FoundInv, OwnInv, PageInv, ShellInv,
       CallTypes, InFlight, Stored, Sent, DownFor, ConTo, TrTo, SentFor
  <2>26. S!NoRoomIsLost'
    BY CallAssumption, <1>1, <2>1, <2>2, <2>3, <2>4, <2>5, <2>6 DEF S!NoRoomIsLost, ShellInv, CallTypes, ConTo,
       TrTo, SentFor
  <2> QED BY <2>20, <2>21, <2>22, <2>23, <2>24, <2>25, <2>26 DEF CallInv
<1> QED BY <1>3, <1>4, <1>5, <1>6, <1>7 DEF S!Answered

-----------------------------------------------------------------------------
(* The check for a call of the page before. *)

LEMMA NoCheckIs == S!NoCheck \in CheckState /\ S!NoCheck.pc = "none"
BY DEF S!NoCheck, CheckState

LEMMA ReadsClaimKeeps == ASSUME CallInv, S!ReadsClaim PROVE CallInv'
<1> USE DEF CallInv
<1>1. /\ check.pc = "poll"
      /\ UNCHANGED <<session, claim, cancelled, con, room, dis, tr, cur, join, down, tries, missed, lock>>
  BY DEF S!ReadsClaim, S!shell
<1>2. check' \in CheckState /\ check'.pc = "read" /\ check'.saw = (claim # None)
  <2>1. check \in CheckState /\ (claim # None) \in BOOLEAN BY DEF CallTypes
  <2> QED BY <2>1 DEF S!ReadsClaim, CheckState
<1>3. claim = None => \A j \in Calls : ~InFlight(j) BY CallAssumption DEF ShellInv, InFlight
<1>4. Strange' <=> Strange BY <1>1 DEF Strange, InFlight
<1>20. CallTypes' BY CallAssumption, <1>1, <1>2, <1>3, <1>4 DEF CallTypes, ConTo, TrTo, SentFor
<1>21. ShellInv'
  BY CallAssumption, <1>1, <1>2, <1>3, <1>4 DEF ShellInv, CallTypes, InFlight, Stored, Sent, DownFor, ConTo,
     TrTo, SentFor
<1>22. PageInv'
  BY CallAssumption, <1>1, <1>2, <1>3, <1>4 DEF PageInv, CallTypes, InFlight, Stored, Sent, DownFor, ConTo,
     TrTo, SentFor
<1>23. \A j \in Calls : OwnInv(j)'
  BY CallAssumption, <1>1, <1>2, <1>3, <1>4 DEF OwnInv, PageInv, ShellInv, CallTypes, InFlight, Stored, Sent,
     DownFor, ConTo, TrTo, SentFor
<1>24. \A b \in Commands : HangUpInv(b)'
  BY CallAssumption, <1>1, <1>2, <1>3, <1>4 DEF HangUpInv, OwnInv, PageInv, ShellInv, CallTypes, InFlight,
     Stored, Sent, DownFor, ConTo, TrTo, SentFor
<1>25. FoundInv'
  BY CallAssumption, <1>1, <1>2, <1>3, <1>4 DEF FoundInv, OwnInv, PageInv, ShellInv, CallTypes, InFlight,
     Stored, Sent, DownFor, ConTo, TrTo, SentFor
<1>26. S!NoRoomIsLost'
  BY CallAssumption, <1>1, <1>2, <1>3, <1>4 DEF S!NoRoomIsLost, ShellInv, CallTypes, ConTo, TrTo, SentFor
<1> QED BY <1>20, <1>21, <1>22, <1>23, <1>24, <1>25, <1>26 DEF CallInv

LEMMA SettlesReadingKeeps == ASSUME CallInv, S!SettlesReading PROVE CallInv'
<1> USE DEF CallInv
<1>1. /\ check.pc = "read"
      /\ UNCHANGED <<session, claim, cancelled, con, room, dis, tr, cur, join, down, tries, lock>>
  BY DEF S!SettlesReading, S!shell
<1>4. Strange' <=> Strange BY <1>1 DEF Strange, InFlight
<1>5. check \in CheckState BY DEF CallTypes
<1>6. down = None /\ cur = None BY <1>1, CallAssumption DEF PageInv
<1>2. CASE session # None /\ check' = [check EXCEPT !.pc = "lock", !.found = session] /\ missed' = missed
  <2>1. /\ check' \in CheckState /\ check'.pc = "lock" /\ check'.found = session /\ missed' = missed
        /\ session \in Calls
    BY <1>2, <1>5 DEF CheckState, CallTypes
  <2>2. tr[session].pc = "gone" BY <1>6, <2>1, CallAssumption DEF OwnInv, DownFor
  <2>20. CallTypes' BY CallAssumption, <1>1, <1>4, <1>6, <2>1, <2>2 DEF CallTypes, ConTo, TrTo, SentFor
  <2>21. ShellInv'
    BY CallAssumption, <1>1, <1>4, <1>6, <2>1, <2>2 DEF ShellInv, CallTypes, InFlight, Stored, Sent, DownFor,
       ConTo, TrTo, SentFor
  <2>22. PageInv'
    BY CallAssumption, <1>1, <1>4, <1>6, <2>1, <2>2 DEF PageInv, CallTypes, InFlight, Stored, Sent, DownFor,
       ConTo, TrTo, SentFor
  <2>23. \A j \in Calls : OwnInv(j)'
    BY CallAssumption, <1>1, <1>4, <1>6, <2>1, <2>2 DEF OwnInv, PageInv, ShellInv, CallTypes, InFlight, Stored,
       Sent, DownFor, ConTo, TrTo, SentFor
  <2>24. \A b \in Commands : HangUpInv(b)'
    BY CallAssumption, <1>1, <1>4, <1>6, <2>1, <2>2 DEF HangUpInv, OwnInv, PageInv, ShellInv, CallTypes,
       InFlight, Stored, Sent, DownFor, ConTo, TrTo, SentFor
  <2>25. FoundInv'
    BY CallAssumption, <1>1, <1>4, <1>6, <2>1, <2>2 DEF FoundInv, OwnInv, PageInv, ShellInv, CallTypes,
       InFlight, Stored, Sent, DownFor, ConTo, TrTo, SentFor
  <2>26. S!NoRoomIsLost'
    BY CallAssumption, <1>1, <1>4, <1>6, <2>1, <2>2 DEF S!NoRoomIsLost, ShellInv, CallTypes, ConTo, TrTo, SentFor
  <2> QED BY <2>20, <2>21, <2>22, <2>23, <2>24, <2>25, <2>26 DEF CallInv
<1>3. CASE session = None /\ check.saw /\ check' = [check EXCEPT !.pc = "poll"] /\ missed' = missed
  <2>1. check' \in CheckState /\ check'.pc = "poll" /\ missed' = missed BY <1>3, <1>5 DEF CheckState
  <2>20. CallTypes' BY CallAssumption, <1>1, <1>4, <1>6, <2>1 DEF CallTypes, ConTo, TrTo, SentFor
  <2>21. ShellInv'
    BY CallAssumption, <1>1, <1>4, <1>6, <2>1 DEF ShellInv, CallTypes, InFlight, Stored, Sent, DownFor, ConTo,
       TrTo, SentFor
  <2>22. PageInv'
    BY CallAssumption, <1>1, <1>4, <1>6, <2>1 DEF PageInv, CallTypes, InFlight, Stored, Sent, DownFor, ConTo,
       TrTo, SentFor
  <2>23. \A j \in Calls : OwnInv(j)'
    BY CallAssumption, <1>1, <1>4, <1>6, <2>1 DEF OwnInv, PageInv, ShellInv, CallTypes, InFlight, Stored, Sent,
       DownFor, ConTo, TrTo, SentFor
  <2>24. \A b \in Commands : HangUpInv(b)'
    BY CallAssumption, <1>1, <1>4, <1>6, <2>1 DEF HangUpInv, OwnInv, PageInv, ShellInv, CallTypes, InFlight,
       Stored, Sent, DownFor, ConTo, TrTo, SentFor
  <2>25. FoundInv'
    BY CallAssumption, <1>1, <1>4, <1>6, <2>1 DEF FoundInv, OwnInv, PageInv, ShellInv, CallTypes, InFlight,
       Stored, Sent, DownFor, ConTo, TrTo, SentFor
  <2>26. S!NoRoomIsLost'
    BY CallAssumption, <1>1, <1>4, <1>6, <2>1 DEF S!NoRoomIsLost, ShellInv, CallTypes, ConTo, TrTo, SentFor
  <2> QED BY <2>20, <2>21, <2>22, <2>23, <2>24, <2>25, <2>26 DEF CallInv
<1>7. CASE session = None /\ check' = S!NoCheck /\ (missed' = TRUE \/ (~check.saw /\ missed' = FALSE))
  <2>1. check' \in CheckState /\ check'.pc = "none" BY <1>7, NoCheckIs
  <2>2. session = None /\ (missed' = TRUE \/ (~check.saw /\ missed' = FALSE)) BY <1>7
  <2>3. missed' = TRUE \/ ~Strange
    BY <1>1, <2>2, CallAssumption DEF Strange, FoundInv
  <2>5. ~missed BY <1>1 DEF PageInv
  <2>20. CallTypes' BY CallAssumption, <1>1, <1>4, <1>6, <2>1, <2>2, <2>3, <2>5 DEF CallTypes, ConTo, TrTo, SentFor
  <2>21. ShellInv'
    BY CallAssumption, <1>1, <1>4, <1>6, <2>1, <2>2, <2>3, <2>5 DEF ShellInv, CallTypes, InFlight, Stored,
       Sent, DownFor, ConTo, TrTo, SentFor
  <2>22. PageInv'
    BY CallAssumption, <1>1, <1>4, <1>6, <2>1, <2>2, <2>3, <2>5 DEF PageInv, CallTypes, InFlight, Stored, Sent,
       DownFor, ConTo, TrTo, SentFor
  <2>23. \A j \in Calls : OwnInv(j)'
    BY CallAssumption, <1>1, <1>4, <1>6, <2>1, <2>2, <2>3, <2>5 DEF OwnInv, PageInv, ShellInv, CallTypes,
       InFlight, Stored, Sent, DownFor, ConTo, TrTo, SentFor
  <2>24. \A b \in Commands : HangUpInv(b)'
    BY CallAssumption, <1>1, <1>4, <1>6, <2>1, <2>2, <2>3, <2>5 DEF HangUpInv, OwnInv, PageInv, ShellInv,
       CallTypes, InFlight, Stored, Sent, DownFor, ConTo, TrTo, SentFor
  <2>25. FoundInv'
    BY CallAssumption, <1>1, <1>4, <1>6, <2>1, <2>2, <2>3, <2>5 DEF FoundInv, OwnInv, PageInv, ShellInv,
       CallTypes, InFlight, Stored, Sent, DownFor, ConTo, TrTo, SentFor
  <2>26. S!NoRoomIsLost'
    BY CallAssumption, <1>1, <1>4, <1>6, <2>1, <2>2, <2>3, <2>5 DEF S!NoRoomIsLost, ShellInv, CallTypes, ConTo,
       TrTo, SentFor
  <2> QED BY <2>20, <2>21, <2>22, <2>23, <2>24, <2>25, <2>26 DEF CallInv
<1> QED BY <1>2, <1>3, <1>7 DEF S!SettlesReading, S!Settled

LEMMA CheckLocksKeeps == ASSUME CallInv, S!CheckLocks PROVE CallInv'
<1> USE DEF CallInv
<1>1. /\ check.pc = "lock"
      /\ UNCHANGED <<session, claim, cancelled, con, room, dis, tr, cur, join, down>>
  BY DEF S!CheckLocks, S!shell
<1>4. Strange' <=> Strange BY <1>1 DEF Strange, InFlight
<1>5. check \in CheckState BY DEF CallTypes
<1>2. CASE lock' = "me" /\ check' = [check EXCEPT !.pc = "decide"] /\ missed' = missed
  <2>1. /\ check' \in CheckState /\ check'.pc = "decide" /\ check'.found = check.found /\ missed' = missed /\ lock' = "me"
    BY <1>2, <1>5 DEF CheckState
  <2>2. join \notin {"lock", "obtain"} /\ cur = None /\ down = None BY <1>1, CallAssumption DEF PageInv
  <2>20. CallTypes' BY CallAssumption, <1>1, <1>4, <2>1, <2>2 DEF CallTypes, ConTo, TrTo, SentFor
  <2>21. ShellInv'
    BY CallAssumption, <1>1, <1>4, <2>1, <2>2 DEF ShellInv, CallTypes, InFlight, Stored, Sent, DownFor, ConTo,
       TrTo, SentFor
  <2>22. PageInv'
    BY CallAssumption, <1>1, <1>4, <2>1, <2>2 DEF PageInv, CallTypes, InFlight, Stored, Sent, DownFor, ConTo,
       TrTo, SentFor
  <2>23. \A j \in Calls : OwnInv(j)'
    BY CallAssumption, <1>1, <1>4, <2>1, <2>2 DEF OwnInv, PageInv, ShellInv, CallTypes, InFlight, Stored, Sent,
       DownFor, ConTo, TrTo, SentFor
  <2>24. \A b \in Commands : HangUpInv(b)'
    BY CallAssumption, <1>1, <1>4, <2>1, <2>2 DEF HangUpInv, OwnInv, PageInv, ShellInv, CallTypes, InFlight,
       Stored, Sent, DownFor, ConTo, TrTo, SentFor
  <2>25. FoundInv'
    BY CallAssumption, <1>1, <1>4, <2>1, <2>2 DEF FoundInv, OwnInv, PageInv, ShellInv, CallTypes, InFlight,
       Stored, Sent, DownFor, ConTo, TrTo, SentFor
  <2>26. S!NoRoomIsLost'
    BY CallAssumption, <1>1, <1>4, <2>1, <2>2 DEF S!NoRoomIsLost, ShellInv, CallTypes, ConTo, TrTo, SentFor
  <2> QED BY <2>20, <2>21, <2>22, <2>23, <2>24, <2>25, <2>26 DEF CallInv
<1>3. CASE check' = S!NoCheck /\ missed' = TRUE /\ lock' = lock
  <2>1. check' \in CheckState /\ check'.pc = "none" /\ missed' = TRUE /\ lock' = lock BY <1>3, NoCheckIs
  <2>2. ~missed BY <1>1 DEF PageInv
  <2>20. CallTypes' BY CallAssumption, <1>1, <1>4, <2>1, <2>2 DEF CallTypes, ConTo, TrTo, SentFor
  <2>21. ShellInv'
    BY CallAssumption, <1>1, <1>4, <2>1, <2>2 DEF ShellInv, CallTypes, InFlight, Stored, Sent, DownFor, ConTo,
       TrTo, SentFor
  <2>22. PageInv'
    BY CallAssumption, <1>1, <1>4, <2>1, <2>2 DEF PageInv, CallTypes, InFlight, Stored, Sent, DownFor, ConTo,
       TrTo, SentFor
  <2>23. \A j \in Calls : OwnInv(j)'
    BY CallAssumption, <1>1, <1>4, <2>1, <2>2 DEF OwnInv, PageInv, ShellInv, CallTypes, InFlight, Stored, Sent,
       DownFor, ConTo, TrTo, SentFor
  <2>24. \A b \in Commands : HangUpInv(b)'
    BY CallAssumption, <1>1, <1>4, <2>1, <2>2 DEF HangUpInv, OwnInv, PageInv, ShellInv, CallTypes, InFlight,
       Stored, Sent, DownFor, ConTo, TrTo, SentFor
  <2>25. FoundInv'
    BY CallAssumption, <1>1, <1>4, <2>1, <2>2 DEF FoundInv, OwnInv, PageInv, ShellInv, CallTypes, InFlight,
       Stored, Sent, DownFor, ConTo, TrTo, SentFor
  <2>26. S!NoRoomIsLost'
    BY CallAssumption, <1>1, <1>4, <2>1, <2>2 DEF S!NoRoomIsLost, ShellInv, CallTypes, ConTo, TrTo, SentFor
  <2> QED BY <2>20, <2>21, <2>22, <2>23, <2>24, <2>25, <2>26 DEF CallInv
<1> QED BY <1>2, <1>3 DEF S!CheckLocks, S!Settled

\* A call of the page before that is sent a hang-up, and the check is over.
LEMMA DropKeeps ==
    ASSUME CallInv, check.pc \in {"decide", "adopt"}, NEW d \in Commands, S!Send(d, check.found), down' = d,
           check' = S!NoCheck, UNCHANGED <<S!shell, tr, cur, join, tries, missed, lock>>
    PROVE  CallInv'
<1> USE DEF CallInv
<1> DEFINE k == check.found
<1>1. /\ k \in Calls /\ tr[k].pc = "gone" /\ lock = "me" /\ ~missed /\ cur = None /\ down = None
      /\ join \notin {"lock", "obtain"}
  BY CallAssumption DEF FoundInv, PageInv
<1>2. SentFor(d, k) /\ down' = d BY <1>1, SendIs
<1>3. check' \in CheckState /\ check'.pc = "none" /\ UNCHANGED <<session, claim, cancelled, con, room, tr, cur, join, missed, lock>>
  BY NoCheckIs DEF S!shell
<1>4. Strange' <=> Strange BY <1>3 DEF Strange, InFlight
<1>5. Strange => session = k BY <1>1 DEF FoundInv, DownFor
<1>6. /\ session # None => session = k
      /\ \A j \in Calls : InFlight(j) => cancelled
  <2>1. \A j \in Calls : session = j \/ InFlight(j) => Strange \/ tr[j].pc # "gone" BY DEF Strange
  <2>2. \A j \in Calls : session = j => Strange
    <3>1. ASSUME NEW j \in Calls, session = j, tr[j].pc # "gone" PROVE FALSE
      <4>1. (cur = j /\ tr[j].pc \in {"sent", "live"}) \/ DownFor(j) BY <3>1 DEF OwnInv
      <4>2. cur # j /\ ~DownFor(j) BY <1>1, <3>1, CallAssumption DEF DownFor
      <4> QED BY <4>1, <4>2
    <3> QED BY <3>1 DEF Strange
  <2>3. \A j \in Calls : InFlight(j) => cancelled
    BY <1>1, <1>5, <2>1, CallAssumption DEF OwnInv, DownFor, ShellInv
  <2> QED BY <1>5, <2>2, <2>3 DEF CallTypes
<1>7. Strange => \A b \in Commands : ~Sent(b) BY <1>1, CallAssumption DEF HangUpInv
<1>8. \A b \in Commands : Sent(b) => tr[dis[b].for].pc # "gone" BY <1>1, CallAssumption DEF HangUpInv
<1> HIDE DEF k
<1>20. CallTypes'
  BY CallAssumption, <1>1, <1>2, <1>3, <1>4, <1>5, <1>6, <1>7, <1>8 DEF CallTypes, ConTo, TrTo, SentFor
<1>21. ShellInv'
  BY CallAssumption, <1>1, <1>2, <1>3, <1>4, <1>5, <1>6, <1>7, <1>8 DEF ShellInv, CallTypes, InFlight, Stored,
     Sent, DownFor, ConTo, TrTo, SentFor
<1>22. PageInv'
  BY CallAssumption, <1>1, <1>2, <1>3, <1>4, <1>5, <1>6, <1>7, <1>8 DEF PageInv, CallTypes, InFlight, Stored,
     Sent, DownFor, ConTo, TrTo, SentFor
<1>23. \A j \in Calls : OwnInv(j)'
  BY CallAssumption, <1>1, <1>2, <1>3, <1>4, <1>5, <1>6, <1>7, <1>8 DEF OwnInv, PageInv, ShellInv, CallTypes,
     InFlight, Stored, Sent, DownFor, ConTo, TrTo, SentFor
<1>24. \A b \in Commands : HangUpInv(b)'
  BY CallAssumption, <1>1, <1>2, <1>3, <1>4, <1>5, <1>6, <1>7, <1>8 DEF HangUpInv, OwnInv, PageInv, ShellInv,
     CallTypes, InFlight, Stored, Sent, DownFor, ConTo, TrTo, SentFor
<1>25. FoundInv'
  BY CallAssumption, <1>1, <1>2, <1>3, <1>4, <1>5, <1>6, <1>7, <1>8 DEF FoundInv, OwnInv, PageInv, ShellInv,
     CallTypes, InFlight, Stored, Sent, DownFor, ConTo, TrTo, SentFor
<1>26. S!NoRoomIsLost'
  BY CallAssumption, <1>1, <1>2, <1>3, <1>4, <1>5, <1>6, <1>7, <1>8 DEF S!NoRoomIsLost, ShellInv, CallTypes,
     ConTo, TrTo, SentFor
<1> QED BY <1>20, <1>21, <1>22, <1>23, <1>24, <1>25, <1>26 DEF CallInv

LEMMA DecidesKeeps == ASSUME CallInv, S!Decides PROVE CallInv'
<1> USE DEF CallInv
<1>1. check.pc = "decide" /\ UNCHANGED <<S!shell, tr, cur, join, tries, missed, lock>> BY DEF S!Decides
<1>2. CASE \E d \in Commands : S!Send(d, check.found) /\ down' = d /\ check' = S!NoCheck BY <1>1, <1>2, DropKeeps
<1>3. CASE check' = [check EXCEPT !.pc = "adopt"] /\ UNCHANGED <<dis, down>>
  <2>1. check \in CheckState BY DEF CallTypes
  <2>2. check' \in CheckState /\ check'.pc = "adopt" /\ check'.found = check.found BY <1>3, <2>1 DEF CheckState
  <2>3. UNCHANGED <<session, claim, cancelled, con, room, dis, tr, cur, join, down, missed, lock>>
    BY <1>1, <1>3 DEF S!shell
  <2>4. Strange' <=> Strange BY <2>3 DEF Strange, InFlight
  <2>20. CallTypes' BY CallAssumption, <1>1, <2>2, <2>3, <2>4 DEF CallTypes, ConTo, TrTo, SentFor
  <2>21. ShellInv'
    BY CallAssumption, <1>1, <2>2, <2>3, <2>4 DEF ShellInv, CallTypes, InFlight, Stored, Sent, DownFor, ConTo,
       TrTo, SentFor
  <2>22. PageInv'
    BY CallAssumption, <1>1, <2>2, <2>3, <2>4 DEF PageInv, CallTypes, InFlight, Stored, Sent, DownFor, ConTo,
       TrTo, SentFor
  <2>23. \A j \in Calls : OwnInv(j)'
    BY CallAssumption, <1>1, <2>2, <2>3, <2>4 DEF OwnInv, PageInv, ShellInv, CallTypes, InFlight, Stored, Sent,
       DownFor, ConTo, TrTo, SentFor
  <2>24. \A b \in Commands : HangUpInv(b)'
    BY CallAssumption, <1>1, <2>2, <2>3, <2>4 DEF HangUpInv, OwnInv, PageInv, ShellInv, CallTypes, InFlight,
       Stored, Sent, DownFor, ConTo, TrTo, SentFor
  <2>25. FoundInv'
    BY CallAssumption, <1>1, <2>2, <2>3, <2>4 DEF FoundInv, OwnInv, PageInv, ShellInv, CallTypes, InFlight,
       Stored, Sent, DownFor, ConTo, TrTo, SentFor
  <2>26. S!NoRoomIsLost'
    BY CallAssumption, <1>1, <2>2, <2>3, <2>4 DEF S!NoRoomIsLost, ShellInv, CallTypes, ConTo, TrTo, SentFor
  <2> QED BY <2>20, <2>21, <2>22, <2>23, <2>24, <2>25, <2>26 DEF CallInv
<1> QED BY <1>2, <1>3 DEF S!Decides

LEMMA AdoptsKeeps == ASSUME CallInv, S!Adopts PROVE CallInv'
<1> USE DEF CallInv
<1> DEFINE k == check.found
<1>1. /\ check.pc = "adopt" /\ check' = S!NoCheck /\ UNCHANGED <<S!shell, join, tries, missed, lock, loads>>
      /\ k \in Calls
  BY DEF S!Adopts, FoundInv
<1>2. CASE session # k /\ (\E d \in Commands : S!Send(d, k) /\ down' = d) /\ UNCHANGED <<tr, cur>>
  BY <1>1, <1>2, DropKeeps
<1>3. CASE session = k /\ tr' = [tr EXCEPT ![k] = [pc |-> "live", closed |-> FALSE]] /\ cur' = k /\ UNCHANGED <<dis, down>>
  <2>1. /\ tr[k].pc = "gone" /\ lock = "me" /\ ~missed /\ cur = None /\ down = None
        /\ join \notin {"lock", "obtain"} /\ session = k /\ cur' = k
    BY <1>1, <1>3, CallAssumption DEF FoundInv, PageInv
  <2>2. check' \in CheckState /\ check'.pc = "none"
        /\ UNCHANGED <<session, claim, cancelled, con, room, dis, down, join, missed, lock>>
    BY <1>1, <1>3, NoCheckIs DEF S!shell
  <2>3. TrTo(k, "live", FALSE)
    <3>1. [pc |-> "live", closed |-> FALSE] \in TrState BY DEF TrState
    <3> QED BY <1>1, <1>3, <3>1, TrBecomes
  <2>4. Stored(k) /\ \A j \in Calls : ~InFlight(j) BY <1>1, <2>1, CallAssumption DEF ShellInv
  <2>5. ~Strange' BY <1>1, <2>1, <2>2, <2>3, <2>4 DEF Strange, InFlight, TrTo
  <2>6. \A b \in Commands : ~Sent(b)
    <3>1. Strange BY <1>1, <2>1 DEF Strange
    <3> QED BY <2>1, <3>1, CallAssumption DEF HangUpInv
  <2>7. \A j \in Calls : tr[j].pc # "live" /\ (tr[j].pc \in {"pre", "ready", "sent"} => tr[j].closed)
    <3>1. ASSUME NEW j \in Calls PROVE tr[j].pc # "live" /\ (tr[j].pc \in {"pre", "ready", "sent"} => tr[j].closed)
      <4>1. cur # j BY <2>1, CallAssumption
      <4>2. /\ cur = j <=> tr[j].pc \in {"pre", "ready", "sent", "live"} /\ ~tr[j].closed
            /\ tr[j].pc = "live" => ~tr[j].closed
        BY DEF PageInv
      <4> QED BY <4>1, <4>2
    <3> QED BY <3>1
  <2>8. con[k].pc \notin {"unused", "sent"} BY <2>4 DEF Stored
  <2> HIDE DEF k
  <2>20. CallTypes'
    BY CallAssumption, <1>1, <2>1, <2>2, <2>3, <2>4, <2>5, <2>6, <2>7, <2>8 DEF CallTypes, ConTo, TrTo, SentFor
  <2>21. ShellInv'
    BY CallAssumption, <1>1, <2>1, <2>2, <2>3, <2>4, <2>5, <2>6, <2>7, <2>8 DEF ShellInv, CallTypes, InFlight,
       Stored, Sent, DownFor, ConTo, TrTo, SentFor
  <2>22. PageInv'
    BY CallAssumption, <1>1, <2>1, <2>2, <2>3, <2>4, <2>5, <2>6, <2>7, <2>8 DEF PageInv, CallTypes, InFlight,
       Stored, Sent, DownFor, ConTo, TrTo, SentFor
  <2>23. \A j \in Calls : OwnInv(j)'
    BY CallAssumption, <1>1, <2>1, <2>2, <2>3, <2>4, <2>5, <2>6, <2>7, <2>8 DEF OwnInv, PageInv, ShellInv,
       CallTypes, InFlight, Stored, Sent, DownFor, ConTo, TrTo, SentFor
  <2>24. \A b \in Commands : HangUpInv(b)'
    BY CallAssumption, <1>1, <2>1, <2>2, <2>3, <2>4, <2>5, <2>6, <2>7, <2>8 DEF HangUpInv, OwnInv, PageInv,
       ShellInv, CallTypes, InFlight, Stored, Sent, DownFor, ConTo, TrTo, SentFor
  <2>25. FoundInv'
    BY CallAssumption, <1>1, <2>1, <2>2, <2>3, <2>4, <2>5, <2>6, <2>7, <2>8 DEF FoundInv, OwnInv, PageInv,
       ShellInv, CallTypes, InFlight, Stored, Sent, DownFor, ConTo, TrTo, SentFor
  <2>26. S!NoRoomIsLost'
    BY CallAssumption, <1>1, <2>1, <2>2, <2>3, <2>4, <2>5, <2>6, <2>7, <2>8 DEF S!NoRoomIsLost, ShellInv,
       CallTypes, ConTo, TrTo, SentFor
  <2> QED BY <2>20, <2>21, <2>22, <2>23, <2>24, <2>25, <2>26 DEF CallInv
<1> QED BY <1>2, <1>3 DEF S!Adopts

-----------------------------------------------------------------------------
(* A reload. *)

LEMMA ReloadKeeps == ASSUME CallInv, S!Reload PROVE CallInv'
<1> USE DEF CallInv
<1>1. /\ \A j \in Calls : con[j].pc # "sent"
      /\ \A d \in Commands : ~Sent(d)
      /\ cur' = None /\ join' = "none" /\ down' = None /\ missed' = FALSE
      /\ lock' = (IF lock = "me" THEN "old" ELSE lock)
      /\ UNCHANGED <<session, claim, cancelled, con, room, dis>>
  BY DEF S!Reload, S!shell, Sent
<1>2. /\ tr' \in [Calls -> TrState] /\ \A j \in Calls : tr'[j].pc = (IF tr[j].pc = "none" THEN "none" ELSE "gone") /\ ~tr'[j].closed
  <2>1. S!NoTransport \in TrState /\ S!NoTransport.pc = "none" /\ ~S!NoTransport.closed
    BY DEF S!NoTransport, TrState
  <2>2. [pc |-> "gone", closed |-> FALSE] \in TrState BY DEF TrState
  <2> QED BY <2>1, <2>2 DEF S!Reload
<1>3. check' \in CheckState /\ check'.pc = "poll"
  <2>1. S!NoCheck \in CheckState BY NoCheckIs
  <2> QED BY <2>1 DEF S!Reload, CheckState
<1>4. \A j \in Calls : tr[j].pc = "none" => con[j].pc = "unused" BY DEF PageInv
<1>20. CallTypes' BY CallAssumption, <1>1, <1>2, <1>3, <1>4 DEF CallTypes, ConTo, TrTo, SentFor
<1>21. ShellInv'
  BY CallAssumption, <1>1, <1>2, <1>3, <1>4 DEF ShellInv, CallTypes, InFlight, Stored, Sent, DownFor, ConTo,
     TrTo, SentFor
<1>22. PageInv'
  BY CallAssumption, <1>1, <1>2, <1>3, <1>4 DEF PageInv, CallTypes, InFlight, Stored, Sent, DownFor, ConTo,
     TrTo, SentFor
<1>23. \A j \in Calls : OwnInv(j)'
  BY CallAssumption, <1>1, <1>2, <1>3, <1>4 DEF OwnInv, PageInv, ShellInv, CallTypes, InFlight, Stored, Sent,
     DownFor, ConTo, TrTo, SentFor
<1>24. \A b \in Commands : HangUpInv(b)'
  BY CallAssumption, <1>1, <1>2, <1>3, <1>4 DEF HangUpInv, OwnInv, PageInv, ShellInv, CallTypes, InFlight,
     Stored, Sent, DownFor, ConTo, TrTo, SentFor
<1>25. FoundInv'
  BY CallAssumption, <1>1, <1>2, <1>3, <1>4 DEF FoundInv, OwnInv, PageInv, ShellInv, CallTypes, InFlight,
     Stored, Sent, DownFor, ConTo, TrTo, SentFor
<1>26. S!NoRoomIsLost'
  BY CallAssumption, <1>1, <1>2, <1>3, <1>4 DEF S!NoRoomIsLost, ShellInv, CallTypes, ConTo, TrTo, SentFor
<1> QED BY <1>20, <1>21, <1>22, <1>23, <1>24, <1>25, <1>26 DEF CallInv

LEMMA ShellDrainedKeeps == ASSUME CallInv, S!Drained PROVE CallInv'
<1> USE DEF CallInv
<1>1. /\ lock = "old" /\ lock' = "free"
      /\ UNCHANGED <<session, claim, cancelled, con, room, dis, tr, cur, join, down, check, tries, missed>>
  BY DEF S!Drained, S!shell
<1>4. Strange' <=> Strange BY <1>1 DEF Strange, InFlight
<1>20. CallTypes' BY CallAssumption, <1>1, <1>4 DEF CallTypes, ConTo, TrTo, SentFor
<1>21. ShellInv'
  BY CallAssumption, <1>1, <1>4 DEF ShellInv, CallTypes, InFlight, Stored, Sent, DownFor, ConTo, TrTo, SentFor
<1>22. PageInv'
  BY CallAssumption, <1>1, <1>4 DEF PageInv, CallTypes, InFlight, Stored, Sent, DownFor, ConTo, TrTo, SentFor
<1>23. \A j \in Calls : OwnInv(j)'
  BY CallAssumption, <1>1, <1>4 DEF OwnInv, PageInv, ShellInv, CallTypes, InFlight, Stored, Sent, DownFor,
     ConTo, TrTo, SentFor
<1>24. \A b \in Commands : HangUpInv(b)'
  BY CallAssumption, <1>1, <1>4 DEF HangUpInv, OwnInv, PageInv, ShellInv, CallTypes, InFlight, Stored, Sent,
     DownFor, ConTo, TrTo, SentFor
<1>25. FoundInv'
  BY CallAssumption, <1>1, <1>4 DEF FoundInv, OwnInv, PageInv, ShellInv, CallTypes, InFlight, Stored, Sent,
     DownFor, ConTo, TrTo, SentFor
<1>26. S!NoRoomIsLost' BY CallAssumption, <1>1, <1>4 DEF S!NoRoomIsLost, ShellInv, CallTypes, ConTo, TrTo, SentFor
<1> QED BY <1>20, <1>21, <1>22, <1>23, <1>24, <1>25, <1>26 DEF CallInv

LEMMA CallNextKeeps == ASSUME CallInv, [S!Next]_(S!vars) PROVE CallInv'
<1>1. ASSUME NEW k \in Calls, S!Connect(k) \/ S!Transport(k) \/ S!Obtained(k) \/ S!SfuEnds(k) PROVE CallInv'
  BY <1>1, ClaimsKeeps, SetUpKeeps, OpensKeeps, OpensNotKeeps, StoresKeeps, ReturnsKeeps, ImportedKeeps,
     DialsKeeps, AnsweredKeeps, HearsEndKeeps, ObtainedKeeps, SfuEndsKeeps DEF S!Connect, S!Transport
<1>2. ASSUME NEW d \in Commands, S!Takes(d) \/ S!Closes(d) PROVE CallInv' BY <1>2, TakesKeeps, ClosesKeeps
<1>3. CASE S!Press \/ S!JoinGoesOn \/ S!JoinLocks \/ S!NotObtained BY <1>3, PressKeeps
<1>4. CASE S!JoinChecks \/ S!RetryChecks BY <1>4, ChecksKeeps DEF S!JoinChecks, S!RetryChecks
<1>5. CASE S!Downed \/ S!HangUp \/ S!Checking \/ S!Reload \/ S!Drained
  BY <1>5, DownedKeeps, HangUpKeeps, ReadsClaimKeeps, SettlesReadingKeeps, CheckLocksKeeps, DecidesKeeps,
     AdoptsKeeps, ReloadKeeps, ShellDrainedKeeps DEF S!Checking
<1>6. CASE UNCHANGED S!vars
  <2>1. UNCHANGED <<session, claim, cancelled, con, room, dis, tr, cur, join, down, check, tries, missed, lock>>
    BY <1>6 DEF S!vars, S!shell, S!page
  <2>2. Strange' <=> Strange BY <2>1 DEF Strange, InFlight
  <2> QED
    BY <2>1, <2>2 DEF CallInv, CallTypes, ShellInv, PageInv, OwnInv, HangUpInv, FoundInv, S!NoRoomIsLost,
       InFlight, Stored, Sent, DownFor
<1> QED BY <1>1, <1>2, <1>3, <1>4, <1>5, <1>6 DEF S!Next

THEOREM CallInvariance == S!Spec => []CallInv
<1>1. CallInv /\ [S!Next]_(S!vars) => CallInv' BY CallNextKeeps
<1> QED BY <1>1, CallInitKeeps, PTL DEF S!Spec

(***************************************************************************)
(* Through connects, hang-ups, checks and reloads that overtake one        *)
(* another: no room of the shell is open that nothing will close, and once *)
(* nothing is under way the shell's call is the page's, or was missed by   *)
(* the last check (voice_connect, voice_disconnect, transport-native.ts).  *)
(***************************************************************************)
THEOREM PagesCall == S!Spec => []CallIsThePages
<1>1. ASSUME CallInv, S!PageAtRest PROVE (session # None => S!Held \/ missed) /\ (cur # None => session = cur)
  <2> USE <1>1 DEF CallInv
  <2>1. check.pc = "none" /\ down = None /\ \A k \in Calls : tr[k].pc \in {"none", "live", "done", "gone"}
    BY DEF S!PageAtRest
  <2>2. ASSUME NEW k \in Calls, cur = k PROVE session = k
    <3>1. tr[k].pc = "live" /\ ~tr[k].closed BY <2>1, <2>2 DEF PageInv
    <3>2. Stored(k) BY <3>1 DEF PageInv
    <3> QED BY <3>1, <3>2 DEF OwnInv
  <2>3. ASSUME NEW k \in Calls, session = k PROVE S!Held \/ missed
    <3>1. CASE tr[k].pc = "gone"
      <4>1. Strange BY <2>3, <3>1 DEF Strange
      <4> QED BY <2>1, <4>1 DEF FoundInv, DownFor
    <3>2. CASE tr[k].pc # "gone"
      <4>1. cur = k /\ tr[k].pc = "live" BY <2>1, <2>3, <3>2 DEF OwnInv, DownFor
      <4> QED BY <2>3, <4>1, CallAssumption DEF PageInv, S!Held
    <3> QED BY <3>1, <3>2
  <2> QED BY <2>2, <2>3 DEF CallTypes
<1>2. CallInv => S!NoRoomIsLost /\ S!PageAndShellAgree BY <1>1 DEF CallInv, S!PageAndShellAgree
<1>3. CallInv => CallIsThePages BY <1>2 DEF CallIsThePages
<1> QED BY <1>3, CallInvariance, PTL

\* Only voice_disconnect itself goes on to close, and only with a session.
LEMMA ClosesASession ==
    ASSUME CallInv, S!Next, NEW d \in Commands, dis[d].pc = "sent", dis'[d].pc = "closing"
    PROVE  session # None
<1>1. dis \in [Commands -> DisState] BY DEF CallInv, CallTypes
<1>2. ASSUME NEW e \in Commands, NEW k, S!Send(e, k) PROVE FALSE
  <2>1. dis[e].pc = "unused" /\ dis' = [dis EXCEPT ![e] = [S!NoCommand EXCEPT !.pc = "sent", !.for = k]]
    BY <1>2 DEF S!Send, S!FreeCommand
  <2>2. e # d BY <2>1
  <2> QED BY <1>1, <2>1, <2>2
<1>3. dis' # dis OBVIOUS
<1>4. ASSUME NEW k \in Calls, S!Disconnect(k) PROVE FALSE BY <1>2, <1>3, <1>4 DEF S!Disconnect
<1>5. ASSUME NEW k \in Calls, S!Connect(k) \/ S!Obtained(k) \/ S!SfuEnds(k) \/ S!Imported(k) \/ S!Dials(k) PROVE FALSE
  BY <1>3, <1>5 DEF S!Connect, S!Claims, S!SetUp, S!Opens, S!OpensNot, S!Stores, S!Returns, S!Obtained,
     S!SfuEnds, S!Imported, S!Dials
<1>6. ASSUME NEW k \in Calls, S!Answered(k) \/ S!HearsEnd(k) PROVE FALSE
  BY <1>2, <1>3, <1>4, <1>6 DEF S!Answered, S!HearsEnd
<1>7. ASSUME NEW e \in Commands, S!Closes(e) PROVE FALSE
  <2>1. dis[e].pc = "closing" /\ dis' = [dis EXCEPT ![e].pc = "done"] BY <1>7 DEF S!Closes
  <2> QED BY <1>1, <2>1
<1>8. ASSUME NEW e \in Commands, S!Takes(e) PROVE session # None
  <2>1. dis' = [dis EXCEPT ![e].pc = IF session = None THEN "done" ELSE "closing", ![e].room = session]
    BY <1>8 DEF S!Takes
  <2> QED BY <1>1, <2>1
<1>9. CASE S!HangUp
  <2>1. cur \in Calls \cup {None} BY DEF CallInv, CallTypes
  <2> QED BY <1>3, <1>4, <1>9, <2>1 DEF S!HangUp
<1>10. CASE S!Checking
  BY <1>2, <1>3, <1>10 DEF S!Checking, S!ReadsClaim, S!SettlesReading, S!CheckLocks, S!Decides, S!Adopts
<1>11. CASE \/ S!Press \/ S!JoinChecks \/ S!JoinGoesOn \/ S!JoinLocks \/ S!NotObtained
             \/ S!Downed \/ S!RetryChecks \/ S!Reload \/ S!Drained
  BY <1>3, <1>11 DEF S!Press, S!JoinChecks, S!StartCheck, S!JoinGoesOn, S!JoinLocks, S!NotObtained, S!Downed,
     S!RetryChecks, S!Reload, S!Drained
<1> QED BY <1>5, <1>6, <1>7, <1>8, <1>9, <1>10, <1>11 DEF S!Next, S!Transport

(***************************************************************************)
(* A check adopts a call of the page before and never this page's own, and *)
(* a hang-up takes the call it was sent for, or the last check had missed  *)
(* one (#checkOrphan, #adopt, voice_disconnect).                           *)
(***************************************************************************)
THEOREM OwnTouch == S!Spec => TouchesItsOwn
<1>1. CallInv' => (check.pc = "adopt" => tr[check.found].pc \in {"none", "gone"})' BY DEF CallInv, FoundInv
<1>2. CallInv /\ [S!Next]_(S!vars) =>
        [\A d \in Commands : dis[d].pc = "sent" /\ dis'[d].pc = "closing" => dis[d].for = session \/ missed]_(S!vars)
  <2> SUFFICES ASSUME CallInv, S!Next, NEW d \in Commands, dis[d].pc = "sent", dis'[d].pc = "closing"
               PROVE  dis[d].for = session \/ missed
    OBVIOUS
  <2>1. session # None => dis[d].for = session \/ missed BY DEF CallInv, HangUpInv, Sent
  <2>2. session # None BY ClosesASession
  <2> QED BY <2>1, <2>2
<1> QED BY <1>1, <1>2, CallInvariance, PTL DEF TouchesItsOwn, S!AdoptsStrangers, S!ClosesItsOwn, S!Spec

-----------------------------------------------------------------------------
(* The two together: what one does leaves the other as it is. *)

\* A behaviour of the two is a behaviour of each.
LEMMA SyncParts == SyncSpec => Spec /\ S!Spec
<1>1. SyncInit => Init /\ S!Init BY DEF SyncInit
<1>2. [SyncNext]_syncVars => [Next]_vars BY DEF SyncNext, syncVars
<1>3. [SyncNext]_syncVars => [S!Next]_(S!vars) BY DEF SyncNext, syncVars, shellVars, S!vars, S!shell, S!page
<1> QED BY <1>1, <1>2, <1>3, PTL DEF SyncSpec, Spec, S!Spec

(***************************************************************************)
(* Everything above, of the specification the runs check: no wake-up is    *)
(* lost and one socket is open, and the shell's call is the page's.        *)
(***************************************************************************)
THEOREM SyncHolds == SyncSpec => [](NothingIsSlept /\ OneSocket /\ CallIsThePages) /\ TouchesItsOwn
BY SyncParts, NeverLost, OneSocketAtATime, PagesCall, OwnTouch, PTL

=============================================================================
