------------------------------- MODULE Leader -------------------------------
(***************************************************************************)
(* Which tab syncs (src/sync/leader.ts: runAsLeader), and the socket that  *)
(* goes with it (src/sync/engine.ts: #runLoop).                            *)
(*                                                                         *)
(* The election is a Web Lock: its holder runs the task, the others queue. *)
(* A holder that has gone quiet has the lock stolen from it, which takes   *)
(* the lock but does not stop the task.  A tab is single-threaded, so each *)
(* action of a tab is a turn of its event loop, and happens only while its *)
(* page is awake; the browser's side of the lock goes on regardless.       *)
(*                                                                         *)
(* A lock request outlives the variables that point at it, so requests are *)
(* kept in numbered slots of their tab; slot 0 is "none".                  *)
(***************************************************************************)
EXTENDS Naturals, FiniteSets, Sequences, SequencesExt

CONSTANTS Tab,       (* tabs of this browser                               *)
          MaxSlots,  (* bound: requests of a tab that are not over yet     *)
          MaxTurns   (* bound: times the user or the system disturbs a tab *)

ASSUME LeaderAssumption ==
    {MaxSlots, MaxTurns} \subseteq Nat /\ MaxSlots > 0 /\ IsFiniteSet(Tab)

VARIABLES
    page,    (* what the browser does with each tab                        *)
    me,      (* the variables of runAsLeader in each tab                   *)
    holder,  (* <<tab, slot>> of the request the browser gave the lock to  *)
    queue,   (* the requests waiting for it                                *)
    open,    (* sockets that have been started and not stopped             *)
    turns    (* disturbances so far                                        *)

vars == <<page, me, holder, queue, open, turns>>

Slot     == 1..MaxSlots
NoHolder == <<>>

(***************************************************************************)
(* A request is queued or stealing in the browser, then granted, held once *)
(* its callback runs, and stolen when another takes the lock; it is over   *)
(* when its promise has settled, which does not wait for a stolen task.    *)
(***************************************************************************)
Phase == {"free", "queued", "stealing", "granted", "held", "stolen", "over"}
Task  == {"none", "running", "completed", "threw"}
Free  == [phase |-> "free", task |-> "none", aborted |-> FALSE]

State == [stopped    : BOOLEAN,
          paused     : BOOLEAN,
          holding    : BOOLEAN,            \* what isLeader() answers
          controller : 0..MaxSlots,        \* the request in hand
          retry      : BOOLEAN,            \* a timer after a refusal
          socket     : 0..MaxSlots,        \* SyncEngine.#socket
          req        : [Slot -> [phase : Phase, task : Task, aborted : BOOLEAN]]]

Gone == [stopped |-> TRUE, paused |-> FALSE, holding |-> FALSE, controller |-> 0,
         retry |-> FALSE, socket |-> 0, req |-> [r \in Slot |-> Free]]

Init ==
    /\ page = [t \in Tab |-> "visible"]
    /\ me = [t \in Tab |-> [Gone EXCEPT !.stopped = FALSE,
                                        !.controller = 1,
                                        !.req[1].phase = "queued"]]
    /\ holder = NoHolder
    /\ queue \in Bijection(1..Cardinality(Tab), Tab \X {1})
    /\ open = {}
    /\ turns = 0

Awake(t) == page[t] \in {"visible", "hidden"}

-----------------------------------------------------------------------------
(* The parts a turn is made of: each takes the variables of a tab to what  *)
(* they are next.                                                          *)

\* A request that is aborted: one that still waits is withdrawn, and its promise does no
\* more; a steal takes no signal, and a lock once granted is not given back by one.
Aborted(q) == IF q.phase = "queued" THEN Free ELSE [q EXCEPT !.aborted = TRUE]

\* release(): the timer is off, and the request in hand is aborted
ReleaseKeepsIt(s) ==             \* mutant: the controller is not reset
    IF s.controller = 0 THEN [s EXCEPT !.retry = FALSE]
    ELSE [s EXCEPT !.retry = FALSE, !.req[s.controller] = Aborted(@)]
Release(s) ==
    IF s.controller = 0 THEN [s EXCEPT !.retry = FALSE]
    ELSE [s EXCEPT !.retry = FALSE, !.controller = 0, !.req[s.controller] = Aborted(@)]

Spares(s) == {r \in Slot : s.req[r].phase = "free"}

\* acquire(steal).  Bound: where no slot is left, the turn has to wait for one.
Room(s) == Spares(s) # {}

Acquire(s, phase) ==
    IF s.stopped \/ s.paused \/ s.controller # 0 THEN s
    ELSE LET r == CHOOSE r \in Spares(s) : TRUE
         IN  [s EXCEPT !.controller = r, !.req[r] = [Free EXCEPT !.phase = phase]]

\* The .finally() of request r, of whose task this is what became.
Settled(s, r, task) ==
    LET after == [s EXCEPT !.controller = IF @ = r THEN 0 ELSE @,
                           !.req[r] = IF task = "running"
                                      THEN [@ EXCEPT !.aborted = TRUE, !.phase = "over"]
                                      ELSE Free]
    IN  IF task = "completed" THEN after ELSE Acquire(after, "queued")

\* The queue without its request at one of these places: a tab has one waiting at most.
Without(places) == IF places = {} THEN queue ELSE RemoveAt(queue, CHOOSE i \in places : TRUE)

\* A turn of tab t with outcome s, and what the lock manager sees of it: one request of
\* the tab may be withdrawn, and one made.
Turn(t, s) ==
    /\ Awake(t)
    /\ me' = [me EXCEPT ![t] = s]
    /\ LET left == {i \in DOMAIN queue : queue[i][1] = t /\ s.req[queue[i][2]].phase # "queued"}
           made == {r \in Slot : s.req[r].phase = "queued" /\ me[t].req[r].phase # "queued"}
       IN  queue' = IF made = {} THEN Without(left)
                    ELSE Append(Without(left), <<t, CHOOSE r \in made : TRUE>>)

-----------------------------------------------------------------------------
(* The task, which is the sync loop with its socket.                       *)

\* The callback of the request: it leads, and #runLoop opens its socket.
Callback(t, r) ==
    LET q == me[t].req[r] IN
    /\ q.phase \in {"granted", "stolen"}
    /\ q.task = "none"
    /\ Turn(t, [me[t] EXCEPT
          !.holding = TRUE,
          !.socket = r,
          !.req[r].task = "running",
          !.req[r].phase = IF @ = "granted" THEN "held" ELSE @])
    /\ open' = open \cup {<<t, r>>}
    /\ UNCHANGED <<page, holder, turns>>

\* The aborted loop returns.  The finally of #runLoop stops the socket the field names,
\* and throws if it names none; then that of the callback, and the lock is let go of.
TaskEnds(t, r) ==
    LET q == me[t].req[r]
        s == me[t].socket
        outcome == IF s = 0 THEN "threw" ELSE "completed"
        after == [me[t] EXCEPT !.holding = FALSE, !.socket = 0, !.req[r].task = outcome]
    IN
    /\ q.task = "running"
    /\ q.aborted
    /\ Turn(t, CASE q.phase = "held"   -> Settled(after, r, outcome)
                 [] q.phase = "stolen" -> after
                 [] q.phase = "over"   -> [after EXCEPT !.req[r] = Free])
    /\ open' = open \ {<<t, s>>}
    /\ holder' = IF holder = <<t, r>> THEN NoHolder ELSE holder
    /\ UNCHANGED <<page, turns>>

-----------------------------------------------------------------------------
(* A request whose promise rejects.                                        *)

\* The lock was stolen: the task is aborted, and the tab queues again.
RejectStolenGoesOn(t, r) ==      \* mutant: the task is not aborted
    /\ me[t].req[r].phase = "stolen" /\ me[t].req[r].task # "none"
    /\ me[t].req[r].task = "running" => Room(me[t])
    /\ Turn(t, [Settled(me[t], r, me[t].req[r].task) EXCEPT !.req[r].aborted = FALSE])
    /\ UNCHANGED <<page, holder, open, turns>>
RejectStolen(t, r) ==
    /\ me[t].req[r].phase = "stolen" /\ me[t].req[r].task # "none"
    /\ me[t].req[r].task = "running" => Room(me[t])
    /\ Turn(t, Settled(me[t], r, me[t].req[r].task))
    /\ UNCHANGED <<page, holder, open, turns>>

\* The browser refuses it before the callback ever ran, as WebKit does for a document it
\* no longer considers fully active: again, after a while.
RefuseForgets(t, r) ==           \* mutant: the retry is not scheduled
    /\ me[t].req[r].phase \in {"queued", "stealing"}
    /\ turns < MaxTurns
    /\ turns' = turns + 1
    /\ Turn(t, [me[t] EXCEPT !.req[r] = Free, !.controller = IF @ = r THEN 0 ELSE @])
    /\ UNCHANGED <<page, holder, open>>
Refuse(t, r) ==
    /\ me[t].req[r].phase \in {"queued", "stealing"}
    /\ turns < MaxTurns
    /\ turns' = turns + 1
    /\ LET out == me[t].stopped \/ me[t].paused \/ me[t].req[r].aborted
       IN  Turn(t, [me[t] EXCEPT !.req[r] = Free,
                                 !.controller = IF @ = r THEN 0 ELSE @,
                                 !.retry = @ \/ ~out])
    /\ UNCHANGED <<page, holder, open>>

RetryFires(t) ==
    /\ me[t].retry
    /\ Room(me[t])
    /\ Turn(t, Acquire([me[t] EXCEPT !.retry = FALSE], "queued"))
    /\ UNCHANGED <<page, holder, open, turns>>

-----------------------------------------------------------------------------
(* Lifecycle and watchdog.                                                 *)

\* freeze, or pagehide into the back-forward cache
OnFreeze(t) ==
    /\ ~me[t].paused
    /\ turns < MaxTurns
    /\ turns' = turns + 1
    /\ Turn(t, Release([me[t] EXCEPT !.paused = TRUE]))
    /\ UNCHANGED <<page, holder, open>>

OnResume(t) ==
    /\ me[t].paused
    /\ Room(me[t])
    /\ Turn(t, Acquire([me[t] EXCEPT !.paused = FALSE], "queued"))
    /\ UNCHANGED <<page, holder, open, turns>>

\* STALE_MS without a leader-alive.  Time is not modelled: this may be so at any moment
\* except where a far shorter wait would end it.  The browser grants a free lock at once;
\* a tab on screen leads as soon as it is granted the lock, and then beats, as no browser
\* holds back its timers; and an own steal in flight has reset lastSeenLeaderAt.
Leads(u) == me[u].holding \/ \E r \in Slot : me[u].req[r].phase = "granted"
Silent(t) ==
    /\ holder = NoHolder => queue = <<>>
    /\ \A u \in Tab : page[u] = "visible" => ~Leads(u)
    /\ \A r \in Slot : me[t].req[r].phase # "stealing"

WatchdogQueues(t) ==             \* mutant: the lock is asked for again, not stolen
    /\ page[t] = "visible"
    /\ Silent(t) /\ ~me[t].holding /\ ~me[t].stopped /\ ~me[t].paused
    /\ Room(me[t])
    /\ Turn(t, Acquire(Release(me[t]), "queued"))
    /\ UNCHANGED <<page, holder, open, turns>>
Watchdog(t) ==
    /\ page[t] = "visible"
    /\ Silent(t) /\ ~me[t].holding /\ ~me[t].stopped /\ ~me[t].paused
    /\ Room(me[t])
    /\ Turn(t, Acquire(Release(me[t]), "stealing"))
    /\ UNCHANGED <<page, holder, open, turns>>

\* stop(): signed out, by hand or because the token has expired (#handleFatal)
Stop(t) ==
    /\ ~me[t].stopped
    /\ turns < MaxTurns
    /\ turns' = turns + 1
    /\ Turn(t, Release([me[t] EXCEPT !.stopped = TRUE]))
    /\ UNCHANGED <<page, holder, open>>

-----------------------------------------------------------------------------
(* The browser and the user.                                               *)

Grant ==
    /\ holder = NoHolder
    /\ queue # <<>>
    /\ holder' = Head(queue)
    /\ queue' = Tail(queue)
    /\ me' = [me EXCEPT ![holder'[1]].req[holder'[2]].phase = "granted"]
    /\ UNCHANGED <<page, open, turns>>

\* The promise of the request that held the lock is to be rejected; its callback goes on.
GrantSteal(t, r) ==
    /\ me[t].req[r].phase = "stealing"
    /\ holder' = <<t, r>>
    /\ LET robbed == IF holder = NoHolder THEN me
                     ELSE [me EXCEPT ![holder[1]].req[holder[2]].phase = "stolen"]
       IN  me' = [robbed EXCEPT ![t].req[r].phase = "granted"]
    /\ UNCHANGED <<page, queue, open, turns>>

\* Shown, hidden, or suspended, whether or not a freeze event came first.
Disturb(t) ==
    /\ page[t] # "closed"
    /\ turns < MaxTurns
    /\ turns' = turns + 1
    /\ page' \in {[page EXCEPT ![t] = p] : p \in {"hidden", "suspended"}}
    /\ UNCHANGED <<me, holder, queue, open>>

Show(t) ==
    /\ page[t] \in {"hidden", "suspended"}
    /\ page' = [page EXCEPT ![t] = "visible"]
    /\ UNCHANGED <<me, holder, queue, open, turns>>

\* The browser lets go of everything of a page that is gone.
Close(t) ==
    /\ page[t] # "closed"
    /\ turns < MaxTurns
    /\ turns' = turns + 1
    /\ page' = [page EXCEPT ![t] = "closed"]
    /\ me' = [me EXCEPT ![t] = Gone]
    /\ holder' = IF holder # NoHolder /\ holder[1] = t THEN NoHolder ELSE holder
    /\ queue' = Without({i \in DOMAIN queue : queue[i][1] = t})
    /\ open' = {s \in open : s[1] # t}

-----------------------------------------------------------------------------
Next ==
    \/ Grant
    \/ \E t \in Tab :
          \/ RetryFires(t) \/ OnFreeze(t) \/ OnResume(t) \/ Watchdog(t) \/ Stop(t)
          \/ Disturb(t) \/ Show(t) \/ Close(t)
          \/ \E r \in Slot :
                \/ Callback(t, r) \/ TaskEnds(t, r) \/ RejectStolen(t, r)
                \/ Refuse(t, r) \/ GrantSteal(t, r)

Spec == Init /\ [][Next]_vars

(***************************************************************************)
(* Fairness: an awake tab runs its turns and its timers, and the browser   *)
(* grants what it is asked for.  Nothing is asked of the user: a tab may   *)
(* stay suspended for ever, with the lock.                                 *)
(***************************************************************************)
LiveSpec ==
    /\ Spec
    /\ SF_vars(Grant)
    /\ \A t \in Tab :
          /\ WF_vars(RetryFires(t)) /\ WF_vars(OnResume(t)) /\ WF_vars(Watchdog(t))
          /\ \A r \in Slot :
                /\ WF_vars(Callback(t, r)) /\ WF_vars(TaskEnds(t, r))
                /\ WF_vars(RejectStolen(t, r)) /\ SF_vars(GrantSteal(t, r))

-----------------------------------------------------------------------------
Requests == Tab \X Slot

Req(q)     == me[q[1]].req[q[2]]
Running(q) == Req(q).task = "running"

(***************************************************************************)
(* Types, and that the tabs and the lock manager agree: the lock is with   *)
(* the request that holds it, the queue has the requests that wait, and a  *)
(* request in hand is one that is not over.                                *)
(***************************************************************************)
TypeOK ==
    /\ page \in [Tab -> {"visible", "hidden", "suspended", "closed"}]
    /\ me \in [Tab -> State]
    /\ holder \in Requests \cup {NoHolder}
    /\ queue \in Seq(Requests)
    /\ open \subseteq Requests
    /\ turns \in 0..MaxTurns
    /\ \A q \in Requests : (q = holder) <=> Req(q).phase \in {"granted", "held"}
    /\ ToSet(queue) = {q \in Requests : Req(q).phase = "queued"}
    /\ \A t \in Tab : me[t].controller # 0 =>
          me[t].req[me[t].controller].phase \notin {"free", "over"}

(***************************************************************************)
(* No tab drops out: as long as it has not been stopped or frozen, it has  *)
(* a request that waits for the lock, has it, or is about to be told that  *)
(* it was stolen, or else a timer to make one (acquire, its .finally).     *)
(***************************************************************************)
InElection ==
    \A t \in Tab :
        \/ me[t].stopped \/ me[t].paused \/ me[t].retry
        \/ \E r \in Slot : me[t].req[r].phase \notin {"free", "over"}

(***************************************************************************)
(* A task that runs without the lock has been aborted, or the rejection    *)
(* that aborts it is on its way ("a former leader still polling is the     *)
(* two-writers case the lock exists to prevent", leader.ts).               *)
(***************************************************************************)
FormerLeaderStops ==
    \A q \in Requests : Running(q) /\ holder # q => Req(q).aborted \/ Req(q).phase = "stolen"

(***************************************************************************)
(* Somebody syncs: as long as one tab is on screen, a tab that is awake    *)
(* runs the loop again and again, however holders of the lock are frozen,  *)
(* suspended, closed, signed out or refused (the watchdog of leader.ts).   *)
(***************************************************************************)
Attentive(t) == page[t] = "visible" /\ ~me[t].stopped /\ ~me[t].paused
Syncing(t)   == Awake(t) /\ \E r \in Slot : Running(<<t, r>>) /\ ~Req(<<t, r>>).aborted

SomebodySyncs == \A t \in Tab : []<>(Attentive(t) => \E u \in Tab : Syncing(u))

(***************************************************************************)
(* engine.ts:856 says "The socket's lifetime is leadership's lifetime":    *)
(* every running loop has its socket, and every open socket its loop.      *)
(***************************************************************************)
SocketIsLeaderships == \A q \in Requests : Running(q) <=> q \in open
=============================================================================
