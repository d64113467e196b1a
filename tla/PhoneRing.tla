----------------------------- MODULE PhoneRing ------------------------------
(***************************************************************************)
(* One call that rings an Android phone: the plugin, which rings outside   *)
(* the app (src-tauri/plugins/wherry-calls/android: RingHandler,           *)
(* CallLifecycle, CallActions, CallActionReceiver, RingLaunch), and the    *)
(* page, whose sheet rings inside it (client/src/voice/phone-bridge.ts,    *)
(* phone-rules.ts, hooks.ts, rules.ts, ui/voice/IncomingCall.tsx).         *)
(*                                                                         *)
(* The ring comes by push and by the page's socket, in any order, and its  *)
(* end by both, by either's clock, or from a press.  Commands of the page, *)
(* their answers, and the plugin's events to the page all take their time, *)
(* and the process may be killed while it is not in front.                 *)
(*                                                                         *)
(* Abstracted: who is called what, full-screen launches and the screen;    *)
(* the clocks of the ring, which are one; other calls; sign-out, after     *)
(* which nobody is called.                                                 *)
(***************************************************************************)
EXTENDS Naturals, Sequences

CONSTANTS
    Reports,    \* tasks of #report, numbered
    Notify,     \* may the app post notifications?
    Stale,      \* may a read of the open calls be under way when the call begins?
    InOrder,    \* does the answer to a report come before the events after it?
    LatePush,   \* may the push come once a ring is withdrawn for the page?
    MaxPushes,  \* pushes of the ring
    MaxTurns,   \* how often the app comes to the front
    MaxKills,
    MaxReads    \* reads of the open calls

VARIABLES
    srv,        \* the call at the server: ringing, joined by this device, or over for it
    late,       \* the ring's window has closed
    native,     \* RingHandler's sets, as they are of this call
    note,       \* the notification on the shade, by what its Decline does
    front,      \* CallLifecycle.inFront
    leaving,    \* leftCheck is posted
    queue,      \* CallActions.queue
    signed,     \* a signed decline is on its way
    run,        \* the page and its account's run
    ring,       \* the page's list of rings has the call
    reported,   \* #reported
    task,       \* per run of #report: its place
    shown,      \* #shown
    gone,       \* a timer of #goneTimers
    ending,     \* a reportEnded is on its way
    events,     \* ring-shown events on their way
    held,       \* presses the page has been given and not yet dropped or carried out
    heard,      \* #frames says that the call has ended
    read,       \* a read of the open calls under way, and what it saw
    flying,     \* the socket's frame of the ring
    call,       \* the voice session, as far as it is of this call
    declining,  \* a decline by the page's session is on its way
    pushes, turns, kills, reads,
    pressed,    \* ghost: the last press on the notification or the sheet
    carried,    \* ghost: the server was asked what was pressed, or the press was lost with the process
    told,       \* ghost: this process was told of the ring's end
    missed      \* ghost: an event was sent before the page listened

device == <<native, note, front, leaving, queue, signed>>
page == <<run, ring, reported, task, shown, gone, ending, events, held, heard, read, flying, call, declining>>
bounds == <<pushes, turns, kills, reads>>
ghosts == <<pressed, carried, told, missed>>
vars == <<srv, late, device, page, bounds, ghosts>>

NoRing == [over |-> FALSE, known |-> "none", token |-> FALSE, posted |-> FALSE, held |-> FALSE, owned |-> FALSE]
NoPage == /\ run' = "none" /\ ring' = FALSE /\ reported' = FALSE
          /\ task' = [k \in Reports |-> "unused"] /\ shown' = "none" /\ gone' = FALSE
          /\ ending' = FALSE /\ events' = <<>> /\ held' = {} /\ heard' = FALSE
          /\ read' = "none" /\ flying' = FALSE /\ call' = "idle" /\ declining' = FALSE

Init ==
    /\ srv = "ringing" /\ late = FALSE
    /\ native = NoRing /\ note = "none" /\ leaving = FALSE /\ queue = {} /\ signed = FALSE
    /\ run \in {"none", "up"} /\ front \in {FALSE, run = "up"}
    /\ ring = FALSE /\ reported = FALSE /\ task = [k \in Reports |-> "unused"]
    /\ shown = "none" /\ gone = FALSE /\ ending = FALSE /\ events = <<>>
    /\ held = {} /\ heard = FALSE /\ call = "idle" /\ declining = FALSE
    /\ read \in {"none"} \cup (IF Stale /\ run = "up" THEN {"not"} ELSE {})
    /\ flying = (run = "up")
    /\ pushes = 0 /\ turns = 0 /\ kills = 0 /\ reads = 0
    /\ pressed = "none" /\ carried = FALSE /\ told = FALSE /\ missed = FALSE

-----------------------------------------------------------------------------
(* The plugin. *)

\* hasListener("action"), hasListener("ring-shown")
Listening == run \in {"acting", "up"}
HearsMoves == run = "up"

(* A press goes to the page that listens, or waits for one that will.      *)
Deliver(a) == IF Listening THEN held' = held \cup {a} /\ UNCHANGED queue
                           ELSE queue' = queue \cup {a} /\ UNCHANGED held

\* What Decline on the notification of a ring does: Ring n, posted now.
DeclineIntent(n) == IF n.token THEN "signed" ELSE IF Listening THEN "page" ELSE "opens"

(* post: the notification, unless notifications are off.                   *)
Posted(n) == IF Notify THEN [native |-> [n EXCEPT !.posted = TRUE], note |-> DeclineIntent(n), shown |-> TRUE]
                       ELSE [native |-> n, note |-> note, shown |-> FALSE]

\* Mutant: a ring in front is left on the shade
RingsInFrontOnly(fromPage, token) ==
    LET known == [native EXCEPT !.known = IF fromPage \/ @ = "page" THEN "page" ELSE "push",
                                !.token = @ \/ token] IN
    IF native.over THEN [native |-> native, note |-> note, shown |-> fromPage]
    ELSE IF late THEN [native |-> native, note |-> note, shown |-> FALSE]
    ELSE IF front \/ known.owned
         THEN [native |-> [known EXCEPT !.owned = @ \/ fromPage], note |-> note, shown |-> FALSE]
    ELSE IF known.held THEN [native |-> known, note |-> note, shown |-> TRUE]
    ELSE Posted(known)
(* RingHandler.ring, by push or by the page: the rings it then holds, the  *)
(* notification, and what it answers.                                      *)
Rings(fromPage, token) ==
    LET known == [native EXCEPT !.known = IF fromPage \/ @ = "page" THEN "page" ELSE "push",
                                !.token = @ \/ token] IN
    CASE native.over -> [native |-> native, note |-> note, shown |-> fromPage]
      [] ~native.over /\ late -> [native |-> native, note |-> note, shown |-> FALSE]
      [] ~native.over /\ ~late /\ known.owned -> [native |-> known, note |-> note, shown |-> FALSE]
      [] ~native.over /\ ~late /\ ~known.owned /\ front ->
            [native |-> [known EXCEPT !.posted = FALSE, !.held = FALSE, !.owned = fromPage],
             note |-> "none", shown |-> FALSE]
      [] ~native.over /\ ~late /\ ~known.owned /\ ~front /\ known.held ->
            [native |-> known, note |-> note, shown |-> TRUE]
      [] OTHER -> Posted(known)

\* Mutant: a ring that is over is not remembered
EndsUnremembered ==
    native' = NoRing /\ note' = "none" /\ told' = TRUE
(* RingHandler.end: nothing of the ring stays, but that it is over.        *)
Ends ==
    native' = [NoRing EXCEPT !.over = TRUE] /\ note' = "none" /\ told' = TRUE

(* tellPage: an event, if somebody listens.                                *)
Tell(b) == IF HearsMoves THEN events' = Append(events, b) /\ UNCHANGED missed
                         ELSE missed' = (run # "none" \/ missed) /\ UNCHANGED events

PushRings(token) ==
    /\ pushes < MaxPushes /\ pushes' = pushes + 1
    /\ front /\ native.held => LatePush
    /\ LET r == Rings(FALSE, token) IN native' = r.native /\ note' = r.note
    /\ UNCHANGED <<srv, late, front, leaving, queue, signed, page, turns, kills, reads, ghosts>>

(* The server pushes the end of a ring, which may overtake the ring.       *)
PushEnds ==
    /\ srv # "ringing" /\ ~native.over
    /\ Ends
    /\ UNCHANGED <<srv, late, front, leaving, queue, signed, page, bounds, pressed, carried, missed>>

(* The window closes: setTimeoutAfter takes the notification, and nobody   *)
(* tells the plugin.                                                       *)
WindowCloses ==
    /\ ~late /\ late' = TRUE /\ note' = "none"
    /\ UNCHANGED <<srv, native, front, leaving, queue, signed, page, bounds, ghosts>>

(* pageInFront: a posted ring the page has reported is withdrawn for it.   *)
ComesToFront ==
    /\ ~front /\ turns < MaxTurns
    /\ turns' = turns + 1 /\ front' = TRUE /\ leaving' = FALSE
    /\ run' = IF run = "none" THEN "start" ELSE run
    /\ IF native.posted /\ native.known = "page"
       THEN /\ native' = [native EXCEPT !.posted = FALSE, !.held = TRUE]
            /\ note' = "none"
            /\ Tell(FALSE)
       ELSE UNCHANGED <<native, note, events, missed>>
    /\ UNCHANGED <<srv, late, queue, signed, ring, reported, task, shown, gone, ending, held, heard, read,
                   flying, call, declining, pushes, kills, reads, pressed, carried, told>>

Leaves ==
    /\ front /\ front' = FALSE /\ leaving' = TRUE
    /\ UNCHANGED <<srv, late, native, note, queue, signed, page, bounds, ghosts>>

\* Mutant: a ring the page has rung from the start is not posted
LeftHeldOnly ==
    /\ leaving /\ leaving' = FALSE
    /\ LET n == [native EXCEPT !.held = FALSE]
           p == Posted(n) IN
       IF native.held /\ ~front /\ ~late
       THEN native' = p.native /\ note' = p.note /\ IF p.shown THEN Tell(TRUE) ELSE UNCHANGED <<events, missed>>
       ELSE UNCHANGED <<native, note, events, missed>>
    /\ UNCHANGED <<srv, late, front, queue, signed, run, ring, reported, task, shown, gone, ending, held, heard,
                   read, flying, call, declining, bounds, pressed, carried, told>>
(* left, a moment after the app has left the front: a ring withdrawn for   *)
(* the page, or rung by it from the start, is posted; one that cannot be   *)
(* stays the page's.                                                       *)
Left ==
    /\ leaving /\ leaving' = FALSE
    /\ LET n == [native EXCEPT !.held = FALSE]
           p == Posted(n) IN
       CASE (native.held \/ native.owned) /\ ~front /\ ~late ->
                /\ native' = IF p.shown THEN [p.native EXCEPT !.owned = FALSE] ELSE p.native
                /\ note' = p.note
                /\ IF p.shown THEN Tell(TRUE) ELSE UNCHANGED <<events, missed>>
         [] ~front /\ late -> native' = [n EXCEPT !.owned = FALSE] /\ UNCHANGED <<note, events, missed>>
         [] OTHER -> UNCHANGED <<native, note, events, missed>>
    /\ UNCHANGED <<srv, late, front, queue, signed, run, ring, reported, task, shown, gone, ending, held, heard,
                   read, flying, call, declining, bounds, pressed, carried, told>>

-----------------------------------------------------------------------------
(* Presses on the notification. *)

Press(a) == pressed' = a /\ carried' = FALSE

(* Answer launches the app with the press (RingLaunch.capture).            *)
PressAnswer ==
    /\ note # "none" /\ Press("answer")
    /\ Ends /\ Deliver("answer")
    /\ run' = IF run = "none" THEN "start" ELSE run
    /\ UNCHANGED <<srv, late, front, leaving, signed, ring, reported, task, shown, gone, ending, events, heard,
                   read, flying, call, declining, bounds, missed>>

\* Mutant: a signed decline that fails is forgotten
SignedForgets ==
    /\ signed /\ signed' = FALSE
    /\ \/ srv' = IF srv = "ringing" THEN "over" ELSE srv
       \/ UNCHANGED srv
    /\ carried' = (carried \/ srv' # srv)
    /\ UNCHANGED <<late, native, note, front, leaving, page, queue, bounds, pressed, told, missed>>
(* A signed decline reaches the server, or goes to the page instead.       *)
SignedAnswers ==
    /\ signed /\ signed' = FALSE
    /\ \/ /\ srv' = IF srv = "ringing" THEN "over" ELSE srv
          /\ carried' = TRUE
          /\ UNCHANGED <<held, queue>>
       \/ Deliver("decline") /\ UNCHANGED <<srv, carried>>
    /\ UNCHANGED <<late, native, note, front, leaving, run, ring, reported, task, shown, gone, ending, events, heard,
                   read, flying, call, declining, bounds, pressed, told, missed>>

(* Decline: signed, by the page that listened when it was posted, or by    *)
(* opening the app with it.                                                *)
PressDecline ==
    /\ note # "none" /\ Press("decline")
    /\ Ends
    /\ IF note = "signed" /\ ~late
       THEN signed' = TRUE /\ UNCHANGED <<queue, held>>
       ELSE Deliver("decline") /\ UNCHANGED signed
    /\ run' = IF note = "opens" /\ run = "none" THEN "start" ELSE run
    /\ UNCHANGED <<srv, late, front, leaving, ring, reported, task, shown, gone, ending, events, heard,
                   read, flying, call, declining, bounds, missed>>

(* The process goes, and the notification stays.                           *)
Kill ==
    /\ ~front /\ kills < MaxKills /\ kills' = kills + 1
    /\ native' = NoRing /\ leaving' = FALSE /\ queue' = {} /\ signed' = FALSE
    /\ NoPage
    /\ told' = FALSE /\ missed' = FALSE /\ carried' = (carried \/ pressed # "none")
    /\ UNCHANGED <<srv, late, note, front, pushes, turns, reads, pressed>>

-----------------------------------------------------------------------------
(* The page's rings, and what the bridge makes of them. *)

PageAlive == run # "none"

\* #report begins: a task of its own, unless the ring is reported
Reporting ==
    IF reported THEN UNCHANGED <<reported, task>>
    ELSE \E k \in Reports :
            /\ task[k] = "unused" /\ \A j \in Reports : j < k => task[j] # "unused"
            /\ task' = [task EXCEPT ![k] = "asking"]
            /\ reported' = TRUE

(* A ring comes into the list (#ringShown): a pending end is called off.   *)
RingComes ==
    IF ring THEN UNCHANGED <<ring, gone, reported, task>>
            ELSE ring' = TRUE /\ gone' = FALSE /\ Reporting

(* A ring leaves the list (#ringGone): its end is due a tick later.        *)
RingLeaves == ring' = FALSE /\ gone' = (gone \/ ring)

HearsRing ==
    /\ PageAlive /\ flying /\ flying' = FALSE
    /\ RingComes
    /\ UNCHANGED <<srv, late, device, run, shown, ending, events, held, heard, read, call, declining, bounds, ghosts>>

(* A call_state frame after this device has joined, or the call has ended. *)
HearsState ==
    /\ PageAlive /\ srv # "ringing" /\ ~(heard \/ (srv = "joined" /\ ~ring))
    /\ RingLeaves
    /\ flying' = FALSE
    /\ heard' = (srv = "over")
    /\ call' = IF srv = "over" /\ call = "in" THEN "idle" ELSE call
    /\ UNCHANGED <<srv, late, device, run, reported, task, shown, ending, events, held, read, declining, bounds, ghosts>>

Reads ==
    /\ PageAlive /\ read = "none" /\ reads < MaxReads
    /\ reads' = reads + 1
    /\ read' = IF srv = "ringing" THEN "rings" ELSE "not"
    /\ UNCHANGED <<srv, late, device, run, ring, reported, task, shown, gone, ending, events, held, heard, flying,
                   call, declining, pushes, turns, kills, ghosts>>

(* The answer is what the server knew when it was read.                    *)
ReadAnswered ==
    /\ read # "none" /\ read' = "none"
    /\ IF read = "rings" THEN RingComes ELSE RingLeaves /\ UNCHANGED <<reported, task>>
    /\ UNCHANGED <<srv, late, device, run, shown, ending, events, held, heard, flying, call, declining, bounds, ghosts>>

(* A ring past its window drops by itself.                                 *)
RingTimesOut ==
    /\ ring /\ late
    /\ RingLeaves
    /\ UNCHANGED <<srv, late, device, run, reported, task, shown, ending, events, held, heard, read, flying, call,
                   declining, bounds, ghosts>>

(* #report: while the labels load, the ring may go.                        *)
Asks(k) ==
    /\ task[k] = "asking"
    /\ task' = [task EXCEPT ![k] = IF reported THEN "sent" ELSE "done"]
    /\ UNCHANGED <<srv, late, device, run, ring, reported, shown, gone, ending, events, held, heard, read, flying,
                   call, declining, bounds, ghosts>>

(* reportIncoming in the plugin; or the command fails.                     *)
Handled(k) ==
    /\ task[k] = "sent"
    /\ \/ LET r == Rings(TRUE, FALSE) IN
          /\ native' = r.native /\ note' = r.note
          /\ task' = [task EXCEPT ![k] = IF r.shown THEN "shown" ELSE "not_shown"]
       \/ task' = [task EXCEPT ![k] = "no_answer"] /\ UNCHANGED <<native, note>>
    /\ UNCHANGED <<srv, late, front, leaving, queue, signed, run, ring, reported, shown, gone, ending, events, held,
                   heard, read, flying, call, declining, bounds, ghosts>>

(* Its answer counts while the ring is the page's.                         *)
Answered(k) ==
    /\ task[k] \in {"shown", "not_shown", "no_answer"}
    /\ task' = [task EXCEPT ![k] = "done"]
    /\ shown' = IF reported THEN task[k] ELSE shown
    /\ UNCHANGED <<srv, late, device, run, ring, reported, gone, ending, events, held, heard, read, flying, call,
                   declining, bounds, ghosts>>

(* REPORT_PATIENCE_MS without an answer.                                   *)
LosesPatience ==
    /\ reported /\ shown = "none"
    /\ shown' = "no_answer"
    /\ UNCHANGED <<srv, late, device, run, ring, reported, task, gone, ending, events, held, heard, read, flying, call,
                   declining, bounds, ghosts>>

(* A ring-shown event replaces the answer.                                 *)
HearsMove ==
    /\ InOrder => \A k \in Reports : task[k] \notin {"shown", "not_shown", "no_answer"}
    /\ events # <<>> /\ events' = Tail(events)
    /\ shown' = IF reported THEN (IF Head(events) THEN "shown" ELSE "not_shown") ELSE shown
    /\ UNCHANGED <<srv, late, device, run, ring, reported, task, gone, ending, held, heard, read, flying, call,
                   declining, bounds, ghosts>>

(* #finishRing, a tick after the ring has gone.                            *)
Finishes ==
    /\ gone /\ gone' = FALSE /\ shown' = "none"
    /\ reported' = FALSE /\ ending' = (ending \/ reported)
    /\ UNCHANGED <<srv, late, device, run, ring, task, events, held, heard, read, flying, call, declining, bounds, ghosts>>

EndHandled ==
    /\ ending /\ ending' = FALSE
    /\ Ends
    /\ UNCHANGED <<srv, late, front, leaving, queue, signed, run, ring, reported, task, shown, gone, events, held, heard,
                   read, flying, call, declining, bounds, pressed, carried, missed>>

-----------------------------------------------------------------------------
(* A run begins, and what is pressed reaches the voice session. *)

(* #runStart: the capabilities and labels, the rings there are, and the    *)
(* listener for presses; then the one for moves, and what was queued.      *)
RunActs ==
    /\ run = "start" /\ run' = "acting"
    /\ IF ring THEN Reporting ELSE UNCHANGED <<reported, task>>
    /\ UNCHANGED <<srv, late, device, ring, shown, gone, ending, events, held, heard, read, flying, call, declining,
                   bounds, ghosts>>

RunUp ==
    /\ run = "acting" /\ run' = "up"
    /\ held' = held \cup queue /\ queue' = {}
    /\ UNCHANGED <<srv, late, native, note, front, leaving, signed, ring, reported, task, shown, gone, ending, events,
                   heard, read, flying, call, declining, bounds, ghosts>>

(* Answer and Decline, of the sheet and of the bridge alike: the ring is   *)
(* dismissed, and the server asked.                                        *)
Answer == RingLeaves /\ call' = "joining" /\ UNCHANGED declining
Decline == RingLeaves /\ declining' = TRUE /\ UNCHANGED call

(* pendingActionVerdict, and what the bridge does by it.                   *)
Handle(a) ==
    /\ a \in held
    /\ CASE call = "in" \/ heard \/ late -> held' = held \ {a} /\ UNCHANGED <<ring, gone, call, declining>>
         [] ~(call = "in" \/ heard \/ late) /\ a = "decline" -> held' = held \ {a} /\ Decline
         [] ~(call = "in" \/ heard \/ late) /\ a = "answer" /\ ring -> held' = held \ {a} /\ Answer
         [] OTHER -> FALSE
    /\ UNCHANGED <<srv, late, device, run, reported, task, shown, ending, events, heard, read, flying, bounds, ghosts>>

(* The requests: each reaches the server, or fails and is not repeated.    *)
Joins ==
    /\ call = "joining"
    /\ \/ srv = "ringing" /\ srv' = "joined" /\ call' = "in"
       \/ call' = "idle" /\ UNCHANGED srv
    /\ carried' = TRUE
    /\ UNCHANGED <<late, device, run, ring, reported, task, shown, gone, ending, events, held, heard, read, flying,
                   declining, bounds, pressed, told, missed>>

Declines ==
    /\ declining /\ declining' = FALSE
    /\ \/ srv' = IF srv = "ringing" THEN "over" ELSE srv
       \/ UNCHANGED srv
    /\ carried' = TRUE
    /\ UNCHANGED <<late, device, run, ring, reported, task, shown, gone, ending, events, held, heard, read, flying, call,
                   bounds, pressed, told, missed>>

(* The caller gives up, another device answers, or the ring times out.     *)
CallerEnds ==
    /\ srv \in {"ringing", "joined"} /\ srv' = "over"
    /\ UNCHANGED <<late, device, page, bounds, ghosts>>

-----------------------------------------------------------------------------
(* What the page rings (pageRingDuties, the plugin having answered).       *)
Sheet == ring /\ run \in {"acting", "up"}
Tone == Sheet /\ (shown \in {"not_shown", "no_answer"} \/ front)

SheetAnswer ==
    /\ Sheet /\ front /\ call = "idle"
    /\ Answer /\ Press("answer")
    /\ UNCHANGED <<srv, late, device, run, reported, task, shown, ending, events, held, heard, read, flying, bounds, told, missed>>

SheetDecline ==
    /\ Sheet /\ front
    /\ Decline /\ Press("decline")
    /\ UNCHANGED <<srv, late, device, run, reported, task, shown, ending, events, held, heard, read, flying, bounds, told, missed>>

Next ==
    \/ \E b \in BOOLEAN : PushRings(b)
    \/ PushEnds \/ WindowCloses \/ ComesToFront \/ Leaves \/ Left \/ Kill
    \/ PressAnswer \/ PressDecline \/ SignedAnswers \/ SheetAnswer \/ SheetDecline
    \/ HearsRing \/ HearsState \/ Reads \/ ReadAnswered \/ RingTimesOut
    \/ \E k \in Reports : Asks(k) \/ Handled(k) \/ Answered(k)
    \/ LosesPatience \/ HearsMove \/ Finishes \/ EndHandled \/ RunActs \/ RunUp
    \/ \E a \in {"answer", "decline"} : Handle(a)
    \/ Joins \/ Declines \/ CallerEnds

Spec == Init /\ [][Next]_vars

-----------------------------------------------------------------------------
TypeOK ==
    /\ srv \in {"ringing", "joined", "over"} /\ {late, front, leaving, signed} \subseteq BOOLEAN
    /\ native \in [over : BOOLEAN, known : {"none", "push", "page"}, token : BOOLEAN,
                   posted : BOOLEAN, held : BOOLEAN, owned : BOOLEAN]
    /\ note \in {"none", "signed", "page", "opens"}
    /\ {queue, held} \subseteq SUBSET {"answer", "decline"}
    /\ run \in {"none", "start", "acting", "up"}
    /\ {ring, reported, gone, ending, heard, flying, declining} \subseteq BOOLEAN
    /\ task \in [Reports -> {"unused", "asking", "sent", "shown", "not_shown", "no_answer", "done"}]
    /\ shown \in {"none", "shown", "not_shown", "no_answer"}
    /\ events \in Seq(BOOLEAN) /\ read \in {"none", "rings", "not"}
    /\ call \in {"idle", "joining", "in"}

(* Nothing is on its way between the page and the plugin.                  *)
Quiet ==
    /\ run = "up" /\ ~missed /\ ~leaving /\ ~gone /\ ~ending /\ events = <<>>
    /\ ~signed /\ ~declining /\ held = {}
    /\ \A k \in Reports : task[k] \in {"unused", "done"}

(* One ring for one call: the page's tone and the notification do not ring *)
(* at once, once each has heard of the other.                              *)
OneRing == Quiet /\ shown # "no_answer" => ~(Tone /\ note # "none")

(* And not none either: while the call rings, nobody has been pressed, and *)
(* the page knows of it, something rings where the person is.              *)
NeverSilent ==
    Quiet /\ ring /\ srv = "ringing" /\ ~late /\ pressed = "none" =>
        IF front THEN Tone ELSE Notify => note # "none" \/ shown = "no_answer"

(* What a process knows to be over it does not post again.                 *)
NoGhostRing == told => note = "none"

(* A press is on its way until the server was asked, the call is over, or  *)
(* the process that had it is gone; and it waits in the plugin only while  *)
(* no page is up that could take it.                                       *)
PressIsCarried ==
    pressed # "none" /\ ~carried /\ srv = "ringing" /\ ~late =>
        \/ signed \/ declining \/ call # "idle"
        \/ pressed \in held \/ (pressed \in queue /\ run # "up")

(* A call declined here, of which the page is told that the plugin has it, *)
(* does not ring in front: "so its sheet does not ring in front for a call *)
(* just declined" (RingHandler.kt).                                        *)
DeclinedIsSilent == pressed = "decline" /\ Quiet /\ shown = "shown" => ~Tone
=============================================================================
