----------------------------- MODULE ShellVideo -----------------------------
(***************************************************************************)
(* The camera and the shared screen of a call the shell carries            *)
(* (src-tauri/src/voice/video.rs: voice_set_camera, voice_set_screen, the  *)
(* pump's answer to a mute by the SFU, teardown, forget_page), and the     *)
(* page's buttons for them (client/src/voice/session.ts: setCameraEnabled, *)
(* setScreenShareEnabled, #onLocalChanged, #adopt).                        *)
(*                                                                         *)
(* A command is a task that may wait for a device, a picker or the SFU     *)
(* while others run.  A ticket says which command is the latest, and a     *)
(* queue lets one command of the camera run at a time.  A capture is named *)
(* after the command that opened it, and nothing stops one that is         *)
(* forgotten.                                                              *)
(*                                                                         *)
(* Abstracted: sizes, codecs, keys; tiles, but for the state they share    *)
(* with the publications; the microphone (ShellMic).                       *)
(***************************************************************************)
EXTENDS Naturals, Sequences, FiniteSets

CONSTANTS
    Calls,     \* sessions, numbered in the order they are stored
    Commands,  \* voice_set_camera and voice_set_screen, numbered as they are sent
    Cameras,   \* the devices a camera command may name
    MaxTroubles, \* how often a device, a picker or a publish fails, the
                 \* SFU mutes the camera, or the page is reloaded
    VideoRaces,  \* what may come at a bad moment, see Untimely
    None

(* What the code leaves open; a run names what may happen.                 *)
(*   reload  a page takes the call over under the last one's command       *)
(*   settle  a press of one call is answered in the next                   *)
(*   rebind  with that, a take-down or a close of one call ends in the next *)
(*   switch  a device does not open for a camera that is published unmuted *)
(*   sfu     the SFU mutes the camera under a command of the page          *)
Untimely == {"reload", "settle", "rebind", "switch", "sfu"}

VARIABLES
    session,   \* SESSION, by its id
    down,      \* per call: where its voice_disconnect is
    torn,      \* the captures a teardown has taken and is to stop
    video,     \* VIDEO: the state of one session
    turn,      \* CAMERA_OPS: who has it, and who waits for it
    cmd,       \* per command: its place, and what it holds
    lit,       \* the cameras and screens being captured
    loud,      \* the loopbacks of shares being captured
    dirty,     \* a change of a track the event pump has still to handle
    page,      \* [call, cam, dev, camTicket, scr, scrTicket, seq]
    troubles   \* how many there were

vars == <<session, down, torn, video, turn, cmd, lit, loud, dirty, page, troubles>>

NoCmd == [pc |-> "unused", kind |-> "camera", on |-> FALSE, dev |-> None, sound |-> FALSE, seq |-> 0,
          call |-> None, took |-> None, first |-> FALSE, muted |-> FALSE, ours |-> FALSE]
NoWish == [on |-> FALSE, dev |-> "unasked"]
Fresh(k) == [session |-> k, camAsked |-> 0, wish |-> NoWish, camera |-> None,
             scrAsked |-> 0, screen |-> None, sound |-> None]
NoPage == [call |-> None, cam |-> FALSE, dev |-> None, camTicket |-> None,
           scr |-> FALSE, scrTicket |-> None, seq |-> 0]

Init ==
    /\ session = None /\ down = [k \in Calls |-> "unborn"] /\ torn = {}
    /\ video = Fresh(None) /\ turn = <<>>
    /\ cmd = [c \in Commands |-> NoCmd]
    /\ lit = {} /\ loud = {} /\ dirty = FALSE
    /\ \E d \in Cameras : page = [NoPage EXCEPT !.dev = d]
    /\ troubles = 0

Ended == {"done", "failed"}
(* A command whose answer the page has had, or is gone with its page.      *)
Over == [NoCmd EXCEPT !.pc = "done"]
(* A command that is to take down, or may have to.                         *)
Publishing == {"publishing", "recording", "shutting", "taking", "replacing", "undoing", "hushing",
               "sounding", "sounded", "quelling", "storing"}
Trouble == troubles < MaxTroubles /\ troubles' = troubles + 1

(* with_state makes a state of its session's, whichever is there;          *)
(* with_live_state looks whether it is there.                              *)
StateOf(k) == IF video.session = k THEN video ELSE Fresh(k)
Live(c) == video.session = cmd[c].call

(* What this device is sending: a camera that captures and is not muted,   *)
(* a screen that is stored.                                                *)
Sends == [cam |-> video.session = session /\ video.camera # None /\ video.camera.cap # None /\ ~video.camera.muted,
          scr |-> video.session = session /\ video.screen # None]

-----------------------------------------------------------------------------
(* The page.                                                               *)

Unused(c) == cmd[c].pc = "unused" /\ \A b \in Commands : b < c => cmd[b].pc # "unused"
Ask(c, kind, on, dev, sound) ==
    Unused(c) /\ cmd' = [cmd EXCEPT ![c] = [NoCmd EXCEPT !.pc = "sent", !.kind = kind, !.on = on, !.dev = dev,
                                                         !.sound = sound, !.seq = page.seq + 1, !.ours = TRUE]]
Busy(kind) == \E c \in Commands : cmd[c].ours /\ cmd[c].kind = kind

(* A connect stores its session: the call of the page that asked for it.   *)
Connects(k) ==
    /\ session = None /\ down[k] = "unborn" /\ \A j \in Calls : j < k => down[j] = "done"
    /\ "rebind" \in VideoRaces \/ \A c \in Commands : cmd[c].pc \notin Publishing
    /\ "settle" \in VideoRaces \/ (~Busy("camera") /\ ~Busy("screen"))
    /\ session' = k /\ down' = [down EXCEPT ![k] = "no"]
    /\ dirty' = FALSE
    /\ page' = [page EXCEPT !.call = k, !.cam = FALSE, !.scr = FALSE, !.seq = 0]
    /\ UNCHANGED <<torn, video, turn, cmd, lit, loud, troubles>>

(* The camera's button asks for the opposite of the latest request that is *)
(* still settling, else of what it shows.                                  *)
PressCamera ==
    /\ page.call # None
    /\ \E c \in Commands :
         LET on == IF page.camTicket # None THEN ~cmd[page.camTicket].on ELSE ~page.cam IN
         /\ Ask(c, "camera", on, IF on THEN page.dev ELSE None, FALSE)
         /\ page' = [page EXCEPT !.camTicket = c, !.seq = @ + 1]
    /\ UNCHANGED <<session, down, torn, video, turn, lit, loud, dirty, troubles>>

(* Another camera: kept, and a camera that is on is turned on again, with  *)
(* that one.                                                               *)
PickCamera(d) ==
    /\ page.call # None /\ page.dev # d
    /\ \/ /\ ~page.cam
          /\ page' = [page EXCEPT !.dev = d]
          /\ UNCHANGED cmd
       \/ /\ page.cam
          /\ \E c \in Commands :
               /\ Ask(c, "camera", TRUE, d, FALSE)
               /\ page' = [page EXCEPT !.dev = d, !.camTicket = c, !.seq = @ + 1]
    /\ UNCHANGED <<session, down, torn, video, turn, lit, loud, dirty, troubles>>

(* One request for the screen at a time: a start beside another is         *)
(* ignored, and a stop waits for it.                                       *)
PressScreen(sound) ==
    /\ page.call # None /\ ~Busy("screen")
    /\ page.scr => ~sound
    /\ \E c \in Commands :
         /\ Ask(c, "screen", ~page.scr, None, sound)
         /\ page' = [page EXCEPT !.scrTicket = c, !.seq = @ + 1]
    /\ UNCHANGED <<session, down, torn, video, turn, lit, loud, dirty, troubles>>

(* Only the latest request may say what its source is, and a failed one    *)
(* says off.  A teardown leaves the tickets as they are.                   *)
Answered(c) ==
    /\ cmd[c].ours /\ cmd[c].pc \in Ended
    /\ cmd' = [cmd EXCEPT ![c] = Over]
    /\ LET on == cmd[c].on /\ cmd[c].pc = "done" IN
       page' = IF c = page.camTicket THEN [page EXCEPT !.cam = on, !.camTicket = None]
               ELSE IF c = page.scrTicket THEN [page EXCEPT !.scr = on, !.scrTicket = None]
               ELSE page
    /\ UNCHANGED <<session, down, torn, video, turn, lit, loud, dirty, troubles>>

(* What the shell reports is taken over, but for a source with a request   *)
(* of the page's own in flight.                                            *)
\* Mutant: a report is taken over whatever is in flight
LocalChangedBusy(reading) ==
    [page EXCEPT !.cam = reading.cam, !.camTicket = IF page.cam = reading.cam THEN @ ELSE None,
                 !.scr = reading.scr, !.scrTicket = IF page.scr = reading.scr THEN @ ELSE None]
LocalChanged(reading) ==
    [page EXCEPT !.cam = IF Busy("camera") THEN @ ELSE reading.cam,
                 !.camTicket = IF Busy("camera") \/ page.cam = reading.cam THEN @ ELSE None,
                 !.scr = IF Busy("screen") THEN @ ELSE reading.scr,
                 !.scrTicket = IF Busy("screen") \/ page.scr = reading.scr THEN @ ELSE None]

(* A reload: the next page reads what is sent, and the shell forgets the   *)
(* numbers of the page before.                                             *)
Reload ==
    /\ session # None /\ page.call = session /\ Trouble
    /\ "reload" \in VideoRaces \/ \A c \in Commands : cmd[c].pc \in Ended \cup {"unused"}
    /\ video' = [StateOf(session) EXCEPT !.camAsked = 0, !.wish = NoWish, !.scrAsked = 0]
    /\ cmd' = [c \in Commands |-> IF cmd[c].pc \in Ended THEN Over ELSE [cmd[c] EXCEPT !.ours = FALSE]]
    /\ page' = [NoPage EXCEPT !.call = session, !.dev = page.dev, !.cam = Sends.cam, !.scr = Sends.scr]
    /\ UNCHANGED <<session, down, torn, turn, lit, loud, dirty>>

-----------------------------------------------------------------------------
(* The call.                                                               *)

(* A hang-up: the session is taken; then its video state, whole; then its  *)
(* captures are stopped, and the room closes.                              *)
HangUp ==
    /\ session # None /\ page.call = session
    /\ session' = None /\ down' = [down EXCEPT ![session] = "taken"]
    /\ page' = [page EXCEPT !.call = None, !.cam = FALSE, !.scr = FALSE]
    /\ UNCHANGED <<torn, video, turn, cmd, lit, loud, dirty, troubles>>

\* Mutant: the sound of a share is left to its stop
TearsPictures(k) ==
    /\ down[k] = "taken" /\ down' = [down EXCEPT ![k] = "torn"]
    /\ torn' = {x \in Commands : x = video.screen \/ (video.camera # None /\ x = video.camera.cap)}
    /\ video' = Fresh(None)
    /\ UNCHANGED <<session, turn, cmd, lit, loud, dirty, page, troubles>>
Tears(k) ==
    /\ down[k] = "taken" /\ down' = [down EXCEPT ![k] = "torn"]
    /\ torn' = {x \in Commands : \/ x = video.screen
                                 \/ video.camera # None /\ x = video.camera.cap
                                 \/ video.sound # None /\ x = video.sound.cap}
    /\ video' = Fresh(None)
    /\ UNCHANGED <<session, turn, cmd, lit, loud, dirty, page, troubles>>

Stops(k) ==
    /\ down[k] = "torn" /\ down' = [down EXCEPT ![k] = "done"]
    /\ lit' = lit \ torn /\ loud' = loud \ torn /\ torn' = {}
    /\ UNCHANGED <<session, video, turn, cmd, dirty, page, troubles>>

(* A moderator stops the camera: the SDK mutes the publication.            *)
SfuMutes ==
    /\ session # None
    /\ "sfu" \in VideoRaces \/ ~Busy("camera")
    /\ Trouble
    /\ \/ /\ video.session = session /\ video.camera # None /\ ~video.camera.muted
          /\ video' = [video EXCEPT !.camera.muted = TRUE]
          /\ UNCHANGED cmd
       \/ /\ \E c \in Commands : /\ cmd[c].kind = "camera" /\ cmd[c].pc = "recording" /\ cmd[c].call = session
                                 /\ cmd' = [cmd EXCEPT ![c].muted = TRUE]
          /\ UNCHANGED video
    /\ dirty' = TRUE
    /\ UNCHANGED <<session, down, torn, turn, lit, loud, page>>

(* The pump: a muted camera that still captures is closed, and the page    *)
(* is told what is sent now.                                               *)
Pump ==
    /\ dirty /\ session # None
    /\ dirty' = FALSE
    /\ LET closes == video.session = session /\ video.camera # None /\ video.camera.muted IN
       /\ video' = IF closes THEN [video EXCEPT !.camera.cap = None] ELSE video
       /\ lit' = IF closes THEN lit \ {video.camera.cap} ELSE lit
    /\ page' = IF page.call = session THEN LocalChanged(Sends) ELSE page
    /\ UNCHANGED <<session, down, torn, turn, cmd, loud, troubles>>

-----------------------------------------------------------------------------
(* voice_set_camera.                                                       *)

Wish(c) == [on |-> cmd[c].on, dev |-> cmd[c].dev]
(* The latest instruction stands, and one that asks what the latest asks.  *)
Stands(c) == Live(c) /\ (video.camAsked = cmd[c].seq \/ video.wish = Wish(c))

Goes(c, pc) == cmd' = [cmd EXCEPT ![c].pc = pc]
(* The turn of a camera's command goes to who waits next.                  *)
Ends(c, pc) ==
    /\ cmd' = [cmd EXCEPT ![c].pc = pc, ![c].took = None]
    /\ turn' = IF cmd[c].kind = "camera" THEN Tail(turn) ELSE turn
HasTurn(c) == turn # <<>> /\ Head(turn) = c

(* On arrival, the ticket: none for one overtaken by a later.              *)
ArrivesCamera(c) ==
    /\ cmd[c].pc = "sent" /\ cmd[c].kind = "camera"
    /\ IF session = None
       THEN Goes(c, "failed") /\ UNCHANGED <<video, turn>>
       ELSE IF cmd[c].seq <= StateOf(session).camAsked
       THEN video' = StateOf(session) /\ Goes(c, "done") /\ UNCHANGED turn
       ELSE /\ video' = [StateOf(session) EXCEPT !.camAsked = cmd[c].seq, !.wish = Wish(c)]
            /\ turn' = Append(turn, c)
            /\ cmd' = [cmd EXCEPT ![c].pc = "waiting", ![c].call = session]
    /\ UNCHANGED <<session, down, torn, lit, loud, dirty, page, troubles>>

(* In its turn: dropped, or off, or on with the device that is open, or a  *)
(* device to open, the last one closed before.                             *)
BeginsCamera(c) ==
    /\ HasTurn(c) /\ cmd[c].pc = "waiting"
    /\ LET camera == video.camera
           same == camera # None /\ camera.cap # None /\ camera.dev = cmd[c].dev
           took == IF camera = None THEN None ELSE camera.cap IN
       CASE ~Stands(c) \/ (camera = None /\ ~cmd[c].on) -> Ends(c, "done") /\ UNCHANGED <<video, dirty>>
         [] Stands(c) /\ camera # None /\ ~cmd[c].on ->
              /\ video' = [video EXCEPT !.camera = [@ EXCEPT !.muted = TRUE, !.cap = None]]
              /\ dirty' = (dirty \/ ~camera.muted)
              /\ IF took = None THEN Ends(c, "done")
                 ELSE cmd' = [cmd EXCEPT ![c].pc = "closing", ![c].took = took] /\ UNCHANGED turn
         [] Stands(c) /\ cmd[c].on /\ same ->
              /\ video' = [video EXCEPT !.camera.muted = FALSE]
              /\ dirty' = (dirty \/ camera.muted)
              /\ Ends(c, "done")
         [] Stands(c) /\ cmd[c].on /\ ~same ->
              /\ video' = IF camera = None THEN video ELSE [video EXCEPT !.camera.cap = None]
              /\ cmd' = [cmd EXCEPT ![c].pc = IF took = None THEN "opening" ELSE "switching",
                                    ![c].took = took, ![c].first = (camera = None)]
              /\ UNCHANGED <<turn, dirty>>
    /\ UNCHANGED <<session, down, torn, lit, loud, page, troubles>>

(* The last device is closed; a mute that came meanwhile opens no other.   *)
Switches(c) ==
    /\ cmd[c].pc = "switching"
    /\ lit' = lit \ {cmd[c].took}
    /\ IF Stands(c) THEN cmd' = [cmd EXCEPT ![c].pc = "opening"] /\ UNCHANGED turn ELSE Ends(c, "done")
    /\ UNCHANGED <<session, down, torn, video, loud, dirty, page, troubles>>

(* A camera the others see: one whose device is closed shows its last      *)
(* picture.                                                                *)
Watched(c) == Live(c) /\ video.camera # None /\ ~video.camera.muted

(* The device opens, or does not.                                          *)
Opens(c) ==
    /\ cmd[c].pc = "opening"
    /\ \/ lit' = lit \cup {c} /\ Goes(c, "opened") /\ UNCHANGED <<turn, troubles>>
       \/ /\ "switch" \in VideoRaces \/ ~Watched(c)
          /\ Trouble /\ Ends(c, "failed") /\ UNCHANGED lit
    /\ UNCHANGED <<session, down, torn, video, loud, dirty, page>>

(* Open: installed, or published if there is no publication yet, or        *)
(* closed if something was asked, or the call ended, meanwhile.            *)
Installs(c) ==
    /\ cmd[c].pc = "opened"
    /\ IF Stands(c) /\ cmd[c].first THEN Goes(c, "publishing") /\ UNCHANGED <<video, turn, dirty>>
       ELSE IF Stands(c) /\ video.camera # None
       THEN /\ video' = [video EXCEPT !.camera = [muted |-> FALSE, cap |-> c, dev |-> cmd[c].dev]]
            /\ dirty' = (dirty \/ video.camera.muted) /\ Ends(c, "done")
       ELSE cmd' = [cmd EXCEPT ![c].pc = "closing", ![c].took = c] /\ UNCHANGED <<video, turn, dirty>>
    /\ UNCHANGED <<session, down, torn, lit, loud, page, troubles>>

PublishesCamera(c) ==
    /\ cmd[c].pc = "publishing" /\ cmd[c].kind = "camera"
    /\ \/ Goes(c, "recording") /\ dirty' = (dirty \/ session = cmd[c].call) /\ UNCHANGED troubles
       \/ Trouble /\ cmd' = [cmd EXCEPT ![c].pc = "refused", ![c].took = c] /\ UNCHANGED dirty
    /\ UNCHANGED <<session, down, torn, video, turn, lit, loud, page>>

(* The publication is kept either way, as one nobody has could not be      *)
(* muted; muted and its device closed, if it is no longer wanted.          *)
Records(c) ==
    /\ cmd[c].pc = "recording" /\ cmd[c].kind = "camera"
    /\ IF Live(c)
       THEN /\ video' = [video EXCEPT !.camera = [muted |-> cmd[c].muted \/ ~Stands(c), dev |-> cmd[c].dev,
                                                  cap |-> IF Stands(c) THEN c ELSE None]]
            /\ dirty' = (dirty \/ (~Stands(c) /\ ~cmd[c].muted))
            /\ IF Stands(c) THEN Ends(c, "done")
               ELSE cmd' = [cmd EXCEPT ![c].pc = "shutting", ![c].took = c] /\ UNCHANGED turn
       ELSE cmd' = [cmd EXCEPT ![c].pc = "closing", ![c].took = c] /\ UNCHANGED <<video, turn, dirty>>
    /\ UNCHANGED <<session, down, torn, lit, loud, page, troubles>>

(* A device is closed.  After a publish nobody wanted, the tiles are bound *)
(* anew, in the state of this command's session.                           *)
Closes(c) ==
    /\ cmd[c].pc \in {"closing", "refused", "shutting"}
    /\ lit' = lit \ {cmd[c].took}
    /\ video' = IF cmd[c].pc = "shutting" THEN StateOf(cmd[c].call) ELSE video
    /\ Ends(c, IF cmd[c].pc = "refused" THEN "failed" ELSE "done")
    /\ UNCHANGED <<session, down, torn, loud, dirty, page, troubles>>

-----------------------------------------------------------------------------
(* voice_set_screen.                                                       *)

Latest(c) == Live(c) /\ video.scrAsked = cmd[c].seq
NextOf(c) == IF cmd[c].on THEN "picking" ELSE "done"

(* What there is of a share is taken: its picture, to be taken down.       *)
TakesPicture(c, v) ==
    /\ video' = [v EXCEPT !.screen = None]
    /\ cmd' = [cmd EXCEPT ![c].pc = IF v.screen = None THEN NextOf(c) ELSE "taking", ![c].took = v.screen,
                          ![c].call = session]

(* On arrival: the ticket; then whatever is shared is stopped, its sound   *)
(* first.                                                                  *)
ArrivesScreen(c) ==
    /\ cmd[c].pc = "sent" /\ cmd[c].kind = "screen"
    /\ LET v == [StateOf(session) EXCEPT !.scrAsked = cmd[c].seq] IN
       IF session = None
       THEN Goes(c, "failed") /\ UNCHANGED video
       ELSE IF cmd[c].seq <= StateOf(session).scrAsked
       THEN video' = StateOf(session) /\ Goes(c, "done")
       ELSE IF v.sound # None /\ v.sound.cap # None
       THEN /\ video' = [v EXCEPT !.sound.cap = None]
            /\ cmd' = [cmd EXCEPT ![c].pc = "quieting", ![c].took = v.sound.cap, ![c].call = session]
       ELSE TakesPicture(c, v)
    /\ UNCHANGED <<session, down, torn, turn, lit, loud, dirty, page, troubles>>

Quiets(c) ==
    /\ cmd[c].pc = "quieting"
    /\ loud' = loud \ {cmd[c].took}
    /\ LET screen == IF Live(c) THEN video.screen ELSE None IN
       /\ video' = IF Live(c) THEN [video EXCEPT !.screen = None] ELSE video
       /\ cmd' = [cmd EXCEPT ![c].pc = IF screen = None THEN NextOf(c) ELSE "taking", ![c].took = screen]
    /\ UNCHANGED <<session, down, torn, turn, lit, dirty, page, troubles>>

(* take_down: unpublished, its capture stopped, and the tiles bound anew.  *)
TakenDown(c, x) ==
    /\ lit' = lit \ {x}
    /\ video' = StateOf(cmd[c].call)
    /\ dirty' = (dirty \/ session = cmd[c].call)
    /\ UNCHANGED <<session, down, torn, turn, loud, page, troubles>>
TakesDown(c) ==
    /\ cmd[c].pc \in {"taking", "replacing"}
    /\ Goes(c, IF cmd[c].pc = "taking" THEN NextOf(c) ELSE "done")
    /\ TakenDown(c, cmd[c].took)

(* The picker: a screen is chosen and its first frame comes, or not.       *)
Picks(c) ==
    /\ cmd[c].pc = "picking"
    /\ \/ lit' = lit \cup {c} /\ Goes(c, "picked") /\ UNCHANGED troubles
       \/ Trouble /\ Goes(c, "failed") /\ UNCHANGED lit
    /\ UNCHANGED <<session, down, torn, video, turn, loud, dirty, page>>

Picked(c) ==
    /\ cmd[c].pc = "picked"
    /\ cmd' = IF Latest(c) THEN [cmd EXCEPT ![c].pc = "publishing"] ELSE [cmd EXCEPT ![c].pc = "closing", ![c].took = c]
    /\ UNCHANGED <<session, down, torn, video, turn, lit, loud, dirty, page, troubles>>

PublishesScreen(c) ==
    /\ cmd[c].pc = "publishing" /\ cmd[c].kind = "screen"
    /\ \/ /\ cmd' = [cmd EXCEPT ![c].pc = IF ~Latest(c) THEN "replacing" ELSE IF cmd[c].sound THEN "sounding" ELSE "storing",
                                ![c].took = IF Latest(c) THEN @ ELSE c,
                                ![c].first = Latest(c) /\ video.sound = None]
          /\ dirty' = (dirty \/ session = cmd[c].call)
          /\ UNCHANGED troubles
       \/ Trouble /\ cmd' = [cmd EXCEPT ![c].pc = "refused", ![c].took = c] /\ UNCHANGED dirty
    /\ UNCHANGED <<session, down, torn, video, turn, lit, loud, page>>

(* The share's sound costs the share nothing when it fails.                *)
Sounds(c) ==
    /\ cmd[c].pc = "sounding"
    /\ \/ loud' = loud \cup {c} /\ Goes(c, "sounded") /\ UNCHANGED troubles
       \/ Trouble /\ Goes(c, "storing") /\ UNCHANGED loud
    /\ UNCHANGED <<session, down, torn, video, turn, lit, dirty, page>>

(* The publication of the sound is made once in a call and then kept,      *)
(* muted; the capture goes into it if its share is still the latest.       *)
KeepsSound(c) ==
    /\ cmd[c].pc = "sounded"
    /\ LET kept == Latest(c) /\ (cmd[c].first <=> video.sound = None) IN
       \/ /\ video' = IF kept THEN [video EXCEPT !.sound = [cap |-> c, ticket |-> cmd[c].seq]]
                      ELSE IF cmd[c].first /\ Live(c) /\ video.sound = None
                      THEN [video EXCEPT !.sound = [cap |-> None, ticket |-> cmd[c].seq]] ELSE video
          /\ Goes(c, IF kept THEN "storing" ELSE "quelling")
          /\ UNCHANGED troubles
       \/ cmd[c].first /\ Trouble /\ Goes(c, "quelling") /\ UNCHANGED video
    /\ UNCHANGED <<session, down, torn, turn, lit, loud, dirty, page>>

Quells(c) ==
    /\ cmd[c].pc = "quelling"
    /\ loud' = loud \ {c}
    /\ Goes(c, "storing")
    /\ UNCHANGED <<session, down, torn, video, turn, lit, dirty, page, troubles>>

(* Stored, if it is still the latest of its call; a share that is found    *)
(* there is taken down.                                                    *)
Stores(c) ==
    /\ cmd[c].pc = "storing"
    /\ IF Latest(c)
       THEN /\ video' = [video EXCEPT !.screen = c]
            /\ cmd' = [cmd EXCEPT ![c].pc = IF video.screen = None THEN "done" ELSE "replacing", ![c].took = video.screen]
       ELSE Goes(c, "undoing") /\ UNCHANGED video
    /\ UNCHANGED <<session, down, torn, turn, lit, loud, dirty, page, troubles>>

(* A share that came too late: its picture is taken down, then the sound   *)
(* it started, and no other's, is stopped.                                 *)
Undoes(c) ==
    /\ cmd[c].pc = "undoing"
    /\ Goes(c, "hushing")
    /\ TakenDown(c, c)
Hushes(c) ==
    /\ cmd[c].pc = "hushing"
    /\ LET its == Live(c) /\ video.sound # None /\ video.sound.cap # None /\ video.sound.ticket = cmd[c].seq IN
       /\ video' = IF its THEN [video EXCEPT !.sound.cap = None] ELSE video
       /\ loud' = IF its THEN loud \ {video.sound.cap} ELSE loud
    /\ Goes(c, "done")
    /\ UNCHANGED <<session, down, torn, turn, lit, dirty, page, troubles>>

-----------------------------------------------------------------------------
Camera(c) ==
    \/ ArrivesCamera(c) \/ BeginsCamera(c) \/ Switches(c) \/ Opens(c) \/ Installs(c)
    \/ PublishesCamera(c) \/ Records(c) \/ Closes(c)
Screen(c) ==
    \/ ArrivesScreen(c) \/ Quiets(c) \/ TakesDown(c) \/ Picks(c) \/ Picked(c) \/ PublishesScreen(c)
    \/ Sounds(c) \/ KeepsSound(c) \/ Quells(c) \/ Stores(c) \/ Undoes(c) \/ Hushes(c)

Next ==
    \/ \E k \in Calls : Connects(k) \/ Tears(k) \/ Stops(k)
    \/ PressCamera \/ (\E d \in Cameras : PickCamera(d)) \/ (\E sound \in BOOLEAN : PressScreen(sound))
    \/ Reload \/ HangUp \/ SfuMutes \/ Pump
    \/ \E c \in Commands : Answered(c) \/ Camera(c) \/ Screen(c)

Spec == Init /\ [][Next]_vars

-----------------------------------------------------------------------------
Running == {c \in Commands : cmd[c].pc \notin Ended \cup {"unused"}}
AtRest == Running = {} /\ ~dirty /\ (\A c \in Commands : ~cmd[c].ours)
          /\ \A k \in Calls : down[k] \in {"unborn", "no", "done"}

(* No camera, screen or sound is captured that nothing will stop: it is    *)
(* the publication's, or a command that still runs has it, or a teardown.  *)
NothingRunsOn ==
    /\ \A x \in lit : \/ x \in torn \/ x \in Running \/ \E c \in Running : cmd[c].took = x
                      \/ video.camera # None /\ video.camera.cap = x
                      \/ video.screen = x
    /\ \A x \in loud : \/ x \in torn \/ x \in Running \/ \E c \in Running : cmd[c].took = x
                       \/ video.sound # None /\ video.sound.cap = x

(* When nothing is under way, the buttons of the page say what is sent, a  *)
(* camera is captured just when it is sent, and a sound goes with a share. *)
ShownIsSent ==
    AtRest /\ session # None =>
        /\ page.cam = Sends.cam /\ page.scr = Sends.scr
        /\ video.session = session /\ video.camera # None => (video.camera.cap = None <=> video.camera.muted)
        /\ video.session = session /\ video.sound # None /\ video.sound.cap # None => video.screen # None

TypeOK ==
    /\ session \in Calls \cup {None}
    /\ down \in [Calls -> {"unborn", "no", "taken", "torn", "done"}]
    /\ torn \subseteq Commands /\ lit \subseteq Commands /\ loud \subseteq Commands
    /\ dirty \in BOOLEAN
    /\ \A c \in Commands : cmd[c].call \in Calls \cup {None} /\ cmd[c].took \in Commands \cup {None}
    /\ page.call \in Calls \cup {None} /\ page.dev \in Cameras /\ page.seq \in 0..Cardinality(Commands)
    /\ page.camTicket \in Commands \cup {None} /\ page.scrTicket \in Commands \cup {None}
=============================================================================
