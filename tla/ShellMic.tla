------------------------------ MODULE ShellMic ------------------------------
(***************************************************************************)
(* The microphone of a call the shell carries (src-tauri/src/voice/mod.rs: *)
(* the gate, voice_set_mic, the checks that put recording back, the stop   *)
(* at hang-up; video.rs: the sound of a share), and the page's side of it  *)
(* (client/src/voice/session.ts: setMicMuted, the end of #join,            *)
(* #onLocalChanged).                                                       *)
(*                                                                         *)
(* libwebrtc starts and stops the one recording device from what its       *)
(* streams do, and a share's sound is one of them.  The shell's gate keeps *)
(* its starts from a closed microphone, and the shell's checks undo its    *)
(* stops of an open one.  Commands run side by side and out of order; what *)
(* touches the device does so under MIC_RECORDING, one step here.          *)
(*                                                                         *)
(* Abstracted: the canceller and the settling times around a start; the    *)
(* picture of a share; a connect to what it does to the microphone.        *)
(***************************************************************************)
EXTENDS Naturals, FiniteSets

CONSTANTS
    Calls,     \* sessions, numbered in the order they are stored
    Asks,      \* voice_set_mic commands, numbered
    MaxShares, \* how often a share with sound is started
    MaxFails,  \* how often a start of the device is refused
    MaxLoads,  \* how often the page is reloaded in a call
    Races,     \* which of the races below the run lets happen
    None

VARIABLES
    session,   \* SESSION, by its id
    mic,       \* per call: is session.mic set?
    asked,     \* per call: mic_asked
    failed,    \* per call: mic_start_failed
    gate,      \* adm_recording_enabled
    rec,       \* the device: off, initialised without recording, or on
    track,     \* per call: the microphone as the SFU has it
    cmd,       \* per voice_set_mic: its place, call, argument, number, and what it read
    down,      \* per call: where its voice_disconnect is
    looks,     \* the looks of recheck_microphone still to come in this call
    share,     \* the share's sound: none, fresh (not negotiated yet), on, or stopping
    pending,   \* SHARE_STOP_PENDING
    dirty,     \* per call: a change of the track the event pump has still to handle
    page,      \* [muted, wanted, ticket, starting, seq]: what the page shows and what it asked
    told,      \* the commands whose answer the page has had
    used       \* shares, failures and loads so far

device == <<gate, rec>>
vars == <<session, mic, asked, failed, device, track, cmd, down, looks, share, pending, dirty, page, told, used>>

NoCmd == [pc |-> "unused", call |-> None, on |-> FALSE, seq |-> 0, first |-> FALSE, ours |-> FALSE]
NoPage == [muted |-> TRUE, wanted |-> TRUE, ticket |-> None, starting |-> FALSE, seq |-> 0]

Init ==
    /\ session = None
    /\ mic = [k \in Calls |-> FALSE] /\ asked = [k \in Calls |-> 0] /\ failed = [k \in Calls |-> FALSE]
    /\ gate = FALSE /\ rec = "off"
    /\ track = [k \in Calls |-> "none"]
    /\ cmd = [a \in Asks |-> NoCmd]
    /\ down = [k \in Calls |-> "unborn"]
    /\ looks = 0
    /\ share = "none" /\ pending = None
    /\ dirty = [k \in Calls |-> FALSE]
    /\ page = NoPage /\ told = {}
    /\ used = [shares |-> 0, fails |-> 0, loads |-> 0]

(* The races the code leaves open; a run names those that happen.          *)
(*   hangup  voice_set_mic is past its look at the session when a hang-up  *)
(*           goes by, or a new call is stored before the last one stopped  *)
(*   lock    two commands take MIC_RECORDING out of the order they were    *)
(*           numbered in                                                   *)
(*   share   a share's sound is muted before it is negotiated, while the   *)
(*           microphone is being opened or its last start failed           *)
(*   sfu     the SFU mutes the microphone under a command                  *)
(*   publish the microphone's publish fails after its open gate has let a  *)
(*           share start the device                                        *)
(*   late    presses overlap on a microphone the join could not publish    *)
(*   reload  a page takes the call over under the last one's command       *)
ASSUME MicAssumption == Calls \subseteq Nat /\ Asks \subseteq Nat /\ None \notin Calls \cup Asks
ASSUME RacesAssumption == Races \subseteq {"hangup", "lock", "share", "sfu", "publish", "late", "reload"}

Ended == {"done", "failed"}
Idle == \A a \in Asks : cmd[a].pc \in Ended \cup {"unused"}
InTurn(a) == \A b \in Asks : cmd[b].pc = "locking" => cmd[b].seq >= cmd[a].seq
(* What a step on the device may take for granted without those races.     *)
Undisturbed(a) ==
    /\ "hangup" \in Races \/ down[cmd[a].call] \in {"no", "taken"}
    /\ "lock" \in Races \/ InTurn(a)
    /\ "share" \in Races \/ ~cmd[a].on \/ share # "stopping"

-----------------------------------------------------------------------------
(* The device, as the shell and libwebrtc ask for it.                      *)

(* The shell's start: on, or refused and left initialised.  Behind a       *)
(* closed gate a start succeeds and does nothing, a stop does nothing.     *)
Starts(k, open) ==
    \/ /\ rec' = IF open THEN "on" ELSE rec
       /\ failed' = [failed EXCEPT ![k] = FALSE]
       /\ UNCHANGED used
    \/ /\ open /\ used.fails < MaxFails
       /\ rec' = "init"
       /\ failed' = [failed EXCEPT ![k] = (session = k)]
       /\ used' = [used EXCEPT !.fails = @ + 1]

Stopped == IF gate THEN "off" ELSE rec

(* libwebrtc's own start, from what a stream does.                         *)
RtcStart == IF gate /\ rec = "off" THEN "on" ELSE rec

(* A look at once, and again at one and at three seconds.                  *)
Recheck(k) == looks' = IF session = k THEN 3 ELSE looks

-----------------------------------------------------------------------------
(* The page.                                                               *)

Unused(a) == cmd[a].pc = "unused" /\ \A b \in Asks : b < a => cmd[b].pc # "unused"
Ask(a, on, seq, first) == Unused(a) /\ cmd' = [cmd EXCEPT ![a] = [NoCmd EXCEPT !.pc = "sent", !.on = on, !.seq = seq, !.first = first, !.ours = TRUE]]
Busy == \E a \in Asks : cmd[a].ours /\ cmd[a].pc # "unused" /\ a \notin told

(* A connect: the gate is closed, the session stored, and the join         *)
(* publishes the microphone, muted or not.                                 *)
Store(k, muted) ==
    /\ session = None /\ down[k] = "unborn" /\ \A j \in Calls : j < k => down[j] # "unborn"
    /\ "hangup" \in Races \/ (Idle /\ \A j \in Calls : down[j] # "taken")
    /\ session' = k
    /\ down' = [down EXCEPT ![k] = "no"]
    /\ gate' = FALSE
    /\ share' = "none"
    /\ \E a \in Asks : Ask(a, ~muted, 1, TRUE) /\ page' = [NoPage EXCEPT !.wanted = muted, !.ticket = a, !.starting = TRUE, !.seq = 1]
    /\ UNCHANGED <<mic, asked, failed, rec, track, looks, pending, dirty, told, used>>

(* A press.  During the join it is written down; later each is a command.  *)
Press ==
    /\ session # None
    /\ \/ /\ page.starting
          /\ page' = [page EXCEPT !.wanted = ~@, !.muted = ~page.wanted]
          /\ UNCHANGED cmd
       \/ /\ ~page.starting
          /\ "late" \in Races \/ mic[session] \/ ~Busy
          /\ \E a \in Asks : Ask(a, page.wanted, page.seq + 1, FALSE) /\ page' = [page EXCEPT !.wanted = ~@, !.ticket = a, !.seq = @ + 1]
    /\ UNCHANGED <<session, mic, asked, failed, device, track, down, looks, share, pending, dirty, told, used>>

(* The join's publish has answered: the latest press is applied, until     *)
(* there is none.                                                          *)
JoinAnswered(a) ==
    /\ page.starting /\ page.ticket = a /\ cmd[a].pc \in Ended /\ a \notin told
    /\ told' = told \cup {a}
    /\ IF cmd[a].pc = "failed"
       THEN page' = [page EXCEPT !.starting = FALSE, !.wanted = TRUE, !.muted = TRUE] /\ UNCHANGED cmd
       ELSE IF cmd[a].on = page.wanted
       THEN \E b \in Asks : Ask(b, ~page.wanted, page.seq + 1, FALSE) /\ page' = [page EXCEPT !.ticket = b, !.seq = @ + 1]
       ELSE page' = [page EXCEPT !.starting = FALSE, !.muted = page.wanted] /\ UNCHANGED cmd
    /\ UNCHANGED <<session, mic, asked, failed, device, track, down, looks, share, pending, dirty, used>>

(* Only the latest request says what the microphone is; a failed one says  *)
(* muted.                                                                  *)
Answered(a) ==
    /\ ~page.starting /\ cmd[a].ours /\ cmd[a].pc \in Ended /\ a \notin told
    /\ told' = told \cup {a}
    /\ page' = IF page.ticket # a THEN page
               ELSE LET muted == ~cmd[a].on \/ cmd[a].pc = "failed" IN
                    [page EXCEPT !.muted = muted, !.wanted = muted, !.ticket = None]
    /\ UNCHANGED <<session, mic, asked, failed, device, track, cmd, down, looks, share, pending, dirty, used>>

(* What the shell reports of the microphone, unless a request of the       *)
(* page's own is in flight: that one's answer says what it ended as.       *)
LocalChanged(reading) ==
    IF Busy \/ page.starting \/ session = None THEN page
    ELSE [page EXCEPT !.muted = ~reading, !.wanted = IF page.muted = reading THEN ~reading ELSE @,
                      !.ticket = IF page.muted = reading THEN None ELSE @]

-----------------------------------------------------------------------------
(* voice_set_mic.                                                          *)

(* Published: muted or unmuted.  Not yet: published, by an unmute or by    *)
(* the join; a mute finds nothing to do.                                   *)
Branch(a) == IF mic[session] THEN "locking" ELSE IF cmd[a].on \/ cmd[a].first THEN "publish" ELSE "done"

\* Mutant: a command overtaken by a later one is carried out
BeginsStale(a) ==
    /\ cmd[a].pc = "sent"
    /\ IF session = None
       THEN cmd' = [cmd EXCEPT ![a].pc = "failed"] /\ UNCHANGED asked
       ELSE /\ cmd' = [cmd EXCEPT ![a].call = session, ![a].pc = Branch(a)]
            /\ asked' = [asked EXCEPT ![session] = cmd[a].seq]
    /\ UNCHANGED <<session, mic, failed, device, track, down, looks, share, pending, dirty, page, told, used>>
(* No call: refused.  A number below the latest: dropped.  Otherwise the   *)
(* number is the latest, and a published microphone is muted or unmuted.   *)
Begins(a) ==
    /\ cmd[a].pc = "sent"
    /\ IF session = None
       THEN cmd' = [cmd EXCEPT ![a].pc = "failed"] /\ UNCHANGED asked
       ELSE IF cmd[a].seq <= asked[session]
       THEN cmd' = [cmd EXCEPT ![a].pc = "done"] /\ UNCHANGED asked
       ELSE /\ cmd' = [cmd EXCEPT ![a].call = session, ![a].pc = Branch(a)]
            /\ asked' = [asked EXCEPT ![session] = cmd[a].seq]
    /\ UNCHANGED <<session, mic, failed, device, track, down, looks, share, pending, dirty, page, told, used>>

(* The unmute of a published microphone: the gate, the device, the track.  *)
Unmutes(a) ==
    LET k == cmd[a].call IN
    /\ cmd[a].pc = "locking" /\ cmd[a].on
    /\ Undisturbed(a)
    /\ gate' = TRUE
    /\ Starts(k, TRUE)
    /\ track' = [track EXCEPT ![k] = "on"]
    /\ IF rec' = "init" THEN Recheck(k) ELSE UNCHANGED looks
    /\ cmd' = [cmd EXCEPT ![a].pc = "done"]
    /\ dirty' = [dirty EXCEPT ![k] = TRUE]
    /\ UNCHANGED <<session, mic, asked, down, share, pending, page, told>>

(* The mute: the track, the device, then the gate.                         *)
Mutes(a) ==
    LET k == cmd[a].call IN
    /\ cmd[a].pc = "locking" /\ ~cmd[a].on
    /\ Undisturbed(a)
    /\ track' = [track EXCEPT ![k] = "muted"]
    /\ rec' = Stopped /\ gate' = FALSE
    /\ failed' = [failed EXCEPT ![k] = FALSE]
    /\ cmd' = [cmd EXCEPT ![a].pc = "done"]
    /\ dirty' = [dirty EXCEPT ![k] = TRUE]
    /\ UNCHANGED <<session, mic, asked, down, looks, share, pending, page, told, used>>

(* The first publish: the gate before it, unless it is published muted.    *)
Publishes(a) ==
    /\ cmd[a].pc = "publish"
    /\ Undisturbed(a)
    /\ gate' = (gate \/ cmd[a].on)
    /\ cmd' = [cmd EXCEPT ![a].pc = "publishing"]
    /\ UNCHANGED <<session, mic, asked, failed, rec, track, down, looks, share, pending, dirty, page, told, used>>

(* publish_track has returned: libwebrtc starts the device of an unmuted   *)
(* track; or it failed, and there is no microphone to be open for.         *)
Published(a) ==
    LET k == cmd[a].call IN
    /\ cmd[a].pc = "publishing"
    /\ \/ /\ down[k] \in {"no", "taken"}
          /\ track' = [track EXCEPT ![k] = IF cmd[a].on THEN "on" ELSE "muted"]
          /\ rec' = IF cmd[a].on THEN RtcStart ELSE rec
          /\ cmd' = [cmd EXCEPT ![a].pc = "published"]
          /\ UNCHANGED gate
       \/ /\ "publish" \in Races \/ rec = "off"
          /\ cmd' = [cmd EXCEPT ![a].pc = "failed"]
          /\ gate' = FALSE
          /\ UNCHANGED <<track, rec>>
    /\ UNCHANGED <<session, mic, asked, failed, down, looks, share, pending, dirty, page, told, used>>

(* And then, under the lock and for the same call, the start and the       *)
(* session's copy.                                                         *)
StartsPublished(a) ==
    LET k == cmd[a].call IN
    /\ cmd[a].pc = "published"
    /\ cmd' = [cmd EXCEPT ![a].pc = "done"]
    /\ IF session # k
       THEN UNCHANGED <<mic, failed, rec, looks, dirty, used>>
       ELSE /\ IF cmd[a].on THEN Starts(k, gate) ELSE UNCHANGED <<rec, used>> /\ failed' = [failed EXCEPT ![k] = FALSE]
            /\ mic' = [mic EXCEPT ![k] = TRUE]
            /\ dirty' = [dirty EXCEPT ![k] = TRUE]
            /\ IF cmd[a].on /\ rec' = "init" THEN Recheck(k) ELSE UNCHANGED looks
    /\ UNCHANGED <<session, asked, gate, track, down, share, pending, page, told>>

-----------------------------------------------------------------------------
(* ensure_microphone_recording, and restart_open_microphone.               *)

Open == session # None /\ mic[session] /\ gate

Ensured(restart) ==
    IF Open /\ (rec = "off" \/ failed[session] \/ restart) THEN Starts(session, TRUE) ELSE UNCHANGED <<rec, failed, used>>

\* Mutant: initialised is taken for recording
LooksOnly ==
    /\ looks > 0 /\ (looks = 3 \/ share # "stopping")
    /\ looks' = looks - 1
    /\ Ensured(FALSE)
    /\ UNCHANGED <<session, mic, asked, gate, track, cmd, down, share, pending, dirty, page, told>>
(* A look of recheck_microphone.  The later ones restart recording where a *)
(* share's stop was still to come, and come after it (150 ms).             *)
Looks ==
    LET restart == looks < 3 /\ pending = session IN
    /\ looks > 0 /\ (looks = 3 \/ share # "stopping")
    /\ looks' = looks - 1
    /\ Ensured(restart)
    /\ pending' = IF restart THEN None ELSE pending
    /\ UNCHANGED <<session, mic, asked, gate, track, cmd, down, share, dirty, page, told>>

(* The sound of a share: published or unmuted, negotiated a little later,  *)
(* and muted, which stops the device of a negotiated one inside the mute   *)
(* and of a fresh one with its negotiation, initialised and not recording. *)
(* A first look follows what calls for it with no await between, and so    *)
(* comes before another share.                                             *)
ShareStarts ==
    /\ session # None /\ down[session] = "no" /\ share = "none" /\ used.shares < MaxShares
    /\ looks # 3
    /\ used' = [used EXCEPT !.shares = @ + 1]
    /\ share' = "fresh"
    /\ Recheck(session)
    /\ UNCHANGED <<session, mic, asked, failed, device, track, cmd, down, pending, dirty, page, told>>

Negotiated ==
    /\ share \in {"fresh", "stopping"}
    /\ share' = IF share = "fresh" THEN "on" ELSE "none"
    /\ rec' = IF share = "fresh" THEN RtcStart ELSE IF gate THEN "init" ELSE rec
    /\ UNCHANGED <<session, mic, asked, failed, gate, track, cmd, down, looks, pending, dirty, page, told, used>>

ShareStops ==
    /\ session # None /\ share \in {"fresh", "on"}
    /\ "share" \in Races \/ (~failed[session] /\ \A a \in Asks : cmd[a].pc \notin {"publishing", "published"})
    /\ share' = IF share = "fresh" THEN "stopping" ELSE "none"
    /\ rec' = IF share = "on" THEN Stopped ELSE rec
    /\ pending' = IF share = "fresh" /\ Open /\ rec # "off" /\ ~failed[session] THEN session ELSE pending
    /\ Recheck(session)
    /\ UNCHANGED <<session, mic, asked, failed, gate, track, cmd, down, dirty, page, told, used>>

-----------------------------------------------------------------------------
(* The SFU mutes the microphone (a moderator).                             *)
SfuMutes(k) ==
    /\ track[k] = "on" /\ down[k] = "no"
    /\ "sfu" \in Races \/ (Idle /\ ~Busy)
    /\ track' = [track EXCEPT ![k] = "muted"]
    /\ dirty' = [dirty EXCEPT ![k] = TRUE]
    /\ UNCHANGED <<session, mic, asked, failed, device, cmd, down, looks, share, pending, page, told, used>>

(* The event pump: a remote mute stops the device as a mute here does, and *)
(* the page is told how the microphone stands.                             *)
Pumps(k) ==
    LET remote == session = k /\ gate /\ track[k] = "muted" IN
    /\ dirty[k]
    /\ dirty' = [dirty EXCEPT ![k] = FALSE]
    /\ IF remote
       THEN gate' = FALSE /\ rec' = Stopped /\ failed' = [failed EXCEPT ![k] = FALSE]
       ELSE UNCHANGED <<device, failed>>
    /\ page' = IF session = k THEN LocalChanged(track[k] = "on" /\ gate) ELSE page
    /\ UNCHANGED <<session, mic, asked, track, cmd, down, looks, share, pending, told, used>>

-----------------------------------------------------------------------------
(* voice_disconnect: the session is taken at once; video, the publication, *)
(* the device and the room follow.                                         *)
Takes ==
    /\ session # None
    /\ session' = None
    /\ down' = [down EXCEPT ![session] = "taken"]
    /\ share' = "none" /\ looks' = 0
    /\ page' = NoPage
    /\ cmd' = [a \in Asks |-> [cmd[a] EXCEPT !.ours = FALSE]]
    /\ UNCHANGED <<mic, asked, failed, device, track, pending, dirty, told, used>>

Stops(k) ==
    /\ down[k] = "taken"
    /\ "hangup" \in Races \/ \A a \in Asks : cmd[a].call = k => cmd[a].pc \notin {"locking", "publish"}
    /\ down' = [down EXCEPT ![k] = "over"]
    /\ track' = [track EXCEPT ![k] = "none"]
    /\ rec' = Stopped /\ gate' = FALSE
    /\ UNCHANGED <<session, mic, asked, failed, cmd, looks, share, pending, dirty, page, told, used>>

(* A reload: another page reads the call, and has voice_forget_page forget *)
(* the numbers of the one before; its commands have all begun.             *)
TakenOver(k) ==
    /\ session = k /\ down[k] = "no" /\ used.loads < MaxLoads
    /\ "reload" \in Races \/ Idle
    /\ used' = [used EXCEPT !.loads = @ + 1]
    /\ asked' = [asked EXCEPT ![k] = 0]
    /\ cmd' = [a \in Asks |-> [cmd[a] EXCEPT !.ours = FALSE]]
    /\ LET open == mic[k] /\ gate IN
       page' = [muted |-> ~open, wanted |-> ~open, ticket |-> None, starting |-> FALSE, seq |-> 0]
    /\ UNCHANGED <<session, mic, failed, device, track, down, looks, share, pending, dirty, told>>

-----------------------------------------------------------------------------
Next ==
    \/ Press \/ Looks \/ ShareStarts \/ Negotiated \/ ShareStops \/ Takes
    \/ \E a \in Asks : \/ JoinAnswered(a) \/ Answered(a)
                       \/ Begins(a) \/ Unmutes(a) \/ Mutes(a) \/ Publishes(a) \/ Published(a) \/ StartsPublished(a)
    \/ \E k \in Calls : \/ \E muted \in BOOLEAN : Store(k, muted)
                        \/ SfuMutes(k) \/ Pumps(k) \/ Stops(k) \/ TakenOver(k)

Spec == Init /\ [][Next]_vars

-----------------------------------------------------------------------------
TypeOK ==
    /\ session \in Calls \cup {None}
    /\ mic \in [Calls -> BOOLEAN] /\ failed \in [Calls -> BOOLEAN] /\ dirty \in [Calls -> BOOLEAN]
    /\ asked \in [Calls -> 0..Cardinality(Asks)]
    /\ gate \in BOOLEAN /\ rec \in {"off", "init", "on"}
    /\ track \in [Calls -> {"none", "muted", "on"}]
    /\ cmd \in [Asks -> [pc : {"unused", "sent", "locking", "publish", "publishing", "published", "done", "failed"},
                         call : Calls \cup {None}, on : BOOLEAN, seq : 0..Cardinality(Asks), first : BOOLEAN, ours : BOOLEAN]]
    /\ down \in [Calls -> {"unborn", "no", "taken", "over"}]
    /\ looks \in 0..3
    /\ share \in {"none", "fresh", "on", "stopping"}
    /\ pending \in Calls \cup {None}
    /\ page \in [muted : BOOLEAN, wanted : BOOLEAN, ticket : Asks \cup {None}, starting : BOOLEAN, seq : 0..Cardinality(Asks)]
    /\ told \subseteq Asks

Quiet == /\ Idle
         /\ \A k \in Calls : ~dirty[k] /\ down[k] # "taken"

(* The device records only for a call whose microphone is published and    *)
(* unmuted: the privacy indicator tells the truth, in a call and after it. *)
DarkWhenClosed == Quiet /\ rec # "off" => session # None /\ mic[session] /\ gate /\ track[session] = "on"

(* With nothing in flight, the button says how the microphone stands.      *)
ButtonIsTrue ==
    Quiet /\ ~Busy /\ session # None /\ ~page.starting =>
        /\ page.muted = ~(mic[session] /\ gate /\ track[session] = "on")
        /\ page.wanted = page.muted

(* An open microphone records, once the looks are over, unless the device  *)
(* refused its last start.                                                 *)
OpenIsHeard ==
    Quiet /\ Open /\ share # "stopping" /\ looks = 0 => rec = "on" \/ failed[session]

=============================================================================
