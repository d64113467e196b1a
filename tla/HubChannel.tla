----------------------------- MODULE HubChannel -----------------------------
(***************************************************************************)
(* A readable hub channel (client/src/sync/engine.ts).  It has no          *)
(* envelopes: its messages are read from the server by a cursor            *)
(* (#publicChannelSync), and what a moderator removes goes by a frame of   *)
(* the socket or by the hub's events, read by a cursor of their own        *)
(* (#refreshHubs, #syncHubEvents), which no pass waits for.  A person may  *)
(* also jump to a message found by a search (ui/Chat.tsx, jumpToArchived)  *)
(* and sign out (App.tsx).                                                 *)
(*                                                                         *)
(* Messages are numbered in the server's order, and a cursor is a number;  *)
(* so are the hub's events.  One channel of one hub, one account at a      *)
(* time.  Mentions, notifications and the hub's other data are left out.   *)
(***************************************************************************)
EXTENDS Integers, Sequences, FiniteSets

CONSTANTS
    Loop,         \* sync loops: of tabs, or of one tab before and after a steal
    Sweep,        \* runs of #refreshHubs under way
    FirstPage,    \* PUBLIC_FIRST_PAGE
    ArchivePage,  \* ARCHIVE_PAGE
    EventsPage,   \* the server's page of hub events
    ContextPage,  \* messages read on either side of a jump
    Races,        \* what may come at a bad moment, see RacesAssumption
    MaxPosts, MaxLog,
    MaxTurns      \* tabs closed, moves, jumps and sign-outs, in all

(* What else is assumed not to happen:                                     *)
(*   page     a page answered before a removal is stored after the events  *)
(*            that name it were acted on                                   *)
(*   first    a removal of a held message precedes the first read of events*)
(*   burst    more events come than one page holds between two reads       *)
(*   empty    more messages come than the first page holds, in a channel   *)
(*            that was empty or whose first page is not yet recorded       *)
(*   found    a message is removed between a search and the jump to it     *)
(*   signout  a sweep is under way when the account signs out              *)
RacesAssumption == Races \subseteq {"page", "first", "burst", "empty", "found", "signout"}

PagesAssumption == {FirstPage, ArchivePage, EventsPage, ContextPage} \subseteq Nat \ {0}

ASSUME HubAssumptions == RacesAssumption /\ PagesAssumption

VARIABLES
    posts,      \* the server's messages are 1 .. posts
    removed,    \* those a moderator removed
    log,        \* the hub's events: the message removed, or 0
    member,     \* is the account in the hub?
    stored,     \* the device's messages
    latest,     \* META_PUBLIC_CHANNELS: Absent, 0 for null, or a message
    mark,       \* META_HUB_EVENTS: likewise, of the events
    listed,     \* per loop: #listedConversations has the channel
    loop,       \* per loop: its #publicChannelSync
    sweep,      \* per run of #refreshHubs: its #syncHubEvents
    jump,       \* a jump under way
    turns,      \* how many of MaxTurns there were
    since       \* ghost: the messages there were at the first contact

server == <<posts, removed, log, member>>
device == <<stored, latest, mark>>
vars == <<server, device, listed, loop, sweep, jump, turns, since>>

Absent == -1
Idle == [pc |-> "idle", latest |-> Absent, page |-> {}, at |-> 0, aborted |-> FALSE]
NoSweep == [pc |-> "idle", mark |-> Absent, seen |-> 0]
NoJump == [pc |-> "idle", to |-> 0, page |-> {}]

Init ==
    /\ posts = 0 /\ removed = {} /\ log = <<>> /\ member = TRUE
    /\ stored = {} /\ latest = Absent /\ mark = Absent /\ since = Absent
    /\ listed = [l \in Loop |-> "null"]
    /\ loop = [l \in Loop |-> Idle] /\ sweep = [e \in Sweep |-> NoSweep]
    /\ jump = NoJump
    /\ turns = 0

-----------------------------------------------------------------------------
(* The server and its other users. *)

Rows == IF member THEN (1 .. posts) \ removed ELSE {}
Newest(S, k) == {m \in S : Cardinality({n \in S : n > m}) < k}
Oldest(S, k) == {m \in S : Cardinality({n \in S : n < m}) < k}

Turn == turns < MaxTurns /\ turns' = turns + 1

\* Messages a page in hand will store.
InHand == jump.page \cup UNION {loop[l].page : l \in Loop}

FirstContact(l) == loop[l].pc # "idle" /\ loop[l].latest <= 0
Unseen(n) == "burst" \in Races \/ mark = Absent \/ n - mark <= EventsPage

Post ==
    /\ posts < MaxPosts /\ posts' = posts + 1
    /\ \/ "empty" \in Races
       \/ /\ latest = 0 \/ (since # Absent /\ \E l \in Loop : FirstContact(l)) => posts' - since <= FirstPage
          /\ \A l \in Loop : FirstContact(l) /\ loop[l].pc # "asking" => posts' - loop[l].at <= FirstPage
    /\ UNCHANGED <<removed, log, member, device, listed, loop, sweep, jump, turns, since>>

Remove(m) ==
    /\ m \in (1 .. posts) \ removed /\ Len(log) < MaxLog
    /\ Unseen(Len(log) + 1)
    /\ \/ "first" \in Races \/ m \notin stored \cup InHand
       \/ mark # Absent /\ \A e \in Sweep : sweep[e].pc # "idle" => sweep[e].mark # Absent
    /\ removed' = removed \cup {m} /\ log' = Append(log, m)
    /\ UNCHANGED <<posts, member, device, listed, loop, sweep, jump, turns, since>>

OtherEvent ==
    /\ Len(log) < MaxLog /\ Unseen(Len(log) + 1)
    /\ log' = Append(log, 0)
    /\ UNCHANGED <<posts, removed, member, device, listed, loop, sweep, jump, turns, since>>

(* The account leaves the hub, or joins it again.                          *)
Move ==
    /\ Turn
    /\ member' = ~member
    /\ UNCHANGED <<posts, removed, log, device, listed, loop, sweep, jump, since>>

-----------------------------------------------------------------------------
(* #publicChannelSync *)

\* #refreshConversations, as far as this channel goes
Lists(l) ==
    /\ listed' = [listed EXCEPT ![l] = IF member THEN "yes" ELSE "no"]
    /\ UNCHANGED <<server, device, loop, sweep, jump, turns, since>>

(* The watermarks are read once a sweep.                                   *)
Begin(l) ==
    /\ loop[l].pc = "idle" /\ listed[l] # "no"
    /\ loop' = [loop EXCEPT ![l] = [Idle EXCEPT !.pc = "asking", !.latest = latest]]
    /\ UNCHANGED <<server, device, listed, sweep, jump, turns, since>>

(* The newest page on first contact, or the next one after the watermark.  *)
Answered(l) ==
    /\ loop[l].pc = "asking"
    /\ loop' = [loop EXCEPT ![l].pc = "page", ![l].at = posts,
                            ![l].page = IF loop[l].latest <= 0 THEN Newest(Rows, FirstPage)
                                        ELSE Oldest({m \in Rows : m > loop[l].latest}, ArchivePage)]
    /\ UNCHANGED <<server, device, listed, sweep, jump, turns, since>>

Fails(l) ==
    /\ loop[l].pc = "asking"
    /\ loop' = [loop EXCEPT ![l] = Idle]
    /\ UNCHANGED <<server, device, listed, sweep, jump, turns, since>>

(* An empty page ends a catch-up, and is stored on first contact.          *)
Puts(l) ==
    /\ loop[l].pc = "page"
    /\ IF loop[l].latest > 0 /\ loop[l].page = {}
       THEN loop' = [loop EXCEPT ![l] = Idle]
       ELSE loop' = [loop EXCEPT ![l].pc = "put"]
    /\ stored' = stored \cup loop[l].page
    /\ UNCHANGED <<server, latest, mark, listed, sweep, jump, turns, since>>

\* Mutant: the watermark is the channel's newest message
MarksNewest(l) ==
    /\ loop[l].pc = "put"
    /\ latest' = loop[l].at
    /\ since' = IF latest = Absent THEN loop[l].at ELSE since
    /\ loop' = [loop EXCEPT ![l] = IF loop[l].latest <= 0 \/ loop[l].aborted \/ Cardinality(loop[l].page) < ArchivePage
                                   THEN Idle ELSE [Idle EXCEPT !.pc = "asking", !.latest = latest']]
    /\ UNCHANGED <<server, stored, mark, listed, sweep, jump, turns>>
\* The last message of a page, or 0 for null.
Last(page, m) == m \in page \cup {0} /\ \A n \in page : n <= m

\* Mutant: a catch-up is over after a page
MarksOnePage(l) ==
    /\ loop[l].pc = "put"
    /\ \E last \in loop[l].page \cup {0} :
          Last(loop[l].page, last) /\ latest' = IF latest = Absent THEN last ELSE latest
    /\ since' = IF latest = Absent THEN loop[l].at ELSE since
    /\ loop' = [loop EXCEPT ![l] = Idle]
    /\ UNCHANGED <<server, stored, mark, listed, sweep, jump, turns>>
(* The watermark follows the page, and a full page another.                *)
Marks(l) ==
    /\ loop[l].pc = "put"
    /\ \E last \in loop[l].page \cup {0} : Last(loop[l].page, last) /\ latest' = last
    /\ since' = IF latest = Absent THEN loop[l].at ELSE since
    /\ loop' = [loop EXCEPT ![l] = IF loop[l].latest <= 0 \/ loop[l].aborted \/ Cardinality(loop[l].page) < ArchivePage
                                   THEN Idle ELSE [Idle EXCEPT !.pc = "asking", !.latest = latest']]
    /\ UNCHANGED <<server, stored, mark, listed, sweep, jump, turns>>

(* The tab closes, at any point.                                           *)
Stops(l) ==
    /\ Turn
    /\ loop' = [loop EXCEPT ![l] = Idle] /\ listed' = [listed EXCEPT ![l] = "null"]
    /\ UNCHANGED <<server, device, sweep, jump, since>>

-----------------------------------------------------------------------------
(* Removals: the frame, and #syncHubEvents. *)

(* A frame comes late, or is lost with its socket.                         *)
HearsRemoval(m) ==
    /\ m \in removed \cap stored /\ member
    /\ stored' = stored \ {m}
    /\ UNCHANGED <<server, latest, mark, listed, loop, sweep, jump, turns, since>>

(* #refreshHubs lists the hub, and the watermark is read.                  *)
Refreshes(e) ==
    /\ sweep[e].pc = "idle" /\ member
    /\ sweep' = [sweep EXCEPT ![e] = [NoSweep EXCEPT !.pc = "asking", !.mark = mark]]
    /\ UNCHANGED <<server, device, listed, loop, jump, turns, since>>

EventsAnswered(e) ==
    /\ sweep[e].pc = "asking" /\ member
    /\ sweep' = [sweep EXCEPT ![e].pc = "page", ![e].seen = Len(log)]
    /\ UNCHANGED <<server, device, listed, loop, jump, turns, since>>

EventsFail(e) ==
    /\ sweep[e].pc = "asking"
    /\ sweep' = [sweep EXCEPT ![e] = NoSweep]
    /\ UNCHANGED <<server, device, listed, loop, jump, turns, since>>

\* What a page of events says was removed: none on first contact.
Fresh(s) ==
    {log[i] : i \in {j \in 1 .. s.seen : s.mark # Absent /\ j > s.mark /\ j > s.seen - EventsPage}} \ {0}

Acts(e) ==
    /\ sweep[e].pc = "page"
    /\ "page" \in Races \/ Fresh(sweep[e]) \cap InHand = {}
    /\ stored' = stored \ Fresh(sweep[e])
    /\ sweep' = [sweep EXCEPT ![e].pc = "acted"]
    /\ UNCHANGED <<server, latest, mark, listed, loop, jump, turns, since>>

\* Mutant: the watermark takes in what came since
MarksAll(e) ==
    /\ sweep[e].pc = "acted"
    /\ mark' = Len(log)
    /\ sweep' = [sweep EXCEPT ![e] = NoSweep]
    /\ UNCHANGED <<server, stored, latest, listed, loop, jump, turns, since>>
MarksEvents(e) ==
    /\ sweep[e].pc = "acted"
    /\ mark' = IF sweep[e].seen # sweep[e].mark THEN sweep[e].seen ELSE mark
    /\ sweep' = [sweep EXCEPT ![e] = NoSweep]
    /\ UNCHANGED <<server, stored, latest, listed, loop, jump, turns, since>>

-----------------------------------------------------------------------------
(* jumpToArchived, and signing out. *)

Finds(m) ==
    /\ jump.pc = "idle" /\ Turn /\ m \in Rows
    /\ jump' = [NoJump EXCEPT !.pc = "found", !.to = m]
    /\ UNCHANGED <<server, device, listed, loop, sweep, since>>

(* What was found is stored as it was found.                               *)
Jumps ==
    /\ jump.pc = "found"
    /\ IF "found" \in Races \/ jump.to \notin removed
       THEN jump' = [jump EXCEPT !.pc = "asking"] /\ stored' = stored \cup {jump.to}
       ELSE jump' = NoJump /\ UNCHANGED stored
    /\ UNCHANGED <<server, latest, mark, listed, loop, sweep, turns, since>>

ContextAnswered ==
    /\ jump.pc = "asking"
    /\ \/ jump' = [jump EXCEPT !.pc = "page",
                               !.page = Newest({m \in Rows : m < jump.to}, ContextPage)
                                   \cup Oldest({m \in Rows : m > jump.to}, ContextPage)]
       \/ jump' = NoJump
    /\ UNCHANGED <<server, device, listed, loop, sweep, turns, since>>

ContextPuts ==
    /\ jump.pc = "page" /\ jump' = NoJump
    /\ stored' = stored \cup jump.page
    /\ UNCHANGED <<server, latest, mark, listed, loop, sweep, turns, since>>

(* stop aborts what waits for an answer of #publicChannelSync, and nothing *)
(* else; then the store is cleared, and the account may sign in again.     *)
SignOut ==
    /\ Turn
    /\ "signout" \in Races \/ ((\A l \in Loop : loop[l].pc \in {"idle", "asking"})
                                /\ (\A e \in Sweep : sweep[e].pc = "idle") /\ jump.pc \in {"idle", "found"})
    /\ stored' = {} /\ latest' = Absent /\ mark' = Absent /\ since' = Absent
    /\ listed' = [l \in Loop |-> "null"]
    /\ loop' = [l \in Loop |-> IF loop[l].pc \in {"idle", "asking"} THEN Idle ELSE [loop[l] EXCEPT !.aborted = TRUE]]
    /\ jump' = IF jump.pc = "found" THEN NoJump ELSE jump
    /\ UNCHANGED <<server, sweep>>

-----------------------------------------------------------------------------
Next ==
    \/ Post \/ OtherEvent \/ Move \/ \E m \in 1 .. posts : Remove(m) \/ Finds(m)
    \/ \E l \in Loop : Lists(l) \/ Begin(l) \/ Answered(l) \/ Fails(l) \/ Puts(l) \/ Marks(l) \/ Stops(l)
    \/ \E m \in removed : HearsRemoval(m)
    \/ \E e \in Sweep : Refreshes(e) \/ EventsAnswered(e) \/ EventsFail(e) \/ Acts(e) \/ MarksEvents(e)
    \/ Jumps \/ ContextAnswered \/ ContextPuts \/ SignOut

Spec == Init /\ [][Next]_vars

(* A loop goes on and sweeps again, a refresh comes every thirty seconds,  *)
(* and a server asked again and again answers in the end.                  *)
Fairness ==
    /\ \A l \in Loop :
        /\ WF_vars(Lists(l)) /\ WF_vars(Begin(l) \/ Puts(l) \/ Marks(l)) /\ SF_vars(Answered(l))
    /\ \A e \in Sweep :
        /\ SF_vars(Refreshes(e) \/ Acts(e) \/ MarksEvents(e)) /\ SF_vars(EventsAnswered(e))
    /\ WF_vars(ContextPuts)

LiveSpec == Spec /\ Fairness

-----------------------------------------------------------------------------
TypeOK ==
    /\ posts \in 0 .. MaxPosts /\ removed \subseteq 1 .. posts /\ member \in BOOLEAN
    /\ log \in Seq(0 .. posts) /\ Len(log) <= MaxLog
    /\ stored \subseteq 1 .. posts
    /\ {latest, since} \subseteq -1 .. posts /\ mark \in -1 .. Len(log)
    /\ listed \in [Loop -> {"null", "yes", "no"}]
    /\ loop \in [Loop -> [pc : {"idle", "asking", "page", "put"}, latest : -1 .. posts,
                          page : SUBSET (1 .. posts), at : 0 .. posts, aborted : BOOLEAN]]
    /\ sweep \in [Sweep -> [pc : {"idle", "asking", "page", "acted"}, mark : -1 .. Len(log), seen : 0 .. Len(log)]]
    /\ jump \in [pc : {"idle", "found", "asking", "page"}, to : 0 .. posts, page : SUBSET (1 .. posts)]
    /\ turns \in 0 .. MaxTurns

(* The watermark passes nothing: a message of the channel that came after  *)
(* the first contact and up to the watermark is on the device, or removed. *)
NothingIsPassedOver ==
    since # Absent => \A m \in 1 .. posts : since < m /\ m <= latest => m \in stored \cup removed

(* A removal the device has read, or will not read again, is carried out.  *)
PassedIsRemoved ==
    \A i \in 1 .. Len(log) : i <= mark => log[i] \notin stored

(* What is posted arrives, as long as the account stays.                   *)
Arrives ==
    \A m \in 1 .. MaxPosts :
        (since # Absent /\ since < m /\ m <= posts) ~> (m \in stored \cup removed \/ ~member \/ since = Absent)

(* What is removed is gone from the device in the end.                     *)
RemovedGoes == <>[](member => stored \cap removed = {})

(* Both readers come to their end: the pages' and the events'.             *)
ReadToTheEnd == Arrives /\ RemovedGoes
=============================================================================
