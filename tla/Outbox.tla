------------------------------- MODULE Outbox -------------------------------
(***************************************************************************)
(* The outbox of the sync engine (src/sync/engine.ts: enqueue, retry,      *)
(* #flushOutbox; src/store/indexeddb.ts: the outbox operations;            *)
(* src/sync/mls.ts: #failPendingSends).                                    *)
(*                                                                         *)
(* One device, several tabs.  Any tab may enqueue; the tabs that flush are *)
(* normally one, but a stolen leader lock leaves two of them running for a *)
(* moment (see Leader.tla), so every tab here may flush.  A flush works on *)
(* a snapshot of the outbox and writes whole entries back from it, and     *)
(* anything may happen in between: that is what the properties are about.  *)
(*                                                                         *)
(* The group epoch and the history-key generation a payload is sealed      *)
(* under are one number, its key: both are refused as stale the same way.  *)
(* Key 0 is "no key on this device yet".  The server is not in the         *)
(* repository; it is modelled from how the client uses it.                 *)
(***************************************************************************)
EXTENDS Naturals, FiniteSets

CONSTANTS Message,       (* messages that may be composed                  *)
          Conversation,  (* conversations                                  *)
          ConvOf,        (* the conversation of each message               *)
          Readable,      (* server-readable hub channels: never sealed     *)
          Tab,           (* tabs of this browser                           *)
          NoTab,         (* the sender of a request whose tab has let go   *)
          MaxKey,        (* bound: key changes of a conversation           *)
          MaxLate,       (* bound: sends on the wire that nobody waits for  *)
          MaxRetries,    (* bound: uses of retry()                         *)
          MaxStops       (* bound: tab closures and leader hand-overs      *)

ASSUME OutboxAssumption ==
    /\ ConvOf \in [Message -> Conversation]
    /\ Readable \subseteq Conversation
    /\ NoTab \notin Tab
    /\ MaxKey \in Nat
    /\ MaxLate \in Nat
    /\ MaxRetries \in Nat
    /\ MaxStops \in Nat

VARIABLES
    clock,      (* composing order, the createdAt of the next message      *)
    createdAt,  (* createdAt of each message, 0 before it is composed      *)
    stage,      (* where enqueue() stands for each message                 *)
    outbox,     (* the OUTBOX object store                                 *)
    stored,     (* own messages in the MESSAGES store                      *)
    retrying,   (* the entry retry() has read and not yet put back         *)
    pc,         (* where each tab's flush stands                           *)
    snap,       (* what is left of the snapshot a flush works through      *)
    localKey,   (* the key this device holds for each conversation         *)
    knownGone,  (* conversations a tab has had a 404 for, until reloaded   *)
    retries,    (* uses of retry() so far                                  *)
    stops,      (* tab closures and leader hand-overs so far               *)
    serverKey,  (* the server's key of each conversation                   *)
    gone,       (* conversations the server no longer serves to us         *)
    seen,       (* clientMessageIds the server has made a row for          *)
    requests,   (* sends on the wire                                       *)
    reply,      (* the server's answer on its way to each tab              *)
    \* history, read by properties and by the refinement only
    before,     (* <<n, m>>: n was typed, and queued, before m           *)
    givenUp,    (* messages that were ever marked failedPermanently        *)
    copies      (* server rows made for each message                       *)

device  == <<clock, createdAt, stage, outbox, stored, retrying, localKey>>
flusher == <<pc, snap>>
tabs    == <<knownGone, retries, stops>>
server  == <<serverKey, gone, seen, copies>>
network == <<requests, reply>>
history == <<before, givenUp>>
vars == <<device, flusher, server, network, history, tabs>>

Form   == {"parked", "sealed", "clear"}
Answer == {"none", "accepted", "stale", "slowmode", "permanent", "transient"}

NoEntry == [form |-> "none", key |-> 0, failed |-> FALSE]
Entry   == [form : Form, key : 0..MaxKey, failed : BOOLEAN] \cup {NoEntry}
Request == [tab : Tab \cup {NoTab}, msg : Message, form : Form, key : 0..MaxKey]

Put(m, e)  == outbox' = [outbox EXCEPT ![m] = e]
Present(m) == outbox[m] # NoEntry

Init ==
    /\ clock = 0
    /\ createdAt = [m \in Message |-> 0]
    /\ stage = [m \in Message |-> "none"]
    /\ outbox = [m \in Message |-> NoEntry]
    /\ stored = {}
    /\ retrying = [m \in Message |-> NoEntry]
    /\ pc = [t \in Tab |-> "idle"]
    /\ snap = [t \in Tab |-> [m \in Message |-> NoEntry]]
    /\ localKey = [c \in Conversation |-> 0]
    /\ knownGone = [t \in Tab |-> {}]
    /\ retries = 0
    /\ stops = 0
    /\ serverKey = [c \in Conversation |-> 0]
    /\ gone = {}
    /\ seen = {}
    /\ requests = {}
    /\ reply = [t \in Tab |-> "none"]
    /\ before = {}
    /\ givenUp = {}
    /\ copies = [m \in Message |-> 0]

-----------------------------------------------------------------------------
(* Sealing (sealForOutbox): null when the device has no key yet.           *)

CanSeal(m)   == localKey[ConvOf[m]] > 0
Sealed(m, e) == [e EXCEPT !.form = "sealed", !.key = localKey[ConvOf[m]]]

(* The id a send is deduplicated by: minted at compose time, never again.  *)
FreshIdPerSeal(m, key)  == <<m, key>>   \* mutant: an id minted with each seal
ClientMessageId(m, key) == m

-----------------------------------------------------------------------------
(* enqueue(): createdAt is taken first, the entry is put after two awaits. *)

EnqueueBegin(m) ==
    /\ stage[m] = "none"
    /\ stage' = [stage EXCEPT ![m] = "sealing"]
    /\ clock' = clock + 1
    /\ createdAt' = [createdAt EXCEPT ![m] = clock + 1]
    /\ UNCHANGED <<outbox, stored, retrying, localKey,
                   flusher, server, network, history, tabs>>

\* readable hub channel: as is; otherwise sealed, or parked with its plaintext
NewEntry(m) ==
    IF ConvOf[m] \in Readable
    THEN [form |-> "clear", key |-> 0, failed |-> FALSE]
    ELSE IF CanSeal(m) THEN [form |-> "sealed", key |-> localKey[ConvOf[m]], failed |-> FALSE]
                       ELSE [form |-> "parked", key |-> 0, failed |-> FALSE]

TypedBefore(m) ==
    {n \in Message : /\ stage[n] = "queued"
                     /\ ConvOf[n] = ConvOf[m]
                     /\ createdAt[n] < createdAt[m]}

EnqueuePut(m) ==
    /\ stage[m] = "sealing"
    /\ stage' = [stage EXCEPT ![m] = "queued"]
    /\ Put(m, NewEntry(m))
    /\ before' = before \cup (TypedBefore(m) \X {m})
    /\ UNCHANGED <<clock, createdAt, stored, retrying, localKey, givenUp,
                   flusher, server, network, tabs>>

(* retry(): reads the outbox, then puts the entry back with the flag off.  *)
RetryRead(m) ==
    /\ outbox[m].failed
    /\ retrying[m] = NoEntry
    /\ retries < MaxRetries
    /\ retries' = retries + 1
    /\ retrying' = [retrying EXCEPT ![m] = outbox[m]]
    /\ UNCHANGED <<clock, createdAt, stage, outbox, stored, localKey,
                   flusher, server, network, history, knownGone, stops>>

RetryPut(m) ==
    /\ retrying[m] # NoEntry
    /\ Put(m, [retrying[m] EXCEPT !.failed = FALSE])
    /\ retrying' = [retrying EXCEPT ![m] = NoEntry]
    /\ UNCHANGED <<clock, createdAt, stage, stored, localKey,
                   flusher, server, network, history, tabs>>

-----------------------------------------------------------------------------
(* #flushOutbox                                                            *)

Left(t)      == {m \in Message : snap[t][m] # NoEntry}
IsHead(t, m) == m \in Left(t) /\ \A n \in Left(t) : createdAt[m] <= createdAt[n]

Drop(t, S) == snap' = [snap EXCEPT ![t] = [n \in Message |-> IF n \in S THEN NoEntry ELSE @[n]]]

\* The head is dealt with: the loop goes on to the next entry ...
MoveOn(t, m) == Drop(t, {m})
\* ... or its conversation is blocked, and so passed over for the rest of this flush.
Block(t, m)  == Drop(t, {n \in Message : ConvOf[n] = ConvOf[m]})

EndPass(t) == /\ pc' = [pc EXCEPT ![t] = "idle"]
              /\ Drop(t, Message)

\* listOutbox, of which an entry that failed permanently is passed over.
Pending == [m \in Message |-> IF outbox[m].failed THEN NoEntry ELSE outbox[m]]

FlushStart(t) ==
    /\ pc[t] = "idle"
    /\ pc' = [pc EXCEPT ![t] = "next"]
    /\ snap' = [snap EXCEPT ![t] = Pending]
    /\ UNCHANGED <<device, server, network, history, tabs>>

FlushDone(t) ==
    /\ pc[t] = "next"
    /\ Left(t) = {}
    /\ EndPass(t)
    /\ UNCHANGED <<device, server, network, history, tabs>>

\* The leader signal was aborted (or sealing threw): the rest waits for another pass.
FlushAborted(t) ==
    /\ pc[t] = "next"
    /\ Left(t) # {}
    /\ stops < MaxStops
    /\ stops' = stops + 1
    /\ EndPass(t)
    /\ UNCHANGED <<device, server, network, history, knownGone, retries>>

\* Still nothing to seal with: what is behind it in the conversation waits too.
FlushParkEndsPass(t, m) ==       \* mutant: return where the code has continue
    /\ pc[t] = "next"
    /\ IsHead(t, m)
    /\ snap[t][m].form = "parked"
    /\ ~CanSeal(m)
    /\ EndPass(t)
    /\ UNCHANGED <<device, server, network, history, tabs>>
FlushPark(t, m) ==
    /\ pc[t] = "next"
    /\ IsHead(t, m)
    /\ snap[t][m].form = "parked"
    /\ ~CanSeal(m)
    /\ Block(t, m)
    /\ UNCHANGED <<device, pc, server, network, history, tabs>>

\* A parked entry is sealed and written back first; then the request goes out.
FlushSend(t, m) ==
    /\ pc[t] = "next"
    /\ IsHead(t, m)
    /\ snap[t][m].form = "parked" => CanSeal(m)
    /\ LET e == IF snap[t][m].form = "parked" THEN Sealed(m, snap[t][m]) ELSE snap[t][m]
       IN  /\ snap' = [snap EXCEPT ![t][m] = e]
           /\ IF snap[t][m].form = "parked" THEN Put(m, e) ELSE UNCHANGED outbox
           /\ requests' = requests \cup
                 {[tab |-> t, msg |-> m, form |-> e.form, key |-> e.key]}
    /\ pc' = [pc EXCEPT ![t] = "waiting"]
    /\ UNCHANGED <<clock, createdAt, stage, stored, retrying, localKey,
                   server, reply, history, tabs>>

Answered(t, m, a) ==
    /\ pc[t] = "waiting"
    /\ IsHead(t, m)
    /\ reply[t] = a
    /\ reply' = [reply EXCEPT ![t] = "none"]
    /\ UNCHANGED requests

Resume(t) == pc' = [pc EXCEPT ![t] = "next"]

\* resolveOutbox: the message appears and the entry goes in one transaction.
ResolveDeletesFirst(m) ==        \* mutant: two steps, and the tab closes between them
    /\ Put(m, NoEntry)
    /\ stored' \in {stored, stored \cup {m}}
ResolveOutbox(m) ==
    /\ Put(m, NoEntry)
    /\ stored' = stored \cup {m}

OnAccepted(t, m) ==
    /\ Answered(t, m, "accepted")
    /\ ResolveOutbox(m)
    /\ Resume(t)
    /\ MoveOn(t, m)
    /\ UNCHANGED <<clock, createdAt, stage, retrying, localKey,
                   server, history, tabs>>

\* EPOCH_STALE and HISTORY_KEY_STALE: catch up, re-seal from the plaintext, write the
\* whole entry back, and retry next tick ...
OnStaleNotSaved(t, m) ==         \* mutant: the re-sealed entry is not written back
    /\ Answered(t, m, "stale")
    /\ localKey' = [localKey EXCEPT ![ConvOf[m]] = serverKey[ConvOf[m]]]
    /\ Resume(t)
    /\ Block(t, m)
    /\ UNCHANGED <<clock, createdAt, stage, outbox, stored, retrying, server, history, tabs>>
OnStaleRepaired(t, m) ==
    /\ Answered(t, m, "stale")
    /\ localKey' = [localKey EXCEPT ![ConvOf[m]] = serverKey[ConvOf[m]]]
    /\ Put(m, [snap[t][m] EXCEPT !.form = "sealed", !.key = serverKey[ConvOf[m]]])
    /\ Resume(t)
    /\ Block(t, m)
    /\ UNCHANGED <<clock, createdAt, stage, stored, retrying, server, history, tabs>>

\* ... or some step of that fails, and next tick tries the same bytes again.
OnStaleUnrepaired(t, m) ==
    /\ Answered(t, m, "stale")
    /\ localKey' \in {localKey, [localKey EXCEPT ![ConvOf[m]] = serverKey[ConvOf[m]]]}
    /\ Resume(t)
    /\ Block(t, m)
    /\ UNCHANGED <<clock, createdAt, stage, outbox, stored, retrying,
                   server, history, tabs>>

OnSlowmodeFlowsOn(t, m) ==       \* mutant: what is behind it is sent anyway
    /\ Answered(t, m, "slowmode")
    /\ Resume(t)
    /\ MoveOn(t, m)
    /\ UNCHANGED <<device, server, history, tabs>>
OnSlowmode(t, m) ==
    /\ Answered(t, m, "slowmode")
    /\ Resume(t)
    /\ Block(t, m)
    /\ UNCHANGED <<device, server, history, tabs>>

\* recordOutboxFailure(permanent): re-reads the entry, and is a no-op when it is gone.
Fail(lost) ==
    /\ outbox' = [m \in Message |->
                    IF m \in lost /\ Present(m) THEN [outbox[m] EXCEPT !.failed = TRUE]
                                                ELSE outbox[m]]
    /\ givenUp' = givenUp \cup {m \in lost : Present(m)}

OnPermanent(t, m) ==
    /\ Answered(t, m, "permanent")
    /\ Fail({m})
    /\ Resume(t)
    /\ MoveOn(t, m)
    /\ UNCHANGED <<clock, createdAt, stage, stored, retrying, localKey,
                   server, before, tabs>>

\* A 5xx, a 429 or a 401: thrown, which ends the pass.
OnTransient(t, m) ==
    /\ Answered(t, m, "transient")
    /\ EndPass(t)
    /\ UNCHANGED <<device, server, history, tabs>>

-----------------------------------------------------------------------------
(* What a tab's pass does around the flush, and what happens to tabs.      *)

\* mlsSync.tick: creates the group if nobody has, or catches up with it.
MlsTick(t, c) ==
    /\ pc[t] = "idle"
    /\ c \notin gone \cup Readable
    /\ localKey[c] < serverKey[c] \/ (serverKey[c] = 0 /\ MaxKey > 0)
    /\ serverKey' = [serverKey EXCEPT ![c] = IF @ = 0 THEN 1 ELSE @]
    /\ localKey' = [localKey EXCEPT ![c] = serverKey'[c]]
    /\ UNCHANGED <<clock, createdAt, stage, outbox, stored, retrying,
                   flusher, gone, seen, copies, network, history, tabs>>

\* mlsSync.#reconcileOne on a 404, once per page: #failPendingSends.
FailPendingSends(t, c) ==
    /\ pc[t] = "idle"
    /\ c \in gone \ (Readable \cup knownGone[t])
    /\ knownGone' = [knownGone EXCEPT ![t] = @ \cup {c}]
    /\ Fail({m \in Message : ConvOf[m] = c /\ ~outbox[m].failed})
    /\ UNCHANGED <<clock, createdAt, stage, stored, retrying, localKey,
                   flusher, server, network, before, retries, stops>>

Tick(t, c) == MlsTick(t, c) \/ FailPendingSends(t, c)

Asked(t) == {r \in requests : r.tab = t}

\* A send whose tab no longer listens: it may still arrive.
Late == {r \in requests : r.tab = NoTab}
Orphaned(t) == (requests \ Asked(t))
                  \cup IF Cardinality(Late) < MaxLate
                       THEN {[r EXCEPT !.tab = NoTab] : r \in Asked(t)} ELSE {}

\* The connection fails under a send: the request may still arrive, the answer will not.
LoseConnection(t) ==
    /\ pc[t] = "waiting"
    /\ requests' = Orphaned(t)
    /\ reply' = [reply EXCEPT ![t] = "none"]
    /\ EndPass(t)
    /\ UNCHANGED <<device, server, history, tabs>>

\* The tab is closed, or killed, in the middle of a flush.
Crash(t) ==
    /\ pc[t] # "idle"
    /\ stops < MaxStops
    /\ stops' = stops + 1
    /\ knownGone' = [knownGone EXCEPT ![t] = {}]
    /\ requests' = Orphaned(t)
    /\ reply' = [reply EXCEPT ![t] = "none"]
    /\ EndPass(t)
    /\ UNCHANGED <<device, server, history, retries>>

-----------------------------------------------------------------------------
(* The server, and the other members of the conversations.                 *)

Respond(r, a) ==
    /\ requests' = requests \ {r}
    /\ reply' = IF r.tab = NoTab THEN reply ELSE [reply EXCEPT ![r.tab] = a]

Current(r) == r.form = "clear" \/ r.key = serverKey[ConvOf[r.msg]]
Known(r)   == ClientMessageId(r.msg, r.key) \in seen

ServerAccepts(r) ==
    /\ r \in requests
    /\ Known(r) \/ (Current(r) /\ ConvOf[r.msg] \notin gone)
    /\ Respond(r, "accepted")
    /\ seen' = seen \cup {ClientMessageId(r.msg, r.key)}
    /\ copies' = IF Known(r) THEN copies ELSE [copies EXCEPT ![r.msg] = @ + 1]
    /\ UNCHANGED <<device, flusher, serverKey, gone, history, tabs>>

\* Which check the server makes first is not visible from the client.
ServerRefuses(r, a) ==
    /\ r \in requests
    /\ \/ a = "stale" /\ ~Current(r)
       \/ a = "slowmode" /\ ~Known(r)
       \/ a \in {"permanent", "transient"}
    /\ Respond(r, a)
    /\ UNCHANGED <<device, flusher, server, history, tabs>>

\* Another device creates the group, commits, or rotates the history key.
KeyAdvance(c) ==
    /\ c \notin Readable
    /\ serverKey[c] < MaxKey
    /\ serverKey' = [serverKey EXCEPT ![c] = @ + 1]
    /\ UNCHANGED <<device, flusher, gone, seen, copies, network, history, tabs>>

Removed(c) ==
    /\ c \notin gone
    /\ gone' = gone \cup {c}
    /\ UNCHANGED <<device, flusher, serverKey, seen, copies, network, history, tabs>>

-----------------------------------------------------------------------------
Compose(m) == EnqueueBegin(m) \/ EnqueuePut(m)
                \/ RetryRead(m) \/ RetryPut(m)

Work(t) == \/ FlushStart(t) \/ FlushDone(t)
           \/ \E m \in Message : FlushPark(t, m) \/ FlushSend(t, m)

OnAnswer(t, m) ==
    \/ OnAccepted(t, m) \/ OnStaleRepaired(t, m) \/ OnStaleUnrepaired(t, m)
    \/ OnSlowmode(t, m) \/ OnPermanent(t, m) \/ OnTransient(t, m)

Around(t) == \/ FlushAborted(t) \/ LoseConnection(t) \/ Crash(t)
             \/ \E c \in Conversation : Tick(t, c)

Server == \/ \E r \in requests : ServerAccepts(r) \/ \E a \in Answer : ServerRefuses(r, a)
          \/ \E c \in Conversation : KeyAdvance(c) \/ Removed(c)

Next == \/ \E m \in Message : Compose(m)
        \/ \E t \in Tab : Work(t) \/ Around(t) \/ \E m \in Message : OnAnswer(t, m)
        \/ Server

Spec == Init /\ [][Next]_vars

(***************************************************************************)
(* Fairness.  The loop keeps running passes, a pass keeps working through  *)
(* its snapshot, an answer that arrived is handled, and the membership     *)
(* tick that precedes every flush runs.  Of the network and the server:    *)
(* what is sent over and over is answered on its merits sometimes, and     *)
(* such an answer sometimes arrives.  Nothing is asked of the user, nor of *)
(* other devices.                                                          *)
(***************************************************************************)
AnsweredOnMerits(t) ==
    \E r \in Asked(t) :
        \/ ServerAccepts(r) \/ ServerRefuses(r, "stale")
        \/ ConvOf[r.msg] \in gone /\ ServerRefuses(r, "permanent")

MeritsArrive(t) ==
    \E m \in Message :
        \/ OnAccepted(t, m) \/ OnStaleRepaired(t, m)
        \/ ConvOf[m] \in gone /\ OnPermanent(t, m)

Fairness ==
    \A t \in Tab :
        /\ WF_vars(Work(t))
        /\ WF_vars(\E m \in Message : OnAnswer(t, m))
        /\ \A c \in Conversation : SF_vars(Tick(t, c))
        /\ SF_vars(AnsweredOnMerits(t))
        /\ SF_vars(MeritsArrive(t))

LiveSpec == Spec /\ Fairness

\* The same without the membership tick: a conversation may stay without its key for ever.
KeylessSpec ==
    /\ Spec
    /\ \A t \in Tab :
          /\ WF_vars(Work(t))
          /\ WF_vars(\E m \in Message : OnAnswer(t, m))
          /\ SF_vars(AnsweredOnMerits(t))
          /\ SF_vars(MeritsArrive(t))

-----------------------------------------------------------------------------
TypeOK ==
    /\ clock \in Nat
    /\ createdAt \in [Message -> Nat]
    /\ stage \in [Message -> {"none", "sealing", "queued"}]
    /\ outbox \in [Message -> Entry]
    /\ stored \subseteq Message
    /\ retrying \in [Message -> Entry]
    /\ pc \in [Tab -> {"idle", "next", "waiting"}]
    /\ snap \in [Tab -> [Message -> Entry]]
    /\ localKey \in [Conversation -> 0..MaxKey]
    /\ knownGone \in [Tab -> SUBSET Conversation]
    /\ retries \in 0..MaxRetries
    /\ stops \in 0..MaxStops
    /\ serverKey \in [Conversation -> 0..MaxKey]
    /\ gone \subseteq Conversation
    /\ seen \subseteq Message
    /\ requests \subseteq Request
    /\ reply \in [Tab -> Answer]
    /\ before \subseteq Message \X Message
    /\ givenUp \subseteq Message
    /\ copies \in [Message -> Nat]

(***************************************************************************)
(* A message enqueue() has written stays on screen: it is in the outbox or *)
(* among the stored messages, whatever overlapping flushes, retries and    *)
(* closed tabs do ("what makes a send survive a closed tab or a dead       *)
(* connection", engine.ts enqueue).                                        *)
(***************************************************************************)
NeverLost == \A m \in Message : stage[m] = "queued" => Present(m) \/ m \in stored

(***************************************************************************)
(* What is shown as sent was accepted: a message moves to the stored ones  *)
(* only on a server row (#flushOutbox, resolveOutbox).                     *)
(***************************************************************************)
ShownSentIsSent == \A m \in stored : copies[m] = 1

(***************************************************************************)
(* The outbox implements the ordered, at-most-once queue of SendQueue: one *)
(* row per message under every retry, and no message of a conversation     *)
(* overtakes one typed before it unless that one was given up on.          *)
(***************************************************************************)
Queue == INSTANCE SendQueue
            WITH promised <- {m \in Message : stage[m] = "queued"}

OrderedOnce == Queue!Spec

(***************************************************************************)
(* No message of a conversation we are still in waits for ever: it is      *)
(* delivered and leaves the outbox, or is marked failed (#flushOutbox:     *)
(* parking, slowmode and re-sealing all end).                              *)
(***************************************************************************)
Waiting(m) == Present(m) /\ ~outbox[m].failed

Settles == \A m \in Message :
    Waiting(m) ~> (~Waiting(m) \/ ConvOf[m] \in gone)

(***************************************************************************)
(* A conversation that cannot seal holds up only itself: a hub channel's   *)
(* messages settle although those of the others are parked for ever        *)
(* (#flushOutbox: "while other conversations flow on").                    *)
(***************************************************************************)
ChannelsFlowOn == \A m \in Message : ConvOf[m] \in Readable =>
    (Waiting(m) ~> (~Waiting(m) \/ ConvOf[m] \in gone))

(***************************************************************************)
(* mls.ts:243 says of a conversation the server answers 404 for:           *)
(* "anything queued for it can never be sent, so say so rather than        *)
(* leaving it reading 'sending' forever".                                  *)
(***************************************************************************)
NeverSendingForever == \A m \in Message : Waiting(m) ~> ~Waiting(m)
=============================================================================
