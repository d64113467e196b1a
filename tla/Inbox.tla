------------------------------- MODULE Inbox -------------------------------
(***************************************************************************)
(* How a message reaches a device (src/sync/engine.ts: #refreshHistoryKeys,*)
(* #hydrate, #drainInbox, #forwardArchiveSync, #historyWalk;               *)
(* src/sync/pending-decrypt.ts; src/store/indexeddb.ts: putMessages;       *)
(* src/crypto: what decrypt and ingestWrappedKeys keep).                   *)
(*                                                                         *)
(* One conversation on one device.  A message can be opened from its       *)
(* envelope, once, if the device was in the group it was sealed to, or     *)
(* from its archive row, at any time, with the row's history key.  A       *)
(* message that does not open is stored all the same, marked failed, and   *)
(* the archive is read again for it later.                                 *)
(*                                                                         *)
(* Every step below ends where the code awaits, and every tab may run a    *)
(* pass, because a stolen leader lock leaves two of them running for a     *)
(* while.  Message ids are numbers: uuidv7 ids sort by time.               *)
(***************************************************************************)
EXTENDS Integers, FiniteSets

CONSTANTS Count,         (* messages 1..Count are sent                     *)
          Gen,           (* history-key generations                        *)
          GenOf,         (* the generation each archive row is sealed with *)
          Sealed,        (* messages whose envelope is sealed to us        *)
          Own,           (* messages this device sent itself               *)
          Tab,           (* tabs that may run a pass                       *)
          InboxPage,     (* INBOX_PAGE                                     *)
          ArchivePage,   (* ARCHIVE_PAGE                                   *)
          WalkPages,     (* pages read per pass by the two healing reads   *)
          Attempts,      (* FORWARD_SYNC_ATTEMPTS                          *)
          MaxCrashes,    (* bound: closed or killed tabs                   *)
          MaxFails       (* bound: passes ended by an error                *)

Message == 1..Count

ASSUME InboxAssumption ==
    /\ Count \in Nat
    /\ GenOf \in [Message -> Gen]
    /\ Sealed \subseteq Message
    /\ Own \subseteq Message
    /\ {InboxPage, ArchivePage, WalkPages, Attempts} \subseteq Nat \ {0}
    /\ {MaxCrashes, MaxFails} \subseteq Nat

VARIABLES
    \* the server
    sent,      (* messages 1..sent are in the archive                      *)
    member,    (* we are in the conversation, and this device is registered *)
    missed,    (* messages 1..missed were sent before that: no envelope    *)
    inbox,     (* envelopes for this device that it has not acked          *)
    wrapped,   (* generations somebody has wrapped for this user           *)
    \* the crypto database
    inGroup,   (* the device has joined the MLS group                      *)
    consumed,  (* messages whose ratchet key is spent                      *)
    keys,      (* history keys held                                        *)
    \* the message database
    rec,       (* how each message is stored                               *)
    pending,   (* META_PENDING_DECRYPT                                     *)
    walk,      (* META_HISTORY_WALK: rows below it are to be read, 0: done *)
    hydration, (* META_HYDRATION, likewise                                 *)
    \* the tabs
    job, step, (* where each tab's pass stands                             *)
    booted,    (* whether it has been through hydration                    *)
    local,     (* the local variables of the job, see Locals               *)
    tries,     (* #forwardSyncAttempts                                     *)
    crashes, fails,
    \* history, read by a property only
    forfeited  (* messages opened by a tab that did not live to store them *)

server == <<sent, member, missed, inbox, wrapped>>
crypto == <<inGroup, consumed, keys>>
store  == <<rec, pending, walk, hydration>>
where  == <<job, step, booted>>
work   == <<local, tries>>
bounds == <<crashes, fails, forfeited>>
vars   == <<server, crypto, store, where, work, bounds>>

Top == Count + 1          \* a walk that starts at the newest row

Least(S)    == CHOOSE m \in S : \A n \in S : m <= n
Greatest(S) == CHOOSE m \in S : \A n \in S : m >= n
Oldest(S, k) == {m \in S : Cardinality({n \in S : n <= m}) <= k}
Newest(S, k) == {m \in S : Cardinality({n \in S : n >= m}) <= k}

NoBatch == [m \in Message |-> "none"]

Stored == {"none", "failed", "read"}

Locals == [page   : SUBSET Message,         \* the page in hand
           batch  : [Message -> Stored],    \* what became of the messages in it
           cursor : 0..Count,               \* where the archive is read next
           left   : 0..WalkPages,           \* pages this read may still take
           pend   : SUBSET Message]         \* forward sync's copy of the pending record

NoLocals == [page |-> {}, batch |-> NoBatch, cursor |-> 0, left |-> 0, pend |-> {}]

Init ==
    /\ sent = 0
    /\ member = FALSE
    /\ missed = 0
    /\ inbox = {}
    /\ wrapped = {}
    /\ inGroup = FALSE
    /\ consumed = {}
    /\ keys = {}
    /\ rec = [m \in Message |-> "none"]
    /\ pending = {}
    /\ walk = 0
    /\ hydration = Top
    /\ job = [t \in Tab |-> "keys"]
    /\ step = [t \in Tab |-> "begin"]
    /\ booted = [t \in Tab |-> FALSE]
    /\ local = [t \in Tab |-> NoLocals]
    /\ tries = [t \in Tab |-> [m \in Message |-> 0]]
    /\ crashes = 0
    /\ fails = 0
    /\ forfeited = {}

At(t, j, s) == job[t] = j /\ step[t] = s

\* Within a job; and from one job to the next, where the locals go out of scope.
Step(t, s)  == step' = [step EXCEPT ![t] = s] /\ UNCHANGED <<job, booted>>
Again(t)    == Step(t, "begin")
Start(t, j) == /\ job' = [job EXCEPT ![t] = j]
               /\ step' = [step EXCEPT ![t] = "begin"]
               /\ local' = [local EXCEPT ![t] = NoLocals]
Booted(t)   == booted' = [booted EXCEPT ![t] = TRUE]

-----------------------------------------------------------------------------
(* #refreshHistoryKeys: the keys are saved first, the walk is marked after. *)

KeysDone(t) == /\ Start(t, IF booted[t] THEN "drain" ELSE "hydrate")
               /\ UNCHANGED booted

RefreshKeys(t) ==
    /\ At(t, "keys", "begin")
    /\ keys' = keys \cup wrapped
    /\ IF wrapped \subseteq keys THEN KeysDone(t)
                                 ELSE Step(t, "mark") /\ UNCHANGED local
    /\ UNCHANGED <<server, inGroup, consumed, store, tries, bounds>>

\* Once the loop runs, the keys are fetched no more often than the conversations.
RefreshThrottled(t) ==
    /\ At(t, "keys", "begin")
    /\ booted[t]
    /\ KeysDone(t)
    /\ UNCHANGED <<server, crypto, store, tries, bounds>>

MarkUnlessWalking(t) ==          \* mutant: a walk under way is left to go on
    /\ At(t, "keys", "mark")
    /\ walk' = IF walk = 0 THEN Top ELSE walk
    /\ KeysDone(t)
    /\ UNCHANGED <<server, crypto, rec, pending, hydration, tries, bounds>>
MarkWalk(t) ==
    /\ At(t, "keys", "mark")
    /\ walk' = Top
    /\ KeysDone(t)
    /\ UNCHANGED <<server, crypto, rec, pending, hydration, tries, bounds>>

-----------------------------------------------------------------------------
(* #drainInbox: fetch, skip what is stored, open, store, record, ack.      *)

Fetch(t) ==
    /\ At(t, "drain", "begin")
    /\ inbox # {}
    /\ local' = [local EXCEPT ![t].page = Oldest(inbox, InboxPage)]
    /\ Step(t, "open")
    /\ UNCHANGED <<server, crypto, store, tries, bounds>>

DrainEmpty(t) ==
    /\ At(t, "drain", "begin")
    /\ inbox = {}
    /\ Start(t, "forward")
    /\ UNCHANGED <<server, crypto, store, booted, tries, bounds>>

OpensOnce(m) == inGroup /\ m \in Sealed \ (Own \cup consumed)

Outcome(rows, opened) ==
    [m \in Message |-> IF m \notin rows THEN "none"
                       ELSE IF m \in opened THEN "read" ELSE "failed"]

Open(t) ==
    /\ At(t, "drain", "open")
    /\ LET fresh  == {m \in local[t].page : rec[m] = "none"}
           opened == {m \in fresh : OpensOnce(m)}
       IN  /\ local' = [local EXCEPT ![t].batch = Outcome(fresh, opened)]
           /\ consumed' = consumed \cup opened
    /\ Step(t, "store")
    /\ UNCHANGED <<server, inGroup, keys, store, tries, bounds>>

\* putMessages: a copy that failed to open never replaces one that did.
PlainPut(old, new) == IF new = "none" THEN old ELSE new     \* mutant
Merge(old, new) == IF new = "none" \/ (new = "failed" /\ old = "read") THEN old ELSE new

\* Every read of this module stores its batch; the forward sync then settles it.
Store(t) ==
    /\ step[t] = "store"
    /\ rec' = [m \in Message |-> Merge(rec[m], local[t].batch[m])]
    /\ Step(t, IF job[t] = "forward" THEN "settle" ELSE "record")
    /\ UNCHANGED <<server, crypto, pending, walk, hydration, work, bounds>>

Batch(t, r) == {m \in Message : local[t].batch[m] = r}

\* #recordPendingDecrypts
Record(t) ==
    /\ step[t] = "record"
    /\ pending' = pending \cup Batch(t, "failed")
    /\ Step(t, "finish")
    /\ local' = [local EXCEPT ![t].batch = NoBatch]
    /\ UNCHANGED <<server, crypto, rec, walk, hydration, tries, bounds>>

AckFirst(t) ==                   \* mutant: the order the header of engine.ts warns of
    /\ job[t] = "drain" /\ step[t] \in {"store", "finish"}
    /\ inbox' = inbox \ local[t].page
    /\ IF step[t] = "store" THEN UNCHANGED <<where, local>>
       ELSE /\ Start(t, IF Cardinality(local[t].page) < InboxPage THEN "forward" ELSE "drain")
            /\ UNCHANGED booted
    /\ UNCHANGED <<sent, member, missed, wrapped, crypto, store, tries, bounds>>
Ack(t) ==
    /\ At(t, "drain", "finish")
    /\ inbox' = inbox \ local[t].page
    /\ Start(t, IF Cardinality(local[t].page) < InboxPage THEN "forward" ELSE "drain")
    /\ UNCHANGED <<sent, member, missed, wrapped, crypto, store, booted, tries, bounds>>

-----------------------------------------------------------------------------
(* #hydrate and #historyWalk page down the archive from its newest row.    *)

Archive == IF member THEN 1..sent ELSE {}

OpensFromArchive(m) == GenOf[m] \in keys

ReadDown(t, from, pages) ==
    LET below == {m \in Archive : m < from}
        rows  == Newest(below, ArchivePage)
    IN  local' = [local EXCEPT ![t] =
           [page   |-> rows,
            batch  |-> Outcome(rows, {m \in rows : OpensFromArchive(m)}),
            cursor |-> IF below = rows THEN 0 ELSE Least(rows),
            left   |-> pages,
            pend   |-> {}]]

HydrateSkip(t) ==
    /\ At(t, "hydrate", "begin")
    /\ hydration = 0
    /\ Start(t, "keys")
    /\ Booted(t)
    /\ UNCHANGED <<server, crypto, store, tries, bounds>>

HydrateRead(t) ==
    /\ At(t, "hydrate", "begin")
    /\ hydration > 0
    /\ ReadDown(t, hydration, 0)
    /\ Step(t, "store")
    /\ UNCHANGED <<server, crypto, store, tries, bounds>>

\* The cursor is written once the page is stored; then the next page is read.
HydrateAdvance(t) ==
    /\ At(t, "hydrate", "finish")
    /\ hydration' = local[t].cursor
    /\ IF local[t].cursor = 0 THEN Start(t, "keys") /\ Booted(t)
                              ELSE Start(t, "hydrate") /\ UNCHANGED booted
    /\ UNCHANGED <<server, crypto, rec, pending, walk, tries, bounds>>

WalkSkip(t) ==
    /\ At(t, "walk", "begin")
    /\ walk = 0
    /\ Start(t, "keys")
    /\ UNCHANGED <<server, crypto, store, booted, tries, bounds>>

WalkBegin(t) ==
    /\ At(t, "walk", "begin")
    /\ walk > 0
    /\ ReadDown(t, walk, WalkPages - 1)
    /\ Step(t, "store")
    /\ UNCHANGED <<server, crypto, store, tries, bounds>>

WalkAdvance(t) ==
    /\ At(t, "walk", "finish")
    /\ walk' = local[t].cursor
    /\ IF local[t].cursor = 0 \/ local[t].left = 0
       THEN Start(t, "keys") /\ UNCHANGED booted
       ELSE Step(t, "again") /\ UNCHANGED local
    /\ UNCHANGED <<server, crypto, rec, pending, hydration, tries, bounds>>

\* The walk goes on from its own copy of the cursor, not from the stored one.
WalkAgain(t) ==
    /\ At(t, "walk", "again")
    /\ ReadDown(t, local[t].cursor, local[t].left - 1)
    /\ Step(t, "store")
    /\ UNCHANGED <<server, crypto, store, tries, bounds>>

-----------------------------------------------------------------------------
(* #forwardArchiveSync pages up from just before the oldest pending id.    *)

\* Nothing to heal, or the last run was less than an interval ago.
ForwardSkip(t) ==
    /\ At(t, "forward", "begin")
    /\ Start(t, "walk")
    /\ UNCHANGED <<server, crypto, store, booted, tries, bounds>>

ForwardBegin(t) ==
    /\ At(t, "forward", "begin")
    /\ pending # {}
    /\ LET earlier == {m \in Message : m < Least(pending) /\ rec[m] # "none"}
       IN  local' = [local EXCEPT
              ![t].cursor = IF earlier = {} THEN 0 ELSE Greatest(earlier),
              ![t].left = WalkPages,
              ![t].pend = pending]
    /\ Step(t, "read")
    /\ UNCHANGED <<server, crypto, store, tries, bounds>>

ForwardRead(t) ==
    /\ At(t, "forward", "read")
    /\ LET rows == Oldest({m \in Archive : m > local[t].cursor}, ArchivePage)
       IN  IF rows = {} THEN Step(t, "finish") /\ UNCHANGED local
           ELSE /\ local' = [local EXCEPT
                      ![t].page = rows,
                      ![t].batch = Outcome(rows, {m \in rows : OpensFromArchive(m)}),
                      ![t].left = @ - 1]
                /\ Step(t, "store")
    /\ UNCHANGED <<server, crypto, store, tries, bounds>>

\* settlePendingDecrypts: of the pending ids on the page, those that opened are struck
\* off, and so are those read and still failed for the last time.
GivenUp(t) ==
    {m \in Batch(t, "failed") \cap local[t].pend : tries[t][m] + 1 >= Attempts}
Struck(t) == (Batch(t, "read") \cap local[t].pend) \cup GivenUp(t)

Settle(t) ==
    /\ At(t, "forward", "settle")
    /\ local' = [local EXCEPT ![t].pend = @ \ Struck(t),
                              ![t].cursor = Greatest(local[t].page),
                              ![t].page = {},
                              ![t].batch = NoBatch]
    /\ tries' = [tries EXCEPT ![t] =
          [m \in Message |-> IF m \in Struck(t) THEN 0
                             ELSE IF m \in Batch(t, "failed") \cap local[t].pend
                                  THEN @[m] + 1 ELSE @[m]]]
    /\ Step(t, IF local[t].left = 0 \/ Cardinality(local[t].page) < ArchivePage
               THEN "finish" ELSE "read")
    /\ UNCHANGED <<server, crypto, store, bounds>>

\* The record is written back whole.
ForwardFinish(t) ==
    /\ At(t, "forward", "finish")
    /\ pending' = local[t].pend
    /\ Start(t, "walk")
    /\ UNCHANGED <<server, crypto, rec, walk, hydration, booted, tries, bounds>>

-----------------------------------------------------------------------------
(* What ends a pass early.  Requests fail, and those are the reads and the *)
(* ack; the device's own database does not.                                *)

Requesting(t) ==
    \/ At(t, "keys", "begin")
    \/ At(t, "hydrate", "begin") /\ hydration > 0
    \/ At(t, "drain", "begin") \/ At(t, "drain", "finish")
    \/ At(t, "forward", "read")
    \/ At(t, "walk", "begin") /\ walk > 0
    \/ At(t, "walk", "again")

\* A failed hydration is not fatal, and a failed key refresh at startup is not either.
Abort(t) ==
    /\ Requesting(t)
    /\ fails < MaxFails
    /\ fails' = fails + 1
    /\ Start(t, IF job[t] = "keys" /\ ~booted[t] THEN "hydrate" ELSE "keys")
    /\ IF job[t] = "hydrate" THEN Booted(t) ELSE UNCHANGED booted
    /\ UNCHANGED <<server, crypto, store, tries, crashes, forfeited>>

Crash(t) ==
    /\ crashes < MaxCrashes
    /\ crashes' = crashes + 1
    /\ Start(t, "keys")
    /\ booted' = [booted EXCEPT ![t] = FALSE]
    /\ tries' = [tries EXCEPT ![t] = [m \in Message |-> 0]]
    /\ forfeited' = forfeited \cup Batch(t, "read")
    /\ UNCHANGED <<server, crypto, store, fails>>

-----------------------------------------------------------------------------
(* The other members, and the rest of this device.                         *)

Arrive ==
    /\ sent < Count
    /\ sent' = sent + 1
    /\ IF member THEN inbox' = inbox \cup {sent + 1} /\ UNCHANGED missed
                 ELSE missed' = sent + 1 /\ UNCHANGED inbox
    /\ UNCHANGED <<member, wrapped, crypto, store, where, work, bounds>>

\* We are added, with the history shared; or this device is registered.
Added ==
    /\ ~member
    /\ member' = TRUE
    /\ UNCHANGED <<sent, missed, inbox, wrapped, crypto, store, where, work, bounds>>

\* A member who holds a history key wraps it for this user.
WrapKey(g) ==
    /\ member
    /\ g \notin wrapped
    /\ wrapped' = wrapped \cup {g}
    /\ UNCHANGED <<sent, member, missed, inbox, crypto, store, where, work, bounds>>

\* The welcome is processed, and envelopes sealed to us begin to open.
Join ==
    /\ member
    /\ ~inGroup
    /\ inGroup' = TRUE
    /\ UNCHANGED <<server, consumed, keys, store, where, work, bounds>>

\* resolveOutbox stores a message this device sent from the send's response.
ResolveOwn(m) ==
    /\ m \in Own
    /\ m \in (missed + 1)..sent
    /\ rec' = [rec EXCEPT ![m] = "read"]
    /\ UNCHANGED <<server, crypto, pending, walk, hydration, where, work, bounds>>

Pass(t) ==
    \/ RefreshKeys(t) \/ RefreshThrottled(t) \/ MarkWalk(t)
    \/ HydrateSkip(t) \/ HydrateRead(t) \/ HydrateAdvance(t)
    \/ Fetch(t) \/ DrainEmpty(t) \/ Open(t) \/ Ack(t)
    \/ Store(t) \/ Record(t)
    \/ ForwardSkip(t) \/ ForwardBegin(t) \/ ForwardRead(t) \/ Settle(t) \/ ForwardFinish(t)
    \/ WalkSkip(t) \/ WalkBegin(t) \/ WalkAdvance(t) \/ WalkAgain(t)

Next ==
    \/ \E t \in Tab : Pass(t) \/ Abort(t) \/ Crash(t)
    \/ Arrive \/ Added \/ Join
    \/ \E g \in Gen : WrapKey(g)
    \/ \E m \in Message : ResolveOwn(m)

Spec == Init /\ [][Next]_vars

(***************************************************************************)
(* Fairness: the loop of a tab goes on; its refresh of the keys and its    *)
(* forward sync, throttled as they are, run now and then.  Nothing is      *)
(* asked of the other members: a key may be withheld for ever, and joining *)
(* the group may take for ever, in which case the archive has to suffice.  *)
(***************************************************************************)
LiveSpec ==
    /\ Spec
    /\ \A t \in Tab :
          WF_vars(Pass(t)) /\ SF_vars(RefreshKeys(t)) /\ SF_vars(ForwardBegin(t))

-----------------------------------------------------------------------------
TypeOK ==
    /\ sent \in 0..Count
    /\ member \in BOOLEAN
    /\ missed \in 0..sent
    /\ inbox \subseteq Message
    /\ wrapped \subseteq Gen
    /\ inGroup \in BOOLEAN
    /\ consumed \subseteq Message
    /\ keys \subseteq Gen
    /\ rec \in [Message -> Stored]
    /\ pending \subseteq Message
    /\ walk \in 0..Top
    /\ hydration \in 0..Top
    /\ job \in [Tab -> {"keys", "hydrate", "drain", "forward", "walk"}]
    /\ step \in [Tab -> {"begin", "mark", "open", "store", "record", "finish",
                         "again", "read", "settle"}]
    /\ booted \in [Tab -> BOOLEAN]
    /\ local \in [Tab -> Locals]
    /\ tries \in [Tab -> [Message -> 0..Attempts - 1]]
    /\ crashes \in 0..MaxCrashes
    /\ fails \in 0..MaxFails
    /\ forfeited \subseteq Message

(***************************************************************************)
(* An envelope leaves the server's inbox only once its message is on disk: *)
(* "fetch -> store -> transaction commits -> ack" (header of engine.ts).   *)
(***************************************************************************)
AckedIsStored == \A m \in (missed + 1)..sent : m \notin inbox => rec[m] # "none"

(***************************************************************************)
(* What could be read once stays readable: redelivery, the echo of an own  *)
(* send and an archive row without its key never undo it (putMessages).    *)
(***************************************************************************)
ReadStaysRead == [][\A m \in Message : rec[m] = "read" => rec'[m] = "read"]_vars

(***************************************************************************)
(* Opening an envelope spends its key, so what was opened must be kept: it *)
(* is stored readable or about to be, unless the tab died in between.  Two *)
(* tabs draining the same envelope do not cost it (#drainInbox).           *)
(***************************************************************************)
OpenedIsKept ==
    \A m \in consumed : \/ rec[m] = "read" \/ m \in forfeited
                        \/ \E t \in Tab : local[t].batch[m] = "read"

(***************************************************************************)
(* A message whose history key has been wrapped for us is readable in the  *)
(* end, in whatever order keys, envelopes and archive rows come, however   *)
(* many older messages can never be opened, and also if it was sent before *)
(* we were there (#refreshHistoryKeys, #historyWalk, #forwardArchiveSync,  *)
(* settlePendingDecrypts).                                                 *)
(***************************************************************************)
SharedBecomesReadable ==
    \A m \in Message : m <= sent /\ GenOf[m] \in wrapped ~> rec[m] = "read"

(***************************************************************************)
(* engine.ts:2208 says of the pending record that "a lost entry costs a    *)
(* delayed heal": a message stored without opening, whose key the device   *)
(* holds, is readable in the end.                                          *)
(***************************************************************************)
FailedHeals ==
    \A m \in Message : rec[m] = "failed" /\ GenOf[m] \in keys ~> rec[m] = "read"

(***************************************************************************)
(* engine.ts:2311 says of the walk a new key starts: "That trigger is the  *)
(* whole feature for a member added with shared history".  So a message    *)
(* from before us, whose key the device holds, is fetched in the end.      *)
(***************************************************************************)
HistoryIsWalked ==
    \A m \in Message : m <= missed /\ GenOf[m] \in keys ~> rec[m] = "read"
=============================================================================
