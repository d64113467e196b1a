# A TLA+ model of the Wherry client

Wherry is an end-to-end encrypted messenger with calls. This directory models its client (`src/src`,
TypeScript; `src/src-tauri`, the Rust and Kotlin shells) where it decides something that outlives one
call stack: whether messages arrive, who is in a group, who is in a call and with which microphone,
what rings, who is signed in. The server is not in the repository; it is modelled from how the client
uses it, and definitions that stand for it are marked `external` in `PROJECT.json`.

Paths below are relative to `src/src/` of the repository unless they say otherwise.

## The system

| Component | State it keeps | Operations | Properties that make it correct |
|---|---|---|---|
| Outbox (`sync/engine.ts`, `store/indexeddb.ts`) | `OUTBOX` store; a flush's snapshot and its `blocked` set | `enqueue`, `retry`, `#flushOutbox`, `#failPendingSends` | nothing composed is lost; one server row per message; order within a conversation; every message settles |
| Inbox and healing (`sync/engine.ts`, `sync/pending-decrypt.ts`) | `MESSAGES` store, pending-decrypt record, walk record, hydration cursor | `#hydrate`, `#drainInbox`, `#refreshHistoryKeys`, `#forwardArchiveSync`, `#historyWalk` | store before ack; readable stays readable; what can be opened is, in the end |
| Leader election (`sync/leader.ts`) | a Web Lock; `stopped`, `paused`, `holding`, `controller`, `retry` of each tab | `acquire`, `release`, freeze/resume, watchdog, `stop` | some tab syncs; a tab that lost the lock stops; no tab drops out |
| Sync loop (`sync/engine.ts`, `sync/backoff.ts`) | `#wake`, `#pokePending`, back-off | `#runLoopBody`, `poke`, `#waitForNextTick` | no wake is lost; an error delays and never stops the loop |
| Socket (`sync/socket.ts`) | one connection, its health, a reconnect timer | connect, frames, close codes, `reconnectNow` | at most one live connection; it comes back unless told not to |
| MLS membership (`sync/mls.ts`, `crypto/mls.ts`, `sync/join-plan.ts`) | group state and epoch per conversation, noted commits, cool-downs | create, join by welcome or external commit, commit add/remove, apply commits, rotate the history key | members converge on one group; a lost race or a crash does not wedge a conversation |
| History keys (`crypto/history.ts`, `crypto/db.ts`) | keys by conversation and generation | `ingestWrappedKeys`, mint, backfill | a key accepted by the server is not lost to those it was sealed for |
| Readable channels (`#publicChannelSync`, `#refreshHubs`, `ui/Chat.tsx`) | a watermark per channel, another of a hub's events | cursor reads, removals, the jump to a found message | nothing skipped, nothing resurrected |
| Account key (`crypto/account.ts`, `crypto/keys.ts`, `ui/Login.tsx`) | a row at the server with two wraps of one key; a pair per device | register, unlock, silent repair, recover, start fresh, new code, change of password | the row is of one key; the code a person has opens it |
| Session (`App.tsx`, `api/session.ts`, `vault.ts`, `ui/Login.tsx`) | a token and a device id in localStorage, their copies in the keychain, a session in each tab | sign in, hold, persist, sign out, 401, restore | a session ends once; a device is itself, and one |
| Phone push (`sync/native-push.ts`) | a record on the phone, a row at the server | Turn on, Turn off, launch, token, sign-out, flush | the phone is alerted as its switch says, or knows what it owes |
| Voice session (`voice/session.ts`, `voice/rules.ts`, `voice/handoff.ts`) | a call's phase, a lock across windows, a transport | join, leave, switch, teardown, adopt after reload | one call per profile; a hang-up wins over a join under way |
| Desktop shell (`src-tauri/src/voice`) | one `SESSION`, a claim, the recording device and its gate, one `VIDEO` | `voice_connect`, `voice_disconnect`, `voice_current`, `voice_set_mic`, `voice_set_camera`, `voice_set_screen` | the shell's call is the page's; what is captured is what the buttons say, and stops with its call |
| Phone calls (`voice/phone-*.ts`, `src-tauri/plugins/wherry-calls`) | the plugin's ring, its notification, the page's list of rings | ring, answer, end from either side | one thing rings; no press is lost; what is over does not ring |
| Own status, web push, media transports, UI | caches and device handles | | see "What is not modelled" |

How they interact. The tab that holds the lock runs `#runLoop`, which opens the socket and repeats
one pass in a fixed order: conversations, membership (`mlsSync.tick`), history keys, outbox, inbox,
readable channels, forward archive read, history walk; the hubs' sweep runs beside it. Every other tab
writes to the same IndexedDB (a composed message goes to the outbox from any tab), and learns of
changes by broadcasts that carry no data. A wake from the socket only schedules a pass. A call belongs
to the window with the voice lock; on a desktop its media are the shell's, reached by commands that may
overtake one another; on a phone a plugin rings when the page does not. So the shared state is the
browser's databases, the shell and the server, and the hard behaviour is what happens between two awaits:

* another tab composes, retries or, after a steal of the lock, runs a pass of its own over the same
  records; another window, or a second press, begins what a first has not ended;
* the tab, page or process is closed or killed, and what it had not yet written is gone, while the shell,
  the keychain and the server keep what they had;
* a request or its answer is lost or late, so that what the other side has done is not known;
* other devices turn the epoch of a group, rotate keys, replace the account's row, add, remove or
  revoke us.

`PROJECT.json` lists these hazards one by one, each at its line.

## Modules

| Module | Models | Extends |
|---|---|---|
| `SendQueue` | what the outbox promises: an ordered, at-most-once queue (abstract) | |
| `Outbox` | enqueue, retry, flush, and the failing of sends to a gone conversation | instantiates `SendQueue` |
| `Inbox` | the four reads by which a message reaches a device, and the order of a pass around them | |
| `Leader` | the election and the socket that goes with it | |
| `MlsGroup` | the group of one conversation: its commit log, and the sweeps by which devices create it, join it, change it and follow it | |
| `SyncLoop` | when a leading tab's loop runs and sleeps, and the socket that may slow it down | |
| `HubChannel` | one readable channel of a hub: two cursors, removals, jumps, sign-out | |
| `VoiceSession` | joins, hang-ups and teardowns of one page, with the lock, the server's row and the SFU's rooms | |
| `ShellCall` | the shell's one call, the transport that asks for it, and the check by which a page finds the call of the page before | |
| `ShellMic` | the microphone: the shell's gate and device, and the page's button | |
| `ShellVideo` | the camera, the shared screen and its sound, and the page's buttons for them | |
| `PhoneRing` | one call that rings an Android phone, in the plugin and in the page | |
| `AccountKeys` | the account's key row and the devices of one account | |
| `NativePush` | a phone's registration for push | |
| `Session` | who is signed in in a browser profile, and as which device | |
| `OutboxProofs`, `InboxProofs`, `MlsGroupProofs`, `LeaderProofs`, `HubChannelProofs` | the theorems about the module they are named for | that module, `TLAPS` and library theorems |
| `SyncProofs` | the theorems about `SyncLoop` and `ShellCall` | `MCSync`, `TLAPS` |
| `DeviceProofs` | the theorems about `AccountKeys`, `Session`, `ShellMic` and `ShellVideo` | `MCDevice`, `TLAPS` and library theorems |
| `CallProofs` | the theorems about `PhoneRing`, `VoiceSession` and `NativePush` | `MCCall`, `TLAPS` |
| `MCOutbox`, `MCInbox`, `MCLeader`, `MCMlsGroup`, `MCHubChannel` | constants and symmetry sets for TLC | the module they are named for |
| `MCFlows`, `MCSync`, `MCCall`, `MCDevice` | several parts in one run, see "Runs" | |

Definitions with a comment `Mutant:` are not used by any specification: each is a plausible mistake in
the definition that follows it, kept to show that a property would notice.

### Outbox

* `outbox`, `stored` are the `OUTBOX` and `MESSAGES` stores, shared by all tabs. An entry is
  `parked` (`pendingEncryption`), `sealed` under a key, or `clear` (readable channels), and may be
  `failed` (`failedPermanently`). Attempts and error texts are left out.
* Epoch and history-key generation are one number per conversation, its *key*: the server refuses
  both as stale, and the client repairs both by the same lines.
* `enqueue` is two steps, as it takes `createdAt` and then awaits before it puts the entry;
  `retry` is a read and a put. A flush takes a snapshot (`snap`) and works on the entries of that
  copy. Between any two awaits anything else may happen.
* An answer is handled in one step per kind (`OnAccepted`, `OnStaleRepaired`, ...): what the code
  awaits inside the repair (keys, commits, sealing) is summarised by its outcome, done or not, and
  its write is made from the snapshot's entry, as in the code.
* `before`, `givenUp`, `copies` are history variables, read by properties and by the mapping to
  `SendQueue` only.
* `FailPendingSends` fails all entries of a conversation at once; the code does it entry by entry,
  each re-read. Nothing a property says depends on the difference, since each failing is a step of
  `SendQueue` on its own.
* `removeOutbox` exists in the store and has no caller.

### Inbox

One conversation, messages `1..Count`, ids in the order of sending as uuidv7 ids are. A message has
an archive row, sealed under a history-key generation, and, if we were a member when it was sent, an
envelope, which opens once, if we were in the group it was sealed to. `missed` counts the messages
from before us. A pass is a `job` (`keys`, `hydrate`, `drain`, `forward`, `walk`) and a `step` in it;
every step ends at an await. `booted` separates the first refresh and the hydration from the loop.
`rec` is how a message is stored (`none`, `failed`, `read`), `pending` and `walk` the two metadata
records of the healing reads, `local` what a tab has in its variables and loses when it dies.

The device's own database is taken not to fail; requests may fail (`Abort`) and tabs may die
(`Crash`). The pending and walk records are read and written in one step.

### Leader

A lock request outlives the variables that point at it, so each tab has a few request slots with the
phase the browser sees (`queued`, `stealing`, `granted`, `held`, `stolen`, `over`) and what became of
the task. A page is visible, hidden, suspended or closed; a suspended page takes no step but keeps
its lock. `Settled` is the `.finally` of a request, `Acquire` and `Release` the closures of the same
names. `socket` is `SyncEngine.#socket`, which all loops of a tab share; `open` is what has been
started and not stopped.

Time is abstracted: the watchdog may fire whenever STALE_MS could have gone by, that is unless some
much shorter wait would have ended it (`Silent`).

### MlsGroup

The server stores the commits of a conversation in order and takes one for epoch `n + 1` when it is
at `n`, from whoever sends it; it knows nothing of what the devices hold. A state of a group is
therefore modelled as the sequence of commits that led to it, starting with its creation: two
devices are in one group just when their sequences are equal, or one is a prefix of the other. This
is what the transcript hash of MLS makes of a state, and it lets two groups that were created at
once be at the same epoch without being the same.

* `log` is what each accepted commit made of the group, `published` the GroupInfo, `welcomes` the
  welcomes whose key package its device still has, `roster` the devices of the members; `held[d]` is
  the group in the database of device `d`.
* `at[t]` is the sweep of tab `t`: a step and the local variables of `tick`, `#drainWelcomes`,
  `reconcileConversation` and `#applyCommits`. Every step ends at an await, so another device, or
  another tab of the same device after a steal, may do anything in between, subject to the Web Lock
  that the commit operations hold from before the commit is made until it is saved (`LockFree`).
* An accepted commit (`Accepted`) and saving its state (`Persist`) are two steps; `Lose` is what
  happens when the answer does not come or the tab goes in between.
* `Applies` says what ts-mls can process: a commit made on the state one has, unless it is one's own
  and renews the keys on the committer's path, as removals and external joins do.
* `Repair` is the outbox calling `reconcileConversation` after a refused send.
* Opening a welcome uses up its key package, so a welcome that was opened and not yet acknowledged
  opens no more when it comes again; acknowledging is therefore not a change of its own.
* Every pass sweeps. A pass that only drains the welcomes is one that stops there.

Removals name devices, where the code names leaf indexes. Cool-downs, the noted commits and the
rotation of the history key, which ends a sweep, are left out.

### SyncLoop

`loop` is where `#runLoopBody` is, `m` the manager of the sockets with its `conn`ections. A poke sets
`pokePending` and ends a wait; what a pass finds is three kinds of news, each untold, told (a poke was made
for it) or taken. A pass may fail at any of its requests, and Retry-After or the back-off then make the
wait a long one. `Lead` and `Abort` are what the election does.

### HubChannel

Messages and events are numbered in the server's order, cursors are numbers, and a page is a set. `loop[l]` is
a run of `#publicChannelSync`, `sweep[e]` one of `#refreshHubs`, which no pass waits for. Frames of the
socket come at any time or never. `since` is a ghost: where the cursor was first put.

### VoiceSession

`#join` and `#teardown` are processes (`joins[j]`, `downs[d]`) that share the fields of the session (`ui`,
`plan`, `attempt`, `transport`, `leaving`, `leaves`); an action is the code between two awaits. `lock` is
the Web Lock, `row` the calls the server counts the device in, `room` what the SFU has of a transport. A
conversation has one call, named by it. A request that fails may have been served: a join may be admitted and
hear of a failure, whose teardown tells nobody (`session.ts:1006`), and a leave may be lost, which the page
swallows (`session.ts:1939`, `2016`). A departure that the SFU is still to report clears the row then; where
there is none, `sweep` has the call, as only the server's own sweep will.

### ShellCall and ShellMic

A command of the shell is a task of its own (`con`, `dis`; `cmd`): two of one page run side by side and
outlive it. `ShellCall` has the claim, the stored session and the rooms, with the page's transports and
checks; `ShellMic` has the gate, the device, what libwebrtc does to it when a stream starts or stops, the
three looks of `recheck_microphone`, and the button with its ticket.

### ShellVideo

`video` is `VIDEO`, the state of one session at a time: `with_state` (`StateOf`) makes a state for the
session it is asked for, whatever is there, and `with_live_state` (`Live`) does not. A command (`cmd`) is a
task whose steps end at its awaits; `took` is what it has taken out of the state and is to stop. Camera
commands take turns (`turn`), screen commands do not. A capture is named after the command that opened it;
`lit` and `loud` are those that run. Reports to the page are one flag, `dirty`, as each of them carries what
is sent when it is made. Tiles are left out, but for `rebind_tiles`, which may replace the state.

### PhoneRing

`native` and `note` are RingHandler's sets and the notification, `ring`, `task`, `shown`, `held` the page's.
Push and socket bring the ring, and its end, in any order; a command of the page, its answer and the
plugin's events each take their time; the process may be killed while it is not in front.

### AccountKeys

A wrap opens with the secret it was made under (`Opens`), and the row is replaced whole (`Puts`): reading the
row and putting it back are two steps, with anything of another device in between. A device keeps the pair
it unwrapped, over an expired session and not over a sign-out. `shown` is the last code that was on a
screen, which the person has; `unseen` are those lost with a page, or with an answer.

### NativePush

`stored` is the record in localStorage: whose sign-in it is of, the row this device keeps, an unregistration
that is owed, and whether the next launch has to tell the server again. The launch, a token's event and the
switch each have a job, whose request is sent, served and answered by steps of its own. Tokens, keys,
permission and the server's settings only decide whether a registration is made, and are a choice. Left
out: the 400 of an old server, the `apns_voip` row of calls, a device that changes hands.

### Session

`session` and `device` are localStorage's, `vault` the keychain's copies, `tab[t]` a page with the session it
has in memory and its sign-in; the server numbers tokens and devices. A sign-out is one step; what it
clears beside the token is in `AccountKeys` (the pair) and `HubChannel` (the store). `EndsOnce` is checked and
proved of the keychain and the storage only: what is cleared, evicted and restored. The answer of a request that
was under way when the session ended, or another tab's 401, does break it, and the runs leave them out
(`LateRaces`).

## Runs

All runs use `CHECK_DEADLOCK FALSE`: each bounded system stops when its bounds are used up and its
work is done, and so does the real one when nobody writes.

| Run | Checks | Instance | Size |
|---|---|---|---|
| `outbox_two_tabs` | `NeverLost`, `ShownSentIsSent`, `OrderedOnce` (refinement of `SendQueue`) | 2 messages of one conversation, 2 tabs, 2 key changes, 1 closed tab or hand-over | 1.0 M states |
| `outbox_live` | `Settles` | 2 messages, 1 tab, 2 key changes, 1 send on the wire nobody waits for, 1 retry | 0.1 M |
| `inbox_two_tabs` | `AckedIsStored`, `OpenedIsKept`, `ReadStaysRead` | 2 messages, one of them our own, 2 tabs, archive pages of 1, up to 2 per pass, a crash or a failure | 3.9 M |
| `flows` | `ChannelsFlowOn`, `SharedBecomesReadable`, `EndedLeaves` | `Outbox` with a message in a channel and one without a key; `Inbox` with 2 generations, pages of 1 and a failed request; `VoiceSession` with one call | 0.11 M |
| `leader` | `InElection`, `FormerLeaderStops`, `SomebodySyncs` | 2 tabs, 2 requests each, 3 disturbances | 0.25 M |
| `leader_regained` | `SocketIsLeaderships`, violated | the same, 2 disturbances | |
| `mls_group` | `OneLog`, `NeverRollsBack`, `Converges` | 2 devices with a tab each, in the conversation or not at first, 1 coming or going, 1 failure, 1 lost answer of a commit, 4 commits | 0.15 M |
| `mls_stranded` | `NotStrandedForGood`, violated | the same without failures | |
| `sync` | `NothingIsSlept`, `OneSocket`, `Delivered`, `ConnectsAgain`; `CallIsThePages`, `TouchesItsOwn`, `FoundOrClosed` | `SyncLoop` with 2 sockets and one news of each kind; `ShellCall` with 2 connects, 4 disconnects, 1 reload, 1 retry of the check | 0.06 M |
| `hub_channel` | `NothingIsPassedOver`, `PassedIsRemoved`, `ReadToTheEnd` | one loop, one sweep, pages of 1, 3 posts, 1 event, 1 turn (closed tab, jump, move, sign-out) | 0.17 M |
| `call` | `CallIsHeld`, `RowIsTrue`; `SwitchIsTrue`; `RingsOnce`, `NoGhostRing`, `PressIsCarried` | `VoiceSession` with 2 conversations, 2 joins, 2 teardowns, 1 hang-up, any request lost; `NativePush` with 3 presses, 2 sign-ins, a token, 2 faults; `PhoneRing` with 2 reports, 1 push, 1 coming to the front, 1 kill, 1 read | 3.5 M |
| `device` | `NothingRunsOn`, `ButtonIsTrue`, `OpenIsHeard`, `ShownIsSent`; `RowIsOneKey`, `WrittenCodeOpens`; `DeviceIsItself`, `EndsOnce` | `ShellMic` with 2 calls, 3 commands, a share, a refused start, a reload; `ShellVideo` with 2 calls, 3 commands, 2 cameras, 1 failure, mute or reload; `AccountKeys` with 2 devices, 2 passwords, 2 keys, 3 codes, 4 turns; `Session` with 2 tabs, 2 accounts, 3 sign-ins, 2 faults | 2.1 M |

The composite modules run several parts under one specification: `part` says whose behaviour it is, and the
others rest in one initial state. They do not show an interaction of the parts; they put questions of one
kind side by side. Where two parts do meet, one of them has the other as its environment, which may do
anything it can do: `SyncLoop` has the election, `ShellMic` and `ShellVideo` the connects and hang-ups of `ShellCall`,
`VoiceSession` other windows, `HubChannel` sign-out.

Why the bounds are enough. Every hazard of the outbox is between two flushes, or a flush and a tab
that composes or dies, about one message or about an order of two; two messages, two tabs, and two
keys (so that an entry can be re-sealed and be stale again) make all of them happen, and what holds
for any number is proved. In the inbox, pages of one row, with up to two per pass in one run and one in
the other, make the reads span passes and go on within one, which is where a walk can be restarted
or a pending id be in the way; `Attempts` is 2
instead of 3, the least number for which giving up takes more than one reading; `OneFault` of
`inbox_two_tabs` lets either a crash or a failed request happen, not both. In the election one
former and one present leader are two tabs, and a third disturbance is needed for a tab to be
robbed, robbed back and then frozen.
Two devices, with one coming or going, make every kind of commit and race of `MlsGroup`: two creators,
two commits for one epoch, a commit and a join, a welcome and a join, and removals; there are never
more than four commits, so that the bound on the log cuts nothing off.
Two tabs of one device need more states than a run has time for; the theorems cover them, as they cover
two loops and any page sizes of `HubChannel`. A call has two joins because every race is between one and
the next; in `flows` it has a teardown more than joins, as a hang-up adds one, and in `call`, where any request
may be lost, two, so that one can overlap the other (`CallHolds` covers any number). The ring has two
reports, that of a page and that of the page after a kill. Three commands of the camera and the screen, in any mixture, let one be
overridden and the other report in between. Two devices, two keys and three codes let a key be retired and a code
be replaced under a device that has read the row; three presses let a switch be turned on, off and on
again over a lost answer.

Symmetry is used in safety runs only: tabs are interchangeable, and so are the two messages of
`outbox_two_tabs`, which are of one conversation and composed in either order.

Types. A `TypeOK` is proved in the five modules of proofs that are about one module; elsewhere it documents
the variables and is none of the runs' properties. The theorems about those parts have their own statement of the
types in the inductive invariant, as loose as the proofs allow (a number where `TypeOK` has its bound).

### Assumptions of the runs

Some orders of events break a property, and the code does not exclude them. Each is named by a constant, which
the runs set to leave it out; with it, the run fails, and what the code then does is a finding of
`PROJECT.json`, or (marked *) is left to the environment, of which the code cannot tell.

| Constant | Left out | Breaks |
|---|---|---|
| `VoiceSession!Hasty = FALSE` | a join passes its checks while an earlier join or a hang-up is unfinished | `OneWindow`, `NothingLeftBehind` |
| `ShellCall!InOrder = TRUE` | commands of one page begin out of order * | `ClosesItsOwn`, `AdoptsStrangers` |
| `ShellMic!Races = {}` | `hangup`, `lock`, `share`, `sfu`, `publish`, `late`, `reload`: see the module | `hangup` all three; `lock`, `sfu`, `late` `ButtonIsTrue`; `share` `OpenIsHeard`; `publish` `DarkWhenClosed`; `reload` `ButtonIsTrue`, `OpenIsHeard` |
| `ShellVideo!VideoRaces = {}` | `reload`, `settle`, `rebind`, `switch`, `sfu` *: see the module | `rebind` (with `settle`) `NothingRunsOn`; the others `ShownIsSent` |
| `PhoneRing!InOrder`, `LatePush`, `Stale` | an event overtakes the answer to a report *; a push comes once the ring is withdrawn for the page; a read of the calls began before the call | `OneRing`; `NeverSilent`; `NeverSilent` |
| `HubChannel!Races = {}` | `page`, `first`, `burst`, `empty`, `found`, `signout`: see the module | `empty` `NothingIsPassedOver`; the others `PassedIsRemoved` |
| `AccountKeys!Races = {}` | `fresh`: the person starts fresh while another device is between reading and putting the row; `code`: so with a new code | `fresh` both; `code` `WrittenCodeOpens` |
| `NativePush!PushRaces = {}` | `overlap`: the switch is pressed beside a launch's or token's registration; `signout`: a sign-out beside one; `lost`: the answer of a Turn on | `OffIsOwed`, by `overlap` and `signout` `ShownIsServed` too |
| `Session!LateRaces = {}` | `tabs`: a sign-in while another tab is signed in; `mark`: a session ends under a request about it; `lost`: the answer of a sign-in; `vault`: the keychain refuses a deletion | `tabs`, `mark`, `vault` `EndsOnce`; `tabs`, `mark`, `lost`, `vault` `DeviceIsItself` |

### Fairness

* `Outbox!LiveSpec`: the loop keeps taking steps and handling the answers that arrived (weak, per
  tab: a loop that waits on a timer runs again). Strong fairness, where a state may come and go
  under the actor: the membership tick, which precedes every flush; that a send repeated for ever is
  sometimes answered on its merits, and that such an answer sometimes arrives. A network that loses
  everything, or a server that always says 503, delivers nothing, and the code does not claim
  otherwise. Slow mode and other refusals may come at any time, but not for ever.
  Nothing is asked of users or other devices.
* `Outbox!KeylessSpec` (in `flows`): the same without the tick, so that a key may be missing for good.
* `Inbox!LiveSpec` (in `flows`): a pass goes on (weak), and the refresh of the keys and the forward read, which
  are throttled by a clock, run now and then (strong: each pass offers them, none need take them).
  Keys may be withheld, and joining the group may never happen.
* `VoiceSession!LiveSpec` (in `flows`): what is under way goes on (weak), and the page hears of an end by a
  frame or by asking.
* `MlsGroup!LiveSpec`: a sweep goes on, and begins again (weak, per tab). Strong: that a pass begins
  with its welcomes, since the repair of the outbox comes after them in the same pass; that a device
  left alone with nothing to join creates the group, as the grace of `planJoin` runs out; that a
  comparison now and then finds key packages for everyone, as devices replenish theirs.
* `Leader!LiveSpec`: an awake tab runs its callbacks and timers, and the browser grants what it is
  asked for (strong for the lock manager, since a request may be withdrawn and made again). Pages
  may stay suspended for ever.
* `SyncLoop!LiveSpec` (in `sync`): timers fire, and a closing socket closes (weak); a phase of a pass that is
  reached again and again sometimes succeeds, and so does a handshake (strong).
* `ShellCall!LiveSpec` (in `sync`): commands under way end, and their answers arrive (weak).
* `HubChannel!LiveSpec`: passes and sweeps begin and go on (weak), and a read that is made again and again is
  sometimes answered (strong). Frames need never come.

### What the findings are

`leader_regained` and `mls_stranded` are runs that TLC refutes; the rest were found the same way, with a
constant of the table above or a property that no run lists, and are described in `PROJECT.json`.

* Outbox and inbox: a message composed for a conversation known to be gone reads "sending" for ever
  (`NeverSendingForever`); in a tab that does not lead it waits for the next pass (`SentAtOnce`); a tab
  closed between a store and the record beside it loses a heal (`FailedHeals`) or a shared history
  (`HistoryIsWalked`).
* `leader_regained`. `sync/engine.ts:856` says "The socket's lifetime is leadership's lifetime". A
  loop that was robbed of the lock ends only when its request returns; if its tab has the lock again
  by then, the field `#socket` names the new loop's socket, and that is the one that is stopped.
* `mls_stranded`. `crypto/mls.ts:495` describes what must not happen to a device: to be "one epoch
  behind a commit it can never apply -- its own", and prevents it for a late welcome. A removal the
  server took, and whose answer was lost, leaves its committer in that place.
* Calls and the microphone: the order of two mute commands between two locks; an unmute under way at a
  hang-up; a mute during a join whose publish fails; a teardown that lets go of a newer join's lock; a
  disconnect that closes the next call; rings that fall silent or ring in front after a Decline.
* Camera and share: a camera left published over a device that did not open; a press of one call answered in
  the next; a share that comes up under a reloaded page; a take-down that throws away the next call's
  captures.
* Hub channels: removals that are passed over, or undone by a page in hand; an empty channel's
  first page; writes after a sign-out.
* Account, push and session: a retired key or an old code put back by a silent repair; a phone that goes
  on buzzing after a sign-out or a Turn off; a session that comes back after its end, or is ended by
  another tab; a phantom device.

## Proofs

Eight modules hold proofs, for every value of the constants: any number of messages, tabs, devices, loops,
calls, joins, commands, any page sizes and any bounds. They state every invariant and every action property
that a passing run checks. The last three modules are about several parts each: every part has its theorems about its own
`Spec`, and a last one says that they hold of the composition that the run checks.

`OutboxProofs` proves, for every set of messages, conversations and tabs, every assignment of
messages to conversations and every bound:

| Theorem | Statement |
|---|---|
| `TypeCorrect` | `Spec => []TypeOK` |
| `NothingLost` | `Spec => []NeverLost` |
| `ShownMeansSent` | `Spec => []ShownSentIsSent` |
| `Refinement` | `Spec => OrderedOnce`, that is, `Outbox` implements `SendQueue` |

The only assumption is `OutboxAssumption` of `Outbox`, the types of the constants.

The invariants are not inductive by themselves, since what may happen next depends on what a flush
has in its snapshot and what is on the wire. The inductive invariant `IInv` consists of `TypeOK`, `NeverLost` and:

* `Dated`: no date is later than the clock, and two composed messages never share one.
* `Written`: whatever is in the outbox or in `MESSAGES`, in a snapshot, held by `retry`, on the wire
  or given up on is a message that `enqueue` has put.
* `Marked`: an entry marked failed was given up on, and no snapshot holds a marked one.
* `Rows`: the server has one row for each id it has seen and none for others, and what is shown as
  sent it has seen.
* `Wire`: a tab that waits has one request out at most, for the head of its snapshot, and no answer
  yet if it has; an answer that says accepted means that the server has seen the id.
* `Typed`: the pairs in `before` are of messages of one conversation, in the order of their dates.
* `SnapOrder`: a message typed before one that a snapshot still holds is in that snapshot too, or
  has been delivered or given up on. This is where blocking a conversation, and taking the head by
  date, are used.
* `WireOrder`: the same for every request on the wire, also those that nobody waits for.

`OrderedOnce` follows: a step of the server that makes a row is `Deliver` of `SendQueue`, whose guard
is `WireOrder`; putting a composed message is `Promise`; failing is `GiveUp`; every other step
stutters.

`InboxProofs` proves, for any number of messages, tabs and generations and any page sizes and
bounds, from `InboxAssumption` (the types of the constants; pages, budgets and attempts are at least
one):

| Theorem | Statement |
|---|---|
| `TypeCorrect` | `Spec => []TypeOK` |
| `NoAckBeforeStore` | `Spec => []AckedIsStored` |
| `NothingOpenedIsLost` | `Spec => []OpenedIsKept` |
| `ReadForGood` | `Spec => ReadStaysRead` |

What the next step of a tab does depends on its local variables, so the inductive invariant says,
for each tab, what those hold at each step (`Sound`): the batch is empty except between reading a
page and putting it away (`Tidy`); once stored, what was opened is stored as read (`Saved`); a drain
that is about to ack has stored every message of its page (`Drained`); a read that goes on has pages
left, and a page to be settled has rows (`Paced`, which `TypeOK` needs). A step of one tab leaves
the others sound, because no write ever takes a stored message away or makes a read one unread
(`Monotone`, from `Merge`); this is what makes two tabs over the same records safe. `TypeOK` also
rests on three lemmas on bounded sets of numbers: a least and a greatest element exist, and a page of
a non-empty archive is not empty.

`MlsGroupProofs` proves, for any devices, any number of tabs of each and any bounds, from
`MlsGroupAssumption` (a tab is of a device; ids and bounds are numbers):

| Theorem | Statement |
|---|---|
| `TypeCorrect` | `Spec => []TypeOK` |
| `OneGroup` | `Spec => []OneLog` |
| `NoRollBack` | `Spec => NeverRollsBack` |

`OneLog` speaks of what is stored. What will be stored is, some steps before, in the variables of a
sweep, so the inductive invariant adds: what a tab has drafted or has still to open is on the log,
and what it is about to save is longer than what its device has (`Sound`); and of the tabs of a
device only one is between a commit and saving it (`Locked`), without which another tab could put
something longer in between. A commit is accepted only if it is one longer than the log, and what it
was made on is on the log, so that is the log's end: the chain goes on (`LogAppended`). A step that
reads a state it has taken from the log earlier is safe because the log only grows (`StaysOnLog`).
What is at epoch 0 is on no log and is excluded from `OneLog`: that is where two creations differ.

`LeaderProofs` proves, for any finite set of tabs and any number of requests of each:

| Theorem | Statement |
|---|---|
| `TypeCorrect` | `Spec => []TypeOK` |
| `StaysInElection` | `Spec => []InElection` |
| `FormerLeadersStop` | `Spec => []FormerLeaderStops` |

The inductive invariant relates the tabs to the lock manager: the queue has the requests that are queued and
no others (`QueueInv`), the holder is the one request that is held (`HolderInv`), and of each tab
(`TabInv`) every request and the variables that point at it fit (`Sound`), the request in hand is alive or a
timer is to make one (`InHand`), and a loop that runs without the lock was told (`InTheRace`). A steal
changes the request of one tab by a step of another, which is why the parts about the lock manager are
needed.

`HubChannelProofs` proves, from `HubAssumptions` and `Races = {}`:

| Theorem | Statement |
|---|---|
| `NothingMissed` | `Races = {} => (Spec => []NothingIsPassedOver)` |
| `RemovedAndPassed` | `Races = {} => (Spec => []PassedIsRemoved)` |

A page in hand is what lies after the mark it was asked with, whole or up to its last row (`PageInv`, for
every loop): so the greatest of the marks passes nothing, though loops may put it back. For removals, all
that an event mark has passed has been acted on (`AllDone`), as has what is older than a page of events,
and what a sweep has read is what its page says (`SweepInv`).

`SyncProofs` proves of the two loops that must not forget anything, from `SyncAssumption` (`None` is no socket)
and `CallAssumption` (`None` is no call and no command):

| Theorem | Statement |
|---|---|
| `NeverLost` | `SyncLoop`: `Spec => []NothingIsSlept` |
| `OneSocketAtATime` | `SyncLoop`: `Spec => []OneSocket` |
| `PagesCall` | `ShellCall` with `InOrder`: `Spec => []CallIsThePages` |
| `OwnTouch` | `ShellCall` with `InOrder`: `Spec => TouchesItsOwn` |
| `SyncHolds` | `SyncSpec =>` all four |

That a sleeping loop has nothing to do follows from what the latch keeps while it is awake (`LatchInv`): news
that was told is in front of a phase of this pass that takes it, or its poke is kept for the next. A manager of
sockets that is not stopped has a socket or a timer, not both (`ManagerInv`); every method is shown to keep
that once, and the actions cite it.
In the shell, a connect that goes on has the claim and finds nothing stored (`ShellInv`). For each call of this
page, the page has it, or its hang-up is on its way, or its connect was cancelled (`OwnInv`); a hang-up that has
not begun will find the call it was sent for, or none (`HangUpInv`), which is where the order of commands is
needed; and a call of the page before is found by the check that runs, was missed by the last (after which
there is another), or is being dropped (`FoundInv`).

`DeviceProofs` proves of the device, from `MicAssumption` (calls and commands are numbers, in the order they
begin) and `VideoAssumption` (`None` is no command and no record of one, and no camera is named as the mark
for "unasked"):

| Theorem | Statement |
|---|---|
| `OneKey`, `CodeOpens` | `AccountKeys` without its `Races`: `Spec => []RowIsOneKey`, `[]WrittenCodeOpens` |
| `OwnDevice`, `KeychainLetsGo` | `Session` without its `LateRaces`: `Spec => []DeviceIsItself`, `Spec => EndsOnce /\ []KeychainForgets` (the keychain's half: no restore brings an ended session back) |
| `DarkMicrophone`, `TrueButton`, `HeardMicrophone` | `Races = {} => (Spec => []DarkWhenClosed)`, `[]ButtonIsTrue`, `[]OpenIsHeard` of `ShellMic` |
| `NoneRunsOn`, `ButtonsShow` | `ShellVideo` without its `VideoRaces`: `Spec => []NothingRunsOn`, `[]ShownIsSent` |
| `DarkDevice` | `Races = {} => (DeviceSpec => []NothingRunsOn)`, the microphone and the rest |
| `DeviceShows` | `DeviceSpec => []ShownIsSent` |
| `DeviceHolds` | `DeviceSpec =>` what is said of the keys and the session |

* Keys (`KeysInv`, `CodeInv`): what a device is about to put was made from the row as it is now, or is a new key
  altogether, though other devices put theirs in between (`Fits`). A code that is the row's was shown, is to be
  shown, or is lost.
* Session (`SessionInv`): while a page is signing in nobody else is in; keychain and localStorage agree, but for a
  profile that was evicted and is not open again; and the one device row that is not revoked is the one the
  profile keeps, or the one a page is just being told of (`AliveInv`).
* Microphone (`MicInv`): the shell has no number the page did not give (`NumbersInv`); what a command has read of
  its call is so when it acts (`CommandsInv`); once the latest command has ended the microphone is as it
  says, and once it has been answered the page shows that or is to hear of what changed since (`AnswersInv`); an
  open microphone that is silent has a look of `recheck_microphone` to come that starts it (`HeardInv`).
* Camera and share (`VideoInv`): whatever is lit or loud is in the state, in a teardown, or in the hands of a
  command, told step by step (`LitBy`, `LoudBy`). This needs that a command puts what it opened where there
  is nothing (`StateInv`), and that in turn that the commands of the camera go one by one and the others give
  way to the latest (`OrdersInv`).
* Their buttons (`SettledInv`, beside `VideoInv`): `ShownIsSent` speaks of rest, so the invariant says what is true
  on the way there. The page's tickets point at the latest command it waits for (`TicketsInv`); the queue of
  the camera is in the order the page asked (`QueueInv`), so that whoever runs first can only have been overtaken by
  one that is behind it. A command of the camera that ends as the one asked for last leaves the camera as its
  answer says (`CamTicketInv`), which needs what each step finds: a device that is about to open goes with no
  publication or into the one there is, and the last one asked for is never the one that shuts (`RunInv`). A camera
  that is muted and captures, or a button that is wrong with no request in flight, is only there while the pump
  has a change to handle (`SeenInv`, `ButtonInv`): this is what a mute by the SFU rests on. The share has one
  request at a time, which is the latest whenever a call is up, and a sound without a picture is there only while
  that request stores the picture (`ScrTicketInv`, `ScreenInv`).

`CallProofs` proves of a call, from `SessionAssumption` (`None` is no conversation, join or teardown):

| Theorem | Statement |
|---|---|
| `OverStaysOver` | `PhoneRing`: `Spec => []NoGhostRing` |
| `NoPressIsLost` | `PhoneRing`: `Spec => []PressIsCarried` |
| `OneThingRings` | `PhoneRing`, with `Orderly`: `Spec => []RingsOnce` |
| `NoRoomIsLeftOpen` | `VoiceSession` without `Hasty`: `Spec => []CallIsHeld` |
| `RowsAreTrue` | `VoiceSession` without `Hasty`: `Spec => []RowIsTrue` |
| `TrueSwitch` | `NativePush` without its `PushRaces`: `Spec => []SwitchIsTrue` |
| `CallHolds` | `CallSpec =>` all but `RingsOnce` |
| `CallRingsOnce` | with `Orderly`: `CallSpec => []RingsOnce` |

The first two hold with every order of `PhoneRing`'s constants. `RingsOnce` has the hypotheses of the run
(`Orderly`: the answer to a report is heard before the events after it, no push comes once the page has the
ring, no read of the calls was under way when the call began), as without each of them there is a moment in
which two things ring, or none. Its invariant, `RingInv`, says for every step what the page will believe once it has
heard all that is on its way to it: the last event, else the answer to its report, else what it heard last (`Final`,
`Belief`). As long as the ring goes on, that is so on the phone (`Believed`): the notification is on the shade,
or the plugin has withdrawn it for the page and will show it when the app leaves the front, or it never had the
ring. That a call is reported once (`Reported`), and that every end has a reason (`ReasonInv`, `ListInv`), carry it.

The two of the session speak of rest, and `SessInv` says for every step between who answers for what. The attempt, the transport and the watch belong to
one join, and a teardown has taken them away (`AttemptInv`, `ShownInv`). The lock is the page's from the grant
to the end of the teardown, and a switch of engines hands it to the join it begins (`LockInv`). An open room is
the transport's, or a join that found itself overtaken, or a teardown, is about to close it (`RoomInv`). Joins
that were overtaken and still run are of other conversations than whatever runs beside them (`StrayInv`),
which is what leaving out `Hasty` gives; otherwise the late leave of one could count out another. A row the
device is not in has somebody who will tell, a room whose departure is to come, a follow-up, or is the sweep's
(`RowInv`). The last is said only of what was really lost, so it needs who else would have told at the moment of
the loss: a join that was overtaken has told, is the sweep's, or had a room (`TakenUp`), and a teardown that drops
no open room knows its call (`DropInv`).

Of push, `PushInv` says: a row too many is owed, or a job is about to remove it or to keep it; a row too few was
never told of, or is being taken back (`OwedInv`). This rests on what two jobs never do at once (`SwitchInv`).

Only model-checked:

* liveness (`Settles`, `ChannelsFlowOn`, `SharedBecomesReadable`, `SomebodySyncs`, `Converges`, `EndedLeaves`,
  `Delivered`, `ConnectsAgain`, `FoundOrClosed`, `ReadToTheEnd`), as liveness under fairness is out of the prover's
  reach.

## What is not modelled

* Cryptography, encodings and what MLS guarantees. A payload is sealed under a key that is current
  or is not; a wrap opens with its secret.
* The server beyond what a client can see of it.
* The rotation and backfill of history keys, the stock of key packages, noted commits and cool-downs; the
  keychain's copy of the account's pair.
* `Converges` is claimed only where somebody who is in the group remains (`Orphaned`) and nobody is
  stranded. Without the first it fails: the last member may leave before it has published
  the state of its last commit, and if its welcome does not open, everybody waits for a member.
* CallKit and the service of a running call; tiles and subscriptions; the browser's media transport; epoch keys
  during a call; the roster.
* Web push, what is shown for which message, own status and idle detection.
* The UI (`ui/*.tsx`: some twenty thousand lines), the HTTP client's paths and encodings, the development
  tools, and the window code of the shells: they render or pass on what the stores hold. The modules cover
  the parts of them that keep a protocol: `Chat.tsx`'s jump, `Login.tsx`, `VerifyGate.tsx`, `Settings.tsx`
  where they answer late. This is why the map covers about an eighth of the implementation's lines: the
  rest is mostly layout, and a model of it would say nothing.

## Plan

1. `HistoryKeys`: the rotation at the end of a sweep and the backfill, with a rotated key lost before it is
   saved; noted commits and cool-downs; leaves as they are reused, for the indexes that a removal names.
2. Own status (relayed refetches) and the shared clock of `sync/idle.ts`.
3. CallKit's ring beside Android's; the native engine's switch to the browser's during a call.
4. Pure rules worth a reference definition: `planJoin`, `planReconcile`, `settlePendingDecrypts`.
