------------------------------ MODULE MlsGroup ------------------------------
(***************************************************************************)
(* The MLS group of one conversation: how the devices of its members       *)
(* create it, join it, add and remove each other, and follow each other's  *)
(* commits (sync/mls.ts, sync/join-plan.ts, crypto/mls.ts).                *)
(*                                                                         *)
(* The server orders the commits, and does nothing else about them: it     *)
(* takes a commit for epoch n + 1 when it has n, whoever sends it.  What a *)
(* device has is known to it alone.  So whether two devices at one epoch   *)
(* are in the same group is up to the devices.                             *)
(*                                                                         *)
(* The state of a group is the sequence of the commits that led to it, the *)
(* first being its creation: two states are the same when their histories  *)
(* are, which is what the transcript hash of MLS makes of a state.         *)
(***************************************************************************)
EXTENDS Integers, Sequences, SequencesExt, FiniteSetsExt

CONSTANTS
  Device,      \* devices, by their ids
  Tab,         \* the tabs that sweep; after a steal two may be of one device
  Of,          \* whose tab it is
  MaxChanges,  \* bound on comings and goings of devices
  MaxTrouble,  \* bound on failed requests, welcomes that do not open, reloads
  MaxLost,     \* bound on accepted commits that are not saved
  MaxEpoch     \* bound on the length of the log

ASSUME MlsGroupAssumption ==
  /\ Device \subseteq Nat
  /\ Of \in [Tab -> Device]
  /\ {MaxChanges, MaxTrouble, MaxLost, MaxEpoch} \subseteq Nat

VARIABLES
  roster,     \* server: the devices of the members
  log,        \* server: what each commit it took made of the group
  published,  \* server: the GroupInfo, None when there is none
  welcomes,   \* server and key packages: the welcomes that can be opened
  held,       \* held[d]: the state in d's database, None when there is none
  at,         \* at[t]: how far the sweep of t is, and its local variables
  gone,       \* gone[t]: the conversation is among its #goneConversations
  changes, trouble, lost

server == <<roster, log, published, welcomes>>
budgets == <<changes, trouble, lost>>
vars == <<server, held, at, gone, budgets>>

-----------------------------------------------------------------------------
(* States of a group                                                        *)

None == <<>>
Epoch(g) == Len(g) - 1

(* [by, add, rem, ext]: a commit by a member, or one by a device that joins
   by itself (ext), which in the resync form also removes the leaf it left. *)
Commit == [by : Device, add : SUBSET Device, rem : SUBSET Device, ext : BOOLEAN]
Group == Seq(Commit)

Members(g) ==
  {d \in Device : \E i \in DOMAIN g :
     d \in g[i].add /\ \A j \in i+1..Len(g) : d \notin g[j].rem}

Created(d) == <<[by |-> d, add |-> {d}, rem |-> {}, ext |-> FALSE]>>

Joined(g, d) ==
  Append(g, [by |-> d, add |-> {d}, rem |-> {d} \cap Members(g), ext |-> TRUE])

Changed(g, d, add, rem) ==
  Append(g, [by |-> d, add |-> add, rem |-> rem, ext |-> FALSE])

(* A commit that removes, or joins, renews the keys on the committer's path,
   sealed to everybody but the committer. *)
RenewsPath(c) == c.ext \/ c.rem # {}

(* Can d, with the state `from`, process the commit that made `to`? *)
Applies(from, to, d) ==
  /\ from # None
  /\ Front(to) = from
  /\ ~(Last(to).by = d /\ RenewsPath(Last(to)))

-----------------------------------------------------------------------------
(* A sweep: `seen` is the answer of fetchRecipients, `epoch` its localEpoch,
   `upto` the last commit it has fetched, `opening` the welcomes it has still
   to open, `adding` and `removing` what it will commit, `draft` the state it
   joins from or has had accepted, `announced` publishedThisPass, `next` the
   step after a publish, `repair` that the outbox asked for it.             *)

Steps == {"idle", "drain", "ask", "plan", "create", "info", "join", "persist",
          "publish", "fetch", "apply", "forget", "compare", "add", "remove"}

Idle == [step |-> "idle", seen |-> [epoch |-> 0, info |-> None, roster |-> {}],
         epoch |-> 0, upto |-> 0, opening |-> {}, adding |-> {}, removing |-> {},
         draft |-> None, announced |-> FALSE, next |-> "idle", repair |-> FALSE]

Welcome == [to : Device, group : Group]

SweepType ==
  [step : Steps, seen : [epoch : Nat, info : Group, roster : SUBSET Device],
   epoch : Nat, upto : Nat, opening : SUBSET Welcome,
   adding : SUBSET Device, removing : SUBSET Device, draft : Group,
   announced : BOOLEAN, next : {"idle", "compare", "fetch", "remove", "close"},
   repair : BOOLEAN]

Init ==
  /\ roster \in SUBSET Device
  /\ log = <<>> /\ published = None /\ welcomes = {}
  /\ held = [d \in Device |-> None]
  /\ at = [t \in Tab |-> Idle]
  /\ gone = [t \in Tab |-> FALSE]
  /\ changes = 0 /\ trouble = 0 /\ lost = 0

At(t, s) == at[t].step = s
Rest(t) == at' = [at EXCEPT ![t] = Idle]
IsCurrent(answer) == answer.info # None /\ Epoch(answer.info) = answer.epoch

(* mutant: nobody publishes what a committer could not. *)
NoHealing(r) == Idle

(* The end of sweep r: the self-heal of a GroupInfo that is behind. *)
Closing(r) ==
  IF ~r.announced /\ r.epoch = r.seen.epoch /\ ~IsCurrent(r.seen)
  THEN [r EXCEPT !.step = "publish", !.next = "close", !.announced = TRUE]
  ELSE Idle

Resume(r, s) ==
  IF s = "close" \/ (s = "remove" /\ r.removing = {}) THEN Closing(r)
  ELSE [r EXCEPT !.step = s]

GoOn(t, s) == at' = [at EXCEPT ![t] = Resume(@, s)]

(* withGroupLock: a commit holds the lock of the device's tabs until the state
   that it made is saved. *)
LockFree(t) == \A u \in Tab : u # t /\ Of[u] = Of[t] => ~At(u, "persist")

Served(t) == Of[t] \in roster

(* The next thing is a request about the conversation. *)
Asks(t) ==
  \/ at[t].step \in {"ask", "info", "fetch"}
  \/ At(t, "join") /\ LockFree(t) /\ held[Of[t]] = None
  \/ At(t, "add") /\ LockFree(t) /\ held[Of[t]] # None
  \/ /\ At(t, "remove") /\ LockFree(t)
     /\ at[t].removing \subseteq Members(held[Of[t]])

(* 404.  The sweep notes it; the repair of the outbox only warns. *)
NotServed(t) ==
  /\ Asks(t) /\ ~Served(t)
  /\ gone' = IF at[t].repair THEN gone ELSE [gone EXCEPT ![t] = TRUE]
  /\ Rest(t)
  /\ UNCHANGED <<server, held, budgets>>

-----------------------------------------------------------------------------
(* The tick: welcomes, then the conversation                                *)

FetchWelcomes(t) ==
  LET mine == {w \in welcomes : w.to = Of[t]} IN
  /\ At(t, "idle")
  /\ at' = [at EXCEPT ![t].opening = mine,
                      ![t].step = IF mine # {} THEN "drain"
                                  ELSE IF gone[t] THEN "idle" ELSE "ask"]
  /\ UNCHANGED <<server, held, gone, budgets>>

(* mutant: a welcome is always the newest thing there is. *)
WelcomeWins(t) ==
  /\ At(t, "drain") /\ LockFree(t)
  /\ \E w \in at[t].opening :
       /\ at' = [at EXCEPT ![t].opening = @ \ {w}]
       /\ welcomes' = welcomes \ {w}
       /\ held' = IF w \in welcomes THEN [held EXCEPT ![Of[t]] = w.group] ELSE held
  /\ UNCHANGED <<roster, log, published, gone, budgets>>

(* The key package is used up whether or not the state is wanted, so that a
   welcome that comes again, not having been acknowledged, opens no more. *)
OpenWelcome(t) ==
  /\ At(t, "drain") /\ LockFree(t)
  /\ \E w \in at[t].opening :
       /\ at' = [at EXCEPT ![t].opening = @ \ {w}]
       /\ welcomes' = welcomes \ {w}
       /\ held' = IF w \in welcomes /\ Epoch(w.group) > Epoch(held[Of[t]])
                  THEN [held EXCEPT ![Of[t]] = w.group] ELSE held
  /\ UNCHANGED <<roster, log, published, gone, budgets>>

(* NOT_IN_GROUP, or the fifth failure: acknowledged unopened. *)
GiveUpWelcome(t) ==
  /\ At(t, "drain") /\ trouble < MaxTrouble
  /\ trouble' = trouble + 1
  /\ \E w \in at[t].opening :
       /\ at' = [at EXCEPT ![t].opening = @ \ {w}]
       /\ welcomes' = welcomes \ {w}
  /\ UNCHANGED <<roster, log, published, held, gone, changes, lost>>

AckWelcomes(t) ==
  /\ At(t, "drain") /\ at[t].opening = {}
  /\ IF gone[t] THEN Rest(t) ELSE GoOn(t, "ask")
  /\ UNCHANGED <<server, held, gone, budgets>>

(* The outbox, a send of which was refused (EPOCH_STALE), reconciles by
   itself, after the welcomes of its pass. *)
Repair(t) ==
  /\ At(t, "idle") /\ Served(t)
  /\ held[Of[t]] # None /\ Epoch(held[Of[t]]) < Len(log)
  /\ at' = [at EXCEPT ![t].step = "ask", ![t].repair = TRUE]
  /\ UNCHANGED <<server, held, gone, budgets>>

FetchRecipients(t) ==
  /\ At(t, "ask") /\ Served(t)
  /\ at' = [at EXCEPT ![t].step = "plan",
                      ![t].seen = [epoch |-> Len(log), info |-> published,
                                   roster |-> roster]]
  /\ UNCHANGED <<server, held, gone, budgets>>

-----------------------------------------------------------------------------
(* No group here: planJoin                                                  *)

Nominated(t) == Of[t] = Min(at[t].seen.roster)

(* A send that waits, or the end of the grace, lets any device create. *)
PlanCreate(t) ==
  /\ At(t, "plan") /\ held[Of[t]] = None
  /\ ~IsCurrent(at[t].seen) /\ at[t].seen.epoch = 0
  /\ GoOn(t, "create")
  /\ UNCHANGED <<server, held, gone, budgets>>

PlanJoin(t) ==
  /\ At(t, "plan") /\ held[Of[t]] = None /\ IsCurrent(at[t].seen)
  /\ GoOn(t, "info")
  /\ UNCHANGED <<server, held, gone, budgets>>

PlanWait(t) ==
  /\ At(t, "plan") /\ held[Of[t]] = None /\ ~IsCurrent(at[t].seen)
  /\ at[t].seen.epoch > 0 \/ ~Nominated(t)
  /\ Rest(t)
  /\ UNCHANGED <<server, held, gone, budgets>>

(* The epoch is 0 for the sweep even if another tab has been here before. *)
CreateGroup(t) ==
  /\ At(t, "create") /\ LockFree(t)
  /\ held' = IF held[Of[t]] = None THEN [held EXCEPT ![Of[t]] = Created(Of[t])]
             ELSE held
  /\ at' = [at EXCEPT ![t].step = "publish", ![t].next = "compare",
                      ![t].epoch = 0, ![t].announced = TRUE]
  /\ UNCHANGED <<server, gone, budgets>>

FetchGroupInfo(t) ==
  /\ At(t, "info") /\ Served(t)
  /\ IF published # None /\ Epoch(published) = at[t].seen.epoch
     THEN at' = [at EXCEPT ![t].step = "join", ![t].draft = published]
     ELSE Rest(t)
  /\ UNCHANGED <<server, held, gone, budgets>>

-----------------------------------------------------------------------------
(* Commits: the server takes the one for the epoch after its own            *)

Wins(g) == Epoch(g) = Len(log) + 1

Accepted(t, g, to, next) ==
  /\ Wins(g) /\ Epoch(g) <= MaxEpoch
  /\ log' = Append(log, g)
  /\ welcomes' = welcomes \cup [to : to, group : {g}]
  /\ at' = [at EXCEPT ![t].step = "persist", ![t].draft = g, ![t].next = next]

(* joinExternal: a welcome, or another tab, may have been faster. *)
JoinExternal(t) ==
  LET d == Of[t]  g == Joined(at[t].draft, d) IN
  /\ At(t, "join") /\ LockFree(t)
  /\ \/ /\ held[d] # None
        /\ at' = [at EXCEPT ![t].step = "publish", ![t].epoch = Epoch(held[d]),
                            ![t].announced = TRUE, ![t].draft = None,
                            ![t].next = IF at[t].seen.epoch > Epoch(held[d])
                                        THEN "fetch" ELSE "compare"]
        /\ UNCHANGED <<log, welcomes>>
     \/ held[d] = None /\ Served(t) /\ Accepted(t, g, {}, "compare")
     \/ held[d] = None /\ Served(t) /\ ~Wins(g) /\ Rest(t) /\ UNCHANGED <<log, welcomes>>
  /\ UNCHANGED <<roster, published, held, gone, budgets>>

(* mutant: the state of a commit is kept although another one won. *)
AddRegardless(t) ==
  LET d == Of[t]  g == Changed(held[d], d, at[t].adding, {}) IN
  /\ At(t, "add") /\ LockFree(t) /\ held[d] # None /\ Served(t)
  /\ \/ Accepted(t, g, at[t].adding, "remove")
     \/ /\ ~Wins(g)
        /\ at' = [at EXCEPT ![t].step = "persist", ![t].draft = g, ![t].next = "remove"]
        /\ UNCHANGED <<log, welcomes>>
  /\ UNCHANGED <<roster, published, held, gone, budgets>>

CommitAdd(t) ==
  LET d == Of[t]  g == Changed(held[d], d, at[t].adding, {}) IN
  /\ At(t, "add") /\ LockFree(t)
  /\ \/ held[d] = None /\ Rest(t) /\ UNCHANGED <<log, welcomes>>
     \/ held[d] # None /\ Served(t) /\ Accepted(t, g, at[t].adding, "remove")
     \/ held[d] # None /\ Served(t) /\ ~Wins(g) /\ GoOn(t, "remove")
        /\ UNCHANGED <<log, welcomes>>
  /\ UNCHANGED <<roster, published, held, gone, budgets>>

(* A leaf that is not there any more cannot be removed: createCommit throws. *)
CommitRemove(t) ==
  LET d == Of[t]  g == Changed(held[d], d, {}, at[t].removing) IN
  /\ At(t, "remove") /\ LockFree(t)
  /\ IF at[t].removing \subseteq Members(held[d])
     THEN /\ Served(t)
          /\ \/ Accepted(t, g, {}, "close")
             \/ ~Wins(g) /\ GoOn(t, "close") /\ UNCHANGED <<log, welcomes>>
     ELSE Rest(t) /\ UNCHANGED <<log, welcomes>>
  /\ UNCHANGED <<roster, published, held, gone, budgets>>

(* Only now, with the lock held since before the commit was made. *)
Persist(t) ==
  /\ At(t, "persist")
  /\ held' = [held EXCEPT ![Of[t]] = at[t].draft]
  /\ at' = [at EXCEPT ![t].step = "publish", ![t].draft = None, ![t].announced = TRUE,
                      ![t].epoch = IF at[t].next = "compare" THEN Epoch(at[t].draft)
                                   ELSE @]
  /\ UNCHANGED <<server, gone, budgets>>

(* The answer does not come, or the tab goes, before the state is saved. *)
Lose(t) ==
  /\ At(t, "persist") /\ lost < MaxLost
  /\ lost' = lost + 1
  /\ Rest(t)
  /\ UNCHANGED <<server, held, gone, changes, trouble>>

PublishGroupInfo(t) ==
  /\ At(t, "publish") /\ LockFree(t)
  /\ published' = IF Served(t) /\ held[Of[t]] # None /\ Epoch(held[Of[t]]) >= Epoch(published)
                  THEN held[Of[t]] ELSE published
  /\ GoOn(t, at[t].next)
  /\ UNCHANGED <<roster, log, welcomes, held, gone, budgets>>

(* Best effort: the sweep goes on without it. *)
PublishFails(t) ==
  /\ At(t, "publish") /\ trouble < MaxTrouble
  /\ trouble' = trouble + 1
  /\ GoOn(t, at[t].next)
  /\ UNCHANGED <<server, held, gone, changes, lost>>

-----------------------------------------------------------------------------
(* A group here: catch up, then compare                                     *)

LocalEpoch(t) ==
  LET e == Epoch(held[Of[t]]) IN
  /\ At(t, "plan") /\ held[Of[t]] # None
  /\ at' = [at EXCEPT ![t].epoch = e,
                      ![t].step = IF at[t].seen.epoch > e THEN "fetch" ELSE "compare"]
  /\ UNCHANGED <<server, held, gone, budgets>>

FetchCommits(t) ==
  /\ At(t, "fetch") /\ Served(t)
  /\ IF Len(log) > at[t].epoch
     THEN at' = [at EXCEPT ![t].step = "apply", ![t].upto = Len(log)]
     ELSE GoOn(t, "compare")
  /\ UNCHANGED <<server, held, gone, budgets>>

ApplyCommit(t) ==
  LET d == Of[t]  e == at[t].epoch  g == log[e + 1] IN
  /\ At(t, "apply") /\ LockFree(t)
  /\ \/ /\ Applies(held[d], g, d) /\ d \in Members(g)
        /\ held' = [held EXCEPT ![d] = g]
        /\ at' = [at EXCEPT ![t].epoch = Epoch(g),
                            ![t].step = IF Epoch(g) < at[t].upto THEN "apply" ELSE "fetch"]
     \/ /\ Applies(held[d], g, d) /\ d \notin Members(g)
        /\ held' = [held EXCEPT ![d] = None]
        /\ Rest(t)
     \/ /\ ~Applies(held[d], g, d)
        /\ IF held[d] # None /\ e = 0 THEN GoOn(t, "forget") ELSE Rest(t)
        /\ UNCHANGED held
  /\ UNCHANGED <<server, gone, budgets>>

ForgetGroup(t) ==
  /\ At(t, "forget") /\ LockFree(t)
  /\ held' = [held EXCEPT ![Of[t]] = None]
  /\ Rest(t)
  /\ UNCHANGED <<server, gone, budgets>>

(* Some devices may have no key package left. *)
Compare(t) ==
  LET inGroup == Members(held[Of[t]])
      toAdd == at[t].seen.roster \ inGroup
      toRemove == (inGroup \ at[t].seen.roster) \ {Of[t]} IN
  /\ At(t, "compare")
  /\ \E usable \in SUBSET toAdd :
       at' = [at EXCEPT ![t] = Resume([@ EXCEPT !.adding = usable, !.removing = toRemove],
                                      IF usable = {} THEN "remove" ELSE "add")]
  /\ UNCHANGED <<server, held, gone, budgets>>

-----------------------------------------------------------------------------
(* What comes from outside                                                  *)

(* A request fails, the pass is aborted, or the tab is closed or reloaded
   (reset(), and the maps of a page begin empty). *)
Fail(t) ==
  /\ ~At(t, "idle") /\ ~At(t, "persist") /\ trouble < MaxTrouble
  /\ trouble' = trouble + 1
  /\ Rest(t)
  /\ UNCHANGED <<server, held, gone, changes, lost>>

Reload(t) ==
  /\ ~At(t, "persist") /\ gone[t] /\ trouble < MaxTrouble
  /\ trouble' = trouble + 1
  /\ gone' = [gone EXCEPT ![t] = FALSE]
  /\ Rest(t)
  /\ UNCHANGED <<server, held, changes, lost>>

Come(d) ==
  /\ d \notin roster /\ changes < MaxChanges
  /\ changes' = changes + 1
  /\ roster' = roster \cup {d}
  /\ UNCHANGED <<log, published, welcomes, held, at, gone, trouble, lost>>

Leave(d) ==
  /\ d \in roster /\ changes < MaxChanges
  /\ changes' = changes + 1
  /\ roster' = roster \ {d}
  /\ UNCHANGED <<log, published, welcomes, held, at, gone, trouble, lost>>

-----------------------------------------------------------------------------

Sweep(t) ==
  \/ FetchWelcomes(t) \/ OpenWelcome(t) \/ GiveUpWelcome(t) \/ AckWelcomes(t)
  \/ Repair(t) \/ FetchRecipients(t) \/ NotServed(t)
  \/ PlanCreate(t) \/ PlanJoin(t) \/ PlanWait(t) \/ CreateGroup(t)
  \/ FetchGroupInfo(t) \/ JoinExternal(t) \/ CommitAdd(t) \/ CommitRemove(t)
  \/ Persist(t) \/ Lose(t) \/ PublishGroupInfo(t) \/ PublishFails(t)
  \/ LocalEpoch(t) \/ FetchCommits(t) \/ ApplyCommit(t) \/ ForgetGroup(t)
  \/ Compare(t) \/ Fail(t) \/ Reload(t)

Next ==
  \/ \E t \in Tab : Sweep(t)
  \/ \E d \in Device : Come(d) \/ Leave(d)

Spec == Init /\ [][Next]_vars

(* A sweep goes on when it can.  Every pass starts with the welcomes (what
   Repair does comes after), the grace of planJoin runs out, and devices put
   up new key packages, so that now and then none is missing. *)
Proceed(t) ==
  \/ FetchWelcomes(t) \/ OpenWelcome(t) \/ AckWelcomes(t)
  \/ FetchRecipients(t) \/ NotServed(t)
  \/ PlanCreate(t) \/ PlanJoin(t) \/ PlanWait(t) \/ CreateGroup(t)
  \/ FetchGroupInfo(t) \/ JoinExternal(t) \/ CommitAdd(t) \/ CommitRemove(t)
  \/ Persist(t) \/ PublishGroupInfo(t)
  \/ LocalEpoch(t) \/ FetchCommits(t) \/ ApplyCommit(t) \/ ForgetGroup(t)
  \/ Compare(t)

AddsAll(t) ==
  Compare(t) /\ at[t].seen.roster \subseteq at'[t].adding \cup Members(held[Of[t]])

LiveSpec ==
  /\ Spec
  /\ \A t \in Tab :
       /\ WF_vars(Proceed(t))
       /\ SF_vars(FetchWelcomes(t))
       /\ SF_vars(PlanCreate(t))
       /\ SF_vars(AddsAll(t))

-----------------------------------------------------------------------------
(* Properties                                                               *)

(* The variables have their types, and a sweep that applies commits has one
   left of those it fetched: the loop of #applyCommits neither runs past the
   answer nor takes a commit twice. *)
TypeOK ==
  /\ roster \subseteq Device
  /\ log \in Seq(Group) /\ Len(log) <= MaxEpoch
  /\ published \in Group
  /\ welcomes \subseteq Welcome
  /\ held \in [Device -> Group]
  /\ at \in [Tab -> SweepType]
  /\ \A t \in Tab :
       /\ At(t, "apply") => at[t].epoch < at[t].upto /\ at[t].upto <= Len(log)
       /\ at[t].step \in {"join", "persist"} <=> at[t].draft # None
  /\ gone \in [Tab -> BOOLEAN]
  /\ changes \in 0..MaxChanges /\ trouble \in 0..MaxTrouble /\ lost \in 0..MaxLost

(* The state of a group that has had a commit is the one the log names. *)
OnLog(g) == Epoch(g) > 0 => Epoch(g) <= Len(log) /\ g = log[Epoch(g)]

(* There is one group: each commit on the server was made on the state that
   the one before it left, and past the creation no device holds, publishes
   or sends a welcome to anything else, however many groups were created at
   once and whoever lost a race ("a commit the server rejected must never
   advance local state", crypto/mls.ts:29). *)
OneLog ==
  /\ \A i \in 1..Len(log) : Epoch(log[i]) = i
  /\ \A i \in 2..Len(log) : Front(log[i]) = log[i - 1]
  /\ \A d \in Device : OnLog(held[d])
  /\ OnLog(published)
  /\ \A w \in welcomes : OnLog(w.group)

(* "Never roll backwards" (crypto/mls.ts:491): a device that has a state
   replaces it by a later one or gives it up, so that what it could read and
   what it has sent stays within what it knows. *)
NeverRollsBack ==
  [][\A d \in Device : held[d] # None /\ held'[d] # None =>
       held'[d] = held[d] \/ Epoch(held'[d]) > Epoch(held[d])]_vars

(* A device behind a commit that it cannot apply, its own, while no tab of it
   is about to save what that made.  (At epoch 0 it forgets its state.) *)
Stranded(d) ==
  LET e == Epoch(held[d]) IN
  /\ 0 < e /\ e < Len(log)
  /\ Last(log[e + 1]).by = d /\ RenewsPath(Last(log[e + 1]))
  /\ \A t \in Tab : Of[t] = d => ~At(t, "persist")

(* To be "one epoch behind a commit it can never apply -- its own"
   (crypto/mls.ts:495) is not how a device ends up. *)
NotStrandedForGood == \A d \in Device : []<>~Stranded(d)

(* The devices that are served and whose tabs know it. *)
Following == {d \in roster : \A t \in Tab : Of[t] = d => ~gone[t]}

(* Commits were made, and none of these devices is in the group. *)
Orphaned == log # <<>> /\ \A d \in Following : held[d] = None

Converged ==
  \A d \in Following :
    /\ held[d] # None /\ Members(held[d]) = roster
    /\ \A e \in Following : held[e] = held[d]

(* Once nobody comes or goes any more, all devices end up in one state of one
   group, whose members are those the server lists: whatever was created
   twice, lost a race or missed a commit heals (sync/join-plan.ts:28).  This
   takes somebody in the group to heal it, and nobody stranded. *)
Converges ==
  <>[](~Orphaned /\ \A d \in Device : ~Stranded(d)) => <>[]Converged

=============================================================================
