--------------------------- MODULE MlsGroupProofs ---------------------------
(***************************************************************************)
(* Theorems about MlsGroup, for any devices, any number of tabs of each and *)
(* any bounds: there is one group, and a device does not go back in it.     *)
(***************************************************************************)
EXTENDS MlsGroup, TLAPS, SequenceTheorems

(* A group is empty just when it is None. *)
LEMMA GroupSize ==
  ASSUME NEW g \in Group
  PROVE  Len(g) \in Nat /\ (g = None <=> Len(g) = 0)
BY DEF Group, None

(* A commit makes a group one longer, whose front is what it was made on. *)
LEMMA Extends ==
  ASSUME NEW g \in Group, NEW c \in Commit
  PROVE  /\ Append(g, c) \in Group
         /\ Len(Append(g, c)) = Len(g) + 1
         /\ Front(Append(g, c)) = g
<1>1. Append(g, c) \in Group /\ Len(Append(g, c)) = Len(g) + 1
  BY DEF Group
<1>2. Front(Append(g, c)) = g
  BY <1>1 DEF Group, Front
<1> QED BY <1>1, <1>2

(* The three kinds of commit. *)
LEMMA CreatedIs ==
  ASSUME NEW d \in Device
  PROVE  Created(d) \in Group /\ Len(Created(d)) = 1 /\ Created(d) # None
BY DEF Created, Group, Commit, None

LEMMA JoinedIs ==
  ASSUME NEW g \in Group, NEW d \in Device
  PROVE  /\ Joined(g, d) \in Group /\ Len(Joined(g, d)) = Len(g) + 1
         /\ Front(Joined(g, d)) = g
<1>1. [by |-> d, add |-> {d}, rem |-> {d} \cap Members(g), ext |-> TRUE] \in Commit
  BY DEF Commit
<1> QED BY <1>1, Extends DEF Joined

LEMMA ChangedIs ==
  ASSUME NEW g \in Group, NEW d \in Device,
         NEW add \in SUBSET Device, NEW rem \in SUBSET Device
  PROVE  /\ Changed(g, d, add, rem) \in Group
         /\ Len(Changed(g, d, add, rem)) = Len(g) + 1
         /\ Front(Changed(g, d, add, rem)) = g
<1>1. [by |-> d, add |-> add, rem |-> rem, ext |-> FALSE] \in Commit
  BY DEF Commit
<1> QED BY <1>1, Extends DEF Changed

(* What a device can process is one commit ahead of what it has. *)
LEMMA AppliesAhead ==
  ASSUME NEW from \in Group, NEW to \in Group, NEW d \in Device,
         to # None, Applies(from, to, d)
  PROVE  Len(to) = Len(from) + 1
<1>1. Len(to) \in Nat /\ Len(to) # 0
  BY GroupSize
<1>2. \A i \in 1 .. Len(to) - 1 : to[i] \in Commit
  BY <1>1 DEF Group
<1>3. Len(SubSeq(to, 1, Len(to) - 1)) = Len(to) - 1
  <2> DEFINE n == Len(to) - 1
  <2>1. n \in Int /\ (1 <= n \/ n = 0)
    <3>1. \A k \in Nat : k # 0 => k - 1 \in Int /\ (1 <= k - 1 \/ k - 1 = 0)
      OBVIOUS
    <3> QED BY <1>1, <3>1
  <2>2. \A i \in 1 .. n : to[i] \in Commit
    BY <1>2
  <2> HIDE DEF n
  <2>3. Len(SubSeq(to, 1, n)) = IF 1 <= n THEN n - 1 + 1 ELSE 0
    BY <2>1, <2>2, SubSeqProperties
  <2>4. Len(SubSeq(to, 1, n)) = n
    BY <2>1, <2>3
  <2> QED BY <2>4 DEF n
<1> QED BY <1>1, <1>3 DEF Applies, Front

-----------------------------------------------------------------------------
(* The inductive invariant                                                  *)

(* Each commit of the log was made on the state that the one before left. *)
Chain ==
  /\ \A i \in 1..Len(log) : Len(log[i]) = i + 1
  /\ \A i \in 2..Len(log) : Front(log[i]) = log[i - 1]

(* At most one tab of a device is between a commit and saving its state. *)
Locked == \A t \in Tab : At(t, "persist") => LockFree(t)

Sent(w) == w.group # None /\ OnLog(w.group)

(* What a tab has in its variables is on the log, and what it is about to save
   is ahead of what its device has. *)
Sound(t) ==
  /\ OnLog(at[t].draft)
  /\ \A w \in at[t].opening : Sent(w)
  /\ At(t, "persist") =>
       Len(at[t].draft) > 1 /\ Len(at[t].draft) > Len(held[Of[t]])

IInv ==
  /\ TypeOK
  /\ Chain
  /\ \A d \in Device : OnLog(held[d])
  /\ OnLog(published)
  /\ \A w \in welcomes : Sent(w)
  /\ Locked
  /\ \A t \in Tab : Sound(t)

(* The bounds are numbers. *)
LEMMA Sizes == MaxChanges \in Nat /\ MaxTrouble \in Nat /\ MaxLost \in Nat /\ MaxEpoch \in Nat
BY MlsGroupAssumption

(* A tab is of some device. *)
LEMMA Owner == ASSUME NEW t \in Tab PROVE Of[t] \in Device
BY MlsGroupAssumption

(* Between two sweeps a tab has nothing in its variables. *)
LEMMA IdleIs == Idle \in SweepType /\ Idle.step = "idle" /\ Idle.draft = None /\ Idle.opening = {}
BY DEF Idle, SweepType, Steps, Group, None, Welcome

(* A sweep that goes on to a step keeps its variables or ends. *)
LEMMA ResumeIs ==
  ASSUME NEW r \in SweepType, NEW s \in Steps \cup {"close"}
  PROVE  /\ Resume(r, s) \in SweepType
         /\ Resume(r, s).step \in {s, "idle", "publish"}
         /\ Resume(r, s).draft \in {r.draft, None}
         /\ Resume(r, s).opening \in {r.opening, {}}
<1>1. CASE s = "close" \/ (s = "remove" /\ r.removing = {})
  <2> DEFINE healing == [r EXCEPT !.step = "publish", !.next = "close", !.announced = TRUE]
  <2>1. Resume(r, s) = Idle \/ Resume(r, s) = healing
    BY <1>1 DEF Resume, Closing
  <2>2. healing \in SweepType
    BY DEF SweepType, Steps
  <2>3. healing.step = "publish" /\ healing.draft = r.draft /\ healing.opening = r.opening
    BY DEF SweepType
  <2> HIDE DEF healing
  <2>4. CASE Resume(r, s) = Idle
    BY <2>4, IdleIs
  <2>5. CASE Resume(r, s) = healing
    BY <2>5, <2>2, <2>3
  <2> QED BY <2>1, <2>4, <2>5
<1>2. CASE ~(s = "close" \/ (s = "remove" /\ r.removing = {}))
  <2> DEFINE next == [r EXCEPT !.step = s]
  <2>1. Resume(r, s) = next /\ s \in Steps
    BY <1>2 DEF Resume
  <2>2. next \in SweepType /\ next.step = s /\ next.draft = r.draft /\ next.opening = r.opening
    BY <2>1 DEF SweepType
  <2> HIDE DEF next
  <2> QED BY <2>1, <2>2
<1> QED BY <1>1, <1>2

(* The log grows at its end. *)
Grows ==
  /\ log' \in Seq(Group) /\ Len(log') <= MaxEpoch
  /\ Len(log) <= Len(log')
  /\ \A i \in 1..Len(log) : log'[i] = log[i]

(* What is on the log stays on it. *)
LEMMA StaysOnLog ==
  ASSUME log \in Seq(Group), Grows, NEW g \in Group, OnLog(g)
  PROVE  OnLog(g)'
<1>1. Len(g) \in Nat
  BY GroupSize
<1>2. Len(log) \in Nat /\ Len(log') \in Nat
  BY DEF Grows
<1>3. SUFFICES ASSUME Epoch(g) > 0 PROVE Epoch(g) <= Len(log') /\ g = log'[Epoch(g)]
  BY DEF OnLog, Epoch
<1>4. Epoch(g) \in 1..Len(log) /\ g = log[Epoch(g)]
  BY <1>1, <1>2, <1>3 DEF OnLog, Epoch
<1> QED BY <1>2, <1>4 DEF Grows

-----------------------------------------------------------------------------
(* Preservation                                                             *)

(* A step of one tab keeps the invariant if it leaves sound what it writes,
   and changes the state of its device only while no other tab has the lock. *)
LEMMA Update ==
  ASSUME IInv, Grows, NEW t \in Tab, NEW r \in SweepType,
         at' = [at EXCEPT ![t] = r],
         roster' \subseteq Device, gone' \in [Tab -> BOOLEAN],
         changes' \in 0..MaxChanges, trouble' \in 0..MaxTrouble, lost' \in 0..MaxLost,
         Chain',
         published' \in Group, OnLog(published)',
         welcomes' \subseteq Welcome, \A w \in welcomes' : Sent(w)',
         held' \in [Device -> Group], \A d \in Device : OnLog(held[d])',
         \A d \in Device : held'[d] # held[d] => d = Of[t] /\ LockFree(t),
         r.step = "apply" => r.epoch < r.upto /\ r.upto <= Len(log'),
         r.step \in {"join", "persist"} <=> r.draft # None,
         OnLog(r.draft)', \A w \in r.opening : Sent(w)',
         r.step = "persist" =>
           /\ LockFree(t)
           /\ Len(r.draft) > 1 /\ Len(r.draft) > Len(held'[Of[t]])
  PROVE  IInv'
<1> USE DEF IInv
<1>1. at' \in [Tab -> SweepType] /\ at'[t] = r /\ \A u \in Tab \ {t} : at'[u] = at[u]
  BY DEF TypeOK
<1>2. TypeOK'
  <2>1. \A u \in Tab : At(u, "apply")' => at'[u].epoch < at'[u].upto /\ at'[u].upto <= Len(log')
    <3> TAKE u \in Tab
    <3>1. CASE u = t
      BY <3>1, <1>1 DEF At
    <3>2. CASE u # t
      <4>1. at'[u] = at[u] /\ at[u] \in SweepType
        BY <1>1, <3>2 DEF TypeOK
      <4>2. Len(log) \in Nat /\ Len(log') \in Nat /\ Len(log) <= Len(log') /\ at[u].upto \in Nat
        BY <4>1, SMTT(20) DEF TypeOK, Grows, SweepType
      <4>3. At(u, "apply") => at[u].epoch < at[u].upto /\ at[u].upto <= Len(log)
        BY DEF TypeOK
      <4> QED BY <4>1, <4>2, <4>3 DEF At
    <3> QED BY <3>1, <3>2
  <2>2. \A u \in Tab : at'[u].step \in {"join", "persist"} <=> at'[u].draft # None
    BY <1>1 DEF TypeOK
  <2> QED BY <1>1, <2>1, <2>2 DEF TypeOK, Grows
<1>3. Locked'
  <2> SUFFICES ASSUME NEW u \in Tab, at'[u].step = "persist",
                      NEW v \in Tab, v # u, Of[v] = Of[u]
               PROVE  at'[v].step # "persist"
    BY DEF Locked, LockFree, At
  <2>1. CASE u = t
    BY <2>1, <1>1 DEF LockFree, At
  <2>2. CASE v = t
    BY <2>2, <1>1 DEF LockFree, At
  <2>3. CASE u # t /\ v # t
    BY <2>3, <1>1 DEF Locked, LockFree, At
  <2> QED BY <2>1, <2>2, <2>3
<1>4. ASSUME NEW u \in Tab PROVE Sound(u)'
  <2>1. CASE u = t
    BY <2>1, <1>1 DEF Sound, At, Sent
  <2>2. CASE u # t
    <3>1. at'[u] = at[u] /\ at[u] \in SweepType /\ Of[u] \in Device
      BY <1>1, <2>2, Owner DEF TypeOK
    <3>2. at[u].draft \in Group /\ \A w \in at[u].opening : w.group \in Group
      BY <3>1 DEF SweepType, Welcome
    <3>3. \A g \in Group : OnLog(g) => OnLog(g)'
      BY StaysOnLog DEF TypeOK
    <3>4. OnLog(at[u].draft)'
      <4>1. OnLog(at[u].draft)
        BY DEF Sound
      <4> QED BY <4>1, <3>1, <3>2, <3>3 DEF OnLog, Epoch
    <3>5. \A w \in at[u].opening : Sent(w)'
      BY <3>2, <3>3 DEF Sound, Sent, OnLog, Epoch
    <3>6. At(u, "persist") => held'[Of[u]] = held[Of[u]]
      BY <2>2, <3>1 DEF LockFree
    <3> QED BY <3>1, <3>4, <3>5, <3>6 DEF Sound, At, OnLog, Epoch, Sent
  <2> QED BY <2>1, <2>2
<1> QED BY <1>2, <1>3, <1>4

(* The same for a step that writes nothing but its variables. *)
LEMMA Local ==
  ASSUME IInv, NEW t \in Tab, NEW r \in SweepType,
         at' = [at EXCEPT ![t] = r],
         UNCHANGED <<roster, log, published, welcomes, held>>, gone' \in [Tab -> BOOLEAN],
         changes' \in 0..MaxChanges, trouble' \in 0..MaxTrouble, lost' \in 0..MaxLost,
         r.step = "apply" => r.epoch < r.upto /\ r.upto <= Len(log),
         r.step \in {"join", "persist"} <=> r.draft # None,
         OnLog(r.draft), \A w \in r.opening : Sent(w),
         r.step # "persist"
  PROVE  IInv'
<1>1. Grows
  BY DEF IInv, TypeOK, Grows
<1>2. \A g : OnLog(g)' <=> OnLog(g)
  BY DEF OnLog, Epoch
<1>3. Chain' /\ OnLog(published)' /\ OnLog(r.draft)' /\ \A d \in Device : OnLog(held[d])'
  BY DEF IInv, Chain, OnLog, Epoch
<1>4. (\A w \in welcomes' : Sent(w)') /\ \A w \in r.opening : Sent(w)'
  BY DEF IInv, Sent, OnLog, Epoch
<1>5. /\ roster' \subseteq Device /\ published' \in Group /\ welcomes' \subseteq Welcome
      /\ held' \in [Device -> Group] /\ log' = log
      /\ \A d \in Device : held'[d] = held[d]
  BY DEF IInv, TypeOK
<1> QED BY <1>1, <1>3, <1>4, <1>5, Update

(* What a step that leaves the budgets alone may take for granted. *)
LEMMA Given ==
  ASSUME IInv
  PROVE  /\ roster \subseteq Device /\ gone \in [Tab -> BOOLEAN]
         /\ changes \in 0..MaxChanges /\ trouble \in 0..MaxTrouble /\ lost \in 0..MaxLost
         /\ log \in Seq(Group) /\ Len(log) \in Nat
         /\ held \in [Device -> Group]
         /\ at \in [Tab -> SweepType]
BY DEF IInv, TypeOK

(* Having no state is a state off no log. *)
LEMMA NoneIs == None \in Group /\ OnLog(None) /\ Len(None) = 0
BY DEF None, Group, OnLog, Epoch

(* Going on keeps a sweep sound. *)
LEMMA Resumed ==
  ASSUME IInv, NEW t \in Tab, at[t].step \notin {"join", "persist"},
         NEW s \in (Steps \ {"join", "persist", "apply"}) \cup {"close"}
  PROVE  /\ Resume(at[t], s) \in SweepType
         /\ Resume(at[t], s).step \notin {"join", "persist", "apply"}
         /\ Resume(at[t], s).draft = None
         /\ \A w \in Resume(at[t], s).opening : Sent(w)
<1>1. at[t] \in SweepType /\ at[t].draft = None /\ \A w \in at[t].opening : Sent(w)
  BY DEF IInv, TypeOK, Sound
<1>2. s \in Steps \cup {"close"}
  OBVIOUS
<1>3. /\ Resume(at[t], s) \in SweepType
      /\ Resume(at[t], s).step \in {s, "idle", "publish"}
      /\ Resume(at[t], s).draft \in {at[t].draft, None}
      /\ Resume(at[t], s).opening \in {at[t].opening, {}}
  BY <1>1, <1>2, ResumeIs
<1> QED BY <1>1, <1>3

(* A step that only goes on keeps the invariant. *)
LEMMA GoesOn ==
  ASSUME IInv, NEW t \in Tab, at[t].step \notin {"join", "persist"},
         NEW s \in (Steps \ {"join", "persist", "apply"}) \cup {"close"}, GoOn(t, s),
         UNCHANGED <<roster, log, published, welcomes, held>>, gone' \in [Tab -> BOOLEAN],
         changes' \in 0..MaxChanges, trouble' \in 0..MaxTrouble, lost' \in 0..MaxLost
  PROVE  IInv'
<1> DEFINE r == Resume(at[t], s)
<1>1. at' = [at EXCEPT ![t] = r]
  BY Given DEF GoOn
<1>2. /\ r \in SweepType /\ r.step \notin {"join", "persist", "apply"} /\ r.draft = None
      /\ \A w \in r.opening : Sent(w)
  BY Resumed
<1>3. OnLog(r.draft)
  BY <1>2, NoneIs
<1> HIDE DEF r
<1> QED BY <1>1, <1>2, <1>3, Local

(* So does one that only ends the sweep. *)
LEMMA Rests ==
  ASSUME IInv, NEW t \in Tab, Rest(t),
         UNCHANGED <<roster, log, published, welcomes, held>>, gone' \in [Tab -> BOOLEAN],
         changes' \in 0..MaxChanges, trouble' \in 0..MaxTrouble, lost' \in 0..MaxLost
  PROVE  IInv'
<1>1. OnLog(Idle.draft) /\ (\A w \in Idle.opening : Sent(w)) /\ at' = [at EXCEPT ![t] = Idle]
  BY IdleIs, NoneIs DEF Rest
<1> QED BY <1>1, IdleIs, Local

-----------------------------------------------------------------------------
(* The steps of a sweep that write its variables only                       *)

(* Fetching, planning, comparing, failing and losing write no shared state. *)
LEMMA LocalSteps ==
  ASSUME IInv, NEW t \in Tab,
         \/ FetchWelcomes(t) \/ AckWelcomes(t) \/ Repair(t) \/ FetchRecipients(t)
         \/ NotServed(t) \/ PlanCreate(t) \/ PlanJoin(t) \/ PlanWait(t)
         \/ FetchGroupInfo(t) \/ Lose(t) \/ PublishFails(t) \/ LocalEpoch(t)
         \/ FetchCommits(t) \/ Compare(t) \/ Fail(t) \/ Reload(t)
  PROVE  IInv'
<1> USE Given DEF server, budgets
<1>0. /\ at[t] \in SweepType /\ OnLog(at[t].draft) /\ (\A w \in at[t].opening : Sent(w))
      /\ Of[t] \in Device
  BY Owner DEF IInv, Sound
<1>d. at[t].step \notin {"join", "persist"} => at[t].draft = None
  BY DEF IInv, TypeOK
<1>1. CASE FetchWelcomes(t)
  <2> DEFINE mine == {w \in welcomes : w.to = Of[t]}
  <2>1. PICK s \in {"drain", "idle", "ask"} :
          at' = [at EXCEPT ![t].opening = mine, ![t].step = s]
    BY <1>1 DEF FetchWelcomes
  <2> DEFINE r == [at[t] EXCEPT !.opening = mine, !.step = s]
  <2>2. mine \subseteq Welcome /\ \A w \in mine : Sent(w)
    BY DEF IInv, TypeOK
  <2> HIDE DEF mine
  <2>3. r \in SweepType /\ r.step = s /\ r.draft = None /\ r.opening = mine
    BY <1>0, <1>d, <1>1, <2>2 DEF FetchWelcomes, At, SweepType, Steps
  <2>4. at' = [at EXCEPT ![t] = r] /\ UNCHANGED <<server, held, gone, budgets>>
    BY <1>1, <2>1 DEF FetchWelcomes
  <2> HIDE DEF r
  <2> QED BY <2>2, <2>3, <2>4, NoneIs, Local
<1>2. CASE AckWelcomes(t)
  <2>1. CASE Rest(t)
    BY <1>2, <2>1, Rests DEF AckWelcomes
  <2>2. CASE GoOn(t, "ask")
    BY <1>2, <2>2, GoesOn DEF AckWelcomes, At, Steps
  <2> QED BY <1>2, <2>1, <2>2 DEF AckWelcomes
<1>3. CASE Repair(t)
  <2> DEFINE r == [at[t] EXCEPT !.step = "ask", !.repair = TRUE]
  <2>1. /\ r \in SweepType /\ r.step = "ask" /\ r.draft = None
        /\ r.opening = at[t].opening
    BY <1>0, <1>d, <1>3 DEF Repair, At, SweepType, Steps
  <2>2. at' = [at EXCEPT ![t] = r] /\ UNCHANGED <<server, held, gone, budgets>>
    BY <1>3 DEF Repair
  <2> HIDE DEF r
  <2> QED BY <1>0, <2>1, <2>2, NoneIs, Local
<1>4. CASE FetchRecipients(t)
  <2> DEFINE answer == [epoch |-> Len(log), info |-> published, roster |-> roster]
  <2> DEFINE r == [at[t] EXCEPT !.step = "plan", !.seen = answer]
  <2>1. answer \in [epoch : Nat, info : Group, roster : SUBSET Device]
    BY DEF IInv, TypeOK
  <2>2. at' = [at EXCEPT ![t] = r] /\ UNCHANGED <<server, held, gone, budgets>>
    BY <1>4 DEF FetchRecipients
  <2> HIDE DEF answer
  <2>3. /\ r \in SweepType /\ r.step = "plan" /\ r.draft = None
        /\ r.opening = at[t].opening
    BY <1>0, <1>d, <1>4, <2>1 DEF FetchRecipients, At, SweepType, Steps
  <2> HIDE DEF r
  <2> QED BY <1>0, <2>2, <2>3, NoneIs, Local
<1>5. CASE NotServed(t)
  BY <1>5, Rests DEF NotServed
<1>6. CASE PlanCreate(t)
  BY <1>6, GoesOn DEF PlanCreate, At, Steps
<1>7. CASE PlanJoin(t)
  BY <1>7, GoesOn DEF PlanJoin, At, Steps
<1>8. CASE PlanWait(t)
  BY <1>8, Rests DEF PlanWait
<1>9. CASE FetchGroupInfo(t)
  <2>1. CASE Rest(t)
    BY <1>9, <2>1, Rests DEF FetchGroupInfo
  <2>2. CASE ~Rest(t)
    <3> DEFINE r == [at[t] EXCEPT !.step = "join", !.draft = published]
    <3>1. at' = [at EXCEPT ![t] = r] /\ published # None
          /\ UNCHANGED <<server, held, gone, budgets>>
      BY <1>9, <2>2 DEF FetchGroupInfo
    <3>2. published \in Group /\ OnLog(published)
      BY DEF IInv, TypeOK
    <3>3. /\ r \in SweepType /\ r.step = "join" /\ r.draft = published
          /\ r.opening = at[t].opening
      BY <1>0, <3>2 DEF SweepType, Steps
    <3> HIDE DEF r
    <3> QED BY <1>0, <3>1, <3>2, <3>3, Local
  <2> QED BY <2>1, <2>2
<1>10. CASE Lose(t)
  <2>1. lost' \in 0..MaxLost
    BY <1>10, Sizes DEF Lose
  <2> QED BY <1>10, <2>1, Rests DEF Lose
<1>11. CASE PublishFails(t)
  <2>1. trouble' \in 0..MaxTrouble
    BY <1>11, Sizes DEF PublishFails
  <2>2. at[t].next \in (Steps \ {"join", "persist", "apply"}) \cup {"close"}
    BY <1>0 DEF SweepType, Steps
  <2>3. at[t].step \notin {"join", "persist"}
    BY <1>11 DEF PublishFails, At
  <2> QED BY <1>11, <2>1, <2>2, <2>3, GoesOn DEF PublishFails
<1>12. CASE LocalEpoch(t)
  <2> DEFINE e == Epoch(held[Of[t]])
  <2>1. e \in Nat
    <3>1. Len(held[Of[t]]) \in Nat /\ Len(held[Of[t]]) # 0
      BY <1>0, <1>12, GroupSize DEF LocalEpoch
    <3>2. \A k \in Nat : k # 0 => k - 1 \in Nat
      OBVIOUS
    <3> QED BY <3>1, <3>2 DEF Epoch
  <2>2. PICK s \in {"fetch", "compare"} :
          at' = [at EXCEPT ![t].epoch = e, ![t].step = s]
    BY <1>12 DEF LocalEpoch
  <2> DEFINE r == [at[t] EXCEPT !.epoch = e, !.step = s]
  <2>3. at' = [at EXCEPT ![t] = r] /\ UNCHANGED <<server, held, gone, budgets>>
    BY <1>12, <2>2 DEF LocalEpoch
  <2> HIDE DEF e
  <2>4. r \in SweepType /\ r.step = s /\ r.draft = None /\ r.opening = at[t].opening
    BY <1>0, <1>d, <1>12, <2>1 DEF LocalEpoch, At, SweepType, Steps
  <2> HIDE DEF r
  <2> QED BY <1>0, <2>3, <2>4, NoneIs, Local
<1>13. CASE FetchCommits(t)
  <2>1. CASE Len(log) > at[t].epoch
    <3> DEFINE r == [at[t] EXCEPT !.step = "apply", !.upto = Len(log)]
    <3>1. at' = [at EXCEPT ![t] = r] /\ UNCHANGED <<server, held, gone, budgets>>
      BY <1>13, <2>1 DEF FetchCommits
    <3>2. /\ r \in SweepType /\ r.step = "apply" /\ r.draft = None
          /\ r.opening = at[t].opening /\ r.epoch = at[t].epoch /\ r.upto = Len(log)
      BY <1>0, <1>d, <1>13 DEF FetchCommits, At, SweepType, Steps
    <3>3. r.epoch < r.upto /\ r.upto <= Len(log)
      BY <1>0, <2>1, <3>2 DEF SweepType
    <3> HIDE DEF r
    <3> QED BY <1>0, <3>1, <3>2, <3>3, NoneIs, Local
  <2>2. CASE ~(Len(log) > at[t].epoch)
    BY <1>13, <2>2, GoesOn DEF FetchCommits, At, Steps
  <2> QED BY <2>1, <2>2
<1>14. CASE Compare(t)
  <2> DEFINE toAdd == at[t].seen.roster \ Members(held[Of[t]])
             toRemove == (Members(held[Of[t]]) \ at[t].seen.roster) \ {Of[t]}
  <2>1. PICK usable \in SUBSET toAdd :
          at' = [at EXCEPT ![t] = Resume([@ EXCEPT !.adding = usable, !.removing = toRemove],
                                         IF usable = {} THEN "remove" ELSE "add")]
    BY <1>14 DEF Compare
  <2> DEFINE q == [at[t] EXCEPT !.adding = usable, !.removing = toRemove]
             s == IF usable = {} THEN "remove" ELSE "add"
             r == Resume(q, s)
  <2>2. at' = [at EXCEPT ![t] = r] /\ UNCHANGED <<server, held, gone, budgets>>
    BY <1>14, <2>1 DEF Compare
  <2>3. usable \in SUBSET Device /\ toRemove \in SUBSET Device
    BY <1>0, <2>1 DEF SweepType, Members
  <2> HIDE DEF toAdd, toRemove
  <2>4. q \in SweepType /\ q.draft = None /\ q.opening = at[t].opening
    BY <1>0, <1>d, <1>14, <2>3 DEF Compare, At, SweepType
  <2>5. s \in Steps \cup {"close"} /\ s \in {"remove", "add"}
    BY DEF Steps
  <2> HIDE DEF q, s
  <2>6. /\ r \in SweepType /\ r.step \in {s, "idle", "publish"}
        /\ r.draft \in {q.draft, None} /\ r.opening \in {q.opening, {}}
    BY <2>4, <2>5, ResumeIs
  <2> HIDE DEF r
  <2>7. r.draft = None /\ OnLog(r.draft) /\ \A w \in r.opening : Sent(w)
    BY <1>0, <2>4, <2>6, NoneIs
  <2> QED BY <2>2, <2>5, <2>6, <2>7, Local
<1>15. CASE Fail(t)
  <2>1. trouble' \in 0..MaxTrouble
    BY <1>15, Sizes DEF Fail
  <2> QED BY <1>15, <2>1, Rests DEF Fail
<1>16. CASE Reload(t)
  <2>1. trouble' \in 0..MaxTrouble
    BY <1>16, Sizes DEF Reload
  <2> QED BY <1>16, <2>1, Rests DEF Reload
<1> QED BY <1>1, <1>2, <1>3, <1>4, <1>5, <1>6, <1>7, <1>8, <1>9, <1>10, <1>11, <1>12,
           <1>13, <1>14, <1>15, <1>16

-----------------------------------------------------------------------------
(* The steps that write the state of a device                               *)

(* While nothing is committed, what is on the log stays on it. *)
LEMMA LogKept ==
  ASSUME IInv, UNCHANGED log
  PROVE  Grows /\ Chain' /\ \A g : OnLog(g)' <=> OnLog(g)
BY DEF IInv, TypeOK, Grows, Chain, OnLog, Epoch

(* A state that is on the log may be put in the place of another. *)
LEMMA HeldChanged ==
  ASSUME IInv, UNCHANGED log, NEW d0 \in Device, NEW g \in Group, OnLog(g),
         held' = [held EXCEPT ![d0] = g] \/ held' = held
  PROVE  /\ held' \in [Device -> Group]
         /\ \A d \in Device : OnLog(held[d])'
         /\ \A d \in Device : held'[d] # held[d] => d = d0
<1>1. held' \in [Device -> Group] /\ \A d \in Device : held'[d] = held[d] \/ (d = d0 /\ held'[d] = g)
  BY Given
<1>2. ASSUME NEW d \in Device PROVE OnLog(held[d])'
  <2>1. OnLog(held[d]) /\ log' = log
    BY DEF IInv
  <2> QED BY <1>1, <2>1 DEF OnLog, Epoch
<1> QED BY <1>1, <1>2

(* A welcome is of a state of the log, whether it is opened or given up on. *)
LEMMA OpenWelcomeKeeps ==
  ASSUME IInv, NEW t \in Tab, OpenWelcome(t) \/ GiveUpWelcome(t)
  PROVE  IInv'
<1> USE Given
<1>1. PICK w \in at[t].opening :
        /\ at' = [at EXCEPT ![t].opening = @ \ {w}]
        /\ welcomes' = welcomes \ {w}
        /\ held' = held \/ (OpenWelcome(t) /\ held' = [held EXCEPT ![Of[t]] = w.group])
  BY DEF OpenWelcome, GiveUpWelcome
<1>2. at[t] \in SweepType /\ at[t].step = "drain" /\ Of[t] \in Device
  BY Owner DEF OpenWelcome, GiveUpWelcome, At
<1>3. at[t].draft = None /\ (\A v \in at[t].opening : Sent(v)) /\ w.group \in Group
  BY <1>2 DEF IInv, TypeOK, Sound, SweepType, Welcome
<1>r. PICK r : r = [at[t] EXCEPT !.opening = @ \ {w}]
  OBVIOUS
<1>4. /\ r \in SweepType /\ r.step = "drain" /\ r.draft = None
      /\ r.opening \subseteq at[t].opening /\ at' = [at EXCEPT ![t] = r]
  BY <1>1, <1>2, <1>3, <1>r DEF SweepType
<1>5. /\ roster' = roster /\ log' = log /\ published' = published /\ gone' = gone
      /\ changes' = changes /\ lost' = lost /\ trouble' \in 0..MaxTrouble
  BY Sizes DEF OpenWelcome, GiveUpWelcome, budgets
<1>6. Grows /\ Chain' /\ \A g : OnLog(g)' <=> OnLog(g)
  BY <1>5, LogKept
<1>7. /\ held' \in [Device -> Group] /\ \A d \in Device : OnLog(held[d])'
      /\ \A d \in Device : held'[d] # held[d] => d = Of[t]
  BY <1>1, <1>2, <1>3, <1>5, HeldChanged DEF Sent
<1>8. \A d \in Device : held'[d] # held[d] => LockFree(t)
  BY <1>1 DEF OpenWelcome
<1>9. /\ welcomes' \subseteq Welcome /\ (\A v \in welcomes' : Sent(v)')
      /\ (\A v \in r.opening : Sent(v)') /\ OnLog(r.draft)'
      /\ published' \in Group /\ OnLog(published)'
  <2>1. \A v : Sent(v)' <=> Sent(v)
    BY <1>5 DEF Sent, OnLog, Epoch
  <2>2. welcomes \subseteq Welcome /\ (\A v \in welcomes : Sent(v)) /\ published \in Group
        /\ OnLog(published)
    BY DEF IInv, TypeOK
  <2>3. OnLog(published)' /\ OnLog(r.draft)'
    BY <1>4, <1>5, <2>2, NoneIs DEF OnLog, Epoch
  <2> QED BY <1>1, <1>3, <1>4, <1>5, <2>1, <2>2, <2>3
<1> QED BY <1>4, <1>5, <1>6, <1>7, <1>8, <1>9, Update

(* A step that writes the state of its device, and rests or goes on. *)
LEMMA HeldSteps ==
  ASSUME IInv, NEW t \in Tab, LockFree(t), UNCHANGED <<server, gone, budgets>>,
         NEW g \in Group, OnLog(g),
         held' = [held EXCEPT ![Of[t]] = g] \/ held' = held,
         NEW r \in SweepType, at' = [at EXCEPT ![t] = r],
         r.step \notin {"join", "persist"}, r.draft = None,
         \A w \in r.opening : Sent(w),
         r.step = "apply" => r.epoch < r.upto /\ r.upto <= Len(log)
  PROVE  IInv'
<1> USE Given DEF server, budgets
<1>1. Of[t] \in Device
  BY Owner
<1>2. Grows /\ Chain' /\ \A x : OnLog(x)' <=> OnLog(x)
  BY LogKept
<1>3. /\ held' \in [Device -> Group] /\ \A d \in Device : OnLog(held[d])'
      /\ \A d \in Device : held'[d] # held[d] => d = Of[t]
  BY <1>1, HeldChanged
<1>4. /\ welcomes' \subseteq Welcome /\ (\A v \in welcomes' : Sent(v)')
      /\ (\A v \in r.opening : Sent(v)') /\ OnLog(r.draft)'
      /\ published' \in Group /\ OnLog(published)'
  <2>1. \A v : Sent(v)' <=> Sent(v)
    BY DEF Sent, OnLog, Epoch
  <2>2. welcomes \subseteq Welcome /\ (\A v \in welcomes : Sent(v)) /\ published \in Group
        /\ OnLog(published)
    BY DEF IInv, TypeOK
  <2>3. OnLog(published)' /\ OnLog(r.draft)'
    BY <2>2, NoneIs DEF OnLog, Epoch
  <2> QED BY <2>1, <2>2, <2>3
<1> QED BY <1>2, <1>3, <1>4, Update

(* A new group has had no commit, so it is off no log. *)
LEMMA CreateKeeps ==
  ASSUME IInv, NEW t \in Tab, CreateGroup(t)
  PROVE  IInv'
<1> DEFINE r == [at[t] EXCEPT !.step = "publish", !.next = "compare",
                              !.epoch = 0, !.announced = TRUE]
<1>1. at[t] \in SweepType /\ at[t].draft = None /\ \A w \in at[t].opening : Sent(w)
  BY DEF CreateGroup, At, IInv, TypeOK, Sound
<1>2. /\ r \in SweepType /\ r.step = "publish" /\ r.draft = None /\ r.opening = at[t].opening
  BY <1>1 DEF SweepType, Steps
<1>3. at' = [at EXCEPT ![t] = r]
  BY DEF CreateGroup
<1> HIDE DEF r
<1>4. Of[t] \in Device /\ Created(Of[t]) \in Group /\ OnLog(Created(Of[t]))
  <2>1. Of[t] \in Device /\ Created(Of[t]) \in Group /\ Len(Created(Of[t])) = 1
    BY Owner, CreatedIs
  <2>2. Epoch(Created(Of[t])) = 0
    BY <2>1 DEF Epoch
  <2> QED BY <2>1, <2>2 DEF OnLog
<1>5. /\ LockFree(t) /\ UNCHANGED <<server, gone, budgets>>
      /\ held' = [held EXCEPT ![Of[t]] = Created(Of[t])] \/ held' = held
  BY DEF CreateGroup
<1> QED BY <1>1, <1>2, <1>3, <1>4, <1>5, HeldSteps

(* Forgetting a state leaves none. *)
LEMMA ForgetKeeps ==
  ASSUME IInv, NEW t \in Tab, ForgetGroup(t)
  PROVE  IInv'
<1>1. /\ LockFree(t) /\ UNCHANGED <<server, gone, budgets>>
      /\ held' = [held EXCEPT ![Of[t]] = None] /\ at' = [at EXCEPT ![t] = Idle]
  BY DEF ForgetGroup, Rest
<1> QED BY <1>1, IdleIs, NoneIs, HeldSteps

(* What a commit of the log is applied to becomes the state that the log names. *)
LEMMA ApplyKeeps ==
  ASSUME IInv, NEW t \in Tab, ApplyCommit(t)
  PROVE  IInv'
<1> USE Given
<1> DEFINE g == log[at[t].epoch + 1]
<1>1. /\ at[t] \in SweepType /\ at[t].step = "apply" /\ at[t].draft = None
      /\ \A w \in at[t].opening : Sent(w)
  BY DEF ApplyCommit, At, IInv, TypeOK, Sound
<1>2. at[t].epoch \in Nat /\ at[t].upto \in Nat /\ at[t].epoch < at[t].upto /\ at[t].upto <= Len(log)
  BY <1>1 DEF IInv, TypeOK, At, SweepType
<1>3. at[t].epoch + 1 \in 1..Len(log)
  BY <1>2
<1>4. g \in Group /\ Len(g) = at[t].epoch + 2
  BY <1>2, <1>3, SMTT(20) DEF IInv, Chain
<1>5. Epoch(g) = at[t].epoch + 1 /\ OnLog(g)
  BY <1>2, <1>3, <1>4 DEF OnLog, Epoch
<1>6. LockFree(t) /\ UNCHANGED <<server, gone, budgets>>
  BY DEF ApplyCommit
<1>7. \/ /\ held' = [held EXCEPT ![Of[t]] = g]
         /\ at' = [at EXCEPT ![t].epoch = Epoch(g),
                             ![t].step = IF Epoch(g) < at[t].upto THEN "apply" ELSE "fetch"]
      \/ held' = [held EXCEPT ![Of[t]] = None] /\ Rest(t)
      \/ held' = held /\ (GoOn(t, "forget") \/ Rest(t))
  BY DEF ApplyCommit
<1> HIDE DEF g
<1>8. CASE /\ held' = [held EXCEPT ![Of[t]] = g]
           /\ at' = [at EXCEPT ![t].epoch = Epoch(g),
                               ![t].step = IF Epoch(g) < at[t].upto THEN "apply" ELSE "fetch"]
  <2> DEFINE s == IF Epoch(g) < at[t].upto THEN "apply" ELSE "fetch"
             r == [at[t] EXCEPT !.epoch = Epoch(g), !.step = s]
  <2>1. at' = [at EXCEPT ![t] = r]
    BY <1>8
  <2>2. s \in {"apply", "fetch"} /\ (s = "apply" => Epoch(g) < at[t].upto) /\ Epoch(g) \in Nat
    BY <1>2, <1>5
  <2> HIDE DEF s
  <2>3. /\ r \in SweepType /\ r.step = s /\ r.draft = None /\ r.opening = at[t].opening
        /\ r.epoch = Epoch(g) /\ r.upto = at[t].upto
    BY <1>1, <2>2 DEF SweepType, Steps
  <2>4. r.step = "apply" => r.epoch < r.upto /\ r.upto <= Len(log)
    BY <1>2, <2>2, <2>3
  <2>5. r.step \notin {"join", "persist"} /\ (\A w \in r.opening : Sent(w))
    BY <1>1, <2>2, <2>3
  <2>6. LockFree(t) /\ held' = [held EXCEPT ![Of[t]] = g]
    BY <1>6, <1>8
  <2> HIDE DEF r
  <2> QED BY <1>4, <1>5, <1>6, <2>1, <2>3, <2>4, <2>5, <2>6, HeldSteps
<1>9. CASE held' = [held EXCEPT ![Of[t]] = None] /\ Rest(t)
  BY <1>6, <1>9, IdleIs, NoneIs, HeldSteps DEF Rest
<1>10. CASE held' = held /\ GoOn(t, "forget")
  BY <1>1, <1>6, <1>10, GoesOn DEF Steps, server, budgets
<1>11. CASE held' = held /\ Rest(t)
  BY <1>6, <1>11, Rests DEF server, budgets
<1> QED BY <1>7, <1>8, <1>9, <1>10, <1>11

-----------------------------------------------------------------------------
(* Commits                                                                  *)

(* The server takes a commit only when the state it was made on is the last
   of the log, or there is no log yet: the chain goes on. *)
LEMMA LogAppended ==
  ASSUME IInv, NEW h \in Group, NEW g \in Group,
         OnLog(h), h # None, Front(g) = h, Len(g) = Len(h) + 1,
         Wins(g), Epoch(g) <= MaxEpoch, log' = Append(log, g)
  PROVE  Grows /\ Chain' /\ OnLog(g)' /\ Len(g) > 1
<1> USE Given
<1>1. Len(h) \in Nat /\ Len(h) # 0 /\ Len(g) = Len(h) + 1
  BY GroupSize
<1>2. Len(g) = Len(log) + 2 /\ Len(h) = Len(log) + 1 /\ Epoch(g) = Len(log) + 1
  BY <1>1 DEF Wins, Epoch
<1>3. /\ log' \in Seq(Group) /\ Len(log') = Len(log) + 1 /\ log'[Len(log) + 1] = g
      /\ \A i \in 1..Len(log) : log'[i] = log[i]
  OBVIOUS
<1>4. Len(log) > 0 => h = log[Len(log)]
  BY <1>2 DEF OnLog, Epoch
<1>5. Grows
  BY <1>2, <1>3 DEF Grows
<1>6. \A i \in 1..Len(log') : Len(log'[i]) = i + 1
  <2> TAKE i \in 1..Len(log')
  <2>1. CASE i \in 1..Len(log)
    BY <2>1, <1>3 DEF IInv, Chain
  <2>2. CASE i = Len(log) + 1
    BY <2>2, <1>2, <1>3
  <2> QED BY <1>3, <2>1, <2>2
<1>7. \A i \in 2..Len(log') : Front(log'[i]) = log'[i - 1]
  <2> TAKE i \in 2..Len(log')
  <2>1. CASE i \in 2..Len(log)
    <3>1. Front(log[i]) = log[i - 1] /\ i \in 1..Len(log) /\ i - 1 \in 1..Len(log)
      BY <2>1 DEF IInv, Chain
    <3> QED BY <3>1, <1>3
  <2>2. CASE i = Len(log) + 1
    <3>1. Len(log) > 0 /\ Len(log) \in 1..Len(log) /\ i - 1 = Len(log)
      BY <2>2, <1>3
    <3> QED BY <3>1, <2>2, <1>3, <1>4
  <2> QED BY <1>3, <2>1, <2>2
<1>8. OnLog(g)'
  BY <1>2, <1>3 DEF OnLog, Epoch
<1> QED BY <1>1, <1>2, <1>5, <1>6, <1>7, <1>8 DEF Chain

(* An accepted commit is appended to the log, and the tab has the lock until it is saved. *)
LEMMA AcceptedKeeps ==
  ASSUME IInv, NEW t \in Tab, LockFree(t), NEW h \in Group, NEW g \in Group,
         OnLog(h), h # None, Front(g) = h, Len(g) = Len(h) + 1,
         held[Of[t]] \in {h, None},
         NEW to \in SUBSET Device, NEW next \in {"compare", "remove", "close"},
         Accepted(t, g, to, next),
         UNCHANGED <<roster, published, held, gone, budgets>>
  PROVE  IInv'
<1> USE Given DEF budgets
<1>1. Grows /\ Chain' /\ OnLog(g)' /\ Len(g) > 1
  BY LogAppended DEF Accepted
<1>2. /\ welcomes' = welcomes \cup [to : to, group : {g}]
      /\ at' = [at EXCEPT ![t].step = "persist", ![t].draft = g, ![t].next = next]
  BY DEF Accepted
<1>r. PICK r : r = [at[t] EXCEPT !.step = "persist", !.draft = g, !.next = next]
  OBVIOUS
<1>3. at' = [at EXCEPT ![t] = r]
  BY <1>2, <1>r
<1>4. /\ r \in SweepType /\ r.step = "persist" /\ r.draft = g
      /\ r.opening = at[t].opening
  <2>1. at[t] \in SweepType /\ "persist" \in Steps
    BY DEF Steps
  <2>2. next \in {"idle", "compare", "fetch", "remove", "close"}
    OBVIOUS
  <2> QED BY <1>r, <2>1, <2>2 DEF SweepType
<1>5. \A x \in Group : OnLog(x) => OnLog(x)'
  BY <1>1, StaysOnLog
<1>6. \A w \in Welcome : Sent(w) => Sent(w)'
  BY <1>5 DEF Sent, Welcome, OnLog, Epoch
<1>7. g # None /\ Len(g) > Len(held[Of[t]])
  <2>1. Len(h) \in Nat /\ Len(None) = 0 /\ Len(g) \in Nat
    BY GroupSize, NoneIs
  <2>2. Len(g) # 0
    BY <2>1, <1>1
  <2> QED BY <2>1, <2>2, GroupSize
<1>8. welcomes' \subseteq Welcome /\ \A w \in welcomes' : Sent(w)'
  <2>1. \A w \in [to : to, group : {g}] : w \in Welcome /\ w.group = g
    BY DEF Welcome
  <2>2. \A w \in [to : to, group : {g}] : Sent(w)'
    BY <1>1, <1>7, <2>1 DEF Sent, OnLog, Epoch
  <2>3. welcomes \subseteq Welcome /\ \A w \in welcomes : Sent(w)
    BY DEF IInv, TypeOK
  <2> QED BY <1>2, <1>6, <2>1, <2>2, <2>3
<1>9. OnLog(published)' /\ \A d \in Device : OnLog(held[d])'
  <2>1. OnLog(published) /\ published \in Group /\ \A d \in Device : OnLog(held[d]) /\ held[d] \in Group
    BY DEF IInv, TypeOK
  <2> QED BY <1>5, <2>1 DEF OnLog, Epoch
<1>10. \A w \in r.opening : Sent(w)'
  <2>1. at[t].opening \subseteq Welcome /\ \A w \in at[t].opening : Sent(w)
    BY DEF IInv, Sound, SweepType
  <2> QED BY <1>4, <1>6, <2>1
<1>11. OnLog(r.draft)'
  BY <1>1, <1>4 DEF OnLog, Epoch
<1>12. published' \in Group /\ roster' \subseteq Device /\ \A d \in Device : held'[d] = held[d]
  BY DEF IInv, TypeOK
<1> QED BY <1>1, <1>3, <1>4, <1>7, <1>8, <1>9, <1>10, <1>11, <1>12, Update

(* A join is a commit on the published state, or finds that it is not needed. *)
LEMMA JoinKeeps ==
  ASSUME IInv, NEW t \in Tab, JoinExternal(t)
  PROVE  IInv'
<1> USE Given DEF budgets
<1> DEFINE d == Of[t]
<1>1. d \in Device /\ at[t] \in SweepType /\ at[t].step = "join" /\ LockFree(t)
  BY Owner DEF JoinExternal, At
<1>2. /\ at[t].draft \in Group /\ at[t].draft # None /\ OnLog(at[t].draft)
      /\ \A w \in at[t].opening : Sent(w)
  BY <1>1 DEF IInv, TypeOK, Sound, SweepType
<1>3. UNCHANGED <<roster, published, held, gone, changes, trouble, lost>>
  BY DEF JoinExternal
<1>4. CASE held[d] # None /\ UNCHANGED <<log, welcomes>>
           /\ \E s \in {"fetch", "compare"} :
                at' = [at EXCEPT ![t].step = "publish", ![t].epoch = Epoch(held[d]),
                                 ![t].announced = TRUE, ![t].draft = None, ![t].next = s]
  <2>1. PICK s \in {"fetch", "compare"} :
          at' = [at EXCEPT ![t].step = "publish", ![t].epoch = Epoch(held[d]),
                           ![t].announced = TRUE, ![t].draft = None, ![t].next = s]
    BY <1>4
  <2>2. Epoch(held[d]) \in Nat
    <3>1. Len(held[d]) \in Nat /\ Len(held[d]) # 0
      BY <1>1, <1>4, GroupSize
    <3>2. \A k \in Nat : k # 0 => k - 1 \in Nat
      OBVIOUS
    <3> QED BY <3>1, <3>2 DEF Epoch
  <2> DEFINE e == Epoch(held[d])
             r == [at[t] EXCEPT !.step = "publish", !.epoch = e,
                                !.announced = TRUE, !.draft = None, !.next = s]
  <2>3. at' = [at EXCEPT ![t] = r]
    BY <2>1
  <2>4. e \in Nat
    BY <2>2
  <2> HIDE DEF e
  <2>5. r \in SweepType /\ r.step = "publish" /\ r.draft = None /\ r.opening = at[t].opening
    BY <1>1, <2>4, NoneIs DEF SweepType, Steps
  <2> HIDE DEF r
  <2> QED BY <1>2, <1>3, <1>4, <2>3, <2>5, NoneIs, Local
<1>5. CASE held[d] = None /\ Accepted(t, Joined(at[t].draft, d), {}, "compare")
  <2>1. /\ Joined(at[t].draft, d) \in Group /\ Front(Joined(at[t].draft, d)) = at[t].draft
        /\ Len(Joined(at[t].draft, d)) = Len(at[t].draft) + 1
    BY <1>1, <1>2, JoinedIs
  <2> QED BY <1>1, <1>2, <1>3, <1>5, <2>1, AcceptedKeeps
<1>6. CASE Rest(t) /\ UNCHANGED <<log, welcomes>>
  BY <1>3, <1>6, Rests
<1> QED BY <1>4, <1>5, <1>6 DEF JoinExternal

(* An add is a commit on the state of the device. *)
LEMMA AddKeeps ==
  ASSUME IInv, NEW t \in Tab, CommitAdd(t)
  PROVE  IInv'
<1> USE Given DEF budgets
<1> DEFINE d == Of[t]
           g == Changed(held[d], d, at[t].adding, {})
<1>1. /\ d \in Device /\ at[t] \in SweepType /\ at[t].step = "add" /\ LockFree(t)
      /\ held[d] \in Group /\ OnLog(held[d])
  BY Owner DEF CommitAdd, At, IInv, TypeOK
<1>2. UNCHANGED <<roster, published, held, gone, changes, trouble, lost>>
  BY DEF CommitAdd
<1>3. CASE held[d] # None /\ Accepted(t, g, at[t].adding, "remove")
  <2>1. at[t].adding \in SUBSET Device
    BY <1>1 DEF SweepType
  <2>2. g \in Group /\ Front(g) = held[d] /\ Len(g) = Len(held[d]) + 1
    BY <1>1, <2>1, ChangedIs
  <2> HIDE DEF g
  <2> QED BY <1>1, <1>2, <1>3, <2>1, <2>2, AcceptedKeeps
<1>4. CASE GoOn(t, "remove") /\ UNCHANGED <<log, welcomes>>
  BY <1>1, <1>2, <1>4, GoesOn DEF Steps
<1>5. CASE Rest(t) /\ UNCHANGED <<log, welcomes>>
  BY <1>2, <1>5, Rests
<1> QED BY <1>3, <1>4, <1>5 DEF CommitAdd

(* So is a removal; without a state there is nothing to remove. *)
LEMMA RemoveKeeps ==
  ASSUME IInv, NEW t \in Tab, CommitRemove(t)
  PROVE  IInv'
<1> USE Given DEF budgets
<1> DEFINE d == Of[t]
           g == Changed(held[d], d, {}, at[t].removing)
<1>1. /\ d \in Device /\ at[t] \in SweepType /\ at[t].step = "remove" /\ LockFree(t)
      /\ held[d] \in Group /\ OnLog(held[d])
  BY Owner DEF CommitRemove, At, IInv, TypeOK
<1>2. UNCHANGED <<roster, published, held, gone, changes, trouble, lost>>
  BY DEF CommitRemove
<1>g. g \in Group /\ Front(g) = held[d] /\ Len(g) = Len(held[d]) + 1
  <2>1. at[t].removing \in SUBSET Device
    BY <1>1 DEF SweepType
  <2> QED BY <1>1, <2>1, ChangedIs
<1> HIDE DEF g
<1>3. CASE Accepted(t, g, {}, "close")
  <2>1. held[d] # None
    <3>1. Epoch(g) = Len(log) + 1
      BY <1>3 DEF Accepted, Wins
    <3>2. Len(held[d]) # 0
      BY <1>1, <1>g, <3>1, GroupSize DEF Epoch
    <3> QED BY <3>2, NoneIs
  <2> QED BY <1>1, <1>2, <1>3, <1>g, <2>1, AcceptedKeeps
<1>4. CASE GoOn(t, "close") /\ UNCHANGED <<log, welcomes>>
  BY <1>1, <1>2, <1>4, GoesOn DEF Steps
<1>5. CASE Rest(t) /\ UNCHANGED <<log, welcomes>>
  BY <1>2, <1>5, Rests
<1> QED BY <1>3, <1>4, <1>5 DEF CommitRemove, g

(* What is saved is the state of the accepted commit; the lock that was held
   since keeps the other tabs from having written in between. *)
LEMMA PersistKeeps ==
  ASSUME IInv, NEW t \in Tab, Persist(t)
  PROVE  IInv'
<1> USE Given DEF server, budgets
<1> DEFINE g == at[t].draft
<1>1. /\ at[t] \in SweepType /\ at[t].step = "persist" /\ LockFree(t)
      /\ \A w \in at[t].opening : Sent(w)
  BY DEF Persist, At, IInv, Locked, Sound
<1>2. g \in Group /\ OnLog(g) /\ Len(g) > 1
  BY <1>1 DEF IInv, Sound, At, SweepType
<1>3. Epoch(g) \in Nat
  <2>1. \A k \in Nat : k > 1 => k - 1 \in Nat
    OBVIOUS
  <2> QED BY <1>2, <2>1, GroupSize DEF Epoch
<1>4. /\ UNCHANGED <<server, gone, budgets>> /\ held' = [held EXCEPT ![Of[t]] = g]
  BY DEF Persist
<1>5. PICK e \in Nat :
        at' = [at EXCEPT ![t].step = "publish", ![t].draft = None,
                         ![t].announced = TRUE, ![t].epoch = e]
  <2>1. at[t].epoch \in Nat
    BY <1>1 DEF SweepType
  <2> QED BY <1>3, <2>1 DEF Persist
<1> HIDE DEF g
<1>r. PICK r : r = [at[t] EXCEPT !.step = "publish", !.draft = None,
                                 !.announced = TRUE, !.epoch = e]
  OBVIOUS
<1>6. at' = [at EXCEPT ![t] = r]
  BY <1>5, <1>r
<1>7. r \in SweepType /\ r.step = "publish" /\ r.draft = None /\ r.opening = at[t].opening
  BY <1>1, <1>r, NoneIs DEF SweepType, Steps
<1> QED BY <1>1, <1>2, <1>4, <1>6, <1>7, HeldSteps

(* What is published is what the device has, or stays as it was. *)
LEMMA PublishKeeps ==
  ASSUME IInv, NEW t \in Tab, PublishGroupInfo(t)
  PROVE  IInv'
<1> USE Given DEF budgets
<1>1. /\ at[t] \in SweepType /\ at[t].step = "publish" /\ Of[t] \in Device /\ LockFree(t)
  BY Owner DEF PublishGroupInfo, At
<1>2. at[t].next \in (Steps \ {"join", "persist", "apply"}) \cup {"close"}
  BY <1>1 DEF SweepType, Steps
<1>r. PICK r : r = Resume(at[t], at[t].next)
  OBVIOUS
<1>3. /\ r \in SweepType /\ r.step \notin {"join", "persist", "apply"} /\ r.draft = None
      /\ \A w \in r.opening : Sent(w)
  BY <1>1, <1>2, <1>r, Resumed
<1>4. at' = [at EXCEPT ![t] = r]
  BY <1>r DEF PublishGroupInfo, GoOn
<1>5. UNCHANGED <<roster, log, welcomes, held, gone, changes, trouble, lost>>
  BY DEF PublishGroupInfo
<1>6. published' \in Group /\ OnLog(published')
  <2>1. published' \in {published, held[Of[t]]}
    BY DEF PublishGroupInfo
  <2> QED BY <1>1, <2>1 DEF IInv, TypeOK
<1>7. Grows /\ Chain' /\ \A g : OnLog(g)' <=> OnLog(g)
  BY <1>5, LogKept
<1>8. OnLog(published)' /\ OnLog(r.draft)' /\ \A d \in Device : OnLog(held[d])'
  BY <1>3, <1>5, <1>6, NoneIs DEF IInv, OnLog, Epoch
<1>9. (\A w \in welcomes' : Sent(w)') /\ \A w \in r.opening : Sent(w)'
  BY <1>3, <1>5 DEF IInv, Sent, OnLog, Epoch
<1>10. welcomes' \subseteq Welcome /\ held' \in [Device -> Group]
       /\ \A d \in Device : held'[d] = held[d]
  BY <1>5 DEF IInv, TypeOK
<1> QED BY <1>3, <1>4, <1>5, <1>6, <1>7, <1>8, <1>9, <1>10, Update

(* Devices come and go on the server only. *)
LEMMA RosterKeeps ==
  ASSUME IInv, NEW d \in Device, Come(d) \/ Leave(d)
  PROVE  IInv'
<1>1. /\ roster' \subseteq Device /\ changes' \in 0..MaxChanges
      /\ UNCHANGED <<log, published, welcomes, held, at, gone, trouble, lost>>
  BY Given, Sizes DEF Come, Leave
<1>2. TypeOK' /\ Chain' /\ Locked'
  BY <1>1 DEF IInv, TypeOK, Chain, Locked, LockFree, At
<1>3. OnLog(published)' /\ (\A u \in Device : OnLog(held[u])') /\ \A w \in welcomes' : Sent(w)'
  BY <1>1 DEF IInv, Sent, OnLog, Epoch
<1>4. ASSUME NEW t \in Tab PROVE Sound(t)'
  <2>1. Sound(t)
    BY DEF IInv
  <2> QED BY <1>1, <2>1 DEF Sound, Sent, OnLog, Epoch, At
<1> QED BY <1>2, <1>3, <1>4 DEF IInv

-----------------------------------------------------------------------------
(* The invariant                                                            *)

(* The invariant holds where nothing has been created. *)
LEMMA InitIInv ==
  ASSUME Init
  PROVE  IInv
<1>1. log \in Seq(Group) /\ Len(log) = 0 /\ None \in Group
  BY NoneIs DEF Init
<1>2. Idle \in SweepType /\ Idle.step = "idle" /\ Idle.draft = None /\ Idle.opening = {}
  BY IdleIs
<1>3. \A t \in Tab : at[t] = Idle
  BY DEF Init
<1>4. TypeOK
  <2>1. 0 \in 0..MaxChanges /\ 0 \in 0..MaxTrouble /\ 0 \in 0..MaxLost /\ Len(log) <= MaxEpoch
    BY <1>1, Sizes
  <2>2. at \in [Tab -> SweepType] /\ gone \in [Tab -> BOOLEAN] /\ held \in [Device -> Group]
    BY <1>1, <1>2 DEF Init
  <2> QED BY <1>1, <1>2, <1>3, <2>1, <2>2 DEF Init, TypeOK, At
<1>5. Chain
  BY <1>1 DEF Chain
<1>6. OnLog(published) /\ (\A d \in Device : OnLog(held[d])) /\ \A w \in welcomes : Sent(w)
  BY NoneIs DEF Init
<1>7. Locked /\ \A t \in Tab : Sound(t)
  BY <1>2, <1>3, NoneIs DEF Locked, Sound, At
<1> QED BY <1>4, <1>5, <1>6, <1>7 DEF IInv

(* It holds on when nothing changes. *)
LEMMA StutterIInv ==
  ASSUME IInv, UNCHANGED vars
  PROVE  IInv'
<1>1. UNCHANGED <<roster, log, published, welcomes, held, at, gone, changes, trouble, lost>>
  BY DEF vars, server, budgets
<1>2. TypeOK' /\ Chain' /\ Locked'
  BY <1>1 DEF IInv, TypeOK, Chain, Locked, LockFree, At
<1>3. OnLog(published)' /\ (\A u \in Device : OnLog(held[u])') /\ \A w \in welcomes' : Sent(w)'
  BY <1>1 DEF IInv, Sent, OnLog, Epoch
<1>4. ASSUME NEW t \in Tab PROVE Sound(t)'
  <2>1. Sound(t)
    BY DEF IInv
  <2> QED BY <1>1, <2>1 DEF Sound, Sent, OnLog, Epoch, At
<1> QED BY <1>2, <1>3, <1>4 DEF IInv

(* Every step keeps it. *)
LEMMA NextIInv ==
  ASSUME IInv, Next
  PROVE  IInv'
<1>1. ASSUME NEW t \in Tab, Sweep(t) PROVE IInv'
  <2>1. CASE \/ FetchWelcomes(t) \/ AckWelcomes(t) \/ Repair(t) \/ FetchRecipients(t)
             \/ NotServed(t) \/ PlanCreate(t) \/ PlanJoin(t) \/ PlanWait(t)
             \/ FetchGroupInfo(t) \/ Lose(t) \/ PublishFails(t) \/ LocalEpoch(t)
             \/ FetchCommits(t) \/ Compare(t) \/ Fail(t) \/ Reload(t)
    BY <2>1, LocalSteps
  <2>2. CASE OpenWelcome(t) \/ GiveUpWelcome(t)
    BY <2>2, OpenWelcomeKeeps
  <2>3. CASE CreateGroup(t)
    BY <2>3, CreateKeeps
  <2>4. CASE JoinExternal(t)
    BY <2>4, JoinKeeps
  <2>5. CASE CommitAdd(t)
    BY <2>5, AddKeeps
  <2>6. CASE CommitRemove(t)
    BY <2>6, RemoveKeeps
  <2>7. CASE Persist(t)
    BY <2>7, PersistKeeps
  <2>8. CASE PublishGroupInfo(t)
    BY <2>8, PublishKeeps
  <2>9. CASE ApplyCommit(t)
    BY <2>9, ApplyKeeps
  <2>10. CASE ForgetGroup(t)
    BY <2>10, ForgetKeeps
  <2> QED BY <1>1, <2>1, <2>2, <2>3, <2>4, <2>5, <2>6, <2>7, <2>8, <2>9, <2>10 DEF Sweep
<1>2. ASSUME NEW d \in Device, Come(d) \/ Leave(d) PROVE IInv'
  BY <1>2, RosterKeeps
<1> QED BY <1>1, <1>2 DEF Next

(* Every reachable state satisfies the inductive invariant. *)
THEOREM Invariant == Spec => []IInv
<1>1. IInv /\ [Next]_vars => IInv'
  BY NextIInv, StutterIInv
<1> QED BY InitIInv, <1>1, PTL DEF Spec

(* Every reachable state has its types, and a sweep that applies commits has one
   left of those it fetched. *)
THEOREM TypeCorrect == Spec => []TypeOK
<1>1. IInv => TypeOK
  BY DEF IInv
<1> QED BY <1>1, Invariant, PTL

(* There is one group: the log is a chain of commits, and past its creation
   nothing that a device holds, publishes or sends is off it. *)
THEOREM OneGroup == Spec => []OneLog
<1>1. IInv => OneLog
  <2> SUFFICES ASSUME IInv PROVE OneLog
    OBVIOUS
  <2>1. \A i \in 1..Len(log) : Epoch(log[i]) = i
    BY Given DEF IInv, Chain, Epoch
  <2> QED BY <2>1 DEF IInv, Chain, Sent, OneLog
<1> QED BY <1>1, Invariant, PTL

-----------------------------------------------------------------------------
(* No device goes back                                                      *)

(* A step that puts the state g in the place of what device d0 has does not
   go back if d0 had none, or g is longer, or there is none now. *)
LEMMA Forward ==
  ASSUME IInv, NEW d0 \in Device, NEW g \in Group,
         held' = [held EXCEPT ![d0] = g],
         held[d0] = None \/ g = None \/ Len(g) > Len(held[d0])
  PROVE  \A d \in Device : held[d] # None /\ held'[d] # None =>
           held'[d] = held[d] \/ Epoch(held'[d]) > Epoch(held[d])
<1> SUFFICES ASSUME NEW d \in Device, held[d] # None, held'[d] # None, held'[d] # held[d]
             PROVE  Epoch(held'[d]) > Epoch(held[d])
  OBVIOUS
<1>1. d = d0 /\ held'[d] = g /\ Len(g) > Len(held[d])
  BY Given
<1>2. Len(g) \in Nat /\ Len(held[d]) \in Nat
  BY Given, GroupSize
<1> QED BY <1>1, <1>2 DEF Epoch

(* A step of a sweep leaves the states of the devices, or writes one: into an
   empty place, or none, or a longer one. *)
LEMMA SweepForward ==
  ASSUME IInv, NEW t \in Tab, Sweep(t)
  PROVE  \/ held' = held
         \/ \E g \in Group :
              /\ held' = [held EXCEPT ![Of[t]] = g]
              /\ held[Of[t]] = None \/ g = None \/ Len(g) > Len(held[Of[t]])
<1> USE Given DEF server, budgets
<1>0. Of[t] \in Device /\ held[Of[t]] \in Group /\ at[t] \in SweepType
  BY Owner
<1>1. CASE OpenWelcome(t)
  <2>1. PICK w \in at[t].opening :
          held' = IF w \in welcomes /\ Epoch(w.group) > Epoch(held[Of[t]])
                  THEN [held EXCEPT ![Of[t]] = w.group] ELSE held
    BY <1>1 DEF OpenWelcome
  <2>2. w.group \in Group
    BY <1>0 DEF SweepType, Welcome
  <2>3. Epoch(w.group) > Epoch(held[Of[t]]) => Len(w.group) > Len(held[Of[t]])
    BY <1>0, <2>2, GroupSize DEF Epoch
  <2> QED BY <2>1, <2>2, <2>3
<1>2. CASE CreateGroup(t)
  BY <1>0, <1>2, CreatedIs DEF CreateGroup
<1>3. CASE Persist(t)
  <2>1. at[t].draft \in Group /\ Len(at[t].draft) > Len(held[Of[t]])
    BY <1>0, <1>3 DEF Persist, IInv, Sound, SweepType
  <2> QED BY <1>3, <2>1 DEF Persist
<1>4. CASE ApplyCommit(t)
  <2> DEFINE g == log[at[t].epoch + 1]
  <2>1. at[t].epoch + 1 \in 1..Len(log)
    BY <1>0, <1>4 DEF ApplyCommit, At, IInv, TypeOK, SweepType
  <2>2. g \in Group /\ g # None
    <3>1. g \in Group /\ Len(g) = at[t].epoch + 1 + 1 /\ at[t].epoch + 1 \in Nat
      BY <2>1 DEF IInv, Chain
    <3>2. \A k \in Nat : k + 1 # 0
      OBVIOUS
    <3> QED BY <3>1, <3>2, GroupSize
  <2>3. \/ Applies(held[Of[t]], g, Of[t]) /\ held' = [held EXCEPT ![Of[t]] = g]
        \/ held' = [held EXCEPT ![Of[t]] = None]
        \/ held' = held
    BY <1>4 DEF ApplyCommit
  <2> HIDE DEF g
  <2>4. CASE Applies(held[Of[t]], g, Of[t]) /\ held' = [held EXCEPT ![Of[t]] = g]
    <3>1. Len(g) = Len(held[Of[t]]) + 1 /\ Len(held[Of[t]]) \in Nat
      BY <1>0, <2>2, <2>4, AppliesAhead, GroupSize
    <3>2. Len(g) > Len(held[Of[t]])
      BY <3>1
    <3> QED BY <2>2, <2>4, <3>2
  <2> QED BY <2>3, <2>4, NoneIs
<1>5. CASE ForgetGroup(t)
  BY <1>5, NoneIs DEF ForgetGroup
<1>6. CASE ~(OpenWelcome(t) \/ CreateGroup(t) \/ Persist(t) \/ ApplyCommit(t) \/ ForgetGroup(t))
  BY <1>6 DEF Sweep, FetchWelcomes, GiveUpWelcome, AckWelcomes, Repair, FetchRecipients,
     NotServed, PlanCreate, PlanJoin, PlanWait, FetchGroupInfo, JoinExternal, CommitAdd,
     CommitRemove, Lose, PublishGroupInfo, PublishFails, LocalEpoch, FetchCommits,
     Compare, Fail, Reload
<1> QED BY <1>1, <1>2, <1>3, <1>4, <1>5, <1>6

(* A device that has a state replaces it by a later one or gives it up: what
   it opens, saves or applies is ahead of what it has. *)
THEOREM NoRollBack == Spec => NeverRollsBack
<1> DEFINE Moves == \A d \in Device : held[d] # None /\ held'[d] # None =>
                      held'[d] = held[d] \/ Epoch(held'[d]) > Epoch(held[d])
<1>1. IInv /\ [Next]_vars => [Moves]_vars
  <2> SUFFICES ASSUME IInv, Next PROVE Moves
    OBVIOUS
  <2>1. CASE held' = held
    BY <2>1
  <2>2. ASSUME NEW t \in Tab, Sweep(t) PROVE Moves
    BY <2>1, <2>2, SweepForward, Forward, Owner
  <2>3. ASSUME NEW d \in Device, Come(d) \/ Leave(d) PROVE Moves
    BY <2>1, <2>3 DEF Come, Leave
  <2> QED BY <2>2, <2>3 DEF Next
<1>2. Spec => [][Moves]_vars
  BY <1>1, Invariant, PTL DEF Spec
<1> QED BY <1>2 DEF NeverRollsBack

=============================================================================
