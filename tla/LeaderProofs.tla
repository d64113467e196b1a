---------------------------- MODULE LeaderProofs ----------------------------
(***************************************************************************)
(* Proofs about Leader, for any finite set of tabs, any number of requests *)
(* of a tab and any number of disturbances.                                *)
(***************************************************************************)
EXTENDS Leader, TLAPS, SequenceTheorems, FiniteSetTheorems

USE LeaderAssumption

(***************************************************************************)
(* The strengthening.  A task runs in a request that has had the lock, has *)
(* been aborted when its promise is over, and ends only aborted; the       *)
(* request in hand is alive and not aborted, and the only one that waits;  *)
(* and a tab that has none was stopped or frozen, or has its timer.        *)
(***************************************************************************)
Sound(q) ==
    /\ q.task # "none" => q.phase \in {"held", "stolen", "over"}
    /\ q.phase = "held" => q.task = "running"
    /\ q.phase = "over" => q.task = "running" /\ q.aborted
    /\ q.task \in {"completed", "threw"} => q.aborted
    /\ q.phase = "queued" => ~q.aborted

InHand(s) ==
    /\ s.controller # 0 => /\ s.req[s.controller].phase \notin {"free", "over"}
                           /\ ~s.req[s.controller].aborted
    /\ \A r \in Slot : s.req[r].phase = "queued" => s.controller = r

InTheRace(s) == s.stopped \/ s.paused \/ s.retry \/ s.controller # 0

TabInv(s) == (\A r \in Slot : Sound(s.req[r])) /\ InHand(s) /\ InTheRace(s)

\* The queue is without repetition, and of the requests that wait.
Queued == {q \in Requests : Req(q).phase = "queued"}

QueueInv == queue \in Seq(Requests) /\ IsInjective(queue) /\ ToSet(queue) = Queued

HolderInv == \A q \in Requests : (q = holder) <=> Req(q).phase \in {"granted", "held"}

Types ==
    /\ page \in [Tab -> {"visible", "hidden", "suspended", "closed"}]
    /\ me \in [Tab -> State]
    /\ holder \in Requests \cup {NoHolder}
    /\ open \subseteq Requests
    /\ turns \in 0..MaxTurns

IInv == Types /\ QueueInv /\ HolderInv /\ \A t \in Tab : TabInv(me[t])

-----------------------------------------------------------------------------
(* Sequences without repetition. *)

\* Removing a place removes its element.
LEMMA RemovedAt ==
    ASSUME NEW S, NEW q \in Seq(S), IsInjective(q), NEW i \in 1..Len(q)
    PROVE  /\ RemoveAt(q, i) \in Seq(S) /\ IsInjective(RemoveAt(q, i))
           /\ ToSet(RemoveAt(q, i)) = ToSet(q) \ {q[i]}
<1> DEFINE a == SubSeq(q, 1, i-1)
           b == SubSeq(q, i+1, Len(q))
           n == Len(q)
<1> HIDE DEF a, b
<1>1. n \in Nat /\ DOMAIN q = 1..n /\ \A j \in 1..n : q[j] \in S
  BY LenProperties, ElementOfSeq
<1>2. a \in Seq(S) /\ Len(a) = i-1 /\ \A j \in 1..(i-1) : a[j] = q[j]
  <2>1. \A j \in 1..(i-1) : q[j] \in S BY <1>1
  <2> QED BY <1>1, <2>1, SubSeqProperties, SMT DEF a
<1>3. b \in Seq(S) /\ Len(b) = n-i /\ \A j \in 1..(n-i) : b[j] = q[i+j]
  <2>1. \A j \in (i+1)..n : q[j] \in S BY <1>1
  <2>2. /\ b \in Seq(S) /\ Len(b) = IF i+1 <= n THEN n-(i+1)+1 ELSE 0
        /\ \A j \in 1..(n-(i+1)+1) : b[j] = q[(i+1)+j-1]
    BY <1>1, <2>1, SubSeqProperties, SMT DEF b
  <2>3. n-(i+1)+1 = n-i /\ Len(b) = n-i
    <3>1. i \in Int /\ n \in Int /\ i <= n BY <1>1, SMT
    <3>2. n-(i+1)+1 = n-i /\ (~(i+1 <= n) => n-i = 0) BY <3>1, SMT
    <3> QED BY <2>2, <3>2
  <2>4. ASSUME NEW j \in 1..(n-i) PROVE b[j] = q[i+j]
    <3>1. (i+1)+j-1 = i+j BY <1>1, SMT
    <3> QED BY <2>2, <2>3, <3>1
  <2> QED BY <2>2, <2>3, <2>4
<1>4. /\ RemoveAt(q, i) \in Seq(S) /\ Len(RemoveAt(q, i)) = n-1
      /\ \A j \in 1..(n-1) : RemoveAt(q, i)[j] = IF j < i THEN q[j] ELSE q[j+1]
  <2>1. RemoveAt(q, i) = a \o b BY DEF RemoveAt, a, b
  <2>2. /\ a \o b \in Seq(S) /\ Len(a \o b) = Len(a) + Len(b)
        /\ \A j \in 1..(Len(a) + Len(b)) : (a \o b)[j] = IF j <= Len(a) THEN a[j] ELSE b[j-Len(a)]
    BY <1>2, <1>3, ConcatProperties
  <2>3. Len(a) + Len(b) = n-1 BY <1>1, <1>2, <1>3, SMT
  <2>4. ASSUME NEW j \in 1..(n-1), j < i PROVE (a \o b)[j] = q[j]
    <3>1. j <= Len(a) /\ j \in 1..(i-1) BY <1>1, <1>2, <2>4, SMT
    <3> QED BY <1>2, <2>2, <2>3, <3>1
  <2>5. ASSUME NEW j \in 1..(n-1), ~(j < i) PROVE (a \o b)[j] = q[j+1]
    <3>1. ~(j <= Len(a)) /\ j-Len(a) \in 1..(n-i) /\ i+(j-Len(a)) = j+1 BY <1>1, <1>2, <2>5, SMT
    <3> QED BY <1>3, <2>2, <2>3, <3>1
  <2> QED BY <2>1, <2>2, <2>3, <2>4, <2>5
<1>5. DOMAIN RemoveAt(q, i) = 1..(n-1) BY <1>4, LenProperties
<1>6. IsInjective(RemoveAt(q, i))
  <2> SUFFICES ASSUME NEW j \in 1..(n-1), NEW k \in 1..(n-1), RemoveAt(q, i)[j] = RemoveAt(q, i)[k]
               PROVE  j = k
    BY <1>5 DEF IsInjective
  <2> DEFINE from(x) == IF x < i THEN x ELSE x+1
  <2>1. from(j) \in 1..n /\ from(k) \in 1..n /\ q[from(j)] = q[from(k)] BY <1>1, <1>4, SMT
  <2>2. from(j) = from(k) BY <1>1, <2>1 DEF IsInjective
  <2> QED BY <1>1, <2>2, SMT
<1>7. ASSUME NEW x \in ToSet(RemoveAt(q, i))
      PROVE  x \in ToSet(q) \ {q[i]}
  <2>1. PICK j \in 1..(n-1) : x = RemoveAt(q, i)[j] BY <1>5 DEF ToSet
  <2>2. PICK k \in 1..n : k # i /\ x = q[k] BY <1>1, <1>4, <2>1, SMT
  <2> QED BY <1>1, <2>2 DEF ToSet, IsInjective
<1>8. ASSUME NEW x \in ToSet(q), x # q[i]
      PROVE  x \in ToSet(RemoveAt(q, i))
  <2>1. PICK j \in 1..n : q[j] = x BY <1>1, <1>8 DEF ToSet
  <2>2. CASE j < i
    <3>1. j \in 1..(n-1) /\ RemoveAt(q, i)[j] = x BY <1>1, <1>4, <2>1, <2>2, SMT
    <3> QED BY <1>5, <3>1 DEF ToSet
  <2>3. CASE j > i
    <3>1. j-1 \in 1..(n-1) /\ RemoveAt(q, i)[j-1] = x BY <1>1, <1>4, <2>1, <2>3, SMT
    <3> QED BY <1>5, <3>1 DEF ToSet
  <2> QED BY <1>1, <1>8, <2>1, <2>2, <2>3, SMT
<1> QED BY <1>4, <1>6, <1>7, <1>8

\* Appending a new element adds it.
LEMMA Appended ==
    ASSUME NEW S, NEW q \in Seq(S), IsInjective(q), NEW e \in S, e \notin ToSet(q)
    PROVE  /\ Append(q, e) \in Seq(S) /\ IsInjective(Append(q, e))
           /\ ToSet(Append(q, e)) = ToSet(q) \cup {e}
<1>1. Len(q) \in Nat /\ DOMAIN q = 1..Len(q) BY LenProperties
<1>2. /\ Append(q, e) \in Seq(S) /\ Len(Append(q, e)) = Len(q)+1
      /\ \A i \in 1..Len(q) : Append(q, e)[i] = q[i]
      /\ Append(q, e)[Len(q)+1] = e
  BY AppendProperties
<1>3. DOMAIN Append(q, e) = 1..(Len(q)+1) BY <1>2, LenProperties
<1>4. IsInjective(Append(q, e)) BY <1>1, <1>2, <1>3, SMT DEF IsInjective, ToSet
<1>5. ToSet(Append(q, e)) = ToSet(q) \cup {e} BY <1>1, <1>2, <1>3, SMT DEF ToSet
<1> QED BY <1>2, <1>4, <1>5

\* The head of a queue is in no other place of it.
LEMMA Headed ==
    ASSUME NEW S, NEW q \in Seq(S), IsInjective(q), q # <<>>
    PROVE  /\ Head(q) \in ToSet(q) /\ Tail(q) \in Seq(S) /\ IsInjective(Tail(q))
           /\ ToSet(Tail(q)) = ToSet(q) \ {Head(q)}
<1>1. Len(q) \in Nat /\ DOMAIN q = 1..Len(q) /\ Len(q) > 0 BY LenProperties, EmptySeq
<1>2. /\ Tail(q) \in Seq(S) /\ Len(Tail(q)) = Len(q)-1
      /\ \A i \in 1..(Len(q)-1) : Tail(q)[i] = q[i+1]
  BY HeadTailProperties
<1>3. DOMAIN Tail(q) = 1..(Len(q)-1) BY <1>2, LenProperties
<1>4. Head(q) = q[1] /\ q[1] \in ToSet(q) BY <1>1 DEF ToSet
<1>5. IsInjective(Tail(q)) BY <1>1, <1>2, <1>3, SMT DEF IsInjective
<1>6. ToSet(Tail(q)) \subseteq ToSet(q) \ {q[1]}
  BY <1>1, <1>2, <1>3, SMT DEF ToSet, IsInjective
<1>7. ASSUME NEW x \in ToSet(q), x # q[1]
      PROVE  x \in ToSet(Tail(q))
  <2>1. PICK j \in 1..Len(q) : q[j] = x BY <1>1, <1>7 DEF ToSet
  <2>2. j-1 \in 1..(Len(q)-1) /\ Tail(q)[j-1] = x BY <1>1, <1>2, <1>7, <2>1, SMT
  <2> QED BY <1>3, <2>2 DEF ToSet
<1> QED BY <1>2, <1>4, <1>5, <1>6, <1>7

-----------------------------------------------------------------------------
(* The parts of a turn. *)

Holds(s) == {r \in Slot : s.req[r].phase \in {"granted", "held"}}

\* What Sound says, of every request of a tab but one.
SoundBut(s, r) == \A u \in Slot \ {r} : Sound(s.req[u])

\* A record of a request.
Record == [phase : Phase, task : Task, aborted : BOOLEAN]

LEMMA Requesting ==
    /\ Free \in Record /\ Sound(Free)
    /\ \A p \in {"queued", "stealing"} : /\ [Free EXCEPT !.phase = p] \in Record
                                         /\ [Free EXCEPT !.phase = p].phase = p
                                         /\ ~[Free EXCEPT !.phase = p].aborted
                                         /\ Sound([Free EXCEPT !.phase = p])
BY DEF Free, Record, Phase, Task, Sound

\* Changing one request of a tab, and which one is in hand.
LEMMA Changing ==
    ASSUME NEW s \in State, NEW c \in 0..MaxSlots, NEW r \in Slot, NEW q \in Record
    PROVE  /\ [s EXCEPT !.controller = c, !.req[r] = q] \in State
           /\ [s EXCEPT !.retry = FALSE, !.controller = c, !.req[r] = q] \in State
<1> DEFINE g == [s.req EXCEPT ![r] = q]
<1>1. g \in [Slot -> Record] BY DEF State, Record
<1>2. /\ [s EXCEPT !.controller = c, !.req[r] = q] = [s EXCEPT !.controller = c, !.req = g]
      /\ [s EXCEPT !.retry = FALSE, !.controller = c, !.req[r] = q]
            = [s EXCEPT !.retry = FALSE, !.controller = c, !.req = g]
  BY DEF State
<1> HIDE DEF g
<1>3. /\ [s EXCEPT !.controller = c, !.req = g] \in State
      /\ [s EXCEPT !.retry = FALSE, !.controller = c, !.req = g] \in State
  BY <1>1 DEF State, Record
<1> QED BY <1>2, <1>3

\* Aborting a request leaves a request, and takes the lock from none.
LEMMA Aborting ==
    ASSUME NEW q \in Record, Sound(q)
    PROVE  /\ Aborted(q) \in Record /\ Sound(Aborted(q)) /\ Aborted(q).phase # "queued"
           /\ Aborted(q).phase = q.phase \/ (q.phase = "queued" /\ Aborted(q).phase = "free")
BY DEF Aborted, Record, Sound, Free, Phase, Task

\* release() leaves no request in hand and none that waits, and takes the lock from none.
LEMMA Releasing ==
    ASSUME NEW s \in State, \A r \in Slot : Sound(s.req[r]), InHand(s)
    PROVE  /\ Release(s) \in State /\ \A r \in Slot : Sound(Release(s).req[r])
           /\ InHand(Release(s)) /\ Release(s).controller = 0 /\ Holds(Release(s)) = Holds(s)
           /\ Release(s).stopped = s.stopped /\ Release(s).paused = s.paused
           /\ Room(s) => Room(Release(s))
<1>1. \A r \in Slot : s.req[r] \in Record BY DEF State, Record
<1>2. CASE s.controller = 0
  <2>1. Release(s) = [s EXCEPT !.retry = FALSE] BY <1>2 DEF Release
  <2>2. /\ Release(s) \in State /\ Release(s).req = s.req /\ Release(s).controller = 0
        /\ Release(s).stopped = s.stopped /\ Release(s).paused = s.paused
    BY <1>2, <2>1 DEF State
  <2> QED BY <1>2, <2>2 DEF InHand, Holds, Room, Spares
<1>3. CASE s.controller # 0
  <2> DEFINE c == s.controller
             n == Release(s)
  <2>1. c \in Slot BY <1>3 DEF State, Slot
  <2>2. n = [s EXCEPT !.retry = FALSE, !.controller = 0, !.req[c] = Aborted(@)]
    BY <1>3 DEF Release
  <2>3. /\ n.controller = 0 /\ n.stopped = s.stopped /\ n.paused = s.paused
        /\ n.req = [s.req EXCEPT ![c] = Aborted(s.req[c])]
    BY <2>2 DEF State
  <2>4. Aborted(s.req[c]) \in Record /\ Sound(Aborted(s.req[c])) BY <1>1, <2>1, Aborting
  <2>5. n \in State
    <3>1. 0 \in 0..MaxSlots OBVIOUS
    <3> DEFINE q == Aborted(s.req[c])
    <3>2. n = [s EXCEPT !.retry = FALSE, !.controller = 0, !.req[c] = q]
      BY <2>2
    <3>3. q \in Record BY <2>4
    <3> HIDE DEF n, q, c
    <3>4. [s EXCEPT !.retry = FALSE, !.controller = 0, !.req[c] = q] \in State
      BY <2>1, <3>1, <3>3, Changing
    <3> QED BY <3>2, <3>4
  <2>6. \A r \in Slot : n.req[r] = IF r = c THEN Aborted(s.req[c]) ELSE s.req[r]
    BY <2>1, <2>3 DEF State
  <2>7. \A r \in Slot : Sound(n.req[r]) BY <2>4, <2>6
  <2>8. \A r \in Slot : n.req[r].phase = s.req[r].phase
                        \/ (s.req[r].phase = "queued" /\ n.req[r].phase = "free")
    BY <1>1, <2>1, <2>6, Aborting
  <2>9. \A r \in Slot : n.req[r].phase # "queued" BY <1>1, <2>1, <2>6, Aborting DEF InHand
  <2>10. InHand(n) BY <2>3, <2>9 DEF InHand
  <2>11. Holds(n) = Holds(s) BY <2>8 DEF Holds
  <2>12. Room(s) => Room(n) BY <2>8 DEF Room, Spares
  <2> QED BY <2>3, <2>5, <2>7, <2>10, <2>11, <2>12
<1> QED BY <1>2, <1>3

\* acquire() leaves a tab that waits for the lock if it may, and takes the lock from none.
LEMMA Acquiring ==
    ASSUME NEW s \in State, \A r \in Slot : Sound(s.req[r]), InHand(s), Room(s),
           NEW p \in {"queued", "stealing"}
    PROVE  Acquire(s, p) \in State /\ TabInv(Acquire(s, p)) /\ Holds(Acquire(s, p)) = Holds(s)
<1>1. CASE s.stopped \/ s.paused \/ s.controller # 0
  BY <1>1 DEF Acquire, TabInv, InTheRace
<1>2. CASE ~(s.stopped \/ s.paused \/ s.controller # 0)
  <2>1. PICK r \in Spares(s) : Acquire(s, p) = [s EXCEPT !.controller = r, !.req[r] = [Free EXCEPT !.phase = p]]
    BY <1>2 DEF Acquire, Room
  <2> DEFINE n == Acquire(s, p)
             q == [Free EXCEPT !.phase = p]
  <2>2. r \in Slot /\ r # 0 /\ s.req[r].phase = "free" BY DEF Spares, Slot
  <2>3. q \in Record /\ q.phase = p /\ ~q.aborted /\ Sound(q) BY Requesting
  <2> HIDE DEF q
  <2>4. n = [s EXCEPT !.controller = r, !.req[r] = q] BY <2>1 DEF q
  <2>5. n \in State /\ n.controller = r
    <3>1. r \in 0..MaxSlots BY <2>2 DEF Slot
    <3>2. [s EXCEPT !.controller = r, !.req[r] = q] \in State BY <2>2, <2>3, <3>1, Changing
    <3> QED BY <2>4, <3>2 DEF State
  <2>6. \A u \in Slot : n.req[u] = IF u = r THEN q ELSE s.req[u] BY <2>2, <2>4 DEF State
  <2>7. \A u \in Slot : Sound(n.req[u]) BY <2>3, <2>6
  <2>8. \A u \in Slot : s.req[u].phase # "queued" BY <1>2 DEF InHand, Slot
  <2>9. InHand(n) BY <2>2, <2>3, <2>5, <2>6, <2>8 DEF InHand
  <2>10. Holds(n) = Holds(s) BY <2>2, <2>3, <2>6 DEF Holds
  <2> QED BY <2>2, <2>5, <2>7, <2>9, <2>10 DEF TabInv, InTheRace
<1> QED BY <1>1, <1>2

\* The .finally() of a request that had the lock: it has it no more, and the tab is in the
\* race unless its task has come to its end by itself.
LEMMA Settling ==
    ASSUME NEW s \in State, NEW r \in Slot, SoundBut(s, r), InHand(s), InTheRace(s),
           s.req[r].phase \in {"held", "stolen"},
           NEW task \in {"running", "completed", "threw"},
           task = "running" => s.req[r].task = "running" /\ Room(s),
           task = "completed" => s.controller # r
    PROVE  /\ Settled(s, r, task) \in State /\ TabInv(Settled(s, r, task))
           /\ Holds(Settled(s, r, task)) = Holds(s) \ {r}
<1> DEFINE after == [s EXCEPT !.controller = IF @ = r THEN 0 ELSE @,
                              !.req[r] = IF task = "running"
                                         THEN [@ EXCEPT !.aborted = TRUE, !.phase = "over"]
                                         ELSE Free]
           q == IF task = "running" THEN [s.req[r] EXCEPT !.aborted = TRUE, !.phase = "over"] ELSE Free
<1>1. Settled(s, r, task) = IF task = "completed" THEN after ELSE Acquire(after, "queued")
  BY DEF Settled
<1>2. s.req[r] \in Record BY DEF State, Record
<1>3. q \in Record /\ Sound(q) /\ q.phase \in {"over", "free"} /\ (task # "running" => q.phase = "free")
  <2>1. CASE task = "running"
    BY <1>2, <2>1 DEF Record, Sound, Phase, Task
  <2>2. CASE task # "running" BY <2>2, Requesting DEF Free
  <2> QED BY <2>1, <2>2
<1>4. after = [s EXCEPT !.controller = IF s.controller = r THEN 0 ELSE s.controller, !.req[r] = q]
  BY DEF State
<1> HIDE DEF after, q
<1>5. /\ after \in State /\ after.controller = IF s.controller = r THEN 0 ELSE s.controller
      /\ after.stopped = s.stopped /\ after.paused = s.paused /\ after.retry = s.retry
  <2> DEFINE c == IF s.controller = r THEN 0 ELSE s.controller
  <2>1. c \in 0..MaxSlots BY DEF State
  <2> HIDE DEF c
  <2>2. after = [s EXCEPT !.controller = c, !.req[r] = q] BY <1>4 DEF c
  <2>3. after \in State BY <1>3, <2>1, <2>2, Changing
  <2>4. /\ after.controller = c /\ after.stopped = s.stopped /\ after.paused = s.paused
        /\ after.retry = s.retry
    BY <2>2 DEF State
  <2> QED BY <2>3, <2>4 DEF c
<1>6. \A u \in Slot : after.req[u] = IF u = r THEN q ELSE s.req[u] BY <1>4 DEF State
<1>7. \A u \in Slot : Sound(after.req[u]) BY <1>3, <1>6 DEF SoundBut
<1>8. InHand(after)
  <2>1. \A u \in Slot : after.req[u].phase = "queued" => s.controller = u /\ u # r
    BY <1>3, <1>6 DEF InHand
  <2>2. after.controller # 0 => after.controller = s.controller /\ after.controller \in Slot \ {r}
    BY <1>5 DEF State, Slot
  <2> QED BY <1>5, <1>6, <2>1, <2>2 DEF InHand
<1>9. Holds(after) = Holds(s) \ {r} BY <1>3, <1>6 DEF Holds
<1>10. CASE task = "completed"
  <2>1. InTheRace(after) BY <1>5, <1>10 DEF InTheRace
  <2> QED BY <1>1, <1>5, <1>7, <1>8, <1>9, <1>10, <2>1 DEF TabInv
<1>11. CASE task # "completed"
  <2>1. Room(after)
    <3>1. CASE task = "running"
      <4>1. PICK u \in Slot : s.req[u].phase = "free" BY <3>1 DEF Room, Spares
      <4> QED BY <1>6, <4>1 DEF Room, Spares
    <3>2. CASE task # "running" BY <1>3, <1>6, <3>2 DEF Room, Spares
    <3> QED BY <3>1, <3>2
  <2> QED BY <1>1, <1>5, <1>7, <1>8, <1>9, <1>11, <2>1, Acquiring
<1> QED BY <1>10, <1>11

-----------------------------------------------------------------------------
(* Turns and the queue. *)

LEMMA NobodyHolds == NoHolder \notin Requests
BY DEF NoHolder, Requests

\* What a turn does to the requests, and that the queue follows.
LEMMA Turning ==
    ASSUME IInv, NEW t \in Tab, NEW s \in State, TabInv(s), Turn(t, s)
    PROVE  /\ me' \in [Tab -> State] /\ \A u \in Tab : me'[u] = IF u = t THEN s ELSE me[u]
           /\ QueueInv' /\ \A u \in Tab : TabInv(me[u])'
<1>1. me' \in [Tab -> State] /\ \A u \in Tab : me'[u] = IF u = t THEN s ELSE me[u]
  BY DEF Turn, IInv, Types
<1>2. \A u \in Tab : TabInv(me[u])' BY <1>1 DEF IInv, TabInv, Sound, InHand, InTheRace
<1>3. /\ queue \in Seq(Requests) /\ IsInjective(queue) /\ ToSet(queue) = Queued
      /\ DOMAIN queue = 1..Len(queue) /\ Len(queue) \in Nat
  BY LenProperties DEF IInv, QueueInv
<1>4. \A r \in Slot : me[t].req[r].phase = "queued" => me[t].controller = r
  BY DEF IInv, TabInv, InHand
<1>5. \A r \in Slot : s.req[r].phase = "queued" => s.controller = r BY DEF TabInv, InHand
<1> DEFINE left == {i \in DOMAIN queue : queue[i][1] = t /\ s.req[queue[i][2]].phase # "queued"}
           made == {r \in Slot : s.req[r].phase = "queued" /\ me[t].req[r].phase # "queued"}
           w    == Without(left)
           stay == {q \in Queued : q[1] # t \/ s.req[q[2]].phase = "queued"}
<1>6. \A i \in DOMAIN queue : queue[i] \in Queued BY <1>3 DEF ToSet
<1>7. \A q \in Queued : q[1] \in Tab /\ q[2] \in Slot /\ q = <<q[1], q[2]>> /\ me[q[1]].req[q[2]].phase = "queued"
  BY DEF Queued, Requests, Req
<1>8. w \in Seq(Requests) /\ IsInjective(w) /\ ToSet(w) = stay
  <2>1. CASE left = {}
    <3>1. w = queue BY <2>1 DEF Without
    <3>2. \A q \in Queued : q[1] # t \/ s.req[q[2]].phase = "queued" BY <1>3, <2>1 DEF ToSet
    <3> QED BY <1>3, <3>1, <3>2
  <2>2. CASE left # {}
    <3>1. PICK i \in left : w = RemoveAt(queue, i) BY <2>2 DEF Without
    <3>2. i \in 1..Len(queue) /\ queue[i][1] = t /\ s.req[queue[i][2]].phase # "queued" BY <1>3
    <3> HIDE DEF w, left
    <3>3. w \in Seq(Requests) /\ IsInjective(w) /\ ToSet(w) = Queued \ {queue[i]}
      <4>1. /\ RemoveAt(queue, i) \in Seq(Requests) /\ IsInjective(RemoveAt(queue, i))
            /\ ToSet(RemoveAt(queue, i)) = ToSet(queue) \ {queue[i]}
        BY <1>3, <3>2, RemovedAt
      <4> QED BY <1>3, <3>1, <4>1
    <3>4. ASSUME NEW q \in Queued, q # queue[i] PROVE q[1] # t BY <1>3, <1>4, <1>6, <1>7, <3>2, <3>4
    <3> QED BY <3>2, <3>3, <3>4
  <2> QED BY <2>1, <2>2
<1>9. \A q \in Requests : Req(q)' = IF q[1] = t THEN s.req[q[2]] ELSE Req(q)
  BY <1>1 DEF Requests, Req
<1>10. queue' = IF made = {} THEN w ELSE Append(w, <<t, CHOOSE r \in made : TRUE>>)
  BY DEF Turn
<1> HIDE DEF w
<1>11. CASE made = {}
  <2>1. Queued' = stay BY <1>9, <1>11 DEF Queued, Requests, Req
  <2> QED BY <1>1, <1>2, <1>8, <1>10, <1>11, <2>1 DEF QueueInv
<1>12. CASE made # {}
  <2>1. PICK r \in made : queue' = Append(w, <<t, r>>) BY <1>10, <1>12
  <2>2. r \in Slot /\ <<t, r>> \in Requests /\ s.req[r].phase = "queued" /\ me[t].req[r].phase # "queued"
    BY DEF Requests
  <2>3. <<t, r>> \notin Queued BY <2>2 DEF Queued, Req
  <2>4. queue' \in Seq(Requests) /\ IsInjective(queue') /\ ToSet(queue') = stay \cup {<<t, r>>}
    <3> DEFINE e == <<t, r>>
    <3>1. e \in Requests /\ e \notin ToSet(w) /\ queue' = Append(w, e) BY <1>8, <2>1, <2>2, <2>3
    <3> HIDE DEF e
    <3>2. /\ Append(w, e) \in Seq(Requests) /\ IsInjective(Append(w, e))
          /\ ToSet(Append(w, e)) = ToSet(w) \cup {e}
      BY <1>8, <3>1, Appended
    <3>3. ToSet(w) = stay BY <1>8
    <3> QED BY <3>1, <3>2, <3>3 DEF e
  <2>5. ASSUME NEW q \in Requests PROVE q \in Queued' <=> q \in stay \cup {<<t, r>>}
    <3>1. q[2] \in Slot /\ q = <<q[1], q[2]>> BY DEF Requests
    <3>2. CASE q[1] # t BY <1>9, <3>2 DEF Queued
    <3>3. CASE q[1] = t
      <4>1. q \in Queued' <=> s.req[q[2]].phase = "queued" BY <1>9, <3>3 DEF Queued
      <4>2. s.req[q[2]].phase = "queued" <=> q[2] = r BY <1>5, <2>2, <3>1
      <4>3. q \in stay => q[2] = r BY <3>3, <4>2
      <4> QED BY <3>1, <3>3, <4>1, <4>2, <4>3
    <3> QED BY <3>2, <3>3
  <2>6. Queued' \subseteq Requests /\ stay \cup {<<t, r>>} \subseteq Requests BY <2>2 DEF Queued, Requests
  <2>7. Queued' = stay \cup {<<t, r>>} BY <2>5, <2>6
  <2> QED BY <1>1, <1>2, <2>4, <2>7 DEF QueueInv
<1> QED BY <1>11, <1>12

\* A turn that changes nothing about who has the lock.
LEMMA TurnsOnly ==
    ASSUME IInv, NEW t \in Tab, NEW s \in State, TabInv(s), Turn(t, s),
           Holds(s) = Holds(me[t]), UNCHANGED <<page, holder>>,
           open' \subseteq Requests, turns' \in 0..MaxTurns
    PROVE  IInv'
<1>1. /\ me' \in [Tab -> State] /\ \A u \in Tab : me'[u] = IF u = t THEN s ELSE me[u]
      /\ QueueInv' /\ \A u \in Tab : TabInv(me[u])'
  BY Turning
<1>2. HolderInv'
  <2> SUFFICES ASSUME NEW q \in Requests
               PROVE  (q = holder) <=> Req(q)'.phase \in {"granted", "held"}
    BY DEF HolderInv, Requests
  <2>1. q[1] \in Tab /\ q[2] \in Slot BY DEF Requests
  <2>2. Req(q)'.phase \in {"granted", "held"} <=> Req(q).phase \in {"granted", "held"}
    BY <1>1, <2>1 DEF Req, Holds
  <2> QED BY <2>2 DEF IInv, HolderInv
<1> QED BY <1>1, <1>2 DEF IInv, Types, Requests

-----------------------------------------------------------------------------
(* The actions of a tab. *)

\* What IInv says of one tab.
LEMMA OfTab ==
    ASSUME IInv, NEW t \in Tab
    PROVE  /\ me[t] \in State /\ TabInv(me[t]) /\ \A r \in Slot : Sound(me[t].req[r])
           /\ InHand(me[t]) /\ InTheRace(me[t])
           /\ \A r \in Slot : /\ me[t].req[r] \in Record
                              /\ (<<t, r>> = holder) <=> r \in Holds(me[t])
<1>1. me[t] \in State /\ TabInv(me[t]) BY DEF IInv, Types
<1>2. \A r \in Slot : me[t].req[r] \in Record BY <1>1 DEF State, Record
<1>3. ASSUME NEW r \in Slot PROVE (<<t, r>> = holder) <=> r \in Holds(me[t])
  <2>1. <<t, r>> \in Requests /\ Req(<<t, r>>) = me[t].req[r] BY DEF Requests, Req
  <2> QED BY <2>1 DEF IInv, HolderInv, Holds
<1> QED BY <1>1, <1>2, <1>3 DEF TabInv

\* The variables of a tab other than its requests may change as they like.
LEMMA Marking ==
    ASSUME NEW s \in State, NEW b \in BOOLEAN
    PROVE  /\ [s EXCEPT !.retry = b] \in State /\ [s EXCEPT !.paused = b] \in State
           /\ [s EXCEPT !.stopped = b] \in State
           /\ \A n \in {[s EXCEPT !.retry = b], [s EXCEPT !.paused = b], [s EXCEPT !.stopped = b]} :
                /\ n.req = s.req /\ n.controller = s.controller /\ Holds(n) = Holds(s)
                /\ Room(n) <=> Room(s)
                /\ InHand(s) => InHand(n)
BY DEF State, Holds, Room, Spares, InHand

LEMMA CallbackKeeps ==
    ASSUME IInv, NEW t \in Tab, NEW r \in Slot, Callback(t, r)
    PROVE  IInv'
<1> DEFINE q == me[t].req[r]
           f == [q EXCEPT !.task = "running", !.phase = IF @ = "granted" THEN "held" ELSE @]
           s == [me[t] EXCEPT !.holding = TRUE, !.socket = r,
                              !.req[r].task = "running",
                              !.req[r].phase = IF @ = "granted" THEN "held" ELSE @]
<1>1. q.phase \in {"granted", "stolen"} /\ q.task = "none" /\ q \in Record /\ Turn(t, s)
  BY OfTab DEF Callback
<1>2. f \in Record /\ Sound(f) /\ f.aborted = q.aborted
      /\ f.phase = (IF q.phase = "granted" THEN "held" ELSE "stolen")
  BY <1>1 DEF Record, Phase, Task, Sound
<1>3. s = [me[t] EXCEPT !.holding = TRUE, !.socket = r, !.req = [@ EXCEPT ![r] = f]]
  BY OfTab, <1>1 DEF State, Record
<1> HIDE DEF s, f
<1>4. /\ s \in State /\ s.controller = me[t].controller /\ s.stopped = me[t].stopped
      /\ s.paused = me[t].paused /\ s.retry = me[t].retry
      /\ s.req = [me[t].req EXCEPT ![r] = f]
  <2> DEFINE g == [me[t].req EXCEPT ![r] = f]
  <2>1. g \in [Slot -> Record] BY <1>2, OfTab DEF State, Record
  <2> HIDE DEF g
  <2>2. s = [me[t] EXCEPT !.holding = TRUE, !.socket = r, !.req = g] BY <1>3 DEF g
  <2>3. r \in 0..MaxSlots /\ me[t] \in State BY OfTab DEF Slot
  <2> QED BY <2>1, <2>2, <2>3 DEF State, Record, g
<1>5. \A u \in Slot : s.req[u] = IF u = r THEN f ELSE me[t].req[u] BY <1>4, OfTab DEF State
<1>6. \A u \in Slot : Sound(s.req[u]) BY <1>2, <1>5, OfTab
<1>7. InHand(s)
  <2>1. me[t].controller \in 0..MaxSlots /\ InHand(me[t]) BY OfTab DEF State
  <2> QED BY <1>1, <1>2, <1>4, <1>5, <2>1 DEF InHand, Slot
<1>8. InTheRace(s) BY <1>4, OfTab DEF InTheRace
<1>9. Holds(s) = Holds(me[t]) BY <1>1, <1>2, <1>5 DEF Holds
<1>10. open' \subseteq Requests /\ turns' \in 0..MaxTurns /\ UNCHANGED <<page, holder>>
  BY DEF Callback, IInv, Types, Requests
<1> QED BY <1>1, <1>4, <1>6, <1>7, <1>8, <1>9, <1>10, TurnsOnly DEF TabInv

LEMMA RejectStolenKeeps ==
    ASSUME IInv, NEW t \in Tab, NEW r \in Slot, RejectStolen(t, r)
    PROVE  IInv'
<1> DEFINE task == me[t].req[r].task
<1>1. /\ me[t].req[r].phase = "stolen" /\ task \in {"running", "completed", "threw"}
      /\ task = "running" => Room(me[t])
      /\ Turn(t, Settled(me[t], r, task)) /\ UNCHANGED <<page, holder, open, turns>>
  BY OfTab DEF RejectStolen, Record, Task
<1>2. task = "completed" => me[t].controller # r
  BY OfTab DEF Sound, InHand, Slot
<1>3. /\ Settled(me[t], r, task) \in State /\ TabInv(Settled(me[t], r, task))
      /\ Holds(Settled(me[t], r, task)) = Holds(me[t]) \ {r}
  BY <1>1, <1>2, OfTab, Settling DEF SoundBut
<1>4. Holds(me[t]) \ {r} = Holds(me[t]) BY <1>1 DEF Holds
<1>5. open' \subseteq Requests /\ turns' \in 0..MaxTurns BY <1>1 DEF IInv, Types
<1> QED BY <1>1, <1>3, <1>4, <1>5, TurnsOnly

LEMMA RefuseKeeps ==
    ASSUME IInv, NEW t \in Tab, NEW r \in Slot, Refuse(t, r)
    PROVE  IInv'
<1> DEFINE out == me[t].stopped \/ me[t].paused \/ me[t].req[r].aborted
           c == IF me[t].controller = r THEN 0 ELSE me[t].controller
           b == [me[t] EXCEPT !.retry = @ \/ ~out]
           s == [b EXCEPT !.controller = c, !.req[r] = Free]
<1>1. /\ me[t].req[r].phase \in {"queued", "stealing"} /\ UNCHANGED <<page, holder, open>>
      /\ turns < MaxTurns /\ turns' = turns + 1
      /\ Turn(t, [me[t] EXCEPT !.req[r] = Free,
                               !.controller = IF @ = r THEN 0 ELSE @,
                               !.retry = @ \/ ~out])
  BY DEF Refuse
<1>2. me[t] \in State /\ r # 0 BY OfTab DEF Slot
<1>3. Turn(t, s)
  <2>1. [me[t] EXCEPT !.req[r] = Free, !.controller = IF @ = r THEN 0 ELSE @, !.retry = @ \/ ~out] = s
    BY <1>2 DEF State
  <2> QED BY <1>1, <2>1
<1>4. /\ b \in State /\ b.req = me[t].req /\ b.controller = me[t].controller
      /\ b.stopped = me[t].stopped /\ b.paused = me[t].paused
      /\ b.retry = (me[t].retry \/ ~out)
  BY <1>2 DEF State, Record
<1> HIDE DEF b
<1>5. c \in 0..MaxSlots BY <1>2 DEF State
<1> HIDE DEF c
<1>6. s \in State BY <1>4, <1>5, Requesting, Changing
<1>7. /\ s.controller = c /\ s.stopped = me[t].stopped /\ s.paused = me[t].paused
      /\ s.retry = (me[t].retry \/ ~out)
      /\ \A u \in Slot : s.req[u] = IF u = r THEN Free ELSE me[t].req[u]
  BY <1>4 DEF State
<1> HIDE DEF s
<1>8. \A u \in Slot : Sound(s.req[u]) BY <1>7, OfTab, Requesting
<1>9. InHand(s)
  <2>1. c # 0 => c = me[t].controller /\ c \in Slot \ {r} BY <1>2, <1>5 DEF c, Slot
  <2>2. \A u \in Slot : s.req[u].phase = "queued" => me[t].controller = u /\ u # r
    BY <1>7, OfTab DEF InHand, Free
  <2> QED BY <1>7, <2>1, <2>2, OfTab DEF InHand, c
<1>10. InTheRace(s)
  <2>1. CASE me[t].controller = r
    <3>1. ~me[t].req[r].aborted BY <1>2, <2>1, OfTab DEF InHand
    <3> QED BY <1>7, <3>1, OfTab DEF InTheRace
  <2>2. CASE me[t].controller # r BY <1>7, <2>2, OfTab DEF InTheRace, c
  <2> QED BY <2>1, <2>2
<1>11. Holds(s) = Holds(me[t]) BY <1>1, <1>7 DEF Holds, Free
<1>12. open' \subseteq Requests /\ turns' \in 0..MaxTurns BY <1>1, SMT DEF IInv, Types
<1> QED BY <1>1, <1>3, <1>6, <1>8, <1>9, <1>10, <1>11, <1>12, TurnsOnly DEF TabInv

LEMMA RetryFiresKeeps ==
    ASSUME IInv, NEW t \in Tab, RetryFires(t)
    PROVE  IInv'
<1> DEFINE b == [me[t] EXCEPT !.retry = FALSE]
           s == Acquire(b, "queued")
<1>1. Room(me[t]) /\ Turn(t, s) /\ UNCHANGED <<page, holder, open, turns>> BY DEF RetryFires
<1>2. b \in State /\ b.req = me[t].req /\ InHand(b) /\ Room(b) /\ Holds(b) = Holds(me[t])
  BY <1>1, OfTab, Marking
<1>3. \A r \in Slot : Sound(b.req[r]) BY <1>2, OfTab
<1> HIDE DEF b
<1>4. s \in State /\ TabInv(s) /\ Holds(s) = Holds(me[t]) BY <1>2, <1>3, Acquiring
<1>5. open' \subseteq Requests /\ turns' \in 0..MaxTurns BY <1>1 DEF IInv, Types
<1> QED BY <1>1, <1>4, <1>5, TurnsOnly

LEMMA OnResumeKeeps ==
    ASSUME IInv, NEW t \in Tab, OnResume(t)
    PROVE  IInv'
<1> DEFINE b == [me[t] EXCEPT !.paused = FALSE]
           s == Acquire(b, "queued")
<1>1. Room(me[t]) /\ Turn(t, s) /\ UNCHANGED <<page, holder, open, turns>> BY DEF OnResume
<1>2. b \in State /\ b.req = me[t].req /\ InHand(b) /\ Room(b) /\ Holds(b) = Holds(me[t])
  BY <1>1, OfTab, Marking
<1>3. \A r \in Slot : Sound(b.req[r]) BY <1>2, OfTab
<1> HIDE DEF b
<1>4. s \in State /\ TabInv(s) /\ Holds(s) = Holds(me[t]) BY <1>2, <1>3, Acquiring
<1>5. open' \subseteq Requests /\ turns' \in 0..MaxTurns BY <1>1 DEF IInv, Types
<1> QED BY <1>1, <1>4, <1>5, TurnsOnly

LEMMA WatchdogKeeps ==
    ASSUME IInv, NEW t \in Tab, Watchdog(t)
    PROVE  IInv'
<1> DEFINE b == Release(me[t])
           s == Acquire(b, "stealing")
<1>1. Room(me[t]) /\ Turn(t, s) /\ UNCHANGED <<page, holder, open, turns>> BY DEF Watchdog
<1>2. /\ b \in State /\ \A r \in Slot : Sound(b.req[r])
      /\ InHand(b) /\ Room(b) /\ Holds(b) = Holds(me[t])
  BY <1>1, OfTab, Releasing
<1> HIDE DEF b
<1>3. s \in State /\ TabInv(s) /\ Holds(s) = Holds(me[t]) BY <1>2, Acquiring
<1>4. open' \subseteq Requests /\ turns' \in 0..MaxTurns BY <1>1 DEF IInv, Types
<1> QED BY <1>1, <1>3, <1>4, TurnsOnly

LEMMA OnFreezeKeeps ==
    ASSUME IInv, NEW t \in Tab, OnFreeze(t)
    PROVE  IInv'
<1> DEFINE b == [me[t] EXCEPT !.paused = TRUE]
           s == Release(b)
<1>1. /\ Turn(t, s) /\ UNCHANGED <<page, holder, open>> /\ turns < MaxTurns /\ turns' = turns + 1
  BY DEF OnFreeze
<1>2. b \in State /\ b.req = me[t].req /\ InHand(b) /\ Holds(b) = Holds(me[t]) /\ b.paused
  <2>1. b.paused BY OfTab DEF State
  <2> QED BY <2>1, OfTab, Marking
<1>3. \A r \in Slot : Sound(b.req[r]) BY <1>2, OfTab
<1> HIDE DEF b
<1>4. s \in State /\ TabInv(s) /\ Holds(s) = Holds(me[t])
  BY <1>2, <1>3, Releasing DEF TabInv, InTheRace
<1>5. open' \subseteq Requests /\ turns' \in 0..MaxTurns BY <1>1, SMT DEF IInv, Types
<1> QED BY <1>1, <1>4, <1>5, TurnsOnly

LEMMA StopKeeps ==
    ASSUME IInv, NEW t \in Tab, Stop(t)
    PROVE  IInv'
<1> DEFINE b == [me[t] EXCEPT !.stopped = TRUE]
           s == Release(b)
<1>1. /\ Turn(t, s) /\ UNCHANGED <<page, holder, open>> /\ turns < MaxTurns /\ turns' = turns + 1
  BY DEF Stop
<1>2. b \in State /\ b.req = me[t].req /\ InHand(b) /\ Holds(b) = Holds(me[t]) /\ b.stopped
  <2>1. b.stopped BY OfTab DEF State
  <2> QED BY <2>1, OfTab, Marking
<1>3. \A r \in Slot : Sound(b.req[r]) BY <1>2, OfTab
<1> HIDE DEF b
<1>4. s \in State /\ TabInv(s) /\ Holds(s) = Holds(me[t])
  BY <1>2, <1>3, Releasing DEF TabInv, InTheRace
<1>5. open' \subseteq Requests /\ turns' \in 0..MaxTurns BY <1>1, SMT DEF IInv, Types
<1> QED BY <1>1, <1>4, <1>5, TurnsOnly

LEMMA TaskEndsKeeps ==
    ASSUME IInv, NEW t \in Tab, NEW r \in Slot, TaskEnds(t, r)
    PROVE  IInv'
<1> DEFINE q == me[t].req[r]
           outcome == IF me[t].socket = 0 THEN "threw" ELSE "completed"
           f == [q EXCEPT !.task = outcome]
           after == [me[t] EXCEPT !.holding = FALSE, !.socket = 0, !.req[r].task = outcome]
           s == CASE q.phase = "held"   -> Settled(after, r, outcome)
                  [] q.phase = "stolen" -> after
                  [] q.phase = "over"   -> [after EXCEPT !.req[r] = Free]
<1>1. /\ q.task = "running" /\ q.aborted /\ Turn(t, s) /\ open' \subseteq open
      /\ holder' = IF holder = <<t, r>> THEN NoHolder ELSE holder
      /\ UNCHANGED <<page, turns>>
  BY DEF TaskEnds
<1>2. q \in Record /\ q.phase \in {"held", "stolen", "over"} /\ me[t] \in State
  BY <1>1, OfTab DEF Sound
<1>3. me[t].controller # r BY <1>1, OfTab DEF InHand, Slot
<1>4. /\ f \in Record /\ f.task = outcome /\ f.phase = q.phase /\ f.aborted
      /\ outcome \in {"threw", "completed"}
      /\ q.phase = "stolen" => Sound(f)
  BY <1>1, <1>2 DEF Record, Task, Sound
<1>5. /\ after \in State /\ after.controller = me[t].controller /\ after.stopped = me[t].stopped
      /\ after.paused = me[t].paused /\ after.retry = me[t].retry
      /\ \A u \in Slot : after.req[u] = IF u = r THEN f ELSE me[t].req[u]
  <2> DEFINE g == [me[t].req EXCEPT ![r] = f]
  <2>1. g \in [Slot -> Record] BY <1>4, OfTab DEF State, Record
  <2>2. \A u \in Slot : g[u] = IF u = r THEN f ELSE me[t].req[u] BY <1>2 DEF State
  <2>3. after = [me[t] EXCEPT !.holding = FALSE, !.socket = 0, !.req = g] BY <1>2 DEF State, Record
  <2> HIDE DEF g, after
  <2>4. after \in State /\ after.req = g
    <3>1. 0 \in 0..MaxSlots /\ me[t] \in State BY <1>2
    <3>2. /\ [me[t] EXCEPT !.holding = FALSE, !.socket = 0, !.req = g] \in State
          /\ [me[t] EXCEPT !.holding = FALSE, !.socket = 0, !.req = g].req = g
      BY <2>1, <3>1 DEF State, Record
    <3> QED BY <2>3, <3>2
  <2> QED BY <1>2, <2>2, <2>3, <2>4 DEF State
<1> HIDE DEF after, f, outcome
<1>6. SoundBut(after, r) BY <1>5, OfTab DEF SoundBut
<1>7. InHand(after)
  <2>1. after.controller # 0 => after.controller \in Slot \ {r} BY <1>3, <1>5 DEF State, Slot
  <2> QED BY <1>4, <1>5, <2>1, OfTab DEF InHand
<1>8. InTheRace(after) BY <1>5, OfTab DEF InTheRace
<1>9. Holds(after) = Holds(me[t]) BY <1>4, <1>5 DEF Holds
<1>10. open' \subseteq Requests /\ turns' \in 0..MaxTurns BY <1>1 DEF IInv, Types
<1>11. CASE q.phase = "held"
  <2>1. s = Settled(after, r, outcome) BY <1>11
  <2>2. s \in State /\ TabInv(s) /\ Holds(s) = Holds(me[t]) \ {r}
    <3>1. after.req[r].phase = "held" BY <1>4, <1>5, <1>11
    <3>2. after.controller # r BY <1>3, <1>5
    <3> QED BY <1>4, <1>5, <1>6, <1>7, <1>8, <1>9, <2>1, <3>1, <3>2, Settling
  <2>3. holder = <<t, r>> /\ holder' = NoHolder BY <1>1, <1>11, OfTab DEF Holds
  <2> HIDE DEF s
  <2>4. /\ me' \in [Tab -> State] /\ \A u \in Tab : me'[u] = IF u = t THEN s ELSE me[u]
        /\ QueueInv' /\ \A u \in Tab : TabInv(me[u])'
    BY <1>1, <2>2, Turning
  <2>5. HolderInv'
    <3> SUFFICES ASSUME NEW p \in Requests
                 PROVE  (p = holder') <=> Req(p)'.phase \in {"granted", "held"}
      BY DEF HolderInv, Requests
    <3>1. p # holder' BY <2>3, NobodyHolds
    <3>2. p[1] \in Tab /\ p[2] \in Slot /\ p = <<p[1], p[2]>> BY DEF Requests
    <3>3. CASE p[1] # t
      <4>1. p # holder BY <2>3, <3>3
      <4>2. Req(p).phase \notin {"granted", "held"} BY <4>1 DEF IInv, HolderInv
      <4> QED BY <2>4, <3>1, <3>2, <3>3, <4>2 DEF Req
    <3>4. CASE p[1] = t
      <4>1. Req(p)'.phase = s.req[p[2]].phase BY <2>4, <3>2, <3>4 DEF Req
      <4>2. p[2] \in Holds(me[t]) => p = holder BY <3>2, <3>4, OfTab
      <4>3. p[2] \notin Holds(s) BY <2>2, <2>3, <3>2, <4>2
      <4> QED BY <3>1, <3>2, <4>1, <4>3 DEF Holds
    <3> QED BY <3>3, <3>4
  <2> QED BY <1>1, <1>10, <2>3, <2>4, <2>5 DEF IInv, Types
<1>12. ASSUME q.phase # "held" PROVE UNCHANGED holder
  <2>1. r \notin Holds(me[t]) BY <1>2, <1>12 DEF Holds
  <2> QED BY <1>1, <2>1, OfTab
<1>13. CASE q.phase = "stolen"
  <2>1. s = after BY <1>13
  <2>2. \A u \in Slot : Sound(after.req[u]) BY <1>4, <1>5, <1>13, OfTab
  <2> QED BY <1>1, <1>5, <1>7, <1>8, <1>9, <1>10, <1>12, <1>13, <2>1, <2>2, TurnsOnly DEF TabInv
<1>14. CASE q.phase = "over"
  <2>1. s = [after EXCEPT !.req[r] = Free] BY <1>14
  <2> HIDE DEF s
  <2>2. s = [after EXCEPT !.controller = after.controller, !.req[r] = Free] BY <1>5, <2>1 DEF State
  <2>3. after.controller \in 0..MaxSlots BY <1>5 DEF State
  <2>4. s \in State BY <1>5, <2>2, <2>3, Requesting, Changing
  <2>5. /\ s.controller = after.controller /\ s.stopped = after.stopped
        /\ s.paused = after.paused /\ s.retry = after.retry
        /\ \A u \in Slot : s.req[u] = IF u = r THEN Free ELSE after.req[u]
    BY <1>5, <2>1 DEF State
  <2>6. \A u \in Slot : Sound(s.req[u]) BY <1>6, <2>5, Requesting DEF SoundBut
  <2>7. InHand(s)
    <3>1. after.controller # 0 => after.controller \in Slot \ {r} BY <1>3, <1>5 DEF State, Slot
    <3> QED BY <1>7, <2>5, <3>1 DEF InHand, Free
  <2>8. InTheRace(s) BY <1>8, <2>5 DEF InTheRace
  <2>9. Holds(s) = Holds(me[t]) BY <1>4, <1>5, <1>9, <1>14, <2>5 DEF Holds, Free
  <2> QED BY <1>1, <1>10, <1>12, <1>14, <2>4, <2>6, <2>7, <2>8, <2>9, TurnsOnly DEF TabInv, s
<1> QED BY <1>2, <1>11, <1>13, <1>14

-----------------------------------------------------------------------------
(* The actions of the browser. *)

\* A request of some tab goes on to another phase.
Moved(m, t, r, p) == [m EXCEPT ![t].req[r].phase = p]

LEMMA Moving ==
    ASSUME NEW m \in [Tab -> State], NEW t \in Tab, NEW r \in Slot, NEW p \in Phase
    PROVE  /\ Moved(m, t, r, p) \in [Tab -> State]
           /\ \A u \in Tab : /\ Moved(m, t, r, p)[u].controller = m[u].controller
                             /\ Moved(m, t, r, p)[u].stopped = m[u].stopped
                             /\ Moved(m, t, r, p)[u].paused = m[u].paused
                             /\ Moved(m, t, r, p)[u].retry = m[u].retry
           /\ \A u \in Tab, v \in Slot :
                 Moved(m, t, r, p)[u].req[v] =
                    IF u = t /\ v = r THEN [m[t].req[r] EXCEPT !.phase = p] ELSE m[u].req[v]
<1> DEFINE f == [m[t].req[r] EXCEPT !.phase = p]
           g == [m[t].req EXCEPT ![r] = f]
           s == [m[t] EXCEPT !.req = g]
           n == Moved(m, t, r, p)
<1>1. m[t] \in State /\ m[t].req \in [Slot -> Record] /\ m[t].req[r] \in Record BY DEF State, Record
<1>2. f \in Record BY <1>1 DEF Record
<1> HIDE DEF f
<1>3. g \in [Slot -> Record] /\ \A v \in Slot : g[v] = IF v = r THEN f ELSE m[t].req[v]
  BY <1>1, <1>2
<1>4. n = [m EXCEPT ![t] = s]
  BY <1>1 DEF State, f, Moved
<1> HIDE DEF g, n
<1>5. /\ s \in State /\ s.req = g /\ s.controller = m[t].controller /\ s.stopped = m[t].stopped
      /\ s.paused = m[t].paused /\ s.retry = m[t].retry
  BY <1>1, <1>3 DEF State, Record
<1> HIDE DEF s
<1>6. n \in [Tab -> State] /\ \A u \in Tab : n[u] = IF u = t THEN s ELSE m[u] BY <1>4, <1>5
<1>7. /\ n \in [Tab -> State]
      /\ \A u \in Tab : /\ n[u].controller = m[u].controller /\ n[u].stopped = m[u].stopped
                        /\ n[u].paused = m[u].paused /\ n[u].retry = m[u].retry
      /\ \A u \in Tab, v \in Slot : n[u].req[v] = IF u = t /\ v = r THEN f ELSE m[u].req[v]
  BY <1>3, <1>5, <1>6
<1> QED BY <1>7 DEF f, n

\* Requests that change, and are as sound as before, leave each tab as it should be if none
\* becomes one that waits, and none that is alive comes to its end.
LEMMA StillSound ==
    ASSUME IInv, NEW n \in [Tab -> State],
           \A u \in Tab : /\ n[u].controller = me[u].controller /\ n[u].stopped = me[u].stopped
                          /\ n[u].paused = me[u].paused /\ n[u].retry = me[u].retry,
           \A u \in Tab, v \in Slot :
              /\ Sound(n[u].req[v])
              /\ n[u].req[v].aborted = me[u].req[v].aborted
              /\ n[u].req[v].phase = "queued" => me[u].req[v].phase = "queued"
              /\ n[u].req[v].phase \in {"free", "over"} => me[u].req[v].phase \in {"free", "over"}
    PROVE  \A u \in Tab : TabInv(n[u])
<1> SUFFICES ASSUME NEW u \in Tab PROVE TabInv(n[u])
  OBVIOUS
<1>1. me[u] \in State /\ InHand(me[u]) /\ InTheRace(me[u]) BY OfTab
<1>2. n[u].controller # 0 => n[u].controller \in Slot BY DEF State, Slot
<1>3. InHand(n[u]) BY <1>1, <1>2 DEF InHand
<1> QED BY <1>1, <1>3 DEF TabInv, InTheRace

LEMMA GrantKeeps ==
    ASSUME IInv, Grant
    PROVE  IInv'
<1> DEFINE q == Head(queue)
           t == q[1]
           r == q[2]
<1>1. /\ holder = NoHolder /\ queue # <<>> /\ holder' = q /\ queue' = Tail(queue)
      /\ UNCHANGED <<page, open, turns>>
  BY DEF Grant
<1>2. me' = [me EXCEPT ![t].req[r].phase = "granted"] BY <1>1 DEF Grant
<1>3. queue \in Seq(Requests) /\ IsInjective(queue) /\ ToSet(queue) = Queued BY DEF IInv, QueueInv
<1>4. /\ q \in Queued /\ Tail(queue) \in Seq(Requests) /\ IsInjective(Tail(queue))
      /\ ToSet(Tail(queue)) = Queued \ {q}
  BY <1>1, <1>3, Headed
<1>5. /\ q \in Requests /\ t \in Tab /\ r \in Slot /\ q = <<t, r>>
      /\ me[t].req[r].phase = "queued" /\ me[t].req[r] \in Record
  <2>1. q \in Requests /\ Req(q).phase = "queued" BY <1>4 DEF Queued
  <2>2. t \in Tab /\ r \in Slot /\ q = <<t, r>> BY <2>1 DEF Requests
  <2> QED BY <2>1, <2>2, OfTab DEF Req
<1> DEFINE f == [me[t].req[r] EXCEPT !.phase = "granted"]
<1>6. f \in Record /\ f.phase = "granted" /\ f.aborted = me[t].req[r].aborted /\ Sound(f)
  BY <1>5, OfTab DEF Sound, Record, Phase
<1> HIDE DEF q
<1>7. /\ me' \in [Tab -> State]
      /\ \A u \in Tab : /\ me'[u].controller = me[u].controller /\ me'[u].stopped = me[u].stopped
                        /\ me'[u].paused = me[u].paused /\ me'[u].retry = me[u].retry
      /\ \A u \in Tab, v \in Slot : me'[u].req[v] = IF u = t /\ v = r THEN f ELSE me[u].req[v]
  <2>1. "granted" \in Phase /\ me \in [Tab -> State] BY DEF Phase, IInv, Types
  <2> DEFINE n == Moved(me, t, r, "granted")
  <2>2. t \in Tab /\ r \in Slot /\ me' = n /\ n = Moved(me, t, r, "granted")
    BY <1>2, <1>5 DEF Moved
  <2> HIDE DEF t, r, f, n
  <2>3. /\ n \in [Tab -> State]
        /\ \A u \in Tab : /\ n[u].controller = me[u].controller /\ n[u].stopped = me[u].stopped
                          /\ n[u].paused = me[u].paused /\ n[u].retry = me[u].retry
        /\ \A u \in Tab, v \in Slot :
              n[u].req[v] = IF u = t /\ v = r THEN [me[t].req[r] EXCEPT !.phase = "granted"]
                                              ELSE me[u].req[v]
    BY <2>1, <2>2, Moving
  <2> QED BY <2>2, <2>3 DEF f
<1> HIDE DEF f, t, r
<1>8. \A u \in Tab : TabInv(me'[u])
  <2>1. \A u \in Tab, v \in Slot :
           /\ Sound(me'[u].req[v])
           /\ me'[u].req[v].aborted = me[u].req[v].aborted
           /\ me'[u].req[v].phase = "queued" => me[u].req[v].phase = "queued"
           /\ me'[u].req[v].phase \in {"free", "over"} => me[u].req[v].phase \in {"free", "over"}
    BY <1>6, <1>7, OfTab
  <2> DEFINE n == me'
  <2>2. /\ n \in [Tab -> State]
        /\ \A u \in Tab : /\ n[u].controller = me[u].controller /\ n[u].stopped = me[u].stopped
                          /\ n[u].paused = me[u].paused /\ n[u].retry = me[u].retry
        /\ \A u \in Tab, v \in Slot :
              /\ Sound(n[u].req[v])
              /\ n[u].req[v].aborted = me[u].req[v].aborted
              /\ n[u].req[v].phase = "queued" => me[u].req[v].phase = "queued"
              /\ n[u].req[v].phase \in {"free", "over"} => me[u].req[v].phase \in {"free", "over"}
    BY <1>7, <2>1
  <2> HIDE DEF n
  <2>3. \A u \in Tab : TabInv(n[u]) BY <2>2, StillSound
  <2> QED BY <2>3 DEF n
<1>9. \A p \in Requests : Req(p)' = IF p = q THEN f ELSE Req(p)
  <2> SUFFICES ASSUME NEW p \in Requests PROVE Req(p)' = IF p = q THEN f ELSE Req(p)
    OBVIOUS
  <2>1. p[1] \in Tab /\ p[2] \in Slot /\ p = <<p[1], p[2]>> BY DEF Requests
  <2>2. Req(p)' = me'[p[1]].req[p[2]] BY DEF Req
  <2>3. p = q <=> p[1] = t /\ p[2] = r BY <1>5, <2>1
  <2> QED BY <1>7, <2>1, <2>2, <2>3 DEF Req
<1>10. Queued' = Queued \ {q}
  <2>1. Queued' = {p \in Requests : Req(p)'.phase = "queued"} BY DEF Queued, Requests
  <2> QED BY <1>6, <1>9, <2>1 DEF Queued
<1>11. HolderInv'
  <2> SUFFICES ASSUME NEW p \in Requests
               PROVE  (p = holder') <=> Req(p)'.phase \in {"granted", "held"}
    BY DEF HolderInv, Requests
  <2>1. Req(p).phase \notin {"granted", "held"} BY <1>1, NobodyHolds DEF IInv, HolderInv
  <2> QED BY <1>1, <1>6, <1>9, <2>1
<1> QED BY <1>1, <1>4, <1>5, <1>7, <1>8, <1>10, <1>11
        DEF IInv, Types, QueueInv, Requests, TabInv, Sound, InHand, InTheRace

LEMMA GrantStealKeeps ==
    ASSUME IInv, NEW t \in Tab, NEW r \in Slot, GrantSteal(t, r)
    PROVE  IInv'
<1> DEFINE robbed == IF holder = NoHolder THEN me
                     ELSE [me EXCEPT ![holder[1]].req[holder[2]].phase = "stolen"]
           n == [robbed EXCEPT ![t].req[r].phase = "granted"]
           f == [me[t].req[r] EXCEPT !.phase = "granted"]
           l(u, v) == [me[u].req[v] EXCEPT !.phase = "stolen"]
           h == <<t, r>>
<1>1. /\ me[t].req[r].phase = "stealing" /\ holder' = h /\ me' = n
      /\ UNCHANGED <<page, queue, open, turns>>
  BY DEF GrantSteal
<1>2. me \in [Tab -> State] /\ "granted" \in Phase /\ "stolen" \in Phase
  BY DEF IInv, Types, Phase
<1>3. h \in Requests /\ Req(h) = me[t].req[r] /\ h # holder
  <2>1. h \in Requests /\ Req(h) = me[t].req[r] BY DEF Requests, Req
  <2>2. Req(h).phase \notin {"granted", "held"} BY <1>1, <2>1
  <2> QED BY <2>1, <2>2 DEF IInv, HolderInv
<1>4. f.phase = "granted" /\ f.aborted = me[t].req[r].aborted /\ Sound(f)
  BY <1>1, OfTab DEF Sound, Record
<1>5. /\ robbed \in [Tab -> State]
      /\ \A u \in Tab : /\ robbed[u].controller = me[u].controller
                        /\ robbed[u].stopped = me[u].stopped
                        /\ robbed[u].paused = me[u].paused /\ robbed[u].retry = me[u].retry
      /\ \A u \in Tab, v \in Slot :
            robbed[u].req[v] = IF <<u, v>> = holder THEN l(u, v) ELSE me[u].req[v]
  <2>1. CASE holder = NoHolder
    <3>1. \A u \in Tab, v \in Slot : <<u, v>> # holder BY <2>1 DEF NoHolder
    <3> QED BY <1>2, <2>1, <3>1
  <2>2. CASE holder # NoHolder
    <3> DEFINE a == holder[1]
               b == holder[2]
               m == Moved(me, a, b, "stolen")
    <3>1. a \in Tab /\ b \in Slot /\ holder = <<a, b>> BY <2>2 DEF IInv, Types, Requests
    <3>2. robbed = m /\ m = Moved(me, a, b, "stolen") BY <2>2 DEF Moved
    <3> HIDE DEF a, b, robbed, m, n, f, l, h
    <3>3. /\ m \in [Tab -> State]
          /\ \A u \in Tab : /\ m[u].controller = me[u].controller /\ m[u].stopped = me[u].stopped
                            /\ m[u].paused = me[u].paused /\ m[u].retry = me[u].retry
          /\ \A u \in Tab, v \in Slot :
                m[u].req[v] = IF u = a /\ v = b THEN [me[a].req[b] EXCEPT !.phase = "stolen"]
                                                ELSE me[u].req[v]
      BY <1>2, <3>1, <3>2, Moving, SMTT(20)
    <3> QED BY <3>1, <3>2, <3>3 DEF l
  <2> QED BY <2>1, <2>2
<1> HIDE DEF robbed
<1>6. robbed[t].req[r] = me[t].req[r] BY <1>3, <1>5
<1>7. /\ n \in [Tab -> State]
      /\ \A u \in Tab : /\ n[u].controller = me[u].controller /\ n[u].stopped = me[u].stopped
                        /\ n[u].paused = me[u].paused /\ n[u].retry = me[u].retry
      /\ \A u \in Tab, v \in Slot :
            n[u].req[v] = IF u = t /\ v = r THEN f ELSE robbed[u].req[v]
  <2>0. n = Moved(robbed, t, r, "granted") BY DEF Moved
  <2> HIDE DEF f, l, h, n
  <2>1. /\ n \in [Tab -> State]
        /\ \A u \in Tab : /\ n[u].controller = robbed[u].controller
                          /\ n[u].stopped = robbed[u].stopped
                          /\ n[u].paused = robbed[u].paused /\ n[u].retry = robbed[u].retry
        /\ \A u \in Tab, v \in Slot :
              n[u].req[v] = IF u = t /\ v = r THEN [robbed[t].req[r] EXCEPT !.phase = "granted"]
                                              ELSE robbed[u].req[v]
    BY <2>0, <1>2, <1>5, Moving
  <2>2. [robbed[t].req[r] EXCEPT !.phase = "granted"] = f BY <1>6 DEF f
  <2> QED BY <1>5, <2>1, <2>2
<1> HIDE DEF n, f
<1>8. \A u \in Tab, v \in Slot :
         n[u].req[v] = IF u = t /\ v = r THEN f
                       ELSE IF <<u, v>> = holder THEN l(u, v)
                       ELSE me[u].req[v]
  BY <1>5, <1>7
<1>9. ASSUME NEW u \in Tab, NEW v \in Slot, <<u, v>> = holder
      PROVE  /\ l(u, v).phase = "stolen" /\ l(u, v).aborted = me[u].req[v].aborted
             /\ Sound(l(u, v)) /\ me[u].req[v].phase \in {"granted", "held"}
  <2>1. /\ me[u].req[v].phase \in {"granted", "held"} /\ me[u].req[v] \in Record
        /\ Sound(me[u].req[v])
    BY <1>9, OfTab DEF Holds
  <2> QED BY <2>1 DEF Sound, Record
<1> HIDE DEF l
<1>10. \A u \in Tab : TabInv(n[u])
  <2>1. \A u \in Tab, v \in Slot :
           /\ Sound(n[u].req[v])
           /\ n[u].req[v].aborted = me[u].req[v].aborted
           /\ n[u].req[v].phase = "queued" => me[u].req[v].phase = "queued"
           /\ n[u].req[v].phase \in {"free", "over"} => me[u].req[v].phase \in {"free", "over"}
    BY <1>4, <1>8, <1>9, OfTab
  <2> QED BY <1>7, <2>1, StillSound
<1>11. \A p \in Requests : LET q == Req(p)' IN
         /\ q.phase = "queued" <=> Req(p).phase = "queued"
         /\ q.phase \in {"granted", "held"} <=> p = h
  <2> SUFFICES ASSUME NEW p \in Requests
               PROVE  /\ Req(p)'.phase = "queued" <=> Req(p).phase = "queued"
                      /\ Req(p)'.phase \in {"granted", "held"} <=> p = h
    OBVIOUS
  <2>1. p[1] \in Tab /\ p[2] \in Slot /\ p = <<p[1], p[2]>> BY DEF Requests
  <2>2. Req(p)' = n[p[1]].req[p[2]] /\ Req(p) = me[p[1]].req[p[2]] BY <1>1 DEF Req
  <2>3. CASE p = h BY <1>1, <1>3, <1>4, <1>8, <2>1, <2>2, <2>3
  <2>4. CASE p # h /\ p = holder
    <3>1. Req(p)'.phase = "stolen" BY <1>8, <1>9, <2>1, <2>2, <2>4
    <3>2. Req(p).phase \in {"granted", "held"} BY <1>9, <2>1, <2>2, <2>4
    <3> QED BY <2>4, <3>1, <3>2
  <2>5. CASE p # h /\ p # holder
    <3>1. Req(p)' = Req(p) BY <1>8, <2>1, <2>2, <2>5
    <3>2. Req(p).phase \notin {"granted", "held"} BY <2>5 DEF IInv, HolderInv
    <3> QED BY <2>5, <3>1, <3>2
  <2> QED BY <2>3, <2>4, <2>5
<1>12. HolderInv' BY <1>1, <1>11 DEF HolderInv, Requests
<1>13. Queued' = Queued BY <1>11 DEF Queued, Requests
<1>14. QueueInv' BY <1>1, <1>13 DEF IInv, QueueInv, Requests
<1>15. \A u \in Tab : TabInv(me[u])'
  BY <1>1, <1>10 DEF TabInv, Sound, InHand, InTheRace
<1>16. Types' BY <1>1, <1>3, <1>7 DEF IInv, Types, Requests
<1> QED BY <1>12, <1>14, <1>15, <1>16 DEF IInv

\* A tab that is gone asks for nothing.
LEMMA NobodyThere ==
    Gone \in State /\ TabInv(Gone) /\ Gone.req = [r \in Slot |-> Free]
<1> DEFINE g == [r \in Slot |-> Free]
<1>1. g \in [Slot -> Record] /\ \A r \in Slot : Sound(g[r]) /\ g[r].phase = "free"
  BY Requesting DEF Free
<1>2. Gone = [stopped |-> TRUE, paused |-> FALSE, holding |-> FALSE, controller |-> 0,
              retry |-> FALSE, socket |-> 0, req |-> g]
  BY DEF Gone
<1> HIDE DEF g
<1>3. 0 \in 0..MaxSlots OBVIOUS
<1>4. Gone \in State /\ TabInv(Gone) /\ Gone.req = g
  BY <1>1, <1>2, <1>3 DEF State, Record, TabInv, InHand, InTheRace
<1> QED BY <1>4 DEF g

LEMMA CloseKeeps ==
    ASSUME IInv, NEW t \in Tab, Close(t)
    PROVE  IInv'
<1> DEFINE left == {i \in DOMAIN queue : queue[i][1] = t}
           stay == {q \in Queued : q[1] # t}
<1>1. /\ page' = [page EXCEPT ![t] = "closed"] /\ me' = [me EXCEPT ![t] = Gone]
      /\ holder' = IF holder # NoHolder /\ holder[1] = t THEN NoHolder ELSE holder
      /\ queue' = Without(left) /\ open' \subseteq open
      /\ turns < MaxTurns /\ turns' = turns + 1
  BY DEF Close
<1>2. Gone \in State /\ TabInv(Gone) /\ \A r \in Slot : Gone.req[r].phase = "free"
  BY NobodyThere DEF Free
<1>3. me' \in [Tab -> State] /\ \A u \in Tab : me'[u] = IF u = t THEN Gone ELSE me[u]
  BY <1>1, <1>2 DEF IInv, Types
<1>4. \A u \in Tab : TabInv(me[u])'
  BY <1>2, <1>3 DEF IInv, TabInv, Sound, InHand, InTheRace
<1>5. \A q \in Requests : /\ q[1] = t  => Req(q)'.phase = "free"
                          /\ q[1] # t  => Req(q)' = Req(q)
  BY <1>2, <1>3 DEF Requests, Req
<1>6. /\ queue \in Seq(Requests) /\ IsInjective(queue) /\ ToSet(queue) = Queued
      /\ DOMAIN queue = 1..Len(queue) /\ Len(queue) \in Nat
  BY LenProperties DEF IInv, QueueInv
<1>7. \A i \in DOMAIN queue : queue[i] \in Queued BY <1>6 DEF ToSet
<1>8. \A q \in Queued : /\ q[1] \in Tab /\ q[2] \in Slot /\ q = <<q[1], q[2]>>
                        /\ me[q[1]].controller = q[2]
  BY DEF Queued, Requests, Req, IInv, TabInv, InHand
<1>9. queue' \in Seq(Requests) /\ IsInjective(queue') /\ ToSet(queue') = stay
  <2>1. CASE left = {}
    <3>1. queue' = queue BY <1>1, <2>1 DEF Without
    <3>2. \A q \in Queued : q[1] # t BY <1>6, <2>1 DEF ToSet
    <3> QED BY <1>6, <3>1, <3>2
  <2>2. CASE left # {}
    <3>1. PICK i \in left : queue' = RemoveAt(queue, i) BY <1>1, <2>2 DEF Without
    <3>2. i \in 1..Len(queue) /\ queue[i][1] = t BY <1>6
    <3> HIDE DEF left
    <3>3. queue' \in Seq(Requests) /\ IsInjective(queue') /\ ToSet(queue') = Queued \ {queue[i]}
      <4>1. /\ RemoveAt(queue, i) \in Seq(Requests) /\ IsInjective(RemoveAt(queue, i))
            /\ ToSet(RemoveAt(queue, i)) = ToSet(queue) \ {queue[i]}
        BY <1>6, <3>2, RemovedAt
      <4> QED BY <1>6, <3>1, <4>1
    <3>4. ASSUME NEW q \in Queued, q # queue[i] PROVE q[1] # t BY <1>6, <1>7, <1>8, <3>2, <3>4
    <3> QED BY <3>2, <3>3, <3>4
  <2> QED BY <2>1, <2>2
<1>10. Queued' = stay BY <1>5 DEF Queued, Requests
<1>11. QueueInv' BY <1>9, <1>10 DEF QueueInv, Requests
<1>12. HolderInv'
  <2> SUFFICES ASSUME NEW p \in Requests
               PROVE  (p = holder') <=> Req(p)'.phase \in {"granted", "held"}
    BY DEF HolderInv, Requests
  <2>1. (p = holder) <=> Req(p).phase \in {"granted", "held"} BY DEF IInv, HolderInv
  <2>2. CASE p[1] = t BY <1>1, <1>5, <2>2, NobodyHolds
  <2>3. CASE p[1] # t BY <1>1, <1>5, <2>1, <2>3, NobodyHolds
  <2> QED BY <2>2, <2>3
<1>13. Types'
  <2>1. turns' \in 0..MaxTurns BY <1>1, SMT DEF IInv, Types
  <2> QED BY <1>1, <1>3, <2>1 DEF IInv, Types, Requests
<1> QED BY <1>4, <1>11, <1>12, <1>13 DEF IInv

\* The user and the system move no request.
LEMMA PageOnlyKeeps ==
    ASSUME IInv, UNCHANGED <<me, holder, queue, open>>, turns' \in 0..MaxTurns,
           page' \in [Tab -> {"visible", "hidden", "suspended", "closed"}]
    PROVE  IInv'
BY DEF IInv, Types, QueueInv, HolderInv, Queued, Requests, Req, TabInv, Sound, InHand, InTheRace

-----------------------------------------------------------------------------
(* The invariant. *)

LEMMA InitKeeps == Init => IInv
<1> SUFFICES ASSUME Init PROVE IInv
  OBVIOUS
<1> DEFINE g == [r \in Slot |-> Free]
           f == [Free EXCEPT !.phase = "queued"]
           k == [g EXCEPT ![1] = f]
           s == [Gone EXCEPT !.stopped = FALSE, !.controller = 1, !.req[1].phase = "queued"]
<1>1. 1 \in Slot /\ 1 \in 0..MaxSlots /\ 0 \in 0..MaxSlots BY LeaderAssumption, SMT DEF Slot
<1>2. f \in Record /\ f.phase = "queued" /\ ~f.aborted /\ Sound(f) BY Requesting
<1>3. s = [Gone EXCEPT !.stopped = FALSE, !.controller = 1, !.req = k]
  BY <1>1, NobodyThere DEF State
<1> HIDE DEF f
<1>4. /\ k \in [Slot -> Record] /\ k[1] = f
      /\ \A r \in Slot : r # 1 => k[r] = Free
  BY <1>1, <1>2, Requesting
<1>5. \A r \in Slot : /\ Sound(k[r]) /\ k[r].phase \notin {"granted", "held"}
                      /\ k[r].phase = "queued" <=> r = 1
  BY <1>1, <1>2, <1>4, Requesting DEF Free
<1> HIDE DEF k
<1> HIDE DEF s
<1>6. s \in State /\ s.req = k /\ s.controller = 1
  <2>1. Gone \in State BY NobodyThere
  <2> QED BY <1>1, <1>3, <1>4, <2>1 DEF State, Record
<1>7. TabInv(s) BY <1>1, <1>2, <1>4, <1>5, <1>6 DEF TabInv, InHand, InTheRace
<1>8. me = [t \in Tab |-> s] BY DEF Init, s
<1>9. me \in [Tab -> State] /\ \A t \in Tab : me[t] = s BY <1>6, <1>8
<1>10. \A q \in Requests : /\ Req(q).phase \notin {"granted", "held"}
                           /\ Req(q).phase = "queued" <=> q[2] = 1
  BY <1>5, <1>6, <1>9 DEF Requests, Req
<1>11. HolderInv BY <1>10, NobodyHolds DEF Init, HolderInv
<1>12. Queued = Tab \X {1} BY <1>1, <1>10 DEF Queued, Requests
<1>13. QueueInv
  <2> DEFINE n == Cardinality(Tab)
  <2>1. n \in Nat BY FS_CardinalityType
  <2>2. /\ queue \in [1..n -> Tab \X {1}] /\ IsInjective(queue)
        /\ \A e \in Tab \X {1} : \E i \in 1..n : queue[i] = e
    BY DEF Init, Bijection, Injection, Surjection
  <2>3. ToSet(queue) = Tab \X {1} BY <2>2 DEF ToSet
  <2>4. queue \in [1..n -> Requests] BY <1>1, <2>2 DEF Requests
  <2>5. queue \in Seq(Requests) BY <2>1, <2>4, SeqDef
  <2> QED BY <1>12, <2>2, <2>3, <2>5 DEF QueueInv
<1>14. Types BY <1>9 DEF Init, Types
<1> QED BY <1>7, <1>9, <1>11, <1>13, <1>14 DEF IInv

LEMMA NextKeeps == IInv /\ [Next]_vars => IInv'
<1> SUFFICES ASSUME IInv, [Next]_vars PROVE IInv'
  OBVIOUS
<1>1. CASE Grant BY <1>1, GrantKeeps
<1>2. ASSUME NEW t \in Tab, RetryFires(t) PROVE IInv' BY <1>2, RetryFiresKeeps
<1>3. ASSUME NEW t \in Tab, OnFreeze(t) PROVE IInv' BY <1>3, OnFreezeKeeps
<1>4. ASSUME NEW t \in Tab, OnResume(t) PROVE IInv' BY <1>4, OnResumeKeeps
<1>5. ASSUME NEW t \in Tab, Watchdog(t) PROVE IInv' BY <1>5, WatchdogKeeps
<1>6. ASSUME NEW t \in Tab, Stop(t) PROVE IInv' BY <1>6, StopKeeps
<1>7. ASSUME NEW t \in Tab, Disturb(t) PROVE IInv'
  <2>1. turns' \in 0..MaxTurns BY <1>7, SMT DEF Disturb, IInv, Types
  <2>2. page' \in [Tab -> {"visible", "hidden", "suspended", "closed"}]
    BY <1>7 DEF Disturb, IInv, Types
  <2> QED BY <1>7, <2>1, <2>2, PageOnlyKeeps DEF Disturb
<1>8. ASSUME NEW t \in Tab, Show(t) PROVE IInv'
  <2>1. turns' \in 0..MaxTurns BY <1>8 DEF Show, IInv, Types
  <2>2. page' \in [Tab -> {"visible", "hidden", "suspended", "closed"}]
    BY <1>8 DEF Show, IInv, Types
  <2> QED BY <1>8, <2>1, <2>2, PageOnlyKeeps DEF Show
<1>9. ASSUME NEW t \in Tab, Close(t) PROVE IInv' BY <1>9, CloseKeeps
<1>10. ASSUME NEW t \in Tab, NEW r \in Slot, Callback(t, r) PROVE IInv' BY <1>10, CallbackKeeps
<1>11. ASSUME NEW t \in Tab, NEW r \in Slot, TaskEnds(t, r) PROVE IInv' BY <1>11, TaskEndsKeeps
<1>12. ASSUME NEW t \in Tab, NEW r \in Slot, RejectStolen(t, r) PROVE IInv'
  BY <1>12, RejectStolenKeeps
<1>13. ASSUME NEW t \in Tab, NEW r \in Slot, Refuse(t, r) PROVE IInv' BY <1>13, RefuseKeeps
<1>14. ASSUME NEW t \in Tab, NEW r \in Slot, GrantSteal(t, r) PROVE IInv' BY <1>14, GrantStealKeeps
<1>15. CASE UNCHANGED vars
  <2>1. turns' \in 0..MaxTurns /\ UNCHANGED <<page, me, holder, queue, open>>
    BY <1>15 DEF vars, IInv, Types
  <2> QED BY <2>1, PageOnlyKeeps DEF IInv, Types
<1> QED BY <1>1, <1>2, <1>3, <1>4, <1>5, <1>6, <1>7, <1>8, <1>9, <1>10, <1>11, <1>12, <1>13,
        <1>14, <1>15 DEF Next

THEOREM Invariance == Spec => []IInv
<1>1. Init => IInv BY InitKeeps
<1>2. IInv /\ [Next]_vars => IInv' BY NextKeeps
<1> QED BY <1>1, <1>2, PTL DEF Spec

(***************************************************************************)
(* The tabs and the lock manager agree: the lock is with the request that  *)
(* the tab holds it with, the queue has the requests that wait and no      *)
(* other, and the request in hand is not one that is over (runAsLeader).   *)
(***************************************************************************)
THEOREM TypeCorrect == Spec => []TypeOK
<1>1. IInv => TypeOK
  <2> SUFFICES ASSUME IInv PROVE TypeOK
    OBVIOUS
  <2>1. \A t \in Tab : me[t].controller # 0 =>
           me[t].req[me[t].controller].phase \notin {"free", "over"}
    BY DEF IInv, TabInv, InHand
  <2> QED BY <2>1 DEF IInv, Types, QueueInv, Queued, HolderInv, TypeOK
<1> QED BY <1>1, Invariance, PTL

(***************************************************************************)
(* No tab drops out of the election, however its requests are refused,     *)
(* stolen or withdrawn, and however often it is frozen and resumed: what   *)
(* the .finally of acquire and the retry of a refusal are for.             *)
(***************************************************************************)
THEOREM StaysInElection == Spec => []InElection
<1>1. IInv => InElection
  <2> SUFFICES ASSUME IInv, NEW t \in Tab
               PROVE  \/ me[t].stopped \/ me[t].paused \/ me[t].retry
                      \/ \E r \in Slot : me[t].req[r].phase \notin {"free", "over"}
    BY DEF InElection
  <2>1. me[t].controller # 0 => me[t].controller \in Slot BY OfTab DEF State, Slot
  <2> QED BY <2>1, OfTab DEF InTheRace, InHand
<1> QED BY <1>1, Invariance, PTL

(***************************************************************************)
(* However the lock is stolen, a task that runs without it has been        *)
(* aborted, or is about to be by the rejection that is on its way: two     *)
(* leaders poll together for no longer than that (the abort in acquire's   *)
(* .finally).                                                              *)
(***************************************************************************)
THEOREM FormerLeadersStop == Spec => []FormerLeaderStops
<1>1. IInv => FormerLeaderStops
  <2> SUFFICES ASSUME IInv, NEW q \in Requests, Running(q), holder # q
               PROVE  Req(q).aborted \/ Req(q).phase = "stolen"
    BY DEF FormerLeaderStops
  <2>1. q[1] \in Tab /\ q[2] \in Slot BY DEF Requests
  <2>2. Sound(Req(q)) BY <2>1, OfTab DEF Req
  <2>3. Req(q).phase # "held" BY DEF IInv, HolderInv
  <2> QED BY <2>2, <2>3 DEF Sound, Running
<1> QED BY <1>1, Invariance, PTL
=============================================================================
