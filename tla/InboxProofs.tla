----------------------------- MODULE InboxProofs -----------------------------
(***************************************************************************)
(* Proofs about Inbox, for any number of messages, tabs and generations,   *)
(* any size of the pages and any values of the bounds.                     *)
(***************************************************************************)
EXTENDS Inbox, TLAPS, FiniteSetTheorems, WellFoundedInduction

USE InboxAssumption

\* A set of numbers up to Count has a least one: 0..m shrinks as m does.
LEMMA LeastIn ==
    ASSUME NEW S \in SUBSET (0..Count), S # {}
    PROVE  Least(S) \in S /\ \A n \in S : Least(S) <= n
<1> DEFINE R == StrictSubsetOrdering(0..Count)
           F == FiniteSubsetsOf(0..Count)
           T == {0..m : m \in S}
<1>1. T \subseteq F
  <2>1. ASSUME NEW m \in S PROVE 0..m \in F
    <3>1. 0..m \subseteq 0..Count OBVIOUS
    <3>2. 0 \in Int /\ m \in Int OBVIOUS
    <3>3. IsFiniteSet(0..m) BY <3>2, FS_Interval, Zenon
    <3> QED BY <3>1, <3>3 DEF FiniteSubsetsOf
  <2> QED BY <2>1
<1>2. T # {} OBVIOUS
<1>3. IsWellFoundedOn(R, F) BY FS_StrictSubsetOrderingWellFounded
<1> HIDE DEF R, F, T
<1>4. \E x \in T : \A y \in T : <<y, x>> \notin R BY <1>1, <1>2, <1>3, WFMin
<1>5. PICK m \in S : \A n \in S : <<0..n, 0..m>> \notin R BY <1>4 DEF T
<1>6. ASSUME NEW n \in S, n < m PROVE FALSE
  <2>1. 0..n \subseteq 0..m /\ 0..m \subseteq 0..Count /\ 0..n \subseteq 0..Count BY <1>6
  <2>2. m \in 0..m /\ m \notin 0..n BY <1>6
  <2>3. <<0..n, 0..m>> \in R BY <2>1, <2>2 DEF R, StrictSubsetOrdering
  <2> QED BY <2>3, <1>5
<1>7. \A n \in S : m <= n BY <1>6
<1> QED BY <1>7 DEF Least

\* And one of messages has a greatest.
LEMMA GreatestIn ==
    ASSUME NEW S \in SUBSET Message, S # {}
    PROVE  Greatest(S) \in S /\ \A n \in S : Greatest(S) >= n
<1> DEFINE T == {Count - m : m \in S}
<1>1. T # {} OBVIOUS
<1>2. \A m \in S : Count - m \in 0..Count BY DEF Message
<1>3. T \in SUBSET (0..Count) BY <1>2
<1>4. Least(T) \in T /\ \A n \in T : Least(T) <= n BY <1>1, <1>3, LeastIn
<1>5. PICK m \in S : Least(T) = Count - m BY <1>4
<1>6. \A n \in S : Count - m <= Count - n BY <1>4, <1>5
<1>7. \A n \in S : m >= n BY <1>6 DEF Message
<1> QED BY <1>7 DEF Greatest

\* A page of the archive is empty only if there is nothing left to read.
LEMMA NewestIn ==
    ASSUME NEW S \in SUBSET Message, S # {}, NEW k \in Nat \ {0}
    PROVE  Newest(S, k) # {}
<1> DEFINE g == Greatest(S)
<1>1. g \in S /\ \A n \in S : g >= n BY GreatestIn
<1> HIDE DEF g
<1>2. {n \in S : n >= g} = {g}
  <2>1. \A n \in S : n >= g <=> n = g BY <1>1 DEF Message
  <2> QED BY <1>1, <2>1
<1>3. Cardinality({g}) = 1 BY FS_Singleton
<1>4. Cardinality({n \in S : n >= g}) <= k BY <1>2, <1>3
<1> QED BY <1>1, <1>4 DEF Newest
-----------------------------------------------------------------------------
(***************************************************************************)
(* The inductive invariant: what holds of a tab at the step it is at.      *)
(***************************************************************************)

\* Only what is about to be stored, or has just been, is in the batch.
Tidy(t) == step[t] \notin {"store", "record", "settle"} => local[t].batch = NoBatch

\* What was opened is stored as read when the batch is put away.
Saved(t) == \A m \in Message :
    step[t] \in {"record", "settle"} /\ local[t].batch[m] = "read" => rec[m] = "read"

\* A drain acks its page: it has to hold nothing that is neither stored nor in the batch.
Drained(t) == job[t] = "drain" =>
    \A m \in local[t].page :
        /\ step[t] = "store" => local[t].batch[m] # "none" \/ rec[m] # "none"
        /\ step[t] \in {"record", "finish"} => rec[m] # "none"

\* A read goes on while it has pages left, and settles pages that have rows.
Paced(t) ==
    /\ step[t] \in {"read", "again"} => local[t].left > 0
    /\ job[t] = "forward" /\ step[t] \in {"store", "settle"} => local[t].page # {}
    /\ step[t] = "read" => job[t] = "forward"

Sound(t) == Tidy(t) /\ Saved(t) /\ Drained(t) /\ Paced(t)

IInv == /\ TypeOK
        /\ \A t \in Tab : Sound(t)
        /\ AckedIsStored
        /\ OpenedIsKept

-----------------------------------------------------------------------------
\* The bounds are numbers, and those of pages and attempts are positive.
LEMMA Sizes ==
    /\ InboxPage \in Nat \ {0} /\ ArchivePage \in Nat \ {0}
    /\ WalkPages \in Nat \ {0} /\ Attempts \in Nat \ {0}
    /\ MaxCrashes \in Nat /\ MaxFails \in Nat
OBVIOUS

LEMMA NoLocalsType == NoLocals \in Locals /\ NoLocals.batch = NoBatch
BY DEF NoLocals, Locals, NoBatch, Stored

LEMMA OutcomeType ==
    ASSUME NEW R, NEW S
    PROVE  /\ Outcome(R, S) \in [Message -> Stored]
           /\ \A m \in Message : Outcome(R, S)[m] = "read" => m \in R /\ m \in S
           /\ \A m \in Message : m \in R => Outcome(R, S)[m] # "none"
           /\ \A m \in Message : m \in R /\ m \in S => Outcome(R, S)[m] = "read"
BY DEF Outcome, Stored

\* A page read downwards is a page, and its cursor a cursor.
LEMMA ReadDownType ==
    ASSUME TypeOK, NEW t \in Tab, NEW from \in Nat, NEW p \in 0..WalkPages,
           ReadDown(t, from, p)
    PROVE  local' \in [Tab -> Locals]
<1> DEFINE below == {m \in Archive : m < from}
           rows == Newest(below, ArchivePage)
           c == IF below = rows THEN 0 ELSE Least(rows)
           o == Outcome(rows, {m \in rows : OpensFromArchive(m)})
<1>1. below \subseteq Message BY DEF Archive, TypeOK, Message
<1>2. rows \subseteq below BY DEF Newest
<1>3. ArchivePage \in Nat \ {0} OBVIOUS
<1>4. c \in 0..Count
  <2>1. CASE below = rows BY <2>1
  <2>2. CASE below # rows
    <3>1. below # {} BY <1>2, <2>2
    <3>2. rows # {} BY <1>1, <1>3, <3>1, NewestIn
    <3>3. rows \subseteq 0..Count BY <1>1, <1>2 DEF Message
    <3> QED BY <2>2, <3>2, <3>3, LeastIn
  <2> QED BY <2>1, <2>2
<1>5. o \in [Message -> Stored] BY OutcomeType
<1>6. rows \in SUBSET Message BY <1>1, <1>2
<1>7. local' = [local EXCEPT ![t] =
         [page |-> rows, batch |-> o, cursor |-> c, left |-> p, pend |-> {}]]
  BY DEF ReadDown
<1> HIDE DEF rows, c, o, below
<1>8. [page |-> rows, batch |-> o, cursor |-> c, left |-> p, pend |-> {}] \in Locals
  BY <1>4, <1>5, <1>6 DEF Locals
<1> QED BY <1>7, <1>8 DEF TypeOK

-----------------------------------------------------------------------------
\* Every variable keeps its type.
LEMMA TypeStep == ASSUME TypeOK, \A t \in Tab : Paced(t), [Next]_vars PROVE TypeOK'
<1> USE NoLocalsType, Sizes DEF TypeOK, server, crypto, store, where, work, bounds
<1>1. ASSUME NEW t \in Tab, Pass(t) PROVE TypeOK'
  <2> USE DEF At, Step, Start, Booted
  <2>1. local[t] \in Locals BY DEF TypeOK
  <2>2. CASE RefreshKeys(t) BY <2>2 DEF RefreshKeys, KeysDone
  <2>3. CASE RefreshThrottled(t) BY <2>3 DEF RefreshThrottled, KeysDone
  <2>4. CASE MarkWalk(t) BY <2>4 DEF MarkWalk, KeysDone, Top
  <2>5. CASE HydrateSkip(t) BY <2>5 DEF HydrateSkip
  <2>6. CASE HydrateRead(t)
    <3>1. hydration \in Nat /\ 0 \in 0..WalkPages BY DEF Top
    <3>2. local' \in [Tab -> Locals] BY <2>6, <3>1, ReadDownType DEF HydrateRead
    <3> QED BY <2>6, <3>2 DEF HydrateRead
  <2>7. CASE HydrateAdvance(t)
    <3>1. local[t].cursor \in 0..Top BY <2>1 DEF Locals, Top
    <3> QED BY <2>7, <3>1 DEF HydrateAdvance
  <2>8. CASE Fetch(t)
    <3>1. [local[t] EXCEPT !.page = Oldest(inbox, InboxPage)] \in Locals
      BY <2>1 DEF Locals, Oldest
    <3> QED BY <2>8, <3>1 DEF Fetch
  <2>9. CASE DrainEmpty(t) BY <2>9 DEF DrainEmpty
  <2>10. CASE Open(t)
    <3>1. PICK S, R : /\ local' = [local EXCEPT ![t].batch = Outcome(R, S)]
                      /\ S \subseteq Message
                      /\ consumed' = consumed \cup S
      BY <2>1, <2>10 DEF Open, Locals
    <3>2. [local[t] EXCEPT !.batch = Outcome(R, S)] \in Locals
      BY <2>1, OutcomeType DEF Locals
    <3>3. local' \in [Tab -> Locals] BY <3>1, <3>2
    <3>4. consumed' \subseteq Message BY <3>1
    <3> QED BY <2>10, <3>3, <3>4 DEF Open
  <2>11. CASE Ack(t) BY <2>11 DEF Ack
  <2>12. CASE Store(t)
    <3>1. local[t].batch \in [Message -> Stored] BY <2>1 DEF Locals
    <3>2. \A m \in Message : Merge(rec[m], local[t].batch[m]) \in Stored BY <3>1 DEF Merge
    <3> QED BY <2>12, <3>2 DEF Store
  <2>13. CASE Record(t)
    <3>1. [local[t] EXCEPT !.batch = NoBatch] \in Locals BY <2>1 DEF Locals, NoBatch, Stored
    <3> QED BY <2>13, <3>1 DEF Record, Batch
  <2>14. CASE ForwardSkip(t) BY <2>14 DEF ForwardSkip
  <2>15. CASE ForwardBegin(t)
    <3> DEFINE earlier == {m \in Message : m < Least(pending) /\ rec[m] # "none"}
               c == IF earlier = {} THEN 0 ELSE Greatest(earlier)
    <3>1. c \in 0..Count
      <4>1. CASE earlier # {}
        <5>1. Greatest(earlier) \in earlier BY <4>1, GreatestIn
        <5> QED BY <4>1, <5>1 DEF Message
      <4> QED BY <4>1
    <3> HIDE DEF c
    <3>2. WalkPages \in 0..WalkPages /\ pending \in SUBSET Message OBVIOUS
    <3>3. local' = [local EXCEPT ![t].cursor = c, ![t].left = WalkPages, ![t].pend = pending]
      BY <2>15 DEF ForwardBegin, c
    <3>4. [local[t] EXCEPT !.cursor = c, !.left = WalkPages, !.pend = pending] \in Locals
      BY <2>1, <3>1, <3>2 DEF Locals
    <3>5. local' \in [Tab -> Locals] BY <3>3, <3>4
    <3> QED BY <2>15, <3>5 DEF ForwardBegin
  <2>16. CASE ForwardRead(t)
    <3> DEFINE rows == Oldest({m \in Archive : m > local[t].cursor}, ArchivePage)
               o == Outcome(rows, {m \in rows : OpensFromArchive(m)})
    <3>1. rows \subseteq Message BY DEF Oldest, Archive, Message
    <3>2. o \in [Message -> Stored] BY OutcomeType
    <3>3. local[t].left - 1 \in 0..WalkPages
      <4>1. local[t].left \in 0..WalkPages BY <2>1 DEF Locals
      <4>2. local[t].left > 0 BY <2>16 DEF ForwardRead, Paced
      <4> QED BY <4>1, <4>2
    <3>4. \/ UNCHANGED local
          \/ local' = [local EXCEPT ![t].page = rows, ![t].batch = o, ![t].left = @ - 1]
      BY <2>16 DEF ForwardRead
    <3> HIDE DEF rows, o
    <3>5. [local[t] EXCEPT !.page = rows, !.batch = o, !.left = @ - 1] \in Locals
      BY <2>1, <3>1, <3>2, <3>3 DEF Locals
    <3>6. local' \in [Tab -> Locals] BY <3>4, <3>5
    <3> QED BY <2>16, <3>6 DEF ForwardRead
  <2>17. CASE Settle(t)
    <3>1. local[t].page # {} /\ local[t].page \subseteq Message
      BY <2>1, <2>17 DEF Settle, Paced, Locals
    <3>2. Greatest(local[t].page) \in 0..Count
      <4>1. Greatest(local[t].page) \in local[t].page BY <3>1, GreatestIn
      <4> QED BY <3>1, <4>1 DEF Message
    <3>3. [local[t] EXCEPT !.pend = @ \ Struck(t), !.cursor = Greatest(local[t].page),
                           !.page = {}, !.batch = NoBatch] \in Locals
      BY <2>1, <3>2 DEF Locals, NoBatch, Stored
    <3>4. local' \in [Tab -> Locals] BY <2>17, <3>3 DEF Settle
    <3>5. \A m \in Message : m \in Batch(t, "failed") \cap local[t].pend /\ m \notin Struck(t)
             => tries[t][m] + 1 \in 0..Attempts - 1
      BY DEF Struck, GivenUp
    <3>6. tries' \in [Tab -> [Message -> 0..Attempts - 1]]
      <4>1. 0 \in 0..Attempts - 1 OBVIOUS
      <4> QED BY <2>17, <3>5, <4>1 DEF Settle
    <3> QED BY <2>17, <3>4, <3>6 DEF Settle
  <2>18. CASE ForwardFinish(t) BY <2>1, <2>18 DEF ForwardFinish, Locals
  <2>19. CASE WalkSkip(t) BY <2>19 DEF WalkSkip
  <2>20. CASE WalkBegin(t)
    <3>1. walk \in Nat /\ WalkPages - 1 \in 0..WalkPages BY DEF Top
    <3>2. local' \in [Tab -> Locals] BY <2>20, <3>1, ReadDownType DEF WalkBegin
    <3> QED BY <2>20, <3>2 DEF WalkBegin
  <2>21. CASE WalkAdvance(t)
    <3>1. local[t].cursor \in 0..Top BY <2>1 DEF Locals, Top
    <3> QED BY <2>21, <3>1, ZenonT(40) DEF WalkAdvance
  <2>22. CASE WalkAgain(t)
    <3>1. local[t].cursor \in Nat /\ local[t].left - 1 \in 0..WalkPages
      BY <2>1, <2>22 DEF WalkAgain, Paced, Locals
    <3>2. local' \in [Tab -> Locals] BY <2>22, <3>1, ReadDownType DEF WalkAgain
    <3> QED BY <2>22, <3>2 DEF WalkAgain
  <2> QED BY <1>1, <2>2, <2>3, <2>4, <2>5, <2>6, <2>7, <2>8, <2>9, <2>10, <2>11, <2>12,
             <2>13, <2>14, <2>15, <2>16, <2>17, <2>18, <2>19, <2>20, <2>21, <2>22 DEF Pass
<1>2. ASSUME NEW t \in Tab, Abort(t) PROVE TypeOK'
  <2>1. PICK j \in {"keys", "hydrate"} : job' = [job EXCEPT ![t] = j]
    BY <1>2 DEF Abort, Start
  <2>2. booted' \in [Tab -> BOOLEAN] BY <1>2 DEF Abort, Booted
  <2>3. fails' \in 0..MaxFails BY <1>2 DEF Abort
  <2> QED BY <1>2, <2>1, <2>2, <2>3 DEF Abort, Start
<1>3. ASSUME NEW t \in Tab, Crash(t) PROVE TypeOK'
  <2>1. 0 \in 0..Attempts - 1 OBVIOUS
  <2>2. [m \in Message |-> 0] \in [Message -> 0..Attempts - 1] BY <2>1
  <2>3. tries' \in [Tab -> [Message -> 0..Attempts - 1]] BY <1>3, <2>2 DEF Crash
  <2>4. crashes' \in 0..MaxCrashes BY <1>3 DEF Crash
  <2>5. forfeited' \subseteq Message BY <1>3 DEF Crash, Batch
  <2>6. /\ job' = [job EXCEPT ![t] = "keys"]
        /\ step' = [step EXCEPT ![t] = "begin"]
        /\ local' = [local EXCEPT ![t] = NoLocals]
        /\ booted' = [booted EXCEPT ![t] = FALSE]
    BY <1>3 DEF Crash, Start
  <2>7. UNCHANGED <<server, crypto, store, fails>> BY <1>3 DEF Crash
  <2> QED BY <2>3, <2>4, <2>5, <2>6, <2>7
<1>4. CASE Arrive
  <2>1. sent + 1 \in Message BY <1>4 DEF Arrive, Message
  <2>2. sent' \in 0..Count /\ missed' \in 0..sent' BY <1>4 DEF Arrive
  <2>3. inbox' \subseteq Message BY <1>4, <2>1 DEF Arrive
  <2> QED BY <1>4, <2>2, <2>3 DEF Arrive
<1>5. CASE Added BY <1>5 DEF Added
<1>6. CASE Join BY <1>6 DEF Join
<1>7. ASSUME NEW g \in Gen, WrapKey(g) PROVE TypeOK' BY <1>7 DEF WrapKey
<1>8. ASSUME NEW m \in Message, ResolveOwn(m) PROVE TypeOK' BY <1>8 DEF ResolveOwn, Stored
<1>9. CASE UNCHANGED vars BY <1>9 DEF vars
<1> QED BY <1>1, <1>2, <1>3, <1>4, <1>5, <1>6, <1>7, <1>8, <1>9 DEF Next

-----------------------------------------------------------------------------
\* What is stored stays stored, and what is read stays read.
LEMMA Monotone ==
    ASSUME TypeOK, [Next]_vars, NEW m \in Message
    PROVE  /\ rec[m] = "read" => rec'[m] = "read"
           /\ rec[m] # "none" => rec'[m] # "none"
<1> USE DEF server, crypto, store
<1>1. ASSUME NEW t \in Tab, Store(t)
      PROVE  /\ rec[m] = "read" => rec'[m] = "read"
             /\ rec[m] # "none" => rec'[m] # "none"
  <2>1. local[t].batch[m] \in Stored BY DEF TypeOK, Locals
  <2>2. rec'[m] = Merge(rec[m], local[t].batch[m]) BY <1>1 DEF Store
  <2> QED BY <2>1, <2>2 DEF Merge, Stored
<1>2. ASSUME NEW n \in Message, ResolveOwn(n)
      PROVE  /\ rec[m] = "read" => rec'[m] = "read"
             /\ rec[m] # "none" => rec'[m] # "none"
  BY <1>2 DEF ResolveOwn, TypeOK
<1>3. ASSUME NEW t \in Tab, Pass(t), ~Store(t) PROVE UNCHANGED rec
  BY <1>3 DEF Pass, RefreshKeys, RefreshThrottled, MarkWalk, HydrateSkip, HydrateRead,
              HydrateAdvance, Fetch, DrainEmpty, Open, Ack, Record, ForwardSkip, ForwardBegin,
              ForwardRead, Settle, ForwardFinish, WalkSkip, WalkBegin, WalkAdvance, WalkAgain
<1>4. ASSUME NEW t \in Tab, Abort(t) \/ Crash(t) PROVE UNCHANGED rec BY <1>4 DEF Abort, Crash
<1>5. ASSUME Arrive \/ Added \/ Join \/ \E g \in Gen : WrapKey(g) PROVE UNCHANGED rec
  BY <1>5 DEF Arrive, Added, Join, WrapKey
<1>6. CASE UNCHANGED vars BY <1>6 DEF vars
<1> QED BY <1>1, <1>2, <1>3, <1>4, <1>5, <1>6 DEF Next

\* A tab that takes no step is where it was.
LEMMA Elsewhere ==
    ASSUME TypeOK, [Next]_vars, NEW t \in Tab, Sound(t),
           job'[t] = job[t], step'[t] = step[t], local'[t] = local[t]
    PROVE  Sound(t)'
<1>1. local[t].page \subseteq Message BY DEF TypeOK, Locals
<1>2. Tidy(t)' /\ Paced(t)' BY DEF Sound, Tidy, Paced
<1>3. Saved(t)' BY Monotone DEF Sound, Saved
<1>4. Drained(t)' BY <1>1, Monotone DEF Sound, Drained
<1> QED BY <1>2, <1>3, <1>4 DEF Sound

\* A tab that starts a job has nothing in hand.
LEMMA Started ==
    ASSUME TypeOK, NEW t \in Tab, NEW j, Start(t, j)
    PROVE  Sound(t)' /\ local'[t].batch = NoBatch
<1>1. step'[t] = "begin" /\ local'[t] = NoLocals BY DEF Start, TypeOK
<1> QED BY <1>1, NoLocalsType DEF Sound, Tidy, Saved, Drained, Paced, NoLocals

\* Whatever a tab has opened and not yet stored it holds on to, stores, or dies with.
Handed(t) == \A m \in Message : local[t].batch[m] = "read" =>
    local'[t].batch[m] = "read" \/ rec'[m] = "read" \/ m \in forfeited'

\* A step of a pass hands on what the tab has opened, and leaves the tab sound.
LEMMA PassStep ==
    ASSUME TypeOK, TypeOK', [Next]_vars, NEW t \in Tab, Sound(t), Pass(t)
    PROVE  Sound(t)' /\ Handed(t)
<1> USE DEF At
<1>1. local[t] \in Locals /\ local'[t] \in Locals BY DEF TypeOK
<1>2. \A m \in Message : NoBatch[m] # "read" BY DEF NoBatch
<1>3. ASSUME step[t] \notin {"store", "record", "settle"} PROVE Handed(t)
  BY <1>2, <1>3 DEF Sound, Tidy, Handed
<1>4. ASSUME NEW j, Start(t, j), step[t] \notin {"store", "record", "settle"}
      PROVE  Sound(t)' /\ Handed(t)
  BY <1>3, <1>4, Started
<1>5. ASSUME UNCHANGED local, job'[t] = job[t], step[t] \notin {"store", "record", "settle"},
             step'[t] \in {"mark", "again", "finish"}, job[t] # "drain",
             step'[t] = "again" => local[t].left > 0
      PROVE  Sound(t)' /\ Handed(t)
  BY <1>3, <1>5 DEF Sound, Tidy, Saved, Drained, Paced
<1>6. ASSUME NEW f, NEW p, ReadDown(t, f, p), Step(t, "store"), job[t] \in {"hydrate", "walk"},
             step[t] \notin {"store", "record", "settle"}
      PROVE  Sound(t)' /\ Handed(t)
  <2>1. step'[t] = "store" /\ job'[t] = job[t] BY <1>6 DEF Step, TypeOK
  <2> QED BY <1>3, <1>6, <2>1 DEF Sound, Tidy, Saved, Drained, Paced
<1>7. CASE RefreshKeys(t)
  <2>1. CASE UNCHANGED local /\ Step(t, "mark")
    BY <1>5, <1>7, <2>1 DEF RefreshKeys, Step, TypeOK
  <2> QED BY <1>4, <1>7, <2>1 DEF RefreshKeys, KeysDone
<1>8. CASE RefreshThrottled(t) BY <1>4, <1>8 DEF RefreshThrottled, KeysDone
<1>9. CASE MarkWalk(t) BY <1>4, <1>9 DEF MarkWalk, KeysDone
<1>10. CASE HydrateSkip(t) BY <1>4, <1>10 DEF HydrateSkip
<1>11. CASE HydrateRead(t) BY <1>6, <1>11 DEF HydrateRead
<1>12. CASE HydrateAdvance(t) BY <1>4, <1>12 DEF HydrateAdvance
<1>13. CASE Fetch(t)
  <2>1. step'[t] = "open" /\ job'[t] = "drain" BY <1>13 DEF Fetch, Step, TypeOK
  <2>2. local'[t].batch = local[t].batch BY <1>1, <1>13 DEF Fetch, TypeOK, Locals
  <2> QED BY <1>3, <1>13, <2>1, <2>2 DEF Fetch, Sound, Tidy, Saved, Drained, Paced
<1>14. CASE DrainEmpty(t) BY <1>4, <1>14 DEF DrainEmpty
<1>15. CASE Open(t)
  <2> DEFINE fresh == {m \in local[t].page : rec[m] = "none"}
             opened == {m \in fresh : OpensOnce(m)}
  <2>1. step'[t] = "store" /\ job'[t] = "drain" BY <1>15 DEF Open, Step, TypeOK
  <2>2. /\ local'[t].batch = Outcome(fresh, opened)
        /\ local'[t].page = local[t].page
    BY <1>1, <1>15 DEF Open, TypeOK, Locals
  <2>3. rec' = rec BY <1>15 DEF Open, store
  <2>4. \A m \in local[t].page : rec[m] = "none" => Outcome(fresh, opened)[m] # "none"
    BY <1>1, OutcomeType DEF Locals
  <2> HIDE DEF fresh, opened
  <2>5. Drained(t)' BY <2>1, <2>2, <2>3, <2>4 DEF Drained
  <2> QED BY <1>3, <1>15, <2>1, <2>5 DEF Open, Sound, Tidy, Saved, Paced
<1>16. CASE Ack(t) BY <1>4, <1>16 DEF Ack
<1>17. CASE Store(t)
  <2>1. /\ job'[t] = job[t]
        /\ step'[t] = IF job[t] = "forward" THEN "settle" ELSE "record"
        /\ local' = local
    BY <1>17 DEF Store, Step, TypeOK, work
  <2>2. \A m \in Message : rec'[m] = Merge(rec[m], local[t].batch[m]) BY <1>17 DEF Store
  <2>3. \A m \in Message : local[t].batch[m] = "read" => rec'[m] = "read"
    BY <2>2 DEF Merge
  <2>4. \A m \in Message : local[t].batch[m] # "none" => rec'[m] # "none"
    BY <2>2 DEF Merge
  <2>5. \A m \in Message : rec[m] # "none" => rec'[m] # "none" BY Monotone
  <2>6. local[t].page \subseteq Message BY <1>1 DEF Locals
  <2>7. Drained(t)' BY <1>17, <2>1, <2>4, <2>5, <2>6 DEF Store, Sound, Drained
  <2>8. Saved(t)' /\ Handed(t) BY <2>1, <2>3 DEF Saved, Handed
  <2> QED BY <1>17, <2>1, <2>7, <2>8 DEF Store, Sound, Tidy, Paced
<1>18. CASE Record(t)
  <2>1. step'[t] = "finish" /\ job'[t] = job[t] BY <1>18 DEF Record, Step, TypeOK
  <2>2. local'[t].batch = NoBatch /\ local'[t].page = local[t].page
    BY <1>1, <1>18 DEF Record, TypeOK, Locals
  <2>3. rec' = rec BY <1>18 DEF Record
  <2>4. Handed(t) BY <1>18, <2>3 DEF Record, Sound, Saved, Handed
  <2>5. Drained(t)' BY <1>18, <2>1, <2>2, <2>3 DEF Record, Sound, Drained
  <2> QED BY <2>1, <2>2, <2>4, <2>5 DEF Sound, Tidy, Saved, Paced
<1>19. CASE ForwardSkip(t) BY <1>4, <1>19 DEF ForwardSkip
<1>20. CASE ForwardBegin(t)
  <2>1. step'[t] = "read" /\ job'[t] = "forward" BY <1>20 DEF ForwardBegin, Step, TypeOK
  <2>2. local'[t].batch = local[t].batch /\ local'[t].left = WalkPages
    BY <1>1, <1>20 DEF ForwardBegin, TypeOK, Locals
  <2>3. local'[t].left > 0 BY <2>2, Sizes
  <2>4. Paced(t)' BY <2>1, <2>3 DEF Paced
  <2>5. Tidy(t)' BY <1>20, <2>2 DEF ForwardBegin, Sound, Tidy
  <2> QED BY <1>3, <1>20, <2>1, <2>4, <2>5 DEF ForwardBegin, Sound, Saved, Drained
<1>21. CASE ForwardRead(t)
  <2>1. CASE UNCHANGED local /\ Step(t, "finish")
    BY <1>5, <1>21, <2>1 DEF ForwardRead, Step, TypeOK
  <2>2. CASE ~(UNCHANGED local /\ Step(t, "finish"))
    <3>1. step'[t] = "store" /\ job'[t] = "forward"
      BY <1>21, <2>2 DEF ForwardRead, Step, TypeOK
    <3> DEFINE rows == Oldest({m \in Archive : m > local[t].cursor}, ArchivePage)
               o == Outcome(rows, {m \in rows : OpensFromArchive(m)})
    <3>2. rows # {} BY <1>21, <2>2 DEF ForwardRead
    <3>3. local' = [local EXCEPT ![t].page = rows, ![t].batch = o, ![t].left = @ - 1]
      BY <1>21, <2>2 DEF ForwardRead
    <3> HIDE DEF rows, o
    <3>4. local'[t].page = rows BY <1>1, <3>3 DEF TypeOK, Locals
    <3>5. local'[t].page # {} BY <3>2, <3>4
    <3> QED BY <1>3, <1>21, <3>1, <3>5 DEF ForwardRead, Sound, Tidy, Saved, Drained, Paced
  <2> QED BY <2>1, <2>2
<1>22. CASE Settle(t)
  <2>1. /\ step'[t] = IF local[t].left = 0 \/ Cardinality(local[t].page) < ArchivePage
                      THEN "finish" ELSE "read"
        /\ job'[t] = "forward"
    BY <1>22 DEF Settle, Step, TypeOK
  <2>2. local'[t].batch = NoBatch /\ local'[t].left = local[t].left
    BY <1>1, <1>22 DEF Settle, TypeOK, Locals
  <2>3. local[t].left \in 0..WalkPages BY <1>1 DEF Locals
  <2>4. Paced(t)' BY <2>1, <2>2, <2>3 DEF Paced
  <2>5. rec' = rec BY <1>22 DEF Settle, store
  <2>6. Handed(t) BY <1>22, <2>5 DEF Settle, Sound, Saved, Handed
  <2> QED BY <2>1, <2>2, <2>4, <2>6 DEF Sound, Tidy, Saved, Drained
<1>23. CASE ForwardFinish(t) BY <1>4, <1>23 DEF ForwardFinish
<1>24. CASE WalkSkip(t) BY <1>4, <1>24 DEF WalkSkip
<1>25. CASE WalkBegin(t) BY <1>6, <1>25 DEF WalkBegin
<1>26. CASE WalkAdvance(t)
  <2>1. CASE local[t].cursor = 0 \/ local[t].left = 0
    BY <1>4, <1>26, <2>1 DEF WalkAdvance
  <2>2. CASE ~(local[t].cursor = 0 \/ local[t].left = 0)
    <3>1. local[t].left \in 0..WalkPages BY <1>1 DEF Locals
    <3>2. local[t].left > 0 BY <2>2, <3>1, Sizes
    <3>3. Step(t, "again") /\ UNCHANGED local BY <1>26, <2>2 DEF WalkAdvance
    <3> QED BY <1>5, <1>26, <3>2, <3>3 DEF WalkAdvance, Step, TypeOK
  <2> QED BY <2>1, <2>2
<1>27. CASE WalkAgain(t) BY <1>6, <1>27 DEF WalkAgain
<1> QED BY <1>7, <1>8, <1>9, <1>10, <1>11, <1>12, <1>13, <1>14, <1>15, <1>16, <1>17, <1>18,
           <1>19, <1>20, <1>21, <1>22, <1>23, <1>24, <1>25, <1>26, <1>27 DEF Pass

\* The other tabs do not move.
LEMMA OneMoves ==
    ASSUME TypeOK, NEW t \in Tab, Pass(t) \/ Abort(t) \/ Crash(t), NEW u \in Tab, u # t
    PROVE  job'[u] = job[u] /\ step'[u] = step[u] /\ local'[u] = local[u]
<1> USE DEF TypeOK, Step, Start, where, work
<1>1. CASE Pass(t)
  <2>1. CASE \/ RefreshKeys(t) \/ RefreshThrottled(t) \/ MarkWalk(t) \/ HydrateSkip(t)
             \/ HydrateAdvance(t) \/ DrainEmpty(t) \/ Ack(t) \/ ForwardSkip(t)
             \/ ForwardFinish(t) \/ WalkSkip(t) \/ WalkAdvance(t)
    BY <2>1 DEF RefreshKeys, RefreshThrottled, MarkWalk, HydrateSkip, HydrateAdvance,
                DrainEmpty, Ack, ForwardSkip, ForwardFinish, WalkSkip, WalkAdvance, KeysDone
  <2>2. CASE HydrateRead(t) \/ WalkBegin(t) \/ WalkAgain(t)
    BY <2>2 DEF HydrateRead, WalkBegin, WalkAgain, ReadDown
  <2>3. CASE \/ Fetch(t) \/ Open(t) \/ Store(t) \/ Record(t)
             \/ ForwardBegin(t) \/ ForwardRead(t) \/ Settle(t)
    BY <2>3 DEF Fetch, Open, Store, Record, ForwardBegin, ForwardRead, Settle
  <2> QED BY <1>1, <2>1, <2>2, <2>3 DEF Pass
<1>2. CASE Abort(t) BY <1>2 DEF Abort
<1>3. CASE Crash(t) BY <1>3 DEF Crash
<1> QED BY <1>1, <1>2, <1>3

\* A pass that an error ends, or a tab that dies, loses nothing but what it forfeits.
LEMMA EndStep ==
    ASSUME TypeOK, NEW t \in Tab, Sound(t), Abort(t) \/ Crash(t)
    PROVE  Sound(t)' /\ Handed(t)
<1>1. PICK j : Start(t, j) BY DEF Abort, Crash
<1>2. Sound(t)' BY <1>1, Started
<1>3. CASE Abort(t)
  <2>1. local[t].batch = NoBatch BY <1>3 DEF Abort, Requesting, At, Sound, Tidy
  <2> QED BY <1>2, <2>1 DEF Handed, NoBatch
<1>4. CASE Crash(t) BY <1>2, <1>4 DEF Crash, Batch, Handed
<1> QED BY <1>3, <1>4

\* Every tab stays sound.
LEMMA SoundStep == ASSUME IInv, TypeOK', [Next]_vars PROVE \A u \in Tab : Sound(u)'
<1> USE DEF IInv
<1>1. ASSUME NEW t \in Tab, Pass(t) \/ Abort(t) \/ Crash(t), NEW u \in Tab PROVE Sound(u)'
  <2>1. CASE u = t BY <1>1, <2>1, PassStep, EndStep
  <2>2. CASE u # t BY <1>1, <2>2, OneMoves, Elsewhere
  <2> QED BY <2>1, <2>2
<1>2. ASSUME UNCHANGED <<where, work>>, NEW u \in Tab PROVE Sound(u)'
  BY <1>2, Elsewhere DEF where, work
<1>3. CASE Arrive BY <1>2, <1>3 DEF Arrive
<1>4. CASE Added BY <1>2, <1>4 DEF Added
<1>5. CASE Join BY <1>2, <1>5 DEF Join
<1>6. CASE \E g \in Gen : WrapKey(g) BY <1>2, <1>6 DEF WrapKey
<1>7. CASE \E m \in Message : ResolveOwn(m) BY <1>2, <1>7 DEF ResolveOwn
<1>8. CASE UNCHANGED vars BY <1>2, <1>8 DEF vars
<1> QED BY <1>1, <1>3, <1>4, <1>5, <1>6, <1>7, <1>8 DEF Next

\* Only an ack takes envelopes away, and a drain acks what is stored.
LEMMA AckedStep == ASSUME IInv, [Next]_vars PROVE AckedIsStored'
<1> USE DEF IInv, server
<1>1. \A m \in Message : rec[m] # "none" => rec'[m] # "none" BY Monotone
<1>2. \A m \in (missed + 1)..sent : m \in Message BY DEF TypeOK, Message
<1>3. ASSUME UNCHANGED <<sent, missed>>, inbox \subseteq inbox' PROVE AckedIsStored'
  BY <1>1, <1>2, <1>3 DEF AckedIsStored
<1>4. ASSUME NEW t \in Tab, Pass(t) PROVE AckedIsStored'
  <2>1. CASE Ack(t)
    <3>1. \A m \in local[t].page : rec[m] # "none" BY <2>1 DEF Ack, At, Sound, Drained
    <3>2. UNCHANGED <<sent, missed, rec>> /\ inbox' = inbox \ local[t].page
      BY <2>1 DEF Ack, store
    <3> QED BY <1>2, <3>1, <3>2 DEF AckedIsStored
  <2>2. CASE ~Ack(t)
    <3>1. UNCHANGED server
      BY <1>4, <2>2
         DEF Pass, RefreshKeys, RefreshThrottled, MarkWalk, HydrateSkip, HydrateRead,
             HydrateAdvance, Fetch, DrainEmpty, Open, Store, Record, ForwardSkip,
             ForwardBegin, ForwardRead, Settle, ForwardFinish, WalkSkip, WalkBegin,
             WalkAdvance, WalkAgain
    <3> QED BY <1>3, <3>1
  <2> QED BY <2>1, <2>2
<1>5. ASSUME NEW t \in Tab, Abort(t) \/ Crash(t) PROVE AckedIsStored'
  BY <1>3, <1>5 DEF Abort, Crash
<1>6. CASE Arrive
  <2>1. sent' = sent + 1 /\ UNCHANGED rec BY <1>6 DEF Arrive, store
  <2>2. CASE member
    <3>1. inbox' = inbox \cup {sent'} /\ missed' = missed BY <1>6, <2>2 DEF Arrive
    <3> QED BY <2>1, <3>1 DEF AckedIsStored, TypeOK
  <2>3. CASE ~member
    <3>1. missed' = sent' BY <1>6, <2>3 DEF Arrive
    <3> QED BY <2>1, <3>1 DEF AckedIsStored, TypeOK
  <2> QED BY <2>2, <2>3
<1>7. CASE \/ Added \/ Join \/ \E g \in Gen : WrapKey(g) \/ \E m \in Message : ResolveOwn(m)
  BY <1>3, <1>7 DEF Added, Join, WrapKey, ResolveOwn
<1>8. CASE UNCHANGED vars BY <1>3, <1>8 DEF vars
<1> QED BY <1>4, <1>5, <1>6, <1>7, <1>8 DEF Next

\* What is opened goes to the batch, and a batch is handed on.
LEMMA OpenedStep == ASSUME IInv, TypeOK', [Next]_vars PROVE OpenedIsKept'
<1> USE DEF IInv
<1>1. \A m \in Message : rec[m] = "read" => rec'[m] = "read" BY Monotone
<1>2. consumed \subseteq Message BY DEF TypeOK
<1>3. forfeited \subseteq forfeited'
  <2>1. ASSUME NEW t \in Tab, Pass(t) PROVE UNCHANGED bounds
    BY <2>1 DEF Pass, RefreshKeys, RefreshThrottled, MarkWalk, HydrateSkip, HydrateRead,
                HydrateAdvance, Fetch, DrainEmpty, Open, Ack, Store, Record, ForwardSkip,
                ForwardBegin, ForwardRead, Settle, ForwardFinish, WalkSkip, WalkBegin,
                WalkAdvance, WalkAgain
  <2>2. ASSUME NEW t \in Tab, Abort(t) \/ Crash(t) PROVE forfeited \subseteq forfeited'
    BY <2>2 DEF Abort, Crash
  <2>3. CASE \/ Arrive \/ Added \/ Join \/ \E g \in Gen : WrapKey(g)
             \/ \E m \in Message : ResolveOwn(m)
    BY <2>3 DEF Arrive, Added, Join, WrapKey, ResolveOwn, bounds
  <2> QED BY <2>1, <2>2, <2>3 DEF Next, vars, bounds
<1>4. ASSUME NEW t \in Tab, Pass(t) \/ Abort(t) \/ Crash(t), NEW m \in consumed
      PROVE  \/ rec'[m] = "read" \/ m \in forfeited'
             \/ \E u \in Tab : local'[u].batch[m] = "read"
  <2>1. m \in Message BY <1>2
  <2>2. CASE rec[m] = "read" \/ m \in forfeited BY <1>1, <1>3, <2>1, <2>2
  <2>3. ASSUME NEW u \in Tab, local[u].batch[m] = "read"
        PROVE  \/ rec'[m] = "read" \/ m \in forfeited' \/ local'[u].batch[m] = "read"
    <3>1. CASE u = t BY <1>4, <2>1, <2>3, <3>1, PassStep, EndStep DEF Handed
    <3>2. CASE u # t BY <1>4, <2>3, <3>2, OneMoves
    <3> QED BY <3>1, <3>2
  <2> QED BY <2>2, <2>3 DEF OpenedIsKept
<1>5. ASSUME NEW t \in Tab, Open(t), NEW m \in consumed' \ consumed
      PROVE  local'[t].batch[m] = "read"
  <2> DEFINE fresh == {n \in local[t].page : rec[n] = "none"}
             opened == {n \in fresh : OpensOnce(n)}
  <2>1. local[t] \in Locals BY DEF TypeOK
  <2>2. local'[t].batch = Outcome(fresh, opened) BY <1>5, <2>1 DEF Open, TypeOK, Locals
  <2>3. m \in fresh /\ m \in opened /\ m \in Message BY <1>5, <2>1 DEF Open, Locals
  <2> HIDE DEF fresh, opened
  <2> QED BY <2>2, <2>3, OutcomeType
<1>6. ASSUME NEW t \in Tab, Pass(t), ~Open(t) PROVE UNCHANGED consumed
  BY <1>6 DEF Pass, RefreshKeys, RefreshThrottled, MarkWalk, HydrateSkip, HydrateRead,
              HydrateAdvance, Fetch, DrainEmpty, Ack, Store, Record, ForwardSkip,
              ForwardBegin, ForwardRead, Settle, ForwardFinish, WalkSkip, WalkBegin,
              WalkAdvance, WalkAgain, crypto
<1>7. ASSUME NEW t \in Tab, Abort(t) \/ Crash(t) PROVE UNCHANGED consumed
  BY <1>7 DEF Abort, Crash, crypto
<1>8. ASSUME NEW t \in Tab, Pass(t) \/ Abort(t) \/ Crash(t) PROVE OpenedIsKept'
  <2>1. ASSUME NEW m \in consumed', m \notin consumed
        PROVE  \E u \in Tab : local'[u].batch[m] = "read"
    BY <1>5, <1>6, <1>7, <1>8, <2>1
  <2> QED BY <1>4, <1>8, <2>1 DEF OpenedIsKept
<1>9. ASSUME UNCHANGED <<consumed, local>> PROVE OpenedIsKept'
  BY <1>1, <1>2, <1>3, <1>9 DEF OpenedIsKept
<1>10. CASE \/ Arrive \/ Added \/ Join \/ \E g \in Gen : WrapKey(g)
            \/ \E m \in Message : ResolveOwn(m)
  BY <1>9, <1>10 DEF Arrive, Added, Join, WrapKey, ResolveOwn, crypto, work
<1>11. CASE UNCHANGED vars BY <1>9, <1>11 DEF vars, crypto, work
<1> QED BY <1>8, <1>10, <1>11 DEF Next

-----------------------------------------------------------------------------
\* IInv is an invariant.
THEOREM Inductive == Spec => []IInv
<1>1. Init => IInv
  <2> SUFFICES ASSUME Init PROVE IInv OBVIOUS
  <2> USE NoLocalsType, Sizes DEF Init
  <2>1. 0 \in 0..Attempts - 1 OBVIOUS
  <2>2. TypeOK
    <3>1. local \in [Tab -> Locals] OBVIOUS
    <3>2. tries \in [Tab -> [Message -> 0..Attempts - 1]] BY <2>1
    <3>3. walk \in 0..Top /\ hydration \in 0..Top BY DEF Top
    <3>4. rec \in [Message -> Stored] BY DEF Stored
    <3>5. /\ sent \in 0..Count /\ missed \in 0..sent
          /\ crashes \in 0..MaxCrashes /\ fails \in 0..MaxFails
      OBVIOUS
    <3> QED BY <3>1, <3>2, <3>3, <3>4, <3>5 DEF TypeOK
  <2>3. \A t \in Tab : Sound(t) BY DEF Sound, Tidy, Saved, Drained, Paced
  <2>4. AckedIsStored /\ OpenedIsKept BY DEF AckedIsStored, OpenedIsKept
  <2> QED BY <2>2, <2>3, <2>4 DEF IInv
<1>2. IInv /\ [Next]_vars => IInv'
  <2> SUFFICES ASSUME IInv, [Next]_vars PROVE IInv' OBVIOUS
  <2>1. TypeOK' BY TypeStep DEF IInv, Sound
  <2> QED BY <2>1, SoundStep, AckedStep, OpenedStep DEF IInv
<1> QED BY <1>1, <1>2, PTL DEF Spec

\* Every variable has the type of the record or field it stands for, in every behaviour.
THEOREM TypeCorrect == Spec => []TypeOK
<1>1. IInv => TypeOK BY DEF IInv
<1> QED BY <1>1, Inductive, PTL

(***************************************************************************)
(* No envelope is acked before its message is stored, whatever the order   *)
(* in which two tabs drain, whoever dies and whatever fails (#drainInbox). *)
(***************************************************************************)
THEOREM NoAckBeforeStore == Spec => []AckedIsStored
<1>1. IInv => AckedIsStored BY DEF IInv
<1> QED BY <1>1, Inductive, PTL

(***************************************************************************)
(* An opened envelope, whose key is spent, is stored readable unless the   *)
(* tab that opened it died with it (#drainInbox, putMessages).             *)
(***************************************************************************)
THEOREM NothingOpenedIsLost == Spec => []OpenedIsKept
<1>1. IInv => OpenedIsKept BY DEF IInv
<1> QED BY <1>1, Inductive, PTL

(***************************************************************************)
(* No write of any of the reads turns a readable message back into one     *)
(* that is not (putMessages).                                              *)
(***************************************************************************)
THEOREM ReadForGood == Spec => ReadStaysRead
<1>1. TypeOK /\ [Next]_vars => [\A m \in Message : rec[m] = "read" => rec'[m] = "read"]_vars
  BY Monotone
<1> QED BY <1>1, TypeCorrect, PTL DEF Spec, ReadStaysRead

=============================================================================
