---------------------------- MODULE OutboxProofs ----------------------------
(***************************************************************************)
(* Proofs about Outbox, for any number of messages, conversations and tabs *)
(* and any values of the bounds.                                           *)
(***************************************************************************)
EXTENDS Outbox, TLAPS

USE OutboxAssumption

(***************************************************************************)
(* What the code does to an outbox entry leaves an outbox entry.           *)
(***************************************************************************)
LEMMA NoEntryType == NoEntry \in Entry /\ NoEntry.failed = FALSE /\ NoEntry.form \notin Form
BY DEF Entry, NoEntry, Form

\* An entry is made of a form, a key and a flag.
LEMMA EntryType ==
    ASSUME NEW e \in Entry, e # NoEntry
    PROVE  e.form \in Form /\ e.key \in 0..MaxKey /\ e.failed \in BOOLEAN
BY DEF Entry

\* Setting the flag of an entry leaves an entry, and only the flag changes.
LEMMA MarkEntry ==
    ASSUME NEW e \in Entry, e # NoEntry, NEW f \in BOOLEAN
    PROVE  /\ [e EXCEPT !.failed = f] \in Entry
           /\ [e EXCEPT !.failed = f] # NoEntry
           /\ [e EXCEPT !.failed = f].failed = f
BY DEF Entry, NoEntry, Form

\* Re-sealing an entry leaves an entry, and its flag as it was.
LEMMA ResealEntry ==
    ASSUME NEW e \in Entry, e # NoEntry, NEW k \in 0..MaxKey
    PROVE  /\ [e EXCEPT !.form = "sealed", !.key = k] \in Entry
           /\ [e EXCEPT !.form = "sealed", !.key = k] # NoEntry
           /\ [e EXCEPT !.form = "sealed", !.key = k].failed = e.failed
BY DEF Entry, NoEntry, Form

\* recordOutboxFailure keeps every entry, and flags those of the list that are there.
LEMMA Failed ==
    ASSUME TypeOK, NEW lost \in SUBSET Message, Fail(lost), NEW m \in Message
    PROVE  /\ Present(m)' <=> Present(m)
           /\ outbox'[m].failed => outbox[m].failed \/ (m \in lost /\ Present(m))
           /\ outbox'[m] \in Entry
<1>1. outbox'[m] = IF m \in lost /\ Present(m) THEN [outbox[m] EXCEPT !.failed = TRUE]
                                               ELSE outbox[m]
  BY DEF Fail, TypeOK
<1>2. outbox[m] \in Entry BY DEF TypeOK
<1>3. CASE m \in lost /\ Present(m)
  <2>1. /\ [outbox[m] EXCEPT !.failed = TRUE] \in Entry
        /\ [outbox[m] EXCEPT !.failed = TRUE] # NoEntry
    BY <1>2, <1>3, MarkEntry DEF Present
  <2> QED BY <1>1, <1>3, <2>1 DEF Present
<1>4. CASE ~(m \in lost /\ Present(m)) BY <1>1, <1>2, <1>4 DEF Present
<1> QED BY <1>3, <1>4

\* What sealForOutbox makes of an entry is an entry, with the same flag.
LEMMA SealedEntry ==
    ASSUME TypeOK, NEW m \in Message, NEW e \in Entry, e # NoEntry
    PROVE  /\ Sealed(m, e) \in Entry
           /\ Sealed(m, e) # NoEntry
           /\ Sealed(m, e).failed = e.failed
BY ResealEntry DEF Sealed, TypeOK

\* What enqueue() writes is an entry that has not failed.
LEMMA FreshEntry ==
    ASSUME TypeOK, NEW m \in Message
    PROVE  /\ NewEntry(m) \in Entry
           /\ NewEntry(m) # NoEntry
           /\ NewEntry(m).failed = FALSE
BY DEF NewEntry, CanSeal, TypeOK, Entry, NoEntry, Form

\* What a flush starts with is made of entries, none of them failed.
LEMMA Snapshot ==
    ASSUME TypeOK, NEW t \in Tab, NEW S
    PROVE  [snap EXCEPT ![t] = [n \in Message |-> IF n \in S THEN NoEntry ELSE @[n]]]
              \in [Tab -> [Message -> Entry]]
BY NoEntryType DEF TypeOK

(***************************************************************************)
(* Every variable keeps its type.                                          *)
(***************************************************************************)
LEMMA TypeStep == ASSUME TypeOK, [Next]_vars PROVE TypeOK'
<1> USE DEF TypeOK, Answer, device, flusher, tabs, server, network, history
<1>1. ASSUME NEW m \in Message, Compose(m) PROVE TypeOK'
  <2>1. CASE EnqueueBegin(m) BY <2>1 DEF EnqueueBegin
  <2>2. CASE EnqueuePut(m) BY <2>2, FreshEntry DEF EnqueuePut, Put, TypedBefore
  <2>3. CASE RetryRead(m) BY <2>3 DEF RetryRead
  <2>4. CASE RetryPut(m)
    <3>1. [retrying[m] EXCEPT !.failed = FALSE] \in Entry
      BY <2>4, MarkEntry DEF RetryPut
    <3> QED BY <2>4, <3>1, NoEntryType DEF RetryPut, Put
  <2> QED BY <1>1, <2>1, <2>2, <2>3, <2>4 DEF Compose
<1>2. ASSUME NEW t \in Tab, Work(t) PROVE TypeOK'
  <2>1. CASE FlushStart(t)
    <3>1. \A m \in Message : Pending[m] \in Entry BY NoEntryType DEF Pending
    <3>2. Pending \in [Message -> Entry] BY <3>1 DEF Pending
    <3> QED BY <2>1, <3>2 DEF FlushStart
  <2>2. CASE FlushDone(t) BY <2>2, Snapshot DEF FlushDone, EndPass, Drop
  <2>3. ASSUME NEW m \in Message, FlushPark(t, m) PROVE TypeOK'
    BY <2>3, Snapshot DEF FlushPark, Block, Drop
  <2>4. ASSUME NEW m \in Message, FlushSend(t, m) PROVE TypeOK'
    <3> DEFINE e == IF snap[t][m].form = "parked" THEN Sealed(m, snap[t][m]) ELSE snap[t][m]
    <3>1. snap[t][m] \in Entry /\ snap[t][m] # NoEntry BY <2>4 DEF FlushSend, IsHead, Left
    <3>2. e \in Entry /\ e # NoEntry BY <3>1, SealedEntry
    <3>3. [tab |-> t, msg |-> m, form |-> e.form, key |-> e.key] \in Request
      BY <3>2, EntryType DEF Request
    <3>4. outbox' \in [Message -> Entry] BY <2>4, <3>2 DEF FlushSend, Put
    <3>5. snap' \in [Tab -> [Message -> Entry]] BY <2>4, <3>2 DEF FlushSend
    <3>6. requests' \subseteq Request BY <2>4, <3>3 DEF FlushSend
    <3> QED BY <2>4, <3>4, <3>5, <3>6 DEF FlushSend
  <2> QED BY <1>2, <2>1, <2>2, <2>3, <2>4 DEF Work
<1>3. ASSUME NEW t \in Tab, Around(t) PROVE TypeOK'
  <2>1. CASE FlushAborted(t) BY <2>1, Snapshot DEF FlushAborted, EndPass, Drop
  <2>2. Orphaned(t) \subseteq Request
    <3>1. \A r \in Request : [r EXCEPT !.tab = NoTab] \in Request BY DEF Request
    <3> QED BY <3>1 DEF Orphaned, Asked
  <2>3. CASE LoseConnection(t)
    BY <2>2, <2>3, Snapshot DEF LoseConnection, EndPass, Drop
  <2>4. CASE Crash(t) BY <2>2, <2>4, Snapshot DEF Crash, EndPass, Drop
  <2>5. ASSUME NEW c \in Conversation, MlsTick(t, c) PROVE TypeOK'
    BY <2>5 DEF MlsTick
  <2>6. ASSUME NEW c \in Conversation, FailPendingSends(t, c) PROVE TypeOK'
    BY <2>6, MarkEntry DEF FailPendingSends, Fail, Present
  <2> QED BY <1>3, <2>1, <2>3, <2>4, <2>5, <2>6 DEF Around, Tick
<1>4. ASSUME NEW t \in Tab, NEW m \in Message, OnAnswer(t, m) PROVE TypeOK'
  <2> USE Snapshot DEF Answered, Resume, MoveOn, Block, Drop
  <2>1. CASE OnAccepted(t, m) BY <2>1, NoEntryType DEF OnAccepted, ResolveOutbox, Put
  <2>2. CASE OnStaleRepaired(t, m)
    <3>1. snap[t][m] \in Entry /\ snap[t][m] # NoEntry BY <2>2 DEF OnStaleRepaired, IsHead, Left
    <3>2. [snap[t][m] EXCEPT !.form = "sealed", !.key = serverKey[ConvOf[m]]] \in Entry
      BY <3>1, ResealEntry
    <3> QED BY <2>2, <3>2 DEF OnStaleRepaired, Put
  <2>3. CASE OnStaleUnrepaired(t, m) BY <2>3 DEF OnStaleUnrepaired
  <2>4. CASE OnSlowmode(t, m) BY <2>4 DEF OnSlowmode
  <2>5. CASE OnPermanent(t, m)
    <3>1. outbox' \in [Message -> Entry] BY <2>5, MarkEntry DEF OnPermanent, Fail, Present
    <3>2. givenUp' \subseteq Message BY <2>5 DEF OnPermanent, Fail
    <3> QED BY <2>5, <3>1, <3>2 DEF OnPermanent
  <2>6. CASE OnTransient(t, m) BY <2>6 DEF OnTransient, EndPass
  <2> QED BY <1>4, <2>1, <2>2, <2>3, <2>4, <2>5, <2>6 DEF OnAnswer
<1>5. CASE Server
  <2>1. ASSUME NEW r \in requests, ServerAccepts(r) PROVE TypeOK'
    <3>1. r \in Request BY DEF TypeOK
    <3> QED BY <2>1, <3>1 DEF ServerAccepts, Respond, ClientMessageId, Known, Request
  <2>2. ASSUME NEW r \in requests, NEW a \in Answer, ServerRefuses(r, a) PROVE TypeOK'
    BY <2>2 DEF ServerRefuses, Respond
  <2>3. ASSUME NEW c \in Conversation, KeyAdvance(c) PROVE TypeOK'
    BY <2>3 DEF KeyAdvance
  <2>4. ASSUME NEW c \in Conversation, Removed(c) PROVE TypeOK'
    BY <2>4 DEF Removed
  <2> QED BY <1>5, <2>1, <2>2, <2>3, <2>4 DEF Server
<1>6. CASE UNCHANGED vars BY <1>6 DEF vars
<1> QED BY <1>1, <1>2, <1>3, <1>4, <1>5, <1>6 DEF Next

\* Every variable has the type its object store or field has, in every behaviour.
THEOREM TypeCorrect == Spec => []TypeOK
<1>1. Init => TypeOK
  BY NoEntryType DEF Init, TypeOK, Answer
<1>2. TypeOK /\ [Next]_vars => TypeOK' BY TypeStep
<1> QED BY <1>1, <1>2, PTL DEF Spec

-----------------------------------------------------------------------------
(***************************************************************************)
(* The inductive invariant.                                                *)
(***************************************************************************)
Queued(m) == stage[m] = "queued"

\* Composed messages have dates of their own, none of them in the future.
Dated ==
    \A m \in Message :
        /\ createdAt[m] <= clock
        /\ \A n \in Message :
              stage[m] # "none" /\ stage[n] # "none" /\ createdAt[m] = createdAt[n] => m = n

\* Whatever holds a message holds one that enqueue() has written ...
Written ==
    /\ \A m \in Message :
          Present(m) \/ m \in stored \/ retrying[m] # NoEntry \/ m \in givenUp => Queued(m)
    /\ \A t \in Tab : \A m \in Left(t) : Queued(m)
    /\ \A r \in requests : Queued(r.msg)

\* ... a mark says the message was given up on, and a snapshot holds none marked.
Marked ==
    /\ \A m \in Message : outbox[m].failed => m \in givenUp
    /\ \A t \in Tab, m \in Message : snap[t][m].failed = FALSE

\* The server's rows: one for each id it has seen, and only those are shown as sent.
Rows ==
    /\ \A m \in Message : copies[m] = IF m \in seen THEN 1 ELSE 0
    /\ stored \subseteq seen

\* A tab has one send on the wire at most, of its head, and no answer before it.
Wire ==
    /\ \A t \in Tab : pc[t] # "waiting" => reply[t] = "none" /\ Asked(t) = {}
    /\ \A t \in Tab : \A r \in Asked(t) : IsHead(t, r.msg) /\ reply[t] = "none"
    /\ \A t \in Tab : \A q, r \in Asked(t) : q = r
    /\ \A t \in Tab, m \in Message :
          reply[t] = "accepted" /\ IsHead(t, m) => m \in seen

\* before relates messages of one conversation, in the order they were typed ...
Typed ==
    \A n, m \in Message : <<n, m>> \in before =>
        Queued(n) /\ Queued(m) /\ ConvOf[n] = ConvOf[m] /\ createdAt[n] < createdAt[m]

Done(n) == copies[n] > 0 \/ n \in givenUp

\* ... a snapshot that holds a message holds what must go before it ...
SnapOrder ==
    \A t \in Tab : \A m \in Left(t) : \A n \in Message :
        <<n, m>> \in before => n \in Left(t) \/ Done(n)

\* ... and nothing is on the wire before its turn.
WireOrder ==
    \A r \in requests : \A n \in Message : <<n, r.msg>> \in before => Done(n)

IInv == /\ TypeOK /\ Dated /\ Written /\ NeverLost /\ Marked /\ Rows /\ Wire
        /\ Typed /\ SnapOrder /\ WireOrder

\* Passing over a set of messages changes nothing else of the snapshots.
LEMMA Dropped ==
    ASSUME TypeOK, NEW t \in Tab, NEW S, Drop(t, S)
    PROVE  \A u \in Tab, n \in Message :
              snap'[u][n] = IF u = t /\ n \in S THEN NoEntry ELSE snap[u][n]
BY DEF TypeOK, Drop

\* A flush works on one message at a time: createdAt is never shared.
LEMMA OneHead ==
    ASSUME IInv, NEW t \in Tab, NEW m \in Message, NEW n \in Message,
           IsHead(t, m), IsHead(t, n)
    PROVE  m = n
<1>1. createdAt[m] \in Nat /\ createdAt[n] \in Nat BY DEF IInv, TypeOK
<1>2. createdAt[m] <= createdAt[n] /\ createdAt[n] <= createdAt[m] BY DEF IsHead
<1>3. createdAt[m] = createdAt[n] BY <1>1, <1>2
<1>4. stage[m] # "none" /\ stage[n] # "none" BY DEF IInv, Written, Queued, IsHead
<1> QED BY <1>3, <1>4 DEF IInv, Dated

\* What was typed before the head of a snapshot is settled.
LEMMA HeadTurn ==
    ASSUME IInv, NEW t \in Tab, NEW m \in Message, IsHead(t, m),
           NEW n \in Message, <<n, m>> \in before
    PROVE  Done(n)
<1>1. createdAt[n] < createdAt[m] BY DEF IInv, Typed
<1>2. n \notin Left(t) BY <1>1 DEF IInv, TypeOK, IsHead
<1> QED BY <1>2 DEF IInv, SnapOrder, IsHead

\* Nothing a tab does to its own flush disturbs what another tab has on the wire.
LEMMA WireLocal ==
    ASSUME Wire, NEW t \in Tab, reply'[t] = "none", Asked(t)' = {},
           seen \subseteq seen', createdAt' = createdAt,
           \A u \in Tab \ {t} : /\ snap'[u] = snap[u] /\ pc'[u] = pc[u]
                               /\ reply'[u] = reply[u] /\ Asked(u)' = Asked(u)
    PROVE  Wire'
<1>1. \A u \in Tab \ {t}, k \in Message : IsHead(u, k)' = IsHead(u, k)
  BY DEF IsHead, Left
<1>2. \A u \in Tab \ {t} : \A r \in Asked(u) : IsHead(u, r.msg)' = IsHead(u, r.msg)
  BY DEF IsHead, Left
<1> QED BY <1>1, <1>2 DEF Wire

\* A step of t that passes over S in its snapshot, and changes nothing else of the device.
LEMMA PassOver ==
    ASSUME IInv, NEW t \in Tab, NEW S, Drop(t, S),
           UNCHANGED <<stage, before>>,
           \A n \in Message : Done(n) => Done(n)',
           \A k \in S \cap Message : \A n \in Left(t) \ S : <<k, n>> \in before => Done(k)'
    PROVE  /\ \A u \in Tab : \A n \in Left(u)' : Queued(n)'
           /\ \A u \in Tab, n \in Message : snap'[u][n].failed = FALSE
           /\ \A u \in Tab \ {t} : snap'[u] = snap[u]
           /\ SnapOrder'
<1>1. \A u \in Tab, n \in Message :
        snap'[u][n] = IF u = t /\ n \in S THEN NoEntry ELSE snap[u][n]
  BY Dropped DEF IInv
<1>2. \A u \in Tab : \A n \in Left(u)' : Queued(n)' BY <1>1 DEF IInv, Written, Left, Queued
<1>3. \A u \in Tab, n \in Message : snap'[u][n].failed = FALSE
  BY <1>1, NoEntryType DEF IInv, Marked
<1>4. \A u \in Tab \ {t} : snap'[u] = snap[u] BY DEF IInv, TypeOK, Drop
<1>5. SnapOrder'
  <2>1. ASSUME NEW u \in Tab, NEW m \in Left(u)', NEW n \in Message, <<n, m>> \in before
        PROVE  n \in Left(u)' \/ Done(n)'
    <3>1. m \in Left(u) /\ (u = t => m \notin S) BY <1>1 DEF Left
    <3>2. n \in Left(u) \/ Done(n) BY <2>1, <3>1 DEF IInv, SnapOrder
    <3>3. CASE u = t /\ n \in S BY <2>1, <3>1, <3>3
    <3>4. CASE ~(u = t /\ n \in S) BY <1>1, <3>2, <3>4 DEF Left
    <3> QED BY <3>3, <3>4
  <2> QED BY <2>1 DEF SnapOrder
<1> QED BY <1>2, <1>3, <1>4, <1>5

\* enqueue() and retry() keep the invariant.
LEMMA ComposeStep ==
    ASSUME IInv, TypeOK', NEW m \in Message, Compose(m) PROVE IInv'
<1> USE DEF IInv, device, flusher, tabs, server, network, history
<1>1. CASE EnqueueBegin(m)
  <2> USE <1>1 DEF EnqueueBegin
  <2>1. Dated' BY DEF Dated, TypeOK
  <2>2. Written' BY DEF Written, Queued, Present, Left, TypeOK
  <2>3. NeverLost' BY DEF NeverLost, Present, TypeOK
  <2>4. Marked' /\ Rows' BY DEF Marked, Rows
  <2>5. Wire' BY DEF Wire, Asked, IsHead, Left, TypeOK, Written, Queued, Dated
  <2>6. Typed' BY DEF Typed, Queued, TypeOK
  <2>7. SnapOrder' /\ WireOrder' BY DEF SnapOrder, WireOrder, Left, Done
  <2> QED BY <2>1, <2>2, <2>3, <2>4, <2>5, <2>6, <2>7
<1>2. CASE EnqueuePut(m)
  <2> USE <1>2 DEF EnqueuePut, Put
  <2>0. ~Queued(m) BY DEF Queued
  <2>1. Dated' BY DEF Dated, TypeOK
  <2>2. Written' BY DEF Written, Queued, Present, Left, TypeOK
  <2>3. NeverLost' BY FreshEntry DEF NeverLost, Present, TypeOK
  <2>4. Marked' BY FreshEntry DEF Marked, TypeOK
  <2>5. Rows' BY DEF Rows
  <2>6. Wire' BY DEF Wire, Asked, IsHead, Left
  <2>7. Typed' BY DEF Typed, TypedBefore, Queued, TypeOK
  <2>8. SnapOrder' BY <2>0 DEF SnapOrder, Written, Left, Done, TypedBefore
  <2>9. WireOrder' BY <2>0 DEF WireOrder, Written, Done, TypedBefore
  <2> QED BY <2>1, <2>2, <2>3, <2>4, <2>5, <2>6, <2>7, <2>8, <2>9
<1>3. CASE RetryRead(m)
  <2> USE <1>3 DEF RetryRead
  <2>1. Present(m) BY NoEntryType DEF Present
  <2>2. Written' BY <2>1 DEF Written, Queued, Present, Left, TypeOK
  <2> QED BY <2>2 DEF Dated, NeverLost, Present, Marked, Rows, Wire, Asked, IsHead, Left,
                      Typed, Queued, SnapOrder, WireOrder, Done
<1>4. CASE RetryPut(m)
  <2> USE <1>4 DEF RetryPut, Put
  <2>1. /\ [retrying[m] EXCEPT !.failed = FALSE] # NoEntry
        /\ [retrying[m] EXCEPT !.failed = FALSE].failed = FALSE
    BY MarkEntry DEF TypeOK
  <2>2. Written' BY DEF Written, Queued, Present, Left, TypeOK
  <2>3. NeverLost' BY <2>1 DEF NeverLost, Present, TypeOK
  <2>4. Marked' BY <2>1 DEF Marked, TypeOK
  <2> QED BY <2>2, <2>3, <2>4 DEF Dated, Rows, Wire, Asked, IsHead, Left,
                      Typed, Queued, SnapOrder, WireOrder, Done
<1> QED BY <1>1, <1>2, <1>3, <1>4 DEF Compose

\* A flush working through its snapshot keeps the invariant.
LEMMA WorkStep ==
    ASSUME IInv, TypeOK', NEW t \in Tab, Work(t) PROVE IInv'
<1> USE DEF IInv, device, flusher, tabs, server, network, history
<1>1. CASE FlushStart(t)
  <2> USE <1>1 DEF FlushStart
  <2>0. \A u \in Tab, m \in Message :
           snap'[u][m] = IF u = t THEN IF outbox[m].failed THEN NoEntry ELSE outbox[m]
                                  ELSE snap[u][m]
    BY DEF Pending, TypeOK
  <2>1. \A m \in Message : outbox[m] \in Entry /\ outbox[m].failed \in BOOLEAN
    BY EntryType, NoEntryType DEF TypeOK
  <2>2. Written' BY <2>0 DEF Written, Queued, Present, Left
  <2>3. Marked' BY <2>0, <2>1, NoEntryType DEF Marked
  <2>4. Wire'
    <3>1. reply[t] = "none" /\ Asked(t) = {} BY DEF Wire
    <3> QED BY <3>1, WireLocal DEF Asked, TypeOK
  <2>5. ASSUME NEW m \in Message, NEW n \in Message, <<n, m>> \in before
        PROVE  outbox[n] = NoEntry \/ outbox[n].failed => Done(n)
    BY <2>5 DEF Typed, NeverLost, Queued, Marked, Rows, Present, Done
  <2>6. SnapOrder' BY <2>0, <2>5 DEF SnapOrder, Left, Done
  <2> QED BY <2>2, <2>3, <2>4, <2>6 DEF Dated, NeverLost, Present, Rows, Typed, Queued,
                                        WireOrder, Done
<1>2. CASE FlushDone(t)
  <2> USE <1>2 DEF FlushDone, EndPass
  <2>1. \A u \in Tab, n \in Message :
           snap'[u][n] = IF u = t /\ n \in Message THEN NoEntry ELSE snap[u][n]
    BY Dropped
  <2>2. Written' BY <2>1 DEF Written, Queued, Present, Left
  <2>3. Marked' BY <2>1, NoEntryType DEF Marked
  <2>4. Wire' BY <2>1 DEF Wire, Asked, IsHead, Left, TypeOK
  <2>5. SnapOrder' BY <2>1 DEF SnapOrder, Left, Done
  <2> QED BY <2>2, <2>3, <2>4, <2>5 DEF Dated, NeverLost, Present, Rows, Typed, Queued,
                                        WireOrder, Done
<1>3. ASSUME NEW m \in Message, FlushPark(t, m) PROVE IInv'
  <2> USE <1>3 DEF FlushPark, Block
  <2>1. \A u \in Tab, n \in Message :
           snap'[u][n] = IF u = t /\ ConvOf[n] = ConvOf[m] THEN NoEntry ELSE snap[u][n]
    BY Dropped
  <2>2. Written' BY <2>1 DEF Written, Queued, Present, Left
  <2>3. Marked' BY <2>1, NoEntryType DEF Marked
  <2>4. Wire' BY <2>1 DEF Wire, Asked, IsHead, Left
  <2>5. SnapOrder' BY <2>1 DEF SnapOrder, Left, Done, Typed
  <2> QED BY <2>2, <2>3, <2>4, <2>5 DEF Dated, NeverLost, Present, Rows, Typed, Queued,
                                        WireOrder, Done
<1>4. ASSUME NEW m \in Message, FlushSend(t, m) PROVE IInv'
  <2> DEFINE e == IF snap[t][m].form = "parked" THEN Sealed(m, snap[t][m]) ELSE snap[t][m]
             r == [tab |-> t, msg |-> m, form |-> e.form, key |-> e.key]
  <2> USE <1>4
  <2>1. IsHead(t, m) /\ pc[t] = "next" BY DEF FlushSend
  <2>2. snap[t][m] \in Entry /\ snap[t][m] # NoEntry BY <2>1 DEF IsHead, Left, TypeOK
  <2>3. e # NoEntry /\ e.failed = FALSE BY <2>2, SealedEntry DEF Marked
  <2>4. snap' = [snap EXCEPT ![t][m] = e] BY DEF FlushSend
  <2>5. outbox' = outbox \/ outbox' = [outbox EXCEPT ![m] = e] BY DEF FlushSend, Put
  <2>6. requests' = requests \cup {r} BY DEF FlushSend
  <2>7. \A u \in Tab : Left(u)' = Left(u) BY <2>2, <2>3, <2>4 DEF Left, TypeOK
  <2>8. r.tab = t /\ r.msg = m OBVIOUS
  <2>9. Queued(m) BY <2>1 DEF Written, IsHead
  <2> HIDE DEF e, r
  <2>10. /\ UNCHANGED <<clock, createdAt, stage, stored, retrying, serverKey, gone, seen,
                        copies, reply, before, givenUp>>
         /\ pc' = [pc EXCEPT ![t] = "waiting"]
    BY DEF FlushSend
  <2>11. Written'
    BY <2>5, <2>6, <2>7, <2>8, <2>9, <2>10 DEF Written, Queued, Present, TypeOK
  <2>12. NeverLost' BY <2>3, <2>5, <2>10 DEF NeverLost, Present, TypeOK
  <2>13. Marked' BY <2>3, <2>4, <2>5, <2>10 DEF Marked, TypeOK
  <2>14. \A u \in Tab, k \in Message : IsHead(u, k)' = IsHead(u, k)
    BY <2>7, <2>10 DEF IsHead
  <2>15. Asked(t)' = {r} /\ \A u \in Tab \ {t} : Asked(u)' = Asked(u)
    BY <2>1, <2>6, <2>8 DEF Asked, Wire
  <2>16. Wire'
    <3>1. reply[t] = "none" BY <2>1 DEF Wire
    <3>2. \A u \in Tab \ {t} : pc'[u] = pc[u] BY <2>10 DEF TypeOK
    <3>3. pc'[t] = "waiting" BY <2>10 DEF TypeOK
    <3>4. \A u \in Tab : \A q \in Asked(u) : IsHead(u, q.msg)' = IsHead(u, q.msg)
      BY <2>7, <2>10 DEF IsHead
    <3>5. IsHead(t, m)' BY <2>1, <2>14
    <3>6. \A q \in Asked(t)' : q = r /\ q.msg = m BY <2>8, <2>15
    <3>7. reply' = reply /\ seen' = seen BY <2>10
    <3>8. \A u \in Tab : pc'[u] # "waiting" => reply'[u] = "none" /\ Asked(u)' = {}
      BY <2>15, <3>2, <3>3, <3>7 DEF Wire
    <3>9. \A u \in Tab : \A q \in Asked(u)' : IsHead(u, q.msg)' /\ reply'[u] = "none"
      <4>1. ASSUME NEW u \in Tab \ {t}, NEW q \in Asked(u)'
            PROVE  IsHead(u, q.msg)' /\ reply'[u] = "none"
        BY <2>15, <3>4, <3>7 DEF Wire
      <4> QED BY <4>1, <3>1, <3>5, <3>6, <3>7
    <3>10. \A u \in Tab : \A p, q \in Asked(u)' : p = q BY <2>15, <3>6 DEF Wire
    <3>11. \A u \in Tab, k \in Message :
              reply'[u] = "accepted" /\ IsHead(u, k)' => k \in seen'
      BY <2>14, <3>7 DEF Wire
    <3> QED BY <3>8, <3>9, <3>10, <3>11 DEF Wire
  <2>17. SnapOrder' BY <2>7, <2>10 DEF SnapOrder, Done
  <2>18. WireOrder'
    BY <2>1, <2>6, <2>8, <2>10, HeadTurn DEF WireOrder, Done
  <2> QED BY <2>10, <2>11, <2>12, <2>13, <2>16, <2>17, <2>18
          DEF Dated, Rows, Typed, Queued
<1> QED BY <1>1, <1>2, <1>3, <1>4 DEF Work

\* A send whose tab lets go of it is still a send of the same message, or no more.
LEMMA Orphans ==
    ASSUME IInv, NEW t \in Tab, requests' = Orphaned(t)
    PROVE  /\ \A r \in requests' : \E q \in requests : q.msg = r.msg
           /\ Asked(t)' = {}
           /\ \A u \in Tab \ {t} : Asked(u)' = Asked(u)
<1>1. \A r \in Request : /\ [r EXCEPT !.tab = NoTab].tab = NoTab
                         /\ [r EXCEPT !.tab = NoTab].msg = r.msg
  BY DEF Request
<1>2. \A r \in requests : r \in Request BY DEF IInv, TypeOK
<1>3. \A r \in requests' : r \in requests \ Asked(t)
                             \/ \E q \in Asked(t) : r = [q EXCEPT !.tab = NoTab]
  BY DEF Orphaned
<1>4. \A r \in requests' : \E q \in requests : q.msg = r.msg
  <2> SUFFICES ASSUME NEW r \in requests' PROVE \E q \in requests : q.msg = r.msg OBVIOUS
  <2>1. CASE r \in requests \ Asked(t) BY <2>1
  <2>2. CASE \E q \in Asked(t) : r = [q EXCEPT !.tab = NoTab]
    <3>1. PICK q \in Asked(t) : r = [q EXCEPT !.tab = NoTab] BY <2>2
    <3>2. q \in requests BY DEF Asked
    <3> QED BY <1>1, <1>2, <3>1, <3>2
  <2> QED BY <1>3, <2>1, <2>2
<1>5. requests \ Asked(t) \subseteq requests' BY DEF Orphaned
<1>6. \A r \in requests' : r.tab = NoTab \/ (r \in requests /\ r.tab # t)
  BY <1>1, <1>2, <1>3 DEF Asked
<1>7. NoTab \notin Tab BY DEF OutboxAssumption
<1> QED BY <1>4, <1>5, <1>6, <1>7 DEF Asked

\* Membership ticks, lost connections, aborts and crashes keep the invariant.
LEMMA AroundStep ==
    ASSUME IInv, TypeOK', NEW t \in Tab, Around(t) PROVE IInv'
<1> USE DEF IInv, device, flusher, tabs, server, network, history
<1>1. CASE FlushAborted(t)
  <2> USE <1>1 DEF FlushAborted, EndPass
  <2>1. /\ \A u \in Tab : \A n \in Left(u)' : Queued(n)'
        /\ \A u \in Tab, n \in Message : snap'[u][n].failed = FALSE
        /\ \A u \in Tab \ {t} : snap'[u] = snap[u]
        /\ SnapOrder'
    BY PassOver DEF Done, Left
  <2>2. Wire'
    <3>1. reply'[t] = "none" /\ Asked(t)' = {} BY DEF Wire, Asked
    <3>2. \A u \in Tab \ {t} : pc'[u] = pc[u] /\ reply'[u] = reply[u] /\ Asked(u)' = Asked(u)
      BY DEF TypeOK, Asked
    <3> QED BY <2>1, <3>1, <3>2, WireLocal
  <2> QED BY <2>1, <2>2 DEF Written, Marked, Dated, NeverLost, Present, Rows, Typed, Queued,
                            WireOrder, Done
<1>2. ASSUME EndPass(t), requests' = Orphaned(t), reply' = [reply EXCEPT ![t] = "none"],
             UNCHANGED <<device, server, history>>
      PROVE  IInv'
  <2> USE <1>2 DEF EndPass
  <2>1. /\ \A u \in Tab : \A n \in Left(u)' : Queued(n)'
        /\ \A u \in Tab, n \in Message : snap'[u][n].failed = FALSE
        /\ \A u \in Tab \ {t} : snap'[u] = snap[u]
        /\ SnapOrder'
    BY PassOver DEF Done, Left
  <2>2. Wire'
    <3>1. reply'[t] = "none" /\ \A u \in Tab \ {t} : reply'[u] = reply[u] /\ pc'[u] = pc[u]
      BY DEF TypeOK
    <3> QED BY <2>1, <3>1, Orphans, WireLocal
  <2>3. WireOrder' BY Orphans DEF WireOrder, Done
  <2>4. \A r \in requests' : Queued(r.msg)' BY Orphans DEF Written, Queued
  <2> QED BY <2>1, <2>2, <2>3, <2>4 DEF Written, Marked, Dated, NeverLost, Present, Rows,
                                        Typed, Queued
<1>3. CASE LoseConnection(t) BY <1>2, <1>3 DEF LoseConnection
<1>4. CASE Crash(t) BY <1>2, <1>4 DEF Crash
<1>5. ASSUME NEW c \in Conversation, MlsTick(t, c) PROVE IInv'
  BY <1>5 DEF MlsTick, Written, Marked, Dated, NeverLost, Present, Rows, Wire, Asked, IsHead,
              Left, Typed, Queued, SnapOrder, WireOrder, Done
<1>6. ASSUME NEW c \in Conversation, FailPendingSends(t, c) PROVE IInv'
  <2> USE <1>6 DEF FailPendingSends
  <2>1. PICK lost \in SUBSET Message : Fail(lost) OBVIOUS
  <2>2. \A m \in Message :
            /\ Present(m)' <=> Present(m)
            /\ outbox'[m].failed => outbox[m].failed \/ (m \in lost /\ Present(m))
    BY <2>1, Failed
  <2>3. givenUp' = givenUp \cup {m \in lost : Present(m)} BY <2>1 DEF Fail
  <2>4. Written' BY <2>2, <2>3 DEF Written, Queued, Left
  <2>5. NeverLost' BY <2>2 DEF NeverLost
  <2>6. Marked' BY <2>2, <2>3 DEF Marked
  <2>7. SnapOrder' /\ WireOrder' BY <2>3 DEF SnapOrder, WireOrder, Left, Done
  <2> QED BY <2>4, <2>5, <2>6, <2>7 DEF Dated, Rows, Wire, Asked, IsHead, Left, Typed, Queued
<1> QED BY <1>1, <1>3, <1>4, <1>5, <1>6 DEF Around, Tick

\* Handling an answer consumes it, and leaves the other tabs' flushes alone.
LEMMA WireAnswered ==
    ASSUME IInv, NEW t \in Tab, NEW m \in Message, NEW a \in Answer, Answered(t, m, a),
           a # "none", UNCHANGED <<createdAt, seen>>,
           \A u \in Tab \ {t} : snap'[u] = snap[u] /\ pc'[u] = pc[u]
    PROVE  Wire'
<1>1. reply' = [reply EXCEPT ![t] = "none"] /\ requests' = requests /\ reply[t] # "none"
  BY DEF Answered
<1>2. Asked(t) = {} BY <1>1 DEF IInv, Wire
<1>3. reply'[t] = "none" /\ \A u \in Tab \ {t} : reply'[u] = reply[u]
  BY <1>1 DEF IInv, TypeOK
<1>4. \A u \in Tab : Asked(u)' = Asked(u) BY <1>1 DEF Asked
<1> QED BY <1>2, <1>3, <1>4, WireLocal DEF IInv

\* Whatever the answer to a send, handling it keeps the invariant.
LEMMA AnswerStep ==
    ASSUME IInv, TypeOK', NEW t \in Tab, NEW m \in Message, OnAnswer(t, m) PROVE IInv'
<1> USE DEF IInv, device, flusher, tabs, server, network, history
<1>1. CASE OnAccepted(t, m)
  <2> USE <1>1 DEF OnAccepted, ResolveOutbox, Put, Resume
  <2>0. Answered(t, m, "accepted") /\ IsHead(t, m) /\ "accepted" \in Answer
    BY DEF Answered, Answer
  <2>1. m \in seen /\ Done(m) BY <2>0 DEF Wire, Rows, Answered, Done
  <2>2. /\ \A u \in Tab : \A n \in Left(u)' : Queued(n)'
        /\ \A u \in Tab, n \in Message : snap'[u][n].failed = FALSE
        /\ \A u \in Tab \ {t} : snap'[u] = snap[u]
        /\ SnapOrder'
    BY <2>1, PassOver DEF Done, MoveOn
  <2>3. Wire' BY <2>0, <2>2, WireAnswered DEF TypeOK
  <2>4. Queued(m) BY <2>0 DEF Written, IsHead
  <2>5. Written' BY <2>0, <2>2, <2>4 DEF Written, Present, Queued, Answered, TypeOK
  <2>6. NeverLost' BY DEF NeverLost, Present, TypeOK
  <2>7. Marked' BY <2>2, NoEntryType DEF Marked, TypeOK
  <2>8. Rows' BY <2>1 DEF Rows
  <2> QED BY <2>0, <2>2, <2>3, <2>5, <2>6, <2>7, <2>8
          DEF Dated, Typed, Queued, WireOrder, Done, Answered
<1>2. CASE OnStaleRepaired(t, m)
  <2> DEFINE e == [snap[t][m] EXCEPT !.form = "sealed", !.key = serverKey[ConvOf[m]]]
  <2> USE <1>2 DEF OnStaleRepaired, Put, Resume
  <2>0. Answered(t, m, "stale") /\ IsHead(t, m) /\ "stale" \in Answer BY DEF Answered, Answer
  <2>1. e # NoEntry /\ e.failed = FALSE
    <3>1. snap[t][m] \in Entry /\ snap[t][m] # NoEntry /\ serverKey[ConvOf[m]] \in 0..MaxKey
      BY <2>0 DEF IsHead, Left, TypeOK, OutboxAssumption
    <3>2. e # NoEntry /\ e.failed = snap[t][m].failed BY <3>1, ResealEntry
    <3> QED BY <3>2 DEF Marked
  <2>2. /\ \A u \in Tab : \A n \in Left(u)' : Queued(n)'
        /\ \A u \in Tab, n \in Message : snap'[u][n].failed = FALSE
        /\ \A u \in Tab \ {t} : snap'[u] = snap[u]
        /\ SnapOrder'
    BY PassOver DEF Done, Block, Typed, Left
  <2>3. Wire' BY <2>0, <2>2, WireAnswered DEF TypeOK
  <2>4. Queued(m) BY <2>0 DEF Written, IsHead
  <2>5. outbox' = [outbox EXCEPT ![m] = e] OBVIOUS
  <2> HIDE DEF e
  <2>6. Written' BY <2>0, <2>2, <2>4, <2>5 DEF Written, Present, Queued, Answered, TypeOK
  <2>7. NeverLost' BY <2>1, <2>5 DEF NeverLost, Present, TypeOK
  <2>8. Marked' BY <2>1, <2>2, <2>5 DEF Marked, TypeOK
  <2> QED BY <2>0, <2>2, <2>3, <2>6, <2>7, <2>8
          DEF Dated, Typed, Queued, WireOrder, Done, Answered, Rows
<1>3. ASSUME NEW a \in {"stale", "slowmode"}, Answered(t, m, a), Resume(t), Block(t, m),
             UNCHANGED <<clock, createdAt, stage, outbox, stored, retrying, server, history>>
      PROVE  IInv'
  <2> USE <1>3 DEF Resume
  <2>1. a \in Answer /\ a # "none" BY DEF Answer
  <2>2. /\ \A u \in Tab : \A n \in Left(u)' : Queued(n)'
        /\ \A u \in Tab, n \in Message : snap'[u][n].failed = FALSE
        /\ \A u \in Tab \ {t} : snap'[u] = snap[u]
        /\ SnapOrder'
    BY PassOver DEF Done, Block, Typed, Left
  <2>3. Wire' BY <2>1, <2>2, WireAnswered DEF TypeOK
  <2> QED BY <2>2, <2>3 DEF Dated, Typed, Queued, WireOrder, Done, Answered, Rows,
                            Written, Present, NeverLost, Marked
<1>4. CASE OnStaleUnrepaired(t, m) BY <1>3, <1>4 DEF OnStaleUnrepaired
<1>5. CASE OnSlowmode(t, m) BY <1>3, <1>5 DEF OnSlowmode
<1>6. CASE OnPermanent(t, m)
  <2> USE <1>6 DEF OnPermanent, Resume
  <2>0. Answered(t, m, "permanent") /\ IsHead(t, m) /\ "permanent" \in Answer
    BY DEF Answered, Answer
  <2>1. \A n \in Message :
            /\ Present(n)' <=> Present(n)
            /\ outbox'[n].failed => outbox[n].failed \/ (n \in {m} /\ Present(n))
    BY Failed
  <2>2. givenUp' = givenUp \cup {n \in {m} : Present(n)} BY DEF Fail
  <2>3. Done(m)'
    <3>1. Queued(m) BY <2>0 DEF Written, IsHead
    <3>2. CASE Present(m) BY <2>2, <3>2 DEF Done
    <3>3. CASE ~Present(m)
      <4>1. m \in stored BY <3>1, <3>3 DEF NeverLost, Queued
      <4> QED BY <4>1 DEF Rows, Done
    <3> QED BY <3>2, <3>3
  <2>4. /\ \A u \in Tab : \A n \in Left(u)' : Queued(n)'
        /\ \A u \in Tab, n \in Message : snap'[u][n].failed = FALSE
        /\ \A u \in Tab \ {t} : snap'[u] = snap[u]
        /\ SnapOrder'
    BY <2>2, <2>3, PassOver DEF Done, MoveOn
  <2>5. Wire' BY <2>0, <2>4, WireAnswered DEF TypeOK
  <2>6. Written' BY <2>0, <2>1, <2>2, <2>4 DEF Written, Queued, Answered
  <2>7. NeverLost' BY <2>1 DEF NeverLost
  <2>8. Marked' BY <2>1, <2>2, <2>4 DEF Marked
  <2> QED BY <2>0, <2>2, <2>4, <2>5, <2>6, <2>7, <2>8
          DEF Dated, Typed, Queued, WireOrder, Done, Answered, Rows
<1>7. CASE OnTransient(t, m)
  <2> USE <1>7 DEF OnTransient, EndPass
  <2>0. Answered(t, m, "transient") /\ "transient" \in Answer BY DEF Answer
  <2>1. /\ \A u \in Tab : \A n \in Left(u)' : Queued(n)'
        /\ \A u \in Tab, n \in Message : snap'[u][n].failed = FALSE
        /\ \A u \in Tab \ {t} : snap'[u] = snap[u]
        /\ SnapOrder'
    BY PassOver DEF Done, Left
  <2>2. Wire' BY <2>0, <2>1, WireAnswered DEF TypeOK
  <2> QED BY <2>0, <2>1, <2>2 DEF Dated, Typed, Queued, WireOrder, Done, Answered, Rows,
                            Written, Present, NeverLost, Marked
<1> QED BY <1>1, <1>2, <1>4, <1>5, <1>6, <1>7 DEF OnAnswer

\* The server takes a send off the wire and may answer its tab.
LEMMA WireResponded ==
    ASSUME IInv, NEW r \in requests, NEW a \in Answer, Respond(r, a),
           UNCHANGED <<createdAt, pc, snap>>, seen \subseteq seen',
           a = "accepted" => r.msg \in seen'
    PROVE  Wire'
<1>1. requests' = requests \ {r} BY DEF Respond
<1>2. \A u \in Tab, q \in requests : q \in Asked(u) <=> q.tab = u BY DEF Asked
<1>3. \A u \in Tab : Asked(u)' = Asked(u) \ {r} BY <1>1 DEF Asked
<1>4. \A u \in Tab, k \in Message : IsHead(u, k)' = IsHead(u, k) BY DEF IsHead, Left
<1>5. \A u \in Tab : \A q \in Asked(u) : IsHead(u, q.msg)' = IsHead(u, q.msg)
  BY DEF IsHead, Left
<1>6. CASE r.tab = NoTab
  <2>1. reply' = reply BY <1>6 DEF Respond
  <2> QED BY <1>3, <1>4, <1>5, <2>1 DEF IInv, Wire
<1>7. CASE r.tab # NoTab
  <2>1. r.tab \in Tab /\ r.msg \in Message BY <1>7 DEF IInv, TypeOK, Request
  <2>2. \A u \in Tab : reply'[u] = IF u = r.tab THEN a ELSE reply[u]
    BY <1>7 DEF Respond, IInv, TypeOK
  <2>3. r \in Asked(r.tab) BY <1>2, <2>1
  <2>4. Asked(r.tab)' = {} BY <1>3, <2>1, <2>3 DEF IInv, Wire
  <2>5. pc[r.tab] = "waiting" /\ IsHead(r.tab, r.msg) BY <2>1, <2>3 DEF IInv, Wire
  <2>6. \A k \in Message : IsHead(r.tab, k) => k = r.msg BY <2>1, <2>5, OneHead
  <2>7. \A u \in Tab : pc[u] # "waiting" => reply'[u] = "none" /\ Asked(u)' = {}
    BY <1>3, <2>2, <2>5 DEF IInv, Wire
  <2>8. \A u \in Tab : \A q \in Asked(u)' : IsHead(u, q.msg)' /\ reply'[u] = "none"
    BY <1>3, <1>5, <2>2, <2>4 DEF IInv, Wire
  <2>9. \A u \in Tab : \A p, q \in Asked(u)' : p = q BY <1>3 DEF IInv, Wire
  <2>10. \A u \in Tab, k \in Message :
            reply'[u] = "accepted" /\ IsHead(u, k)' => k \in seen'
    BY <1>4, <2>2, <2>6 DEF IInv, Wire
  <2> QED BY <2>7, <2>8, <2>9, <2>10 DEF Wire
<1> QED BY <1>6, <1>7

\* The row of an accepted send is the only one of its message.
LEMMA Delivered ==
    ASSUME IInv, NEW r \in requests, ServerAccepts(r)
    PROVE  /\ r.msg \in Message
           /\ seen' = seen \cup {r.msg}
           /\ copies' = IF r.msg \in seen THEN copies ELSE [copies EXCEPT ![r.msg] = 1]
<1>1. r.msg \in Message BY DEF IInv, TypeOK, Request
<1>2. r.msg \notin seen => copies[r.msg] + 1 = 1 BY <1>1 DEF IInv, Rows
<1> QED BY <1>1, <1>2 DEF ServerAccepts, ClientMessageId, Known

\* What the server and the other members do keeps the invariant.
LEMMA ServerStep == ASSUME IInv, TypeOK', Server PROVE IInv'
<1> USE DEF IInv, device, flusher, tabs, server, network, history
<1>1. ASSUME NEW r \in requests, ServerAccepts(r) PROVE IInv'
  <2> USE <1>1 DEF ServerAccepts
  <2>1. Rows'
    <3>1. r.msg \in Message /\ seen' = seen \cup {r.msg} BY Delivered
    <3>2. \A m \in Message : copies'[m] = IF m = r.msg THEN 1 ELSE copies[m]
      <4>1. CASE r.msg \in seen
        <5>1. copies' = copies BY <4>1, Delivered
        <5> QED BY <3>1, <4>1, <5>1 DEF Rows
      <4>2. CASE r.msg \notin seen
        <5>1. copies' = [copies EXCEPT ![r.msg] = 1] BY <4>2, Delivered
        <5>2. copies \in [Message -> Nat] BY DEF TypeOK
        <5> HIDE DEF ServerAccepts
        <5> QED BY <5>1, <5>2
      <4> QED BY <4>1, <4>2
    <3>3. stored' = stored OBVIOUS
    <3> QED BY <3>1, <3>2, <3>3 DEF Rows
  <2>2. Wire' BY Delivered, WireResponded DEF Answer
  <2>3. requests' = requests \ {r} BY DEF Respond
  <2>4. \A n \in Message : Done(n) => Done(n)' BY Delivered DEF Done, TypeOK
  <2>5. SnapOrder' /\ WireOrder' BY <2>3, <2>4 DEF SnapOrder, WireOrder, Left
  <2> QED BY <2>1, <2>2, <2>3, <2>5 DEF Dated, Written, Queued, Present, Left, NeverLost,
                                        Marked, Typed
<1>2. ASSUME NEW r \in requests, NEW a \in Answer, ServerRefuses(r, a) PROVE IInv'
  <2> USE <1>2 DEF ServerRefuses
  <2>1. a # "accepted" OBVIOUS
  <2>2. Wire' BY <2>1, WireResponded
  <2>3. requests' = requests \ {r} BY DEF Respond
  <2> QED BY <2>2, <2>3 DEF Dated, Written, Queued, Present, Left, NeverLost, Marked, Typed,
                            Rows, SnapOrder, WireOrder, Done
<1>3. ASSUME NEW c \in Conversation, KeyAdvance(c) \/ Removed(c) PROVE IInv'
  BY <1>3 DEF KeyAdvance, Removed, Written, Marked, Dated, NeverLost, Present, Rows, Wire,
              Asked, IsHead, Left, Typed, Queued, SnapOrder, WireOrder, Done
<1> QED BY <1>1, <1>2, <1>3 DEF Server

\* Steps of anything else keep the invariant.
LEMMA StutterStep == ASSUME IInv, UNCHANGED vars PROVE IInv'
<1>1. TypeOK' BY TypeStep DEF IInv
<1> QED BY <1>1 DEF vars, device, flusher, tabs, server, network, history, IInv, Written,
        Marked, Dated, NeverLost, Present, Rows, Wire, Asked, IsHead, Left, Typed, Queued,
        SnapOrder, WireOrder, Done

\* The invariant holds of the empty outbox.
LEMMA Initially == Init => IInv
<1> SUFFICES ASSUME Init PROVE IInv OBVIOUS
<1>1. TypeOK BY NoEntryType DEF Init, TypeOK, Answer
<1>2. Dated BY DEF Init, Dated
<1>3. Written /\ NeverLost BY DEF Init, Written, NeverLost, Present, Left, Queued
<1>4. Marked BY NoEntryType DEF Init, Marked
<1>5. Rows BY DEF Init, Rows
<1>6. Wire BY DEF Init, Wire, Asked, IsHead, Left
<1>7. Typed /\ SnapOrder /\ WireOrder BY DEF Init, Typed, SnapOrder, WireOrder, Left
<1> QED BY <1>1, <1>2, <1>3, <1>4, <1>5, <1>6, <1>7 DEF IInv

\* Every step keeps the invariant.
LEMMA InductiveStep == ASSUME IInv, [Next]_vars PROVE IInv'
<1>1. TypeOK' BY TypeStep DEF IInv
<1>2. CASE UNCHANGED vars BY <1>2, StutterStep
<1>3. CASE Next
  BY <1>1, <1>3, ComposeStep, WorkStep, AroundStep, AnswerStep, ServerStep DEF Next
<1> QED BY <1>2, <1>3

\* The invariant holds in every behaviour.
LEMMA Invariance == Spec => []IInv
<1>1. IInv /\ [Next]_vars => IInv' BY InductiveStep
<1> QED BY Initially, <1>1, PTL DEF Spec

(***************************************************************************)
(* A message enqueue() has written is never lost: it stays in the outbox   *)
(* until resolveOutbox moves it to the stored messages.                    *)
(***************************************************************************)
THEOREM NothingLost == Spec => []NeverLost
<1>1. IInv => NeverLost BY DEF IInv
<1> QED BY Invariance, <1>1, PTL

(***************************************************************************)
(* A message shown as sent has exactly one row on the server.              *)
(***************************************************************************)
THEOREM ShownMeansSent == Spec => []ShownSentIsSent
<1>1. IInv => ShownSentIsSent BY DEF IInv, Rows, ShownSentIsSent, TypeOK
<1> QED BY Invariance, <1>1, PTL

-----------------------------------------------------------------------------
(***************************************************************************)
(* The refinement: what each step is to SendQueue.                         *)
(***************************************************************************)
promised == {m \in Message : stage[m] = "queued"}

\* The write of enqueue() is a Promise of the abstract queue.
LEMMA PutPromises ==
    ASSUME IInv, NEW m \in Message, EnqueuePut(m) PROVE Queue!Promise(m)
<1> USE DEF EnqueuePut, server
<1>1. m \notin promised BY DEF promised
<1>2. promised' = promised \cup {m} BY DEF promised, IInv, TypeOK
<1>3. TypedBefore(m) \in SUBSET {n \in promised : ConvOf[n] = ConvOf[m]}
  BY DEF TypedBefore, promised
<1>4. before' = before \cup (TypedBefore(m) \X {m}) /\ UNCHANGED <<givenUp, copies>> OBVIOUS
<1> QED BY <1>1, <1>2, <1>3, <1>4 DEF Queue!Promise, promised

\* An accepted send is a Deliver of the abstract queue, or a stutter.
LEMMA AcceptDelivers ==
    ASSUME IInv, NEW r \in requests, ServerAccepts(r)
    PROVE  Queue!Deliver(r.msg) \/ UNCHANGED Queue!vars
<1>1. UNCHANGED <<stage, before, givenUp>> BY DEF ServerAccepts, device, history
<1>2. CASE r.msg \in seen
  BY <1>1, <1>2, Delivered DEF Queue!vars
<1>3. CASE r.msg \notin seen
  <2>1. r.msg \in Message /\ copies' = [copies EXCEPT ![r.msg] = 1] BY <1>3, Delivered
  <2>2. copies[r.msg] = 0 BY <1>3, <2>1 DEF IInv, Rows
  <2>3. stage[r.msg] = "queued" BY DEF IInv, Written, Queued
  <2>4. \A n \in Message : <<n, r.msg>> \in before => Queue!Settled(n)
    BY DEF IInv, WireOrder, Done, Queue!Settled
  <2> QED BY <1>1, <2>1, <2>2, <2>3, <2>4 DEF Queue!Deliver
<1> QED BY <1>2, <1>3

\* Flagging messages as failed is a GiveUp of the abstract queue.
LEMMA FailGivesUp ==
    ASSUME IInv, NEW lost \in SUBSET Message, Fail(lost), UNCHANGED <<stage, before, copies>>
    PROVE  \E S \in SUBSET Message : Queue!GiveUp(S)
<1>1. {m \in lost : Present(m)} \subseteq promised BY DEF IInv, Written, Queued, promised
<1>2. Queue!GiveUp({m \in lost : Present(m)})
  BY <1>1 DEF Fail, Queue!GiveUp, promised
<1> QED BY <1>2

\* Every step of the outbox is a step of the abstract queue, or a stutter.
LEMMA QueueStep ==
    ASSUME IInv, [Next]_vars PROVE [Queue!Next]_(Queue!vars)
<1> USE DEF device, flusher, tabs, server, network, history
<1>1. ASSUME NEW m \in Message, Compose(m) PROVE [Queue!Next]_(Queue!vars)
  <2>1. CASE EnqueueBegin(m)
    <3>1. promised' = promised BY <2>1 DEF EnqueueBegin, promised, IInv, TypeOK
    <3> QED BY <2>1, <3>1 DEF EnqueueBegin, Queue!vars, promised
  <2>2. CASE EnqueuePut(m) BY <2>2, PutPromises DEF Queue!Next
  <2>3. CASE RetryRead(m) BY <2>3 DEF RetryRead, Queue!vars
  <2>4. CASE RetryPut(m) BY <2>4 DEF RetryPut, Queue!vars
  <2> QED BY <1>1, <2>1, <2>2, <2>3, <2>4 DEF Compose
<1>2. ASSUME NEW t \in Tab, Work(t) PROVE [Queue!Next]_(Queue!vars)
  BY <1>2 DEF Work, FlushStart, FlushDone, FlushPark, FlushSend, Queue!vars
<1>3. ASSUME NEW t \in Tab, Around(t) PROVE [Queue!Next]_(Queue!vars)
  <2>1. CASE FlushAborted(t) \/ LoseConnection(t) \/ Crash(t)
    BY <2>1 DEF FlushAborted, LoseConnection, Crash, Queue!vars
  <2>2. ASSUME NEW c \in Conversation, MlsTick(t, c) PROVE [Queue!Next]_(Queue!vars)
    BY <2>2 DEF MlsTick, Queue!vars
  <2>3. ASSUME NEW c \in Conversation, FailPendingSends(t, c)
        PROVE  [Queue!Next]_(Queue!vars)
    BY <2>3, FailGivesUp DEF FailPendingSends, Queue!Next
  <2> QED BY <1>3, <2>1, <2>2, <2>3 DEF Around, Tick
<1>4. ASSUME NEW t \in Tab, NEW m \in Message, OnAnswer(t, m)
      PROVE  [Queue!Next]_(Queue!vars)
  <2>1. CASE OnPermanent(t, m) BY <2>1, FailGivesUp DEF OnPermanent, Queue!Next
  <2>2. CASE ~OnPermanent(t, m)
    BY <1>4, <2>2 DEF OnAnswer, OnAccepted, OnStaleRepaired, OnStaleUnrepaired, OnSlowmode,
                      OnTransient, ResolveOutbox, Queue!vars
  <2> QED BY <2>1, <2>2
<1>5. CASE Server
  <2>1. ASSUME NEW r \in requests, ServerAccepts(r) PROVE [Queue!Next]_(Queue!vars)
    <3>1. r.msg \in Message BY DEF IInv, TypeOK, Request
    <3> QED BY <2>1, <3>1, AcceptDelivers DEF Queue!Next
  <2>2. CASE \E r \in requests, a \in Answer : ServerRefuses(r, a)
    BY <2>2 DEF ServerRefuses, Queue!vars
  <2>3. CASE \E c \in Conversation : KeyAdvance(c) \/ Removed(c)
    BY <2>3 DEF KeyAdvance, Removed, Queue!vars
  <2> QED BY <1>5, <2>1, <2>2, <2>3 DEF Server
<1>6. CASE UNCHANGED vars BY <1>6 DEF vars, Queue!vars
<1> QED BY <1>1, <1>2, <1>3, <1>4, <1>5, <1>6 DEF Next

(***************************************************************************)
(* The outbox implements SendQueue: one server row at most for every       *)
(* message, and none before those typed ahead of it are settled.           *)
(***************************************************************************)
THEOREM Refinement == Spec => OrderedOnce
<1>1. Init => Queue!Init BY DEF Init, Queue!Init
<1>2. IInv /\ [Next]_vars => [Queue!Next]_(Queue!vars) BY QueueStep
<1> QED BY <1>1, <1>2, Invariance, PTL DEF Spec, OrderedOnce, Queue!Spec
=============================================================================
