----------------------------- MODULE CallProofs -----------------------------
(***************************************************************************)
(* Proofs about a call: the ring of an Android phone (PhoneRing), the      *)
(* page's session (VoiceSession, here the instance V), and the             *)
(* registration by which the phone is alerted (NativePush, here P).        *)
(***************************************************************************)
EXTENDS MCCall, SequenceTheorems, TLAPS

-----------------------------------------------------------------------------
(* The ring that is over and the press, for every value of PhoneRing's     *)
(* constants, notifications off, stale reads, reordered answers and late   *)
(* pushes among them.                                                      *)

NativeRing == [over : BOOLEAN, known : {"none", "push", "page"}, token : BOOLEAN,
               posted : BOOLEAN, held : BOOLEAN, owned : BOOLEAN]

(***************************************************************************)
(* A process that was told of the end remembers it; and of a ring that is  *)
(* over nothing is on the shade, withdrawn for the page, or the page's.    *)
(***************************************************************************)
GhostInv ==
    /\ native \in NativeRing
    /\ told => native.over
    /\ native.over => note = "none" /\ ~native.posted /\ ~native.held /\ ~native.owned

LEMMA PostedType ==
    ASSUME NEW n \in NativeRing
    PROVE  Posted(n).native \in NativeRing /\ Posted(n).native.over = n.over
  BY DEF Posted, NativeRing

\* A ring that comes for what is over changes nothing, and none is made over by one.
LEMMA RingsKeeps ==
    ASSUME native \in NativeRing, NEW fromPage \in BOOLEAN, NEW token \in BOOLEAN
    PROVE  /\ Rings(fromPage, token).native \in NativeRing
           /\ Rings(fromPage, token).native.over = native.over
           /\ native.over => Rings(fromPage, token).native = native /\ Rings(fromPage, token).note = note
<1> DEFINE known == [native EXCEPT !.known = IF fromPage \/ @ = "page" THEN "page" ELSE "push",
                                   !.token = @ \/ token]
           mine == [known EXCEPT !.posted = FALSE, !.held = FALSE, !.owned = fromPage]
           r == Rings(fromPage, token)
<1>1. known \in NativeRing /\ known.over = native.over BY DEF NativeRing
<1>2. mine \in NativeRing /\ mine.over = native.over
  <2> HIDE DEF known
  <2>1. mine \in NativeRing BY <1>1 DEF NativeRing
  <2>2. mine.over = native.over BY <1>1 DEF NativeRing
  <2> QED BY <2>1, <2>2
<1>3. Posted(known).native \in NativeRing /\ Posted(known).native.over = native.over
  BY <1>1, PostedType
<1>4. native.over => r.native = native /\ r.note = note BY DEF Rings
<1>5. ~native.over => r.native \in {native, known, mine, Posted(known).native}
  BY DEF Rings
<1> HIDE DEF known, mine, r
<1>6. r.native \in NativeRing /\ r.native.over = native.over BY <1>1, <1>2, <1>3, <1>4, <1>5
<1> QED BY <1>4, <1>6 DEF r

LEMMA EndsGhost == ASSUME Ends PROVE GhostInv'
  BY DEF Ends, GhostInv, NoRing, NativeRing

LEMMA GhostNextKeeps ==
    ASSUME GhostInv, [Next]_vars
    PROVE  GhostInv'
<1>1. /\ native \in NativeRing
      /\ told => native.over
      /\ native.over => note = "none" /\ ~native.posted /\ ~native.held /\ ~native.owned
  BY DEF GhostInv
<1>n. native \in NativeRing BY <1>1
<1>2. ASSUME NEW b \in BOOLEAN, PushRings(b) PROVE GhostInv'
  <2>1. native' = Rings(FALSE, b).native /\ note' = Rings(FALSE, b).note /\ UNCHANGED told
    BY <1>2 DEF PushRings, ghosts
  <2> QED BY <1>1, <2>1, RingsKeeps DEF GhostInv
<1>3. ASSUME NEW k \in Reports, Handled(k) PROVE GhostInv'
  <2>1. CASE UNCHANGED <<native, note>> BY <1>1, <1>3, <2>1 DEF Handled, ghosts, GhostInv
  <2>2. CASE native' = Rings(TRUE, FALSE).native /\ note' = Rings(TRUE, FALSE).note
    BY <1>1, <1>3, <2>2, RingsKeeps DEF Handled, ghosts, GhostInv
  <2> QED BY <1>3, <2>1, <2>2 DEF Handled
<1>4. CASE ComesToFront
  <2>1. CASE native.posted /\ native.known = "page"
    <3>1. native' = [native EXCEPT !.posted = FALSE, !.held = TRUE] /\ UNCHANGED told
      BY <1>4, <2>1 DEF ComesToFront
    <3>2. native' \in NativeRing BY <1>n, <3>1 DEF NativeRing
    <3>3. native'.over = native.over BY <1>n, <3>1 DEF NativeRing
    <3> QED BY <1>1, <2>1, <3>1, <3>2, <3>3 DEF GhostInv
  <2>2. CASE ~(native.posted /\ native.known = "page")
    BY <1>1, <1>4, <2>2 DEF ComesToFront, GhostInv
  <2> QED BY <2>1, <2>2
<1>5. CASE Left
  <2> DEFINE n == [native EXCEPT !.held = FALSE]
             p == Posted(n)
  <2>1. n \in NativeRing /\ n.over = native.over BY <1>n DEF NativeRing
  <2>2. UNCHANGED told BY <1>5 DEF Left
  <2>3. CASE (native.held \/ native.owned) /\ ~front /\ ~late
    <3>1. native' = IF p.shown THEN [p.native EXCEPT !.owned = FALSE] ELSE p.native
      BY <1>5, <2>3 DEF Left
    <3>2. p.native \in NativeRing /\ p.native.over = n.over BY <2>1, PostedType
    <3> HIDE DEF p, n
    <3>3. native' \in NativeRing /\ native'.over = native.over BY <2>1, <3>1, <3>2 DEF NativeRing
    <3> QED BY <1>1, <2>2, <2>3, <3>3 DEF GhostInv
  <2>4. CASE ~((native.held \/ native.owned) /\ ~front /\ ~late) /\ ~front /\ late
    <3>1. native' = [n EXCEPT !.owned = FALSE] /\ UNCHANGED note BY <1>5, <2>4 DEF Left
    <3>2. native' = [native EXCEPT !.held = FALSE, !.owned = FALSE] BY <3>1
    <3>3. native' \in NativeRing BY <1>n, <3>2 DEF NativeRing
    <3>4. /\ native'.over = native.over /\ native'.posted = native.posted
          /\ native'.held = FALSE /\ native'.owned = FALSE
      BY <1>1, <3>2 DEF NativeRing
    <3> QED BY <1>1, <2>2, <3>1, <3>3, <3>4 DEF GhostInv
  <2>5. CASE ~((native.held \/ native.owned) /\ ~front /\ ~late) /\ ~(~front /\ late)
    <3>1. UNCHANGED <<native, note>> BY <1>5, <2>5 DEF Left
    <3> QED BY <1>1, <2>2, <3>1 DEF GhostInv
  <2> QED BY <2>3, <2>4, <2>5
<1>6. CASE PushEnds \/ PressAnswer \/ PressDecline \/ EndHandled
  BY <1>6, EndsGhost DEF PushEnds, PressAnswer, PressDecline, EndHandled
<1>7. CASE Kill BY <1>7 DEF Kill, GhostInv, NoRing, NativeRing
<1>8. CASE WindowCloses BY <1>1, <1>8 DEF WindowCloses, ghosts, GhostInv
<1>9. CASE UNCHANGED <<native, note, told>> BY <1>1, <1>9 DEF GhostInv
<1>10. ASSUME NEW k \in Reports, Asks(k) \/ Answered(k) PROVE UNCHANGED <<native, note, told>>
  BY <1>10 DEF Asks, Answered, device, ghosts
<1>11. ASSUME NEW a, Handle(a) PROVE UNCHANGED <<native, note, told>>
  BY <1>11 DEF Handle, device, ghosts
<1>12. ASSUME \/ Leaves \/ SignedAnswers \/ SheetAnswer \/ SheetDecline \/ HearsRing \/ HearsState \/ Reads
              \/ ReadAnswered \/ RingTimesOut \/ LosesPatience \/ HearsMove \/ Finishes \/ RunActs \/ RunUp
              \/ Joins \/ Declines \/ CallerEnds \/ UNCHANGED vars
       PROVE  UNCHANGED <<native, note, told>>
  BY <1>12 DEF Leaves, SignedAnswers, SheetAnswer, SheetDecline, HearsRing, HearsState, Reads, ReadAnswered,
               RingTimesOut, LosesPatience, HearsMove, Finishes, RunActs, RunUp, Joins, Declines, CallerEnds,
               vars, device, ghosts
<1> QED BY <1>2, <1>3, <1>4, <1>5, <1>6, <1>7, <1>8, <1>9, <1>10, <1>11, <1>12 DEF Next

(***************************************************************************)
(* What a process knows to be over is not on the shade again, by a push    *)
(* that comes late, a report of the page's, or the app leaving the front   *)
(* (RingHandler.ring, end, pageInFront, left).                             *)
(***************************************************************************)
THEOREM OverStaysOver == Spec => []NoGhostRing
<1>1. Init => GhostInv BY DEF Init, GhostInv, NoRing, NativeRing
<1>2. GhostInv /\ [Next]_vars => GhostInv' BY GhostNextKeeps
<1>3. GhostInv => NoGhostRing BY DEF GhostInv, NoGhostRing
<1> QED BY <1>1, <1>2, <1>3, PTL DEF Spec

-----------------------------------------------------------------------------
(***************************************************************************)
(* Where a press is.  A call that rings has not been joined, and the page  *)
(* has not heard of its end; and a decline that the plugin signs is a      *)
(* press on Decline.                                                       *)
(***************************************************************************)
Underway ==
    \/ signed /\ pressed = "decline"
    \/ declining \/ call # "idle"
    \/ pressed \in held \/ (pressed \in queue /\ run # "up")

PressInv ==
    /\ pressed \in {"none", "answer", "decline"} /\ call \in {"idle", "joining", "in"}
    /\ srv \in {"ringing", "joined", "over"}
    /\ heard => srv = "over"
    /\ pressed # "none" /\ ~carried /\ srv = "ringing" /\ ~late => Underway

\* A press that is given to the page, or waits for one, is on its way.
LEMMA Delivered ==
    ASSUME NEW a, Deliver(a)
    PROVE  /\ a \in held' \/ (a \in queue' /\ run \notin {"acting", "up"})
           /\ held \subseteq held' /\ queue \subseteq queue'
  BY DEF Deliver, Listening

LEMMA PressNextKeeps ==
    ASSUME PressInv, [Next]_vars
    PROVE  PressInv'
<1> USE DEF PressInv, Underway
<1>1. CASE PressAnswer
  <2>1. /\ pressed' = "answer" /\ Deliver("answer") /\ run' = (IF run = "none" THEN "start" ELSE run)
        /\ UNCHANGED <<srv, heard, call, late>>
    BY <1>1 DEF PressAnswer, Press
  <2> QED BY <2>1, Delivered
<1>2. CASE PressDecline
  <2>1. /\ pressed' = "decline"
        /\ signed' = TRUE \/ Deliver("decline")
        /\ run' = run \/ (run = "none" /\ run' = "start")
        /\ UNCHANGED <<srv, heard, call, late>>
    BY <1>2 DEF PressDecline, Press
  <2> QED BY <2>1, Delivered
<1>3. CASE SignedAnswers
  <2>1. UNCHANGED <<heard, call, late, run, declining, pressed>> BY <1>3 DEF SignedAnswers
  <2>2. CASE carried' = TRUE /\ srv' = (IF srv = "ringing" THEN "over" ELSE srv) BY <2>1, <2>2
  <2>3. CASE Deliver("decline") /\ UNCHANGED <<srv, carried>> BY <2>1, <2>3, Delivered
  <2> QED BY <1>3, <2>2, <2>3 DEF SignedAnswers
<1>4. CASE Kill
  <2>1. carried' = (carried \/ pressed # "none") /\ call' = "idle" /\ heard' = FALSE /\ UNCHANGED <<srv, late, pressed>>
    BY <1>4 DEF Kill, NoPage
  <2> QED BY <2>1
<1>5. CASE SheetAnswer
  BY <1>5 DEF SheetAnswer, Answer, Press
<1>6. CASE SheetDecline
  BY <1>6 DEF SheetDecline, Decline, Press
<1>7. CASE Joins \/ Declines
  BY <1>7 DEF Joins, Declines
<1>8. CASE CallerEnds
  BY <1>8 DEF CallerEnds, page, ghosts
<1>9. CASE WindowCloses
  BY <1>9 DEF WindowCloses, page, ghosts
<1>10. CASE HearsState
  <2>1. /\ heard' = (srv = "over") /\ call' = (IF srv = "over" /\ call = "in" THEN "idle" ELSE call)
        /\ UNCHANGED <<srv, late, signed, queue, run, held, declining, pressed, carried>>
    BY <1>10 DEF HearsState, device, ghosts
  <2> QED BY <2>1
<1>11. CASE RunUp
  BY <1>11 DEF RunUp, ghosts
<1>12. CASE RunActs
  BY <1>12 DEF RunActs, device, ghosts
<1>13. CASE ComesToFront
  <2>1. /\ run' = (IF run = "none" THEN "start" ELSE run)
        /\ UNCHANGED <<srv, late, signed, queue, held, heard, call, declining, pressed, carried>>
    BY <1>13 DEF ComesToFront
  <2> QED BY <2>1
<1>14. ASSUME NEW a \in {"answer", "decline"}, Handle(a) PROVE PressInv'
  <2>1. UNCHANGED <<srv, late, signed, queue, run, heard, pressed, carried>> /\ held \ {a} \subseteq held'
    BY <1>14 DEF Handle, device, ghosts
  <2>2. CASE call = "in" \/ heard \/ late
    <3>1. UNCHANGED <<call, declining>> BY <1>14, <2>2 DEF Handle
    <3> QED BY <2>1, <2>2, <3>1
  <2>3. CASE ~(call = "in" \/ heard \/ late) /\ a = "decline"
    <3>1. declining' = TRUE /\ UNCHANGED call BY <1>14, <2>3 DEF Handle, Decline
    <3> QED BY <2>1, <3>1
  <2>4. CASE ~(call = "in" \/ heard \/ late) /\ a = "answer"
    <3>1. call' = "joining" /\ UNCHANGED declining BY <1>14, <2>4 DEF Handle, Answer
    <3> QED BY <2>1, <3>1
  <2> QED BY <2>2, <2>3, <2>4
<1>15. CASE UNCHANGED <<srv, late, signed, queue, run, held, heard, call, declining, pressed, carried>>
  BY <1>15
<1>16. ASSUME NEW k \in Reports, Asks(k) \/ Handled(k) \/ Answered(k)
       PROVE  UNCHANGED <<srv, late, signed, queue, run, held, heard, call, declining, pressed, carried>>
  BY <1>16 DEF Asks, Handled, Answered, device, ghosts
<1>17. ASSUME NEW b \in BOOLEAN, PushRings(b)
       PROVE  UNCHANGED <<srv, late, signed, queue, run, held, heard, call, declining, pressed, carried>>
  BY <1>17 DEF PushRings, page, ghosts
<1>18. ASSUME \/ PushEnds \/ Leaves \/ Left \/ HearsRing \/ Reads \/ ReadAnswered \/ RingTimesOut
              \/ LosesPatience \/ HearsMove \/ Finishes \/ EndHandled \/ UNCHANGED vars
       PROVE  UNCHANGED <<srv, late, signed, queue, run, held, heard, call, declining, pressed, carried>>
  BY <1>18 DEF PushEnds, Leaves, Left, HearsRing, Reads, ReadAnswered, RingTimesOut, LosesPatience, HearsMove,
               Finishes, EndHandled, vars, device, page, ghosts
<1> QED BY <1>1, <1>2, <1>3, <1>4, <1>5, <1>6, <1>7, <1>8, <1>9, <1>10, <1>11, <1>12, <1>13, <1>14, <1>15,
           <1>16, <1>17, <1>18 DEF Next

(***************************************************************************)
(* A press on Answer or Decline, of the notification or of the sheet, is   *)
(* on its way until the server was asked, the call is over, or the process *)
(* that had it is gone (CallActions.deliver, the queue of RingLaunch, the  *)
(* signed decline and its fallback, pendingActionVerdict).                 *)
(***************************************************************************)
THEOREM NoPressIsLost == Spec => []PressIsCarried
<1>1. Init => PressInv BY DEF Init, PressInv, Underway
<1>2. PressInv /\ [Next]_vars => PressInv' BY PressNextKeeps
<1>3. PressInv => PressIsCarried BY DEF PressInv, Underway, PressIsCarried
<1> QED BY <1>1, <1>2, <1>3, PTL DEF Spec

-----------------------------------------------------------------------------
(***************************************************************************)
(* What rings.  The three hypotheses are the ones of the run: the answer   *)
(* to a report is heard before the events after it, no push comes once     *)
(* the ring is withdrawn for the page, and no read of the calls was under  *)
(* way when the call began.                                                *)
(***************************************************************************)
Orderly == InOrder = TRUE /\ LatePush = FALSE /\ Stale = FALSE

Handed == {"shown", "not_shown", "no_answer"}
RingTypes ==
    /\ task \in [Reports -> {"unused", "asking", "sent", "done"} \cup Handed]
    /\ events \in Seq(BOOLEAN)

\* An end has its reason, and so has what is to be asked of the server.
RingOver == srv # "ringing" \/ late \/ pressed # "none"
ReasonInv ==
    /\ native.over \/ ending \/ gone => RingOver
    /\ held # {} \/ queue # {} \/ signed \/ declining \/ call # "idle" => pressed # "none"
    /\ read \in {"none", "rings", "not"} /\ (read = "not" => srv # "ringing")

\* The list: what rings is reported, and a page that is not there has nothing.
ListInv ==
    /\ ring => reported
    /\ gone => reported /\ ~ring
    /\ run = "none" =>
        /\ ~reported /\ read = "none" /\ native.known # "page"
        /\ \A k \in Reports : task[k] = "unused"

ShadeInv == late \/ ~Notify => note = "none"

\* A ring that goes on is reported once, and only what was handled has
\* made it the page's.
Reported ==
    /\ \A j, k \in Reports : task[j] # "unused" /\ task[k] # "unused" => j = k
    /\ reported <=> \E k \in Reports : task[k] # "unused"
    /\ native.known # "page" => ~native.owned /\ ~native.held /\ events = <<>>
    /\ native.known = "page" => \E k \in Reports : task[k] \in {"shown", "not_shown", "done"}
    /\ native.owned \/ native.held => front \/ leaving \/ ~Notify

\* What the page will believe once it has heard all that is on its way to
\* it is so: the notification is on the shade, or it is not and will be
\* again when the app has left the front, or the plugin never had the ring.
Final(e) == e[Len(e)]
Belief(k) ==
    IF events # <<>> THEN IF Final(events) THEN "shown" ELSE "not_shown"
    ELSE IF task[k] = "done" THEN shown ELSE task[k]
Believed(k) ==
    \/ /\ Belief(k) = "shown" /\ native.known = "page" /\ native.posted
       /\ ~front /\ ~native.held /\ ~native.owned /\ note # "none"
    \/ /\ Belief(k) = "not_shown" /\ native.known = "page"
       /\ note = "none" /\ (native.owned \/ native.held \/ ~Notify)
    \/ Belief(k) = "no_answer" /\ native.known # "page"

GoesOn == ~native.over /\ ~ending /\ ~late
Story ==
    /\ Reported
    /\ ~missed => \A k \in Reports : task[k] \in Handed \cup {"done"} => Believed(k)
StoryInv == GoesOn => Story

RingInv == GhostInv /\ RingTypes /\ ReasonInv /\ ListInv /\ ShadeInv /\ StoryInv

LEMMA Sent ==
    ASSUME NEW e \in Seq(BOOLEAN), NEW b \in BOOLEAN
    PROVE  Append(e, b) \in Seq(BOOLEAN) /\ Append(e, b) # <<>> /\ Final(Append(e, b)) = b
<1>1. /\ Append(e, b) \in Seq(BOOLEAN) /\ Len(Append(e, b)) = Len(e) + 1
      /\ Append(e, b)[Len(e) + 1] = b
  BY AppendProperties
<1>2. Append(e, b) # <<>> BY AppendProperties
<1> QED BY <1>1, <1>2 DEF Final

LEMMA Received ==
    ASSUME NEW e \in Seq(BOOLEAN), e # <<>>
    PROVE  /\ Tail(e) \in Seq(BOOLEAN) /\ Head(e) \in BOOLEAN /\ Final(e) \in BOOLEAN
           /\ IF Tail(e) = <<>> THEN Final(e) = Head(e) ELSE Final(Tail(e)) = Final(e)
<1>1. /\ Tail(e) \in Seq(BOOLEAN) /\ Head(e) \in BOOLEAN /\ Len(e) \in Nat /\ Len(e) # 0
      /\ Head(e) = e[1] /\ Len(Tail(e)) = Len(e) - 1
      /\ \A i \in 1..Len(Tail(e)) : Tail(e)[i] = e[i + 1]
  BY HeadTailProperties, EmptySeq, LenProperties
<1>2. Tail(e) = <<>> <=> Len(Tail(e)) = 0 BY <1>1, EmptySeq
<1>3. Final(e) \in BOOLEAN BY <1>1, ElementOfSeq DEF Final
<1>4. CASE Tail(e) = <<>> BY <1>1, <1>2, <1>3, <1>4 DEF Final
<1>5. CASE Tail(e) # <<>>
  <2>1. Len(Tail(e)) \in 1..Len(Tail(e)) /\ Len(Tail(e)) + 1 = Len(e) BY <1>1, <1>2, <1>5
  <2> QED BY <1>1, <1>3, <1>5, <2>1 DEF Final
<1> QED BY <1>1, <1>3, <1>4, <1>5

\* The notification is posted if it may be.
LEMMA PostedIs ==
    ASSUME NEW n \in NativeRing
    PROVE  LET p == Posted(n) IN
           /\ p.native \in NativeRing /\ p.native.over = n.over /\ p.native.known = n.known
           /\ p.native.held = n.held /\ p.native.owned = n.owned /\ p.shown \in BOOLEAN
           /\ IF Notify THEN p.native.posted /\ p.note # "none" /\ p.shown
                        ELSE p.native.posted = n.posted /\ p.note = note /\ ~p.shown
<1>1. CASE Notify BY <1>1 DEF Posted, NativeRing, DeclineIntent
<1>2. CASE ~Notify BY <1>2 DEF Posted
<1> QED BY <1>1, <1>2

\* What RingHandler.ring makes of a ring that goes on: r is its answer.
Rung(r, f) ==
    /\ r.native \in NativeRing /\ r.native.over = native.over /\ r.shown \in BOOLEAN
    /\ native.over \/ late => r.native = native /\ r.note = note
    /\ ~native.over /\ ~late =>
        /\ f => r.native.known = "page"
        /\ ~f => (r.native.known = "page" <=> native.known = "page")
        /\ \/ /\ native.owned /\ ~r.shown /\ r.note = note /\ r.native.owned
              /\ r.native.posted = native.posted /\ r.native.held = native.held
           \/ /\ ~native.owned /\ front /\ ~r.shown /\ r.note = "none"
              /\ ~r.native.posted /\ ~r.native.held /\ r.native.owned = f
           \/ /\ ~native.owned /\ ~front /\ native.held /\ r.shown /\ r.note = note
              /\ r.native.posted = native.posted /\ r.native.held /\ ~r.native.owned
           \/ /\ ~native.owned /\ ~front /\ ~native.held /\ ~r.native.held /\ ~r.native.owned
              /\ IF Notify THEN r.native.posted /\ r.note # "none" /\ r.shown
                           ELSE r.native.posted = native.posted /\ r.note = note /\ ~r.shown
LEMMA RingsIs ==
    ASSUME native \in NativeRing, NEW f \in BOOLEAN, NEW t \in BOOLEAN
    PROVE  Rung(Rings(f, t), f)
<1> DEFINE known == [native EXCEPT !.known = IF f \/ @ = "page" THEN "page" ELSE "push", !.token = @ \/ t]
           mine == [known EXCEPT !.posted = FALSE, !.held = FALSE, !.owned = f]
           r == Rings(f, t)
<1>1. /\ known \in NativeRing /\ known.over = native.over /\ known.posted = native.posted
      /\ known.held = native.held /\ known.owned = native.owned
      /\ known.known = IF f \/ native.known = "page" THEN "page" ELSE "push"
  BY DEF NativeRing
<1>2. /\ mine \in NativeRing /\ mine.over = native.over /\ mine.known = known.known
      /\ ~mine.posted /\ ~mine.held /\ mine.owned = f
  <2> HIDE DEF known
  <2>1. known \in NativeRing BY <1>1
  <2>2. mine \in NativeRing BY <2>1 DEF NativeRing
  <2>3. mine.over = known.over /\ mine.known = known.known /\ ~mine.posted /\ ~mine.held /\ mine.owned = f
    BY <2>1 DEF NativeRing
  <2> QED BY <1>1, <2>2, <2>3
<1>3. LET p == Posted(known) IN
      /\ p.native \in NativeRing /\ p.native.over = native.over /\ p.native.known = known.known
      /\ p.native.held = native.held /\ p.native.owned = native.owned /\ p.shown \in BOOLEAN
      /\ IF Notify THEN p.native.posted /\ p.note # "none" /\ p.shown
                   ELSE p.native.posted = native.posted /\ p.note = note /\ ~p.shown
  <2> HIDE DEF known
  <2> QED BY <1>1, PostedIs
<1>4. native.over => r = [native |-> native, note |-> note, shown |-> f] BY DEF Rings
<1>5. ~native.over /\ late => r = [native |-> native, note |-> note, shown |-> FALSE] BY DEF Rings
<1>6. ~native.over /\ ~late =>
        r = IF known.owned THEN [native |-> known, note |-> note, shown |-> FALSE]
            ELSE IF front THEN [native |-> mine, note |-> "none", shown |-> FALSE]
            ELSE IF known.held THEN [native |-> known, note |-> note, shown |-> TRUE] ELSE Posted(known)
  BY DEF Rings
<1> SUFFICES Rung(r, f) OBVIOUS
<1> HIDE DEF known, mine, r
<1>7. CASE native.over
  <2>1. r.native = native /\ r.note = note /\ r.shown = f BY <1>4, <1>7
  <2> QED BY <1>7, <2>1 DEF Rung
<1>8. CASE ~native.over /\ late
  <2>1. r.native = native /\ r.note = note /\ r.shown = FALSE BY <1>5, <1>8
  <2> QED BY <1>8, <2>1 DEF Rung
<1>9. CASE ~native.over /\ ~late
  <2>1. CASE known.owned
    <3>1. r.native = known /\ r.note = note /\ r.shown = FALSE BY <1>6, <1>9, <2>1
    <3> QED BY <1>1, <1>9, <2>1, <3>1 DEF Rung
  <2>2. CASE ~known.owned /\ front
    <3>1. r.native = mine /\ r.note = "none" /\ r.shown = FALSE BY <1>6, <1>9, <2>2
    <3> QED BY <1>1, <1>2, <1>9, <2>2, <3>1 DEF Rung
  <2>3. CASE ~known.owned /\ ~front /\ known.held
    <3>1. r.native = known /\ r.note = note /\ r.shown = TRUE BY <1>6, <1>9, <2>3
    <3> QED BY <1>1, <1>9, <2>3, <3>1 DEF Rung
  <2>4. CASE ~known.owned /\ ~front /\ ~known.held
    <3>1. r = Posted(known) BY <1>6, <1>9, <2>4
    <3> QED BY <1>1, <1>3, <1>9, <2>4, <3>1 DEF Rung
  <2> QED BY <2>1, <2>2, <2>3, <2>4
<1> QED BY <1>7, <1>8, <1>9

\* What the plugin does once the app has left the front.
LEMMA LeftIs ==
    ASSUME native \in NativeRing, Left
    PROVE  /\ native' \in NativeRing /\ native'.over = native.over /\ native'.known = native.known
           /\ \/ /\ (native.held \/ native.owned) /\ ~front /\ ~late /\ Notify
                 /\ native'.posted /\ ~native'.held /\ ~native'.owned /\ note' # "none" /\ Tell(TRUE)
              \/ /\ (native.held \/ native.owned) /\ ~front /\ ~late /\ ~Notify
                 /\ UNCHANGED <<note, events, missed>>
              \/ late /\ UNCHANGED <<note, events, missed>>
              \/ UNCHANGED <<native, note, events, missed>> /\ (native.held \/ native.owned => front)
<1> DEFINE n == [native EXCEPT !.held = FALSE]
           p == Posted(n)
<1>1. n \in NativeRing /\ n.over = native.over /\ n.known = native.known /\ n.held = FALSE BY DEF NativeRing
<1>2. /\ p.native \in NativeRing /\ p.native.over = n.over /\ p.native.known = n.known /\ p.native.held = n.held
      /\ IF Notify THEN p.native.posted /\ p.note # "none" /\ p.shown ELSE p.note = note /\ ~p.shown
  <2> HIDE DEF n
  <2> QED BY <1>1, PostedIs
<1>3. CASE (native.held \/ native.owned) /\ ~front /\ ~late
  <2> DEFINE q == [p.native EXCEPT !.owned = FALSE]
  <2>1. /\ native' = (IF p.shown THEN q ELSE p.native) /\ note' = p.note
        /\ IF p.shown THEN Tell(TRUE) ELSE UNCHANGED <<events, missed>>
    BY <1>3 DEF Left
  <2>2. /\ q \in NativeRing /\ q.over = native.over /\ q.known = native.known
        /\ q.held = FALSE /\ q.owned = FALSE /\ (Notify => q.posted)
    <3> HIDE DEF p, n
    <3> QED BY <1>1, <1>2 DEF NativeRing
  <2> HIDE DEF p, q, n
  <2> QED BY <1>1, <1>2, <1>3, <2>1, <2>2
<1>4. CASE ~((native.held \/ native.owned) /\ ~front /\ ~late) /\ ~front /\ late
  <2> DEFINE q == [n EXCEPT !.owned = FALSE]
  <2>1. native' = q /\ UNCHANGED <<note, events, missed>> BY <1>4 DEF Left
  <2>2. q \in NativeRing /\ q.over = native.over /\ q.known = native.known
    <3> HIDE DEF n
    <3> QED BY <1>1 DEF NativeRing
  <2> QED BY <1>4, <2>1, <2>2
<1>5. CASE ~((native.held \/ native.owned) /\ ~front /\ ~late) /\ ~(~front /\ late)
  <2>1. UNCHANGED <<native, note, events, missed>> BY <1>5 DEF Left
  <2> QED BY <1>5, <2>1
<1> QED BY <1>3, <1>4, <1>5

\* A ring the plugin has posted is withdrawn for the page that comes to the front.
LEMMA ComesIs ==
    ASSUME native \in NativeRing, ComesToFront
    PROVE  /\ native' \in NativeRing /\ native'.over = native.over /\ native'.known = native.known
           /\ native'.owned = native.owned
           /\ IF native.posted /\ native.known = "page"
                THEN native'.held /\ note' = "none" /\ Tell(FALSE)
                ELSE UNCHANGED <<native, note, events, missed>>
<1>1. CASE native.posted /\ native.known = "page"
  <2> DEFINE q == [native EXCEPT !.posted = FALSE, !.held = TRUE]
  <2>1. native' = q /\ note' = "none" /\ Tell(FALSE) BY <1>1 DEF ComesToFront
  <2>2. q \in NativeRing /\ q.over = native.over /\ q.known = native.known /\ q.owned = native.owned /\ q.held = TRUE
    BY DEF NativeRing
  <2> HIDE DEF q
  <2> QED BY <1>1, <2>1, <2>2
<1>2. CASE ~(native.posted /\ native.known = "page") BY <1>2 DEF ComesToFront
<1> QED BY <1>1, <1>2

\* Whatever ends a ring is the server's news, the clock, or a press.
LEMMA ReasonKeeps ==
    ASSUME ReasonInv, native \in NativeRing, [Next]_vars
    PROVE  ReasonInv'
<1> DEFINE asked == <<queue, signed, held, call, declining>>
           known == <<srv, late, pressed>>
<1>1. /\ native.over \/ ending \/ gone => RingOver
      /\ held # {} \/ queue # {} \/ signed \/ declining \/ call # "idle" => pressed # "none"
      /\ read \in {"none", "rings", "not"} /\ (read = "not" => srv # "ringing")
  BY DEF ReasonInv
<1>2. ASSUME UNCHANGED asked, UNCHANGED known, read' = read,
             native'.over \/ ending' \/ gone' => RingOver
      PROVE  ReasonInv'
  BY <1>1, <1>2 DEF ReasonInv, RingOver
<1>3. ASSUME NEW b \in BOOLEAN, PushRings(b) PROVE ReasonInv'
  <2>1. native'.over = native.over BY <1>3, RingsKeeps DEF PushRings
  <2> QED BY <1>1, <1>2, <1>3, <2>1 DEF PushRings, page, ghosts
<1>4. ASSUME NEW k \in Reports, Asks(k) \/ Handled(k) \/ Answered(k) PROVE ReasonInv'
  <2>1. native'.over = native.over BY <1>4, RingsKeeps DEF Asks, Handled, Answered, device
  <2> QED BY <1>1, <1>2, <1>4, <2>1 DEF Asks, Handled, Answered, device, ghosts
<1>5. CASE ComesToFront
  <2>1. native'.over = native.over BY <1>5 DEF ComesToFront, NativeRing
  <2> QED BY <1>1, <1>2, <1>5, <2>1 DEF ComesToFront
<1>6. CASE Left
  <2>1. native'.over = native.over BY <1>6, LeftIs
  <2> QED BY <1>1, <1>2, <1>6, <2>1 DEF Left
<1>7. CASE PressAnswer \/ PressDecline
  <2>1. pressed' # "none" /\ UNCHANGED <<srv, read>> BY <1>7 DEF PressAnswer, PressDecline, Press
  <2> QED BY <1>1, <2>1 DEF ReasonInv, RingOver
<1>8. CASE SheetAnswer \/ SheetDecline
  <2>1. pressed' # "none" /\ UNCHANGED <<srv, read>> BY <1>8 DEF SheetAnswer, SheetDecline, Press
  <2> QED BY <1>1, <2>1 DEF ReasonInv, RingOver
<1>9. CASE SignedAnswers
  <2>1. pressed # "none" /\ pressed' = pressed /\ UNCHANGED <<late, read>> BY <1>1, <1>9 DEF SignedAnswers
  <2>2. srv # "ringing" => srv' # "ringing" BY <1>9 DEF SignedAnswers
  <2> QED BY <1>1, <2>1, <2>2 DEF ReasonInv, RingOver
<1>10. CASE Joins \/ Declines
  <2>1. pressed # "none" /\ pressed' = pressed /\ UNCHANGED <<late, read>> BY <1>1, <1>10 DEF Joins, Declines
  <2>2. srv # "ringing" => srv' # "ringing" BY <1>10 DEF Joins, Declines
  <2> QED BY <1>1, <2>1, <2>2 DEF ReasonInv, RingOver
<1>11. CASE CallerEnds
  <2>1. srv' # "ringing" /\ UNCHANGED <<asked, pressed, read>> BY <1>11 DEF CallerEnds, page, device, ghosts
  <2> QED BY <1>1, <2>1 DEF ReasonInv, RingOver
<1>12. CASE WindowCloses
  <2>1. late' /\ UNCHANGED <<asked, pressed, srv, read>> BY <1>12 DEF WindowCloses, page, ghosts
  <2> QED BY <1>1, <2>1 DEF ReasonInv, RingOver
<1>13. CASE Kill
  <2>1. /\ held' = {} /\ queue' = {} /\ signed' = FALSE /\ declining' = FALSE /\ call' = "idle" /\ read' = "none"
        /\ native'.over = FALSE /\ ending' = FALSE /\ gone' = FALSE
    BY <1>13 DEF Kill, NoPage, NoRing
  <2> QED BY <2>1 DEF ReasonInv
<1>14. CASE HearsState
  <2>1. srv # "ringing" /\ UNCHANGED <<known, read, queue, signed, held, declining>>
    BY <1>14 DEF HearsState, device, ghosts
  <2>2. call' # "idle" => call # "idle" BY <1>14 DEF HearsState
  <2> QED BY <1>1, <2>1, <2>2 DEF ReasonInv, RingOver
<1>15. CASE Reads
  <2>1. /\ UNCHANGED <<asked, known, native, ending, gone>> /\ read' \in {"rings", "not"}
        /\ (read' = "not" => srv # "ringing")
    BY <1>15 DEF Reads, device, ghosts
  <2> QED BY <1>1, <2>1 DEF ReasonInv, RingOver
<1>16. CASE ReadAnswered
  <2>1. UNCHANGED <<asked, known, native, ending>> /\ read' = "none" BY <1>16 DEF ReadAnswered, device, ghosts
  <2>2. gone' => gone \/ read # "rings" BY <1>16 DEF ReadAnswered, RingComes
  <2>3. gone' => gone \/ read = "not" BY <1>1, <1>16, <2>2 DEF ReadAnswered
  <2> QED BY <1>1, <2>1, <2>3 DEF ReasonInv, RingOver
<1>17. ASSUME NEW a \in {"answer", "decline"}, Handle(a) PROVE ReasonInv'
  <2>1. pressed # "none" /\ UNCHANGED <<known, read>> BY <1>1, <1>17 DEF Handle, ghosts
  <2> QED BY <1>1, <2>1 DEF ReasonInv, RingOver
<1>18. CASE RunUp
  <2>1. /\ (held' # {} \/ queue' # {} => held # {} \/ queue # {})
        /\ UNCHANGED <<known, read, native, ending, gone, signed, declining, call>>
    BY <1>18 DEF RunUp, ghosts
  <2> QED BY <1>1, <2>1 DEF ReasonInv, RingOver
<1>19. CASE PushEnds \/ RingTimesOut \/ HearsRing \/ Finishes \/ EndHandled
  BY <1>1, <1>2, <1>19 DEF PushEnds, RingTimesOut, HearsRing, Finishes, EndHandled, RingComes, RingOver, page, device, ghosts
<1>20. CASE Leaves \/ LosesPatience \/ HearsMove \/ RunActs \/ UNCHANGED vars
  <2>1. UNCHANGED <<asked, known, read, native, ending, gone>>
    BY <1>20 DEF Leaves, LosesPatience, HearsMove, RunActs, vars, page, device, ghosts
  <2> QED BY <1>1, <1>2, <2>1
<1> QED BY <1>3, <1>4, <1>5, <1>6, <1>7, <1>8, <1>9, <1>10, <1>11, <1>12, <1>13, <1>14, <1>15, <1>16, <1>17,
           <1>18, <1>19, <1>20 DEF Next

LEMMA RingTypesKeeps ==
    ASSUME RingTypes, [Next]_vars
    PROVE  RingTypes'
<1> DEFINE Places == {"unused", "asking", "sent", "done"} \cup Handed
<1>1. task \in [Reports -> Places] /\ events \in Seq(BOOLEAN) BY DEF RingTypes
<1>2. ASSUME NEW b \in BOOLEAN, Tell(b) PROVE events' \in Seq(BOOLEAN) BY <1>1, <1>2, Sent DEF Tell
<1>3. ASSUME Reporting PROVE task' \in [Reports -> Places] BY <1>1, <1>3 DEF Reporting
<1>4. CASE ComesToFront \/ Left
  <2>1. task' = task BY <1>4 DEF ComesToFront, Left
  <2>2. Tell(TRUE) \/ Tell(FALSE) \/ events' = events BY <1>4 DEF ComesToFront, Left
  <2> QED BY <1>1, <1>2, <2>1, <2>2 DEF RingTypes
<1>5. CASE HearsRing \/ ReadAnswered \/ RunActs
  <2>1. events' = events BY <1>5 DEF HearsRing, ReadAnswered, RunActs
  <2>2. Reporting \/ task' = task BY <1>5 DEF HearsRing, ReadAnswered, RunActs, RingComes
  <2> QED BY <1>1, <1>3, <2>1, <2>2 DEF RingTypes
<1>6. ASSUME NEW k \in Reports, Asks(k) \/ Handled(k) \/ Answered(k) PROVE RingTypes'
  <2>1. events' = events BY <1>6 DEF Asks, Handled, Answered
  <2>2. \E p \in Places : task' = [task EXCEPT ![k] = p] BY <1>6 DEF Asks, Handled, Answered, Handed
  <2> QED BY <1>1, <2>1, <2>2 DEF RingTypes
<1>7. CASE HearsMove
  <2>1. events # <<>> /\ events' = Tail(events) /\ task' = task BY <1>7 DEF HearsMove
  <2> QED BY <1>1, <2>1, Received DEF RingTypes
<1>8. CASE Kill
  <2>1. task' = [k \in Reports |-> "unused"] /\ events' = <<>> BY <1>8 DEF Kill, NoPage
  <2> QED BY <2>1 DEF RingTypes
<1>9. CASE UNCHANGED <<task, events>> BY <1>1, <1>9 DEF RingTypes
<1>10. ASSUME NEW a, Handle(a) PROVE UNCHANGED <<task, events>> BY <1>10 DEF Handle
<1>11. ASSUME NEW b \in BOOLEAN, PushRings(b) PROVE UNCHANGED <<task, events>> BY <1>11 DEF PushRings, page
<1>12. ASSUME \/ PushEnds \/ WindowCloses \/ Leaves \/ PressAnswer \/ PressDecline \/ SignedAnswers \/ SheetAnswer
              \/ SheetDecline \/ HearsState \/ Reads \/ RingTimesOut \/ LosesPatience \/ Finishes \/ EndHandled
              \/ RunUp \/ Joins \/ Declines \/ CallerEnds \/ UNCHANGED vars
       PROVE  UNCHANGED <<task, events>>
  BY <1>12 DEF PushEnds, WindowCloses, Leaves, PressAnswer, PressDecline, SignedAnswers, SheetAnswer, SheetDecline,
               HearsState, Reads, RingTimesOut, LosesPatience, Finishes, EndHandled, RunUp, Joins, Declines,
               CallerEnds, vars, page
<1> QED BY <1>4, <1>5, <1>6, <1>7, <1>8, <1>9, <1>10, <1>11, <1>12 DEF Next

LEMMA ListKeeps ==
    ASSUME ListInv, native \in NativeRing, RingTypes, [Next]_vars
    PROVE  ListInv'
<1> DEFINE list == <<ring, reported, gone>>
           none == ~reported /\ read = "none" /\ native.known # "page" /\ \A k \in Reports : task[k] = "unused"
<1>1. /\ ring => reported
      /\ gone => reported /\ ~ring
      /\ run = "none" => none
  BY DEF ListInv
<1>2. ASSUME UNCHANGED list, run' = "none" => run = "none", run = "none" => none'
      PROVE  ListInv'
  BY <1>1, <1>2 DEF ListInv
<1>3. ASSUME UNCHANGED list, run' = "none" => run = "none", UNCHANGED <<read, task>>,
             native'.known = "page" => native.known = "page"
      PROVE  ListInv'
  BY <1>1, <1>2, <1>3
<1>4. ASSUME RingLeaves, run # "none", run' # "none", UNCHANGED reported PROVE ListInv'
  BY <1>1, <1>4 DEF RingLeaves, ListInv
<1>5. ASSUME RingComes, run # "none", run' # "none" PROVE ListInv'
  BY <1>1, <1>5 DEF RingComes, Reporting, ListInv
<1>6. ASSUME NEW b \in BOOLEAN, PushRings(b) PROVE ListInv'
  <2> DEFINE r == Rings(FALSE, b)
  <2>1. native' = r.native /\ UNCHANGED page BY <1>6 DEF PushRings
  <2>2. Rung(r, FALSE) BY RingsIs
  <2> HIDE DEF r
  <2>3. r.native.known = "page" => native.known = "page" BY <2>2 DEF Rung
  <2> QED BY <1>3, <2>1, <2>3 DEF page
<1>7. ASSUME NEW k \in Reports, Asks(k) \/ Handled(k) \/ Answered(k) PROVE ListInv'
  <2>1. task[k] # "unused" /\ UNCHANGED <<ring, reported, gone, run>> BY <1>7 DEF Asks, Handled, Answered
  <2> QED BY <1>1, <1>2, <2>1
<1>8. CASE ComesToFront
  <2>1. UNCHANGED <<ring, reported, gone, read, task>> /\ run' # "none" BY <1>8 DEF ComesToFront
  <2> QED BY <1>1, <2>1 DEF ListInv
<1>9. CASE Left
  <2>1. UNCHANGED <<ring, reported, gone, run, read, task>> BY <1>9 DEF Left
  <2>2. native'.known = native.known BY <1>9, LeftIs
  <2> QED BY <1>3, <2>1, <2>2
<1>10. CASE PushEnds \/ PressAnswer \/ PressDecline \/ EndHandled
  <2>1. UNCHANGED <<ring, reported, gone, read, task>> /\ (run' = "none" => run = "none")
    BY <1>10 DEF PushEnds, PressAnswer, PressDecline, EndHandled, page
  <2>2. native'.known = "none" BY <1>10 DEF PushEnds, PressAnswer, PressDecline, EndHandled, Ends, NoRing
  <2> QED BY <1>3, <2>1, <2>2
<1>11. CASE Kill
  BY <1>11 DEF Kill, NoPage, NoRing, ListInv
<1>12. CASE HearsRing
  BY <1>5, <1>12 DEF HearsRing, PageAlive
<1>13. CASE HearsState \/ RingTimesOut \/ SheetAnswer \/ SheetDecline
  <2>1. RingLeaves /\ UNCHANGED <<run, reported>>
    BY <1>13 DEF HearsState, RingTimesOut, SheetAnswer, SheetDecline, Answer, Decline
  <2>2. run # "none" BY <1>1, <1>13 DEF HearsState, RingTimesOut, SheetAnswer, SheetDecline, Sheet, PageAlive
  <2> QED BY <1>4, <2>1, <2>2
<1>14. CASE Reads
  <2>1. run # "none" /\ UNCHANGED <<ring, reported, gone, run>> BY <1>14 DEF Reads, PageAlive
  <2> QED BY <1>2, <2>1
<1>15. CASE ReadAnswered
  <2>1. run # "none" /\ run' = run BY <1>1, <1>15 DEF ReadAnswered
  <2> QED BY <1>4, <1>5, <1>15, <2>1 DEF ReadAnswered
<1>16. CASE RunActs
  <2>1. run # "none" /\ run' # "none" /\ UNCHANGED <<ring, reported, gone>> BY <1>1, <1>16 DEF RunActs, Reporting
  <2> QED BY <1>2, <2>1
<1>17. CASE Finishes
  <2>1. gone /\ ~gone' /\ ~reported' /\ UNCHANGED <<ring, run>> BY <1>17 DEF Finishes
  <2> QED BY <1>1, <2>1 DEF ListInv
<1>18. ASSUME NEW a \in {"answer", "decline"}, Handle(a) PROVE ListInv'
  <2>1. UNCHANGED <<run, reported, read, task, native>> BY <1>18 DEF Handle, device
  <2>2. UNCHANGED <<ring, gone>> \/ RingLeaves BY <1>18 DEF Handle, Answer, Decline
  <2>3. run = "none" => none' BY <1>1, <2>1
  <2>4. CASE UNCHANGED list BY <1>2, <2>1, <2>3, <2>4
  <2>5. CASE RingLeaves
    <3>1. ring' = FALSE /\ (gone' => gone \/ ring) BY <2>5 DEF RingLeaves
    <3> QED BY <1>1, <2>1, <2>3, <3>1 DEF ListInv
  <2> QED BY <2>1, <2>2, <2>4, <2>5
<1>19. CASE RunUp
  BY <1>2, <1>19 DEF RunUp
<1>20. CASE \/ WindowCloses \/ Leaves \/ SignedAnswers \/ LosesPatience \/ HearsMove
            \/ Joins \/ Declines \/ CallerEnds \/ UNCHANGED vars
  <2>1. UNCHANGED <<ring, reported, gone, run, read, task, native>>
    BY <1>20 DEF WindowCloses, Leaves, SignedAnswers, LosesPatience, HearsMove, Joins, Declines, CallerEnds, vars, device, page
  <2> QED BY <1>3, <2>1
<1> QED BY <1>6, <1>7, <1>8, <1>9, <1>10, <1>11, <1>12, <1>13, <1>14, <1>15, <1>16, <1>17, <1>18, <1>19, <1>20 DEF Next

LEMMA ShadeKeeps ==
    ASSUME ShadeInv, native \in NativeRing, [Next]_vars
    PROVE  ShadeInv'
<1>1. late \/ ~Notify => note = "none" BY DEF ShadeInv
<1>2. ASSUME late' = late, note' = note \/ note' = "none" \/ (~late /\ Notify) PROVE ShadeInv'
  BY <1>1, <1>2 DEF ShadeInv
<1>3. ASSUME NEW f \in BOOLEAN, NEW t \in BOOLEAN, late' = late, note' = Rings(f, t).note PROVE ShadeInv'
  <2> DEFINE r == Rings(f, t)
  <2>1. Rung(r, f) BY RingsIs
  <2> HIDE DEF r
  <2>2. r.note = note \/ r.note = "none" \/ (~late /\ Notify) BY <2>1 DEF Rung
  <2> QED BY <1>2, <1>3, <2>2 DEF r
<1>4. ASSUME NEW b \in BOOLEAN, PushRings(b) PROVE ShadeInv'
  <2>1. \A f \in BOOLEAN : late' = late /\ note' = Rings(f, b).note => ShadeInv' BY <1>3
  <2> QED BY <1>4, <2>1 DEF PushRings
<1>5. ASSUME NEW k \in Reports, Handled(k) PROVE ShadeInv'
  <2>1. \A f, t \in BOOLEAN : late' = late /\ note' = Rings(f, t).note => ShadeInv' BY <1>3
  <2>2. late' = late /\ (note' = note \/ note' = Rings(TRUE, FALSE).note) BY <1>5 DEF Handled
  <2> QED BY <1>2, <2>1, <2>2
<1>6. CASE Left
  <2>1. late' = late BY <1>6 DEF Left
  <2>2. note' = note \/ (~late /\ Notify) BY <1>6, LeftIs
  <2> QED BY <1>2, <2>1, <2>2
<1>7. CASE PushEnds \/ PressAnswer \/ PressDecline \/ EndHandled \/ WindowCloses
  BY <1>7 DEF PushEnds, PressAnswer, PressDecline, EndHandled, WindowCloses, Ends, ShadeInv
<1>8. CASE ComesToFront
  BY <1>2, <1>8 DEF ComesToFront
<1>9. CASE Kill
  BY <1>2, <1>9 DEF Kill
<1>10. CASE UNCHANGED <<late, note>> BY <1>2, <1>10
<1>11. ASSUME NEW k \in Reports, Asks(k) \/ Answered(k) PROVE UNCHANGED <<late, note>>
  BY <1>11 DEF Asks, Answered, device
<1>12. ASSUME NEW a, Handle(a) PROVE UNCHANGED <<late, note>> BY <1>12 DEF Handle, device
<1>13. ASSUME \/ Leaves \/ SignedAnswers \/ SheetAnswer \/ SheetDecline \/ HearsRing \/ HearsState \/ Reads
              \/ ReadAnswered \/ RingTimesOut \/ LosesPatience \/ HearsMove \/ Finishes \/ RunActs \/ RunUp
              \/ Joins \/ Declines \/ CallerEnds \/ UNCHANGED vars
       PROVE  UNCHANGED <<late, note>>
  BY <1>13 DEF Leaves, SignedAnswers, SheetAnswer, SheetDecline, HearsRing, HearsState, Reads, ReadAnswered,
               RingTimesOut, LosesPatience, HearsMove, Finishes, RunActs, RunUp, Joins, Declines, CallerEnds,
               vars, device
<1> QED BY <1>4, <1>5, <1>6, <1>7, <1>8, <1>9, <1>10, <1>11, <1>12, <1>13 DEF Next

\* One run of #report moves, and no other.
LEMMA TaskMoves ==
    ASSUME RingTypes, NEW k \in Reports, NEW p, task' = [task EXCEPT ![k] = p]
    PROVE  task'[k] = p /\ \A j \in Reports \ {k} : task'[j] = task[j]
  BY DEF RingTypes

LEMMA StoryKeeps ==
    ASSUME RingInv, Orderly, [Next]_vars
    PROVE  StoryInv'
<1> DEFINE plot == <<late, native, note, front, leaving, reported, task, shown, ending, events, missed>>
           Heard(k) == task[k] \in Handed \cup {"done"}
<1>1. /\ native \in NativeRing /\ RingTypes
      /\ ~Notify => note = "none"
      /\ ring => reported
      /\ gone => reported
      /\ run = "none" => ~reported /\ read = "none" /\ native.known # "page" /\ \A k \in Reports : task[k] = "unused"
  BY DEF RingInv, GhostInv, ShadeInv, ListInv
<1>n. native \in NativeRing BY <1>1
<1>2. GoesOn => Story BY DEF RingInv, StoryInv
<1>3. CASE UNCHANGED plot
  <2>1. GoesOn' => GoesOn BY <1>3 DEF GoesOn
  <2>2. Story => Story'
    <3>1. \A k \in Reports : Believed(k) => Believed(k)' BY <1>3 DEF Believed, Belief, Final
    <3> QED BY <1>3, <3>1 DEF Story, Reported
  <2> QED BY <1>2, <2>1, <2>2 DEF StoryInv
<1>4. ASSUME late' \/ native'.over \/ ending' PROVE StoryInv' BY <1>4 DEF StoryInv, GoesOn
<1> DEFINE Goes == /\ late' = late /\ native'.over = native.over /\ ending' = ending
<1>5. ASSUME Goes, GoesOn /\ Story => Story' PROVE StoryInv'
  BY <1>2, <1>5 DEF StoryInv, GoesOn
\* The ring comes, and is reported.
<1>6. ASSUME Reporting, UNCHANGED <<late, native, note, front, leaving, shown, ending, events, missed>>
      PROVE  StoryInv'
  <2>1. SUFFICES ASSUME GoesOn, Story PROVE Story' BY <1>5, <1>6
  <2>2. CASE reported BY <1>3, <1>6, <2>2, <2>1 DEF Reporting, StoryInv, GoesOn
  <2>3. CASE ~reported
    <3>1. PICK k \in Reports : task[k] = "unused" /\ task' = [task EXCEPT ![k] = "asking"] /\ reported'
      BY <1>6, <2>3 DEF Reporting
    <3>2. task'[k] = "asking" /\ \A j \in Reports \ {k} : task'[j] = task[j] BY <1>1, <3>1, TaskMoves
    <3>3. \A j \in Reports : task[j] = "unused" BY <2>1, <2>3 DEF Story, Reported
    <3>4. \A j \in Reports : j = k \/ task'[j] = "unused" BY <3>2, <3>3
    <3>5. native.known # "page" BY <2>1, <3>3 DEF Story, Reported
    <3>6. Reported' BY <1>6, <2>1, <3>1, <3>2, <3>4, <3>5 DEF Story, Reported
    <3>7. \A j \in Reports : ~Heard(j)' BY <3>2, <3>4 DEF Handed
    <3> QED BY <3>6, <3>7 DEF Story
  <2> QED BY <2>2, <2>3
<1>7. CASE HearsRing \/ ReadAnswered \/ RunActs
  <2>1. UNCHANGED <<late, native, note, front, leaving, shown, ending, events, missed>>
    BY <1>7 DEF HearsRing, ReadAnswered, RunActs, device, ghosts
  <2>2. Reporting \/ UNCHANGED <<reported, task>> BY <1>7 DEF HearsRing, ReadAnswered, RunActs, RingComes
  <2> QED BY <1>3, <1>6, <2>1, <2>2
\* A run of #report goes on.
<1>8. ASSUME NEW k \in Reports, task[k] # "unused", NEW p \in {"sent", "done"} \cup Handed,
             task' = [task EXCEPT ![k] = p], reported' = reported, GoesOn, Story
      PROVE  /\ task'[k] = p /\ reported /\ \A j \in Reports : j = k \/ (task'[j] = "unused" /\ task[j] = "unused")
             /\ \A i, j \in Reports : task'[i] # "unused" /\ task'[j] # "unused" => i = j
             /\ reported' <=> \E j \in Reports : task'[j] # "unused"
  <2>1. task'[k] = p /\ \A j \in Reports \ {k} : task'[j] = task[j] BY <1>1, <1>8, TaskMoves
  <2>2. p # "unused" BY DEF Handed
  <2>3. Reported BY <1>8 DEF Story
  <2> QED BY <1>8, <2>1, <2>2, <2>3 DEF Reported
<1>9. ASSUME NEW k \in Reports, Asks(k) PROVE StoryInv'
  <2>1. UNCHANGED <<late, native, note, front, leaving, reported, shown, ending, events, missed>> /\ task[k] = "asking"
    BY <1>9 DEF Asks, device, ghosts
  <2>2. SUFFICES ASSUME GoesOn, Story PROVE Story' BY <1>5, <2>1
  <2>3. reported BY <2>1, <2>2 DEF Story, Reported
  <2>4. task' = [task EXCEPT ![k] = "sent"] BY <1>9, <2>3 DEF Asks
  <2>5. /\ task'[k] = "sent" /\ \A j \in Reports : j = k \/ (task'[j] = "unused" /\ task[j] = "unused")
        /\ \A i, j \in Reports : task'[i] # "unused" /\ task'[j] # "unused" => i = j
        /\ reported' <=> \E j \in Reports : task'[j] # "unused"
    BY <1>8, <2>1, <2>2, <2>4
  <2>6. native.known # "page" BY <2>1, <2>2, <2>5 DEF Story, Reported
  <2>7. Reported' BY <2>1, <2>2, <2>5, <2>6 DEF Story, Reported
  <2>8. \A j \in Reports : ~Heard(j)' BY <2>5 DEF Handed
  <2> QED BY <2>7, <2>8 DEF Story
<1>10. ASSUME NEW k \in Reports, Handled(k) PROVE StoryInv'
  <2>1. UNCHANGED <<late, front, leaving, reported, shown, ending, events, missed>> /\ task[k] = "sent"
    BY <1>10 DEF Handled, ghosts
  <2> DEFINE r == Rings(TRUE, FALSE)
  <2>2. CASE task' = [task EXCEPT ![k] = "no_answer"] /\ UNCHANGED <<native, note>>
    <3>1. SUFFICES ASSUME GoesOn, Story PROVE Story' BY <1>5, <2>1, <2>2
    <3>2. /\ task'[k] = "no_answer" /\ \A j \in Reports : j = k \/ (task'[j] = "unused" /\ task[j] = "unused")
          /\ \A i, j \in Reports : task'[i] # "unused" /\ task'[j] # "unused" => i = j
          /\ reported' <=> \E j \in Reports : task'[j] # "unused"
      BY <1>8, <2>1, <2>2, <3>1 DEF Handed
    <3>3. native.known # "page" /\ events = <<>> BY <2>1, <3>1, <3>2 DEF Story, Reported
    <3>4. Reported' BY <2>1, <2>2, <3>1, <3>2, <3>3 DEF Story, Reported
    <3>5. Believed(k)' BY <2>1, <2>2, <3>2, <3>3 DEF Believed, Belief
    <3>6. \A j \in Reports : Heard(j)' => j = k BY <3>2 DEF Handed
    <3> QED BY <3>4, <3>5, <3>6 DEF Story
  <2>3. CASE /\ native' = r.native /\ note' = r.note
             /\ task' = [task EXCEPT ![k] = IF r.shown THEN "shown" ELSE "not_shown"]
    <3>r. Rung(r, TRUE)
      <4>1. \A f, t \in BOOLEAN : Rung(Rings(f, t), f) BY <1>n, RingsIs
      <4> QED BY <4>1
    <3> HIDE DEF r
    <3>0. Goes BY <2>1, <2>3, <3>r DEF Rung
    <3>1. SUFFICES ASSUME GoesOn, Story PROVE Story' BY <1>5, <3>0
    <3> DEFINE p == IF r.shown THEN "shown" ELSE "not_shown"
    <3>2. /\ task'[k] = p /\ \A j \in Reports : j = k \/ (task'[j] = "unused" /\ task[j] = "unused")
          /\ \A i, j \in Reports : task'[i] # "unused" /\ task'[j] # "unused" => i = j
          /\ reported' <=> \E j \in Reports : task'[j] # "unused"
      <4>1. p \in {"sent", "done"} \cup Handed BY DEF Handed
      <4> HIDE DEF p
      <4>2. task' = [task EXCEPT ![k] = p] BY <2>3 DEF p
      <4> QED BY <1>8, <2>1, <3>1, <4>1, <4>2
    <3>3. native.known # "page" /\ events = <<>> /\ ~native.owned /\ ~native.held
      BY <2>1, <3>1, <3>2 DEF Story, Reported
    <3>4. /\ native'.known = "page"
          /\ \/ front /\ ~r.shown /\ note' = "none" /\ native'.owned = TRUE /\ ~native'.held
             \/ ~front /\ Notify /\ native'.posted /\ note' # "none" /\ r.shown /\ ~native'.held /\ ~native'.owned
             \/ ~front /\ ~Notify /\ note' = note /\ ~r.shown /\ ~native'.held /\ ~native'.owned
      BY <2>3, <3>1, <3>3, <3>r DEF Rung, GoesOn
    <3>5. Reported'
      <4>1. native'.owned \/ native'.held => front' \/ leaving' \/ ~Notify BY <2>1, <3>4
      <4>2. task'[k] \in {"shown", "not_shown", "done"} BY <3>2
      <4> QED BY <3>2, <3>4, <4>1, <4>2 DEF Reported
    <3>6. Believed(k)'
      <4>1. Belief(k)' = p BY <2>1, <3>2, <3>3 DEF Belief
      <4> QED BY <1>1, <2>1, <3>4, <4>1 DEF Believed
    <3>7. \A j \in Reports : Heard(j)' => j = k BY <3>2 DEF Handed
    <3> QED BY <3>5, <3>6, <3>7 DEF Story
  <2> QED BY <1>10, <2>2, <2>3 DEF Handled
<1>11. ASSUME NEW k \in Reports, Answered(k) PROVE StoryInv'
  <2>1. /\ UNCHANGED <<late, native, note, front, leaving, reported, ending, events, missed>>
        /\ task[k] \in Handed /\ task' = [task EXCEPT ![k] = "done"]
        /\ shown' = IF reported THEN task[k] ELSE shown
    BY <1>11 DEF Answered, Handed, device, ghosts
  <2>2. SUFFICES ASSUME GoesOn, Story PROVE Story' BY <1>5, <2>1
  <2>3. /\ task'[k] = "done" /\ reported /\ \A j \in Reports : j = k \/ (task'[j] = "unused" /\ task[j] = "unused")
        /\ \A i, j \in Reports : task'[i] # "unused" /\ task'[j] # "unused" => i = j
        /\ reported' <=> \E j \in Reports : task'[j] # "unused"
    BY <1>8, <2>1, <2>2 DEF Handed
  <2>4. Reported' BY <2>1, <2>2, <2>3 DEF Story, Reported
  <2>5. \A j \in Reports : Heard(j)' => j = k BY <2>3 DEF Handed
  <2>6. ~missed => Believed(k) BY <2>1, <2>2 DEF Story
  <2>7. Belief(k)' = Belief(k) BY <2>1, <2>3 DEF Belief, Final, Handed
  <2>8. ~missed => Believed(k)' BY <2>1, <2>6, <2>7 DEF Believed
  <2> QED BY <2>1, <2>4, <2>5, <2>8 DEF Story
\* The page hears.
<1>12. CASE HearsMove
  <2>1. /\ UNCHANGED <<late, native, note, front, leaving, reported, task, ending, missed>>
        /\ \A k \in Reports : task[k] \notin Handed
        /\ events # <<>> /\ events' = Tail(events)
        /\ shown' = IF reported THEN (IF Head(events) THEN "shown" ELSE "not_shown") ELSE shown
    BY <1>12 DEF HearsMove, Handed, Orderly, device, ghosts
  <2>2. SUFFICES ASSUME GoesOn, Story PROVE Story' BY <1>5, <2>1
  <2>3. native.known = "page" BY <2>1, <2>2 DEF Story, Reported
  <2>4. Reported' BY <2>1, <2>2, <2>3 DEF Story, Reported
  <2>5. ASSUME NEW k \in Reports, Heard(k) PROVE reported /\ task[k] = "done"
    BY <2>1, <2>2, <2>5 DEF Story, Reported
  <2>6. /\ events \in Seq(BOOLEAN) /\ Final(events) \in BOOLEAN
        /\ IF Tail(events) = <<>> THEN Final(events) = Head(events) ELSE Final(Tail(events)) = Final(events)
    BY <1>1, <2>1, Received DEF RingTypes
  <2>7. ASSUME NEW k \in Reports, Heard(k) PROVE Belief(k)' = Belief(k)
    <3>1. Belief(k) = IF Final(events) THEN "shown" ELSE "not_shown" BY <2>1 DEF Belief
    <3>2. CASE Tail(events) = <<>>
      <4>1. Belief(k)' = shown' BY <2>1, <2>5, <2>7, <3>2 DEF Belief
      <4> QED BY <2>1, <2>5, <2>6, <2>7, <3>1, <3>2, <4>1
    <3>3. CASE Tail(events) # <<>>
      <4>1. Final(events)' = Final(Tail(events)) BY <2>1 DEF Final
      <4>2. Belief(k)' = IF Final(events)' THEN "shown" ELSE "not_shown" BY <2>1, <3>3 DEF Belief
      <4> QED BY <2>6, <3>1, <3>3, <4>1, <4>2
    <3> QED BY <3>2, <3>3
  <2>8. ASSUME ~missed, NEW k \in Reports, Heard(k) PROVE Believed(k)'
    <3>1. Believed(k) BY <2>2, <2>8 DEF Story
    <3>2. Belief(k)' = Belief(k) BY <2>7, <2>8
    <3> QED BY <2>1, <3>1, <3>2 DEF Believed
  <2> QED BY <2>1, <2>4, <2>8 DEF Story
<1>13. CASE LosesPatience
  <2>1. /\ UNCHANGED <<late, native, note, front, leaving, reported, task, ending, events, missed>>
        /\ shown = "none"
    BY <1>13 DEF LosesPatience, device, ghosts
  <2>2. SUFFICES ASSUME GoesOn, Story PROVE Story' BY <1>5, <2>1
  <2>3. Reported' BY <2>1, <2>2 DEF Story, Reported
  <2>4. ASSUME ~missed, NEW k \in Reports, Heard(k) PROVE Believed(k)'
    <3>1. Believed(k) BY <2>2, <2>4 DEF Story
    <3>2. Belief(k) # "none" BY <3>1 DEF Believed
    <3>3. Belief(k)' = Belief(k) BY <2>1, <3>2 DEF Belief, Final
    <3> QED BY <2>1, <3>1, <3>3 DEF Believed
  <2> QED BY <2>1, <2>3, <2>4 DEF Story
<1>14. CASE Finishes
  <2>1. ending' BY <1>1, <1>14 DEF Finishes
  <2> QED BY <1>4, <2>1
\* The plugin.
<1>15. CASE PushEnds \/ PressAnswer \/ PressDecline \/ EndHandled \/ WindowCloses
  <2>1. late' \/ native'.over
    BY <1>15 DEF PushEnds, PressAnswer, PressDecline, EndHandled, WindowCloses, Ends, NoRing
  <2> QED BY <1>4, <2>1
<1>16. CASE Kill
  <2>1. /\ native' = NoRing /\ reported' = FALSE /\ task' = [k \in Reports |-> "unused"] /\ events' = <<>>
    BY <1>16 DEF Kill, NoPage
  <2>2. \A k \in Reports : task'[k] = "unused" BY <2>1
  <2>3. Reported' BY <2>1, <2>2 DEF Reported, NoRing
  <2> QED BY <2>2, <2>3 DEF Story, StoryInv, Handed
<1>17. CASE Leaves
  <2>1. /\ UNCHANGED <<late, native, note, reported, task, shown, ending, events, missed>>
        /\ front' = FALSE /\ leaving' = TRUE
    BY <1>17 DEF Leaves, page, ghosts
  <2>2. SUFFICES ASSUME GoesOn, Story PROVE Story' BY <1>5, <2>1
  <2>3. Reported' BY <2>1, <2>2 DEF Story, Reported
  <2>4. \A k \in Reports : Believed(k) => Believed(k)' BY <2>1 DEF Believed, Belief, Final
  <2> QED BY <2>1, <2>2, <2>3, <2>4 DEF Story
\* What the page is plot, if it listens, it will believe.
<1>18. ASSUME NEW b \in BOOLEAN, Tell(b), UNCHANGED <<reported, task, shown>>, native.known = "page"
       PROVE  missed' \/ (~missed /\ events' # <<>>
                /\ \A k \in Reports : Belief(k)' = IF b THEN "shown" ELSE "not_shown")
  <2>1. CASE run # "up"
    <3>1. run # "none" BY <1>1, <1>18
    <3> QED BY <1>18, <2>1, <3>1 DEF Tell, HearsMoves
  <2>2. CASE run = "up"
    <3>1. events' = Append(events, b) /\ missed' = missed BY <1>18, <2>2 DEF Tell, HearsMoves
    <3>2. events' # <<>> /\ Final(Append(events, b)) = b BY <1>1, <3>1, Sent DEF RingTypes
    <3>3. Final(events)' = b BY <3>1, <3>2 DEF Final
    <3> QED BY <3>1, <3>2, <3>3 DEF Belief
  <2> QED BY <2>1, <2>2
<1>19. CASE ComesToFront
  <2>1. /\ UNCHANGED <<late, reported, task, shown, ending>> /\ front' = TRUE
        /\ native'.over = native.over /\ native'.known = native.known /\ native'.owned = native.owned
        /\ IF native.posted /\ native.known = "page"
             THEN native'.held /\ note' = "none" /\ Tell(FALSE)
             ELSE UNCHANGED <<native, note, events, missed>>
    BY <1>n, <1>19, ComesIs DEF ComesToFront
  <2>2. SUFFICES ASSUME GoesOn, Story PROVE Story' BY <1>5, <2>1
  <2>3. CASE native.posted /\ native.known = "page"
    <3>1. missed' \/ \A k \in Reports : Belief(k)' = "not_shown"
      <4>1. \A b \in BOOLEAN : Tell(b) => missed' \/ \A k \in Reports : Belief(k)' = IF b THEN "shown" ELSE "not_shown"
        BY <1>18, <2>1, <2>3
      <4> QED BY <2>1, <2>3, <4>1
    <3>2. Reported' BY <2>1, <2>2, <2>3 DEF Story, Reported
    <3>3. missed' \/ \A k \in Reports : Believed(k)' BY <2>1, <2>3, <3>1 DEF Believed
    <3> QED BY <3>2, <3>3 DEF Story
  <2>4. CASE ~(native.posted /\ native.known = "page")
    <3>1. Reported' BY <2>1, <2>2, <2>4 DEF Story, Reported
    <3>2. \A k \in Reports : Believed(k) => Believed(k)' BY <2>1, <2>4 DEF Believed, Belief, Final
    <3> QED BY <2>1, <2>2, <2>4, <3>1, <3>2 DEF Story
  <2> QED BY <2>3, <2>4
<1>20. CASE Left
  <2>1. /\ UNCHANGED <<late, front, reported, task, shown, ending>>
        /\ native'.over = native.over /\ native'.known = native.known
    BY <1>n, <1>20, LeftIs DEF Left
  <2>2. SUFFICES ASSUME GoesOn, Story PROVE Story' BY <1>5, <2>1
  <2>3. CASE /\ (native.held \/ native.owned) /\ ~front /\ ~late /\ Notify
             /\ native'.posted /\ ~native'.held /\ ~native'.owned /\ note' # "none" /\ Tell(TRUE)
    <3>1. native.known = "page" BY <2>2, <2>3 DEF Story, Reported
    <3>2. missed' \/ \A k \in Reports : Belief(k)' = "shown"
      <4>1. \A b \in BOOLEAN : Tell(b) => missed' \/ \A k \in Reports : Belief(k)' = IF b THEN "shown" ELSE "not_shown"
        BY <1>18, <2>1, <3>1
      <4> QED BY <2>3, <4>1
    <3>3. Reported' BY <2>1, <2>2, <2>3, <3>1 DEF Story, Reported
    <3>4. missed' \/ \A k \in Reports : Believed(k)' BY <2>1, <2>3, <3>1, <3>2 DEF Believed
    <3> QED BY <3>3, <3>4 DEF Story
  <2>4. CASE (native.held \/ native.owned) /\ ~front /\ ~late /\ ~Notify /\ UNCHANGED <<note, events, missed>>
    <3>1. native.known = "page" /\ note = "none" BY <1>1, <2>2, <2>4 DEF Story, Reported
    <3>2. Reported' BY <2>1, <2>2, <2>4, <3>1 DEF Story, Reported
    <3>3. \A k \in Reports : Believed(k) => Believed(k)' BY <2>1, <2>4, <3>1 DEF Believed, Belief, Final
    <3> QED BY <2>1, <2>2, <2>4, <3>2, <3>3 DEF Story
  <2>5. CASE late BY <2>2, <2>5 DEF GoesOn
  <2>6. CASE UNCHANGED <<native, note, events, missed>> /\ (native.held \/ native.owned => front)
    <3>1. Reported' BY <2>1, <2>2, <2>6 DEF Story, Reported
    <3>2. \A k \in Reports : Believed(k) => Believed(k)' BY <2>1, <2>6 DEF Believed, Belief, Final
    <3> QED BY <2>1, <2>2, <2>6, <3>1, <3>2 DEF Story
  <2> QED BY <1>n, <1>20, <2>3, <2>4, <2>5, <2>6, LeftIs
<1>21. ASSUME NEW t \in BOOLEAN, PushRings(t) PROVE StoryInv'
  <2> DEFINE r == Rings(FALSE, t)
  <2>1. /\ UNCHANGED <<late, front, leaving, reported, task, shown, ending, events, missed>>
        /\ native' = r.native /\ note' = r.note /\ ~(front /\ native.held)
    BY <1>21 DEF PushRings, Orderly, page, ghosts
  <2>r. Rung(r, FALSE)
    <3>1. \A f \in BOOLEAN : Rung(Rings(f, t), f) BY <1>n, RingsIs
    <3> QED BY <3>1
  <2> HIDE DEF r
  <2>2. Goes BY <2>1, <2>r DEF Rung
  <2>3. SUFFICES ASSUME GoesOn, Story PROVE Story' BY <1>5, <2>2
  <2>4. /\ native'.known = "page" <=> native.known = "page"
        /\ \/ /\ native.owned /\ native'.owned /\ note' = note
              /\ native'.posted = native.posted /\ native'.held = native.held
           \/ ~native.owned /\ ~native.held /\ front /\ note' = "none" /\ ~native'.held /\ ~native'.owned
           \/ /\ ~native.owned /\ ~front /\ native.held /\ note' = note /\ native'.posted = native.posted
              /\ native'.held /\ ~native'.owned
           \/ /\ ~native.owned /\ ~front /\ ~native.held /\ ~native'.held /\ ~native'.owned
              /\ IF Notify THEN native'.posted /\ note' # "none"
                           ELSE native'.posted = native.posted /\ note' = note
    BY <2>1, <2>3, <2>r DEF Rung, GoesOn
  <2>5. Reported' BY <2>1, <2>3, <2>4 DEF Story, Reported
  <2>6. ASSUME NEW k \in Reports, Believed(k) PROVE Believed(k)'
    <3>1. Belief(k)' = Belief(k) BY <2>1 DEF Belief, Final
    <3>2. ~Notify => note = "none" BY <1>1
    <3> QED BY <2>1, <2>4, <2>6, <3>1, <3>2 DEF Believed
  <2> QED BY <2>1, <2>3, <2>5, <2>6 DEF Story
\* The rest touches nothing of it.
<1>22. ASSUME NEW a, Handle(a) PROVE UNCHANGED plot BY <1>22 DEF Handle, device, ghosts
<1>23. ASSUME \/ SignedAnswers \/ SheetAnswer \/ SheetDecline \/ HearsState \/ Reads \/ RingTimesOut
              \/ RunUp \/ Joins \/ Declines \/ CallerEnds \/ UNCHANGED vars
       PROVE  UNCHANGED plot
  BY <1>23 DEF SignedAnswers, SheetAnswer, SheetDecline, HearsState, Reads, RingTimesOut, RunUp, Joins, Declines,
               CallerEnds, vars, device, page, ghosts
<1> QED BY <1>3, <1>7, <1>9, <1>10, <1>11, <1>12, <1>13, <1>14, <1>15, <1>16, <1>17, <1>19, <1>20, <1>21, <1>22,
           <1>23 DEF Next

(***************************************************************************)
(* While a call rings, one thing rings for it: the notification or the     *)
(* page, never both and never neither, once each has heard of the other    *)
(* (RingHandler.ring, pageInFront, left; #report, onRingShown,             *)
(* pageRingDuties).                                                        *)
(***************************************************************************)
THEOREM OneThingRings ==
    ASSUME Orderly
    PROVE  Spec => []RingsOnce
<1>1. Init => RingInv
  <2> SUFFICES ASSUME Init PROVE RingInv OBVIOUS
  <2>1. GhostInv BY DEF Init, GhostInv, NoRing, NativeRing
  <2>2. \A k \in Reports : task[k] = "unused" BY DEF Init
  <2>3. RingTypes BY DEF Init, RingTypes
  <2>4. ReasonInv BY DEF Init, ReasonInv, NoRing, Orderly
  <2>5. ListInv BY <2>2 DEF Init, ListInv, NoRing, Orderly
  <2>6. ShadeInv BY DEF Init, ShadeInv
  <2>7. Reported BY <2>2 DEF Init, Reported, NoRing
  <2>8. Story BY <2>2, <2>7 DEF Story, Handed
  <2> QED BY <2>1, <2>3, <2>4, <2>5, <2>6, <2>8 DEF RingInv, StoryInv
<1>2. RingInv /\ [Next]_vars => RingInv'
  <2> SUFFICES ASSUME RingInv, [Next]_vars PROVE RingInv' OBVIOUS
  <2>1. GhostInv /\ RingTypes /\ ReasonInv /\ ListInv /\ ShadeInv /\ native \in NativeRing BY DEF RingInv, GhostInv
  <2> QED BY <2>1, GhostNextKeeps, RingTypesKeeps, ReasonKeeps, ListKeeps, ShadeKeeps, StoryKeeps DEF RingInv
<1>3. RingInv => RingsOnce
  <2> SUFFICES ASSUME RingInv PROVE RingsOnce OBVIOUS
  <2>1. /\ native.over \/ ending \/ gone => RingOver
        /\ ring => reported
        /\ late \/ ~Notify \/ native.over => note = "none"
        /\ GoesOn => Story
    BY DEF RingInv, GhostInv, ReasonInv, ListInv, ShadeInv, StoryInv
  <2>2. ASSUME Quiet, GoesOn, ring
        PROVE  \/ shown = "shown" /\ ~front /\ note # "none"
               \/ shown = "not_shown" /\ note = "none" /\ (front \/ ~Notify)
               \/ shown = "no_answer"
    <3>1. PICK k \in Reports : task[k] = "done" BY <2>1, <2>2 DEF Story, Reported, Quiet
    <3>2. Believed(k) BY <2>1, <2>2, <3>1 DEF Story, Quiet
    <3>3. Belief(k) = shown BY <2>2, <3>1 DEF Belief, Quiet
    <3>4. native.owned \/ native.held => front \/ leaving \/ ~Notify BY <2>1, <2>2 DEF Story, Reported
    <3> QED BY <2>2, <3>2, <3>3, <3>4 DEF Believed, Quiet
  <2>3. OneRing
    <3> SUFFICES ASSUME Quiet, shown # "no_answer", Tone, note # "none" PROVE FALSE BY DEF OneRing
    <3>1. ring /\ GoesOn BY <2>1 DEF Tone, Sheet, GoesOn, Quiet
    <3> QED BY <2>2, <3>1 DEF Tone
  <2>4. NeverSilent
    <3> SUFFICES ASSUME Quiet, ring, srv = "ringing", ~late, pressed = "none"
                 PROVE  IF front THEN Tone ELSE Notify => note # "none" \/ shown = "no_answer"
      BY DEF NeverSilent
    <3>1. GoesOn BY <2>1 DEF GoesOn, RingOver
    <3> QED BY <2>2, <3>1 DEF Tone, Sheet, Quiet
  <2> QED BY <2>3, <2>4 DEF RingsOnce
<1> QED BY <1>1, <1>2, <1>3, PTL DEF Spec
-----------------------------------------------------------------------------
(***************************************************************************)
(* The session, for any runs of #join, teardowns, conversations and        *)
(* hang-ups, when a join passes its checks only with every earlier one and *)
(* every hang-up finished (session.ts: #join, #teardown).                  *)
(*                                                                         *)
(* The invariant says who has what.  One join has the attempt, and what    *)
(* the page shows, the subscription of the watch, and the transport are    *)
(* its own, until it is over and the call it found goes on; a teardown     *)
(* that waits has taken them all.  A join that was superseded is a stray:  *)
(* it runs to its next check, in a conversation nothing else is in, and    *)
(* somebody gives back what it got.  The lock and every open room are the  *)
(* session's or a teardown's, and every row the server has is the          *)
(* session's or one that somebody is about to clear.                       *)
(***************************************************************************)

UiState == [phase : V!InCall \cup {"idle", "elsewhere"}, conv : Conv \cup {None}, call : Conv \cup {None},
            override : BOOLEAN]
JoinState ==
    [pc : {"unused", "switch", "checks", "out", "lock", "held", "refused", "obtain", "abandon", "key", "connect",
           "close", "mic", "done"},
     conv : Conv \cup {None}, override : BOOLEAN, leaves : Nat, down : Downs \cup {None}, live : BOOLEAN,
     tell : BOOLEAN, ended : BOOLEAN]
DownState == [pc : {"unused", "disconnect", "tell", "done"}, transport : JoinRuns \cup {None},
              call : Conv \cup {None}, keep : BOOLEAN]

SessTypes ==
    /\ ui \in UiState
    /\ plan \in Conv \cup {None} /\ attempt \in JoinRuns \cup {None} /\ transport \in JoinRuns \cup {None}
    /\ watching \in JoinRuns \cup {None} /\ hangingUp \in BOOLEAN /\ leaves \in Nat
    /\ joins \in [JoinRuns -> JoinState] /\ downs \in [Downs -> DownState] /\ lock \in {"free", "me", "other"}
    /\ room \in [JoinRuns -> {"none", "connecting", "open", "closed", "ended", "left"}]
    /\ row \subseteq Conv /\ open \subseteq Conv /\ forgotten \subseteq Conv /\ sweep \subseteq Conv
    /\ followUp \in Conv \cup {None}

AtLock(j) == joins[j].pc \in {"lock", "held", "refused"}
Shown(j) == joins[j].pc \in {"obtain", "key", "connect", "mic"}
\* A join that was superseded and has not noticed.
Stray(j) == joins[j].pc \in {"obtain", "abandon", "key", "connect", "close", "mic"} /\ ~joins[j].live
Busy(d) == downs[d].pc \in {"disconnect", "tell"}
Drops(d, j) == downs[d].pc = "disconnect" /\ downs[d].transport = j
Tells(d, c) == Busy(d) /\ downs[d].call = c

\* One join has the attempt; while a teardown waits, or a join for its own, there is none, and no session.
AttemptOf(j) ==
    /\ joins[j].live <=> attempt = j
    /\ joins[j].live => AtLock(j) \/ Shown(j)
    /\ AtLock(j) => joins[j].live
    /\ joins[j].leaves <= leaves
    /\ joins[j].pc # "unused" => joins[j].conv \in Conv
    /\ joins[j].pc \in {"switch", "out"} =>
         /\ attempt = None /\ transport = None /\ watching = None /\ joins[j].down \in Downs
         /\ \A k \in JoinRuns \ {j} : joins[k].pc \notin {"switch", "out"}
         /\ joins[j].leaves = leaves => \A d \in Downs : Busy(d) => d = joins[j].down
AttemptInv ==
    /\ \A j \in JoinRuns : AttemptOf(j)
    /\ (\E d \in Downs : Busy(d)) => attempt = None /\ transport = None /\ watching = None

\* What the page shows is the join under way, or the call it is in.
ShownOf(j) ==
    /\ joins[j].live /\ AtLock(j) => ui.phase \notin V!InCall /\ transport = None /\ watching = None
    /\ joins[j].live /\ Shown(j) => ui.phase \in V!InCall /\ ui.conv = joins[j].conv
    /\ joins[j].live /\ joins[j].pc = "obtain" => ui.call = None /\ transport = None /\ watching = None
    /\ joins[j].live /\ joins[j].pc = "key" => watching = j /\ transport = None
    /\ joins[j].live /\ joins[j].pc \in {"connect", "mic"} => transport = j
    /\ joins[j].live /\ joins[j].pc \in {"obtain", "key", "connect"} => ui.phase = "connecting"
    /\ joins[j].live /\ joins[j].pc = "mic" => ui.phase \in {"connected", "reconnecting"}
    /\ joins[j].ended => joins[j].pc # "unused" /\ joins[j].conv \notin open
    /\ transport = j => watching = j
    /\ watching = j =>
         /\ (joins[j].live /\ joins[j].pc \in {"key", "connect", "mic"})
            \/ (attempt = None /\ joins[j].pc = "done" /\ transport = j
                /\ ui.phase \in {"connected", "reconnecting"})
         /\ ui.conv = joins[j].conv /\ ui.call = joins[j].conv
ShownInv ==
    /\ \A j \in JoinRuns : ShownOf(j)
    /\ ui.phase \in V!InCall => \/ \E d \in Downs : Busy(d)
                                \/ \E j \in JoinRuns : joins[j].live /\ Shown(j)
                                \/ watching # None

\* The lock is the page's from the grant to the end of the teardown, but
\* for a switch of engines, which keeps it for the join it begins.
LockInv ==
    /\ ui.phase \in V!InCall => lock = "me"
    /\ \A j \in JoinRuns : joins[j].pc = "held" => lock = "me"
    /\ \A j \in JoinRuns : joins[j].pc \in {"lock", "refused"} => lock # "me"
    /\ lock = "me" => \/ \E d \in Downs : Busy(d) /\ ~downs[d].keep
                      \/ ui.phase \in V!InCall /\ \A d \in Downs : ~Busy(d)
                      \/ \E j \in JoinRuns : joins[j].pc = "held"
                      \/ \E j \in JoinRuns : joins[j].pc \in {"switch", "checks"} /\ joins[j].leaves = leaves

\* An open room is the session's, or is being closed.
RoomOf(j) ==
    /\ room[j] = "connecting" <=> joins[j].pc = "connect"
    /\ joins[j].pc \in {"unused", "switch", "checks", "out", "lock", "held", "refused", "obtain", "abandon", "key"}
         => room[j] = "none"
    /\ joins[j].pc = "mic" \/ (joins[j].pc = "done" /\ transport = j) => room[j] # "none"
    /\ room[j] = "open" => \/ transport = j /\ joins[j].pc \in {"mic", "done"}
                           \/ joins[j].pc = "close"
                           \/ \E d \in Downs : Drops(d, j)
RoomInv ==
    /\ \A j \in JoinRuns : RoomOf(j)
    /\ \A d \in Downs :
         /\ downs[d].pc = "disconnect" => /\ downs[d].transport \in JoinRuns
                                          /\ joins[downs[d].transport].pc \in {"connect", "close", "mic", "done"}
         /\ downs[d].pc = "tell" => downs[d].call # None

\* A stray join is of another conversation than whatever runs beside it.
Linked(k) == joins[k].live \/ watching = k \/ joins[k].pc = "out" \/ Stray(k) \/ \E d \in Downs : Drops(d, k)
StrayInv ==
    \A j \in JoinRuns : Stray(j) =>
        /\ \A k \in JoinRuns \ {j} : Linked(k) => joins[k].conv # joins[j].conv
        /\ joins[j].pc = "obtain" => joins[j].tell

\* Somebody tells the server of a call the device is not in.
Told1(c) == \E d \in Downs : Tells(d, c)
Switches(c) == \E d \in Downs : /\ downs[d].pc = "disconnect" /\ downs[d].keep
                                /\ joins[downs[d].transport].conv = c
Covered(c) ==
    \/ watching # None /\ joins[watching].conv = c
    \/ c \in sweep \/ (followUp = c /\ c \in forgotten)
    \/ c \notin forgotten /\ \E j \in JoinRuns : joins[j].conv = c /\ room[j] \in {"closed", "ended"}
    \/ Told1(c) \/ Switches(c)
    \/ \E j \in JoinRuns : joins[j].pc = "abandon" /\ joins[j].conv = c

\* The device is counted in the call of its session, and for a stray join until
\* somebody has told; when that was lost, the departure or the sweep is left.
TakenUp(j) == Told1(joins[j].conv) \/ joins[j].conv \in sweep \/ room[j] \in {"closed", "ended"}
CountedInv(j) ==
    /\ watching = j /\ joins[j].conv \in open =>
         /\ joins[j].pc \in {"key", "connect"} /\ joins[j].conv \notin forgotten => joins[j].conv \in row
         /\ room[j] = "open" => joins[j].conv \in row /\ followUp # joins[j].conv
    /\ Stray(j) /\ joins[j].conv \in row =>
         /\ joins[j].pc \in {"key", "connect", "close"} => TakenUp(j)
         /\ joins[j].pc = "mic" => \/ TakenUp(j)
                                   \/ \E d \in Downs : Drops(d, j) /\ downs[d].keep
DropInv ==
    \A d \in Downs : \A j \in JoinRuns :
        Drops(d, j) /\ room[j] \in {"none", "open", "connecting"} /\ joins[j].conv \in open =>
            downs[d].call = joins[j].conv \/ (downs[d].keep /\ room[j] = "open")

RowInv == /\ row \subseteq open
          /\ \A c \in row : Covered(c)
          /\ \A j \in JoinRuns : CountedInv(j)
          /\ DropInv

SessInv == SessTypes /\ AttemptInv /\ ShownInv /\ LockInv /\ RoomInv /\ StrayInv /\ RowInv

\* One join goes on to a place, or is over; the others stay.
JoinAt(j, p) ==
    /\ joins' \in [JoinRuns -> JoinState]
    /\ joins'[j].pc = p /\ joins'[j].conv = joins[j].conv /\ joins'[j].leaves = joins[j].leaves
    /\ joins'[j].live = joins[j].live /\ joins'[j].tell = joins[j].tell /\ joins'[j].ended = joins[j].ended
    /\ joins'[j].down = joins[j].down
    /\ \A k \in JoinRuns : k # j => joins'[k] = joins[k]
JoinOver(j) ==
    /\ joins' \in [JoinRuns -> JoinState]
    /\ joins'[j].pc = "done" /\ joins'[j].conv = joins[j].conv /\ joins'[j].leaves = 0
    /\ joins'[j].live = FALSE /\ joins'[j].ended = FALSE
    /\ \A k \in JoinRuns : k # j => joins'[k] = joins[k]

LEMMA JoinMoves ==
    ASSUME SessTypes, NEW j \in JoinRuns, NEW p, [joins[j] EXCEPT !.pc = p] \in JoinState,
           joins' = [joins EXCEPT ![j].pc = p]
    PROVE  JoinAt(j, p)
<1>1. joins[j] \in JoinState BY DEF SessTypes
<1> QED BY <1>1 DEF SessTypes, JoinState, JoinAt

LEMMA Places ==
    ASSUME SessTypes, NEW j \in JoinRuns, NEW p,
           p \in {"switch", "checks", "out", "lock", "held", "refused", "obtain", "abandon", "key", "connect", "close", "mic"}
    PROVE  [joins[j] EXCEPT !.pc = p] \in JoinState
<1>1. joins[j] \in JoinState BY DEF SessTypes
<1> QED BY <1>1 DEF JoinState

LEMMA UnusedIs == /\ V!Unused \in JoinState /\ V!Unused.pc = "unused" /\ ~V!Unused.live /\ ~V!Unused.ended
                  /\ V!Unused.leaves = 0 /\ V!Unused.conv = None
BY DEF V!Unused, JoinState

LEMMA OverMoves ==
    ASSUME SessTypes, AttemptInv, NEW j \in JoinRuns, NEW t \in BOOLEAN,
           joins' = V!Over(joins, j) \/ (attempt = j /\ joins' = V!Over(V!Superseded(t), j))
    PROVE  JoinOver(j)
<1> DEFINE r == [V!Unused EXCEPT !.pc = "done", !.conv = joins[j].conv]
<1>1. r \in JoinState /\ r.pc = "done" /\ r.conv = joins[j].conv /\ r.leaves = 0 /\ ~r.live /\ ~r.ended
  <2>1. joins[j] \in JoinState BY DEF SessTypes
  <2> QED BY <2>1 DEF V!Unused, JoinState
<1>2. CASE joins' = V!Over(joins, j)
  <2>1. joins' = [joins EXCEPT ![j] = r] BY <1>2 DEF V!Over
  <2> HIDE DEF r
  <2> QED BY <1>1, <2>1 DEF SessTypes, JoinOver
<1>3. CASE attempt = j /\ joins' = V!Over(V!Superseded(t), j)
  <2>1. V!Superseded(t) = [joins EXCEPT ![j].live = FALSE, ![j].tell = t]
    BY <1>3, SessionAssumption DEF V!Superseded
  <2>2. V!Superseded(t)[j].conv = joins[j].conv
    <3>1. joins[j] \in JoinState BY DEF SessTypes
    <3> QED BY <2>1, <3>1 DEF SessTypes, JoinState
  <2>3. joins' = [V!Superseded(t) EXCEPT ![j] = r] BY <1>3, <2>2 DEF V!Over
  <2>4. joins' = [joins EXCEPT ![j] = r] BY <2>1, <2>3 DEF SessTypes
  <2> HIDE DEF r
  <2> QED BY <1>1, <2>4 DEF SessTypes, JoinOver
<1> QED BY <1>2, <1>3

LEMMA GiveUpIs ==
    ASSUME SessTypes, AttemptInv, NEW j \in JoinRuns, V!GiveUp(j)
    PROVE  /\ JoinOver(j)
           /\ UNCHANGED <<ui, plan, attempt, transport, hangingUp, leaves, watching, downs, lock, room,
                          row, open, forgotten, followUp, sweep>>
BY OverMoves DEF V!GiveUp, V!page, V!sfu

\* A request about a join's row is lost, served or not.
IsLost(j) ==
    /\ joins[j].pc \in {"obtain", "abandon"}
    /\ row' = row \/ (joins[j].conv \in open /\ row' = row \cup {joins[j].conv})
    /\ sweep' = sweep \cup {joins[j].conv}

\* A join that nothing else is of gives up.
LEMMA OverKeeps ==
    ASSUME SessInv, NEW j \in JoinRuns, JoinOver(j),
           ~joins[j].live, joins[j].pc \in {"checks", "out", "obtain", "key", "mic", "abandon"},
           joins[j].pc = "checks" => (\A d \in Downs : ~Busy(d)) /\ (ui.phase \in V!InCall \/ joins[j].leaves # leaves),
           joins[j].pc = "out" => joins[j].leaves # leaves,
           \/ row' = (IF joins[j].pc = "abandon" THEN row \ {joins[j].conv} ELSE row) /\ sweep' = sweep
           \/ IsLost(j),
           UNCHANGED <<ui, plan, attempt, transport, hangingUp, leaves, watching, downs, lock, room,
                       open, forgotten, followUp>>
    PROVE  SessInv'
<1> USE DEF SessInv
<1>1. UNCHANGED <<ui, plan, attempt, transport, hangingUp, leaves, watching, downs, lock, room, open,
                  forgotten, followUp>>
  OBVIOUS
<1>2. /\ row' \subseteq open /\ sweep' \subseteq Conv /\ (\A z \in sweep : z \in sweep')
      /\ (\A z \in row' : z \in row \/ z \in sweep')
      /\ (joins[j].pc = "abandon" => joins[j].conv \notin row' \/ joins[j].conv \in sweep')
      /\ \A c \in row : c # joins[j].conv \/ joins[j].pc # "abandon" => c \in row'
  <2>1. joins[j].conv \in Conv /\ row \subseteq open /\ sweep \subseteq Conv
    BY DEF AttemptInv, AttemptOf, RowInv, SessTypes
  <2> QED BY <2>1 DEF IsLost
<1>3. \A i \in JoinRuns : joins[j].pc = "abandon" /\ watching = i => joins[i].conv # joins[j].conv
  BY DEF StrayInv, Stray, Linked, ShownInv, ShownOf, AttemptInv, AttemptOf
<1>20. SessTypes' BY SessionAssumption, <1>1, <1>2, <1>3 DEF SessTypes, JoinAt, JoinOver
<1>21. AttemptInv'
  BY SessionAssumption, <1>1, <1>2, <1>3 DEF AttemptInv, ShownInv, SessTypes, AttemptOf, ShownOf, RoomOf,
     AtLock, Shown, Busy, JoinAt, JoinOver
<1>22. ShownInv'
  BY SessionAssumption, <1>1, <1>2, <1>3 DEF ShownInv, AttemptInv, SessTypes, V!InCall, AttemptOf, ShownOf,
     RoomOf, AtLock, Shown, Busy, JoinAt, JoinOver
<1>23. LockInv'
  BY SessionAssumption, <1>1, <1>2, <1>3 DEF LockInv, ShownInv, AttemptInv, SessTypes, V!InCall, AttemptOf,
     ShownOf, RoomOf, AtLock, Shown, Busy, JoinAt, JoinOver
<1>24. RoomInv'
  BY SessionAssumption, <1>1, <1>2, <1>3 DEF RoomInv, ShownInv, AttemptInv, SessTypes, Drops, AttemptOf,
     ShownOf, RoomOf, AtLock, Shown, Busy, JoinAt, JoinOver
<1>25. StrayInv'
  BY SessionAssumption, <1>1, <1>2, <1>3 DEF StrayInv, ShownInv, AttemptInv, RoomInv, SessTypes, Stray, Linked,
     Drops, AttemptOf, ShownOf, RoomOf, AtLock, Shown, Busy, JoinAt, JoinOver
<1>26. (row \subseteq open)' BY SessionAssumption, <1>1, <1>2, <1>3 DEF RowInv, SessTypes, JoinAt, JoinOver
<1>27. (\A z \in row : Covered(z))'
  BY SessionAssumption, <1>1, <1>2, <1>3 DEF RowInv, Covered, Told1, Switches, Tells, RoomInv, AttemptInv,
     SessTypes, AttemptOf, ShownOf, RoomOf, AtLock, Shown, Busy, JoinAt, JoinOver
<1>28. (\A i \in JoinRuns : CountedInv(i))'
  BY SessionAssumption, <1>1, <1>2, <1>3 DEF RowInv, CountedInv, TakenUp, Told1, Tells, Drops, Stray, ShownInv,
     AttemptInv, RoomInv, StrayInv, Linked, SessTypes, AttemptOf, ShownOf, RoomOf, AtLock, Shown, Busy, JoinAt,
     JoinOver
<1>29. DropInv'
  BY SessionAssumption, <1>1, <1>2, <1>3 DEF RowInv, DropInv, Drops, RoomInv, AttemptInv, ShownInv, StrayInv,
     Stray, Linked, SessTypes, AttemptOf, ShownOf, RoomOf, AtLock, Shown, Busy, JoinAt, JoinOver
<1> QED BY <1>20, <1>21, <1>22, <1>23, <1>24, <1>25, <1>26, <1>27, <1>28, <1>29 DEF SessInv, RowInv

LEMMA UnfinishedIs ==
    ASSUME SessTypes, NEW j \in JoinRuns, ~V!Unfinished(j)
    PROVE  /\ \A d \in Downs : ~Busy(d)
           /\ \A k \in JoinRuns : k # j => /\ ~AtLock(k)
                                           /\ (joins[k].pc \in {"unused", "done", "checks"} \/ joins[k].live)
<1>1. \A d \in Downs : downs[d] \in DownState BY DEF SessTypes
<1>2. V!TearingDown = {} /\ \A k \in JoinRuns : k # j => /\ ~AtLock(k)
                                        /\ (joins[k].pc \in {"unused", "done", "checks"} \/ joins[k].live)
  BY DEF V!Unfinished, V!Running, AtLock
<1>3. \A d \in Downs : ~Busy(d) BY <1>1, <1>2 DEF V!TearingDown, Busy
<1> QED BY <1>2, <1>3

LEMMA IdleIs == V!Idle \in UiState /\ V!Idle.phase = "idle" /\ V!Idle.call = None /\ V!Idle.conv = None
BY DEF V!Idle, UiState, V!InCall

LEMMA PressKeeps == ASSUME SessInv, NEW j \in JoinRuns, NEW c \in Conv, V!Press(j, c) PROVE SessInv'
<1> USE DEF SessInv
<1> DEFINE r == [joins[j] EXCEPT !.pc = "checks", !.conv = c, !.leaves = leaves]
<1>1. /\ joins[j].pc = "unused"
      /\ UNCHANGED <<ui, plan, attempt, transport, hangingUp, leaves, watching, downs, lock, room, row,
                     open, forgotten, followUp, sweep>>
  BY DEF V!Press, V!FirstJoin, V!page, V!sfu
<1>2. r \in JoinState /\ r.pc = "checks" /\ r.conv = c /\ r.leaves = leaves /\ r.live = joins[j].live /\ r.ended = joins[j].ended
  <2>1. joins[j] \in JoinState /\ leaves \in Nat BY DEF SessTypes
  <2> QED BY <2>1 DEF JoinState
<1>3. joins' \in [JoinRuns -> JoinState] /\ joins'[j] = r /\ \A k \in JoinRuns : k # j => joins'[k] = joins[k]
  <2>1. joins' = [joins EXCEPT ![j] = r] BY DEF V!Press
  <2> HIDE DEF r
  <2> QED BY <1>2, <2>1 DEF SessTypes
<1>4. /\ room[j] = "none" /\ ~joins[j].live /\ ~joins[j].ended /\ watching # j
      /\ \A d \in Downs : downs[d].pc = "disconnect" => downs[d].transport # j
  BY <1>1 DEF RoomInv, RoomOf, AttemptInv, AttemptOf, ShownInv, ShownOf, AtLock, Shown
<1> HIDE DEF r
<1>20. SessTypes' BY SessionAssumption, <1>1, <1>2, <1>3, <1>4 DEF SessTypes, JoinAt, JoinOver
<1>21. AttemptInv'
  BY SessionAssumption, <1>1, <1>2, <1>3, <1>4 DEF AttemptInv, ShownInv, SessTypes, AttemptOf, ShownOf, RoomOf,
     AtLock, Shown, Busy, JoinAt, JoinOver
<1>22. ShownInv'
  BY SessionAssumption, <1>1, <1>2, <1>3, <1>4 DEF ShownInv, AttemptInv, SessTypes, V!InCall, AttemptOf,
     ShownOf, RoomOf, AtLock, Shown, Busy, JoinAt, JoinOver
<1>23. LockInv'
  BY SessionAssumption, <1>1, <1>2, <1>3, <1>4 DEF LockInv, ShownInv, AttemptInv, SessTypes, V!InCall,
     AttemptOf, ShownOf, RoomOf, AtLock, Shown, Busy, JoinAt, JoinOver
<1>24. RoomInv'
  BY SessionAssumption, <1>1, <1>2, <1>3, <1>4 DEF RoomInv, ShownInv, AttemptInv, SessTypes, Drops, AttemptOf,
     ShownOf, RoomOf, AtLock, Shown, Busy, JoinAt, JoinOver
<1>25. StrayInv'
  BY SessionAssumption, <1>1, <1>2, <1>3, <1>4 DEF StrayInv, ShownInv, AttemptInv, RoomInv, SessTypes, Stray,
     Linked, Drops, AttemptOf, ShownOf, RoomOf, AtLock, Shown, Busy, JoinAt, JoinOver
<1>26. (row \subseteq open)' BY SessionAssumption, <1>1, <1>2, <1>3, <1>4 DEF RowInv, SessTypes, JoinAt, JoinOver
<1>27. (\A z \in row : Covered(z))'
  BY SessionAssumption, <1>1, <1>2, <1>3, <1>4 DEF RowInv, Covered, Told1, Switches, Tells, RoomInv,
     AttemptInv, SessTypes, AttemptOf, ShownOf, RoomOf, AtLock, Shown, Busy, JoinAt, JoinOver
<1>28. (\A i \in JoinRuns : CountedInv(i))'
  BY SessionAssumption, <1>1, <1>2, <1>3, <1>4 DEF RowInv, CountedInv, TakenUp, Told1, Tells, Drops, Stray, ShownInv,
     AttemptInv, RoomInv, StrayInv, Linked, SessTypes, AttemptOf, ShownOf, RoomOf, AtLock, Shown, Busy, JoinAt,
     JoinOver
<1>29. DropInv'
  BY SessionAssumption, <1>1, <1>2, <1>3, <1>4 DEF RowInv, DropInv, Drops, RoomInv, AttemptInv, ShownInv,
     StrayInv, Stray, Linked, SessTypes, AttemptOf, ShownOf, RoomOf, AtLock, Shown, Busy, JoinAt, JoinOver
<1> QED BY <1>20, <1>21, <1>22, <1>23, <1>24, <1>25, <1>26, <1>27, <1>28, <1>29 DEF SessInv, RowInv

LEMMA SwitchBackKeeps == ASSUME SessInv, NEW j \in JoinRuns, V!SwitchBack(j) PROVE SessInv'
<1> USE DEF SessInv
<1>1. /\ joins[j].pc = "switch" /\ downs[joins[j].down].pc = "done"
      /\ UNCHANGED <<plan, attempt, transport, hangingUp, leaves, watching, downs, lock, room, row, open,
                     forgotten, followUp, sweep>>
  BY DEF V!SwitchBack, V!sfu
<1>2. JoinAt(j, "checks") BY JoinMoves, Places DEF V!SwitchBack
<1>3. ui' \in UiState /\ ui'.phase = ui.phase /\ ui'.conv = ui.conv /\ ui'.call = ui.call
  <2>1. ui \in UiState BY DEF SessTypes
  <2> QED BY <2>1 DEF V!SwitchBack, UiState
<1>20. SessTypes' BY SessionAssumption, <1>1, <1>2, <1>3 DEF SessTypes, JoinAt, JoinOver
<1>21. AttemptInv'
  BY SessionAssumption, <1>1, <1>2, <1>3 DEF AttemptInv, ShownInv, SessTypes, AttemptOf, ShownOf, RoomOf,
     AtLock, Shown, Busy, JoinAt, JoinOver
<1>22. ShownInv'
  BY SessionAssumption, <1>1, <1>2, <1>3 DEF ShownInv, AttemptInv, SessTypes, V!InCall, AttemptOf, ShownOf,
     RoomOf, AtLock, Shown, Busy, JoinAt, JoinOver
<1>23. LockInv'
  BY SessionAssumption, <1>1, <1>2, <1>3 DEF LockInv, ShownInv, AttemptInv, SessTypes, V!InCall, AttemptOf,
     ShownOf, RoomOf, AtLock, Shown, Busy, JoinAt, JoinOver
<1>24. RoomInv'
  BY SessionAssumption, <1>1, <1>2, <1>3 DEF RoomInv, ShownInv, AttemptInv, SessTypes, Drops, AttemptOf,
     ShownOf, RoomOf, AtLock, Shown, Busy, JoinAt, JoinOver
<1>25. StrayInv'
  BY SessionAssumption, <1>1, <1>2, <1>3 DEF StrayInv, ShownInv, AttemptInv, RoomInv, SessTypes, Stray, Linked,
     Drops, AttemptOf, ShownOf, RoomOf, AtLock, Shown, Busy, JoinAt, JoinOver
<1>26. (row \subseteq open)' BY SessionAssumption, <1>1, <1>2, <1>3 DEF RowInv, SessTypes, JoinAt, JoinOver
<1>27. (\A z \in row : Covered(z))'
  BY SessionAssumption, <1>1, <1>2, <1>3 DEF RowInv, Covered, Told1, Switches, Tells, RoomInv, AttemptInv,
     SessTypes, AttemptOf, ShownOf, RoomOf, AtLock, Shown, Busy, JoinAt, JoinOver
<1>28. (\A i \in JoinRuns : CountedInv(i))'
  BY SessionAssumption, <1>1, <1>2, <1>3 DEF RowInv, CountedInv, TakenUp, Told1, Tells, Drops, Stray, ShownInv,
     AttemptInv, RoomInv, StrayInv, Linked, SessTypes, AttemptOf, ShownOf, RoomOf, AtLock, Shown, Busy, JoinAt,
     JoinOver
<1>29. DropInv'
  BY SessionAssumption, <1>1, <1>2, <1>3 DEF RowInv, DropInv, Drops, RoomInv, AttemptInv, ShownInv, StrayInv,
     Stray, Linked, SessTypes, AttemptOf, ShownOf, RoomOf, AtLock, Shown, Busy, JoinAt, JoinOver
<1> QED BY <1>20, <1>21, <1>22, <1>23, <1>24, <1>25, <1>26, <1>27, <1>28, <1>29 DEF SessInv, RowInv

\* Nothing else is under way when a join comes to the attempt.
LEMMA AttemptKeeps ==
    ASSUME SessInv, NEW j \in JoinRuns, V!Attempt(j, joins), attempt = None, transport = None, watching = None,
           joins[j].pc \in {"checks", "out"}, ui.phase \notin V!InCall,
           \A d \in Downs : ~Busy(d), \A k \in JoinRuns : k # j => ~AtLock(k) /\ joins[k].pc \notin {"switch", "out"},
           \A k \in JoinRuns : Stray(k) => joins[k].conv # joins[j].conv
    PROVE  SessInv'
<1> USE DEF SessInv
<1> DEFINE p == IF lock = "me" THEN "held" ELSE "lock"
           r == [joins[j] EXCEPT !.live = TRUE, !.pc = p]
<1>1. /\ attempt' = j
      /\ UNCHANGED <<ui, plan, transport, hangingUp, leaves, watching, downs, lock, room, row, open,
                     forgotten, followUp, sweep>>
  BY DEF V!Attempt, V!sfu
<1>2. r \in JoinState /\ r.pc = p /\ r.conv = joins[j].conv /\ r.leaves = joins[j].leaves /\ r.live = TRUE /\ r.ended = joins[j].ended
  <2>1. joins[j] \in JoinState BY DEF SessTypes
  <2> QED BY <2>1 DEF JoinState
<1>3. joins' \in [JoinRuns -> JoinState] /\ joins'[j] = r /\ \A k \in JoinRuns : k # j => joins'[k] = joins[k]
  <2>1. joins' = [joins EXCEPT ![j] = r] BY DEF V!Attempt
  <2> HIDE DEF r
  <2> QED BY <1>2, <2>1 DEF SessTypes
<1>4. p \in {"held", "lock"} /\ (p = "held" <=> lock = "me") OBVIOUS
<1>5. \A k \in JoinRuns : ~joins[k].live BY SessionAssumption DEF AttemptInv, AttemptOf
<1> HIDE DEF r, p
<1>20. SessTypes' BY SessionAssumption, <1>1, <1>2, <1>3, <1>4, <1>5 DEF SessTypes, JoinAt, JoinOver
<1>21. AttemptInv'
  BY SessionAssumption, <1>1, <1>2, <1>3, <1>4, <1>5 DEF AttemptInv, ShownInv, SessTypes, AttemptOf, ShownOf,
     RoomOf, AtLock, Shown, Busy, JoinAt, JoinOver
<1>22. ShownInv'
  BY SessionAssumption, <1>1, <1>2, <1>3, <1>4, <1>5 DEF ShownInv, AttemptInv, SessTypes, V!InCall, AttemptOf,
     ShownOf, RoomOf, AtLock, Shown, Busy, JoinAt, JoinOver
<1>23. LockInv'
  BY SessionAssumption, <1>1, <1>2, <1>3, <1>4, <1>5 DEF LockInv, ShownInv, AttemptInv, SessTypes, V!InCall,
     AttemptOf, ShownOf, RoomOf, AtLock, Shown, Busy, JoinAt, JoinOver
<1>24. RoomInv'
  BY SessionAssumption, <1>1, <1>2, <1>3, <1>4, <1>5 DEF RoomInv, ShownInv, AttemptInv, SessTypes, Drops,
     AttemptOf, ShownOf, RoomOf, AtLock, Shown, Busy, JoinAt, JoinOver
<1>25. StrayInv'
  BY SessionAssumption, <1>1, <1>2, <1>3, <1>4, <1>5 DEF StrayInv, ShownInv, AttemptInv, RoomInv, SessTypes,
     Stray, Linked, Drops, AttemptOf, ShownOf, RoomOf, AtLock, Shown, Busy, JoinAt, JoinOver
<1>26. (row \subseteq open)'
  BY SessionAssumption, <1>1, <1>2, <1>3, <1>4, <1>5 DEF RowInv, SessTypes, JoinAt, JoinOver
<1>27. (\A z \in row : Covered(z))'
  BY SessionAssumption, <1>1, <1>2, <1>3, <1>4, <1>5 DEF RowInv, Covered, Told1, Switches, Tells, RoomInv,
     AttemptInv, SessTypes, AttemptOf, ShownOf, RoomOf, AtLock, Shown, Busy, JoinAt, JoinOver
<1>28. (\A i \in JoinRuns : CountedInv(i))'
  BY SessionAssumption, <1>1, <1>2, <1>3, <1>4, <1>5 DEF RowInv, CountedInv, TakenUp, Told1, Tells, Drops, Stray,
     ShownInv, AttemptInv, RoomInv, StrayInv, Linked, SessTypes, AttemptOf, ShownOf, RoomOf, AtLock, Shown,
     Busy, JoinAt, JoinOver
<1>29. DropInv'
  BY SessionAssumption, <1>1, <1>2, <1>3, <1>4, <1>5 DEF RowInv, DropInv, Drops, RoomInv, AttemptInv, ShownInv,
     StrayInv, Stray, Linked, SessTypes, AttemptOf, ShownOf, RoomOf, AtLock, Shown, Busy, JoinAt, JoinOver
<1> QED BY <1>20, <1>21, <1>22, <1>23, <1>24, <1>25, <1>26, <1>27, <1>28, <1>29 DEF SessInv, RowInv

LEMMA LockAnswerKeeps == ASSUME SessInv, NEW j \in JoinRuns, V!LockAnswer(j) PROVE SessInv'
<1> USE DEF SessInv
<1>1. /\ joins[j].pc = "lock" /\ lock' = (IF lock = "free" THEN "me" ELSE lock) /\ lock # "me"
      /\ UNCHANGED <<ui, plan, attempt, transport, hangingUp, leaves, watching, downs, room, row, open,
                     forgotten, followUp, sweep>>
  BY DEF V!LockAnswer, V!page, V!sfu, LockInv
<1>2. JoinAt(j, IF lock = "free" THEN "held" ELSE "refused") BY JoinMoves, Places DEF V!LockAnswer
<1>3. \A k \in JoinRuns : joins[k].live <=> k = j BY <1>1, SessionAssumption DEF AttemptInv, AttemptOf, AtLock
<1>20. SessTypes' BY SessionAssumption, <1>1, <1>2, <1>3 DEF SessTypes, JoinAt, JoinOver
<1>21. AttemptInv'
  BY SessionAssumption, <1>1, <1>2, <1>3 DEF AttemptInv, ShownInv, SessTypes, AttemptOf, ShownOf, RoomOf,
     AtLock, Shown, Busy, JoinAt, JoinOver
<1>22. ShownInv'
  BY SessionAssumption, <1>1, <1>2, <1>3 DEF ShownInv, AttemptInv, SessTypes, V!InCall, AttemptOf, ShownOf,
     RoomOf, AtLock, Shown, Busy, JoinAt, JoinOver
<1>23. LockInv'
  BY SessionAssumption, <1>1, <1>2, <1>3 DEF LockInv, ShownInv, AttemptInv, SessTypes, V!InCall, AttemptOf,
     ShownOf, RoomOf, AtLock, Shown, Busy, JoinAt, JoinOver
<1>24. RoomInv'
  BY SessionAssumption, <1>1, <1>2, <1>3 DEF RoomInv, ShownInv, AttemptInv, SessTypes, Drops, AttemptOf,
     ShownOf, RoomOf, AtLock, Shown, Busy, JoinAt, JoinOver
<1>25. StrayInv'
  BY SessionAssumption, <1>1, <1>2, <1>3 DEF StrayInv, ShownInv, AttemptInv, RoomInv, SessTypes, Stray, Linked,
     Drops, AttemptOf, ShownOf, RoomOf, AtLock, Shown, Busy, JoinAt, JoinOver
<1>26. (row \subseteq open)' BY SessionAssumption, <1>1, <1>2, <1>3 DEF RowInv, SessTypes, JoinAt, JoinOver
<1>27. (\A z \in row : Covered(z))'
  BY SessionAssumption, <1>1, <1>2, <1>3 DEF RowInv, Covered, Told1, Switches, Tells, RoomInv, AttemptInv,
     SessTypes, AttemptOf, ShownOf, RoomOf, AtLock, Shown, Busy, JoinAt, JoinOver
<1>28. (\A i \in JoinRuns : CountedInv(i))'
  BY SessionAssumption, <1>1, <1>2, <1>3 DEF RowInv, CountedInv, TakenUp, Told1, Tells, Drops, Stray, ShownInv,
     AttemptInv, RoomInv, StrayInv, Linked, SessTypes, AttemptOf, ShownOf, RoomOf, AtLock, Shown, Busy, JoinAt,
     JoinOver
<1>29. DropInv'
  BY SessionAssumption, <1>1, <1>2, <1>3 DEF RowInv, DropInv, Drops, RoomInv, AttemptInv, ShownInv, StrayInv,
     Stray, Linked, SessTypes, AttemptOf, ShownOf, RoomOf, AtLock, Shown, Busy, JoinAt, JoinOver
<1> QED BY <1>20, <1>21, <1>22, <1>23, <1>24, <1>25, <1>26, <1>27, <1>28, <1>29 DEF SessInv, RowInv

LEMMA RefusedKeeps == ASSUME SessInv, NEW j \in JoinRuns, V!Refused(j) PROVE SessInv'
<1> USE DEF SessInv
<1>1. /\ joins[j].pc = "refused" /\ joins[j].live /\ attempt = j
      /\ UNCHANGED <<plan, transport, hangingUp, leaves, watching, downs, lock, room, row, open,
                     forgotten, followUp, sweep>>
  BY DEF V!Refused, V!sfu, AttemptInv, AttemptOf, AtLock
<1>2. attempt' = None /\ JoinOver(j) BY <1>1, OverMoves DEF V!Refused
<1>3. ui' \in UiState /\ ui'.phase = "elsewhere"
  <2>1. ui' = [V!Idle EXCEPT !.phase = "elsewhere"] BY <1>1 DEF V!Refused
  <2> QED BY <2>1 DEF V!Idle, UiState, V!InCall
<1>20. SessTypes' BY SessionAssumption, <1>1, <1>2, <1>3 DEF SessTypes, JoinAt, JoinOver
<1>21. AttemptInv'
  BY SessionAssumption, <1>1, <1>2, <1>3 DEF AttemptInv, ShownInv, SessTypes, AttemptOf, ShownOf, RoomOf,
     AtLock, Shown, Busy, JoinAt, JoinOver
<1>22. ShownInv'
  BY SessionAssumption, <1>1, <1>2, <1>3 DEF ShownInv, AttemptInv, SessTypes, V!InCall, AttemptOf, ShownOf,
     RoomOf, AtLock, Shown, Busy, JoinAt, JoinOver
<1>23. LockInv'
  BY SessionAssumption, <1>1, <1>2, <1>3 DEF LockInv, ShownInv, AttemptInv, SessTypes, V!InCall, AttemptOf,
     ShownOf, RoomOf, AtLock, Shown, Busy, JoinAt, JoinOver
<1>24. RoomInv'
  BY SessionAssumption, <1>1, <1>2, <1>3 DEF RoomInv, ShownInv, AttemptInv, SessTypes, Drops, AttemptOf,
     ShownOf, RoomOf, AtLock, Shown, Busy, JoinAt, JoinOver
<1>25. StrayInv'
  BY SessionAssumption, <1>1, <1>2, <1>3 DEF StrayInv, ShownInv, AttemptInv, RoomInv, SessTypes, Stray, Linked,
     Drops, AttemptOf, ShownOf, RoomOf, AtLock, Shown, Busy, JoinAt, JoinOver
<1>26. (row \subseteq open)' BY SessionAssumption, <1>1, <1>2, <1>3 DEF RowInv, SessTypes, JoinAt, JoinOver
<1>27. (\A z \in row : Covered(z))'
  BY SessionAssumption, <1>1, <1>2, <1>3 DEF RowInv, Covered, Told1, Switches, Tells, RoomInv, AttemptInv,
     SessTypes, AttemptOf, ShownOf, RoomOf, AtLock, Shown, Busy, JoinAt, JoinOver
<1>28. (\A i \in JoinRuns : CountedInv(i))'
  BY SessionAssumption, <1>1, <1>2, <1>3 DEF RowInv, CountedInv, TakenUp, Told1, Tells, Drops, Stray, ShownInv,
     AttemptInv, RoomInv, StrayInv, Linked, SessTypes, AttemptOf, ShownOf, RoomOf, AtLock, Shown, Busy, JoinAt,
     JoinOver
<1>29. DropInv'
  BY SessionAssumption, <1>1, <1>2, <1>3 DEF RowInv, DropInv, Drops, RoomInv, AttemptInv, ShownInv, StrayInv,
     Stray, Linked, SessTypes, AttemptOf, ShownOf, RoomOf, AtLock, Shown, Busy, JoinAt, JoinOver
<1> QED BY <1>20, <1>21, <1>22, <1>23, <1>24, <1>25, <1>26, <1>27, <1>28, <1>29 DEF SessInv, RowInv

LEMMA ConnectingKeeps == ASSUME SessInv, NEW j \in JoinRuns, V!Connecting(j) PROVE SessInv'
<1> USE DEF SessInv
<1>1. /\ joins[j].pc = "held" /\ joins[j].live /\ attempt = j /\ joins[j].conv \in Conv
      /\ hangingUp' = FALSE /\ plan' = joins[j].conv
      /\ UNCHANGED <<attempt, transport, leaves, watching, downs, lock, room, row, open, forgotten,
                     followUp, sweep>>
  BY DEF V!Connecting, V!sfu, AttemptInv, AttemptOf, AtLock
<1>2. JoinAt(j, "obtain") BY <1>1, JoinMoves, Places DEF V!Connecting
<1>3. ui' \in UiState /\ ui'.phase = "connecting" /\ ui'.conv = joins[j].conv /\ ui'.call = None
  <2>1. joins[j] \in JoinState BY DEF SessTypes
  <2>2. ui' = [phase |-> "connecting", conv |-> joins[j].conv, call |-> None, override |-> joins[j].override]
    BY <1>1 DEF V!Connecting
  <2> QED BY <2>1, <2>2 DEF JoinState, UiState, V!InCall
<1>4. \A k \in JoinRuns : joins[k].live <=> k = j BY <1>1, SessionAssumption DEF AttemptInv, AttemptOf
<1>5. (\A d \in Downs : ~Busy(d)) /\ \A k \in JoinRuns : joins[k].pc \notin {"switch", "out"}
  BY <1>1, SessionAssumption DEF AttemptInv, AttemptOf
<1>6. \A k \in JoinRuns : Stray(k)' <=> Stray(k) BY <1>1, <1>2 DEF Stray, JoinAt
<1>7. \A k \in JoinRuns : Linked(k)' <=> Linked(k) BY <1>1, <1>2, <1>6 DEF Linked, Drops, JoinAt
<1>21. AttemptInv'
  <2>1. ASSUME NEW i \in JoinRuns PROVE AttemptOf(i)'
    <3>1. AttemptOf(i) BY DEF AttemptInv
    <3>2. CASE i = j BY <1>1, <1>2, <1>5, <3>1, <3>2 DEF AttemptOf, AtLock, Shown, JoinAt
    <3>3. CASE i # j BY <1>1, <1>2, <1>4, <1>5, <3>1, <3>3 DEF AttemptOf, AtLock, Shown, JoinAt
    <3> QED BY <3>2, <3>3
  <2>2. \A d \in Downs : ~Busy(d)' BY <1>1, <1>5 DEF Busy
  <2> QED BY <2>1, <2>2 DEF AttemptInv
<1>22. ShownInv'
  <2>1. ASSUME NEW i \in JoinRuns PROVE ShownOf(i)'
    <3>1. ShownOf(i) /\ ShownOf(j) BY DEF ShownInv
    <3>2. CASE i = j BY <1>1, <1>2, <1>3, <3>1, <3>2, SessionAssumption DEF ShownOf, AtLock, Shown, JoinAt, V!InCall
    <3>3. CASE i # j BY <1>1, <1>2, <1>3, <1>4, <3>1, <3>3, SessionAssumption DEF ShownOf, AtLock, Shown, JoinAt
    <3> QED BY <3>2, <3>3
  <2>2. joins'[j].live /\ Shown(j)' BY <1>1, <1>2 DEF JoinAt, Shown
  <2> QED BY <2>1, <2>2 DEF ShownInv
<1>20. SessTypes' BY SessionAssumption, <1>1, <1>2, <1>3, <1>4, <1>5, <1>6, <1>7 DEF SessTypes, JoinAt, JoinOver
<1>23. LockInv'
  BY SessionAssumption, <1>1, <1>2, <1>3, <1>4, <1>5, <1>6, <1>7 DEF LockInv, ShownInv, AttemptInv, SessTypes,
     V!InCall, AttemptOf, ShownOf, RoomOf, AtLock, Shown, Busy, JoinAt, JoinOver
<1>24. RoomInv'
  BY SessionAssumption, <1>1, <1>2, <1>3, <1>4, <1>5, <1>6, <1>7 DEF RoomInv, ShownInv, AttemptInv, SessTypes,
     Drops, AttemptOf, ShownOf, RoomOf, AtLock, Shown, Busy, JoinAt, JoinOver
<1>25. StrayInv'
  BY SessionAssumption, <1>1, <1>2, <1>3, <1>4, <1>5, <1>6, <1>7 DEF StrayInv, ShownInv, AttemptInv, RoomInv,
     SessTypes, Stray, Linked, Drops, AttemptOf, ShownOf, RoomOf, AtLock, Shown, Busy, JoinAt, JoinOver
<1>26. (row \subseteq open)'
  BY SessionAssumption, <1>1, <1>2, <1>3, <1>4, <1>5, <1>6, <1>7 DEF RowInv, SessTypes, JoinAt, JoinOver
<1>27. (\A z \in row : Covered(z))'
  BY SessionAssumption, <1>1, <1>2, <1>3, <1>4, <1>5, <1>6, <1>7 DEF RowInv, Covered, Told1, Switches, Tells,
     RoomInv, AttemptInv, SessTypes, AttemptOf, ShownOf, RoomOf, AtLock, Shown, Busy, JoinAt, JoinOver
<1>28. (\A i \in JoinRuns : CountedInv(i))'
  BY SessionAssumption, <1>1, <1>2, <1>3, <1>4, <1>5, <1>6, <1>7 DEF RowInv, CountedInv, TakenUp, Told1, Tells, Drops,
     Stray, ShownInv, AttemptInv, RoomInv, StrayInv, Linked, SessTypes, AttemptOf, ShownOf, RoomOf, AtLock,
     Shown, Busy, JoinAt, JoinOver
<1>29. DropInv'
  BY SessionAssumption, <1>1, <1>2, <1>3, <1>4, <1>5, <1>6, <1>7 DEF RowInv, DropInv, Drops, RoomInv,
     AttemptInv, ShownInv, StrayInv, Stray, Linked, SessTypes, AttemptOf, ShownOf, RoomOf, AtLock, Shown, Busy,
     JoinAt, JoinOver
<1> QED BY <1>20, <1>21, <1>22, <1>23, <1>24, <1>25, <1>26, <1>27, <1>28, <1>29 DEF SessInv, RowInv

\* What a step that starts and ends no teardown leaves as it is.
LEMMA AttemptMoves ==
    ASSUME SessTypes, AttemptInv, NEW j \in JoinRuns, NEW p, JoinAt(j, p), p \notin {"switch", "out", "unused"},
           joins[j].live => p \in {"lock", "held", "refused", "obtain", "key", "connect", "mic"},
           p \in {"lock", "held", "refused"} => joins[j].live, joins[j].pc # "unused",
           UNCHANGED <<attempt, leaves, downs>>, joins[j].live \/ UNCHANGED <<transport, watching>>
    PROVE  AttemptInv'
<1>1. ASSUME NEW i \in JoinRuns PROVE AttemptOf(i)'
  <2>1. AttemptOf(i) /\ AttemptOf(j) /\ joins[i].leaves \in Nat BY DEF AttemptInv, SessTypes, JoinState
  <2>2. joins[i].pc \in {"switch", "out"} => ~joins[j].live BY <2>1, SessionAssumption DEF AttemptOf
  <2>3. CASE i = j BY <2>1, <2>3 DEF AttemptOf, AtLock, Shown, JoinAt, SessTypes
  <2>4. CASE i # j BY <2>1, <2>2, <2>4 DEF AttemptOf, AtLock, Shown, JoinAt, Busy
  <2> QED BY <2>3, <2>4
<1>2. (\E d \in Downs : Busy(d)) => ~joins[j].live BY SessionAssumption DEF AttemptInv, AttemptOf
<1> QED BY <1>1, <1>2 DEF AttemptInv, Busy

LEMMA CoverStays ==
    ASSUME NEW z, Covered(z), UNCHANGED <<downs, forgotten>>, z \in sweep => z \in sweep',
           followUp' = followUp \/ z \notin forgotten \/ followUp # z,
           \A k \in JoinRuns : /\ joins'[k].conv = joins[k].conv
                               /\ joins[k].pc = "abandon" /\ joins[k].conv = z => joins'[k].pc = "abandon"
                               /\ room[k] \in {"closed", "ended"} => room'[k] \in {"closed", "ended"},
           \A d \in Downs : downs[d].pc = "disconnect" => downs[d].transport \in JoinRuns,
           watching \in JoinRuns => watching' = watching, watching \in JoinRuns \cup {None}
    PROVE  Covered(z)'
<1>1. Told1(z) => Told1(z)' BY DEF Told1, Tells, Busy
<1>2. Switches(z) => Switches(z)' BY DEF Switches
<1> QED BY <1>1, <1>2 DEF Covered

LEMMA CountedStays ==
    ASSUME NEW i \in JoinRuns, CountedInv(i), joins'[i] = joins[i], room'[i] = room[i], watching' = i => watching = i,
           UNCHANGED <<downs, forgotten, open>>, followUp' \in {followUp, None}, None \notin Conv,
                       joins[i].conv \in Conv \cup {None},
           joins[i].conv \in row' <=> joins[i].conv \in row, joins[i].conv \in sweep => joins[i].conv \in sweep',
           open \subseteq Conv
    PROVE  CountedInv(i)'
<1>1. Told1(joins[i].conv) => Told1(joins[i].conv)' BY DEF Told1, Tells, Busy
<1>2. Stray(i)' <=> Stray(i) BY DEF Stray
<1> QED BY <1>1, <1>2 DEF CountedInv, TakenUp, Drops

\* A live join is the only one, and what else there is was not shown.
LEMMA AliveIs ==
    ASSUME SessInv, NEW j \in JoinRuns, joins[j].live
    PROVE  /\ attempt = j /\ (\A d \in Downs : ~Busy(d)) /\ joins[j].conv \in Conv
           /\ \A k \in JoinRuns : /\ joins[k].live <=> k = j
                                  /\ joins[k].pc \notin {"switch", "out"}
                                  /\ k # j => transport # k /\ watching # k
<1>1. attempt = j BY DEF SessInv, AttemptInv, AttemptOf
<1>2. \A d \in Downs : ~Busy(d) BY <1>1, SessionAssumption DEF SessInv, AttemptInv
<1>3. \A k \in JoinRuns : joins[k].live <=> k = j BY <1>1 DEF SessInv, AttemptInv, AttemptOf
<1>4. \A k \in JoinRuns : joins[k].pc \notin {"switch", "out"}
  BY <1>1, SessionAssumption DEF SessInv, AttemptInv, AttemptOf
<1>5. ASSUME NEW k \in JoinRuns, k # j PROVE transport # k /\ watching # k
  <2>1. ShownOf(k) BY DEF SessInv, ShownInv
  <2> QED BY <1>1, <1>3, <1>5, <2>1, SessionAssumption DEF ShownOf
<1>6. joins[j].conv \in Conv BY DEF SessInv, AttemptInv, AttemptOf, AtLock, Shown
<1> QED BY <1>1, <1>2, <1>3, <1>4, <1>5, <1>6

\* It goes on, and what is shown is its own.
LEMMA ShownMoves ==
    ASSUME SessInv, NEW j \in JoinRuns, NEW p, JoinAt(j, p), joins[j].live, UNCHANGED <<attempt, open>>,
           transport' \in {None, j}, watching' \in {None, j}, ShownOf(j)', p \in {"obtain", "key", "connect", "mic"}
    PROVE  ShownInv'
<1>1. ASSUME NEW i \in JoinRuns, i # j PROVE ShownOf(i)'
  <2>1. ShownOf(i) /\ ~joins[i].live BY <1>1, AliveIs DEF SessInv, ShownInv
  <2>2. joins'[i] = joins[i] /\ transport' # i /\ watching' # i BY <1>1, SessionAssumption DEF JoinAt
  <2> QED BY <2>1, <2>2 DEF ShownOf, Shown, AtLock
<1>2. joins'[j].live /\ Shown(j)' BY DEF JoinAt, Shown
<1> QED BY <1>1, <1>2 DEF ShownInv

\* Whatever stray join runs beside a join is of another conversation.
LEMMA StraysElsewhere ==
    ASSUME SessInv, NEW j \in JoinRuns, Linked(j)
    PROVE  \A k \in JoinRuns : k # j /\ Stray(k) => joins[k].conv # joins[j].conv
BY DEF SessInv, StrayInv

LEMMA AdmittedKeeps == ASSUME SessInv, NEW j \in JoinRuns, V!Admitted(j) PROVE SessInv'
<1> USE DEF SessInv
<1> DEFINE c == joins[j].conv
<1>1. /\ joins[j].pc = "obtain" /\ c \in open /\ c \in Conv /\ row' = row \cup {c} /\ sweep' = sweep \ {c} /\ room[j] = "none"
      /\ UNCHANGED <<plan, attempt, hangingUp, leaves, downs, lock, open, forgotten, followUp>>
  BY DEF V!Admitted, V!sfu, SessTypes, RoomInv, RoomOf
<1>2. \A k \in JoinRuns : k # j /\ Stray(k) => joins[k].conv # c
  <2>1. Linked(j) BY <1>1 DEF Linked, Stray
  <2> QED BY <2>1, StraysElsewhere
<1>3. row' \subseteq Conv /\ row' \subseteq open /\ (\A z \in row : z \in row') /\ (\A z \in row' : z \in row \/ z = c) /\ c \in row'
      /\ sweep' \subseteq sweep /\ \A z \in sweep : z # c => z \in sweep'
  BY <1>1 DEF SessTypes, RowInv
<1>4. CASE joins[j].live
  <2>1. /\ attempt = j /\ transport = None /\ watching = None /\ watching' = j /\ ui.conv = c /\ ui.phase = "connecting"
        /\ \A d \in Downs : ~Busy(d)
        /\ \A k \in JoinRuns : joins[k].live <=> k = j
        /\ \A k \in JoinRuns : joins[k].pc \notin {"switch", "out"}
    BY <1>1, <1>4, SessionAssumption DEF V!Admitted, ShownInv, ShownOf, AttemptInv, AttemptOf, Shown
  <2>2. ui' \in UiState /\ ui'.phase = "connecting" /\ ui'.conv = c /\ ui'.call = c
    <3>1. ui \in UiState /\ ui' = [ui EXCEPT !.call = c] BY <1>4 DEF V!Admitted, SessTypes
    <3> QED BY <1>1, <2>1, <3>1 DEF UiState
  <2>3. ASSUME JoinAt(j, "key") \/ JoinAt(j, "connect"), room'[j] = IF joins'[j].pc = "connect" THEN "connecting" ELSE "none",
               transport' = IF joins'[j].pc = "connect" THEN j ELSE None, \A k \in JoinRuns : k # j => room'[k] = room[k],
               room' \in [JoinRuns -> {"none", "connecting", "open", "closed", "ended", "left"}]
        PROVE  SessInv'
    <3> HIDE DEF c
    <3> DEFINE p == joins'[j].pc
    <3>1. p \in {"key", "connect"} /\ JoinAt(j, p) BY <2>3 DEF JoinAt
    <3>21. AttemptInv' BY <1>1, <1>4, <3>1, AttemptMoves
    <3>3. ShownOf(j)'
      BY <1>1, <1>4, <2>1, <2>2, <2>3, SessionAssumption DEF ShownOf, AtLock, Shown, JoinAt, V!InCall, c, ShownInv
    <3>22. ShownInv' BY <1>1, <1>4, <2>1, <2>3, <3>1, <3>3, ShownMoves
    <3>27. ASSUME NEW z \in row' PROVE Covered(z)'
      <4>1. CASE z = c BY <2>1, <2>3, <4>1, SessionAssumption DEF Covered, JoinAt, c
      <4>2. CASE z # c
        <5>1. Covered(z) BY <1>3, <4>2 DEF RowInv
        <5>2. \A d \in Downs : downs[d].pc = "disconnect" => downs[d].transport \in JoinRuns BY DEF RoomInv
        <5>3. \A k \in JoinRuns :
                /\ joins'[k].conv = joins[k].conv
                /\ joins[k].pc = "abandon" => joins'[k].pc = "abandon"
                /\ room[k] \in {"closed", "ended"} => room'[k] \in {"closed", "ended"}
          BY <1>1, <2>3 DEF JoinAt
        <5> QED BY <1>1, <1>3, <2>1, <4>2, <5>1, <5>2, <5>3, CoverStays, SessionAssumption
      <4> QED BY <4>1, <4>2
    <3>28. ASSUME NEW i \in JoinRuns PROVE CountedInv(i)'
      <4>1. CASE i = j
        <5>1. ~Stray(j)' /\ room'[j] # "open" BY <1>4, <2>3, <3>1 DEF Stray, JoinAt
        <5>2. joins'[j].conv \in row' BY <1>3, <3>1 DEF JoinAt, c
        <5> QED BY <4>1, <5>1, <5>2 DEF CountedInv
      <4>2. CASE i # j
        <5>1. CASE joins[i].conv # c
          <6>1. CountedInv(i) /\ joins[i].conv \in Conv \cup {None} /\ open \subseteq Conv
            BY DEF RowInv, SessTypes, JoinState
          <6> QED BY <1>1, <1>3, <2>1, <2>3, <3>1, <4>2, <5>1, <6>1, CountedStays, SessionAssumption DEF JoinAt
        <5>2. CASE joins[i].conv = c
          <6>1. ~Stray(i)' BY <1>2, <3>1, <4>2, <5>2 DEF Stray, JoinAt
          <6> QED BY <2>1, <4>2, <6>1 DEF CountedInv
        <5> QED BY <5>1, <5>2
      <4> QED BY <4>1, <4>2
    <3>20. SessTypes'
      BY SessionAssumption, <1>1, <1>2, <1>3, <1>4, <2>1, <2>2, <2>3, <3>1 DEF SessTypes, JoinAt, JoinOver
    <3>23. LockInv'
      BY SessionAssumption, <1>1, <1>2, <1>3, <1>4, <2>1, <2>2, <2>3, <3>1 DEF LockInv, ShownInv, AttemptInv,
         SessTypes, V!InCall, AttemptOf, ShownOf, RoomOf, AtLock, Shown, Busy, JoinAt, JoinOver
    <3>24. RoomInv'
      BY SessionAssumption, <1>1, <1>2, <1>3, <1>4, <2>1, <2>2, <2>3, <3>1 DEF RoomInv, ShownInv, AttemptInv,
         SessTypes, Drops, AttemptOf, ShownOf, RoomOf, AtLock, Shown, Busy, JoinAt, JoinOver
    <3>25. StrayInv'
      BY SessionAssumption, <1>1, <1>2, <1>3, <1>4, <2>1, <2>2, <2>3, <3>1 DEF StrayInv, ShownInv, AttemptInv,
         RoomInv, SessTypes, Stray, Linked, Drops, AttemptOf, ShownOf, RoomOf, AtLock, Shown, Busy, JoinAt,
         JoinOver
    <3>26. (row \subseteq open)'
      BY SessionAssumption, <1>1, <1>2, <1>3, <1>4, <2>1, <2>2, <2>3, <3>1 DEF RowInv, SessTypes, JoinAt, JoinOver
    <3>29. DropInv'
      BY SessionAssumption, <1>1, <1>2, <1>3, <1>4, <2>1, <2>2, <2>3, <3>1 DEF RowInv, DropInv, Drops, RoomInv,
         AttemptInv, ShownInv, StrayInv, Stray, Linked, SessTypes, AttemptOf, ShownOf, RoomOf, AtLock, Shown,
         Busy, JoinAt, JoinOver
    <3> QED BY <3>20, <3>21, <3>22, <3>23, <3>24, <3>25, <3>26, <3>27, <3>28, <3>29 DEF SessInv, RowInv
  <2>4. CASE c \in Sealed
    <3>1. JoinAt(j, "key") /\ UNCHANGED <<transport, room>> BY <1>4, <2>4, JoinMoves, Places DEF V!Admitted
    <3> QED BY <1>1, <2>1, <2>3, <3>1 DEF JoinAt, SessTypes
  <2>5. CASE c \notin Sealed
    <3>1. JoinAt(j, "connect") /\ transport' = j /\ room' = [room EXCEPT ![j] = "connecting"]
      BY <1>4, <2>5, JoinMoves, Places DEF V!Admitted, V!Dial
    <3> QED BY <1>1, <2>1, <2>3, <3>1 DEF JoinAt, SessTypes
  <2> QED BY <2>4, <2>5
<1>5. CASE ~joins[j].live
  <2>1. Stray(j) /\ joins[j].tell BY <1>1, <1>5 DEF Stray, StrayInv
  <2>2. JoinAt(j, "abandon") /\ UNCHANGED <<ui, watching, transport, room>>
    BY <1>5, <2>1, JoinMoves, Places DEF V!Admitted
  <2> HIDE DEF c
  <2>27. ASSUME NEW z \in row' PROVE Covered(z)'
    <3>1. CASE z = c BY <2>2, <3>1 DEF Covered, JoinAt, c
    <3>2. CASE z # c
      <4>1. Covered(z) /\ watching \in JoinRuns \cup {None} BY <1>3, <3>2 DEF RowInv, SessTypes
      <4>2. \A d \in Downs : downs[d].pc = "disconnect" => downs[d].transport \in JoinRuns BY DEF RoomInv
      <4>3. \A k \in JoinRuns : joins'[k].conv = joins[k].conv /\ (joins[k].pc = "abandon" => joins'[k].pc = "abandon")
        BY <1>1, <2>2 DEF JoinAt
      <4> QED BY <1>1, <1>3, <2>2, <3>2, <4>1, <4>2, <4>3, CoverStays
    <3> QED BY <3>1, <3>2
  <2>20. SessTypes' BY SessionAssumption, <1>1, <1>2, <1>3, <1>5, <2>1, <2>2 DEF SessTypes, JoinAt, JoinOver
  <2>21. AttemptInv'
    BY SessionAssumption, <1>1, <1>2, <1>3, <1>5, <2>1, <2>2 DEF AttemptInv, ShownInv, SessTypes, AttemptOf,
       ShownOf, RoomOf, AtLock, Shown, Busy, JoinAt, JoinOver
  <2>22. ShownInv'
    BY SessionAssumption, <1>1, <1>2, <1>3, <1>5, <2>1, <2>2 DEF ShownInv, AttemptInv, SessTypes, V!InCall,
       AttemptOf, ShownOf, RoomOf, AtLock, Shown, Busy, JoinAt, JoinOver
  <2>23. LockInv'
    BY SessionAssumption, <1>1, <1>2, <1>3, <1>5, <2>1, <2>2 DEF LockInv, ShownInv, AttemptInv, SessTypes,
       V!InCall, AttemptOf, ShownOf, RoomOf, AtLock, Shown, Busy, JoinAt, JoinOver
  <2>24. RoomInv'
    BY SessionAssumption, <1>1, <1>2, <1>3, <1>5, <2>1, <2>2 DEF RoomInv, ShownInv, AttemptInv, SessTypes,
       Drops, AttemptOf, ShownOf, RoomOf, AtLock, Shown, Busy, JoinAt, JoinOver
  <2>25. StrayInv'
    BY SessionAssumption, <1>1, <1>2, <1>3, <1>5, <2>1, <2>2 DEF StrayInv, ShownInv, AttemptInv, RoomInv,
       SessTypes, Stray, Linked, Drops, AttemptOf, ShownOf, RoomOf, AtLock, Shown, Busy, JoinAt, JoinOver
  <2>26. (row \subseteq open)'
    BY SessionAssumption, <1>1, <1>2, <1>3, <1>5, <2>1, <2>2 DEF RowInv, SessTypes, JoinAt, JoinOver
  <2>28. (\A i \in JoinRuns : CountedInv(i))'
    BY SessionAssumption, <1>1, <1>2, <1>3, <1>5, <2>1, <2>2 DEF RowInv, CountedInv, TakenUp, Told1, Tells, Drops,
       Stray, ShownInv, AttemptInv, RoomInv, StrayInv, Linked, SessTypes, AttemptOf, ShownOf, RoomOf, AtLock,
       Shown, Busy, JoinAt, JoinOver
  <2>29. DropInv'
    BY SessionAssumption, <1>1, <1>2, <1>3, <1>5, <2>1, <2>2 DEF RowInv, DropInv, Drops, RoomInv, AttemptInv,
       ShownInv, StrayInv, Stray, Linked, SessTypes, AttemptOf, ShownOf, RoomOf, AtLock, Shown, Busy, JoinAt,
       JoinOver
  <2> QED BY <2>20, <2>21, <2>22, <2>23, <2>24, <2>25, <2>26, <2>27, <2>28, <2>29 DEF SessInv, RowInv
<1> QED BY <1>4, <1>5

LEMMA KeyDerivedKeeps == ASSUME SessInv, NEW j \in JoinRuns, V!KeyDerived(j) PROVE SessInv'
<1> USE DEF SessInv
<1>1. CASE ~joins[j].live /\ V!GiveUp(j) BY <1>1, GiveUpIs, OverKeeps DEF V!KeyDerived
<1>2. CASE joins[j].live /\ V!Dial(j, joins)
  <2>1. /\ joins[j].pc = "key" /\ attempt = j /\ watching = j /\ transport' = j
        /\ \A d \in Downs : ~Busy(d)
        /\ \A k \in JoinRuns : joins[k].live <=> k = j
        /\ \A k \in JoinRuns : joins[k].pc \notin {"switch", "out"}
    BY <1>2, SessionAssumption DEF V!KeyDerived, V!Dial, ShownInv, ShownOf, AttemptInv, AttemptOf
  <2>2. UNCHANGED <<ui, plan, attempt, hangingUp, leaves, watching, downs, lock, row, open, forgotten,
                    followUp, sweep>>
    BY <1>2 DEF V!KeyDerived, V!sfu
  <2>3. JoinAt(j, "connect") BY <1>2, JoinMoves, Places DEF V!Dial
  <2>4. /\ room' \in [JoinRuns -> {"none", "connecting", "open", "closed", "ended", "left"}] /\ room'[j] = "connecting"
        /\ \A k \in JoinRuns : k # j => room'[k] = room[k]
    BY <1>2 DEF V!Dial, SessTypes
  <2>21. AttemptInv' BY <1>2, <2>1, <2>2, <2>3, AttemptMoves
  <2>22. ShownInv'
    <3>1. ShownOf(j)' BY <1>2, <2>1, <2>2, <2>3, SessionAssumption DEF ShownOf, AtLock, Shown, JoinAt, ShownInv
    <3> QED BY <1>2, <2>1, <2>2, <2>3, <3>1, ShownMoves
  <2>28. ASSUME NEW i \in JoinRuns PROVE CountedInv(i)'
    <3>1. CountedInv(i) /\ CountedInv(j) /\ joins[i].conv \in Conv \cup {None} /\ open \subseteq Conv
      BY DEF RowInv, SessTypes, JoinState
    <3>2. CASE i = j BY <1>2, <2>1, <2>2, <2>3, <2>4, <3>1, <3>2 DEF CountedInv, Stray, JoinAt
    <3>3. CASE i # j BY <2>1, <2>2, <2>3, <2>4, <3>1, <3>3, CountedStays, SessionAssumption DEF JoinAt
    <3> QED BY <3>2, <3>3
  <2>20. SessTypes' BY SessionAssumption, <1>2, <2>1, <2>2, <2>3, <2>4 DEF SessTypes, JoinAt, JoinOver
  <2>23. LockInv'
    BY SessionAssumption, <1>2, <2>1, <2>2, <2>3, <2>4 DEF LockInv, ShownInv, AttemptInv, SessTypes, V!InCall,
       AttemptOf, ShownOf, RoomOf, AtLock, Shown, Busy, JoinAt, JoinOver
  <2>24. RoomInv'
    BY SessionAssumption, <1>2, <2>1, <2>2, <2>3, <2>4 DEF RoomInv, ShownInv, AttemptInv, SessTypes, Drops,
       AttemptOf, ShownOf, RoomOf, AtLock, Shown, Busy, JoinAt, JoinOver
  <2>25. StrayInv'
    BY SessionAssumption, <1>2, <2>1, <2>2, <2>3, <2>4 DEF StrayInv, ShownInv, AttemptInv, RoomInv, SessTypes,
       Stray, Linked, Drops, AttemptOf, ShownOf, RoomOf, AtLock, Shown, Busy, JoinAt, JoinOver
  <2>26. (row \subseteq open)'
    BY SessionAssumption, <1>2, <2>1, <2>2, <2>3, <2>4 DEF RowInv, SessTypes, JoinAt, JoinOver
  <2>27. (\A z \in row : Covered(z))'
    BY SessionAssumption, <1>2, <2>1, <2>2, <2>3, <2>4 DEF RowInv, Covered, Told1, Switches, Tells, RoomInv,
       AttemptInv, SessTypes, AttemptOf, ShownOf, RoomOf, AtLock, Shown, Busy, JoinAt, JoinOver
  <2>29. DropInv'
    BY SessionAssumption, <1>2, <2>1, <2>2, <2>3, <2>4 DEF RowInv, DropInv, Drops, RoomInv, AttemptInv,
       ShownInv, StrayInv, Stray, Linked, SessTypes, AttemptOf, ShownOf, RoomOf, AtLock, Shown, Busy, JoinAt,
       JoinOver
  <2> QED BY <2>20, <2>21, <2>22, <2>23, <2>24, <2>25, <2>26, <2>27, <2>28, <2>29 DEF SessInv, RowInv
<1> QED BY <1>1, <1>2 DEF V!KeyDerived

LEMMA AbandonedKeeps == ASSUME SessInv, NEW j \in JoinRuns, V!Abandoned(j) PROVE SessInv'
<1> USE DEF SessInv
<1>1. joins[j].pc = "abandon" /\ ~joins[j].live BY DEF V!Abandoned, AttemptInv, AttemptOf, AtLock, Shown
<1>2. JoinOver(j) BY OverMoves DEF V!Abandoned
<1>3. \/ row' = row \ {joins[j].conv} /\ sweep' = sweep
      \/ IsLost(j)
  BY <1>1 DEF V!Abandoned, IsLost
<1> QED BY <1>1, <1>2, <1>3, OverKeeps DEF V!Abandoned, V!page

LEMMA ConnectedKeeps == ASSUME SessInv, NEW j \in JoinRuns, V!Connected(j) PROVE SessInv'
<1> USE DEF SessInv
<1>1. /\ joins[j].pc = "connect" /\ joins[j].conv \notin forgotten /\ room[j] = "connecting"
      /\ UNCHANGED <<plan, attempt, transport, hangingUp, leaves, watching, downs, lock, row, open,
                     forgotten, sweep>>
  BY DEF V!Connected, RoomInv, RoomOf
<1>2. /\ room' \in [JoinRuns -> {"none", "connecting", "open", "closed", "ended", "left"}] /\ room'[j] = "open"
      /\ \A k \in JoinRuns : k # j => room'[k] = room[k]
  BY DEF V!Connected, SessTypes
<1>3. \A d \in Downs : downs[d].pc = "disconnect" => downs[d].transport \in JoinRuns BY DEF RoomInv
<1>4. CASE joins[j].live
  <2>1. ui' \in UiState /\ ui'.phase = "connected" /\ ui'.conv = ui.conv /\ ui'.call = ui.call
    <3>1. ui \in UiState /\ ui' = [ui EXCEPT !.phase = "connected"] BY <1>4 DEF V!Connected, SessTypes
    <3> QED BY <3>1 DEF UiState, V!InCall
  <2>2. JoinAt(j, "mic") /\ followUp' = (IF followUp = joins[j].conv THEN None ELSE followUp)
    BY <1>4, JoinMoves, Places DEF V!Connected
  <2>3. transport = j /\ watching = j BY <1>1, <1>4 DEF ShownInv, ShownOf
  <2>4. /\ attempt = j /\ joins[j].conv \in Conv /\ \A d \in Downs : ~Busy(d)
        /\ \A k \in JoinRuns : joins[k].live <=> k = j
    BY <1>4, AliveIs
  <2>21. AttemptInv' BY <1>1, <1>4, <2>2, AttemptMoves
  <2>22. ShownInv'
    <3>1. ShownOf(j)'
      BY <1>1, <1>4, <2>1, <2>2, <2>3, SessionAssumption DEF ShownOf, AtLock, Shown, JoinAt, ShownInv, V!InCall
    <3> QED BY <1>1, <1>4, <2>2, <2>3, <3>1, ShownMoves
  <2>27. ASSUME NEW z \in row' PROVE Covered(z)'
    <3>1. Covered(z) /\ watching \in JoinRuns \cup {None} BY <1>1 DEF RowInv, SessTypes
    <3>2. followUp' = followUp \/ z \notin forgotten \/ followUp # z BY <1>1, <2>2
    <3>3. \A k \in JoinRuns : joins'[k].conv = joins[k].conv /\ (joins[k].pc = "abandon" => joins'[k].pc = "abandon")
      BY <1>1, <2>2 DEF JoinAt
    <3>4. \A k \in JoinRuns : room[k] \in {"closed", "ended"} => room'[k] \in {"closed", "ended"} BY <1>1, <1>2
    <3> QED BY <1>1, <1>3, <3>1, <3>2, <3>3, <3>4, CoverStays
  <2>28. ASSUME NEW i \in JoinRuns PROVE CountedInv(i)'
    <3>1. CountedInv(i) /\ CountedInv(j) /\ joins[i].conv \in Conv \cup {None} /\ open \subseteq Conv
      BY DEF RowInv, SessTypes, JoinState
    <3>2. CASE i = j
      BY <1>1, <1>2, <2>2, <2>3, <1>4, <2>4, <3>1, <3>2, SessionAssumption DEF CountedInv, Stray, JoinAt
    <3>3. CASE i # j BY <1>1, <1>2, <2>2, <2>3, <3>1, <3>3, CountedStays, SessionAssumption DEF JoinAt
    <3> QED BY <3>2, <3>3
  <2>20. SessTypes'
    BY SessionAssumption, <1>1, <1>2, <1>3, <1>4, <2>1, <2>2, <2>3, <2>4 DEF SessTypes, JoinAt, JoinOver
  <2>23. LockInv'
    BY SessionAssumption, <1>1, <1>2, <1>3, <1>4, <2>1, <2>2, <2>3, <2>4 DEF LockInv, ShownInv, AttemptInv,
       SessTypes, V!InCall, AttemptOf, ShownOf, RoomOf, AtLock, Shown, Busy, JoinAt, JoinOver
  <2>24. RoomInv'
    BY SessionAssumption, <1>1, <1>2, <1>3, <1>4, <2>1, <2>2, <2>3, <2>4 DEF RoomInv, ShownInv, AttemptInv,
       SessTypes, Drops, AttemptOf, ShownOf, RoomOf, AtLock, Shown, Busy, JoinAt, JoinOver
  <2>25. StrayInv'
    BY SessionAssumption, <1>1, <1>2, <1>3, <1>4, <2>1, <2>2, <2>3, <2>4 DEF StrayInv, ShownInv, AttemptInv,
       RoomInv, SessTypes, Stray, Linked, Drops, AttemptOf, ShownOf, RoomOf, AtLock, Shown, Busy, JoinAt,
       JoinOver
  <2>26. (row \subseteq open)'
    BY SessionAssumption, <1>1, <1>2, <1>3, <1>4, <2>1, <2>2, <2>3, <2>4 DEF RowInv, SessTypes, JoinAt, JoinOver
  <2>29. DropInv'
    BY SessionAssumption, <1>1, <1>2, <1>3, <1>4, <2>1, <2>2, <2>3, <2>4 DEF RowInv, DropInv, Drops, RoomInv,
       AttemptInv, ShownInv, StrayInv, Stray, Linked, SessTypes, AttemptOf, ShownOf, RoomOf, AtLock, Shown,
       Busy, JoinAt, JoinOver
  <2> QED BY <2>20, <2>21, <2>22, <2>23, <2>24, <2>25, <2>26, <2>27, <2>28, <2>29 DEF SessInv, RowInv
<1>5. CASE ~joins[j].live
  <2>1. JoinAt(j, "close") /\ UNCHANGED <<ui, followUp>> BY <1>5, JoinMoves, Places DEF V!Connected
  <2>2. watching # j /\ transport # j BY <1>1, <1>5 DEF ShownInv, ShownOf
  <2>21. AttemptInv' BY <1>1, <1>5, <2>1, AttemptMoves
  <2>27. ASSUME NEW z \in row' PROVE Covered(z)'
    <3>1. Covered(z) /\ watching \in JoinRuns \cup {None} BY <1>1 DEF RowInv, SessTypes
    <3>3. \A k \in JoinRuns : joins'[k].conv = joins[k].conv /\ (joins[k].pc = "abandon" => joins'[k].pc = "abandon")
      BY <1>1, <2>1 DEF JoinAt
    <3>4. \A k \in JoinRuns : room[k] \in {"closed", "ended"} => room'[k] \in {"closed", "ended"} BY <1>1, <1>2
    <3> QED BY <1>1, <1>3, <2>1, <3>1, <3>3, <3>4, CoverStays
  <2>28. ASSUME NEW i \in JoinRuns PROVE CountedInv(i)'
    <3>1. CountedInv(i) /\ CountedInv(j) /\ joins[i].conv \in Conv \cup {None} /\ open \subseteq Conv
      BY DEF RowInv, SessTypes, JoinState
    <3>2. CASE i = j BY <1>1, <1>5, <2>1, <2>2, <3>1, <3>2 DEF CountedInv, TakenUp, Stray, JoinAt, Told1, Tells, Busy
    <3>3. CASE i # j BY <1>1, <1>2, <2>1, <3>1, <3>3, CountedStays, SessionAssumption DEF JoinAt
    <3> QED BY <3>2, <3>3
  <2>20. SessTypes' BY SessionAssumption, <1>1, <1>2, <1>3, <1>5, <2>1, <2>2 DEF SessTypes, JoinAt, JoinOver
  <2>22. ShownInv'
    BY SessionAssumption, <1>1, <1>2, <1>3, <1>5, <2>1, <2>2 DEF ShownInv, AttemptInv, SessTypes, V!InCall,
       AttemptOf, ShownOf, RoomOf, AtLock, Shown, Busy, JoinAt, JoinOver
  <2>23. LockInv'
    BY SessionAssumption, <1>1, <1>2, <1>3, <1>5, <2>1, <2>2 DEF LockInv, ShownInv, AttemptInv, SessTypes,
       V!InCall, AttemptOf, ShownOf, RoomOf, AtLock, Shown, Busy, JoinAt, JoinOver
  <2>24. RoomInv'
    BY SessionAssumption, <1>1, <1>2, <1>3, <1>5, <2>1, <2>2 DEF RoomInv, ShownInv, AttemptInv, SessTypes,
       Drops, AttemptOf, ShownOf, RoomOf, AtLock, Shown, Busy, JoinAt, JoinOver
  <2>25. StrayInv'
    BY SessionAssumption, <1>1, <1>2, <1>3, <1>5, <2>1, <2>2 DEF StrayInv, ShownInv, AttemptInv, RoomInv,
       SessTypes, Stray, Linked, Drops, AttemptOf, ShownOf, RoomOf, AtLock, Shown, Busy, JoinAt, JoinOver
  <2>26. (row \subseteq open)'
    BY SessionAssumption, <1>1, <1>2, <1>3, <1>5, <2>1, <2>2 DEF RowInv, SessTypes, JoinAt, JoinOver
  <2>29. DropInv'
    BY SessionAssumption, <1>1, <1>2, <1>3, <1>5, <2>1, <2>2 DEF RowInv, DropInv, Drops, RoomInv, AttemptInv,
       ShownInv, StrayInv, Stray, Linked, SessTypes, AttemptOf, ShownOf, RoomOf, AtLock, Shown, Busy, JoinAt,
       JoinOver
  <2> QED BY <2>20, <2>21, <2>22, <2>23, <2>24, <2>25, <2>26, <2>27, <2>28, <2>29 DEF SessInv, RowInv
<1> QED BY <1>4, <1>5

\* A stray join that gives its room back.
LEMMA RoomGivenBack ==
    ASSUME SessInv, NEW j \in JoinRuns, JoinAt(j, "close") \/ JoinOver(j), ~joins[j].live, joins[j].pc \in {"connect", "close"},
           joins[j].pc = "connect" => joins'[j].pc = "close",
           NEW r \in {"none", "closed"}, room' = [room EXCEPT ![j] = r], joins[j].pc = "close" /\ room[j] # "none" => r = "closed",
           UNCHANGED <<ui, plan, attempt, transport, hangingUp, leaves, watching, downs, lock, row, open,
                       forgotten, followUp, sweep>>
    PROVE  SessInv'
<1> USE DEF SessInv
<1>1. UNCHANGED <<ui, plan, attempt, transport, hangingUp, leaves, watching, downs, lock, row, open,
                  forgotten, followUp, sweep>>
  OBVIOUS
<1>2. /\ room' \in [JoinRuns -> {"none", "connecting", "open", "closed", "ended", "left"}] /\ room'[j] = r
      /\ room[j] \in {"closed", "ended"} => r = "closed"
      /\ \A k \in JoinRuns : k # j => room'[k] = room[k]
  BY DEF SessTypes, RoomInv, RoomOf
<1>3. \A d \in Downs : downs[d].pc = "disconnect" => downs[d].transport \in JoinRuns BY DEF RoomInv
<1>4. watching # j /\ transport # j BY DEF ShownInv, ShownOf
<1>5. /\ joins' \in [JoinRuns -> JoinState] /\ \A k \in JoinRuns : k # j => joins'[k] = joins[k]
      /\ joins'[j].pc \in {"close", "done"} /\ joins'[j].conv = joins[j].conv /\ ~joins'[j].live
      /\ (joins'[j].leaves = joins[j].leaves \/ joins'[j].leaves = 0) /\ (joins'[j].ended => joins[j].ended)
  BY DEF JoinAt, JoinOver
<1>27. ASSUME NEW z \in row' PROVE Covered(z)'
  <2>1. Covered(z) /\ watching \in JoinRuns \cup {None} BY <1>1 DEF RowInv, SessTypes
  <2>2. \A k \in JoinRuns : joins'[k].conv = joins[k].conv /\ (joins[k].pc = "abandon" => joins'[k].pc = "abandon")
    BY <1>5
  <2>3. \A k \in JoinRuns : room[k] \in {"closed", "ended"} => room'[k] \in {"closed", "ended"} BY <1>2
  <2> QED BY <1>1, <1>3, <2>1, <2>2, <2>3, CoverStays
<1>28. ASSUME NEW i \in JoinRuns PROVE CountedInv(i)'
  <2>1. CountedInv(i) /\ CountedInv(j) /\ joins[i].conv \in Conv \cup {None} /\ open \subseteq Conv
    BY DEF RowInv, SessTypes, JoinState
  <2>2. CASE i = j BY <1>1, <1>2, <1>4, <1>5, <2>1, <2>2 DEF CountedInv, TakenUp, Stray, Told1, Tells, Busy
  <2>3. CASE i # j BY <1>1, <1>2, <1>5, <2>1, <2>3, CountedStays, SessionAssumption
  <2> QED BY <2>2, <2>3
<1>20. SessTypes' BY SessionAssumption, <1>1, <1>2, <1>3, <1>4, <1>5 DEF SessTypes, JoinAt, JoinOver
<1>21. AttemptInv'
  BY SessionAssumption, <1>1, <1>2, <1>3, <1>4, <1>5 DEF AttemptInv, ShownInv, SessTypes, AttemptOf, ShownOf,
     RoomOf, AtLock, Shown, Busy, JoinAt, JoinOver
<1>22. ShownInv'
  BY SessionAssumption, <1>1, <1>2, <1>3, <1>4, <1>5 DEF ShownInv, AttemptInv, SessTypes, V!InCall, AttemptOf,
     ShownOf, RoomOf, AtLock, Shown, Busy, JoinAt, JoinOver
<1>23. LockInv'
  BY SessionAssumption, <1>1, <1>2, <1>3, <1>4, <1>5 DEF LockInv, ShownInv, AttemptInv, SessTypes, V!InCall,
     AttemptOf, ShownOf, RoomOf, AtLock, Shown, Busy, JoinAt, JoinOver
<1>24. RoomInv'
  BY SessionAssumption, <1>1, <1>2, <1>3, <1>4, <1>5 DEF RoomInv, ShownInv, AttemptInv, SessTypes, Drops,
     AttemptOf, ShownOf, RoomOf, AtLock, Shown, Busy, JoinAt, JoinOver
<1>25. StrayInv'
  BY SessionAssumption, <1>1, <1>2, <1>3, <1>4, <1>5 DEF StrayInv, ShownInv, AttemptInv, RoomInv, SessTypes,
     Stray, Linked, Drops, AttemptOf, ShownOf, RoomOf, AtLock, Shown, Busy, JoinAt, JoinOver
<1>26. (row \subseteq open)'
  BY SessionAssumption, <1>1, <1>2, <1>3, <1>4, <1>5 DEF RowInv, SessTypes, JoinAt, JoinOver
<1>29. DropInv'
  BY SessionAssumption, <1>1, <1>2, <1>3, <1>4, <1>5 DEF RowInv, DropInv, Drops, RoomInv, AttemptInv, ShownInv,
     StrayInv, Stray, Linked, SessTypes, AttemptOf, ShownOf, RoomOf, AtLock, Shown, Busy, JoinAt, JoinOver
<1> QED BY <1>20, <1>21, <1>22, <1>23, <1>24, <1>25, <1>26, <1>27, <1>28, <1>29 DEF SessInv, RowInv

LEMMA ClosedKeeps == ASSUME SessInv, NEW j \in JoinRuns, V!Closed(j) PROVE SessInv'
<1>1. joins[j].pc = "close" /\ ~joins[j].live BY DEF SessInv, V!Closed, AttemptInv, AttemptOf, AtLock, Shown
<1>2. JoinOver(j) BY OverMoves DEF SessInv, V!Closed
<1>3. PICK r \in {"none", "closed"} : room' = [room EXCEPT ![j] = r] /\ (room[j] # "none" => r = "closed")
  <2>1. room' = [room EXCEPT ![j] = IF room[j] = "none" THEN "none" ELSE "closed"]
    BY DEF SessInv, SessTypes, V!Closed
  <2> QED BY <2>1
<1> QED BY <1>1, <1>2, <1>3, RoomGivenBack DEF V!Closed, V!page, V!sfu

\* A join that has its call is over, and the call goes on.
LEMMA JoinedKeeps ==
    ASSUME SessInv, NEW j \in JoinRuns, joins[j].pc = "mic", joins[j].live, JoinOver(j), attempt' = None,
           UNCHANGED <<ui, plan, transport, hangingUp, leaves, watching, downs, lock, room, row, open,
                       forgotten, followUp, sweep>>
    PROVE  SessInv'
<1> USE DEF SessInv
<1>1. /\ attempt' = None
      /\ UNCHANGED <<ui, plan, transport, hangingUp, leaves, watching, downs, lock, room, row, open,
                     forgotten, followUp, sweep>>
  OBVIOUS
<1>2. transport = j /\ watching = j BY DEF ShownInv, ShownOf
<1>4. /\ attempt = j /\ joins[j].conv \in Conv /\ \A d \in Downs : ~Busy(d)
      /\ \A k \in JoinRuns : joins[k].live <=> k = j
  BY AliveIs
<1>22. ShownInv'
  <2>1. ShownOf(j) BY DEF ShownInv
  <2>2. ShownOf(j)' BY <1>1, <1>2, <1>4, <2>1, SessionAssumption DEF ShownOf, AtLock, Shown, JoinOver
  <2>3. ASSUME NEW i \in JoinRuns, i # j PROVE ShownOf(i)'
    <3>1. ShownOf(i) /\ ~joins[i].live BY <1>4, <2>3 DEF ShownInv
    <3> QED BY <1>1, <1>2, <2>3, <3>1 DEF ShownOf, AtLock, Shown, JoinOver
  <2> QED BY <1>1, <1>2, <2>2, <2>3, SessionAssumption DEF ShownInv
<1>28. ASSUME NEW i \in JoinRuns PROVE CountedInv(i)'
  <2>1. CountedInv(i) /\ joins[i].conv \in Conv \cup {None} /\ open \subseteq Conv
    BY DEF RowInv, SessTypes, JoinState
  <2>2. CASE i = j BY <1>1, <2>1, <2>2 DEF CountedInv, Stray, JoinOver
  <2>3. CASE i # j BY <1>1, <2>1, <2>3, CountedStays, SessionAssumption DEF JoinOver
  <2> QED BY <2>2, <2>3
<1>20. SessTypes' BY SessionAssumption, <1>1, <1>2, <1>4 DEF SessTypes, JoinAt, JoinOver
<1>21. AttemptInv'
  BY SessionAssumption, <1>1, <1>2, <1>4 DEF AttemptInv, ShownInv, SessTypes, AttemptOf, ShownOf, RoomOf,
     AtLock, Shown, Busy, JoinAt, JoinOver
<1>23. LockInv'
  BY SessionAssumption, <1>1, <1>2, <1>4 DEF LockInv, ShownInv, AttemptInv, SessTypes, V!InCall, AttemptOf,
     ShownOf, RoomOf, AtLock, Shown, Busy, JoinAt, JoinOver
<1>24. RoomInv'
  BY SessionAssumption, <1>1, <1>2, <1>4 DEF RoomInv, ShownInv, AttemptInv, SessTypes, Drops, AttemptOf,
     ShownOf, RoomOf, AtLock, Shown, Busy, JoinAt, JoinOver
<1>25. StrayInv'
  BY SessionAssumption, <1>1, <1>2, <1>4 DEF StrayInv, ShownInv, AttemptInv, RoomInv, SessTypes, Stray, Linked,
     Drops, AttemptOf, ShownOf, RoomOf, AtLock, Shown, Busy, JoinAt, JoinOver
<1>26. (row \subseteq open)' BY SessionAssumption, <1>1, <1>2, <1>4 DEF RowInv, SessTypes, JoinAt, JoinOver
<1>27. (\A z \in row : Covered(z))'
  BY SessionAssumption, <1>1, <1>2, <1>4 DEF RowInv, Covered, Told1, Switches, Tells, RoomInv, AttemptInv,
     SessTypes, AttemptOf, ShownOf, RoomOf, AtLock, Shown, Busy, JoinAt, JoinOver
<1>29. DropInv'
  BY SessionAssumption, <1>1, <1>2, <1>4 DEF RowInv, DropInv, Drops, RoomInv, AttemptInv, ShownInv, StrayInv,
     Stray, Linked, SessTypes, AttemptOf, ShownOf, RoomOf, AtLock, Shown, Busy, JoinAt, JoinOver
<1> QED BY <1>20, <1>21, <1>22, <1>23, <1>24, <1>25, <1>26, <1>27, <1>28, <1>29 DEF SessInv, RowInv

-----------------------------------------------------------------------------
(* A teardown goes on. *)

LEMMA DisconnectedKeeps == ASSUME SessInv, NEW d \in Downs, V!Disconnected(d) PROVE SessInv'
<1> USE DEF SessInv
<1> DEFINE t == downs[d].transport
<1>1. /\ downs[d].pc = "disconnect" /\ t \in JoinRuns /\ Busy(d)
      /\ attempt = None /\ transport = None /\ watching = None
      /\ UNCHANGED <<plan, attempt, transport, hangingUp, leaves, watching, joins, row, open, forgotten,
                     followUp>>
  BY DEF V!Disconnected, RoomInv, AttemptInv, Busy
<1>2. \A k \in JoinRuns : ~joins[k].live BY <1>1, SessionAssumption DEF AttemptInv, AttemptOf
<1>3. /\ room' \in [JoinRuns -> {"none", "connecting", "open", "closed", "ended", "left"}]
      /\ room'[t] = (IF room[t] \in {"none", "connecting"} THEN room[t] ELSE "closed")
      /\ \A k \in JoinRuns : k # t => room'[k] = room[k]
  BY <1>1 DEF V!Disconnected, SessTypes
<1>4. /\ downs' \in [Downs -> DownState] /\ \A e \in Downs : e # d => downs'[e] = downs[e]
      /\ downs'[d].pc = (IF downs[d].call # None THEN "tell" ELSE "done")
      /\ downs[d].call # None => downs'[d].call = downs[d].call /\ downs'[d].keep = downs[d].keep
  <2>1. downs[d] \in DownState BY DEF SessTypes
  <2>2. CASE downs[d].call # None
    <3> DEFINE r == [downs[d] EXCEPT !.pc = "tell"]
    <3>1. r \in DownState /\ r.pc = "tell" /\ r.call = downs[d].call /\ r.keep = downs[d].keep BY <2>1 DEF DownState
    <3>2. downs' = [downs EXCEPT ![d] = r] BY <2>2 DEF V!Disconnected
    <3> HIDE DEF r
    <3> QED BY <2>2, <3>1, <3>2 DEF SessTypes
  <2>3. CASE downs[d].call = None
    <3>1. V!Ended \in DownState /\ V!Ended.pc = "done" BY DEF V!Ended, V!NoDown, DownState
    <3>2. downs' = [downs EXCEPT ![d] = V!Ended] BY <2>3 DEF V!Disconnected
    <3> QED BY <2>3, <3>1, <3>2 DEF SessTypes
  <2> QED BY <2>2, <2>3
<1>5. /\ sweep' \subseteq Conv /\ \A z \in sweep : z \in sweep'
      /\ downs[d].keep /\ joins[t].conv \in forgotten => joins[t].conv \in sweep'
  BY DEF V!Disconnected, SessTypes
<1>6. \/ UNCHANGED <<ui, lock>> /\ downs[d].call # None
      \/ /\ ui' \in UiState /\ ui'.phase = "idle" /\ ui'.call = None /\ downs[d].call = None
         /\ lock' = (IF ~downs[d].keep /\ lock = "me" THEN "free" ELSE lock)
  BY IdleIs DEF V!Disconnected, V!Tail
<1>27. ASSUME NEW z \in row' PROVE Covered(z)'
  <2>1. Covered(z) /\ z \in open BY <1>1 DEF RowInv
  <2>2. ASSUME NEW e \in Downs, Tells(e, z) PROVE Covered(z)'
    <3>1. z # None BY <2>1, SessionAssumption DEF SessTypes
    <3>2. Tells(e, z)' BY <1>1, <1>4, <2>2, <3>1 DEF Tells, Busy
    <3> QED BY <3>2 DEF Covered, Told1
  <2>3. ASSUME NEW e \in Downs, downs[e].pc = "disconnect", downs[e].keep, joins[downs[e].transport].conv = z
        PROVE  Covered(z)'
    <3>1. CASE e = d
      <4>1. CASE room[t] \in {"none", "connecting"}
        <5>1. downs[d].call = z BY <1>1, <2>1, <2>3, <3>1, <4>1 DEF RowInv, DropInv, Drops
        <5> QED BY <1>1, <2>2, <5>1 DEF Tells
      <4>2. CASE room[t] \notin {"none", "connecting"} BY <1>1, <1>3, <1>5, <2>3, <3>1, <4>2 DEF Covered
      <4> QED BY <4>1, <4>2
    <3>2. CASE e # d BY <1>1, <1>4, <2>3, <3>2 DEF Covered, Switches
    <3> QED BY <3>1, <3>2
  <2>4. CASE \/ z \in sweep \/ (followUp = z /\ z \in forgotten)
             \/ \E j \in JoinRuns : joins[j].pc = "abandon" /\ joins[j].conv = z
    BY <1>1, <1>5, <2>4 DEF Covered
  <2>5. CASE z \notin forgotten /\ \E j \in JoinRuns : joins[j].conv = z /\ room[j] \in {"closed", "ended"}
    BY <1>1, <1>3, <2>5 DEF Covered
  <2> QED BY <1>1, <2>1, <2>2, <2>3, <2>4, <2>5 DEF Covered, Told1, Switches
<1>28. ASSUME NEW i \in JoinRuns PROVE CountedInv(i)'
  <2>1. CountedInv(i) BY DEF RowInv
  <2>2. ASSUME Told1(joins[i].conv), joins[i].conv \in row PROVE Told1(joins[i].conv)'
    <3>1. PICK e \in Downs : Tells(e, joins[i].conv) BY <2>2 DEF Told1
    <3>2. joins[i].conv # None BY <2>2, SessionAssumption DEF SessTypes
    <3>3. Tells(e, joins[i].conv)' BY <1>1, <1>4, <3>1, <3>2 DEF Tells, Busy
    <3> QED BY <1>1, <3>3 DEF Told1
  <2>4. ASSUME TakenUp(i), joins[i].conv \in row PROVE TakenUp(i)'
    BY <1>1, <1>3, <1>5, <2>2, <2>4 DEF TakenUp
  <2>3. ASSUME Stray(i), joins[i].conv \in row, joins[i].pc = "mic"
        PROVE  (TakenUp(i) \/ \E e \in Downs : Drops(e, i) /\ downs[e].keep)'
    <3>1. CASE TakenUp(i) BY <2>3, <2>4, <3>1
    <3>3. ASSUME NEW e \in Downs, Drops(e, i), downs[e].keep
          PROVE  room'[i] \in {"closed", "ended"} \/ (Drops(e, i) /\ downs[e].keep)'
      <4>1. room[i] \notin {"none", "connecting"} BY <2>3 DEF RoomInv, RoomOf
      <4> QED BY <1>3, <1>4, <3>3, <4>1 DEF Drops
    <3> QED BY <2>1, <2>3, <3>1, <3>3 DEF CountedInv, TakenUp
  <2> QED BY <1>1, <1>3, <2>1, <2>3, <2>4, SessionAssumption DEF CountedInv, Stray
<1>24. RoomInv'
  <2>1. ASSUME NEW i \in JoinRuns PROVE RoomOf(i)'
    <3>1. RoomOf(i) BY DEF RoomInv
    <3>2. \A e \in Downs : Drops(e, i) /\ i # t => Drops(e, i)' BY <1>4 DEF Drops
    <3>3. joins[t].pc \in {"connect", "close", "mic", "done"} BY <1>1 DEF RoomInv
    <3> QED BY <1>1, <1>3, <3>1, <3>2, <3>3 DEF RoomOf
  <2> QED BY <1>1, <1>4, <2>1 DEF RoomInv
<1> HIDE DEF t
<1>20. SessTypes' BY SessionAssumption, <1>1, <1>2, <1>3, <1>4, <1>5, <1>6 DEF SessTypes, JoinAt, JoinOver
<1>21. AttemptInv'
  BY SessionAssumption, <1>1, <1>2, <1>3, <1>4, <1>5, <1>6 DEF AttemptInv, ShownInv, SessTypes, AttemptOf,
     ShownOf, RoomOf, AtLock, Shown, Busy, JoinAt, JoinOver
<1>22. ShownInv'
  BY SessionAssumption, <1>1, <1>2, <1>3, <1>4, <1>5, <1>6 DEF ShownInv, AttemptInv, SessTypes, V!InCall,
     AttemptOf, ShownOf, RoomOf, AtLock, Shown, Busy, JoinAt, JoinOver
<1>23. LockInv'
  BY SessionAssumption, <1>1, <1>2, <1>3, <1>4, <1>5, <1>6 DEF LockInv, ShownInv, AttemptInv, SessTypes,
     V!InCall, AttemptOf, ShownOf, RoomOf, AtLock, Shown, Busy, JoinAt, JoinOver
<1>25. StrayInv'
  BY SessionAssumption, <1>1, <1>2, <1>3, <1>4, <1>5, <1>6 DEF StrayInv, ShownInv, AttemptInv, RoomInv,
     SessTypes, Stray, Linked, Drops, AttemptOf, ShownOf, RoomOf, AtLock, Shown, Busy, JoinAt, JoinOver
<1>26. (row \subseteq open)'
  BY SessionAssumption, <1>1, <1>2, <1>3, <1>4, <1>5, <1>6 DEF RowInv, SessTypes, JoinAt, JoinOver
<1>29. DropInv'
  BY SessionAssumption, <1>1, <1>2, <1>3, <1>4, <1>5, <1>6 DEF RowInv, DropInv, Drops, RoomInv, AttemptInv,
     ShownInv, StrayInv, Stray, Linked, SessTypes, AttemptOf, ShownOf, RoomOf, AtLock, Shown, Busy, JoinAt,
     JoinOver
<1> QED BY <1>20, <1>21, <1>22, <1>23, <1>24, <1>25, <1>26, <1>27, <1>28, <1>29 DEF SessInv, RowInv

LEMMA ToldKeeps == ASSUME SessInv, NEW d \in Downs, V!Told(d) PROVE SessInv'
<1> USE DEF SessInv
<1> DEFINE c == downs[d].call
<1>1. /\ downs[d].pc = "tell" /\ Busy(d) /\ c # None
      /\ attempt = None /\ transport = None /\ watching = None
      /\ UNCHANGED <<plan, attempt, transport, hangingUp, leaves, watching, joins, room, open, forgotten,
                     followUp>>
  BY DEF V!Told, RoomInv, AttemptInv, Busy
<1>2. \A k \in JoinRuns : ~joins[k].live BY <1>1, SessionAssumption DEF AttemptInv, AttemptOf
<1>3. /\ row' \subseteq row /\ sweep' \subseteq Conv /\ (\A z \in sweep : z \in sweep')
      /\ c \in row' => c \in sweep' \/ V!Healed(c)
  <2>1. c \in Conv BY <1>1 DEF SessTypes, DownState
  <2> QED BY <2>1 DEF V!Told, SessTypes
<1>4. /\ downs' \in [Downs -> DownState] /\ \A e \in Downs : e # d => downs'[e] = downs[e]
      /\ downs'[d].pc = "done"
  <2>1. V!Ended \in DownState /\ V!Ended.pc = "done" BY DEF V!Ended, V!NoDown, DownState
  <2> QED BY <2>1 DEF V!Told, SessTypes
<1>5. /\ ui' \in UiState /\ ui'.phase = "idle" /\ ui'.call = None
      /\ lock' = (IF ~downs[d].keep /\ lock = "me" THEN "free" ELSE lock)
  BY IdleIs DEF V!Told, V!Tail
<1>6. \A z \in row' : z # c /\ Told1(z) => Told1(z)'
  <2>1. ASSUME NEW z \in row', z # c, NEW e \in Downs, Tells(e, z) PROVE Tells(e, z)' BY <1>4, <2>1 DEF Tells, Busy
  <2> QED BY <2>1 DEF Told1
<1>7. \A z : Switches(z) => Switches(z)' BY <1>1, <1>4 DEF Switches
<1>27. ASSUME NEW z \in row' PROVE Covered(z)'
  <2>1. Covered(z) BY <1>3 DEF RowInv
  <2>2. CASE z # c BY <1>1, <1>3, <1>6, <1>7, <2>1, <2>2 DEF Covered
  <2>3. CASE z = c BY <1>1, <1>3, <2>3 DEF Covered, V!Healed, V!Departing
  <2> QED BY <2>2, <2>3
<1>28. ASSUME NEW i \in JoinRuns PROVE CountedInv(i)'
  <2>1. CountedInv(i) BY DEF RowInv
  <2>2. ASSUME Stray(i), joins[i].conv \in row', joins[i].pc \in {"key", "connect", "close", "mic"}, TakenUp(i)
        PROVE  TakenUp(i)'
    <3>1. CASE joins[i].conv # c BY <1>1, <1>3, <1>6, <2>2, <3>1 DEF TakenUp
    <3>2. CASE joins[i].conv = c /\ V!Healed(c)
      <4>1. PICK k \in JoinRuns : joins[k].conv = c /\ V!Departing(k) /\ ~V!Again(k) BY <3>2 DEF V!Healed
      <4>2. k = i BY <2>2, <3>2, <4>1 DEF V!Again, V!Admittance
      <4> QED BY <1>1, <4>1, <4>2 DEF TakenUp, V!Departing
    <3>3. CASE joins[i].conv = c /\ c \in sweep' BY <1>1, <3>3 DEF TakenUp
    <3> QED BY <1>3, <2>2, <3>1, <3>2, <3>3
  <2> QED BY <1>1, <1>3, <1>4, <2>1, <2>2, SessionAssumption DEF CountedInv, Stray, Drops
<1> HIDE DEF c
<1>20. SessTypes' BY SessionAssumption, <1>1, <1>2, <1>3, <1>4, <1>5, <1>6 DEF SessTypes, JoinAt, JoinOver
<1>21. AttemptInv'
  BY SessionAssumption, <1>1, <1>2, <1>3, <1>4, <1>5, <1>6 DEF AttemptInv, ShownInv, SessTypes, AttemptOf,
     ShownOf, RoomOf, AtLock, Shown, Busy, JoinAt, JoinOver
<1>22. ShownInv'
  BY SessionAssumption, <1>1, <1>2, <1>3, <1>4, <1>5, <1>6 DEF ShownInv, AttemptInv, SessTypes, V!InCall,
     AttemptOf, ShownOf, RoomOf, AtLock, Shown, Busy, JoinAt, JoinOver
<1>23. LockInv'
  BY SessionAssumption, <1>1, <1>2, <1>3, <1>4, <1>5, <1>6 DEF LockInv, ShownInv, AttemptInv, SessTypes,
     V!InCall, AttemptOf, ShownOf, RoomOf, AtLock, Shown, Busy, JoinAt, JoinOver
<1>24. RoomInv'
  BY SessionAssumption, <1>1, <1>2, <1>3, <1>4, <1>5, <1>6 DEF RoomInv, ShownInv, AttemptInv, SessTypes, Drops,
     AttemptOf, ShownOf, RoomOf, AtLock, Shown, Busy, JoinAt, JoinOver
<1>25. StrayInv'
  BY SessionAssumption, <1>1, <1>2, <1>3, <1>4, <1>5, <1>6 DEF StrayInv, ShownInv, AttemptInv, RoomInv,
     SessTypes, Stray, Linked, Drops, AttemptOf, ShownOf, RoomOf, AtLock, Shown, Busy, JoinAt, JoinOver
<1>26. (row \subseteq open)'
  BY SessionAssumption, <1>1, <1>2, <1>3, <1>4, <1>5, <1>6 DEF RowInv, SessTypes, JoinAt, JoinOver
<1>29. DropInv'
  BY SessionAssumption, <1>1, <1>2, <1>3, <1>4, <1>5, <1>6 DEF RowInv, DropInv, Drops, RoomInv, AttemptInv,
     ShownInv, StrayInv, Stray, Linked, SessTypes, AttemptOf, ShownOf, RoomOf, AtLock, Shown, Busy, JoinAt,
     JoinOver
<1> QED BY <1>20, <1>21, <1>22, <1>23, <1>24, <1>25, <1>26, <1>27, <1>28, <1>29 DEF SessInv, RowInv

-----------------------------------------------------------------------------
(* The SFU, the server, and the other windows. *)

LEMMA WaveringKeeps == ASSUME SessInv, V!Wavering PROVE SessInv'
<1> USE DEF SessInv
<1>1. /\ ui.phase \in {"connected", "reconnecting"}
      /\ UNCHANGED <<plan, attempt, transport, hangingUp, leaves, watching, joins, downs, lock, room,
                     row, open, forgotten, followUp, sweep>>
  BY DEF V!Wavering, V!sfu
<1>2. ui' \in UiState /\ ui'.phase \in {"connected", "reconnecting"} /\ ui'.conv = ui.conv /\ ui'.call = ui.call
  <2>1. ui \in UiState BY DEF SessTypes
  <2> QED BY <2>1 DEF V!Wavering, UiState, V!InCall
<1>20. SessTypes' BY SessionAssumption, <1>1, <1>2 DEF SessTypes, JoinAt, JoinOver
<1>21. AttemptInv'
  BY SessionAssumption, <1>1, <1>2 DEF AttemptInv, ShownInv, SessTypes, AttemptOf, ShownOf, RoomOf, AtLock,
     Shown, Busy, JoinAt, JoinOver
<1>22. ShownInv'
  BY SessionAssumption, <1>1, <1>2 DEF ShownInv, AttemptInv, SessTypes, V!InCall, AttemptOf, ShownOf, RoomOf,
     AtLock, Shown, Busy, JoinAt, JoinOver
<1>23. LockInv'
  BY SessionAssumption, <1>1, <1>2 DEF LockInv, ShownInv, AttemptInv, SessTypes, V!InCall, AttemptOf, ShownOf,
     RoomOf, AtLock, Shown, Busy, JoinAt, JoinOver
<1>24. RoomInv'
  BY SessionAssumption, <1>1, <1>2 DEF RoomInv, ShownInv, AttemptInv, SessTypes, Drops, AttemptOf, ShownOf,
     RoomOf, AtLock, Shown, Busy, JoinAt, JoinOver
<1>25. StrayInv'
  BY SessionAssumption, <1>1, <1>2 DEF StrayInv, ShownInv, AttemptInv, RoomInv, SessTypes, Stray, Linked,
     Drops, AttemptOf, ShownOf, RoomOf, AtLock, Shown, Busy, JoinAt, JoinOver
<1>26. (row \subseteq open)' BY SessionAssumption, <1>1, <1>2 DEF RowInv, SessTypes, JoinAt, JoinOver
<1>27. (\A z \in row : Covered(z))'
  BY SessionAssumption, <1>1, <1>2 DEF RowInv, Covered, Told1, Switches, Tells, RoomInv, AttemptInv, SessTypes,
     AttemptOf, ShownOf, RoomOf, AtLock, Shown, Busy, JoinAt, JoinOver
<1>28. (\A i \in JoinRuns : CountedInv(i))'
  BY SessionAssumption, <1>1, <1>2 DEF RowInv, CountedInv, TakenUp, Told1, Tells, Drops, Stray, ShownInv, AttemptInv,
     RoomInv, StrayInv, Linked, SessTypes, AttemptOf, ShownOf, RoomOf, AtLock, Shown, Busy, JoinAt, JoinOver
<1>29. DropInv'
  BY SessionAssumption, <1>1, <1>2 DEF RowInv, DropInv, Drops, RoomInv, AttemptInv, ShownInv, StrayInv, Stray,
     Linked, SessTypes, AttemptOf, ShownOf, RoomOf, AtLock, Shown, Busy, JoinAt, JoinOver
<1> QED BY <1>20, <1>21, <1>22, <1>23, <1>24, <1>25, <1>26, <1>27, <1>28, <1>29 DEF SessInv, RowInv

LEMMA HearOtherKeeps == ASSUME SessInv, V!HearOther PROVE SessInv'
<1> USE DEF SessInv
<1>1. /\ ui.phase \in {"idle", "elsewhere"}
      /\ UNCHANGED <<plan, attempt, transport, hangingUp, leaves, watching, joins, downs, lock, room,
                     row, open, forgotten, followUp, sweep>>
  BY DEF V!HearOther, V!sfu
<1>2. ui' \in UiState /\ ui'.phase \in {"idle", "elsewhere"}
  BY DEF V!HearOther, V!Idle, UiState, V!InCall
<1>3. watching = None /\ transport = None /\ \A j \in JoinRuns : ~(joins[j].live /\ Shown(j))
  <2>1. \A j \in JoinRuns : ShownOf(j) BY DEF ShownInv
  <2>2. \A j \in JoinRuns : watching # j /\ transport # j /\ ~(joins[j].live /\ Shown(j))
    BY <1>1, <2>1 DEF ShownOf, V!InCall, Shown
  <2> QED BY <2>2 DEF SessTypes
<1>20. SessTypes' BY SessionAssumption, <1>1, <1>2, <1>3 DEF SessTypes, JoinAt, JoinOver
<1>21. AttemptInv'
  BY SessionAssumption, <1>1, <1>2, <1>3 DEF AttemptInv, ShownInv, SessTypes, AttemptOf, ShownOf, RoomOf,
     AtLock, Shown, Busy, JoinAt, JoinOver
<1>22. ShownInv'
  BY SessionAssumption, <1>1, <1>2, <1>3 DEF ShownInv, AttemptInv, SessTypes, V!InCall, AttemptOf, ShownOf,
     RoomOf, AtLock, Shown, Busy, JoinAt, JoinOver
<1>23. LockInv'
  BY SessionAssumption, <1>1, <1>2, <1>3 DEF LockInv, ShownInv, AttemptInv, SessTypes, V!InCall, AttemptOf,
     ShownOf, RoomOf, AtLock, Shown, Busy, JoinAt, JoinOver
<1>24. RoomInv'
  BY SessionAssumption, <1>1, <1>2, <1>3 DEF RoomInv, ShownInv, AttemptInv, SessTypes, Drops, AttemptOf,
     ShownOf, RoomOf, AtLock, Shown, Busy, JoinAt, JoinOver
<1>25. StrayInv'
  BY SessionAssumption, <1>1, <1>2, <1>3 DEF StrayInv, ShownInv, AttemptInv, RoomInv, SessTypes, Stray, Linked,
     Drops, AttemptOf, ShownOf, RoomOf, AtLock, Shown, Busy, JoinAt, JoinOver
<1>26. (row \subseteq open)' BY SessionAssumption, <1>1, <1>2, <1>3 DEF RowInv, SessTypes, JoinAt, JoinOver
<1>27. (\A z \in row : Covered(z))'
  BY SessionAssumption, <1>1, <1>2, <1>3 DEF RowInv, Covered, Told1, Switches, Tells, RoomInv, AttemptInv,
     SessTypes, AttemptOf, ShownOf, RoomOf, AtLock, Shown, Busy, JoinAt, JoinOver
<1>28. (\A i \in JoinRuns : CountedInv(i))'
  BY SessionAssumption, <1>1, <1>2, <1>3 DEF RowInv, CountedInv, TakenUp, Told1, Tells, Drops, Stray, ShownInv,
     AttemptInv, RoomInv, StrayInv, Linked, SessTypes, AttemptOf, ShownOf, RoomOf, AtLock, Shown, Busy, JoinAt,
     JoinOver
<1>29. DropInv'
  BY SessionAssumption, <1>1, <1>2, <1>3 DEF RowInv, DropInv, Drops, RoomInv, AttemptInv, ShownInv, StrayInv,
     Stray, Linked, SessTypes, AttemptOf, ShownOf, RoomOf, AtLock, Shown, Busy, JoinAt, JoinOver
<1> QED BY <1>20, <1>21, <1>22, <1>23, <1>24, <1>25, <1>26, <1>27, <1>28, <1>29 DEF SessInv, RowInv

LEMMA OtherWindowKeeps == ASSUME SessInv, V!OtherWindow PROVE SessInv'
<1> USE DEF SessInv
<1>1. /\ lock # "me" /\ lock' # "me" /\ lock' \in {"free", "other"}
      /\ UNCHANGED <<ui, plan, attempt, transport, hangingUp, leaves, watching, joins, downs, room, row,
                     open, forgotten, followUp, sweep>>
  BY DEF V!OtherWindow, V!page, V!sfu
<1>20. SessTypes' BY SessionAssumption, <1>1 DEF SessTypes, JoinAt, JoinOver
<1>21. AttemptInv'
  BY SessionAssumption, <1>1 DEF AttemptInv, ShownInv, SessTypes, AttemptOf, ShownOf, RoomOf, AtLock, Shown,
     Busy, JoinAt, JoinOver
<1>22. ShownInv'
  BY SessionAssumption, <1>1 DEF ShownInv, AttemptInv, SessTypes, V!InCall, AttemptOf, ShownOf, RoomOf, AtLock,
     Shown, Busy, JoinAt, JoinOver
<1>23. LockInv'
  BY SessionAssumption, <1>1 DEF LockInv, ShownInv, AttemptInv, SessTypes, V!InCall, AttemptOf, ShownOf,
     RoomOf, AtLock, Shown, Busy, JoinAt, JoinOver
<1>24. RoomInv'
  BY SessionAssumption, <1>1 DEF RoomInv, ShownInv, AttemptInv, SessTypes, Drops, AttemptOf, ShownOf, RoomOf,
     AtLock, Shown, Busy, JoinAt, JoinOver
<1>25. StrayInv'
  BY SessionAssumption, <1>1 DEF StrayInv, ShownInv, AttemptInv, RoomInv, SessTypes, Stray, Linked, Drops,
     AttemptOf, ShownOf, RoomOf, AtLock, Shown, Busy, JoinAt, JoinOver
<1>26. (row \subseteq open)' BY SessionAssumption, <1>1 DEF RowInv, SessTypes, JoinAt, JoinOver
<1>27. (\A z \in row : Covered(z))'
  BY SessionAssumption, <1>1 DEF RowInv, Covered, Told1, Switches, Tells, RoomInv, AttemptInv, SessTypes,
     AttemptOf, ShownOf, RoomOf, AtLock, Shown, Busy, JoinAt, JoinOver
<1>28. (\A i \in JoinRuns : CountedInv(i))'
  BY SessionAssumption, <1>1 DEF RowInv, CountedInv, TakenUp, Told1, Tells, Drops, Stray, ShownInv, AttemptInv, RoomInv,
     StrayInv, Linked, SessTypes, AttemptOf, ShownOf, RoomOf, AtLock, Shown, Busy, JoinAt, JoinOver
<1>29. DropInv'
  BY SessionAssumption, <1>1 DEF RowInv, DropInv, Drops, RoomInv, AttemptInv, ShownInv, StrayInv, Stray,
     Linked, SessTypes, AttemptOf, ShownOf, RoomOf, AtLock, Shown, Busy, JoinAt, JoinOver
<1> QED BY <1>20, <1>21, <1>22, <1>23, <1>24, <1>25, <1>26, <1>27, <1>28, <1>29 DEF SessInv, RowInv

LEMMA ForgetsKeeps == ASSUME SessInv, NEW c \in Conv, V!Forgets(c) PROVE SessInv'
<1> USE DEF SessInv
<1>1. /\ forgotten' = forgotten \cup {c} /\ forgotten' \subseteq Conv
      /\ UNCHANGED <<ui, plan, attempt, transport, hangingUp, leaves, watching, joins, downs, lock, room,
                     row, open, followUp>>
  BY DEF V!Forgets, V!page, SessTypes
<1>2. /\ sweep' \subseteq Conv /\ \A z \in sweep : z \in sweep'
      /\ (\E j \in JoinRuns : joins[j].conv = c /\ room[j] \in {"closed", "ended"}) => c \in sweep'
  BY DEF V!Forgets, SessTypes
<1>20. SessTypes' BY SessionAssumption, <1>1, <1>2 DEF SessTypes, JoinAt, JoinOver
<1>21. AttemptInv'
  BY SessionAssumption, <1>1, <1>2 DEF AttemptInv, ShownInv, SessTypes, AttemptOf, ShownOf, RoomOf, AtLock,
     Shown, Busy, JoinAt, JoinOver
<1>22. ShownInv'
  BY SessionAssumption, <1>1, <1>2 DEF ShownInv, AttemptInv, SessTypes, V!InCall, AttemptOf, ShownOf, RoomOf,
     AtLock, Shown, Busy, JoinAt, JoinOver
<1>23. LockInv'
  BY SessionAssumption, <1>1, <1>2 DEF LockInv, ShownInv, AttemptInv, SessTypes, V!InCall, AttemptOf, ShownOf,
     RoomOf, AtLock, Shown, Busy, JoinAt, JoinOver
<1>24. RoomInv'
  BY SessionAssumption, <1>1, <1>2 DEF RoomInv, ShownInv, AttemptInv, SessTypes, Drops, AttemptOf, ShownOf,
     RoomOf, AtLock, Shown, Busy, JoinAt, JoinOver
<1>25. StrayInv'
  BY SessionAssumption, <1>1, <1>2 DEF StrayInv, ShownInv, AttemptInv, RoomInv, SessTypes, Stray, Linked,
     Drops, AttemptOf, ShownOf, RoomOf, AtLock, Shown, Busy, JoinAt, JoinOver
<1>26. (row \subseteq open)' BY SessionAssumption, <1>1, <1>2 DEF RowInv, SessTypes, JoinAt, JoinOver
<1>27. (\A z \in row : Covered(z))'
  BY SessionAssumption, <1>1, <1>2 DEF RowInv, Covered, Told1, Switches, Tells, RoomInv, AttemptInv, SessTypes,
     AttemptOf, ShownOf, RoomOf, AtLock, Shown, Busy, JoinAt, JoinOver
<1>28. (\A i \in JoinRuns : CountedInv(i))'
  BY SessionAssumption, <1>1, <1>2 DEF RowInv, CountedInv, TakenUp, Told1, Tells, Drops, Stray, ShownInv, AttemptInv,
     RoomInv, StrayInv, Linked, SessTypes, AttemptOf, ShownOf, RoomOf, AtLock, Shown, Busy, JoinAt, JoinOver
<1>29. DropInv'
  BY SessionAssumption, <1>1, <1>2 DEF RowInv, DropInv, Drops, RoomInv, AttemptInv, ShownInv, StrayInv, Stray,
     Linked, SessTypes, AttemptOf, ShownOf, RoomOf, AtLock, Shown, Busy, JoinAt, JoinOver
<1> QED BY <1>20, <1>21, <1>22, <1>23, <1>24, <1>25, <1>26, <1>27, <1>28, <1>29 DEF SessInv, RowInv

LEMMA FollowUpLeavesKeeps == ASSUME SessInv, V!FollowUpLeaves PROVE SessInv'
<1> USE DEF SessInv
<1>1. /\ followUp \in forgotten /\ row' = row \ {followUp} /\ followUp' = None
      /\ UNCHANGED <<ui, plan, attempt, transport, hangingUp, leaves, watching, joins, downs, lock, room,
                     open, forgotten, sweep>>
  BY DEF V!FollowUpLeaves, V!page
<1>2. row' \subseteq row /\ \A z \in row : z # followUp => z \in row' BY <1>1
<1>28. ASSUME NEW i \in JoinRuns PROVE CountedInv(i)'
  <2>1. CountedInv(i) /\ joins[i].conv \in Conv \cup {None} /\ open \subseteq Conv
    BY DEF RowInv, SessTypes, JoinState
  <2>2. CASE joins[i].conv # followUp
    <3>1. joins[i].conv \in row' <=> joins[i].conv \in row BY <1>1, <2>2
    <3> QED BY <1>1, <2>1, <3>1, CountedStays, SessionAssumption
  <2>3. CASE joins[i].conv = followUp
    <3>1. joins[i].conv \notin row' /\ joins[i].conv \in forgotten BY <1>1, <2>3
    <3> QED BY <1>1, <2>1, <2>3, <3>1 DEF CountedInv, Stray
  <2> QED BY <2>2, <2>3
<1>20. SessTypes' BY SessionAssumption, <1>1, <1>2 DEF SessTypes, JoinAt, JoinOver
<1>21. AttemptInv'
  BY SessionAssumption, <1>1, <1>2 DEF AttemptInv, ShownInv, SessTypes, AttemptOf, ShownOf, RoomOf, AtLock,
     Shown, Busy, JoinAt, JoinOver
<1>22. ShownInv'
  BY SessionAssumption, <1>1, <1>2 DEF ShownInv, AttemptInv, SessTypes, V!InCall, AttemptOf, ShownOf, RoomOf,
     AtLock, Shown, Busy, JoinAt, JoinOver
<1>23. LockInv'
  BY SessionAssumption, <1>1, <1>2 DEF LockInv, ShownInv, AttemptInv, SessTypes, V!InCall, AttemptOf, ShownOf,
     RoomOf, AtLock, Shown, Busy, JoinAt, JoinOver
<1>24. RoomInv'
  BY SessionAssumption, <1>1, <1>2 DEF RoomInv, ShownInv, AttemptInv, SessTypes, Drops, AttemptOf, ShownOf,
     RoomOf, AtLock, Shown, Busy, JoinAt, JoinOver
<1>25. StrayInv'
  BY SessionAssumption, <1>1, <1>2 DEF StrayInv, ShownInv, AttemptInv, RoomInv, SessTypes, Stray, Linked,
     Drops, AttemptOf, ShownOf, RoomOf, AtLock, Shown, Busy, JoinAt, JoinOver
<1>26. (row \subseteq open)' BY SessionAssumption, <1>1, <1>2 DEF RowInv, SessTypes, JoinAt, JoinOver
<1>27. (\A z \in row : Covered(z))'
  BY SessionAssumption, <1>1, <1>2 DEF RowInv, Covered, Told1, Switches, Tells, RoomInv, AttemptInv, SessTypes,
     AttemptOf, ShownOf, RoomOf, AtLock, Shown, Busy, JoinAt, JoinOver
<1>29. DropInv'
  BY SessionAssumption, <1>1, <1>2 DEF RowInv, DropInv, Drops, RoomInv, AttemptInv, ShownInv, StrayInv, Stray,
     Linked, SessTypes, AttemptOf, ShownOf, RoomOf, AtLock, Shown, Busy, JoinAt, JoinOver
<1> QED BY <1>20, <1>21, <1>22, <1>23, <1>24, <1>25, <1>26, <1>27, <1>28, <1>29 DEF SessInv, RowInv

LEMMA FollowUpStopsKeeps == ASSUME SessInv, V!FollowUpStops PROVE SessInv'
<1> USE DEF SessInv
<1>1. /\ followUp' = None /\ followUp # None
      /\ UNCHANGED <<ui, plan, attempt, transport, hangingUp, leaves, watching, joins, downs, lock, room,
                     row, open, forgotten>>
  BY DEF V!FollowUpStops, V!page
<1>2. /\ sweep' \subseteq Conv /\ \A z \in sweep : z \in sweep'
      /\ followUp \in forgotten => followUp \in sweep'
  BY <1>1 DEF V!FollowUpStops, SessTypes
<1>20. SessTypes' BY SessionAssumption, <1>1, <1>2 DEF SessTypes, JoinAt, JoinOver
<1>21. AttemptInv'
  BY SessionAssumption, <1>1, <1>2 DEF AttemptInv, ShownInv, SessTypes, AttemptOf, ShownOf, RoomOf, AtLock,
     Shown, Busy, JoinAt, JoinOver
<1>22. ShownInv'
  BY SessionAssumption, <1>1, <1>2 DEF ShownInv, AttemptInv, SessTypes, V!InCall, AttemptOf, ShownOf, RoomOf,
     AtLock, Shown, Busy, JoinAt, JoinOver
<1>23. LockInv'
  BY SessionAssumption, <1>1, <1>2 DEF LockInv, ShownInv, AttemptInv, SessTypes, V!InCall, AttemptOf, ShownOf,
     RoomOf, AtLock, Shown, Busy, JoinAt, JoinOver
<1>24. RoomInv'
  BY SessionAssumption, <1>1, <1>2 DEF RoomInv, ShownInv, AttemptInv, SessTypes, Drops, AttemptOf, ShownOf,
     RoomOf, AtLock, Shown, Busy, JoinAt, JoinOver
<1>25. StrayInv'
  BY SessionAssumption, <1>1, <1>2 DEF StrayInv, ShownInv, AttemptInv, RoomInv, SessTypes, Stray, Linked,
     Drops, AttemptOf, ShownOf, RoomOf, AtLock, Shown, Busy, JoinAt, JoinOver
<1>26. (row \subseteq open)' BY SessionAssumption, <1>1, <1>2 DEF RowInv, SessTypes, JoinAt, JoinOver
<1>27. (\A z \in row : Covered(z))'
  BY SessionAssumption, <1>1, <1>2 DEF RowInv, Covered, Told1, Switches, Tells, RoomInv, AttemptInv, SessTypes,
     AttemptOf, ShownOf, RoomOf, AtLock, Shown, Busy, JoinAt, JoinOver
<1>28. (\A i \in JoinRuns : CountedInv(i))'
  BY SessionAssumption, <1>1, <1>2 DEF RowInv, CountedInv, TakenUp, Told1, Tells, Drops, Stray, ShownInv, AttemptInv,
     RoomInv, StrayInv, Linked, SessTypes, AttemptOf, ShownOf, RoomOf, AtLock, Shown, Busy, JoinAt, JoinOver
<1>29. DropInv'
  BY SessionAssumption, <1>1, <1>2 DEF RowInv, DropInv, Drops, RoomInv, AttemptInv, ShownInv, StrayInv, Stray,
     Linked, SessTypes, AttemptOf, ShownOf, RoomOf, AtLock, Shown, Busy, JoinAt, JoinOver
<1> QED BY <1>20, <1>21, <1>22, <1>23, <1>24, <1>25, <1>26, <1>27, <1>28, <1>29 DEF SessInv, RowInv

LEMMA EndCallKeeps == ASSUME SessInv, NEW c \in Conv, V!EndCall(c) PROVE SessInv'
<1> USE DEF SessInv
<1>1. /\ open' = open \ {c} /\ row' = row \ {c}
      /\ UNCHANGED <<ui, plan, attempt, transport, hangingUp, leaves, watching, joins, downs, lock, room,
                     forgotten, followUp, sweep>>
  BY DEF V!EndCall, V!page, V!sfu
<1>20. SessTypes' BY SessionAssumption, <1>1 DEF SessTypes, JoinAt, JoinOver
<1>21. AttemptInv'
  BY SessionAssumption, <1>1 DEF AttemptInv, ShownInv, SessTypes, AttemptOf, ShownOf, RoomOf, AtLock, Shown,
     Busy, JoinAt, JoinOver
<1>22. ShownInv'
  BY SessionAssumption, <1>1 DEF ShownInv, AttemptInv, SessTypes, V!InCall, AttemptOf, ShownOf, RoomOf, AtLock,
     Shown, Busy, JoinAt, JoinOver
<1>23. LockInv'
  BY SessionAssumption, <1>1 DEF LockInv, ShownInv, AttemptInv, SessTypes, V!InCall, AttemptOf, ShownOf,
     RoomOf, AtLock, Shown, Busy, JoinAt, JoinOver
<1>24. RoomInv'
  BY SessionAssumption, <1>1 DEF RoomInv, ShownInv, AttemptInv, SessTypes, Drops, AttemptOf, ShownOf, RoomOf,
     AtLock, Shown, Busy, JoinAt, JoinOver
<1>25. StrayInv'
  BY SessionAssumption, <1>1 DEF StrayInv, ShownInv, AttemptInv, RoomInv, SessTypes, Stray, Linked, Drops,
     AttemptOf, ShownOf, RoomOf, AtLock, Shown, Busy, JoinAt, JoinOver
<1>26. (row \subseteq open)' BY SessionAssumption, <1>1 DEF RowInv, SessTypes, JoinAt, JoinOver
<1>27. (\A z \in row : Covered(z))'
  BY SessionAssumption, <1>1 DEF RowInv, Covered, Told1, Switches, Tells, RoomInv, AttemptInv, SessTypes,
     AttemptOf, ShownOf, RoomOf, AtLock, Shown, Busy, JoinAt, JoinOver
<1>28. (\A i \in JoinRuns : CountedInv(i))'
  BY SessionAssumption, <1>1 DEF RowInv, CountedInv, TakenUp, Told1, Tells, Drops, Stray, ShownInv, AttemptInv, RoomInv,
     StrayInv, Linked, SessTypes, AttemptOf, ShownOf, RoomOf, AtLock, Shown, Busy, JoinAt, JoinOver
<1>29. DropInv'
  BY SessionAssumption, <1>1 DEF RowInv, DropInv, Drops, RoomInv, AttemptInv, ShownInv, StrayInv, Stray,
     Linked, SessTypes, AttemptOf, ShownOf, RoomOf, AtLock, Shown, Busy, JoinAt, JoinOver
<1> QED BY <1>20, <1>21, <1>22, <1>23, <1>24, <1>25, <1>26, <1>27, <1>28, <1>29 DEF SessInv, RowInv

\* A room that ends while nothing on the page is listening to it.
LEMMA RoomEnds ==
    ASSUME SessInv, NEW j \in JoinRuns, room[j] = "open", room' = [room EXCEPT ![j] = "ended"],
           UNCHANGED <<ui, plan, attempt, transport, hangingUp, leaves, watching, joins, downs, lock,
                       row, open, forgotten, followUp, sweep>>
    PROVE  SessInv'
<1> USE DEF SessInv
<1>1. /\ room' \in [JoinRuns -> {"none", "connecting", "open", "closed", "ended", "left"}] /\ room'[j] = "ended"
      /\ \A k \in JoinRuns : k # j => room'[k] = room[k]
      /\ UNCHANGED <<ui, plan, attempt, transport, hangingUp, leaves, watching, joins, downs, lock, row,
                     open, forgotten, followUp, sweep>>
  BY DEF SessTypes
<1>20. SessTypes' BY SessionAssumption, <1>1 DEF SessTypes, JoinAt, JoinOver
<1>21. AttemptInv'
  BY SessionAssumption, <1>1 DEF AttemptInv, ShownInv, SessTypes, AttemptOf, ShownOf, RoomOf, AtLock, Shown,
     Busy, JoinAt, JoinOver
<1>22. ShownInv'
  BY SessionAssumption, <1>1 DEF ShownInv, AttemptInv, SessTypes, V!InCall, AttemptOf, ShownOf, RoomOf, AtLock,
     Shown, Busy, JoinAt, JoinOver
<1>23. LockInv'
  BY SessionAssumption, <1>1 DEF LockInv, ShownInv, AttemptInv, SessTypes, V!InCall, AttemptOf, ShownOf,
     RoomOf, AtLock, Shown, Busy, JoinAt, JoinOver
<1>24. RoomInv'
  BY SessionAssumption, <1>1 DEF RoomInv, ShownInv, AttemptInv, SessTypes, Drops, AttemptOf, ShownOf, RoomOf,
     AtLock, Shown, Busy, JoinAt, JoinOver
<1>25. StrayInv'
  BY SessionAssumption, <1>1 DEF StrayInv, ShownInv, AttemptInv, RoomInv, SessTypes, Stray, Linked, Drops,
     AttemptOf, ShownOf, RoomOf, AtLock, Shown, Busy, JoinAt, JoinOver
<1>26. (row \subseteq open)' BY SessionAssumption, <1>1 DEF RowInv, SessTypes, JoinAt, JoinOver
<1>27. (\A z \in row : Covered(z))'
  BY SessionAssumption, <1>1 DEF RowInv, Covered, Told1, Switches, Tells, RoomInv, AttemptInv, SessTypes,
     AttemptOf, ShownOf, RoomOf, AtLock, Shown, Busy, JoinAt, JoinOver
<1>28. (\A i \in JoinRuns : CountedInv(i))'
  BY SessionAssumption, <1>1 DEF RowInv, CountedInv, TakenUp, Told1, Tells, Drops, Stray, ShownInv, AttemptInv, RoomInv,
     StrayInv, Linked, SessTypes, AttemptOf, ShownOf, RoomOf, AtLock, Shown, Busy, JoinAt, JoinOver
<1>29. DropInv'
  BY SessionAssumption, <1>1 DEF RowInv, DropInv, Drops, RoomInv, AttemptInv, ShownInv, StrayInv, Stray,
     Linked, SessTypes, AttemptOf, ShownOf, RoomOf, AtLock, Shown, Busy, JoinAt, JoinOver
<1> QED BY <1>20, <1>21, <1>22, <1>23, <1>24, <1>25, <1>26, <1>27, <1>28, <1>29 DEF SessInv, RowInv

\* A join under way keeps for its end that its call has ended.
LEMMA MarkKeeps ==
    ASSUME SessInv, NEW j \in JoinRuns, V!HearEnded(j), joins[j].pc # "done"
    PROVE  SessInv'
<1> USE DEF SessInv
<1> DEFINE r == [joins[j] EXCEPT !.ended = TRUE]
<1>1. /\ watching = j /\ ui.call \notin open /\ joins' = [joins EXCEPT ![j] = r]
      /\ UNCHANGED <<ui, plan, attempt, transport, hangingUp, leaves, watching, downs, lock, room, row,
                     open, forgotten, followUp, sweep>>
  BY DEF V!HearEnded, V!page, V!sfu
<1>2. joins[j].conv = ui.call /\ joins[j].live /\ joins[j].pc \in {"key", "connect", "mic"}
  BY <1>1 DEF ShownInv, ShownOf
<1>3. /\ r \in JoinState /\ r.pc = joins[j].pc /\ r.conv = joins[j].conv /\ r.leaves = joins[j].leaves /\ r.live = joins[j].live
      /\ r.tell = joins[j].tell /\ r.down = joins[j].down
  <2>1. joins[j] \in JoinState BY DEF SessTypes
  <2> QED BY <2>1 DEF JoinState
<1> HIDE DEF r
<1>4. joins' \in [JoinRuns -> JoinState] /\ joins'[j] = r /\ \A k \in JoinRuns : k # j => joins'[k] = joins[k]
  BY <1>1, <1>3 DEF SessTypes
<1>5. \A k \in JoinRuns : /\ joins'[k].pc = joins[k].pc /\ joins'[k].conv = joins[k].conv /\ joins'[k].leaves = joins[k].leaves
                          /\ joins'[k].live = joins[k].live /\ joins'[k].tell = joins[k].tell /\ joins'[k].down = joins[k].down
                          /\ joins'[k].ended => k = j \/ joins[k].ended
  BY <1>3, <1>4
<1>20. SessTypes' BY SessionAssumption, <1>1, <1>2, <1>4, <1>5 DEF SessTypes, JoinAt, JoinOver
<1>21. AttemptInv'
  BY SessionAssumption, <1>1, <1>2, <1>4, <1>5 DEF AttemptInv, ShownInv, SessTypes, AttemptOf, ShownOf, RoomOf,
     AtLock, Shown, Busy, JoinAt, JoinOver
<1>22. ShownInv'
  BY SessionAssumption, <1>1, <1>2, <1>4, <1>5 DEF ShownInv, AttemptInv, SessTypes, V!InCall, AttemptOf,
     ShownOf, RoomOf, AtLock, Shown, Busy, JoinAt, JoinOver
<1>23. LockInv'
  BY SessionAssumption, <1>1, <1>2, <1>4, <1>5 DEF LockInv, ShownInv, AttemptInv, SessTypes, V!InCall,
     AttemptOf, ShownOf, RoomOf, AtLock, Shown, Busy, JoinAt, JoinOver
<1>24. RoomInv'
  BY SessionAssumption, <1>1, <1>2, <1>4, <1>5 DEF RoomInv, ShownInv, AttemptInv, SessTypes, Drops, AttemptOf,
     ShownOf, RoomOf, AtLock, Shown, Busy, JoinAt, JoinOver
<1>25. StrayInv'
  BY SessionAssumption, <1>1, <1>2, <1>4, <1>5 DEF StrayInv, ShownInv, AttemptInv, RoomInv, SessTypes, Stray,
     Linked, Drops, AttemptOf, ShownOf, RoomOf, AtLock, Shown, Busy, JoinAt, JoinOver
<1>26. (row \subseteq open)' BY SessionAssumption, <1>1, <1>2, <1>4, <1>5 DEF RowInv, SessTypes, JoinAt, JoinOver
<1>27. (\A z \in row : Covered(z))'
  BY SessionAssumption, <1>1, <1>2, <1>4, <1>5 DEF RowInv, Covered, Told1, Switches, Tells, RoomInv,
     AttemptInv, SessTypes, AttemptOf, ShownOf, RoomOf, AtLock, Shown, Busy, JoinAt, JoinOver
<1>28. (\A i \in JoinRuns : CountedInv(i))'
  BY SessionAssumption, <1>1, <1>2, <1>4, <1>5 DEF RowInv, CountedInv, TakenUp, Told1, Tells, Drops, Stray, ShownInv,
     AttemptInv, RoomInv, StrayInv, Linked, SessTypes, AttemptOf, ShownOf, RoomOf, AtLock, Shown, Busy, JoinAt,
     JoinOver
<1>29. DropInv'
  BY SessionAssumption, <1>1, <1>2, <1>4, <1>5 DEF RowInv, DropInv, Drops, RoomInv, AttemptInv, ShownInv,
     StrayInv, Stray, Linked, SessTypes, AttemptOf, ShownOf, RoomOf, AtLock, Shown, Busy, JoinAt, JoinOver
<1> QED BY <1>20, <1>21, <1>22, <1>23, <1>24, <1>25, <1>26, <1>27, <1>28, <1>29 DEF SessInv, RowInv

LEMMA DepartedKeeps == ASSUME SessInv, NEW j \in JoinRuns, V!Departed(j) PROVE SessInv'
<1> USE DEF SessInv
<1> DEFINE c == joins[j].conv
           again == \E k \in JoinRuns \ {j} : joins[k].conv = c /\ (V!Admittance(k) \/ room[k] = "open")
<1>1. /\ room[j] \in {"closed", "ended"} /\ c \notin forgotten
      /\ (row' = row /\ (again \/ c \in sweep)) \/ (row' = row \ {c} /\ ~again)
      /\ UNCHANGED <<ui, plan, attempt, transport, hangingUp, leaves, watching, joins, downs, lock, open,
                     forgotten, followUp, sweep>>
  BY DEF V!Departed, V!Departing, V!Again, V!page, V!sfu
<1>2. /\ room' \in [JoinRuns -> {"none", "connecting", "open", "closed", "ended", "left"}] /\ room'[j] = "left"
      /\ \A k \in JoinRuns : k # j => room'[k] = room[k]
  BY DEF V!Departed, SessTypes
<1>3. row' \subseteq row /\ (\A z \in row : z # c => z \in row') /\ (c \in row' => again \/ c \in sweep) /\ (again => row' = row)
  BY <1>1
<1>4. ASSUME NEW k \in JoinRuns, V!Admittance(k) \/ room[k] = "open"
      PROVE  Linked(k) /\ (watching = k \/ Stray(k) \/ \E d \in Downs : Drops(d, k) /\ room[k] = "open")
  <2>1. CASE V!Admittance(k) /\ joins[k].live
    <3>1. AttemptOf(k) /\ ShownOf(k) BY DEF AttemptInv, ShownInv
    <3>2. watching = k BY <2>1, <3>1 DEF V!Admittance, AttemptOf, ShownOf, AtLock, Shown
    <3> QED BY <3>2 DEF Linked
  <2>2. CASE V!Admittance(k) /\ ~joins[k].live BY <2>2 DEF V!Admittance, Stray, Linked
  <2>3. CASE room[k] = "open"
    <3>1. AttemptOf(k) /\ ShownOf(k) /\ RoomOf(k) BY DEF AttemptInv, ShownInv, RoomInv
    <3> QED BY <2>3, <3>1 DEF RoomOf, ShownOf, AttemptOf, AtLock, Shown, Stray, Linked
  <2> QED BY <1>4, <2>1, <2>2, <2>3
<1>5. Stray(j) => c \notin row' \/ c \in sweep BY <1>3, <1>4 DEF StrayInv
<1>6. \A z : Told1(z) => Told1(z)' BY <1>1 DEF Told1, Tells, Busy
<1>27. ASSUME NEW z \in row' PROVE Covered(z)'
  <2>1. Covered(z) /\ z \in row /\ z \in open BY <1>3 DEF RowInv
  <2>2. CASE z # c BY <1>1, <1>2, <2>1, <2>2 DEF Covered, Told1, Tells, Busy, Switches
  <2>3. CASE z = c
    <3>5. CASE c \in sweep BY <1>1, <2>3, <3>5 DEF Covered
    <3> SUFFICES ASSUME c \notin sweep PROVE Covered(z)' BY <3>5
    <3>1. PICK k \in JoinRuns \ {j} : joins[k].conv = c /\ (V!Admittance(k) \/ room[k] = "open") BY <1>3, <2>3
    <3>2. CASE watching = k BY <1>1, <2>3, <3>1, <3>2, SessionAssumption DEF Covered
    <3>3. CASE Stray(k)
      <4>1. CountedInv(k) BY DEF RowInv
      <4>2. CASE joins[k].pc \in {"key", "connect", "close"}
        <5>1. joins[k].conv = c /\ c \in row BY <2>1, <2>3, <3>1
        <5>2. Told1(c) \/ room'[k] \in {"closed", "ended"}
          BY <1>2, <3>1, <3>3, <4>1, <4>2, <5>1 DEF CountedInv, TakenUp
        <5>3. Told1(z) => Told1(z)' BY <1>6
        <5> QED BY <1>1, <2>3, <3>1, <5>2, <5>3 DEF Covered
      <4>3. CASE joins[k].pc = "abandon" BY <1>1, <2>3, <3>1, <4>3 DEF Covered
      <4>4. CASE joins[k].pc = "mic"
        <5>1. \/ Told1(c) \/ room[k] \in {"closed", "ended"} \/ \E d \in Downs : Drops(d, k) /\ downs[d].keep
          BY <2>1, <2>3, <3>1, <3>3, <4>1, <4>4 DEF CountedInv, TakenUp
        <5>2. room'[k] = room[k] BY <1>2, <3>1
        <5>3. Told1(z) => Told1(z)' BY <1>6
        <5> QED BY <1>1, <2>3, <3>1, <5>1, <5>2, <5>3 DEF Covered, Drops, Switches
      <4>5. CASE joins[k].pc = "obtain"
        <5>1. room[k] = "none" /\ ~V!Admittance(k) BY <4>5 DEF RoomInv, RoomOf, V!Admittance
        <5> QED BY <3>1, <5>1
      <4> QED BY <3>3, <4>2, <4>3, <4>4, <4>5 DEF Stray
    <3>4. ASSUME NEW d \in Downs, Drops(d, k), room[k] = "open" PROVE Covered(z)'
      <4>1. downs[d].call = c \/ downs[d].keep BY <2>1, <2>3, <3>1, <3>4 DEF RowInv, DropInv
      <4> QED BY <1>1, <2>3, <3>1, <3>4, <4>1 DEF Covered, Told1, Tells, Busy, Switches, Drops
    <3> QED BY <1>4, <3>1, <3>2, <3>3, <3>4
  <2> QED BY <2>2, <2>3
<1>28. ASSUME NEW i \in JoinRuns PROVE CountedInv(i)'
  <2>1. CountedInv(i) /\ joins[i].conv \in Conv \cup {None} /\ open \subseteq Conv
    BY DEF RowInv, SessTypes, JoinState
  <2>2. CASE i = j
    <3>1. joins[i].pc \notin {"key", "connect"} /\ room'[i] # "open" BY <1>1, <1>2, <2>2 DEF RoomInv, RoomOf
    <3> QED BY <1>1, <1>5, <2>1, <2>2, <3>1 DEF CountedInv, TakenUp, Stray
  <2>3. CASE i # j /\ (joins[i].conv \in row' <=> joins[i].conv \in row)
    BY <1>1, <1>2, <2>1, <2>3, CountedStays, SessionAssumption
  <2>4. CASE i # j /\ joins[i].conv = c /\ ~again
    <3>1. ~V!Admittance(i) /\ room[i] # "open" BY <2>4
    <3> QED BY <1>1, <1>2, <1>3, <2>4, <3>1 DEF CountedInv, V!Admittance, Stray
  <2> QED BY <1>3, <2>2, <2>3, <2>4
<1> HIDE DEF c, again
<1>20. SessTypes' BY SessionAssumption, <1>1, <1>2, <1>3 DEF SessTypes, JoinAt, JoinOver
<1>21. AttemptInv'
  BY SessionAssumption, <1>1, <1>2, <1>3 DEF AttemptInv, ShownInv, SessTypes, AttemptOf, ShownOf, RoomOf,
     AtLock, Shown, Busy, JoinAt, JoinOver
<1>22. ShownInv'
  BY SessionAssumption, <1>1, <1>2, <1>3 DEF ShownInv, AttemptInv, SessTypes, V!InCall, AttemptOf, ShownOf,
     RoomOf, AtLock, Shown, Busy, JoinAt, JoinOver
<1>23. LockInv'
  BY SessionAssumption, <1>1, <1>2, <1>3 DEF LockInv, ShownInv, AttemptInv, SessTypes, V!InCall, AttemptOf,
     ShownOf, RoomOf, AtLock, Shown, Busy, JoinAt, JoinOver
<1>24. RoomInv'
  BY SessionAssumption, <1>1, <1>2, <1>3 DEF RoomInv, ShownInv, AttemptInv, SessTypes, Drops, AttemptOf,
     ShownOf, RoomOf, AtLock, Shown, Busy, JoinAt, JoinOver
<1>25. StrayInv'
  BY SessionAssumption, <1>1, <1>2, <1>3 DEF StrayInv, ShownInv, AttemptInv, RoomInv, SessTypes, Stray, Linked,
     Drops, AttemptOf, ShownOf, RoomOf, AtLock, Shown, Busy, JoinAt, JoinOver
<1>26. (row \subseteq open)' BY SessionAssumption, <1>1, <1>2, <1>3 DEF RowInv, SessTypes, JoinAt, JoinOver
<1>29. DropInv'
  BY SessionAssumption, <1>1, <1>2, <1>3 DEF RowInv, DropInv, Drops, RoomInv, AttemptInv, ShownInv, StrayInv,
     Stray, Linked, SessTypes, AttemptOf, ShownOf, RoomOf, AtLock, Shown, Busy, JoinAt, JoinOver
<1> QED BY <1>20, <1>21, <1>22, <1>23, <1>24, <1>25, <1>26, <1>27, <1>28, <1>29 DEF SessInv, RowInv

-----------------------------------------------------------------------------
(* A teardown begins. *)

\* What it does to the page: the session is the teardown's, or over at once.
LEMMA TeardownIs ==
    ASSUME SessTypes, NEW d \in Downs, NEW tell \in BOOLEAN, NEW keep \in BOOLEAN, NEW js, V!Teardown(d, tell, keep, js)
    PROVE  /\ downs[d].pc = "unused" /\ joins' = js
           /\ hangingUp' \in BOOLEAN /\ plan' \in Conv \cup {None}
           /\ attempt' = None /\ watching' = None /\ transport' = None
           /\ downs' \in [Downs -> DownState] /\ \A e \in Downs : e # d => downs'[e] = downs[e]
           /\ \/ /\ transport # None \/ (tell /\ ui.call # None)
                 /\ downs'[d].pc = (IF transport # None THEN "disconnect" ELSE "tell")
                 /\ downs'[d].transport = transport /\ downs'[d].call = (IF tell THEN ui.call ELSE None)
                 /\ downs'[d].keep = keep
                 /\ UNCHANGED <<ui, lock>>
              \/ /\ transport = None /\ (tell => ui.call = None)
                 /\ downs'[d].pc = "done"
                 /\ ui' \in UiState /\ ui'.phase = "idle" /\ ui'.call = None
                 /\ lock' = (IF ~keep /\ lock = "me" THEN "free" ELSE lock)
<1> DEFINE tells == IF tell THEN ui.call ELSE None
           pc == IF transport # None THEN "disconnect" ELSE IF tells # None THEN "tell" ELSE "done"
           r == [pc |-> pc, transport |-> transport, call |-> tells, keep |-> keep]
<1>1. /\ downs[d].pc = "unused" /\ joins' = js
      /\ hangingUp' \in BOOLEAN /\ plan' \in Conv \cup {None}
      /\ attempt' = None /\ watching' = None /\ transport' = None
  BY DEF V!Teardown, V!FirstDown, SessTypes
<1>2. downs' = [downs EXCEPT ![d] = IF pc = "done" THEN V!Ended ELSE r] BY DEF V!Teardown
<1>3. IF pc = "done" THEN V!Tail(keep) ELSE UNCHANGED <<ui, lock>> BY DEF V!Teardown
<1>4. V!Ended \in DownState /\ V!Ended.pc = "done" BY DEF V!Ended, V!NoDown, DownState
<1>5. ui \in UiState BY DEF SessTypes
<1>6. tells \in Conv \cup {None} BY <1>5 DEF UiState
<1>7. CASE pc = "done"
  <2>1. downs' \in [Downs -> DownState] /\ downs'[d].pc = "done" /\ \A e \in Downs : e # d => downs'[e] = downs[e]
    BY <1>2, <1>4, <1>7 DEF SessTypes
  <2>2. /\ ui' \in UiState /\ ui'.phase = "idle" /\ ui'.call = None
        /\ lock' = (IF ~keep /\ lock = "me" THEN "free" ELSE lock)
    BY <1>3, <1>7, IdleIs DEF V!Tail
  <2> QED BY <1>1, <1>7, <2>1, <2>2
<1>8. CASE pc # "done"
  <2>1. r \in DownState /\ r.pc = pc /\ r.transport = transport /\ r.call = tells /\ r.keep = keep
    BY <1>6, <1>8 DEF DownState, SessTypes
  <2>2. downs' = [downs EXCEPT ![d] = r] BY <1>2, <1>8
  <2>3. UNCHANGED <<ui, lock>> BY <1>3, <1>8
  <2> HIDE DEF r
  <2>4. downs' \in [Downs -> DownState] /\ downs'[d] = r /\ \A e \in Downs : e # d => downs'[e] = downs[e]
    BY <2>1, <2>2 DEF SessTypes
  <2> QED BY <1>1, <1>8, <2>1, <2>3, <2>4
<1> QED BY <1>7, <1>8

\* What becomes of the join o that asks for the teardown d.
SessionAsks(o, d) ==
    /\ ~joins'[o].live
    /\ \/ /\ joins[o].live /\ joins'[o].pc = "done" /\ joins'[o].conv = joins[o].conv /\ ~joins'[o].ended
          /\ joins'[o].leaves = 0
       \/ /\ ~V!Unfinished(o) /\ joins[o].pc = "checks" /\ joins'[o].pc = "out" /\ joins'[o].conv = joins[o].conv
          /\ joins[o].conv # ui.conv /\ joins'[o].ended = joins[o].ended
          /\ joins'[o].leaves = leaves /\ joins'[o].down = d
       \/ /\ ~V!Unfinished(o) /\ joins[o].pc = "unused" /\ joins'[o].pc = "switch" /\ joins'[o].conv \in Conv
          /\ ~joins'[o].ended /\ joins'[o].leaves = leaves /\ joins'[o].down = d

\* Why the row of the session w it ends is covered: it is told, or keeps the
\* call, or the call or its room is over.
Settled(w, tell, keep) ==
    \/ tell
    \/ joins[w].conv \notin open
    \/ /\ transport = w /\ room[w] = "open" /\ room'[w] = "ended"
       /\ joins[w].conv \in forgotten => followUp' = joins[w].conv
    \/ keep /\ transport = w /\ joins[w].pc \in {"mic", "done"}

LEMMA SessionIs ==
    ASSUME SessInv
    PROVE  /\ transport # None => watching = transport
           /\ watching # None => ui.call = joins[watching].conv /\ ui.conv = joins[watching].conv
                                 /\ joins[watching].pc \in {"key", "connect", "mic", "done"}
           /\ transport # None => joins[transport].pc \in {"connect", "mic", "done"}
           /\ attempt # None => /\ joins[attempt].live /\ (\A d \in Downs : ~Busy(d))
                                /\ watching \in {None, attempt} /\ joins[attempt].conv \in Conv
                                /\ \A k \in JoinRuns : joins[k].pc \notin {"switch", "out"}
           /\ \A k \in JoinRuns : joins[k].live => attempt = k
           /\ attempt # None /\ Shown(attempt) => ui.conv = joins[attempt].conv /\ ui.phase \in V!InCall
           /\ attempt # None /\ joins[attempt].pc \in {"key", "connect", "mic"} => watching = attempt
           /\ ui.phase \in V!InCall => \A k \in JoinRuns : ~AtLock(k)
<1> USE DEF SessInv
<1>1. transport \in JoinRuns \cup {None} /\ watching \in JoinRuns \cup {None} /\ attempt \in JoinRuns \cup {None}
  BY DEF SessTypes
<1>2. ASSUME NEW k \in JoinRuns PROVE ShownOf(k) /\ AttemptOf(k) BY DEF ShownInv, AttemptInv
<1>3. transport # None => watching = transport BY <1>1, <1>2 DEF ShownOf
<1>4. watching # None => ui.call = joins[watching].conv /\ ui.conv = joins[watching].conv
                                 /\ joins[watching].pc \in {"key", "connect", "mic", "done"}
  BY <1>1, <1>2 DEF ShownOf
<1>5. transport # None => joins[transport].pc \in {"connect", "mic", "done"}
  BY <1>1, <1>2, <1>3 DEF ShownOf
<1>6. attempt # None => joins[attempt].live BY <1>1, <1>2 DEF AttemptOf
<1>7. attempt # None => /\ (\A d \in Downs : ~Busy(d)) /\ joins[attempt].conv \in Conv
                        /\ \A k \in JoinRuns : /\ joins[k].pc \notin {"switch", "out"}
                                               /\ k # attempt => watching # k
  BY <1>1, <1>6, AliveIs
<1>8. \A k \in JoinRuns : joins[k].live => attempt = k BY <1>2 DEF AttemptOf
<1>9. attempt # None /\ Shown(attempt) => ui.conv = joins[attempt].conv /\ ui.phase \in V!InCall
  BY <1>1, <1>2, <1>6 DEF ShownOf
<1>10. attempt # None /\ joins[attempt].pc \in {"key", "connect", "mic"} => watching = attempt
  BY <1>1, <1>2, <1>6 DEF ShownOf
<1>11. ui.phase \in V!InCall => \A k \in JoinRuns : ~AtLock(k) BY <1>2 DEF ShownOf, AttemptOf
<1> QED BY <1>1, <1>3, <1>4, <1>5, <1>6, <1>7, <1>8, <1>9, <1>10, <1>11

\* All that a teardown d that begins may do, o the join that asks for it (or None).
Begins(d, tell, keep, js, o) ==
    /\ V!Teardown(d, tell, keep, js) /\ ui.phase \in V!InCall /\ js \in [JoinRuns -> JoinState]
    /\ \A k \in JoinRuns : k # o => /\ ~js[k].live /\ js[k].pc = joins[k].pc /\ js[k].conv = joins[k].conv
                                    /\ js[k].leaves = joins[k].leaves /\ js[k].down = joins[k].down
                                    /\ js[k].ended = joins[k].ended
                                    /\ k # attempt => js[k] = joins[k]
                                    /\ joins[k].pc \in {"switch", "out"} => joins[k].leaves # leaves'
    /\ o # None => SessionAsks(o, d) /\ (joins'[o].pc # "done" => leaves' = leaves)
    /\ keep => o # None /\ joins'[o].pc = "switch"
    /\ leaves' \in Nat /\ leaves' >= leaves
    /\ attempt # None /\ attempt # o => /\ joins[attempt].pc = "obtain" => js[attempt].tell
                                        /\ joins[attempt].pc \in {"key", "connect"} => tell
    /\ watching # None => Settled(watching, tell, keep)
    /\ room' \in [JoinRuns -> {"none", "connecting", "open", "closed", "ended", "left"}]
    /\ \A k \in JoinRuns : \/ room'[k] = room[k]
                           \/ room[k] = "connecting" /\ room'[k] \in {"none", "closed"} /\ k = o /\ joins'[o].pc = "done"
                           \/ room[k] = "open" /\ room'[k] = "ended"
    /\ o # None /\ joins'[o].pc = "done" => room'[o] # "connecting"
    /\ sweep' \subseteq Conv /\ followUp' \in Conv \cup {None} /\ \A z \in sweep : z \in sweep'
    /\ followUp' = followUp \/ followUp = None \/ followUp \in sweep'
    /\ row' = row \/ \E c \in open \cap sweep' : row' = row \cup {c}
    /\ open' = open /\ forgotten' = forgotten

LEMMA StartKeeps ==
    ASSUME SessInv, NEW d \in Downs, NEW tell \in BOOLEAN, NEW keep \in BOOLEAN, NEW js, NEW o \in JoinRuns \cup {None},
           Begins(d, tell, keep, js, o)
    PROVE  SessInv'
<1> USE DEF SessInv
<1>0. /\ V!Teardown(d, tell, keep, js) /\ ui.phase \in V!InCall /\ js \in [JoinRuns -> JoinState]
      /\ leaves' \in Nat /\ leaves' >= leaves
      /\ row \subseteq row' /\ row' \subseteq open /\ (\A z \in row' : z \in row \/ z \in sweep')
      /\ open' = open /\ forgotten' = forgotten
      /\ sweep' \subseteq Conv /\ followUp' \in Conv \cup {None} /\ \A z \in sweep : z \in sweep'
      /\ followUp' = followUp \/ followUp = None \/ followUp \in sweep'
  BY DEF Begins, RowInv
<1>17. /\ o # None => SessionAsks(o, d) /\ (joins'[o].pc # "done" => leaves' = leaves)
       /\ keep => o # None /\ joins'[o].pc = "switch"
       /\ attempt # None /\ attempt # o => /\ joins[attempt].pc = "obtain" => js[attempt].tell
                                           /\ joins[attempt].pc \in {"key", "connect"} => tell
       /\ watching # None => Settled(watching, tell, keep)
  BY DEF Begins
<1>18. /\ room' \in [JoinRuns -> {"none", "connecting", "open", "closed", "ended", "left"}]
       /\ \A k \in JoinRuns : \/ room'[k] = room[k]
                              \/ room[k] = "connecting" /\ room'[k] \in {"none", "closed"} /\ k = o /\ joins'[o].pc = "done"
                              \/ room[k] = "open" /\ room'[k] = "ended"
       /\ o # None /\ joins'[o].pc = "done" => room'[o] # "connecting"
  BY DEF Begins
<1> USE <1>0, <1>17, <1>18
<1>1. /\ downs[d].pc = "unused" /\ joins' = js
      /\ hangingUp' \in BOOLEAN /\ plan' \in Conv \cup {None}
      /\ attempt' = None /\ watching' = None /\ transport' = None
      /\ downs' \in [Downs -> DownState] /\ \A e \in Downs : e # d => downs'[e] = downs[e]
  BY TeardownIs
<1>2. \/ /\ transport # None \/ (tell /\ ui.call # None)
         /\ downs'[d].pc = (IF transport # None THEN "disconnect" ELSE "tell")
         /\ downs'[d].transport = transport /\ downs'[d].call = (IF tell THEN ui.call ELSE None)
         /\ downs'[d].keep = keep
         /\ UNCHANGED <<ui, lock>>
      \/ /\ transport = None /\ (tell => ui.call = None)
         /\ downs'[d].pc = "done"
         /\ ui' \in UiState /\ ui'.phase = "idle" /\ ui'.call = None
         /\ lock' = (IF ~keep /\ lock = "me" THEN "free" ELSE lock)
  BY TeardownIs
<1>3. \A k \in JoinRuns : k # o =>
        /\ ~joins'[k].live /\ joins'[k].pc = joins[k].pc /\ joins'[k].conv = joins[k].conv
        /\ joins'[k].leaves = joins[k].leaves /\ joins'[k].down = joins[k].down
        /\ joins'[k].ended = joins[k].ended
        /\ k # attempt => joins'[k] = joins[k]
        /\ joins[k].pc \in {"switch", "out"} => joins[k].leaves # leaves'
  BY <1>1 DEF Begins
<1>4. o # None => o \in JoinRuns /\ SessionAsks(o, d) /\ (joins'[o].pc # "done" => leaves' = leaves) OBVIOUS
<1>5. /\ transport \in JoinRuns \cup {None} /\ watching \in JoinRuns \cup {None} /\ attempt \in JoinRuns \cup {None}
      /\ \A k \in JoinRuns : joins[k] \in JoinState /\ joins[k].leaves \in Nat
      /\ leaves \in Nat /\ row \subseteq Conv /\ open \subseteq Conv /\ forgotten \subseteq Conv
  BY DEF SessTypes, JoinState
<1>6. \A k \in JoinRuns : ~joins'[k].live BY <1>3, <1>4, SessionAssumption DEF SessionAsks
<1>7. \A e \in Downs : Busy(e) => e # d /\ Busy(e)' BY <1>1 DEF Busy
<1>8. \A e \in Downs : \A k : e # d => (Drops(e, k)' <=> Drops(e, k)) BY <1>1 DEF Drops
<1>9. \A k : Drops(d, k)' <=> transport # None /\ transport = k
  BY <1>2 DEF Drops
<1>10. \A z : Told1(z) => Told1(z)' BY <1>1, <1>7 DEF Told1, Tells, Busy
<1>11. \A e \in Downs : downs[e].pc = "disconnect" =>
         /\ e # d /\ downs'[e] = downs[e] /\ downs[e].transport \in JoinRuns
         /\ joins'[downs[e].transport].conv = joins[downs[e].transport].conv
  <2>1. ASSUME NEW e \in Downs, downs[e].pc = "disconnect"
        PROVE  /\ e # d /\ downs[e].transport \in JoinRuns
               /\ joins[downs[e].transport].pc \in {"connect", "close", "mic", "done"}
    BY <1>1, <2>1 DEF RoomInv
  <2>2. o # None => joins[o].pc \in {"unused", "checks"} \/ joins[o].live BY <1>4 DEF SessionAsks
  <2>3. (\E e \in Downs : downs[e].pc = "disconnect") => attempt = None BY DEF AttemptInv, Busy
  <2>4. ASSUME NEW e \in Downs, downs[e].pc = "disconnect" PROVE downs[e].transport # o
    BY <1>4, <1>5, <2>1, <2>2, <2>3, <2>4, SessionIs, SessionAssumption
  <2> QED BY <1>1, <1>3, <2>1, <2>4
<1>12. \A k \in JoinRuns : ~AtLock(k)' BY <1>3, <1>4, SessionIs, SessionAssumption DEF SessionAsks, AtLock
<1>13. o # None /\ joins'[o].pc \in {"out", "switch"} =>
         /\ \A e \in Downs : ~Busy(e)
         /\ \A k \in JoinRuns : k # o => joins[k].pc \in {"unused", "done", "checks"} \/ joins[k].live
  BY <1>4, UnfinishedIs DEF SessionAsks
<1>20. SessTypes'
  BY <1>1, <1>2, <1>5 DEF SessTypes, DownState
<1>21. AttemptInv'
  <2>1. ASSUME NEW k \in JoinRuns PROVE AttemptOf(k)'
    <3>1. AttemptOf(k) BY DEF AttemptInv
    <3>2. CASE k = o
      <4>1. joins'[k].pc = "done" \/ joins'[k].pc \in {"out", "switch"}
        BY <1>4, <3>2, SessionAssumption DEF SessionAsks
      <4>2. CASE joins'[k].pc = "done"
        <5>1. joins'[k].leaves = 0 /\ joins'[k].conv \in Conv
          BY <1>4, <3>1, <3>2, <4>2, SessionAssumption DEF SessionAsks, AttemptOf, AtLock, Shown
        <5> QED BY <1>1, <1>6, <4>2, <5>1, SessionAssumption DEF AttemptOf, AtLock
      <4>3. CASE joins'[k].pc \in {"out", "switch"}
        <5>1. joins'[k].leaves = leaves /\ leaves' = leaves /\ joins'[k].down = d /\ joins'[k].conv \in Conv
          BY <1>4, <3>1, <3>2, <4>3, SessionAssumption DEF SessionAsks, AttemptOf
        <5>2. \A i \in JoinRuns \ {k} : joins'[i].pc \notin {"switch", "out"}
          BY <1>3, <1>4, <1>13, <3>2, <4>3, SessionIs, <1>5, SessionAssumption
        <5>3. \A e \in Downs : Busy(e)' => e = d BY <1>1, <1>4, <1>13, <3>2, <4>3, SessionAssumption DEF Busy
        <5> QED BY <1>1, <1>5, <1>6, <4>3, <5>1, <5>2, <5>3, SessionAssumption DEF AttemptOf, AtLock
      <4> QED BY <4>1, <4>2, <4>3
    <3>3. CASE k # o
      <4>1. joins'[k].pc \in {"switch", "out"} => \A i \in JoinRuns \ {k} : joins'[i].pc \notin {"switch", "out"}
        <5>1. ASSUME joins'[k].pc \in {"switch", "out"}, NEW i \in JoinRuns \ {k}, joins'[i].pc \in {"switch", "out"} PROVE FALSE
          <6>1. joins[k].pc \in {"switch", "out"} /\ attempt = None BY <1>3, <3>1, <3>3, <5>1 DEF AttemptOf
          <6>2. CASE i = o
            <7>1. joins[k].live BY <1>4, <1>13, <3>3, <5>1, <6>1, <6>2, SessionAssumption
            <7> QED BY <6>1, <7>1, SessionIs, SessionAssumption
          <6>3. CASE i # o BY <1>3, <3>1, <5>1, <6>1, <6>3 DEF AttemptOf
          <6> QED BY <6>2, <6>3
        <5> QED BY <5>1
      <4> QED BY <1>1, <1>3, <1>5, <1>6, <1>12, <3>1, <3>3, <4>1, SessionAssumption DEF AttemptOf, AtLock
    <3> QED BY <3>2, <3>3
  <2> QED BY <1>1, <2>1 DEF AttemptInv
<1>22. ShownInv'
  <2>1. ASSUME NEW k \in JoinRuns PROVE ShownOf(k)'
    <3>1. ShownOf(k) BY DEF ShownInv
    <3>2. joins'[k].ended => joins'[k].pc # "unused" /\ joins'[k].conv \notin open
      <4>1. CASE k = o BY <1>4, <3>1, <4>1, SessionAssumption DEF SessionAsks, ShownOf
      <4>2. CASE k # o BY <1>3, <3>1, <4>2 DEF ShownOf
      <4> QED BY <4>1, <4>2
    <3> QED BY <1>1, <1>6, <3>2, SessionAssumption DEF ShownOf
  <2>2. ui'.phase \in V!InCall => Busy(d)' BY <1>2 DEF Busy, V!InCall
  <2> QED BY <2>1, <2>2 DEF ShownInv
<1>23. LockInv'
  <2>1. ui'.phase \in V!InCall => lock' = "me" BY <1>2 DEF V!InCall, LockInv
  <2>2. CASE keep
    <3>1. o \in JoinRuns /\ joins'[o].pc = "switch" /\ joins'[o].leaves = leaves' BY <1>4, <2>2 DEF SessionAsks
    <3> QED BY <1>12, <2>1, <3>1 DEF LockInv, AtLock
  <2>3. CASE ~keep
    <3>1. lock' = "me" => Busy(d)' /\ ~downs'[d].keep BY <1>2, <2>3 DEF Busy
    <3> QED BY <1>12, <2>1, <3>1 DEF LockInv, AtLock
  <2> QED BY <2>2, <2>3
<1>24. RoomInv'
  <2>1. ASSUME NEW k \in JoinRuns PROVE RoomOf(k)'
    <3>1. RoomOf(k) BY DEF RoomInv
    <3>2. room[k] = "open" => \/ Drops(d, k)' \/ joins[k].pc = "close" \/ \E e \in Downs : Drops(e, k)'
      <4>1. \A e \in Downs : Drops(e, k) => Drops(e, k)' BY <1>8, <1>11 DEF Drops
      <4>2. transport = k => Drops(d, k)' BY <1>9, SessionAssumption
      <4> QED BY <3>1, <4>1, <4>2 DEF RoomOf
    <3>3. CASE k # o
      <4>1. room'[k] = room[k] \/ (room[k] = "open" /\ room'[k] = "ended") BY <3>3
      <4>2. transport' # k /\ joins'[k].pc = joins[k].pc BY <1>1, <1>3, <3>3, SessionAssumption
      <4> QED BY <3>1, <3>2, <4>1, <4>2 DEF RoomOf
    <3>4. CASE k = o
      <4>1. CASE joins'[o].pc = "done"
        <5>1. joins[k].pc # "close"
          BY <1>4, <3>4, <4>1, SessionAssumption DEF SessionAsks, AttemptInv, AttemptOf, AtLock, Shown
        <5>2. room'[k] # "connecting" BY <3>4, <4>1, SessionAssumption
        <5>3. room'[k] = "open" => room[k] = "open" BY <3>1
        <5>4. transport' # k BY <1>1, SessionAssumption
        <5> QED BY <3>2, <3>4, <4>1, <5>1, <5>2, <5>3, <5>4 DEF RoomOf
      <4>2. CASE joins'[o].pc # "done"
        <5>1. joins[o].pc \in {"checks", "unused"} /\ joins'[o].pc \in {"out", "switch"}
          BY <1>4, <3>4, <4>2, SessionAssumption DEF SessionAsks
        <5>2. room[o] = "none" /\ room'[o] = "none" BY <3>1, <3>4, <4>2, <5>1 DEF RoomOf
        <5> QED BY <3>4, <5>1, <5>2 DEF RoomOf
      <4> QED BY <4>1, <4>2
    <3> QED BY <3>3, <3>4
  <2>2. ASSUME NEW e \in Downs
        PROVE  /\ downs'[e].pc = "disconnect" => /\ downs'[e].transport \in JoinRuns
                                                 /\ joins'[downs'[e].transport].pc \in {"connect", "close", "mic", "done"}
               /\ downs'[e].pc = "tell" => downs'[e].call # None
    <3>1. ASSUME NEW k \in JoinRuns, joins[k].pc \in {"connect", "close", "mic", "done"}
          PROVE  joins'[k].pc \in {"connect", "close", "mic", "done"}
      BY <1>3, <1>4, <3>1, SessionAssumption DEF SessionAsks
    <3>2. CASE e # d BY <1>1, <3>1, <3>2 DEF RoomInv
    <3>3. CASE e = d
      <4>1. transport # None => transport \in JoinRuns /\ joins[transport].pc \in {"connect", "mic", "done"}
        BY <1>5, SessionIs
      <4> QED BY <1>2, <3>1, <3>3, <4>1
    <3> QED BY <3>2, <3>3
  <2> QED BY <2>1, <2>2 DEF RoomInv
\* A stray join was one, or is the join that had the attempt.
<1>14. ASSUME NEW k \in JoinRuns, Stray(k)'
       PROVE  k # o /\ joins'[k].conv = joins[k].conv /\ joins'[k].pc = joins[k].pc
              /\ ((Stray(k) /\ joins'[k] = joins[k]) \/ (joins[k].live /\ attempt = k /\ Shown(k)))
  <2>1. k # o BY <1>4, <1>14, SessionAssumption DEF SessionAsks, Stray
  <2>2. CASE joins[k].live
    <3>1. attempt = k /\ ~AtLock(k) BY <2>2, SessionIs
    <3> QED BY <1>3, <1>14, <2>1, <2>2, <3>1 DEF Stray, AttemptInv, AttemptOf
  <2>3. CASE ~joins[k].live
    <3>1. k # attempt BY <2>3, SessionIs, SessionAssumption, <1>5
    <3> QED BY <1>3, <1>14, <2>1, <2>3, <3>1 DEF Stray
  <2> QED BY <2>2, <2>3
<1>15. ASSUME NEW k \in JoinRuns, Linked(k)'
       PROVE  \/ k # o /\ joins'[k].conv = joins[k].conv /\ Linked(k)
              \/ k = o /\ joins'[k].pc = "out" /\ joins'[k].conv = joins[k].conv /\ joins[k].conv # ui.conv
              \/ k = o /\ joins'[k].conv = joins[k].conv /\ joins[k].live
  <2>1. CASE k = o
    <3>1. CASE joins'[k].pc = "switch"
      <4>1. joins[k].pc = "unused" BY <1>4, <2>1, <3>1, SessionAssumption DEF SessionAsks
      <4>2. ~Drops(d, k)' /\ \A e \in Downs : ~Drops(e, k)
        BY <1>9, <4>1, SessionIs DEF RoomInv, Drops
      <4> QED BY <1>1, <1>6, <1>8, <1>15, <3>1, <4>2, SessionAssumption DEF Linked, Stray
    <3> QED BY <1>4, <2>1, <3>1, SessionAssumption DEF SessionAsks
  <2>2. CASE k # o
    <3>1. joins'[k].conv = joins[k].conv BY <1>3, <2>2
    <3>2. CASE Stray(k)' BY <1>14, <2>2, <3>1, <3>2 DEF Linked
    <3>3. CASE joins'[k].pc = "out" BY <1>3, <2>2, <3>1, <3>3 DEF Linked
    <3>4. CASE \E e \in Downs : Drops(e, k)'
      <4>1. transport = k => watching = k BY SessionIs, SessionAssumption
      <4> QED BY <1>8, <1>9, <2>2, <3>1, <3>4, <4>1 DEF Linked
    <3> QED BY <1>1, <1>6, <1>15, <3>2, <3>3, <3>4, SessionAssumption DEF Linked
  <2> QED BY <2>1, <2>2
<1>25. StrayInv'
  <2>1. ASSUME NEW j \in JoinRuns, Stray(j)', NEW k \in JoinRuns \ {j}, Linked(k)' PROVE joins'[k].conv # joins'[j].conv
    <3>1. Linked(j) /\ joins'[j].conv = joins[j].conv /\ j # o BY <1>14, <2>1 DEF Linked
    <3>2. CASE joins'[k].conv = joins[k].conv /\ Linked(k)
      <4>1. CASE Stray(j) BY <2>1, <3>1, <3>2, <4>1 DEF StrayInv
      <4>2. CASE joins[j].live /\ attempt = j
        <5>1. Stray(k) \/ watching = k \/ joins[k].live \/ joins[k].pc = "out" \/ \E e \in Downs : Drops(e, k)
          BY <3>2 DEF Linked
        <5>2. CASE Stray(k) BY <2>1, <3>1, <3>2, <5>2 DEF StrayInv
        <5>3. ~(watching = k \/ joins[k].live \/ joins[k].pc = "out" \/ \E e \in Downs : Drops(e, k))
          BY <2>1, <4>2, SessionIs, SessionAssumption DEF Drops, Busy
        <5> QED BY <5>1, <5>2, <5>3
      <4> QED BY <1>14, <2>1, <4>1, <4>2
    <3>3. CASE k = o /\ joins'[k].pc = "out" /\ joins'[k].conv = joins[k].conv /\ joins[k].conv # ui.conv
      <4>1. joins[j].pc \in {"unused", "done", "checks"} \/ joins[j].live BY <1>13, <2>1, <3>3, SessionAssumption
      <4>2. joins[j].live /\ attempt = j /\ Shown(j) BY <1>14, <2>1, <4>1 DEF Stray
      <4>3. ui.conv = joins[j].conv BY <4>2, SessionIs, SessionAssumption
      <4> QED BY <3>1, <3>3, <4>3
    <3>4. CASE joins'[k].conv = joins[k].conv /\ joins[k].live
      BY <3>2, <3>4 DEF Linked
    <3> QED BY <1>15, <2>1, <3>2, <3>3, <3>4
  <2>2. ASSUME NEW j \in JoinRuns, Stray(j)', joins'[j].pc = "obtain" PROVE joins'[j].tell
    <3>1. CASE Stray(j) /\ joins'[j] = joins[j] BY <2>2, <3>1 DEF StrayInv
    <3>2. CASE joins[j].live /\ attempt = j BY <1>1, <1>14, <2>2, <3>2, SessionAssumption
    <3> QED BY <1>14, <2>2, <3>1, <3>2
  <2> QED BY <2>1, <2>2 DEF StrayInv
\* The session that ends.
<1>16. watching # None /\ tell => \E e \in Downs : Busy(e)' /\ downs'[e].call = joins[watching].conv
  <2>1. SUFFICES ASSUME watching # None, tell PROVE Busy(d)' /\ downs'[d].call = joins[watching].conv OBVIOUS
  <2>2. watching \in JoinRuns /\ ui.call = joins[watching].conv /\ joins[watching].pc # "unused"
    BY <1>5, <2>1, SessionIs
  <2>3. ui.call # None BY <2>2, SessionAssumption DEF AttemptInv, AttemptOf
  <2> QED BY <1>2, <2>1, <2>2, <2>3 DEF Busy
<1>26. (row \subseteq open)' BY DEF RowInv
<1>27. ASSUME NEW z \in row' PROVE Covered(z)'
  <2>8. CASE z \notin row BY <2>8 DEF Covered
  <2> SUFFICES ASSUME z \in row PROVE Covered(z)' BY <2>8
  <2>1. Covered(z) /\ z \in open /\ z \in Conv BY <1>5 DEF RowInv
  <2>2. CASE watching # None /\ joins[watching].conv = z
    <3>1. Settled(watching, tell, keep) BY <2>2
    <3>3. joins'[watching].conv = z
      <4>1. watching \in JoinRuns /\ joins[watching].pc \notin {"unused", "checks"} BY <1>5, <2>2, SessionIs
      <4> QED BY <1>3, <1>4, <2>2, <4>1 DEF SessionAsks
    <3>4. CASE tell
      <4>1. \E e \in Downs : Busy(e)' /\ downs'[e].call = z BY <1>16, <2>2, <3>4
      <4> QED BY <4>1 DEF Covered, Told1, Tells
    <3>5. CASE room'[watching] = "ended" /\ (z \in forgotten => followUp' = z) BY <1>5, <2>2, <3>3, <3>5 DEF Covered
    <3>6. CASE keep /\ transport = watching BY <1>2, <1>5, <2>2, <3>3, <3>6 DEF Covered, Switches
    <3> QED BY <2>1, <2>2, <3>1, <3>4, <3>5, <3>6 DEF Settled
  <2>3. CASE z \in sweep \/ (followUp = z /\ z \in forgotten) BY <2>1, <2>3, SessionAssumption DEF Covered
  <2>4. CASE z \notin forgotten /\ \E j \in JoinRuns : joins[j].conv = z /\ room[j] \in {"closed", "ended"}
    <3>1. PICK j \in JoinRuns : joins[j].conv = z /\ room[j] \in {"closed", "ended"} BY <2>4
    <3>2. room'[j] = room[j] BY <3>1
    <3>3. joins[j].pc \notin {"unused", "checks"} BY <3>1 DEF RoomInv, RoomOf
    <3>4. joins'[j].conv = z BY <1>3, <1>4, <3>1, <3>3, SessionAssumption DEF SessionAsks
    <3> QED BY <2>4, <3>1, <3>2, <3>4 DEF Covered
  <2>5. CASE Told1(z) BY <1>10, <2>5 DEF Covered
  <2>6. CASE Switches(z) BY <1>11, <2>6 DEF Covered, Switches
  <2>7. CASE \E j \in JoinRuns : joins[j].pc = "abandon" /\ joins[j].conv = z
    <3>1. PICK j \in JoinRuns : joins[j].pc = "abandon" /\ joins[j].conv = z BY <2>7
    <3>2. ~joins[j].live BY <3>1 DEF AttemptInv, AttemptOf, AtLock, Shown
    <3>3. j # o BY <1>4, <3>1, <3>2, SessionAssumption DEF SessionAsks
    <3> QED BY <1>3, <3>1, <3>3 DEF Covered
  <2> QED BY <2>1, <2>2, <2>3, <2>4, <2>5, <2>6, <2>7 DEF Covered
<1>28. ASSUME NEW i \in JoinRuns PROVE CountedInv(i)'
  <2>1. ASSUME Stray(i)', joins'[i].conv \in row'
        PROVE  /\ joins'[i].pc \in {"key", "connect", "close"} => TakenUp(i)'
               /\ joins'[i].pc = "mic" => \/ TakenUp(i)'
                                          \/ \E e \in Downs : Drops(e, i)' /\ downs'[e].keep
    <3>1. i # o /\ joins'[i].conv = joins[i].conv /\ joins'[i].pc = joins[i].pc BY <1>14, <2>1
    <3>4. CASE joins[i].conv \notin row BY <2>1, <3>1, <3>4 DEF TakenUp
    <3> SUFFICES ASSUME joins[i].conv \in row
                 PROVE  /\ joins'[i].pc \in {"key", "connect", "close"} => TakenUp(i)'
                        /\ joins'[i].pc = "mic" => TakenUp(i)' \/ \E e \in Downs : Drops(e, i)' /\ downs'[e].keep
      BY <3>4
    <3>2. CASE Stray(i)
      <4>1. CountedInv(i) /\ joins[i].conv \in row BY <2>1, <3>1 DEF RowInv
      <4>2. Told1(joins[i].conv) => \E e \in Downs : Tells(e, joins[i].conv) /\ Busy(e)' /\ downs'[e] = downs[e]
        BY <1>1, <1>7 DEF Told1, Tells
      <4>6. Told1(joins[i].conv) => Told1(joins[i].conv)' BY <3>1, <4>2 DEF Told1, Tells
      <4>3. room[i] \in {"closed", "ended"} => room'[i] \in {"closed", "ended"} OBVIOUS
      <4>4. \A e \in Downs : Drops(e, i) /\ downs[e].keep => Drops(e, i)' /\ downs'[e].keep
        BY <1>11 DEF Drops
      <4> QED BY <3>1, <3>2, <4>1, <4>3, <4>4, <4>6 DEF CountedInv, TakenUp
    <3>3. CASE joins[i].live /\ attempt = i /\ Shown(i)
      <4>1. joins[i].pc \in {"key", "connect", "mic"} => watching = i BY <3>3, SessionIs, SessionAssumption
      <4>2. joins[i].pc # "close" BY <3>3 DEF Shown
      <4>3. CASE tell /\ joins[i].pc # "obtain"
        <5>1. watching = i BY <3>3, <4>1, <4>3 DEF Shown
        <5>2. \E e \in Downs : Busy(e)' /\ downs'[e].call = joins'[i].conv
          BY <1>5, <1>16, <3>1, <4>3, <5>1, SessionAssumption
        <5> QED BY <3>1, <5>2, <4>3, <4>2 DEF TakenUp, Told1, Tells
      <4>4. CASE ~tell /\ joins[i].pc = "mic"
        <5>1. watching = i /\ Settled(i, tell, keep) BY <4>1, <4>4, SessionAssumption
        <5>2. joins[i].conv \in open BY <2>1, <3>1 DEF RowInv
        <5>3. CASE room'[i] = "ended" BY <5>3, <3>1, <4>4 DEF TakenUp
        <5>4. CASE keep /\ transport = i BY <1>2, <1>9, <3>1, <4>4, <5>4, SessionAssumption
        <5> QED BY <3>1, <4>4, <5>1, <5>2, <5>3, <5>4 DEF Settled
      <4>5. CASE joins[i].pc = "obtain" BY <3>1, <4>5
      <4> QED BY <1>5, <3>1, <3>3, <4>2, <4>3, <4>4, <4>5, SessionAssumption DEF Shown
    <3> QED BY <1>14, <2>1, <3>2, <3>3
  <2> QED BY <1>1, <2>1, SessionAssumption DEF CountedInv, TakenUp, Told1, Tells, Drops
<1>29. DropInv'
  <2>1. ASSUME NEW e \in Downs, NEW k \in JoinRuns, Drops(e, k)', room'[k] \in {"none", "open", "connecting"}, joins'[k].conv \in open'
        PROVE  downs'[e].call = joins'[k].conv \/ (downs'[e].keep /\ room'[k] = "open")
    <3>1. room'[k] = room[k] \/ (room[k] = "connecting" /\ room'[k] = "none") BY <2>1
    <3>2. CASE e # d
      <4>1. Drops(e, k) /\ downs'[e] = downs[e] BY <1>1, <1>8, <2>1, <3>2
      <4>2. joins'[k].conv = joins[k].conv BY <1>11, <4>1 DEF Drops
      <4> QED BY <2>1, <3>1, <4>1, <4>2 DEF RowInv, DropInv
    <3>3. CASE e = d
      <4>1. transport = k /\ watching = k /\ ui.call = joins[k].conv /\ joins[k].pc \in {"connect", "mic", "done"}
        BY <1>9, <2>1, <3>3, SessionIs, SessionAssumption
      <4>2. joins'[k].conv = joins[k].conv BY <1>3, <1>4, <4>1, SessionAssumption DEF SessionAsks
      <4>3. downs'[d].call = (IF tell THEN ui.call ELSE None) /\ downs'[d].keep = keep
        BY <1>2, <4>1, SessionAssumption
      <4>4. Settled(k, tell, keep) BY <4>1, SessionAssumption
      <4>5. joins[k].pc \in {"mic", "done"} => room[k] \notin {"none", "connecting"} BY <4>1 DEF RoomInv, RoomOf
      <4> QED BY <2>1, <3>1, <3>3, <4>1, <4>2, <4>3, <4>4, <4>5 DEF Settled
    <3> QED BY <3>2, <3>3
  <2> QED BY <2>1 DEF DropInv, Drops
<1> QED BY <1>20, <1>21, <1>22, <1>23, <1>24, <1>25, <1>26, <1>27, <1>28, <1>29 DEF SessInv, RowInv

LEMMA SupersededIs ==
    ASSUME SessInv, NEW t \in BOOLEAN, NEW S, S = V!Superseded(t)
    PROVE  /\ S \in [JoinRuns -> JoinState]
           /\ \A k \in JoinRuns : /\ ~S[k].live /\ S[k].pc = joins[k].pc /\ S[k].conv = joins[k].conv
                                  /\ S[k].leaves = joins[k].leaves /\ S[k].down = joins[k].down /\ S[k].ended = joins[k].ended
                                  /\ k # attempt => S[k] = joins[k]
                                  /\ k = attempt => S[k].tell = t
<1> USE DEF SessInv
<1>1. joins \in [JoinRuns -> JoinState] /\ attempt \in JoinRuns \cup {None} BY DEF SessTypes
<1>2. \A k \in JoinRuns : joins[k].live <=> attempt = k BY DEF AttemptInv, AttemptOf
<1>3. CASE attempt = None BY <1>1, <1>2, <1>3, SessionAssumption DEF V!Superseded
<1>4. CASE attempt # None
  <2> DEFINE r == [joins[attempt] EXCEPT !.live = FALSE, !.tell = t]
  <2>1. attempt \in JoinRuns BY <1>1, <1>4
  <2>2. /\ r \in JoinState /\ ~r.live /\ r.tell = t /\ r.pc = joins[attempt].pc /\ r.conv = joins[attempt].conv
        /\ r.leaves = joins[attempt].leaves /\ r.down = joins[attempt].down /\ r.ended = joins[attempt].ended
    <3>1. joins[attempt] \in JoinState BY <1>1, <2>1
    <3> QED BY <3>1 DEF JoinState
  <2>3. S = [joins EXCEPT ![attempt] = r] BY <1>1, <1>4, <2>1 DEF V!Superseded
  <2> HIDE DEF r
  <2> QED BY <1>1, <1>2, <2>1, <2>2, <2>3
<1> QED BY <1>3, <1>4

\* A join that fails, or finds at its end that its call is over.
LEMMA FailedKeeps ==
    ASSUME SessInv, NEW j \in JoinRuns, NEW d \in Downs, NEW tell \in BOOLEAN, NEW js, V!Teardown(d, tell, FALSE, js),
           joins[j].live, Shown(j), js = V!Over(V!Superseded(tell), j) \/ js = V!Over(joins, j),
           joins[j].pc \in {"key", "connect"} => tell,
           joins[j].pc = "mic" => joins[j].ended,
           IF joins[j].pc = "connect" THEN \E r \in {"none", "closed"} : room' = [room EXCEPT ![j] = r] ELSE room' = room,
           UNCHANGED <<row, sweep>> \/ IsLost(j),
           UNCHANGED <<open, forgotten, followUp, leaves>>
    PROVE  SessInv'
<1> USE DEF SessInv
<1>1. joins' = js /\ attempt = j
  <2>1. joins' = js BY DEF V!Teardown
  <2> QED BY <2>1 DEF AttemptInv, AttemptOf
<1>2. JoinOver(j) BY <1>1, OverMoves
<1>3. /\ \A k \in JoinRuns : joins[k].live <=> k = j
      /\ \A k \in JoinRuns : joins[k].pc \notin {"switch", "out"}
  BY AliveIs
<1>4. js \in [JoinRuns -> JoinState] BY <1>1, <1>2 DEF JoinOver
<1>5. \A k \in JoinRuns : k # j => /\ ~js[k].live /\ js[k].pc = joins[k].pc /\ js[k].conv = joins[k].conv
                                   /\ js[k].leaves = joins[k].leaves /\ js[k].down = joins[k].down
                                   /\ js[k].ended = joins[k].ended
                                   /\ k # attempt => js[k] = joins[k]
                                   /\ joins[k].pc \in {"switch", "out"} => joins[k].leaves # leaves'
  BY <1>1, <1>2, <1>3 DEF JoinOver
<1>6. SessionAsks(j, d) /\ joins'[j].pc = "done" BY <1>2 DEF SessionAsks, JoinOver
<1>7. watching # None => Settled(watching, tell, FALSE)
  <2>1. SUFFICES ASSUME watching # None, ~tell PROVE joins[watching].conv \notin open BY DEF Settled
  <2>2. watching = j BY <1>1, <2>1, SessionIs, SessionAssumption
  <2>3. joins[j].pc = "mic" BY <2>1, <2>2, SessionIs DEF Shown, ShownInv, ShownOf
  <2> QED BY <2>2, <2>3 DEF ShownInv, ShownOf
<1>8. /\ room' \in [JoinRuns -> {"none", "connecting", "open", "closed", "ended", "left"}]
      /\ \A k \in JoinRuns : \/ room'[k] = room[k]
                             \/ room[k] = "connecting" /\ room'[k] \in {"none", "closed"} /\ k = j /\ joins'[j].pc = "done"
                             \/ room[k] = "open" /\ room'[k] = "ended"
      /\ room'[j] # "connecting"
  BY <1>6 DEF SessTypes, RoomInv, RoomOf
<1>9. ui.phase \in V!InCall BY DEF ShownInv, ShownOf
<1>10. leaves \in Nat /\ sweep \subseteq Conv /\ followUp \in Conv \cup {None} BY DEF SessTypes
<1>11. V!Teardown(d, tell, FALSE, js) /\ j # None /\ FALSE \in BOOLEAN BY SessionAssumption
<1>12. leaves' \in Nat /\ leaves' >= leaves /\ (joins'[j].pc # "done" => leaves' = leaves) BY <1>10
<1>13. /\ sweep' \subseteq Conv /\ (\A z \in sweep : z \in sweep') /\ followUp' \in Conv \cup {None}
       /\ (followUp' = followUp \/ followUp = None \/ followUp \in sweep') /\ open' = open /\ forgotten' = forgotten
       /\ row' = row \/ \E c \in open \cap sweep' : row' = row \cup {c}
  <2>1. joins[j].conv \in Conv BY AliveIs
  <2> QED BY <1>10, <2>1 DEF IsLost
<1>14. attempt # None /\ attempt # j => FALSE BY <1>1
<1> HIDE DEF SessInv
<1>15. Begins(d, tell, FALSE, js, j) BY <1>4, <1>5, <1>6, <1>7, <1>8, <1>9, <1>11, <1>12, <1>13, <1>14 DEF Begins
<1> QED BY <1>11, <1>15, StartKeeps

LEMMA NotAdmittedKeeps == ASSUME SessInv, NEW j \in JoinRuns, V!NotAdmitted(j) PROVE SessInv'
<1>1. joins[j].pc = "obtain" /\ UNCHANGED <<room, forgotten, followUp, open>>
  BY DEF V!NotAdmitted, V!FailedBefore
<1>2. UNCHANGED <<row, sweep>> \/ IsLost(j) BY <1>1 DEF V!NotAdmitted, IsLost
<1>3. CASE joins[j].live
  <2>1. PICK d \in Downs : V!Teardown(d, FALSE, FALSE, V!Over(V!Superseded(FALSE), j))
    BY <1>3 DEF V!NotAdmitted, V!FailedBefore
  <2> QED BY <1>1, <1>2, <1>3, <2>1, FailedKeeps DEF V!NotAdmitted, V!FailedBefore, Shown
<1>4. CASE ~joins[j].live
  <2>1. JoinOver(j) BY <1>4, OverMoves DEF V!NotAdmitted, SessInv
  <2> QED BY <1>1, <1>2, <1>4, <2>1, OverKeeps DEF V!NotAdmitted, V!page
<1> QED BY <1>3, <1>4

LEMMA NoKeyKeeps == ASSUME SessInv, NEW j \in JoinRuns, V!NoKey(j) PROVE SessInv'
<1>1. PICK d \in Downs : V!Teardown(d, TRUE, FALSE, V!Over(V!Superseded(TRUE), j)) BY DEF V!NoKey, V!FailedBefore
<1> QED BY <1>1, FailedKeeps DEF V!NoKey, V!FailedBefore, Shown, V!sfu

LEMMA NotConnectedKeeps == ASSUME SessInv, NEW j \in JoinRuns, V!NotConnected(j) PROVE SessInv'
<1>1. CASE joins[j].live
  <2>1. PICK d \in Downs : V!Teardown(d, TRUE, FALSE, V!Over(V!Superseded(TRUE), j))
    BY <1>1 DEF V!NotConnected, V!FailedBefore
  <2> QED BY <1>1, <2>1, FailedKeeps DEF V!NotConnected, V!FailedBefore, Shown, V!sfu
<1>2. CASE ~joins[j].live
  <2>2. PICK r \in {"none", "closed"} : room' = [room EXCEPT ![j] = r] BY DEF V!NotConnected
  <2>1. JoinAt(j, "close") BY <1>2, JoinMoves, Places DEF V!NotConnected, SessInv
  <2> QED BY <1>2, <2>1, <2>2, RoomGivenBack DEF V!NotConnected, V!page, V!sfu, JoinAt
<1> QED BY <1>1, <1>2

LEMMA JoinedAllKeeps == ASSUME SessInv, NEW j \in JoinRuns, V!Joined(j) PROVE SessInv'
<1> USE DEF SessInv
<1>1. CASE ~joins[j].live /\ V!GiveUp(j) BY <1>1, GiveUpIs, OverKeeps DEF V!Joined
<1>2. CASE /\ joins[j].live /\ attempt' = None /\ joins' = V!Over(joins, j)
           /\ UNCHANGED <<ui, plan, transport, hangingUp, leaves, watching, downs, lock, room, row, open,
                          V!sfu>>
  <2>1. JoinOver(j) BY <1>2, OverMoves
  <2> QED BY <1>2, <2>1, JoinedKeeps DEF V!Joined, V!sfu
<1>3. CASE /\ joins[j].live /\ joins[j].ended
           /\ \E d \in Downs : V!Teardown(d, FALSE, FALSE, V!Over(joins, j))
           /\ UNCHANGED <<leaves, room, row, open, V!sfu>>
  <2>1. PICK d \in Downs : V!Teardown(d, FALSE, FALSE, V!Over(joins, j)) BY <1>3
  <2> QED BY <1>3, <2>1, FailedKeeps DEF V!Joined, Shown, V!sfu
<1> QED BY <1>1, <1>2, <1>3 DEF V!Joined

-----------------------------------------------------------------------------
\* A join under way that is superseded: by the person, by the SFU, or by a
\* call that ended.
LEMMA EndsKeeps ==
    ASSUME SessInv, NEW d \in Downs, NEW tell \in BOOLEAN, V!Teardown(d, tell, FALSE, V!Superseded(tell)), ui.phase \in V!InCall,
           leaves' = leaves + 1 \/ (leaves' = leaves /\ watching # None),
           tell \/ (watching # None /\ Settled(watching, FALSE, FALSE) /\ transport = watching
                    /\ joins[watching].pc \in {"mic", "done"}),
           room' = room \/ (transport # None /\ room[transport] = "open" /\ room' = [room EXCEPT ![transport] = "ended"]),
           sweep' \subseteq Conv, \A z \in sweep : z \in sweep', followUp' \in Conv \cup {None},
           followUp' = followUp \/ followUp = None \/ followUp \in sweep',
           UNCHANGED <<row, open, forgotten>>
    PROVE  SessInv'
<1> USE DEF SessInv
<1> DEFINE js == V!Superseded(tell)
<1>1. /\ js \in [JoinRuns -> JoinState]
      /\ \A k \in JoinRuns : /\ ~js[k].live /\ js[k].pc = joins[k].pc /\ js[k].conv = joins[k].conv
                             /\ js[k].leaves = joins[k].leaves /\ js[k].down = joins[k].down /\ js[k].ended = joins[k].ended
                             /\ k # attempt => js[k] = joins[k]
                             /\ k = attempt => js[k].tell = tell
  BY SupersededIs
<1>2. V!Teardown(d, tell, FALSE, js) OBVIOUS
<1> HIDE DEF js
<1>3. leaves \in Nat /\ attempt \in JoinRuns \cup {None} /\ transport \in JoinRuns \cup {None} /\ watching \in JoinRuns \cup {None}
  BY DEF SessTypes
<1>4. \A k \in JoinRuns : joins[k].pc \in {"switch", "out"} => joins[k].leaves # leaves'
  <2>1. ASSUME NEW k \in JoinRuns, joins[k].pc \in {"switch", "out"} PROVE joins[k].leaves # leaves'
    <3>1. watching = None /\ joins[k].leaves <= leaves BY <2>1 DEF AttemptInv, AttemptOf
    <3>2. joins[k].leaves \in Nat BY DEF SessTypes, JoinState
    <3> QED BY <1>3, <3>1, <3>2
  <2> QED BY <2>1
<1>5. attempt # None => /\ joins[attempt].pc = "obtain" => js[attempt].tell
                        /\ joins[attempt].pc \in {"key", "connect"} => tell
  <2>1. SUFFICES ASSUME attempt # None, ~tell PROVE joins[attempt].pc \notin {"obtain", "key", "connect"}
    BY <1>1, <1>3, SessionAssumption
  <2>2. watching = attempt BY <2>1, SessionIs
  <2> QED BY <2>1, <2>2
<1>6. watching # None => Settled(watching, tell, FALSE) BY DEF Settled
<1>7. /\ room' \in [JoinRuns -> {"none", "connecting", "open", "closed", "ended", "left"}]
      /\ \A k \in JoinRuns : room'[k] = room[k] \/ (room[k] = "open" /\ room'[k] = "ended")
  BY <1>3 DEF SessTypes
<1>8. leaves' \in Nat /\ leaves' >= leaves BY <1>3
<1>9. \A k \in JoinRuns : /\ ~js[k].live /\ js[k].pc = joins[k].pc /\ js[k].conv = joins[k].conv
                          /\ js[k].leaves = joins[k].leaves /\ js[k].down = joins[k].down
                          /\ js[k].ended = joins[k].ended
                          /\ k # attempt => js[k] = joins[k]
                          /\ joins[k].pc \in {"switch", "out"} => joins[k].leaves # leaves'
  BY <1>1, <1>4
<1>10. row' = row /\ open' = open /\ forgotten' = forgotten OBVIOUS
<1> HIDE DEF SessInv
<1>11. Begins(d, tell, FALSE, js, None) BY <1>1, <1>2, <1>5, <1>6, <1>7, <1>8, <1>9, <1>10 DEF Begins
<1> QED BY <1>11, StartKeeps

LEMMA LeaveKeeps == ASSUME SessInv, NEW d \in Downs, V!Leave(d) PROVE SessInv'
<1>1. sweep \subseteq Conv /\ followUp \in Conv \cup {None} BY DEF SessInv, SessTypes
<1> QED BY <1>1, EndsKeeps DEF V!Leave, V!sfu

LEMMA HearEndedKeeps == ASSUME SessInv, NEW j \in JoinRuns, V!HearEnded(j) PROVE SessInv'
<1> USE DEF SessInv
<1>1. CASE joins[j].pc # "done" BY <1>1, MarkKeeps
<1>2. CASE joins[j].pc = "done"
  <2>1. PICK d \in Downs : V!Teardown(d, FALSE, FALSE, V!Superseded(FALSE)) BY <1>2 DEF V!HearEnded
  <2>2. watching = j /\ transport = j /\ ui.call = joins[j].conv /\ joins[j].conv \notin open /\ ui.phase \in V!InCall
    BY <1>2, SessionAssumption DEF V!HearEnded, ShownInv, ShownOf, V!InCall
  <2>3. watching # None /\ Settled(watching, FALSE, FALSE) BY <2>2, SessionAssumption DEF Settled
  <2>4. UNCHANGED <<leaves, room, row, open, forgotten, followUp, sweep>> BY <1>2 DEF V!HearEnded, V!sfu
  <2>5. sweep \subseteq Conv /\ followUp \in Conv \cup {None} BY DEF SessTypes
  <2> QED BY <1>2, <2>1, <2>2, <2>3, <2>4, <2>5, EndsKeeps
<1> QED BY <1>1, <1>2

LEMMA SfuEndsKeeps == ASSUME SessInv, NEW j \in JoinRuns, NEW why, V!SfuEnds(j, why) PROVE SessInv'
<1> USE DEF SessInv
<1>1. /\ room[j] = "open" /\ room' = [room EXCEPT ![j] = "ended"]
      /\ why \in {"told", "gone", "unsettled"} /\ (joins[j].conv \in forgotten => why # "told")
      /\ UNCHANGED <<row, open, forgotten>>
  BY DEF V!SfuEnds
<1>2. CASE transport # j \/ hangingUp BY <1>1, <1>2, RoomEnds DEF V!SfuEnds, V!page
<1>3. CASE ~(transport # j \/ hangingUp)
  <2>1. PICK d \in Downs : V!Teardown(d, why = "gone", FALSE, V!Superseded(why = "gone")) BY <1>3 DEF V!SfuEnds
  <2>2. transport = j /\ watching = j /\ joins[j].conv = ui.call /\ joins[j].pc \in {"mic", "done"} /\ ui.phase \in V!InCall
    <3>1. ShownOf(j) /\ RoomOf(j) BY DEF ShownInv, RoomInv
    <3> QED BY <1>1, <1>3, <3>1 DEF ShownOf, RoomOf, V!InCall
  <2>3. ui.call # None BY <2>2, SessionAssumption DEF AttemptInv, AttemptOf
  <2>4. /\ leaves' = leaves
        /\ IF why = "unsettled"
           THEN followUp' = ui.call /\ sweep' = sweep \cup ({followUp} \ {None, ui.call})
           ELSE UNCHANGED <<followUp, sweep>>
    BY <1>3, <2>3 DEF V!SfuEnds
  <2>5. sweep \subseteq Conv /\ followUp \in Conv \cup {None} /\ ui.call \in Conv \cup {None}
    BY DEF SessTypes, UiState
  <2>6. /\ sweep' \subseteq Conv /\ followUp' \in Conv \cup {None} /\ \A z \in sweep : z \in sweep'
        /\ followUp' = followUp \/ followUp = None \/ followUp \in sweep'
    BY <2>4, <2>5
  <2>7. room'[j] = "ended" BY <1>1 DEF SessTypes
  <2>8. why # "gone" => Settled(watching, FALSE, FALSE) BY <1>1, <2>2, <2>4, <2>7 DEF Settled
  <2> DEFINE t == (why = "gone")
  <2>9. t \in BOOLEAN /\ V!Teardown(d, t, FALSE, V!Superseded(t)) /\ (~t => Settled(watching, FALSE, FALSE))
    BY <2>1, <2>8
  <2>10. watching # None /\ transport # None /\ room[transport] = "open" /\ room' = [room EXCEPT ![transport] = "ended"]
    BY <1>1, <2>2, SessionAssumption
  <2> HIDE DEF t
  <2> QED BY <1>1, <2>2, <2>4, <2>6, <2>9, <2>10, EndsKeeps
<1> QED BY <1>2, <1>3

\* A join that leaves the call the page is in first.
LEMMA LeavesFirstKeeps ==
    ASSUME SessInv, NEW j \in JoinRuns, NEW d \in Downs, joins[j].pc = "checks", ~V!Unfinished(j), leaves = joins[j].leaves,
           ui.phase \in V!InCall, ui.conv # joins[j].conv,
           V!Teardown(d, TRUE, FALSE, [V!Superseded(TRUE) EXCEPT ![j].pc = "out", ![j].down = d]),
           UNCHANGED <<leaves, room, row, open, forgotten, followUp, sweep>>
    PROVE  SessInv'
<1> USE DEF SessInv
<1> DEFINE S == V!Superseded(TRUE)
           r == [S[j] EXCEPT !.pc = "out", !.down = d]
           js == [S EXCEPT ![j].pc = "out", ![j].down = d]
<1>1. /\ S \in [JoinRuns -> JoinState]
      /\ \A k \in JoinRuns : /\ ~S[k].live /\ S[k].pc = joins[k].pc /\ S[k].conv = joins[k].conv
                             /\ S[k].leaves = joins[k].leaves /\ S[k].down = joins[k].down /\ S[k].ended = joins[k].ended
                             /\ k # attempt => S[k] = joins[k]
                             /\ k = attempt => S[k].tell = TRUE
  BY SupersededIs
<1>2. V!Teardown(d, TRUE, FALSE, js) OBVIOUS
<1> HIDE DEF S
<1>3. /\ r \in JoinState /\ r.pc = "out" /\ r.down = d /\ ~r.live /\ r.conv = joins[j].conv /\ r.leaves = leaves
      /\ r.ended = joins[j].ended
  <2>1. S[j] \in JoinState BY <1>1
  <2>2. /\ r \in JoinState /\ r.pc = "out" /\ r.down = d /\ r.live = S[j].live /\ r.conv = S[j].conv
        /\ r.leaves = S[j].leaves /\ r.ended = S[j].ended
    BY <2>1 DEF JoinState
  <2> QED BY <1>1, <2>2
<1>4. js = [S EXCEPT ![j] = r] BY <1>1
<1> HIDE DEF js, r
<1>5. js \in [JoinRuns -> JoinState] /\ js[j] = r /\ \A k \in JoinRuns : k # j => js[k] = S[k] BY <1>1, <1>3, <1>4
<1>6. joins' = js BY <1>2, TeardownIs
<1>7. SessionAsks(j, d) BY <1>3, <1>5, <1>6 DEF SessionAsks
<1>8. \A k \in JoinRuns : k # j => joins[k].pc \notin {"switch", "out"}
  <2>1. ASSUME NEW k \in JoinRuns, k # j, joins[k].pc \in {"switch", "out"} PROVE FALSE
    BY <2>1, UnfinishedIs, SessionIs, SessionAssumption
  <2> QED BY <2>1
<1>9. attempt \in JoinRuns \cup {None} /\ leaves \in Nat /\ sweep \subseteq Conv /\ followUp \in Conv \cup {None}
      /\ room \in [JoinRuns -> {"none", "connecting", "open", "closed", "ended", "left"}]
  BY DEF SessTypes
<1>10. Begins(d, TRUE, FALSE, js, j)
  <2>1. \A k \in JoinRuns : k # j => /\ ~js[k].live /\ js[k].pc = joins[k].pc /\ js[k].conv = joins[k].conv
                                     /\ js[k].leaves = joins[k].leaves /\ js[k].down = joins[k].down
                                     /\ js[k].ended = joins[k].ended
                                     /\ k # attempt => js[k] = joins[k]
                                     /\ joins[k].pc \in {"switch", "out"} => joins[k].leaves # leaves'
    BY <1>1, <1>5, <1>8
  <2>2. attempt # None /\ attempt # j => js[attempt].tell BY <1>1, <1>5, <1>9
  <2>3. joins'[j].pc = "out" BY <1>3, <1>5, <1>6
  <2>4. leaves' \in Nat /\ leaves' >= leaves BY <1>9
  <2> QED BY <1>2, <1>5, <1>7, <1>9, <2>1, <2>2, <2>3, <2>4, SessionAssumption DEF Begins, Settled
<1> QED BY <1>10, StartKeeps

LEMMA SwitchEngineKeeps ==
    ASSUME SessInv, NEW j \in JoinRuns, NEW d \in Downs, V!SwitchEngine(j, d)
    PROVE  SessInv'
<1> USE DEF SessInv
<1> DEFINE S == V!Superseded(FALSE)
           r == [V!Unused EXCEPT !.pc = "switch", !.conv = plan, !.override = TRUE, !.leaves = leaves, !.down = d]
           js == [S EXCEPT ![j] = r]
<1>1. /\ S \in [JoinRuns -> JoinState]
      /\ \A k \in JoinRuns : /\ ~S[k].live /\ S[k].pc = joins[k].pc /\ S[k].conv = joins[k].conv
                             /\ S[k].leaves = joins[k].leaves /\ S[k].down = joins[k].down /\ S[k].ended = joins[k].ended
                             /\ k # attempt => S[k] = joins[k]
  <2> DEFINE Is(t) ==
        /\ V!Superseded(t) \in [JoinRuns -> JoinState]
        /\ \A k \in JoinRuns :
             LET s == V!Superseded(t)[k] IN
             /\ ~s.live /\ s.pc = joins[k].pc /\ s.conv = joins[k].conv
             /\ s.leaves = joins[k].leaves /\ s.down = joins[k].down /\ s.ended = joins[k].ended
             /\ k # attempt => s = joins[k]
  <2>1. \A t \in BOOLEAN : Is(t) BY SupersededIs
  <2>2. FALSE \in BOOLEAN OBVIOUS
  <2> HIDE DEF Is
  <2>3. Is(FALSE) BY <2>1, <2>2
  <2> QED BY <2>3 DEF Is
<1>2. /\ V!Teardown(d, FALSE, TRUE, js) /\ joins[j].pc = "unused" /\ ~V!Unfinished(j) /\ plan # None
      /\ ui.phase \in {"connected", "reconnecting"} /\ ui.phase \in V!InCall
      /\ UNCHANGED <<leaves, room, row, open, forgotten, followUp, sweep>>
  BY DEF V!SwitchEngine, V!FirstJoin, V!sfu, V!InCall
<1> HIDE DEF S
<1>9. /\ attempt \in JoinRuns \cup {None} /\ leaves \in Nat /\ sweep \subseteq Conv /\ followUp \in Conv \cup {None}
      /\ room \in [JoinRuns -> {"none", "connecting", "open", "closed", "ended", "left"}]
      /\ plan \in Conv \cup {None} /\ transport \in JoinRuns \cup {None} /\ watching \in JoinRuns \cup {None}
  BY DEF SessTypes
<1>3. /\ r \in JoinState /\ r.pc = "switch" /\ r.down = d /\ ~r.live /\ r.conv \in Conv /\ r.leaves = leaves
      /\ ~r.ended
  BY <1>2, <1>9 DEF V!Unused, JoinState
<1> HIDE DEF r
<1>5. js \in [JoinRuns -> JoinState] /\ js[j] = r /\ \A k \in JoinRuns : k # j => js[k] = S[k] BY <1>1, <1>3
<1> HIDE DEF js
<1>6. joins' = js BY <1>2, TeardownIs
<1>7. SessionAsks(j, d) BY <1>2, <1>3, <1>5, <1>6 DEF SessionAsks
<1>8. \A k \in JoinRuns : k # j => joins[k].pc \notin {"switch", "out"}
  <2>1. ASSUME NEW k \in JoinRuns, k # j, joins[k].pc \in {"switch", "out"} PROVE FALSE
    BY <1>2, <2>1, UnfinishedIs, SessionIs, SessionAssumption
  <2> QED BY <2>1
<1>4. /\ attempt # None => joins[attempt].pc \notin {"obtain", "key", "connect"}
      /\ watching # None => transport = watching /\ joins[watching].pc \in {"mic", "done"}
  <2>1. ASSUME attempt # None, joins[attempt].pc \in {"obtain", "key", "connect"} PROVE FALSE
    <3>1. joins[attempt].live BY <2>1, SessionIs
    <3> QED BY <1>2, <1>9, <2>1, <3>1 DEF ShownInv, ShownOf
  <2>2. ASSUME watching # None PROVE transport = watching /\ joins[watching].pc \in {"mic", "done"}
    <3>1. watching \in JoinRuns BY <1>9, <2>2
    <3> QED BY <1>2, <2>2, <3>1 DEF ShownInv, ShownOf
  <2> QED BY <2>1, <2>2
<1>10. Begins(d, FALSE, TRUE, js, j)
  <2>1. \A k \in JoinRuns : k # j => /\ ~js[k].live /\ js[k].pc = joins[k].pc /\ js[k].conv = joins[k].conv
                                     /\ js[k].leaves = joins[k].leaves /\ js[k].down = joins[k].down
                                     /\ js[k].ended = joins[k].ended
                                     /\ k # attempt => js[k] = joins[k]
                                     /\ joins[k].pc \in {"switch", "out"} => joins[k].leaves # leaves'
    BY <1>1, <1>5, <1>8
  <2>3. joins'[j].pc = "switch" BY <1>3, <1>5, <1>6
  <2>4. leaves' \in Nat /\ leaves' >= leaves BY <1>2, <1>9
  <2>5. watching # None => Settled(watching, FALSE, TRUE) BY <1>4 DEF Settled
  <2> QED BY <1>2, <1>4, <1>5, <1>7, <1>9, <2>1, <2>3, <2>4, <2>5, SessionAssumption DEF Begins
<1> QED BY <1>10, StartKeeps

LEMMA NoneUnderWay ==
    ASSUME SessInv, ui.phase \notin V!InCall, NEW j \in JoinRuns, \A k \in JoinRuns : k # j => ~AtLock(k), ~AtLock(j)
    PROVE  attempt = None /\ transport = None /\ watching = None
<1>1. \A k \in JoinRuns : ShownOf(k) /\ AttemptOf(k) BY DEF SessInv, ShownInv, AttemptInv
<1>2. \A k \in JoinRuns : transport # k /\ watching # k /\ attempt # k
  BY <1>1 DEF ShownOf, AttemptOf, V!InCall
<1> QED BY <1>2 DEF SessInv, SessTypes

LEMMA CheckedKeeps == ASSUME SessInv, NEW j \in JoinRuns, V!Checked(j) PROVE SessInv'
<1> USE DEF SessInv
<1>1. joins[j].pc = "checks" /\ ~V!Unfinished(j) BY DEF V!Checked
<1>2. /\ \A d \in Downs : ~Busy(d)
      /\ \A k \in JoinRuns : k # j => ~AtLock(k) /\ (joins[k].pc \in {"unused", "done", "checks"} \/ joins[k].live)
  BY <1>1, UnfinishedIs
<1>3. CASE (leaves # joins[j].leaves \/ (ui.phase \in V!InCall /\ ui.conv = joins[j].conv)) /\ V!GiveUp(j)
  <2>1. ~joins[j].live BY <1>1 DEF AttemptInv, AttemptOf, AtLock, Shown
  <2>2. ui.phase \in V!InCall \/ joins[j].leaves # leaves BY <1>3
  <2>3. JoinOver(j) /\ UNCHANGED <<ui, plan, attempt, transport, hangingUp, leaves, watching, downs,
                                   lock, room, row, open, forgotten, followUp, sweep>>
    BY <1>3, GiveUpIs
  <2> QED BY <1>1, <1>2, <2>1, <2>2, <2>3, OverKeeps
<1>4. CASE /\ leaves = joins[j].leaves
           /\ ui.phase \in V!InCall /\ ui.conv # joins[j].conv
           /\ \E d \in Downs : V!Teardown(d, TRUE, FALSE, [V!Superseded(TRUE) EXCEPT ![j].pc = "out", ![j].down = d])
           /\ UNCHANGED <<leaves, room, row, open, V!sfu>>
  BY <1>1, <1>4, LeavesFirstKeeps DEF V!sfu
<1>5. CASE leaves = joins[j].leaves /\ ui.phase \notin V!InCall /\ V!Attempt(j, V!Superseded(FALSE))
  <2>1. ~AtLock(j) BY <1>1 DEF AtLock
  <2>2. attempt = None /\ transport = None /\ watching = None BY <1>2, <1>5, <2>1, NoneUnderWay
  <2>3. V!Attempt(j, joins) BY <1>5, <2>2 DEF V!Superseded
  <2>4. \A k \in JoinRuns : ~joins[k].live BY <2>2, SessionIs, SessionAssumption
  <2>5. \A k \in JoinRuns : k # j => joins[k].pc \in {"unused", "done", "checks"} BY <1>2, <2>4
  <2>6. \A k \in JoinRuns : ~Stray(k) BY <1>1, <2>5 DEF Stray
  <2>7. \A k \in JoinRuns : k # j => ~AtLock(k) /\ joins[k].pc \notin {"switch", "out"} BY <1>2, <2>5
  <2> QED BY <1>1, <1>2, <1>5, <2>2, <2>3, <2>6, <2>7, AttemptKeeps
<1> QED BY <1>1, <1>3, <1>4, <1>5 DEF V!Checked

LEMMA OutKeeps == ASSUME SessInv, NEW j \in JoinRuns, V!Out(j) PROVE SessInv'
<1> USE DEF SessInv
<1>1. joins[j].pc = "out" /\ downs[joins[j].down].pc = "done" BY DEF V!Out
<1>2. /\ attempt = None /\ transport = None /\ watching = None /\ ~joins[j].live
      /\ \A k \in JoinRuns \ {j} : joins[k].pc \notin {"switch", "out"}
      /\ joins[j].leaves = leaves => \A d \in Downs : ~Busy(d)
  BY <1>1 DEF AttemptInv, AttemptOf, AtLock, Shown, Busy
<1>3. CASE leaves # joins[j].leaves
  <2>1. V!GiveUp(j) BY <1>3 DEF V!Out
  <2>2. JoinOver(j) /\ UNCHANGED <<ui, plan, attempt, transport, hangingUp, leaves, watching, downs,
                                   lock, room, row, open, forgotten, followUp, sweep>>
    BY <2>1, GiveUpIs
  <2> QED BY <1>1, <1>2, <1>3, <2>2, OverKeeps
<1>4. CASE leaves = joins[j].leaves
  <2>1. V!Attempt(j, joins) BY <1>2, <1>4 DEF V!Out, V!Superseded
  <2>2. \A k \in JoinRuns : ~joins[k].live BY <1>2, SessionIs, SessionAssumption
  <2>3. \A k \in JoinRuns : ~AtLock(k) BY <2>2 DEF AttemptInv, AttemptOf
  <2>4. \A d \in Downs : ~Busy(d) BY <1>2, <1>4
  <2>5. ui.phase \notin V!InCall BY <1>2, <2>2, <2>4 DEF ShownInv
  <2>6. \A k \in JoinRuns : Stray(k) => joins[k].conv # joins[j].conv
    <3>1. Linked(j) /\ ~Stray(j) BY <1>1 DEF Linked, Stray
    <3> QED BY <3>1, StraysElsewhere
  <2>7. \A k \in JoinRuns : k # j => ~AtLock(k) /\ joins[k].pc \notin {"switch", "out"} BY <1>2, <2>3
  <2> QED BY <1>1, <1>2, <2>1, <2>4, <2>5, <2>6, <2>7, AttemptKeeps
<1> QED BY <1>3, <1>4

LEMMA SessInit == ASSUME V!Init PROVE SessInv
<1>1. V!Unused \in JoinState /\ V!Unused.pc = "unused" /\ ~V!Unused.live /\ ~V!Unused.ended /\ V!Unused.leaves = 0 /\ V!Unused.conv = None
  BY UnusedIs
<1>2. V!NoDown \in DownState /\ V!NoDown.pc = "unused" BY DEF V!NoDown, DownState
<1>3. /\ joins \in [JoinRuns -> JoinState] /\ \A j \in JoinRuns : joins[j] = V!Unused /\ room[j] = "none"
      /\ downs \in [Downs -> DownState] /\ \A d \in Downs : downs[d] = V!NoDown
      /\ room \in [JoinRuns -> {"none", "connecting", "open", "closed", "ended", "left"}]
      /\ ui = V!Idle
  BY <1>1, <1>2 DEF V!Init
<1>4. SessTypes BY <1>3, IdleIs DEF V!Init, SessTypes
<1>5. \A j \in JoinRuns : /\ joins[j].pc = "unused" /\ ~joins[j].live /\ ~joins[j].ended /\ joins[j].leaves = 0
  BY <1>1, <1>3
<1>6. \A d \in Downs : downs[d].pc = "unused" BY <1>2, <1>3
<1>7. /\ ui.phase \notin V!InCall /\ attempt = None /\ transport = None /\ watching = None /\ lock = "free" /\ leaves = 0
      /\ row = {}
  BY <1>3, IdleIs DEF V!Init, V!InCall
<1>8. AttemptInv BY <1>5, <1>6, <1>7, SessionAssumption DEF AttemptInv, AttemptOf, AtLock, Busy
<1>9. ShownInv BY <1>5, <1>7, SessionAssumption DEF ShownInv, ShownOf
<1>10. LockInv BY <1>5, <1>7 DEF LockInv
<1>11. RoomInv BY <1>3, <1>5, <1>6 DEF RoomInv, RoomOf
<1>12. StrayInv BY <1>5 DEF StrayInv, Stray
<1>13. RowInv BY <1>5, <1>6, <1>7, SessionAssumption DEF RowInv, CountedInv, Stray, DropInv, Drops
<1> QED BY <1>4, <1>8, <1>9, <1>10, <1>11, <1>12, <1>13 DEF SessInv

LEMMA SessNext == ASSUME SessInv, [V!Next]_(V!vars) PROVE SessInv'
<1>1. CASE UNCHANGED V!vars
  <2>1. UNCHANGED <<ui, plan, attempt, transport, hangingUp, leaves, watching, joins, downs, lock, room,
                    row, open, forgotten, followUp, sweep>>
    BY <1>1 DEF V!vars, V!page, V!sfu
  <2> QED
    BY <2>1 DEF SessInv, SessTypes, AttemptInv, AttemptOf, ShownInv, ShownOf, LockInv, RoomInv, RoomOf,
       StrayInv, RowInv, Covered, TakenUp, CountedInv, DropInv, AtLock, Shown, Stray, Linked, Busy, Drops, Tells,
       Told1, Switches
<1>2. ASSUME NEW d \in Downs, V!Down(d) \/ V!Leave(d) PROVE SessInv'
  BY <1>2, DisconnectedKeeps, ToldKeeps, LeaveKeeps DEF V!Down
<1>3. ASSUME NEW j \in JoinRuns, V!Join(j) PROVE SessInv'
  <2>1. CASE V!SwitchBack(j) BY <2>1, SwitchBackKeeps
  <2>2. CASE V!Checked(j) BY <2>2, CheckedKeeps
  <2>3. CASE V!Out(j) BY <2>3, OutKeeps
  <2>4. CASE V!LockAnswer(j) BY <2>4, LockAnswerKeeps
  <2>5. CASE V!Refused(j) BY <2>5, RefusedKeeps
  <2>6. CASE V!Connecting(j) BY <2>6, ConnectingKeeps
  <2>7. CASE V!Admitted(j) BY <2>7, AdmittedKeeps
  <2>8. CASE V!NotAdmitted(j) BY <2>8, NotAdmittedKeeps
  <2>9. CASE V!Abandoned(j) BY <2>9, AbandonedKeeps
  <2>10. CASE V!KeyDerived(j) BY <2>10, KeyDerivedKeeps
  <2>11. CASE V!NoKey(j) BY <2>11, NoKeyKeeps
  <2>12. CASE V!Connected(j) BY <2>12, ConnectedKeeps
  <2>13. CASE V!NotConnected(j) BY <2>13, NotConnectedKeeps
  <2>14. CASE V!Closed(j) BY <2>14, ClosedKeeps
  <2>15. CASE V!Joined(j) BY <2>15, JoinedAllKeeps
  <2> QED
    BY <1>3, <2>1, <2>2, <2>3, <2>4, <2>5, <2>6, <2>7, <2>8, <2>9, <2>10, <2>11, <2>12, <2>13, <2>14, <2>15 DEF
       V!Join
<1>4. ASSUME NEW j \in JoinRuns, V!HearEnded(j) \/ V!Departed(j) PROVE SessInv'
  BY <1>4, HearEndedKeeps, DepartedKeeps
<1>5. ASSUME NEW j \in JoinRuns, NEW c \in Conv, V!Press(j, c) PROVE SessInv' BY <1>5, PressKeeps
<1>6. ASSUME NEW j \in JoinRuns, NEW d \in Downs, V!SwitchEngine(j, d) PROVE SessInv' BY <1>6, SwitchEngineKeeps
<1>7. ASSUME NEW j \in JoinRuns, NEW why \in {"told", "gone", "unsettled"}, V!SfuEnds(j, why) PROVE SessInv'
  BY <1>7, SfuEndsKeeps
<1>8. ASSUME NEW c \in Conv, V!EndCall(c) \/ V!Forgets(c) PROVE SessInv' BY <1>8, EndCallKeeps, ForgetsKeeps
<1>9. CASE V!Wavering BY <1>9, WaveringKeeps
<1>10. CASE V!FollowUpLeaves BY <1>10, FollowUpLeavesKeeps
<1>11. CASE V!FollowUpStops BY <1>11, FollowUpStopsKeeps
<1>12. CASE V!OtherWindow BY <1>12, OtherWindowKeeps
<1>13. CASE V!HearOther BY <1>13, HearOtherKeeps
<1> QED BY <1>1, <1>2, <1>3, <1>4, <1>5, <1>6, <1>7, <1>8, <1>9, <1>10, <1>11, <1>12, <1>13 DEF V!Next

LEMMA SessHolds == V!Spec => []SessInv
<1>1. V!Init => SessInv BY SessInit
<1>2. SessInv /\ [V!Next]_(V!vars) => SessInv' BY SessNext
<1> QED BY <1>1, <1>2, PTL DEF V!Spec

LEMMA RestIs ==
    ASSUME SessInv, V!AtRest
    PROVE  /\ \A d \in Downs : ~Busy(d)
           /\ \A j \in JoinRuns : /\ joins[j].pc \in {"unused", "done"} /\ ~joins[j].live
                                  /\ room[j] = "open" => transport = j
           /\ watching # None => transport = watching /\ ui.phase \in {"connected", "reconnecting"}
                                 /\ ui.call = joins[watching].conv
           /\ ui.phase \in V!InCall => watching # None
<1> USE DEF SessInv
<1>1. \A d \in Downs : downs[d] \in DownState BY DEF SessTypes
<1>2. V!TearingDown = {} /\ \A j \in JoinRuns : joins[j].pc \in {"unused", "done"} BY DEF V!AtRest, V!Running
<1>3. \A d \in Downs : ~Busy(d) BY <1>1, <1>2 DEF V!TearingDown, Busy
<1>4. \A j \in JoinRuns : ~joins[j].live BY <1>2 DEF AttemptInv, AttemptOf, AtLock, Shown
<1>5. \A j \in JoinRuns : room[j] = "open" => transport = j BY <1>2, <1>3 DEF RoomInv, RoomOf, Drops, Busy
<1>6. watching # None => transport = watching /\ ui.phase \in {"connected", "reconnecting"} /\ ui.call = joins[watching].conv
  BY <1>4 DEF ShownInv, ShownOf, SessTypes
<1>7. ui.phase \in V!InCall => watching # None BY <1>3, <1>4 DEF ShownInv
<1> QED BY <1>2, <1>3, <1>4, <1>5, <1>6, <1>7

LEMMA HeldFollows == ASSUME SessInv PROVE V!NothingLeftBehind /\ V!OneWindow
<1> USE DEF SessInv
<1>1. V!OneWindow BY DEF V!OneWindow, ShownInv, ShownOf, Shown, LockInv
<1>2. ASSUME V!AtRest PROVE /\ \A j \in JoinRuns : room[j] = "open" =>
                                /\ transport = j /\ watching = j
                                /\ ui.phase \in {"connected", "reconnecting"} /\ ui.conv = joins[j].conv
                                /\ lock = "me"
                            /\ lock = "me" => ui.phase \in V!InCall
  <2>1. ASSUME NEW j \in JoinRuns, room[j] = "open"
        PROVE  /\ transport = j /\ watching = j
               /\ ui.phase \in {"connected", "reconnecting"} /\ ui.conv = joins[j].conv
               /\ lock = "me"
    <3>1. transport = j BY <1>2, <2>1, RestIs
    <3>2. watching = j /\ ui.conv = joins[j].conv BY <3>1 DEF ShownInv, ShownOf
    <3>3. ui.phase \in {"connected", "reconnecting"} BY <1>2, <3>2, RestIs, SessionAssumption
    <3> QED BY <3>1, <3>2, <3>3 DEF LockInv, V!InCall
  <2>2. lock = "me" => ui.phase \in V!InCall
    <3>1. (\A d \in Downs : ~Busy(d)) /\ \A j \in JoinRuns : joins[j].pc \in {"unused", "done"} BY <1>2, RestIs
    <3> QED BY <3>1 DEF LockInv
  <2> QED BY <2>1, <2>2
<1> QED BY <1>1, <1>2 DEF V!NothingLeftBehind

LEMMA RowFollows == ASSUME SessInv PROVE V!RowIsTrue
<1> USE DEF SessInv
<1>1. SUFFICES ASSUME V!AtRest
               PROVE  /\ ui.phase \in V!InCall /\ ui.call \in open /\ room[transport] = "open" => ui.call \in row
                      /\ \A c \in row :
                           \/ ui.phase \in V!InCall /\ ui.call = c
                           \/ c \in sweep \/ followUp = c
                           \/ c \notin forgotten /\ \E j \in JoinRuns : joins[j].conv = c /\ room[j] \in {"closed", "ended"}
  BY DEF V!RowIsTrue
<1>2. /\ \A d \in Downs : ~Busy(d)
      /\ \A j \in JoinRuns : joins[j].pc \in {"unused", "done"}
      /\ watching # None => transport = watching /\ ui.phase \in {"connected", "reconnecting"}
                            /\ ui.call = joins[watching].conv
      /\ ui.phase \in V!InCall => watching # None
  BY <1>1, RestIs
<1>3. ASSUME ui.phase \in V!InCall, ui.call \in open, room[transport] = "open" PROVE ui.call \in row
  <2>1. watching \in JoinRuns /\ transport = watching /\ ui.call = joins[watching].conv BY <1>2, <1>3 DEF SessTypes
  <2>2. CountedInv(watching) BY <2>1 DEF RowInv
  <2> QED BY <1>3, <2>1, <2>2 DEF CountedInv
<1>4. ASSUME NEW c \in row
      PROVE  \/ ui.phase \in V!InCall /\ ui.call = c
             \/ c \in sweep \/ followUp = c
             \/ c \notin forgotten /\ \E j \in JoinRuns : joins[j].conv = c /\ room[j] \in {"closed", "ended"}
  <2>1. Covered(c) BY DEF RowInv
  <2>2. ~Told1(c) /\ ~Switches(c) BY <1>2 DEF Told1, Tells, Switches, Busy
  <2>3. ~ \E j \in JoinRuns : joins[j].pc = "abandon" /\ joins[j].conv = c BY <1>2
  <2> QED BY <1>2, <2>1, <2>2, <2>3 DEF Covered, V!InCall
<1> QED BY <1>3, <1>4

(***************************************************************************)
(* Once every promise has settled, an open room is the call on the page's  *)
(* screen, under the lock, and the lock is held for nothing else; and at   *)
(* any moment a join that shows itself holds it (#supersedeJoin,           *)
(* #teardown, #acquireLock).                                               *)
(***************************************************************************)
THEOREM NoRoomIsLeftOpen == V!Spec => []CallIsHeld
<1>1. SessInv => CallIsHeld BY HeldFollows DEF CallIsHeld
<1> QED BY <1>1, SessHolds, PTL

(***************************************************************************)
(* Once every promise has settled, the server counts the device in the     *)
(* call it is in, and in another only when the departure of its room is to *)
(* come, the follow-up asks, or the sweep is to clear it: the SFU forgot   *)
(* the room, a leave was lost that no departure heals, or the answer that  *)
(* admitted the device was (leaveCall, leaveAbandoned, the catch of        *)
(* obtain, #followUpRoom, participant_left).                               *)
(***************************************************************************)
THEOREM RowsAreTrue == V!Spec => []RowIsTrue
<1>1. SessInv => RowIsTrue BY RowFollows DEF RowIsTrue
<1> QED BY <1>1, SessHolds, PTL

-----------------------------------------------------------------------------
(* NativePush, for any number of presses, sign-ins, tokens and faults, as  *)
(* long as nothing comes Untimely: the strengthening.                      *)

PushJob == [pc : P!PCs, by : Nat, alerts : P!Alerts, queued : BOOLEAN]
PushRecord == [of : Nat, entry : P!Alerts, pending : BOOLEAN, resync : BOOLEAN]
PushTypes ==
    /\ pushRow \in P!Alerts /\ owner \in Nat /\ signIns \in Nat /\ signingOut \in BOOLEAN
    /\ stored \in PushRecord /\ job \in [P!Job -> PushJob]
    /\ pushHeard \in BOOLEAN /\ choice \in BOOLEAN

\* The record: alerts are kept exactly while they were chosen, and what is
\* owed is owed of nothing that is kept.
RecordInv ==
    /\ stored.of = 0 => stored.entry = "none" /\ ~stored.pending
    /\ choice <=> stored.entry = "alerts"
    /\ stored.pending => stored.entry = "none"
    /\ signingOut => stored.entry = "none"

\* What a job is, and what it asks for: a launch and a token what is kept,
\* a press alerts or silence, and only a press takes what is owed on it.
JobInv(j) ==
    /\ job[j].pc \in P!Flushing \cup {"starting"} => j = "launch"
    /\ job[j].pc \in P!Removing \cup {"pressed", "pressing"} => j = "press"
    /\ job[j].pc = "asking" => j # "press"
    /\ job[j].pc # "idle" => job[j].by # 0
    /\ job[j].pc \in P!Registering =>
        /\ ~signingOut
        /\ job[j].alerts \in {"alerts", "silent"}
        /\ j # "press" => job[j].alerts = stored.entry /\ ~job[j].queued
        /\ j = "press" => /\ job[j].alerts = "silent" => stored.entry # "none"
                          /\ job[j].queued => job[j].alerts = "alerts" /\ stored.entry = "none"
                          /\ ~stored.pending
    /\ job[j].pc = "posted" => pushRow = job[j].alerts

\* What one job does while another does something else.
SwitchInv ==
    /\ job["press"].pc \in P!Registering \cup P!Removing =>
        job["launch"].pc \notin P!Registering /\ job["event"].pc \notin P!Registering
    /\ job["press"].pc \in {"pressed", "pressing"} => ~signingOut
    /\ job["press"].pc = "pressing" => stored.entry = "alerts"
    /\ job["press"].pc = "removed" => pushRow # "alerts"
    /\ job["launch"].pc \in P!Flushing => stored.entry = "none" /\ job["press"].pc \notin {"posting", "posted"}
    /\ job["launch"].pc = "flushed" => pushRow # "alerts"

\* The server's row: what it has too much is owed or under way, and what it
\* has too little was never told or is being taken back.
OwedInv ==
    /\ pushRow = "alerts" /\ stored.entry = "none" =>
        \/ stored.pending
        \/ job["press"].pc \in P!Registering /\ job["press"].queued
        \/ job["press"].pc = "posted" /\ job["press"].alerts = "alerts"
    /\ pushHeard /\ stored.entry = "alerts" =>
        pushRow = "alerts" \/ job["press"].pc = "removed" \/ (job["press"].pc = "posted" /\ job["press"].alerts = "silent")

PushInv == PushTypes /\ RecordInv /\ (\A j \in P!Job : JobInv(j)) /\ SwitchInv /\ OwedInv
\* What a record becomes in the hands of a sign-in.
LEMMA CarryKeeps ==
    ASSUME PushTypes, NEW o \in Nat
    PROVE  /\ P!CarryOver(o) \in PushRecord
           /\ P!CarryOver(o).entry = stored.entry /\ P!CarryOver(o).pending = stored.pending
           /\ P!CarryOver(o).of = IF stored.of = 0 THEN 0 ELSE o
BY DEF PushTypes, PushRecord, P!CarryOver

LEMMA WithPendingKeeps ==
    ASSUME PushTypes, RecordInv, NEW o \in Nat, o # 0, NEW p \in BOOLEAN
    PROVE  /\ P!WithPending(P!CarryOver(o), o, p) \in PushRecord /\ P!WithPending(P!CarryOver(o), o, p).of = o
           /\ P!WithPending(P!CarryOver(o), o, p).entry = stored.entry /\ P!WithPending(P!CarryOver(o), o, p).pending = p
<1>1. "none" \in P!Alerts /\ stored \in PushRecord BY DEF P!Alerts, PushTypes
<1> DEFINE c == P!CarryOver(o)
<1>2. CASE stored.of = 0
  <2>1. c = stored BY <1>2 DEF P!CarryOver
  <2>2. P!WithPending(c, o, p) = [P!Record(o, "none", FALSE, FALSE) EXCEPT !.pending = p]
    BY <1>2, <2>1 DEF P!WithPending
  <2> QED BY <1>1, <1>2, <2>2 DEF P!Record, RecordInv, PushRecord
<1>3. CASE stored.of # 0
  <2>1. c \in PushRecord /\ c.of = o /\ c.entry = stored.entry BY <1>3, CarryKeeps
  <2>2. P!WithPending(c, o, p) = [c EXCEPT !.pending = p] BY <2>1 DEF P!WithPending
  <2> QED BY <2>1, <2>2 DEF PushRecord
<1> QED BY <1>2, <1>3

LEMMA WithEntryKeeps ==
    ASSUME PushTypes, RecordInv, NEW o \in Nat, o # 0, NEW e \in P!Alerts
    PROVE  /\ P!WithEntry(P!CarryOver(o), o, e) \in PushRecord /\ P!WithEntry(P!CarryOver(o), o, e).of = o
           /\ P!WithEntry(P!CarryOver(o), o, e).entry = e /\ ~P!WithEntry(P!CarryOver(o), o, e).pending
<1> DEFINE c == P!WithPending(P!CarryOver(o), o, FALSE)
<1>1. c \in PushRecord /\ c.of = o /\ ~c.pending BY WithPendingKeeps
<1>2. P!WithEntry(P!CarryOver(o), o, e) = [c EXCEPT !.entry = e] BY DEF P!WithEntry
<1> HIDE DEF c
<1> QED BY <1>1, <1>2 DEF PushRecord

\* One job goes on, and the others stay.
Moved(j) == job' \in [P!Job -> PushJob] /\ \A k \in P!Job : k # j => job'[k] = job[k]

LEMMA PcMoves ==
    ASSUME PushTypes, NEW j \in P!Job, NEW p \in P!PCs, job' = [job EXCEPT ![j].pc = p]
    PROVE  /\ Moved(j) /\ job'[j].pc = p /\ job'[j].by = job[j].by /\ job'[j].alerts = job[j].alerts
           /\ job'[j].queued = job[j].queued
<1>1. job[j] \in PushJob BY DEF PushTypes
<1>2. [job[j] EXCEPT !.pc = p] \in PushJob BY <1>1 DEF PushJob
<1> QED BY <1>1, <1>2 DEF PushTypes, PushJob, Moved

LEMMA JobMoves ==
    ASSUME PushTypes, NEW j \in P!Job, NEW r \in PushJob, job' = [job EXCEPT ![j] = r]
    PROVE  Moved(j) /\ job'[j] = r
BY DEF PushTypes, Moved

LEMMA JobIdleIs == P!Idle \in PushJob /\ P!Idle.pc = "idle"
BY DEF P!Idle, PushJob, P!PCs, P!Alerts

LEMMA AtIs == ASSUME PushTypes, NEW p \in P!PCs
              PROVE P!At(p) \in PushJob /\ P!At(p).pc = p /\ P!At(p).by = owner
BY DEF PushTypes, P!At, P!Idle, PushJob, P!PCs, P!Alerts

LEMMA PushInitKeeps == P!Init => PushInv
<1> SUFFICES ASSUME P!Init PROVE PushInv OBVIOUS
<1>1. \A j \in P!Job : job[j] = P!Idle BY DEF P!Init
<1>2. job \in [P!Job -> PushJob] BY JobIdleIs DEF P!Init
<1>3. stored \in PushRecord /\ stored.of = 0 /\ stored.entry = "none" /\ ~stored.pending
  BY DEF P!Init, P!NoRecord, P!Record, PushRecord, P!Alerts
<1>4. PushTypes BY <1>2, <1>3 DEF P!Init, PushTypes, P!Alerts
<1>5. \A j \in P!Job : JobInv(j) BY <1>1, JobIdleIs DEF JobInv, P!Registering, P!Removing, P!Flushing
<1>6. "press" \in P!Job /\ "launch" \in P!Job BY DEF P!Job
<1>7. SwitchInv BY <1>1, <1>6, JobIdleIs DEF SwitchInv, P!Registering, P!Removing, P!Flushing
<1> QED BY <1>3, <1>4, <1>5, <1>7 DEF P!Init, PushInv, RecordInv, OwedInv

-----------------------------------------------------------------------------
(* A launch: what is owed first. *)

LEMMA FlushesKeeps == ASSUME PushInv, P!Flushes PROVE PushInv'
<1> USE DEF PushInv
<1> DEFINE l == job["launch"]
<1>1. /\ Moved("launch") /\ job'["launch"].pc = (IF stored.pending THEN "flushing" ELSE "asking")
      /\ job'["launch"].by = l.by /\ l.pc = "starting" /\ l.by # 0 /\ l.by \in Nat
      /\ UNCHANGED <<pushRow, owner, signingOut, pushHeard, choice, signIns>>
  <2>1. "launch" \in P!Job /\ "flushing" \in P!PCs /\ "asking" \in P!PCs BY DEF P!Job, P!PCs, P!Flushing
  <2>2. l \in PushJob /\ l.by # 0 BY <2>1 DEF PushTypes, JobInv, P!Flushes
  <2>3. P!CarryOver(l.by).pending = stored.pending BY <2>2, CarryKeeps DEF PushJob
  <2> DEFINE p == IF stored.pending THEN "flushing" ELSE "asking"
  <2>4. p \in P!PCs /\ job' = [job EXCEPT !["launch"].pc = p] BY <2>1, <2>3 DEF P!Flushes
  <2> HIDE DEF p
  <2>5. Moved("launch") /\ job'["launch"].pc = p /\ job'["launch"].by = l.by BY <2>1, <2>4, PcMoves
  <2> QED BY <2>2, <2>5 DEF P!Flushes, PushJob, P!counts, p
<1>2. stored' \in PushRecord /\ stored'.entry = stored.entry /\ stored'.pending = stored.pending /\ (stored'.of = 0 => stored.of = 0)
  BY <1>1, CarryKeeps DEF P!Flushes
<1>3. PushTypes' BY <1>1, <1>2 DEF PushTypes, Moved
<1>4. RecordInv' BY <1>1, <1>2 DEF RecordInv
<1>5. \A k \in P!Job : JobInv(k)'
  BY <1>1, <1>2 DEF JobInv, RecordInv, SwitchInv, P!Job, Moved, P!Registering, P!Removing, P!Flushing
<1>6. SwitchInv' BY <1>1, <1>2 DEF JobInv, RecordInv, SwitchInv, P!Job, Moved, P!Registering, P!Removing, P!Flushing
<1>7. OwedInv'
  BY <1>1, <1>2 DEF JobInv, RecordInv, SwitchInv, OwedInv, P!Job, Moved, P!Registering, P!Removing, P!Flushing
<1> QED BY <1>3, <1>4, <1>5, <1>6, <1>7 DEF PushInv

LEMMA FlushServedKeeps == ASSUME PushInv, P!FlushServed PROVE PushInv'
<1> USE DEF PushInv
<1>1. /\ Moved("launch") /\ job'["launch"].pc = "flushed" /\ job'["launch"].by = job["launch"].by
      /\ job["launch"].pc = "flushing" /\ pushRow' = "none"
      /\ UNCHANGED <<owner, signingOut, stored, pushHeard, choice, signIns>>
  <2>1. "launch" \in P!Job /\ "flushed" \in P!PCs BY DEF P!Job, P!PCs, P!Flushing
  <2> QED BY <2>1, PcMoves DEF P!FlushServed, P!counts
<1>2. pushRow' \in P!Alerts BY <1>1 DEF P!Alerts
<1>3. PushTypes' BY <1>1, <1>2 DEF PushTypes, Moved
<1>4. RecordInv' BY <1>1, <1>2 DEF RecordInv
<1>5. \A k \in P!Job : JobInv(k)'
  BY <1>1, <1>2 DEF JobInv, RecordInv, SwitchInv, P!Job, Moved, P!Registering, P!Removing, P!Flushing
<1>6. SwitchInv' BY <1>1, <1>2 DEF JobInv, RecordInv, SwitchInv, P!Job, Moved, P!Registering, P!Removing, P!Flushing
<1>7. OwedInv'
  BY <1>1, <1>2 DEF JobInv, RecordInv, SwitchInv, OwedInv, P!Job, Moved, P!Registering, P!Removing, P!Flushing
<1> QED BY <1>3, <1>4, <1>5, <1>6, <1>7 DEF PushInv

LEMMA FlushAnsweredKeeps == ASSUME PushInv, P!FlushAnswered PROVE PushInv'
<1> USE DEF PushInv
<1> DEFINE l == job["launch"]
<1>1. /\ Moved("launch") /\ job'["launch"].pc = "asking" /\ job'["launch"].by = l.by /\ l.pc = "flushed"
      /\ l.by # 0 /\ l.by \in Nat /\ UNCHANGED <<pushRow, owner, signingOut, pushHeard, choice, signIns>>
  <2>1. "launch" \in P!Job /\ "asking" \in P!PCs BY DEF P!Job, P!PCs
  <2>2. l \in PushJob /\ l.by # 0 BY <2>1 DEF PushTypes, JobInv, P!FlushAnswered
  <2> QED BY <2>1, <2>2, PcMoves DEF P!FlushAnswered, PushJob, P!counts
<1>2. stored' \in PushRecord /\ stored'.entry = stored.entry /\ ~stored'.pending /\ stored'.of # 0
  BY <1>1, WithPendingKeeps DEF P!FlushAnswered
<1>3. PushTypes' BY <1>1, <1>2 DEF PushTypes, Moved
<1>4. RecordInv' BY <1>1, <1>2 DEF RecordInv
<1>5. \A k \in P!Job : JobInv(k)'
  BY <1>1, <1>2 DEF JobInv, RecordInv, SwitchInv, P!Job, Moved, P!Registering, P!Removing, P!Flushing
<1>6. SwitchInv' BY <1>1, <1>2 DEF JobInv, RecordInv, SwitchInv, P!Job, Moved, P!Registering, P!Removing, P!Flushing
<1>7. OwedInv'
  BY <1>1, <1>2 DEF JobInv, RecordInv, SwitchInv, OwedInv, P!Job, Moved, P!Registering, P!Removing, P!Flushing
<1> QED BY <1>3, <1>4, <1>5, <1>6, <1>7 DEF PushInv

LEMMA FlushFailsKeeps == ASSUME PushInv, P!FlushFails PROVE PushInv'
<1> USE DEF PushInv
<1>1. /\ Moved("launch") /\ job'["launch"].pc = "asking" /\ job'["launch"].by = job["launch"].by
      /\ job["launch"].pc \in P!Flushing /\ UNCHANGED <<pushRow, owner, signingOut, pushHeard, choice, signIns>>
  BY PcMoves DEF P!Job, P!PCs, P!FlushFails
<1>2. stored' = stored BY DEF P!FlushFails
<1>3. PushTypes' BY <1>1, <1>2 DEF PushTypes, Moved
<1>4. RecordInv' BY <1>1, <1>2 DEF RecordInv
<1>5. \A k \in P!Job : JobInv(k)'
  BY <1>1, <1>2 DEF JobInv, RecordInv, SwitchInv, P!Job, Moved, P!Registering, P!Removing, P!Flushing
<1>6. SwitchInv' BY <1>1, <1>2 DEF JobInv, RecordInv, SwitchInv, P!Job, Moved, P!Registering, P!Removing, P!Flushing
<1>7. OwedInv'
  BY <1>1, <1>2 DEF JobInv, RecordInv, SwitchInv, OwedInv, P!Job, Moved, P!Registering, P!Removing, P!Flushing
<1> QED BY <1>3, <1>4, <1>5, <1>6, <1>7 DEF PushInv

LEMMA EventKeeps == ASSUME PushInv, P!Event PROVE PushInv'
<1> USE DEF PushInv
<1>1. /\ Moved("event") /\ job'["event"].pc = "asking" /\ job'["event"].by # 0 /\ job["event"].pc = "idle"
      /\ UNCHANGED <<pushRow, owner, signingOut, pushHeard, choice, signIns>>
  BY JobMoves, AtIs, JobIdleIs DEF P!Job, P!PCs, P!Event
<1>2. stored' = stored BY DEF P!Event
<1>3. PushTypes' BY <1>1, <1>2 DEF PushTypes, Moved
<1>4. RecordInv' BY <1>1, <1>2 DEF RecordInv
<1>5. \A k \in P!Job : JobInv(k)'
  BY <1>1, <1>2 DEF JobInv, RecordInv, SwitchInv, P!Job, Moved, P!Registering, P!Removing, P!Flushing
<1>6. SwitchInv' BY <1>1, <1>2 DEF JobInv, RecordInv, SwitchInv, P!Job, Moved, P!Registering, P!Removing, P!Flushing
<1>7. OwedInv'
  BY <1>1, <1>2 DEF JobInv, RecordInv, SwitchInv, OwedInv, P!Job, Moved, P!Registering, P!Removing, P!Flushing
<1> QED BY <1>3, <1>4, <1>5, <1>6, <1>7 DEF PushInv

-----------------------------------------------------------------------------
(* A registration. *)

LEMMA RegistersIs ==
    ASSUME PushInv, NEW j \in P!Job, NEW a \in P!Alerts, P!Registers(j, a)
    PROVE  /\ Moved(j) /\ job'[j].pc = "waiting" /\ job'[j].by = owner /\ owner # 0 /\ job'[j].alerts = a
           /\ job'[j].queued = stored.pending /\ P!Alone(j)
           /\ stored' \in PushRecord /\ stored'.entry = stored.entry /\ ~stored'.pending
           /\ (stored'.of = 0 => stored.of = 0)
<1> USE DEF PushInv
<1>1. P!CarryOver(owner) \in PushRecord /\ P!CarryOver(owner).entry = stored.entry
      /\ P!CarryOver(owner).pending = stored.pending /\ (P!CarryOver(owner).of = 0 => stored.of = 0)
      /\ owner \in Nat /\ owner # 0
  BY CarryKeeps DEF P!Registers, PushTypes
<1>2. stored' = [P!CarryOver(owner) EXCEPT !.pending = FALSE] BY DEF P!Registers
<1>3. stored' \in PushRecord /\ stored'.entry = stored.entry /\ ~stored'.pending /\ (stored'.of = 0 => stored.of = 0)
  BY <1>1, <1>2 DEF PushRecord
<1> DEFINE r == [P!At("waiting") EXCEPT !.alerts = a, !.queued = stored.pending]
<1>4. r \in PushJob /\ r.pc = "waiting" /\ r.by = owner /\ r.alerts = a /\ r.queued = stored.pending
  <2>1. "waiting" \in P!PCs BY DEF P!PCs, P!Registering
  <2>2. P!At("waiting") \in PushJob /\ P!At("waiting").pc = "waiting" /\ P!At("waiting").by = owner BY <2>1, AtIs
  <2>3. stored.pending \in BOOLEAN BY DEF PushTypes, PushRecord
  <2> QED BY <2>2, <2>3 DEF PushJob
<1>5. job' = [job EXCEPT ![j] = r] BY <1>1 DEF P!Registers
<1> HIDE DEF r
<1>6. Moved(j) /\ job'[j] = r BY <1>4, <1>5, JobMoves
<1> QED BY <1>1, <1>3, <1>4, <1>6 DEF P!Registers

LEMMA ReregistersKeeps == ASSUME PushInv, NEW j \in P!Job, P!Reregisters(j) PROVE PushInv'
<1> USE DEF PushInv
<1>1. /\ Moved(j) /\ job'[j].pc = "waiting" /\ job'[j].by # 0 /\ job'[j].alerts = stored.entry /\ ~job'[j].queued
      /\ job[j].pc = "asking" /\ j # "press" /\ stored.entry \in {"alerts", "silent"} /\ ~signingOut /\ P!Alone(j)
      /\ UNCHANGED <<pushRow, owner, signingOut, pushHeard, choice, signIns>>
  <2>1. owner \in Nat BY DEF PushTypes
  <2>2. P!CarryOver(owner).entry = stored.entry BY <2>1, CarryKeeps
  <2>3. stored.entry \in P!Alerts BY DEF PushTypes, PushRecord
  <2>4. P!Registers(j, stored.entry) /\ stored.entry # "none" BY <2>2 DEF P!Reregisters
  <2> QED BY <2>3, <2>4, RegistersIs DEF P!Reregisters, P!Alerts, JobInv, RecordInv, P!counts
<1>2. stored' \in PushRecord /\ stored'.entry = stored.entry /\ ~stored'.pending /\ (stored'.of = 0 => stored.of = 0)
  <2>1. owner \in Nat BY DEF PushTypes
  <2>2. P!CarryOver(owner).entry = stored.entry BY <2>1, CarryKeeps
  <2>3. stored.entry \in P!Alerts BY DEF PushTypes, PushRecord
  <2> QED BY <2>2, <2>3, RegistersIs DEF P!Reregisters
<1>8. job["press"].pc \notin P!Registering \cup P!Removing BY <1>1 DEF P!Alone, P!Job
<1>3. PushTypes' BY <1>1, <1>2, <1>8 DEF PushTypes, Moved
<1>4. RecordInv' BY <1>1, <1>2, <1>8 DEF RecordInv
<1>5. \A k \in P!Job : JobInv(k)'
  BY <1>1, <1>2, <1>8 DEF JobInv, RecordInv, SwitchInv, P!Job, Moved, P!Registering, P!Removing, P!Flushing
<1>6. SwitchInv'
  BY <1>1, <1>2, <1>8 DEF JobInv, RecordInv, SwitchInv, P!Job, Moved, P!Registering, P!Removing, P!Flushing
<1>7. OwedInv'
  BY <1>1, <1>2, <1>8 DEF JobInv, RecordInv, SwitchInv, OwedInv, P!Job, Moved, P!Registering, P!Removing, P!Flushing
<1> QED BY <1>3, <1>4, <1>5, <1>6, <1>7 DEF PushInv

LEMMA OwesNothingKeeps == ASSUME PushInv, NEW j \in P!Job, P!OwesNothing(j) PROVE PushInv'
<1> USE DEF PushInv
<1>1. /\ Moved(j) /\ job'[j].pc = "idle" /\ job[j].pc = "asking" /\ j # "press"
      /\ UNCHANGED <<pushRow, owner, signingOut, pushHeard, choice, signIns>>
  BY JobMoves, JobIdleIs DEF P!OwesNothing, JobInv, P!counts
<1>2. stored' \in PushRecord /\ stored'.entry = stored.entry /\ stored'.pending = stored.pending /\ (stored'.of = 0 => stored.of = 0)
  BY CarryKeeps DEF P!OwesNothing, PushTypes
<1>3. PushTypes' BY <1>1, <1>2 DEF PushTypes, Moved
<1>4. RecordInv' BY <1>1, <1>2 DEF RecordInv
<1>5. \A k \in P!Job : JobInv(k)'
  BY <1>1, <1>2 DEF JobInv, RecordInv, SwitchInv, P!Job, Moved, P!Registering, P!Removing, P!Flushing
<1>6. SwitchInv' BY <1>1, <1>2 DEF JobInv, RecordInv, SwitchInv, P!Job, Moved, P!Registering, P!Removing, P!Flushing
<1>7. OwedInv'
  BY <1>1, <1>2 DEF JobInv, RecordInv, SwitchInv, OwedInv, P!Job, Moved, P!Registering, P!Removing, P!Flushing
<1> QED BY <1>3, <1>4, <1>5, <1>6, <1>7 DEF PushInv

LEMMA SendsKeeps == ASSUME PushInv, NEW j \in P!Job, P!Sends(j) PROVE PushInv'
<1> USE DEF PushInv
<1>1. /\ Moved(j) /\ job'[j].pc = "posting" /\ job[j].pc = "waiting" /\ job["launch"].pc \notin P!Flushing
      /\ job'[j].by = job[j].by /\ job'[j].alerts = job[j].alerts /\ job'[j].queued = job[j].queued
      /\ UNCHANGED <<pushRow, owner, signingOut, pushHeard, choice, signIns>>
  <2>1. "posting" \in P!PCs BY DEF P!PCs, P!Registering
  <2> QED BY <2>1, PcMoves DEF P!Sends, P!counts
<1>2. stored' = stored BY DEF P!Sends
<1>3. PushTypes' BY <1>1, <1>2 DEF PushTypes, Moved
<1>4. RecordInv' BY <1>1, <1>2 DEF RecordInv
<1>5. \A k \in P!Job : JobInv(k)'
  BY <1>1, <1>2 DEF JobInv, RecordInv, SwitchInv, P!Job, Moved, P!Registering, P!Removing, P!Flushing
<1>6. SwitchInv' BY <1>1, <1>2 DEF JobInv, RecordInv, SwitchInv, P!Job, Moved, P!Registering, P!Removing, P!Flushing
<1>7. OwedInv'
  BY <1>1, <1>2 DEF JobInv, RecordInv, SwitchInv, OwedInv, P!Job, Moved, P!Registering, P!Removing, P!Flushing
<1> QED BY <1>3, <1>4, <1>5, <1>6, <1>7 DEF PushInv

LEMMA ServedKeeps == ASSUME PushInv, NEW j \in P!Job, P!Served(j) PROVE PushInv'
<1> USE DEF PushInv
<1>1. /\ Moved(j) /\ job'[j].pc = "posted" /\ job[j].pc = "posting" /\ pushRow' = job[j].alerts
      /\ job'[j].by = job[j].by /\ job'[j].alerts = job[j].alerts /\ job'[j].queued = job[j].queued
      /\ UNCHANGED <<owner, signingOut, pushHeard, choice, signIns>>
  <2>1. "posted" \in P!PCs BY DEF P!PCs, P!Registering
  <2> QED BY <2>1, PcMoves DEF P!Served, P!counts
<1>2. stored' = stored /\ pushRow' \in P!Alerts
  <2>1. job[j] \in PushJob BY DEF PushTypes
  <2> QED BY <1>1, <2>1 DEF P!Served, PushJob
<1>8. j \in {"launch", "event", "press"} BY DEF P!Job
<1>3. PushTypes' BY <1>1, <1>2, <1>8 DEF PushTypes, Moved
<1>4. RecordInv' BY <1>1, <1>2, <1>8 DEF RecordInv
<1>5. \A k \in P!Job : JobInv(k)'
  BY <1>1, <1>2, <1>8 DEF JobInv, RecordInv, SwitchInv, P!Job, Moved, P!Registering, P!Removing, P!Flushing
<1>6. SwitchInv'
  BY <1>1, <1>2, <1>8 DEF JobInv, RecordInv, SwitchInv, P!Job, Moved, P!Registering, P!Removing, P!Flushing
<1>7. OwedInv'
  BY <1>1, <1>2, <1>8 DEF JobInv, RecordInv, SwitchInv, OwedInv, P!Job, Moved, P!Registering, P!Removing, P!Flushing
<1> QED BY <1>3, <1>4, <1>5, <1>6, <1>7 DEF PushInv

LEMMA PushAnsweredKeeps == ASSUME PushInv, NEW j \in P!Job, P!Answered(j) PROVE PushInv'
<1> USE DEF PushInv
<1> DEFINE by == job[j].by
           a == job[j].alerts
<1>1. /\ Moved(j) /\ job'[j].pc = "idle" /\ job[j].pc = "posted" /\ pushHeard'
      /\ by \in Nat /\ by # 0 /\ a \in {"alerts", "silent"} /\ a \in P!Alerts
      /\ choice' = (IF j = "press" THEN a = "alerts" ELSE choice)
      /\ UNCHANGED <<pushRow, owner, signingOut, signIns>>
  <2>1. job[j] \in PushJob BY DEF PushTypes
  <2>2. Moved(j) /\ job'[j] = P!Idle BY JobIdleIs, JobMoves DEF P!Answered
  <2>3. by # 0 /\ a \in {"alerts", "silent"} BY DEF P!Answered, JobInv, P!Registering
  <2> QED BY <2>1, <2>2, <2>3, JobIdleIs DEF P!Answered, PushJob, P!counts
<1>2. stored' \in PushRecord /\ stored'.entry = a /\ ~stored'.pending /\ stored'.of # 0
  <2> DEFINE e == P!WithEntry(P!CarryOver(by), by, a)
  <2>1. e \in PushRecord /\ e.entry = a /\ ~e.pending /\ e.of = by BY <1>1, WithEntryKeeps
  <2>2. stored' = (IF j = "press" /\ a = "silent" THEN e ELSE [e EXCEPT !.resync = FALSE]) BY DEF P!Answered
  <2> HIDE DEF e
  <2> QED BY <1>1, <2>1, <2>2 DEF PushRecord
<1>9. pushRow = a BY <1>1 DEF JobInv
<1>8. choice' \in BOOLEAN BY <1>1 DEF PushTypes
<1>10. ~signingOut /\ (j # "press" => a = stored.entry) BY <1>1 DEF JobInv, P!Registering
<1> HIDE DEF a
<1>3. PushTypes' BY <1>1, <1>2, <1>8, <1>9, <1>10 DEF PushTypes, Moved
<1>4. RecordInv' BY <1>1, <1>2, <1>8, <1>9, <1>10 DEF RecordInv
<1>5. \A k \in P!Job : JobInv(k)'
  BY <1>1, <1>2, <1>8, <1>9, <1>10 DEF JobInv, RecordInv, SwitchInv, P!Job, Moved, P!Registering, P!Removing,
     P!Flushing
<1>6. SwitchInv'
  BY <1>1, <1>2, <1>8, <1>9, <1>10 DEF JobInv, RecordInv, SwitchInv, P!Job, Moved, P!Registering, P!Removing,
     P!Flushing
<1>7. OwedInv'
  BY <1>1, <1>2, <1>8, <1>9, <1>10 DEF JobInv, RecordInv, SwitchInv, OwedInv, P!Job, Moved, P!Registering,
     P!Removing, P!Flushing
<1> QED BY <1>3, <1>4, <1>5, <1>6, <1>7 DEF PushInv

LEMMA PushFailsKeeps == ASSUME PushInv, NEW j \in P!Job, P!Fails(j) PROVE PushInv'
<1> USE DEF PushInv
<1> DEFINE by == job[j].by
           off == j = "press" /\ job[j].alerts = "silent"
<1>1. /\ Moved(j) /\ job'[j].pc = "idle" /\ job[j].pc \in {"posting", "posted", "pressing"}
      /\ by \in Nat /\ by # 0 /\ UNCHANGED <<pushRow, owner, signingOut, pushHeard, signIns>>
      /\ job[j].queued \in BOOLEAN
  <2>1. job[j] \in PushJob BY DEF PushTypes
  <2>2. Moved(j) /\ job'[j] = P!Idle BY JobIdleIs, JobMoves DEF P!Fails
  <2>3. by # 0 BY DEF P!Fails, JobInv
  <2> QED BY <2>1, <2>2, <2>3, JobIdleIs DEF P!Fails, PushJob
<1>8. /\ job[j].pc \in {"posting", "posted"} \/ (j = "press" /\ off /\ P!Alone(j))
      /\ choice' = (choice /\ ~off)
      /\ ~(j = "press" /\ job[j].pc = "posted" /\ job[j].alerts = "alerts")
  BY <1>1 DEF P!Fails, JobInv
<1>9. P!WithPending(P!CarryOver(by), by, TRUE) \in PushRecord /\ P!WithPending(P!CarryOver(by), by, TRUE).of = by
      /\ P!WithPending(P!CarryOver(by), by, TRUE).entry = stored.entry /\ P!WithPending(P!CarryOver(by), by, TRUE).pending
  BY <1>1, WithPendingKeeps
<1>10. "silent" \in P!Alerts BY DEF P!Alerts
<1>11. P!WithEntry(P!CarryOver(by), by, "silent") \in PushRecord /\ P!WithEntry(P!CarryOver(by), by, "silent").of = by
       /\ P!WithEntry(P!CarryOver(by), by, "silent").entry = "silent" /\ ~P!WithEntry(P!CarryOver(by), by, "silent").pending
  BY <1>1, <1>10, WithEntryKeeps
<1>2. /\ stored' \in PushRecord /\ (stored'.of = 0 => stored.of = 0 /\ stored' = stored)
      /\ stored'.entry = (IF off THEN "silent" ELSE stored.entry)
      /\ stored'.pending = (IF off THEN FALSE ELSE job[j].queued \/ stored.pending)
  <2>1. CASE off
    <3>1. stored' = P!WithEntry(P!CarryOver(by), by, "silent") BY <2>1 DEF P!Fails
    <3>2. stored'.pending \in BOOLEAN BY <3>1, <1>11 DEF PushRecord
    <3> QED BY <2>1, <3>1, <3>2, <1>1, <1>11
  <2>2. CASE ~off /\ job[j].queued
    <3>1. stored' = P!WithPending(P!CarryOver(by), by, TRUE) BY <2>2 DEF P!Fails
    <3>2. stored'.pending \in BOOLEAN BY <3>1, <1>9 DEF PushRecord
    <3> QED BY <2>2, <3>1, <3>2, <1>1, <1>9
  <2>3. CASE ~off /\ ~job[j].queued BY <2>3 DEF P!Fails, PushTypes, PushRecord
  <2> QED BY <2>1, <2>2, <2>3, <1>1
<1>12. ~signingOut /\ (j # "press" => ~job[j].queued) /\ (j = "press" => ~stored.pending \/ job[j].pc = "pressing")
       /\ (off => choice' = FALSE) /\ (~off => choice' = choice) /\ choice' \in BOOLEAN
  <2>1. job["press"].pc = "pressing" => ~signingOut BY DEF SwitchInv
  <2> QED BY <1>1, <1>8, <2>1 DEF JobInv, P!Registering, PushTypes
<1>13. off => job["launch"].pc \notin P!Registering /\ job["event"].pc \notin P!Registering /\ stored.entry # "none"
  <2>1. CASE job[j].pc \in {"posting", "posted"} BY <2>1 DEF SwitchInv, JobInv, P!Registering
  <2>2. CASE j = "press" /\ off /\ P!Alone(j) /\ job[j].pc = "pressing"
    BY <2>2 DEF P!Alone, SwitchInv, P!Job
  <2> QED BY <1>1, <1>8, <2>1, <2>2
<1> HIDE DEF off, by
<1>14. off => j = "press" BY DEF off
<1>15. job[j].queued /\ j = "press" /\ job[j].pc \in {"posting", "posted"} => stored.entry = "none"
  BY DEF JobInv, P!Registering
<1>16. ~off /\ job[j].pc = "pressing" => FALSE BY <1>8
<1>17. j = "press" /\ job[j].pc = "posted" => off
  <2>1. ASSUME j = "press", job[j].pc = "posted" PROVE job[j].alerts = "silent"
    BY <2>1, <1>8 DEF JobInv, P!Registering
  <2> QED BY <2>1 DEF off
<1>3. PushTypes' BY <1>1, <1>2, <1>8, <1>12, <1>13, <1>14, <1>15, <1>16, <1>17 DEF PushTypes, Moved
<1>4. RecordInv' BY <1>1, <1>2, <1>8, <1>12, <1>13, <1>14, <1>15, <1>16, <1>17 DEF RecordInv
<1>5. \A k \in P!Job : JobInv(k)'
  BY <1>1, <1>2, <1>8, <1>12, <1>13, <1>14, <1>15, <1>16, <1>17 DEF JobInv, RecordInv, SwitchInv, P!Job, Moved,
     P!Registering, P!Removing, P!Flushing
<1>6. SwitchInv'
  BY <1>1, <1>2, <1>8, <1>12, <1>13, <1>14, <1>15, <1>16, <1>17 DEF JobInv, RecordInv, SwitchInv, P!Job, Moved,
     P!Registering, P!Removing, P!Flushing
<1>7. OwedInv'
  BY <1>1, <1>2, <1>8, <1>12, <1>13, <1>14, <1>15, <1>16, <1>17 DEF JobInv, RecordInv, SwitchInv, OwedInv, P!Job,
     Moved, P!Registering, P!Removing, P!Flushing
<1> QED BY <1>3, <1>4, <1>5, <1>6, <1>7 DEF PushInv

-----------------------------------------------------------------------------
(* The switch. *)

LEMMA TurnsOnKeeps == ASSUME PushInv, P!TurnsOn PROVE PushInv'
<1> USE DEF PushInv
<1>1. /\ Moved("press") /\ job'["press"].pc = "pressed" /\ job'["press"].by # 0 /\ job["press"].pc = "idle" /\ ~signingOut
      /\ UNCHANGED <<pushRow, owner, signingOut, pushHeard, choice, signIns>>
  <2>1. "press" \in P!Job /\ "pressed" \in P!PCs BY DEF P!Job, P!PCs
  <2> QED BY <2>1, JobMoves, AtIs, JobIdleIs DEF P!TurnsOn, P!MayPress
<1>2. stored' = stored BY DEF P!TurnsOn
<1>3. PushTypes' BY <1>1, <1>2 DEF PushTypes, Moved
<1>4. RecordInv' BY <1>1, <1>2 DEF RecordInv
<1>5. \A k \in P!Job : JobInv(k)'
  BY <1>1, <1>2 DEF JobInv, RecordInv, SwitchInv, P!Job, Moved, P!Registering, P!Removing, P!Flushing
<1>6. SwitchInv' BY <1>1, <1>2 DEF JobInv, RecordInv, SwitchInv, P!Job, Moved, P!Registering, P!Removing, P!Flushing
<1>7. OwedInv'
  BY <1>1, <1>2 DEF JobInv, RecordInv, SwitchInv, OwedInv, P!Job, Moved, P!Registering, P!Removing, P!Flushing
<1> QED BY <1>3, <1>4, <1>5, <1>6, <1>7 DEF PushInv

LEMMA EnablesKeeps == ASSUME PushInv, P!Enables PROVE PushInv'
<1> USE DEF PushInv
<1>1. /\ Moved("press") /\ job'["press"].pc = "waiting" /\ job'["press"].by # 0 /\ job'["press"].alerts = "alerts"
      /\ job'["press"].queued = stored.pending /\ job["press"].pc = "pressed" /\ P!Alone("press")
      /\ UNCHANGED <<pushRow, owner, signingOut, pushHeard, choice, signIns>>
  <2>1. "press" \in P!Job /\ "alerts" \in P!Alerts BY DEF P!Job, P!Alerts
  <2> QED BY <2>1, RegistersIs DEF P!Enables, P!counts
<1>2. stored' \in PushRecord /\ stored'.entry = stored.entry /\ ~stored'.pending /\ (stored'.of = 0 => stored.of = 0)
  <2>1. "press" \in P!Job /\ "alerts" \in P!Alerts BY DEF P!Job, P!Alerts
  <2> QED BY <2>1, RegistersIs DEF P!Enables
<1>8. job["launch"].pc \notin P!Registering \cup P!Removing /\ job["event"].pc \notin P!Registering \cup P!Removing
  BY <1>1 DEF P!Alone, P!Job
<1>3. PushTypes' BY <1>1, <1>2, <1>8 DEF PushTypes, Moved
<1>4. RecordInv' BY <1>1, <1>2, <1>8 DEF RecordInv
<1>5. \A k \in P!Job : JobInv(k)'
  BY <1>1, <1>2, <1>8 DEF JobInv, RecordInv, SwitchInv, P!Job, Moved, P!Registering, P!Removing, P!Flushing
<1>6. SwitchInv'
  BY <1>1, <1>2, <1>8 DEF JobInv, RecordInv, SwitchInv, P!Job, Moved, P!Registering, P!Removing, P!Flushing
<1>7. OwedInv'
  BY <1>1, <1>2, <1>8 DEF JobInv, RecordInv, SwitchInv, OwedInv, P!Job, Moved, P!Registering, P!Removing, P!Flushing
<1> QED BY <1>3, <1>4, <1>5, <1>6, <1>7 DEF PushInv

LEMMA GivesUpKeeps == ASSUME PushInv, P!GivesUp PROVE PushInv'
<1> USE DEF PushInv
<1>1. /\ Moved("press") /\ job'["press"].pc = "idle" /\ job["press"].pc = "pressed"
      /\ UNCHANGED <<pushRow, owner, signingOut, pushHeard, choice, signIns>>
  <2>1. "press" \in P!Job BY DEF P!Job
  <2> QED BY <2>1, JobMoves, JobIdleIs DEF P!GivesUp, P!counts
<1>2. stored' = stored BY DEF P!GivesUp
<1>3. PushTypes' BY <1>1, <1>2 DEF PushTypes, Moved
<1>4. RecordInv' BY <1>1, <1>2 DEF RecordInv
<1>5. \A k \in P!Job : JobInv(k)'
  BY <1>1, <1>2 DEF JobInv, RecordInv, SwitchInv, P!Job, Moved, P!Registering, P!Removing, P!Flushing
<1>6. SwitchInv' BY <1>1, <1>2 DEF JobInv, RecordInv, SwitchInv, P!Job, Moved, P!Registering, P!Removing, P!Flushing
<1>7. OwedInv'
  BY <1>1, <1>2 DEF JobInv, RecordInv, SwitchInv, OwedInv, P!Job, Moved, P!Registering, P!Removing, P!Flushing
<1> QED BY <1>3, <1>4, <1>5, <1>6, <1>7 DEF PushInv

LEMMA TurnsOffKeeps == ASSUME PushInv, P!TurnsOff PROVE PushInv'
<1> USE DEF PushInv
<1>1. /\ Moved("press") /\ job'["press"].pc = "pressing" /\ job'["press"].by # 0 /\ job["press"].pc = "idle"
      /\ ~signingOut /\ stored.entry = "alerts"
      /\ UNCHANGED <<pushRow, owner, signingOut, pushHeard, choice, signIns>>
  <2> DEFINE r == [P!At("pressing") EXCEPT !.alerts = IF provider = "fcm" THEN "silent" ELSE "none"]
  <2>1. "press" \in P!Job /\ "pressing" \in P!PCs /\ "silent" \in P!Alerts /\ "none" \in P!Alerts
    BY DEF P!Job, P!PCs, P!Alerts
  <2>2. P!At("pressing") \in PushJob /\ P!At("pressing").pc = "pressing" /\ P!At("pressing").by = owner
    BY <2>1, AtIs
  <2>3. r \in PushJob /\ r.pc = "pressing" /\ r.by = owner BY <2>1, <2>2 DEF PushJob
  <2>4. job' = [job EXCEPT !["press"] = r] BY DEF P!TurnsOff
  <2> HIDE DEF r
  <2>5. Moved("press") /\ job'["press"] = r BY <2>1, <2>3, <2>4, JobMoves
  <2> QED BY <2>3, <2>5, JobIdleIs DEF P!TurnsOff, P!MayPress, P!Shown
<1>2. stored' = stored BY DEF P!TurnsOff
<1>3. PushTypes' BY <1>1, <1>2 DEF PushTypes, Moved
<1>4. RecordInv' BY <1>1, <1>2 DEF RecordInv
<1>5. \A k \in P!Job : JobInv(k)'
  BY <1>1, <1>2 DEF JobInv, RecordInv, SwitchInv, P!Job, Moved, P!Registering, P!Removing, P!Flushing
<1>6. SwitchInv' BY <1>1, <1>2 DEF JobInv, RecordInv, SwitchInv, P!Job, Moved, P!Registering, P!Removing, P!Flushing
<1>7. OwedInv'
  BY <1>1, <1>2 DEF JobInv, RecordInv, SwitchInv, OwedInv, P!Job, Moved, P!Registering, P!Removing, P!Flushing
<1> QED BY <1>3, <1>4, <1>5, <1>6, <1>7 DEF PushInv

LEMMA SilencesKeeps == ASSUME PushInv, P!Silences PROVE PushInv'
<1> USE DEF PushInv
<1>1. /\ Moved("press") /\ job'["press"].pc = "waiting" /\ job'["press"].by # 0 /\ job'["press"].alerts = "silent"
      /\ job'["press"].queued = stored.pending /\ job["press"].pc = "pressing" /\ P!Alone("press")
      /\ UNCHANGED <<pushRow, owner, signingOut, pushHeard, choice, signIns>>
  <2>1. "press" \in P!Job /\ "silent" \in P!Alerts BY DEF P!Job, P!Alerts
  <2> QED BY <2>1, RegistersIs DEF P!Silences, P!counts
<1>2. stored' \in PushRecord /\ stored'.entry = stored.entry /\ ~stored'.pending /\ (stored'.of = 0 => stored.of = 0)
  <2>1. "press" \in P!Job /\ "silent" \in P!Alerts BY DEF P!Job, P!Alerts
  <2> QED BY <2>1, RegistersIs DEF P!Silences
<1>8. job["launch"].pc \notin P!Registering \cup P!Removing /\ job["event"].pc \notin P!Registering \cup P!Removing
  BY <1>1 DEF P!Alone, P!Job
<1>3. PushTypes' BY <1>1, <1>2, <1>8 DEF PushTypes, Moved
<1>4. RecordInv' BY <1>1, <1>2, <1>8 DEF RecordInv
<1>5. \A k \in P!Job : JobInv(k)'
  BY <1>1, <1>2, <1>8 DEF JobInv, RecordInv, SwitchInv, P!Job, Moved, P!Registering, P!Removing, P!Flushing
<1>6. SwitchInv'
  BY <1>1, <1>2, <1>8 DEF JobInv, RecordInv, SwitchInv, P!Job, Moved, P!Registering, P!Removing, P!Flushing
<1>7. OwedInv'
  BY <1>1, <1>2, <1>8 DEF JobInv, RecordInv, SwitchInv, OwedInv, P!Job, Moved, P!Registering, P!Removing, P!Flushing
<1> QED BY <1>3, <1>4, <1>5, <1>6, <1>7 DEF PushInv

LEMMA UnregistersKeeps == ASSUME PushInv, P!Unregisters PROVE PushInv'
<1> USE DEF PushInv
<1>1. /\ Moved("press") /\ job'["press"].pc = "removing" /\ job'["press"].by = job["press"].by
      /\ job["press"].pc = "pressing" /\ P!Alone("press")
      /\ UNCHANGED <<pushRow, owner, signingOut, pushHeard, choice, signIns>>
  <2>1. "press" \in P!Job /\ "removing" \in P!PCs BY DEF P!Job, P!PCs, P!Removing
  <2> QED BY <2>1, PcMoves DEF P!Unregisters, P!counts
<1>2. stored' \in PushRecord /\ stored'.entry = stored.entry /\ stored'.pending = stored.pending /\ (stored'.of = 0 => stored.of = 0)
  <2>1. job["press"] \in PushJob BY DEF PushTypes, P!Job
  <2> DEFINE c == P!CarryOver(job["press"].by)
  <2>2. job["press"].by \in Nat /\ (job["press"].pc = "pressing" => job["press"].by # 0)
    BY <2>1 DEF PushJob, JobInv, P!Job
  <2>3. c \in PushRecord /\ c.entry = stored.entry /\ c.pending = stored.pending /\ (c.of = 0 => stored.of = 0)
    BY <1>1, <2>2, CarryKeeps
  <2>4. stored' = c BY DEF P!Unregisters
  <2> HIDE DEF c
  <2> QED BY <2>3, <2>4
<1>8. job["launch"].pc \notin P!Registering \cup P!Removing /\ job["event"].pc \notin P!Registering \cup P!Removing
  BY <1>1 DEF P!Alone, P!Job
<1>3. PushTypes' BY <1>1, <1>2, <1>8 DEF PushTypes, Moved
<1>4. RecordInv' BY <1>1, <1>2, <1>8 DEF RecordInv
<1>5. \A k \in P!Job : JobInv(k)'
  BY <1>1, <1>2, <1>8 DEF JobInv, RecordInv, SwitchInv, P!Job, Moved, P!Registering, P!Removing, P!Flushing
<1>6. SwitchInv'
  BY <1>1, <1>2, <1>8 DEF JobInv, RecordInv, SwitchInv, P!Job, Moved, P!Registering, P!Removing, P!Flushing
<1>7. OwedInv'
  BY <1>1, <1>2, <1>8 DEF JobInv, RecordInv, SwitchInv, OwedInv, P!Job, Moved, P!Registering, P!Removing, P!Flushing
<1> QED BY <1>3, <1>4, <1>5, <1>6, <1>7 DEF PushInv

LEMMA RemovedKeeps == ASSUME PushInv, P!Removed PROVE PushInv'
<1> USE DEF PushInv
<1>1. /\ Moved("press") /\ job'["press"].pc = "removed" /\ job'["press"].by = job["press"].by
      /\ job["press"].pc = "removing" /\ pushRow' = "none" /\ UNCHANGED <<owner, signingOut, pushHeard, choice, signIns>>
  <2>1. "press" \in P!Job /\ "removed" \in P!PCs BY DEF P!Job, P!PCs, P!Removing
  <2> QED BY <2>1, PcMoves DEF P!Removed, P!counts
<1>2. stored' = stored /\ pushRow' \in P!Alerts BY <1>1 DEF P!Removed, P!Alerts
<1>3. PushTypes' BY <1>1, <1>2 DEF PushTypes, Moved
<1>4. RecordInv' BY <1>1, <1>2 DEF RecordInv
<1>5. \A k \in P!Job : JobInv(k)'
  BY <1>1, <1>2 DEF JobInv, RecordInv, SwitchInv, P!Job, Moved, P!Registering, P!Removing, P!Flushing
<1>6. SwitchInv' BY <1>1, <1>2 DEF JobInv, RecordInv, SwitchInv, P!Job, Moved, P!Registering, P!Removing, P!Flushing
<1>7. OwedInv'
  BY <1>1, <1>2 DEF JobInv, RecordInv, SwitchInv, OwedInv, P!Job, Moved, P!Registering, P!Removing, P!Flushing
<1> QED BY <1>3, <1>4, <1>5, <1>6, <1>7 DEF PushInv

LEMMA PushForgetsKeeps == ASSUME PushInv, NEW reached \in BOOLEAN, P!Forgets(reached) PROVE PushInv'
<1> USE DEF PushInv
<1> DEFINE by == job["press"].by
<1>1. /\ Moved("press") /\ job'["press"].pc = "idle" /\ job["press"].pc \in P!Removing
      /\ (reached => job["press"].pc = "removed") /\ choice' = FALSE /\ by \in Nat /\ by # 0
      /\ UNCHANGED <<pushRow, owner, signingOut, pushHeard, signIns>>
  <2>1. "press" \in P!Job BY DEF P!Job
  <2>2. job["press"] \in PushJob BY <2>1 DEF PushTypes
  <2>3. job["press"].pc \in P!Removing /\ (reached => job["press"].pc = "removed") BY DEF P!Forgets, P!Removing
  <2>4. by # 0 BY <2>1, <2>3 DEF JobInv, P!Removing
  <2>5. Moved("press") /\ job'["press"] = P!Idle BY <2>1, JobIdleIs, JobMoves DEF P!Forgets
  <2> QED BY <2>2, <2>3, <2>4, <2>5, JobIdleIs DEF P!Forgets, PushJob
<1>2. /\ stored' \in PushRecord /\ stored'.entry = "none" /\ (stored'.of = 0 => stored.of = 0 /\ ~stored'.pending)
      /\ stored'.pending = (IF reached THEN stored.pending ELSE TRUE)
  <2> DEFINE c == P!CarryOver(by)
             r == [c EXCEPT !.entry = "none"]
  <2>1. c \in PushRecord /\ c.pending = stored.pending /\ c.of = (IF stored.of = 0 THEN 0 ELSE by)
    BY <1>1, CarryKeeps
  <2>2. "none" \in P!Alerts BY DEF P!Alerts
  <2>3. r \in PushRecord /\ r.pending = stored.pending /\ r.of = c.of /\ r.entry = "none"
    BY <2>1, <2>2 DEF PushRecord
  <2>4. CASE reached
    <3>1. stored' = r BY <2>4 DEF P!Forgets
    <3> QED BY <2>1, <2>3, <2>4, <3>1, <1>1 DEF RecordInv
  <2>5. CASE ~reached
    <3>1. stored' = P!WithPending(r, by, TRUE) BY <2>5 DEF P!Forgets
    <3> HIDE DEF r
    <3>2. CASE r.of = by
      <4>1. stored' = [r EXCEPT !.pending = TRUE] BY <3>1, <3>2 DEF P!WithPending
      <4> QED BY <2>3, <2>5, <3>2, <4>1, <1>1 DEF PushRecord
    <3>3. CASE r.of # by
      <4>1. stored' = [P!Record(by, "none", FALSE, FALSE) EXCEPT !.pending = TRUE] BY <3>1, <3>3 DEF P!WithPending
      <4> QED BY <2>2, <2>5, <4>1, <1>1 DEF P!Record, PushRecord
    <3> QED BY <3>2, <3>3
  <2> QED BY <2>4, <2>5
<1>3. PushTypes' BY <1>1, <1>2 DEF PushTypes, Moved
<1>4. RecordInv' BY <1>1, <1>2 DEF RecordInv
<1>5. \A k \in P!Job : JobInv(k)'
  BY <1>1, <1>2 DEF JobInv, RecordInv, SwitchInv, P!Job, Moved, P!Registering, P!Removing, P!Flushing
<1>6. SwitchInv' BY <1>1, <1>2 DEF JobInv, RecordInv, SwitchInv, P!Job, Moved, P!Registering, P!Removing, P!Flushing
<1>7. OwedInv'
  BY <1>1, <1>2 DEF JobInv, RecordInv, SwitchInv, OwedInv, P!Job, Moved, P!Registering, P!Removing, P!Flushing
<1> QED BY <1>3, <1>4, <1>5, <1>6, <1>7 DEF PushInv

-----------------------------------------------------------------------------
(* Sessions and processes. *)

LEMMA PushSignsInKeeps == ASSUME PushInv, P!SignsIn PROVE PushInv'
<1> USE DEF PushInv
<1>1. /\ Moved("launch") /\ job'["launch"].pc = "starting" /\ job'["launch"].by # 0 /\ job["launch"].pc = "idle"
      /\ owner' \in Nat /\ signIns' \in Nat /\ UNCHANGED <<pushRow, signingOut, pushHeard, choice>>
  <2> DEFINE r == [P!Idle EXCEPT !.pc = "starting", !.by = owner']
  <2>1. "launch" \in P!Job /\ "starting" \in P!PCs BY DEF P!Job, P!PCs
  <2>2. owner' \in Nat /\ owner' # 0 /\ signIns' \in Nat BY DEF P!SignsIn, PushTypes
  <2>3. r \in PushJob /\ r.pc = "starting" /\ r.by = owner' BY <2>1, <2>2, JobIdleIs DEF PushJob
  <2>4. job' = [job EXCEPT !["launch"] = r] BY DEF P!SignsIn
  <2> HIDE DEF r
  <2>5. Moved("launch") /\ job'["launch"] = r BY <2>1, <2>3, <2>4, JobMoves
  <2> QED BY <2>2, <2>3, <2>5, JobIdleIs DEF P!SignsIn
<1>2. stored' = stored BY DEF P!SignsIn
<1>3. PushTypes' BY <1>1, <1>2 DEF PushTypes, Moved
<1>4. RecordInv' BY <1>1, <1>2 DEF RecordInv
<1>5. \A k \in P!Job : JobInv(k)'
  BY <1>1, <1>2 DEF JobInv, RecordInv, SwitchInv, P!Job, Moved, P!Registering, P!Removing, P!Flushing
<1>6. SwitchInv' BY <1>1, <1>2 DEF JobInv, RecordInv, SwitchInv, P!Job, Moved, P!Registering, P!Removing, P!Flushing
<1>7. OwedInv'
  BY <1>1, <1>2 DEF JobInv, RecordInv, SwitchInv, OwedInv, P!Job, Moved, P!Registering, P!Removing, P!Flushing
<1> QED BY <1>3, <1>4, <1>5, <1>6, <1>7 DEF PushInv

LEMMA PushSignsOutKeeps == ASSUME PushInv, P!SignsOut PROVE PushInv'
<1> USE DEF PushInv
<1>1. /\ signingOut' = TRUE /\ choice' = FALSE /\ UNCHANGED <<pushRow, owner, job, pushHeard, signIns>>
      /\ \A j \in P!Job : job[j].pc \notin P!Registering \cup {"pressed", "pressing"}
  BY DEF P!SignsOut, P!counts
<1>2. /\ stored' \in PushRecord /\ stored'.entry = "none" /\ stored'.of = stored.of
      /\ stored'.pending = (stored.pending \/ stored.entry # "none")
  <2>1. "none" \in P!Alerts /\ stored \in PushRecord BY DEF P!Alerts, PushTypes
  <2>2. (stored.pending \/ stored.entry # "none") \in BOOLEAN OBVIOUS
  <2> QED BY <2>1, <2>2 DEF P!SignsOut, P!SignedOut, PushRecord
<1>3. PushTypes' BY <1>1, <1>2 DEF PushTypes, Moved
<1>4. RecordInv' BY <1>1, <1>2 DEF RecordInv
<1>5. \A k \in P!Job : JobInv(k)'
  BY <1>1, <1>2 DEF JobInv, RecordInv, SwitchInv, P!Job, Moved, P!Registering, P!Removing, P!Flushing
<1>6. SwitchInv' BY <1>1, <1>2 DEF JobInv, RecordInv, SwitchInv, P!Job, Moved, P!Registering, P!Removing, P!Flushing
<1>7. OwedInv'
  BY <1>1, <1>2 DEF JobInv, RecordInv, SwitchInv, OwedInv, P!Job, Moved, P!Registering, P!Removing, P!Flushing
<1> QED BY <1>3, <1>4, <1>5, <1>6, <1>7 DEF PushInv

LEMMA LogoutKeeps == ASSUME PushInv, P!Logout PROVE PushInv'
<1> USE DEF PushInv
<1>1. pushRow' = "none" /\ signingOut /\ UNCHANGED <<owner, signingOut, job, pushHeard, choice, signIns>>
  BY DEF P!Logout, P!counts
<1>2. stored' = stored /\ pushRow' \in P!Alerts BY <1>1 DEF P!Logout, P!Alerts
<1>3. PushTypes' BY <1>1, <1>2 DEF PushTypes, Moved
<1>4. RecordInv' BY <1>1, <1>2 DEF RecordInv
<1>5. \A k \in P!Job : JobInv(k)'
  BY <1>1, <1>2 DEF JobInv, RecordInv, SwitchInv, P!Job, Moved, P!Registering, P!Removing, P!Flushing
<1>6. SwitchInv' BY <1>1, <1>2 DEF JobInv, RecordInv, SwitchInv, P!Job, Moved, P!Registering, P!Removing, P!Flushing
<1>7. OwedInv'
  BY <1>1, <1>2 DEF JobInv, RecordInv, SwitchInv, OwedInv, P!Job, Moved, P!Registering, P!Removing, P!Flushing
<1> QED BY <1>3, <1>4, <1>5, <1>6, <1>7 DEF PushInv

LEMMA PushEndsKeeps == ASSUME PushInv, P!Leaves \/ P!Expires PROVE PushInv'
<1> USE DEF PushInv
<1>1. owner' = 0 /\ signingOut' = FALSE /\ UNCHANGED <<pushRow, job, pushHeard, choice, signIns>>
  BY DEF P!Leaves, P!Expires, PushTypes
<1>2. stored' = stored BY DEF P!Leaves, P!Expires
<1>3. PushTypes' BY <1>1, <1>2 DEF PushTypes, Moved
<1>4. RecordInv' BY <1>1, <1>2 DEF RecordInv
<1>5. \A k \in P!Job : JobInv(k)'
  BY <1>1, <1>2 DEF JobInv, RecordInv, SwitchInv, P!Job, Moved, P!Registering, P!Removing, P!Flushing
<1>6. SwitchInv' BY <1>1, <1>2 DEF JobInv, RecordInv, SwitchInv, P!Job, Moved, P!Registering, P!Removing, P!Flushing
<1>7. OwedInv'
  BY <1>1, <1>2 DEF JobInv, RecordInv, SwitchInv, OwedInv, P!Job, Moved, P!Registering, P!Removing, P!Flushing
<1> QED BY <1>3, <1>4, <1>5, <1>6, <1>7 DEF PushInv

LEMMA KilledKeeps == ASSUME PushInv, P!Killed PROVE PushInv'
<1> USE DEF PushInv
<1>1. /\ signingOut' = FALSE /\ pushHeard' = FALSE /\ job' = [j \in P!Job |-> P!Idle] /\ UNCHANGED <<pushRow, owner, choice, signIns>>
      /\ ~(job["press"].pc \in P!Registering /\ job["press"].alerts = "alerts")
  BY DEF P!Killed
<1>2. stored' = stored BY DEF P!Killed
<1>8. "press" \in P!Job /\ "launch" \in P!Job /\ \A j \in P!Job : job'[j] = P!Idle /\ P!Idle \in PushJob /\ P!Idle.pc = "idle"
  BY <1>1, JobIdleIs DEF P!Job
<1>9. ~(job["press"].pc \in P!Registering /\ job["press"].queued) /\ ~(job["press"].pc = "posted" /\ job["press"].alerts = "alerts")
  BY <1>1, <1>8 DEF JobInv, P!Registering
<1>3. PushTypes' BY <1>1, <1>2, <1>8, <1>9 DEF PushTypes, Moved
<1>4. RecordInv' BY <1>1, <1>2, <1>8, <1>9 DEF RecordInv
<1>5. \A k \in P!Job : JobInv(k)'
  BY <1>1, <1>2, <1>8, <1>9 DEF JobInv, RecordInv, SwitchInv, P!Job, Moved, P!Registering, P!Removing, P!Flushing
<1>6. SwitchInv'
  BY <1>1, <1>2, <1>8, <1>9 DEF JobInv, RecordInv, SwitchInv, P!Job, Moved, P!Registering, P!Removing, P!Flushing
<1>7. OwedInv'
  BY <1>1, <1>2, <1>8, <1>9 DEF JobInv, RecordInv, SwitchInv, OwedInv, P!Job, Moved, P!Registering, P!Removing,
     P!Flushing
<1> QED BY <1>3, <1>4, <1>5, <1>6, <1>7 DEF PushInv

LEMMA LaunchesKeeps == ASSUME PushInv, P!Launches PROVE PushInv'
<1> USE DEF PushInv
<1>1. UNCHANGED <<pushRow, owner, signingOut, pushHeard, choice, signIns>> BY DEF P!Launches, P!counts
<1>2. stored' = stored BY DEF P!Launches
<1>8. CASE owner = 0
  <2>1. job' = job BY <1>8 DEF P!Launches
  <2> QED BY <1>1, <1>2, <2>1 DEF PushTypes, RecordInv, JobInv, SwitchInv, OwedInv
<1>9. CASE owner # 0
  <2>1. Moved("launch") /\ job'["launch"].pc = "starting" /\ job'["launch"].by # 0
    <3>1. "launch" \in P!Job /\ "starting" \in P!PCs BY DEF P!Job, P!PCs
    <3>2. P!At("starting") \in PushJob /\ P!At("starting").pc = "starting" /\ P!At("starting").by = owner
      BY <3>1, AtIs
    <3>3. job' = [job EXCEPT !["launch"] = P!At("starting")] BY <1>9 DEF P!Launches
    <3>4. Moved("launch") /\ job'["launch"] = P!At("starting") BY <3>1, <3>2, <3>3, JobMoves
    <3> QED BY <1>9, <3>2, <3>4
  <2>3. PushTypes' BY <1>1, <1>2, <2>1 DEF PushTypes, Moved
  <2>4. RecordInv' BY <1>1, <1>2 DEF RecordInv
  <2>5. \A k \in P!Job : JobInv(k)'
    BY <1>1, <1>2, <2>1 DEF JobInv, P!Job, Moved, P!Registering, P!Removing, P!Flushing
  <2>6. SwitchInv' BY <1>1, <1>2, <2>1 DEF SwitchInv, P!Job, Moved, P!Registering, P!Removing, P!Flushing
  <2>7. OwedInv' BY <1>1, <1>2, <2>1 DEF OwedInv, P!Job, Moved
  <2> QED BY <2>3, <2>4, <2>5, <2>6, <2>7
<1> QED BY <1>8, <1>9

LEMMA PushNextKeeps == ASSUME PushInv, [P!Next]_(P!vars) PROVE PushInv'
<1>1. CASE P!Flushes \/ P!FlushServed \/ P!FlushAnswered \/ P!FlushFails \/ P!Event
  BY <1>1, FlushesKeeps, FlushServedKeeps, FlushAnsweredKeeps, FlushFailsKeeps, EventKeeps
<1>2. ASSUME NEW j \in P!Job, P!Reregisters(j) \/ P!OwesNothing(j) \/ P!Sends(j) \/ P!Served(j) \/ P!Answered(j) \/ P!Fails(j) PROVE PushInv'
  BY <1>2, ReregistersKeeps, OwesNothingKeeps, SendsKeeps, ServedKeeps, PushAnsweredKeeps, PushFailsKeeps
<1>3. CASE P!TurnsOn \/ P!Enables \/ P!GivesUp \/ P!TurnsOff \/ P!Silences \/ P!Unregisters \/ P!Removed
  BY <1>3, TurnsOnKeeps, EnablesKeeps, GivesUpKeeps, TurnsOffKeeps, SilencesKeeps, UnregistersKeeps, RemovedKeeps
<1>4. ASSUME NEW reached \in BOOLEAN, P!Forgets(reached) PROVE PushInv' BY <1>4, PushForgetsKeeps
<1>5. CASE P!SignsIn \/ P!SignsOut \/ P!Logout \/ P!Leaves \/ P!Expires \/ P!Killed \/ P!Launches
  BY <1>5, PushSignsInKeeps, PushSignsOutKeeps, LogoutKeeps, PushEndsKeeps, KilledKeeps, LaunchesKeeps
<1>6. CASE UNCHANGED P!vars
  BY <1>6 DEF P!vars, P!counts, PushInv, PushTypes, RecordInv, JobInv, SwitchInv, OwedInv
<1> QED BY <1>1, <1>2, <1>3, <1>4, <1>5, <1>6 DEF P!Next

THEOREM PushInvariance == P!Spec => []PushInv
<1>1. PushInv /\ [P!Next]_(P!vars) => PushInv' BY PushNextKeeps
<1> QED BY <1>1, PushInitKeeps, PTL DEF P!Spec

(***************************************************************************)
(* Whatever was pressed, launched, pushHeard, failed or signed out, in      *)
(* whatever order but the Untimely: a device at rest whose person wants no *)
(* alerts shows that, and is not alerted by the server without knowing     *)
(* what it owes; and one that shows alerts is served them                  *)
(* (native-push.ts: enableNative, disableNative, startNativePush).         *)
(***************************************************************************)
THEOREM TrueSwitch == P!Spec => []SwitchIsTrue
<1>1. PushInv => SwitchIsTrue
  <2> SUFFICES ASSUME PushInv, P!Quiet PROVE P!OffIsOwed /\ P!ShownIsServed
    BY DEF SwitchIsTrue, P!OffIsOwed, P!ShownIsServed
  <2>1. job["press"].pc = "idle" BY JobIdleIs DEF P!Quiet, P!Job
  <2>2. stored.entry \in {"none", "alerts", "silent"} BY DEF PushInv, PushTypes, PushRecord, P!Alerts
  <2> QED BY <2>1, <2>2 DEF PushInv, RecordInv, OwedInv, P!OffIsOwed, P!ShownIsServed, P!Shown, P!Registering
<1> QED BY <1>1, PushInvariance, PTL

-----------------------------------------------------------------------------
(* A behaviour of the composition is one of each part. *)
LEMMA CallParts == CallSpec => Spec /\ V!Spec /\ P!Spec
<1>1. CallInit => Init /\ V!Init /\ P!Init BY DEF CallInit
<1>2. [CallNext]_callVars => [Next]_vars BY DEF CallNext, callVars
<1>3. [CallNext]_callVars => [V!Next]_(V!vars)
  BY DEF CallNext, callVars, sessionVars, V!vars, V!page, V!sfu
<1>4. [CallNext]_callVars => [P!Next]_(P!vars)
  BY DEF CallNext, callVars, pushVars, P!vars
<1> QED BY <1>1, <1>2, <1>3, <1>4, PTL DEF CallSpec, Spec, V!Spec, P!Spec

(***************************************************************************)
(* Ring, session and push together: what was proved of each holds of all.  *)
(***************************************************************************)
THEOREM CallHolds == CallSpec => [](NoGhostRing /\ PressIsCarried /\ CallIsHeld /\ RowIsTrue /\ SwitchIsTrue)
BY CallParts, OverStaysOver, NoPressIsLost, NoRoomIsLeftOpen, RowsAreTrue, TrueSwitch, PTL

(***************************************************************************)
(* And one thing rings, beside whatever the session does.                  *)
(***************************************************************************)
THEOREM CallRingsOnce ==
    ASSUME Orderly
    PROVE  CallSpec => []RingsOnce
BY CallParts, OneThingRings, PTL
=============================================================================
