-------------------------- MODULE HubChannelProofs --------------------------
(***************************************************************************)
(* Proofs about HubChannel, for any sync loops, any sweeps of the hub's    *)
(* events, any page sizes and any numbers of messages and events, as long  *)
(* as none of its Races comes about.                                       *)
(***************************************************************************)
EXTENDS HubChannel, FiniteSetTheorems, SequenceTheorems, TLAPS

USE HubAssumptions

-----------------------------------------------------------------------------
(* The strengthening, first of the messages and their cursor.              *)

LoopType == [pc : {"idle", "asking", "page", "put"}, latest : Int, page : SUBSET Nat,
             at : Nat, aborted : BOOLEAN]

ChannelTypes ==
    /\ posts \in Nat /\ removed \subseteq 1 .. posts /\ stored \subseteq 1 .. posts
    /\ latest \in Int /\ since \in Int /\ Absent <= latest /\ latest <= posts
    /\ since = Absent <=> latest = Absent
    /\ loop \in [Loop -> LoopType]

(***************************************************************************)
(* What a sync loop has in hand.  A catch-up has every message after its   *)
(* watermark up to the last of its page, and none before it to look for; a *)
(* first page lacks a message only if a page of others come after that.    *)
(***************************************************************************)
CatchUp(s) ==
    /\ since # Absent
    /\ \A m \in 1 .. posts : since < m /\ m <= s.latest => m \in stored \cup removed
    /\ \A m \in 1 .. posts, n \in s.page : s.latest < m /\ m < n => m \in s.page \cup removed
    /\ s.pc = "put" => s.page # {}

FirstLook(s) ==
    \A m \in 1 .. posts, n \in s.page : m < n => m \in s.page \cup removed \/ m + FirstPage <= s.at

PageInv(s) ==
    /\ s.pc \in {"idle", "asking"} => s.page = {}
    /\ s.page \subseteq 1 .. s.at /\ s.at <= posts
    /\ s.latest <= posts
    /\ s.pc # "idle" => IF s.latest > 0 THEN CatchUp(s) ELSE FirstLook(s)
    /\ s.pc = "put" => s.page \subseteq stored \cup removed

(***************************************************************************)
(* No more comes than a first page holds, as long as one may be looked at. *)
(***************************************************************************)
FewSince ==
    latest = 0 \/ (since # Absent /\ \E l \in Loop : FirstContact(l)) => posts - since <= FirstPage
FewMeanwhile ==
    \A l \in Loop : FirstContact(l) /\ loop[l].pc # "asking" => posts - loop[l].at <= FirstPage

ChannelInv ==
    /\ ChannelTypes /\ (\A l \in Loop : PageInv(loop[l]))
    /\ FewSince /\ FewMeanwhile /\ NothingIsPassedOver

-----------------------------------------------------------------------------
(* Pages. *)

\* What a page of the newest messages lacks has a page of others after it.
LEMMA NewestPage ==
    ASSUME NEW n \in Nat, NEW S \in SUBSET (1 .. n), NEW k \in Nat, NEW m \in S \ Newest(S, k)
    PROVE  m + k <= n
<1> DEFINE T == {x \in S : x > m}
<1>1. Cardinality(T) >= k
  <2>1. IsFiniteSet(T)
    <3>0. T \subseteq S /\ S \subseteq 1 .. n OBVIOUS
    <3> HIDE DEF T
    <3>1. T \subseteq 1 .. n /\ n \in Int /\ 1 \in Int BY <3>0
    <3>2. IsFiniteSet(1 .. n) BY <3>1, FS_Interval
    <3> QED BY <3>1, <3>2, FS_Subset
  <2>2. Cardinality(T) \in Nat BY <2>1, FS_CardinalityType
  <2>3. ~(Cardinality(T) < k) BY DEF Newest
  <2> HIDE DEF T
  <2> QED BY <2>2, <2>3
<1>2. T \subseteq (m+1) .. n
  <2>1. \A x \in 1 .. n : x > m => x \in (m+1) .. n BY SMT
  <2>2. \A x \in T : x \in 1 .. n /\ x > m OBVIOUS
  <2> HIDE DEF T
  <2> QED BY <2>1, <2>2
<1>3. m \in Nat /\ m <= n /\ m+1 \in Int OBVIOUS
<1> HIDE DEF T
<1>4. IsFiniteSet((m+1) .. n) /\ Cardinality((m+1) .. n) = n - m
  <2>1. /\ IsFiniteSet((m+1) .. n)
        /\ Cardinality((m+1) .. n) = IF m+1 > n THEN 0 ELSE n - (m+1) + 1
    BY <1>3, FS_Interval
  <2> QED BY <1>3, <2>1
<1>5. Cardinality(T) <= n - m /\ Cardinality(T) \in Nat
  <2>1. Cardinality(T) <= Cardinality((m+1) .. n) /\ IsFiniteSet(T) BY <1>2, <1>4, FS_Subset
  <2> QED BY <1>4, <2>1, FS_CardinalityType
<1> QED BY <1>1, <1>3, <1>5

\* A page of the oldest messages has all that come before one of it.
LEMMA OldestPage ==
    ASSUME NEW n \in Nat, NEW S \in SUBSET (1 .. n), NEW k \in Nat,
           NEW x \in Oldest(S, k), NEW m \in S, m < x
    PROVE  m \in Oldest(S, k)
<1> DEFINE A == {y \in S : y < m}
           B == {y \in S : y < x}
<1>1. x \in S /\ Cardinality(B) < k BY DEF Oldest
<1>2. A \subseteq B
  <2>1. \A y \in 1 .. n : y < m => y < x BY <1>1, SMT
  <2>2. \A y \in A : y \in S /\ y \in 1 .. n /\ y < m OBVIOUS
  <2>3. \A y \in S : y < x => y \in B OBVIOUS
  <2> HIDE DEF A, B
  <2> QED BY <2>1, <2>2, <2>3
<1>3. IsFiniteSet(B)
  <2>0. B \subseteq S /\ S \subseteq 1 .. n OBVIOUS
  <2> HIDE DEF B
  <2>1. B \subseteq 1 .. n /\ n \in Int /\ 1 \in Int BY <2>0
  <2>2. IsFiniteSet(1 .. n) BY <2>1, FS_Interval
  <2> QED BY <2>1, <2>2, FS_Subset
<1>4. Cardinality(A) \in Nat /\ Cardinality(B) \in Nat /\ Cardinality(A) <= Cardinality(B)
  BY <1>2, <1>3, FS_Subset, FS_CardinalityType
<1>5. Cardinality(A) < k
  <2> HIDE DEF A, B
  <2> QED BY <1>1, <1>4
<1> QED BY <1>5 DEF Oldest

LEMMA PageSizes == {FirstPage, ArchivePage, EventsPage, ContextPage} \subseteq Nat \ {0}
BY DEF HubAssumptions, PagesAssumption

-----------------------------------------------------------------------------
(* Steps that only take what was removed from what is stored, or store more. *)
LEMMA ChannelStays ==
    ASSUME ChannelInv, UNCHANGED <<posts, latest, since, loop>>,
           removed' \subseteq 1 .. posts, stored' \subseteq 1 .. posts,
           removed \subseteq removed', stored \subseteq stored' \cup removed'
    PROVE  ChannelInv'
<1>1. ChannelTypes' BY DEF ChannelInv, ChannelTypes
<1>2. ASSUME NEW l \in Loop PROVE PageInv(loop[l])'
  <2> DEFINE s == loop[l]
  <2>1. PageInv(s) /\ loop' = loop /\ posts' = posts BY DEF ChannelInv
  <2> QED BY <2>1 DEF PageInv, CatchUp, FirstLook
<1>3. FewSince' /\ FewMeanwhile' BY DEF ChannelInv, FewSince, FewMeanwhile, FirstContact
<1>4. NothingIsPassedOver' BY DEF ChannelInv, NothingIsPassedOver
<1> QED BY <1>1, <1>2, <1>3, <1>4 DEF ChannelInv

\* Steps of one loop that leave the device as it is.
LEMMA LoopMoves ==
    ASSUME ChannelInv, UNCHANGED <<posts, removed, stored, latest, since>>,
           NEW l \in Loop, NEW s \in LoopType, loop' = [loop EXCEPT ![l] = s], PageInv(s),
           s.pc # "idle" /\ s.latest <= 0 =>
              /\ FirstContact(l) \/ latest <= 0
              /\ s.pc # "asking" => posts - s.at <= FirstPage
    PROVE  ChannelInv'
<1>1. ChannelTypes' BY DEF ChannelInv, ChannelTypes
<1>2. \A k \in Loop : loop'[k] = IF k = l THEN s ELSE loop[k] BY DEF ChannelInv, ChannelTypes
<1>3. ASSUME NEW k \in Loop PROVE PageInv(loop[k])'
  <2>1. PageInv(loop'[k]) BY <1>2 DEF ChannelInv
  <2> DEFINE r == loop[k]
  <2>2. PageInv(r') BY <2>1
  <2>3. PageInv(r)' BY <2>2 DEF PageInv, CatchUp, FirstLook
  <2> QED BY <2>3
<1>4. FewSince'
  <2>1. ASSUME NEW k \in Loop, FirstContact(k)', since # Absent
        PROVE  latest = 0 \/ \E j \in Loop : FirstContact(j)
    <3>1. CASE k # l BY <1>2, <2>1, <3>1 DEF FirstContact
    <3>2. CASE k = l
      <4>1. s.pc # "idle" /\ s.latest <= 0 BY <1>2, <2>1, <3>2 DEF FirstContact
      <4>2. FirstContact(l) \/ latest <= 0 BY <4>1
      <4>3. latest <= 0 => latest = 0 BY <2>1 DEF ChannelInv, ChannelTypes, Absent
      <4> QED BY <4>2, <4>3
    <3> QED BY <3>1, <3>2
  <2> QED BY <2>1 DEF ChannelInv, FewSince
<1>5. FewMeanwhile'
  <2> SUFFICES ASSUME NEW k \in Loop, FirstContact(k)', loop'[k].pc # "asking"
               PROVE  posts - loop'[k].at <= FirstPage
    BY DEF FewMeanwhile
  <2>1. CASE k # l BY <1>2, <2>1 DEF ChannelInv, FewMeanwhile, FirstContact
  <2>2. CASE k = l BY <1>2, <2>2 DEF FirstContact
  <2> QED BY <2>1, <2>2
<1>6. NothingIsPassedOver' BY DEF ChannelInv, NothingIsPassedOver
<1> QED BY <1>1, <1>3, <1>4, <1>5, <1>6 DEF ChannelInv

LEMMA PostKeeps == ASSUME ChannelInv, Races = {}, Post PROVE ChannelInv'
<1>1. /\ posts' = posts + 1 /\ UNCHANGED <<removed, stored, latest, since, loop>>
      /\ latest = 0 \/ (since # Absent /\ \E l \in Loop : FirstContact(l)) => posts' - since <= FirstPage
      /\ \A l \in Loop : FirstContact(l) /\ loop[l].pc # "asking" => posts' - loop[l].at <= FirstPage
  BY DEF Post, device
<1>2. posts \in Nat /\ latest \in Int /\ since \in Int /\ removed \subseteq 1 .. posts
      /\ stored \subseteq 1 .. posts
  BY DEF ChannelInv, ChannelTypes
<1>3. 1 .. posts \subseteq 1 .. posts' /\ \A m \in 1 .. posts' : m <= posts => m \in 1 .. posts
  BY <1>1, <1>2
<1>4. ChannelTypes'
  <2>1. removed' \subseteq 1 .. posts' /\ stored' \subseteq 1 .. posts' BY <1>1, <1>2, <1>3
  <2>2. posts' \in Nat /\ latest <= posts' BY <1>1, <1>2, SMT DEF ChannelInv, ChannelTypes
  <2> QED BY <1>1, <2>1, <2>2 DEF ChannelInv, ChannelTypes
<1>5. ASSUME NEW l \in Loop PROVE PageInv(loop[l])'
  <2> DEFINE s == loop[l]
  <2>1. PageInv(s) /\ s \in LoopType /\ s' = s BY <1>1 DEF ChannelInv, ChannelTypes
  <2> HIDE DEF s
  <2>2. s.latest \in Int /\ s.at \in Nat /\ s.page \subseteq 1 .. s.at /\ s.at <= posts /\ s.latest <= posts
    BY <2>1 DEF LoopType, PageInv
  <2>3. s.at <= posts' /\ s.latest <= posts' BY <1>1, <1>2, <2>2, SMT
  <2>4. ASSUME NEW m \in 1 .. posts', m <= s.latest PROVE m \in 1 .. posts
    BY <1>1, <1>2, <2>2, <2>4, SMT
  <2>5. ASSUME NEW m \in 1 .. posts', NEW n \in s.page, m < n PROVE m \in 1 .. posts
    <3>1. n \in Int /\ n <= s.at BY <2>2
    <3> QED BY <1>1, <1>2, <2>2, <2>5, <3>1, SMT
  <2>6. CatchUp(s) => CatchUp(s)' BY <1>1, <2>1, <2>4, <2>5 DEF CatchUp
  <2>7. FirstLook(s) => FirstLook(s)' BY <1>1, <2>1, <2>5 DEF FirstLook
  <2>8. PageInv(s)' BY <1>1, <2>1, <2>2, <2>3, <2>6, <2>7 DEF PageInv
  <2> QED BY <2>8 DEF s
<1>6. FewSince' /\ FewMeanwhile' BY <1>1 DEF FewSince, FewMeanwhile, FirstContact
<1>7. NothingIsPassedOver'
  <2> SUFFICES ASSUME since # Absent, NEW m \in 1 .. posts', since < m, m <= latest
               PROVE  m \in stored \cup removed
    BY <1>1 DEF NothingIsPassedOver
  <2>1. m \in 1 .. posts BY <1>1, <1>2, SMT DEF ChannelInv, ChannelTypes
  <2> QED BY <2>1 DEF ChannelInv, NothingIsPassedOver
<1> QED BY <1>4, <1>5, <1>6, <1>7 DEF ChannelInv

LEMMA Idling == ASSUME posts \in Nat PROVE Idle \in LoopType /\ PageInv(Idle)
BY DEF Idle, LoopType, PageInv, Absent

LEMMA Asking ==
    ASSUME NEW c \in Int
    PROVE  LET s == [Idle EXCEPT !.pc = "asking", !.latest = c]
           IN  s \in LoopType /\ s.pc = "asking" /\ s.latest = c /\ s.page = {} /\ s.at = 0
BY DEF Idle, LoopType

LEMMA BeginKeeps == ASSUME ChannelInv, NEW l \in Loop, Begin(l) PROVE ChannelInv'
<1> DEFINE s == [Idle EXCEPT !.pc = "asking", !.latest = latest]
<1>1. UNCHANGED <<posts, removed, stored, latest, since>> /\ loop' = [loop EXCEPT ![l] = s]
  BY DEF Begin, server, device
<1>2. latest \in Int /\ latest <= posts /\ Absent <= latest /\ posts \in Nat /\ (since = Absent <=> latest = Absent)
  BY DEF ChannelInv, ChannelTypes
<1>3. /\ s \in LoopType /\ s.pc = "asking" /\ s.latest = latest /\ s.page = {} /\ s.at = 0
  BY <1>2 DEF Idle, LoopType
<1> HIDE DEF s
<1>4. latest > 0 => CatchUp(s)
  <2> SUFFICES ASSUME latest > 0 PROVE CatchUp(s)
    OBVIOUS
  <2>1. since # Absent BY <1>2 DEF Absent
  <2> QED BY <1>3, <2>1 DEF CatchUp, ChannelInv, NothingIsPassedOver
<1>5. FirstLook(s) BY <1>3 DEF FirstLook
<1>6. PageInv(s) BY <1>2, <1>3, <1>4, <1>5 DEF PageInv
<1> QED BY <1>1, <1>3, <1>6, LoopMoves

LEMMA StartsAnew == ASSUME ChannelInv, NEW l \in Loop, loop' = [loop EXCEPT ![l] = Idle],
                           UNCHANGED <<posts, removed, stored, latest, since>>
                    PROVE  ChannelInv'
<1>1. Idle.pc = "idle" BY DEF Idle
<1>2. posts \in Nat BY DEF ChannelInv, ChannelTypes
<1> QED BY <1>1, <1>2, Idling, LoopMoves

LEMMA AnsweredKeeps == ASSUME ChannelInv, NEW l \in Loop, Answered(l) PROVE ChannelInv'
<1> DEFINE s == loop[l]
           p == IF s.latest <= 0 THEN Newest(Rows, FirstPage)
                ELSE Oldest({m \in Rows : m > s.latest}, ArchivePage)
           r == [s EXCEPT !.pc = "page", !.at = posts, !.page = p]
<1>1. s \in LoopType /\ s.pc = "asking" /\ PageInv(s) /\ posts \in Nat
  BY DEF Answered, ChannelInv, ChannelTypes
<1>2. UNCHANGED <<posts, removed, stored, latest, since>> /\ loop' = [loop EXCEPT ![l] = r]
  BY DEF Answered, server, device, ChannelInv, ChannelTypes
<1>3. Rows \subseteq 1 .. posts /\ p \subseteq Rows BY DEF Rows, Newest, Oldest
<1> HIDE DEF p
<1>4. r \in LoopType /\ r.pc = "page" /\ r.at = posts /\ r.page = p /\ r.latest = s.latest
  <2>1. p \in SUBSET Nat BY <1>1, <1>3
  <2> HIDE DEF s
  <2> QED BY <1>1, <2>1 DEF LoopType
<1> HIDE DEF r, s
<1>5. ASSUME r.latest > 0 PROVE CatchUp(r)
  <2>1. CatchUp(s) /\ r.latest \in Int BY <1>1, <1>4, <1>5 DEF PageInv, LoopType
  <2>2. ASSUME NEW m \in 1 .. posts, NEW n \in p, r.latest < m, m < n, m \notin removed
        PROVE  m \in p
    <3> DEFINE S == {x \in Rows : x > s.latest}
    <3>1. S \subseteq 1 .. posts BY <1>3
    <3>2. p = Oldest(S, ArchivePage) BY <1>4, <1>5, <2>1 DEF p
    <3>3. m \in S BY <1>3, <1>4, <2>1, <2>2 DEF Rows
    <3> HIDE DEF S
    <3>4. ArchivePage \in Nat BY PageSizes
    <3> QED BY <1>1, <2>2, <3>1, <3>2, <3>3, <3>4, OldestPage
  <2> QED BY <1>4, <2>1, <2>2 DEF CatchUp
<1>6. ASSUME ~(r.latest > 0) PROVE FirstLook(r)
  <2> SUFFICES ASSUME NEW m \in 1 .. posts, NEW n \in p, m < n, m \notin removed, m \notin p
               PROVE  m + FirstPage <= posts
    BY <1>4 DEF FirstLook
  <2>1. p = Newest(Rows, FirstPage) BY <1>4, <1>6 DEF p, LoopType
  <2>2. m \in Rows BY <1>3 DEF Rows
  <2>3. FirstPage \in Nat BY PageSizes
  <2> QED BY <1>1, <1>3, <2>1, <2>2, <2>3, NewestPage
<1>7. PageInv(r)
  <2>1. posts <= posts /\ s.latest <= posts BY <1>1 DEF PageInv
  <2> QED BY <1>3, <1>4, <1>5, <1>6, <2>1 DEF PageInv
<1>8. r.pc # "idle" /\ r.latest <= 0 =>
         FirstContact(l) /\ posts - r.at <= FirstPage
  BY <1>1, <1>4, PageSizes DEF FirstContact, s
<1> QED BY <1>2, <1>4, <1>7, <1>8, LoopMoves

LEMMA PutsKeeps == ASSUME ChannelInv, NEW l \in Loop, Puts(l) PROVE ChannelInv'
<1> DEFINE s == loop[l]
           r == IF s.latest > 0 /\ s.page = {} THEN Idle ELSE [s EXCEPT !.pc = "put"]
<1>1. s \in LoopType /\ s.pc = "page" /\ PageInv(s) /\ posts \in Nat
  BY DEF Puts, ChannelInv, ChannelTypes
<1>2. /\ UNCHANGED <<posts, removed, latest, since>> /\ stored' = stored \cup s.page
      /\ loop' = [loop EXCEPT ![l] = r]
  BY DEF Puts, server, ChannelInv, ChannelTypes
<1> HIDE DEF s
<1>3. s.page \subseteq 1 .. posts BY <1>1 DEF PageInv, LoopType
<1>4. r \in LoopType /\ (r = Idle \/ (/\ r.pc = "put" /\ r.latest = s.latest /\ r.page = s.page /\ r.at = s.at
                                      /\ s.latest > 0 => s.page # {}))
  BY <1>1, Idling DEF LoopType
<1> HIDE DEF r
<1>5. ASSUME NEW k \in Loop PROVE PageInv(loop[k])'
  <2> DEFINE q == loop[k]
  <2>1. CASE k # l
    <3>1. q' = q /\ PageInv(q) BY <1>2, <2>1 DEF ChannelInv, ChannelTypes
    <3>2. PageInv(q)' BY <1>2, <3>1 DEF PageInv, CatchUp, FirstLook
    <3> QED BY <3>2
  <2>2. CASE k = l
    <3>1. q' = r BY <1>2, <2>2 DEF ChannelInv, ChannelTypes
    <3>2. CASE r = Idle
      <4>1. q'.pc = "idle" /\ q'.page = {} /\ q'.at = 0 /\ q'.latest = Absent BY <3>1, <3>2 DEF Idle
      <4>2. PageInv(q)' BY <1>1, <1>2, <4>1 DEF PageInv, Absent
      <4> QED BY <4>2
    <3>3. CASE r # Idle
      <4>1. /\ q'.pc = "put" /\ q'.latest = s.latest /\ q'.page = s.page /\ q'.at = s.at
            /\ s.latest > 0 => s.page # {}
        BY <1>4, <3>1, <3>3
      <4>2. s.latest > 0 => CatchUp(q)'
        BY <1>1, <1>2, <4>1 DEF PageInv, CatchUp
      <4>3. ~(s.latest > 0) => FirstLook(q)'
        BY <1>1, <1>2, <4>1 DEF PageInv, FirstLook
      <4>4. PageInv(q)' BY <1>1, <1>2, <4>1, <4>2, <4>3 DEF PageInv
      <4> QED BY <4>4
    <3> QED BY <3>2, <3>3
  <2> QED BY <2>1, <2>2
<1>6. ChannelTypes' BY <1>2, <1>3, <1>4 DEF ChannelInv, ChannelTypes
<1>7. \A k \in Loop : FirstContact(k)' => /\ FirstContact(k) /\ loop'[k].at = loop[k].at
                                          /\ loop[k].pc = "asking" <=> loop'[k].pc = "asking"
  <2> SUFFICES ASSUME NEW k \in Loop, FirstContact(k)'
               PROVE  /\ FirstContact(k) /\ loop'[k].at = loop[k].at
                      /\ loop[k].pc = "asking" <=> loop'[k].pc = "asking"
    OBVIOUS
  <2>1. CASE k # l BY <1>2, <2>1 DEF FirstContact, ChannelInv, ChannelTypes
  <2>2. CASE k = l
    <3>1. loop'[k] = r BY <1>2, <2>2 DEF ChannelInv, ChannelTypes
    <3>2. r # Idle BY <3>1 DEF FirstContact, Idle
    <3> QED BY <1>1, <1>4, <2>2, <3>1, <3>2 DEF FirstContact, s
  <2> QED BY <2>1, <2>2
<1>8. FewSince' /\ FewMeanwhile' BY <1>2, <1>7 DEF ChannelInv, FewSince, FewMeanwhile
<1>9. NothingIsPassedOver' BY <1>2 DEF ChannelInv, NothingIsPassedOver
<1> QED BY <1>5, <1>6, <1>8, <1>9 DEF ChannelInv

LEMMA MarksKeeps == ASSUME ChannelInv, NEW l \in Loop, Marks(l) PROVE ChannelInv'
<1> DEFINE s == loop[l]
           r == IF s.latest <= 0 \/ s.aborted \/ Cardinality(s.page) < ArchivePage
                THEN Idle ELSE [Idle EXCEPT !.pc = "asking", !.latest = latest']
<1>1. s \in LoopType /\ s.pc = "put" /\ PageInv(s)
  BY DEF Marks, ChannelInv, ChannelTypes
<1>2. /\ UNCHANGED <<posts, removed, stored>> /\ latest' \in s.page \cup {0} /\ Last(s.page, latest')
      /\ since' = IF latest = Absent THEN s.at ELSE since
      /\ loop' = [loop EXCEPT ![l] = r]
  BY DEF Marks, server
<1> HIDE DEF s
<1>3. /\ posts \in Nat /\ s.at \in Nat /\ s.at <= posts /\ s.latest \in Int
      /\ latest \in Int /\ since \in Int /\ (since = Absent <=> latest = Absent)
      /\ removed \subseteq 1 .. posts /\ stored \subseteq 1 .. posts
  BY <1>1 DEF PageInv, LoopType, ChannelInv, ChannelTypes
<1>4. s.page \subseteq 1 .. s.at /\ s.page \subseteq stored \cup removed BY <1>1 DEF PageInv
<1>5. /\ latest' \in 0 .. s.at /\ \A m \in s.page : m <= latest'
      /\ latest' # 0 => latest' \in s.page
      /\ latest' = 0 => s.page = {}
  BY <1>2, <1>3, <1>4 DEF Last
<1>6. s.latest > 0 => CatchUp(s) /\ since # Absent /\ latest' > 0
  BY <1>1, <1>5 DEF PageInv, CatchUp
<1>7. ~(s.latest > 0) => FirstLook(s) /\ FirstContact(l) /\ posts - s.at <= FirstPage
  <2>1. ASSUME ~(s.latest > 0) PROVE FirstContact(l)
    BY <1>1, <1>3, <2>1 DEF FirstContact, s
  <2>2. FirstContact(l) => posts - s.at <= FirstPage BY <1>1 DEF s, ChannelInv, FewMeanwhile
  <2> QED BY <1>1, <2>1, <2>2 DEF PageInv
<1>8. /\ r \in LoopType /\ r.page = {} /\ r.at = 0 /\ r.pc \in {"idle", "asking"}
      /\ r.pc = "asking" => r.latest = latest' /\ s.latest > 0
      /\ r.pc = "idle" => r.latest = Absent
  <2>1. CASE s.latest <= 0 \/ s.aborted \/ Cardinality(s.page) < ArchivePage
    <3>1. r = Idle BY <2>1
    <3> HIDE DEF r
    <3> QED BY <1>3, <3>1, Idling DEF Idle
  <2>2. CASE ~(s.latest <= 0 \/ s.aborted \/ Cardinality(s.page) < ArchivePage)
    <3> DEFINE c == latest'
    <3>1. c \in Int /\ s.latest > 0 BY <1>3, <1>5, <2>2
    <3>2. r = [Idle EXCEPT !.pc = "asking", !.latest = c] BY <2>2
    <3> HIDE DEF c, r
    <3>3. r \in LoopType /\ r.pc = "asking" /\ r.latest = c /\ r.page = {} /\ r.at = 0
      BY <3>1, <3>2, Asking
    <3> QED BY <3>1, <3>3 DEF c
  <2> QED BY <2>1, <2>2
<1> HIDE DEF r
<1>9. latest' >= 0 /\ latest' <= posts /\ latest' # Absent /\ since' \in Int /\ since' # Absent
  BY <1>2, <1>3, <1>5 DEF Absent
<1>10. ChannelTypes'
  <2>1. latest' \in Int /\ Absent <= latest' BY <1>5, <1>9 DEF Absent
  <2> QED BY <1>2, <1>3, <1>8, <1>9, <2>1 DEF ChannelInv, ChannelTypes
<1>11. since # Absent => since' = since BY <1>2, <1>3
<1>12. NothingIsPassedOver'
  <2> SUFFICES ASSUME NEW m \in 1 .. posts, since' < m, m <= latest'
               PROVE  m \in stored \cup removed
    BY <1>2 DEF NothingIsPassedOver
  <2>1. CASE m \in s.page BY <1>4, <2>1
  <2>2. CASE m \notin s.page
    <3>1. latest' \in s.page /\ m < latest' BY <1>5, <2>2, SMT
    <3>2. CASE s.latest > 0
      <4>1. CatchUp(s) /\ since' = since BY <1>6, <1>11, <3>2
      <4>2. m <= s.latest \/ s.latest < m BY <1>3
      <4> QED BY <2>2, <3>1, <4>1, <4>2 DEF CatchUp
    <3>3. CASE ~(s.latest > 0)
      <4>1. m \in removed \/ m + FirstPage <= s.at BY <1>7, <2>2, <3>1, <3>3 DEF FirstLook
      <4>2. since' # s.at
        <5>1. m <= s.at BY <1>3, <1>5
        <5> QED BY <1>3, <5>1
      <4>3. since # Absent /\ since' = since BY <1>2, <1>3, <4>2
      <4>4. posts - since <= FirstPage BY <1>7, <3>3, <4>3 DEF ChannelInv, FewSince
      <4>5. ~(m + FirstPage <= s.at) BY <1>3, <4>3, <4>4, PageSizes
      <4> QED BY <4>1, <4>5
    <3> QED BY <3>2, <3>3
  <2> QED BY <2>1, <2>2
<1>13. \A k \in Loop : loop'[k] = IF k = l THEN r ELSE loop[k]
  BY <1>2 DEF ChannelInv, ChannelTypes
<1>14. ASSUME NEW k \in Loop PROVE PageInv(loop[k])'
  <2> DEFINE q == loop[k]
  <2>1. CASE k # l
    <3>1. q' = q /\ PageInv(q) BY <1>13, <2>1 DEF ChannelInv
    <3>2. CatchUp(q) => CatchUp(q)' BY <1>2, <1>11, <3>1 DEF CatchUp
    <3>3. FirstLook(q) => FirstLook(q)' BY <1>2, <3>1 DEF FirstLook
    <3> HIDE DEF q
    <3>4. PageInv(q)' BY <1>2, <3>1, <3>2, <3>3 DEF PageInv
    <3> QED BY <3>4 DEF q
  <2>2. CASE k = l
    <3>1. q' = r BY <1>13, <2>2
    <3> HIDE DEF q
    <3>2. r.latest <= posts BY <1>3, <1>8, <1>9 DEF Absent
    <3>3. CatchUp(q)' \/ r.pc = "idle"
      <4> SUFFICES ASSUME r.pc = "asking" PROVE CatchUp(q)'
        BY <1>8
      <4>1. q'.latest = latest' /\ q'.page = {} /\ q'.pc = "asking" BY <1>8, <3>1
      <4> QED BY <1>9, <1>12, <4>1 DEF CatchUp, NothingIsPassedOver
    <3>4. r.pc = "asking" => r.latest > 0 BY <1>6, <1>8
    <3>5. PageInv(q)' BY <1>2, <1>3, <1>8, <3>1, <3>2, <3>3, <3>4 DEF PageInv
    <3> QED BY <3>5 DEF q
  <2> QED BY <2>1, <2>2
<1>15. \A k \in Loop : FirstContact(k)' => k # l /\ FirstContact(k)
  <2> SUFFICES ASSUME NEW k \in Loop, FirstContact(k)' PROVE k # l /\ FirstContact(k)
    OBVIOUS
  <2>1. loop'[k].pc # "idle" /\ loop'[k].latest <= 0 BY DEF FirstContact
  <2>2. k # l
    <3>1. ~(r.pc # "idle" /\ r.latest <= 0) BY <1>5, <1>6, <1>8
    <3> QED BY <1>13, <2>1, <3>1
  <2> QED BY <1>13, <2>1, <2>2 DEF FirstContact
<1>16. FewMeanwhile' BY <1>2, <1>13, <1>15 DEF ChannelInv, FewMeanwhile
<1>17. FewSince'
  <2> SUFFICES ASSUME latest' = 0 \/ \E k \in Loop : FirstContact(k)' PROVE posts - since' <= FirstPage
    BY <1>2 DEF FewSince
  <2>1. CASE since = Absent
    <3>1. since' = s.at BY <1>2, <1>3, <2>1
    <3>2. ~(s.latest > 0) BY <1>6, <2>1
    <3> QED BY <1>7, <3>1, <3>2
  <2>2. CASE since # Absent
    <3>1. \E k \in Loop : FirstContact(k)
      <4>1. CASE latest' = 0 BY <1>6, <1>7, <4>1
      <4>2. CASE \E k \in Loop : FirstContact(k)' BY <1>15, <4>2
      <4> QED BY <4>1, <4>2
    <3> QED BY <1>11, <2>2, <3>1 DEF ChannelInv, FewSince
  <2> QED BY <2>1, <2>2
<1> QED BY <1>10, <1>12, <1>14, <1>16, <1>17 DEF ChannelInv

-----------------------------------------------------------------------------
(* The hub's events and their cursor. *)

EventTypes ==
    /\ log \in Seq(Nat) /\ \A i \in 1 .. Len(log) : log[i] \in removed \cup {0}
    /\ mark \in Int /\ mark <= Len(log)
    /\ sweep \in [Sweep -> [pc : {"idle", "asking", "page", "acted"}, mark : Int, seen : Nat]]
    /\ jump \in [pc : {"idle", "found", "asking", "page"}, to : Nat, page : SUBSET Nat]
    /\ jump.page \subseteq 1 .. posts /\ jump.to <= posts
    /\ jump.pc # "idle" => jump.to > 0
    /\ jump.pc # "page" => jump.page = {}

(***************************************************************************)
(* A removal is done with when what it names is neither stored nor in a    *)
(* page about to be.                                                       *)
(***************************************************************************)
Done(i) == log[i] \notin stored \cup InHand

Active(e) == sweep[e].pc # "idle"

(***************************************************************************)
(* What the watermark has passed is done, and so is what the server's next *)
(* page would leave out.  All is, until a first watermark is kept, and a   *)
(* run of the sweep has in its page whatever is not.                       *)
(***************************************************************************)
AllDone(n) == \A i \in 1 .. Len(log) : i <= n => Done(i)

SweepInv(s) ==
    /\ s.mark <= Len(log) /\ s.seen <= Len(log)
    /\ s.mark = Absent => AllDone(Len(log))
    /\ AllDone(s.mark)
    /\ s.pc = "page" => \A i \in 1 .. Len(log) : i <= s.seen => log[i] \in Fresh(s) \/ Done(i)
    /\ s.pc = "acted" => AllDone(s.seen)

EventsInv ==
    /\ AllDone(mark) /\ AllDone(Len(log) - EventsPage)
    /\ mark = Absent => AllDone(Len(log))
    /\ \A e \in Sweep : Active(e) => SweepInv(sweep[e])

IInv == ChannelInv /\ EventTypes /\ EventsInv

\* What is not done does not come undone as long as no page brings back what was removed.
LEMMA DoneStays ==
    ASSUME IInv, UNCHANGED <<log, mark, sweep>>,
           \A i \in 1 .. Len(log) : Done(i) => Done(i)'
    PROVE  EventsInv'
<1>1. \A n : AllDone(n) => AllDone(n)' BY DEF AllDone
<1>2. \A s : SweepInv(s) => SweepInv(s)' BY <1>1 DEF SweepInv, Fresh
<1> QED BY <1>1, <1>2 DEF IInv, EventsInv, Active

\* Steps of one loop, which may store what was in hand.
LEMMA LoopHands ==
    ASSUME IInv, NEW l \in Loop, NEW s \in LoopType, loop' = [loop EXCEPT ![l] = s],
           UNCHANGED <<removed, log, mark, sweep, jump>>, posts' \in {posts, posts + 1},
           stored' \subseteq stored \cup InHand, s.page \cap (removed \cup {0}) \subseteq InHand
    PROVE  EventTypes' /\ EventsInv'
<1>1. EventTypes'
  <2>1. jump.page \subseteq 1 .. posts' /\ jump.to <= posts'
    BY SMT DEF IInv, EventTypes, ChannelInv, ChannelTypes
  <2> QED BY <2>1 DEF IInv, EventTypes
<1>2. ASSUME NEW i \in 1 .. Len(log), Done(i) PROVE Done(i)'
  <2>1. log[i] \in removed \cup {0} BY DEF IInv, EventTypes
  <2>2. log[i] \notin InHand' 
    <3> SUFFICES ASSUME NEW k \in Loop, log[i] \in loop'[k].page PROVE FALSE
      BY <1>2 DEF Done, InHand
    <3>1. CASE k = l
      <4>1. log[i] \in s.page BY <3>1 DEF IInv, ChannelInv, ChannelTypes
      <4> QED BY <1>2, <2>1, <4>1 DEF Done
    <3>2. CASE k # l
      <4>1. log[i] \in loop[k].page BY <3>2 DEF IInv, ChannelInv, ChannelTypes
      <4> QED BY <1>2, <4>1 DEF Done, InHand
    <3> QED BY <3>1, <3>2
  <2> QED BY <1>2, <2>2 DEF Done
<1> QED BY <1>1, <1>2, DoneStays

LEMMA PostDone == ASSUME IInv, Races = {}, Post PROVE IInv'
<1>1. /\ UNCHANGED <<removed, log, stored, mark, loop, sweep, jump>> /\ posts' = posts + 1
  BY DEF Post, device
<1>2. EventTypes'
  <2>1. jump.page \subseteq 1 .. posts' /\ jump.to <= posts'
    BY <1>1, SMT DEF IInv, EventTypes, ChannelInv, ChannelTypes
  <2> QED BY <1>1, <2>1 DEF IInv, EventTypes
<1>3. \A i \in 1 .. Len(log) : Done(i) => Done(i)' BY <1>1 DEF Done, InHand
<1> QED BY <1>1, <1>2, <1>3, PostKeeps, DoneStays DEF IInv

\* Steps of one loop that end with nothing in hand.
LEMMA HandsOff ==
    ASSUME IInv, ChannelInv', NEW l \in Loop, NEW s \in LoopType, s.page = {},
           loop' = [loop EXCEPT ![l] = s], UNCHANGED <<posts, removed, log, stored, mark, sweep, jump>>
    PROVE  IInv'
BY LoopHands DEF IInv

LEMMA BeginDone == ASSUME IInv, NEW l \in Loop, Begin(l) PROVE IInv'
<1> DEFINE c == latest
           s == [Idle EXCEPT !.pc = "asking", !.latest = c]
<1>1. loop' = [loop EXCEPT ![l] = s] /\ UNCHANGED <<posts, removed, log, stored, mark, sweep, jump>>
  BY DEF Begin, server, device
<1>2. c \in Int BY DEF IInv, ChannelInv, ChannelTypes
<1> HIDE DEF c
<1>3. s \in LoopType /\ s.page = {} BY <1>2, Asking
<1> HIDE DEF s
<1>4. ChannelInv' BY BeginKeeps DEF IInv
<1> QED BY <1>1, <1>3, <1>4, HandsOff

LEMMA FailsDone == ASSUME IInv, NEW l \in Loop, Fails(l) PROVE IInv'
<1>1. /\ loop' = [loop EXCEPT ![l] = Idle]
      /\ UNCHANGED <<posts, removed, log, stored, latest, mark, sweep, jump, since>>
  BY DEF Fails, server, device
<1>2. ChannelInv' BY <1>1, StartsAnew DEF IInv
<1>3. Idle \in LoopType /\ Idle.page = {} BY Idling DEF Idle, IInv, ChannelInv, ChannelTypes
<1> QED BY <1>1, <1>2, <1>3, HandsOff

LEMMA StopsDone == ASSUME IInv, NEW l \in Loop, Stops(l) PROVE IInv'
<1>1. /\ loop' = [loop EXCEPT ![l] = Idle]
      /\ UNCHANGED <<posts, removed, log, stored, latest, mark, sweep, jump, since>>
  BY DEF Stops, server, device
<1>2. ChannelInv' BY <1>1, StartsAnew DEF IInv
<1>3. Idle \in LoopType /\ Idle.page = {} BY Idling DEF Idle, IInv, ChannelInv, ChannelTypes
<1> QED BY <1>1, <1>2, <1>3, HandsOff

LEMMA AnsweredDone == ASSUME IInv, NEW l \in Loop, Answered(l) PROVE IInv'
<1> DEFINE p == IF loop[l].latest <= 0 THEN Newest(Rows, FirstPage)
                ELSE Oldest({m \in Rows : m > loop[l].latest}, ArchivePage)
           s == [loop[l] EXCEPT !.pc = "page", !.at = posts, !.page = p]
<1>1. p \subseteq Rows /\ Rows \subseteq 1 .. posts /\ Rows \cap (removed \cup {0}) = {}
  BY DEF Rows, Newest, Oldest
<1>2. loop' = [loop EXCEPT ![l] = s] /\ UNCHANGED <<posts, removed, log, stored, mark, sweep, jump>>
  BY DEF Answered, server, device, IInv, ChannelInv, ChannelTypes
<1> HIDE DEF p
<1>3. s \in LoopType /\ s.page = p
  <2>1. loop[l] \in LoopType /\ posts \in Nat /\ p \in SUBSET Nat
    BY <1>1 DEF IInv, ChannelInv, ChannelTypes
  <2> QED BY <2>1 DEF LoopType
<1> HIDE DEF s
<1>4. EventTypes' /\ EventsInv' BY <1>1, <1>2, <1>3, LoopHands
<1> QED BY <1>4, AnsweredKeeps DEF IInv

LEMMA PutsDone == ASSUME IInv, NEW l \in Loop, Puts(l) PROVE IInv'
<1> DEFINE q == loop[l]
           s == IF q.latest > 0 /\ q.page = {} THEN Idle ELSE [q EXCEPT !.pc = "put"]
<1>1. /\ loop' = [loop EXCEPT ![l] = s] /\ stored' = stored \cup q.page
      /\ UNCHANGED <<posts, removed, log, mark, sweep, jump>>
  BY DEF Puts, server, IInv, ChannelInv, ChannelTypes
<1>2. q \in LoopType /\ q.page \subseteq InHand BY DEF IInv, ChannelInv, ChannelTypes, InHand
<1> HIDE DEF q
<1>3. s \in LoopType /\ s.page \subseteq q.page
  <2>1. Idle \in LoopType /\ Idle.page = {} BY Idling DEF Idle, IInv, ChannelInv, ChannelTypes
  <2>2. [q EXCEPT !.pc = "put"] \in LoopType /\ [q EXCEPT !.pc = "put"].page = q.page
    BY <1>2 DEF LoopType
  <2> QED BY <2>1, <2>2
<1> HIDE DEF s
<1>4. EventTypes' /\ EventsInv' BY <1>1, <1>2, <1>3, LoopHands
<1> QED BY <1>4, PutsKeeps DEF IInv

LEMMA MarksDone == ASSUME IInv, NEW l \in Loop, Marks(l) PROVE IInv'
<1> DEFINE c == latest'
           q == loop[l]
           s == IF q.latest <= 0 \/ q.aborted \/ Cardinality(q.page) < ArchivePage
                THEN Idle ELSE [Idle EXCEPT !.pc = "asking", !.latest = c]
<1>1. /\ loop' = [loop EXCEPT ![l] = s] /\ UNCHANGED <<posts, removed, log, stored, mark, sweep, jump>>
  BY DEF Marks, server
<1>2. ChannelInv' BY MarksKeeps DEF IInv
<1>3. c \in Int BY <1>2 DEF ChannelInv, ChannelTypes
<1> HIDE DEF c, q
<1>4. s \in LoopType /\ s.page = {}
  BY <1>3, Asking, Idling DEF Idle, IInv, ChannelInv, ChannelTypes
<1> HIDE DEF s
<1> QED BY <1>1, <1>2, <1>4, HandsOff

-----------------------------------------------------------------------------
(* Steps of the server, of a jump and of a frame. *)

LEMMA ListsDone == ASSUME IInv, NEW l \in Loop, Lists(l) PROVE IInv'
<1>1. UNCHANGED <<posts, removed, log, stored, latest, mark, since, loop, sweep, jump>>
  BY DEF Lists, server, device
<1>2. ChannelInv' BY <1>1, ChannelStays DEF IInv, ChannelInv, ChannelTypes
<1>3. \A i \in 1 .. Len(log) : Done(i) => Done(i)' BY <1>1 DEF Done, InHand
<1> QED BY <1>1, <1>2, <1>3, DoneStays DEF IInv, EventTypes

LEMMA MoveDone == ASSUME IInv, Move PROVE IInv'
<1>1. UNCHANGED <<posts, removed, log, stored, latest, mark, since, loop, sweep, jump>>
  BY DEF Move, device
<1>2. ChannelInv' BY <1>1, ChannelStays DEF IInv, ChannelInv, ChannelTypes
<1>3. \A i \in 1 .. Len(log) : Done(i) => Done(i)' BY <1>1 DEF Done, InHand
<1> QED BY <1>1, <1>2, <1>3, DoneStays DEF IInv, EventTypes

\* What is in hand, now and after a step.
LEMMA HandsAre ==
    /\ \A x : x \in InHand <=> (\E l \in Loop : x \in loop[l].page) \/ x \in jump.page
    /\ \A x : x \in InHand' <=> (\E l \in Loop : x \in loop'[l].page) \/ x \in jump'.page
<1> QED BY DEF InHand

\* The jump goes on: it stores what it had in hand, or what has not been removed.
LEMMA JumpHands ==
    ASSUME IInv, UNCHANGED <<posts, removed, log, latest, mark, since, loop, sweep>>,
           stored \subseteq stored',
           stored' \subseteq stored \cup jump.page \cup ((1 .. posts) \ removed), EventTypes',
           jump'.page \subseteq (1 .. posts) \ removed
    PROVE  IInv'
<1>1. jump.page \subseteq 1 .. posts /\ stored \subseteq 1 .. posts /\ removed \subseteq 1 .. posts
  BY DEF IInv, EventTypes, ChannelInv, ChannelTypes
<1>2. ChannelInv' BY <1>1, ChannelStays DEF IInv
<1>3. ASSUME NEW i \in 1 .. Len(log), Done(i) PROVE Done(i)'
  <2>1. log[i] \in removed \cup {0} BY DEF IInv, EventTypes
  <2>2. log[i] \notin (1 .. posts) \ removed BY <2>1
  <2>3. log[i] \notin stored \cup InHand BY <1>3 DEF Done
  <2>4. log[i] \notin jump.page BY <2>3, HandsAre
  <2>5. log[i] \notin stored' /\ log[i] \notin jump'.page BY <2>2, <2>3, <2>4
  <2>6. log[i] \notin InHand'
    <3> SUFFICES ASSUME NEW k \in Loop, log[i] \in loop[k].page PROVE FALSE
      BY <2>5, HandsAre
    <3> QED BY <2>3, HandsAre
  <2> QED BY <2>5, <2>6 DEF Done
<1> QED BY <1>2, <1>3, DoneStays DEF IInv

LEMMA FindsDone == ASSUME IInv, NEW m, Finds(m) PROVE IInv'
<1>1. /\ UNCHANGED <<posts, removed, log, stored, latest, mark, since, loop, sweep>>
      /\ m \in 1 .. posts /\ jump' = [NoJump EXCEPT !.pc = "found", !.to = m]
  BY DEF Finds, server, device, Rows
<1>2. posts \in Nat /\ m \in Nat /\ m > 0 /\ m <= posts
  BY <1>1 DEF IInv, ChannelInv, ChannelTypes
<1>3. /\ jump' \in [pc : {"idle", "found", "asking", "page"}, to : Nat, page : SUBSET Nat]
      /\ jump'.page = {} /\ jump'.to = m /\ jump'.pc = "found"
  BY <1>1, <1>2 DEF NoJump
<1>4. EventTypes' BY <1>1, <1>2, <1>3 DEF IInv, EventTypes
<1> QED BY <1>1, <1>3, <1>4, JumpHands

LEMMA JumpsDone == ASSUME IInv, Races = {}, Jumps PROVE IInv'
<1>1. /\ UNCHANGED <<posts, removed, log, latest, mark, since, loop, sweep>> /\ jump.pc = "found"
      /\ \/ jump' = NoJump /\ stored' = stored
         \/ /\ jump' = [jump EXCEPT !.pc = "asking"] /\ jump.to \notin removed
            /\ stored' = stored \cup {jump.to}
  BY DEF Jumps, server
<1>2. /\ jump \in [pc : {"idle", "found", "asking", "page"}, to : Nat, page : SUBSET Nat]
      /\ jump.page = {} /\ jump.to \in 1 .. posts /\ posts \in Nat
  BY <1>1, SMT DEF IInv, EventTypes, ChannelInv, ChannelTypes
<1>3. jump'.page = {} BY <1>1, <1>2 DEF NoJump
<1>4. EventTypes' BY <1>1, <1>2 DEF IInv, EventTypes, NoJump
<1> QED BY <1>1, <1>2, <1>3, <1>4, JumpHands

LEMMA ContextAnsweredDone == ASSUME IInv, ContextAnswered PROVE IInv'
<1> DEFINE p == Newest({m \in Rows : m < jump.to}, ContextPage)
                   \cup Oldest({m \in Rows : m > jump.to}, ContextPage)
<1>1. /\ UNCHANGED <<posts, removed, log, stored, latest, mark, since, loop, sweep>>
      /\ jump.pc = "asking"
      /\ jump' = [jump EXCEPT !.pc = "page", !.page = p] \/ jump' = NoJump
  BY DEF ContextAnswered, server, device
<1>2. p \subseteq (1 .. posts) \ removed BY DEF Rows, Newest, Oldest
<1> HIDE DEF p
<1>3. /\ jump \in [pc : {"idle", "found", "asking", "page"}, to : Nat, page : SUBSET Nat]
      /\ jump.to > 0 /\ jump.to <= posts /\ posts \in Nat
  BY <1>1 DEF IInv, EventTypes, ChannelInv, ChannelTypes
<1>4. /\ jump' \in [pc : {"idle", "found", "asking", "page"}, to : Nat, page : SUBSET Nat]
      /\ jump'.page \subseteq (1 .. posts) \ removed
      /\ jump'.to <= posts /\ (jump'.pc # "idle" => jump'.to > 0)
      /\ jump'.pc # "page" => jump'.page = {}
  <2>1. CASE jump' = NoJump BY <1>3, <2>1 DEF NoJump
  <2>2. CASE jump' = [jump EXCEPT !.pc = "page", !.page = p]
    <3>1. p \in SUBSET Nat BY <1>2, <1>3
    <3> QED BY <1>2, <1>3, <2>2, <3>1
  <2> QED BY <1>1, <2>1, <2>2
<1>5. EventTypes'
  <2>1. jump'.page \subseteq 1 .. posts BY <1>4
  <2> QED BY <1>1, <1>4, <2>1 DEF IInv, EventTypes
<1> QED BY <1>1, <1>4, <1>5, JumpHands

LEMMA ContextPutsDone == ASSUME IInv, ContextPuts PROVE IInv'
<1>1. /\ UNCHANGED <<posts, removed, log, latest, mark, since, loop, sweep>>
      /\ jump' = NoJump /\ stored' = stored \cup jump.page
  BY DEF ContextPuts, server
<1>2. jump'.page = {} BY <1>1 DEF NoJump
<1>3. EventTypes' BY <1>1 DEF IInv, EventTypes, NoJump, ChannelInv, ChannelTypes
<1> QED BY <1>1, <1>2, <1>3, JumpHands

LEMMA HearsRemovalDone == ASSUME IInv, NEW m, HearsRemoval(m) PROVE IInv'
<1>1. /\ UNCHANGED <<posts, removed, log, latest, mark, since, loop, sweep, jump>>
      /\ stored' = stored \ {m} /\ m \in removed
  BY DEF HearsRemoval, server
<1>2. ChannelInv' BY <1>1, ChannelStays DEF IInv, ChannelInv, ChannelTypes
<1>3. \A i \in 1 .. Len(log) : Done(i) => Done(i)' BY <1>1 DEF Done, InHand
<1> QED BY <1>1, <1>2, <1>3, DoneStays DEF IInv, EventTypes

-----------------------------------------------------------------------------
(* Events come, one at a time. *)

\* What names no message is nowhere.
LEMMA Nothing == IInv => 0 \notin stored \cup InHand
<1> SUFFICES ASSUME IInv PROVE 0 \notin stored \cup InHand
  OBVIOUS
<1>1. 0 \notin stored /\ 0 \notin jump.page
  BY DEF IInv, ChannelInv, ChannelTypes, EventTypes
<1>2. ASSUME NEW l \in Loop PROVE 0 \notin loop[l].page
  <2>1. loop[l].page \subseteq 1 .. loop[l].at BY DEF IInv, ChannelInv, PageInv
  <2> QED BY <2>1
<1> QED BY <1>1, <1>2, HandsAre

\* An event is logged: the removal of m, or another thing (m = 0).
LEMMA Logged ==
    ASSUME IInv, Races = {}, NEW m \in Nat, m \in removed' \cup {0},
           log' = Append(log, m), Unseen(Len(log) + 1),
           removed \subseteq removed', removed' \subseteq 1 .. posts,
           UNCHANGED <<posts, stored, latest, mark, since, loop, sweep, jump>>,
           \/ m \notin stored \cup InHand
           \/ mark # Absent /\ \A e \in Sweep : sweep[e].pc # "idle" => sweep[e].mark # Absent
    PROVE  IInv'
<1> SUFFICES ASSUME NEW n, n = Len(log) PROVE IInv'
  OBVIOUS
<1>1. /\ n \in Nat /\ log' \in Seq(Nat) /\ Len(log') = n + 1
      /\ (\A i \in 1 .. n : log'[i] = log[i]) /\ log'[n + 1] = m
  BY AppendProperties, LenProperties DEF IInv, EventTypes
<1>2. 1 .. n \subseteq 1 .. (n + 1) /\ \A i \in 1 .. (n + 1) : i # n + 1 => i \in 1 .. n
  BY <1>1, SMT
<1>3. mark \in Int /\ mark <= n /\ \A e \in Sweep : sweep[e].mark \in Int /\ sweep[e].seen \in Nat
  BY DEF IInv, EventTypes
<1>4. ChannelInv' BY ChannelStays DEF IInv, ChannelInv, ChannelTypes
<1>5. \A i \in 1 .. n : Done(i) => Done(i)' BY <1>1 DEF Done, InHand
<1>6. ASSUME NEW k \in Int, k <= n, AllDone(k) PROVE AllDone(k)'
  <2> SUFFICES ASSUME NEW i \in 1 .. (n + 1), i <= k PROVE Done(i)'
    BY <1>1 DEF AllDone
  <2>1. i \in 1 .. n BY <1>1, <1>6, SMT
  <2> QED BY <1>5, <1>6, <2>1 DEF AllDone
<1>7. ASSUME AllDone(n), m \notin stored \cup InHand PROVE AllDone(n + 1)'
  <2> SUFFICES ASSUME NEW i \in 1 .. (n + 1) PROVE Done(i)'
    BY <1>1 DEF AllDone
  <2>1. CASE i = n + 1 BY <1>1, <1>7, <2>1 DEF Done, InHand
  <2>2. CASE i # n + 1
    <3>1. i \in 1 .. n /\ i <= n BY <1>1, <2>2, SMT
    <3> QED BY <1>5, <1>7, <3>1 DEF AllDone
  <2> QED BY <2>1, <2>2
<1>8. EventTypes'
  <2>1. \A i \in 1 .. (n + 1) : log'[i] \in removed' \cup {0}
    <3> SUFFICES ASSUME NEW i \in 1 .. (n + 1) PROVE log'[i] \in removed' \cup {0}
      OBVIOUS
    <3>1. CASE i = n + 1 BY <1>1, <3>1
    <3>2. CASE i # n + 1
      <4>1. i \in 1 .. n BY <1>2, <3>2
      <4> QED BY <1>1, <4>1 DEF IInv, EventTypes
    <3> QED BY <3>1, <3>2
  <2>2. mark <= Len(log') BY <1>1, <1>3
  <2> QED BY <1>1, <2>1, <2>2 DEF IInv, EventTypes
<1>9. AllDone(mark)' /\ (mark = Absent => AllDone(Len(log))')
  <2>1. AllDone(mark) /\ (mark = Absent => AllDone(n)) BY DEF IInv, EventsInv
  <2>2. AllDone(mark)'
    <3> SUFFICES ASSUME NEW c, c = mark PROVE AllDone(c)'
      OBVIOUS
    <3> QED BY <1>3, <1>6, <2>1
  <2>3. mark = Absent => AllDone(n + 1)' BY <1>7, <2>1
  <2>4. mark = Absent => AllDone(Len(log))' BY <1>1, <2>3 DEF AllDone
  <2> QED BY <2>2, <2>4
<1>10. AllDone(Len(log) - EventsPage)'
  <2> SUFFICES ASSUME NEW k, k = n + 1 - EventsPage PROVE AllDone(k)'
    <3>1. (Len(log) - EventsPage)' = n + 1 - EventsPage BY <1>1, PageSizes
    <3> SUFFICES ASSUME NEW i \in 1 .. Len(log'), i <= n + 1 - EventsPage PROVE Done(i)'
      BY <3>1, Zenon DEF AllDone
    <3> QED BY Zenon DEF AllDone
  <2>1. k \in Int /\ k <= n BY <1>1, PageSizes
  <2>2. AllDone(k)
    <3>1. CASE mark = Absent
      <4>1. AllDone(n) BY <3>1 DEF IInv, EventsInv
      <4> QED BY <1>1, <2>1, <4>1 DEF AllDone
    <3>2. CASE mark # Absent
      <4>1. k <= mark BY <1>1, <1>3, <3>2, PageSizes DEF Unseen
      <4>2. AllDone(mark) BY DEF IInv, EventsInv
      <4> QED BY <1>1, <1>3, <2>1, <4>1, <4>2 DEF AllDone
    <3> QED BY <3>1, <3>2
  <2> QED BY <1>6, <2>1, <2>2
<1>11. ASSUME NEW e \in Sweep, Active(e) PROVE SweepInv(sweep[e])'
  <2> DEFINE s == sweep[e]
  <2>1. SweepInv(s) /\ s' = s /\ s.mark \in Int /\ s.seen \in Nat BY <1>3, <1>11 DEF IInv, EventsInv
  <2>2. s.mark = Absent => m \notin stored \cup InHand BY <1>11 DEF Active
  <2> HIDE DEF s
  <2>3. s.mark <= n /\ s.seen <= n BY <2>1 DEF SweepInv
  <2>4. s.mark <= n + 1 /\ s.seen <= n + 1 BY <1>1, <2>1, <2>3
  <2>5. s.mark = Absent => AllDone(Len(log))'
    <3>1. s.mark = Absent => AllDone(n + 1)' BY <1>7, <2>1, <2>2 DEF SweepInv
    <3> QED BY <1>1, <3>1 DEF AllDone
  <2>6. AllDone(s.mark)' BY <1>6, <2>1, <2>3 DEF SweepInv, AllDone
  <2>7. s.pc = "acted" => AllDone(s.seen)' BY <1>6, <2>1, <2>3 DEF SweepInv, AllDone
  <2>8. s.pc = "page" => \A i \in 1 .. (n + 1) : i <= s.seen => log'[i] \in Fresh(s)' \/ Done(i)'
    <3> SUFFICES ASSUME s.pc = "page", NEW i \in 1 .. (n + 1), i <= s.seen
                 PROVE  log'[i] \in Fresh(s)' \/ Done(i)'
      OBVIOUS
    <3>1. i \in 1 .. n BY <1>1, <2>1, <2>3, SMT
    <3>2. log'[i] = log[i] BY <1>1, <3>1
    <3>3. ASSUME log[i] \in Fresh(s) PROVE log[i] \in Fresh(s)'
      <4>1. PICK j \in 1 .. s.seen : /\ s.mark # Absent /\ j > s.mark /\ j > s.seen - EventsPage
                                     /\ log[i] = log[j] /\ log[i] # 0
        BY <3>3 DEF Fresh
      <4>2. j \in 1 .. n BY <1>1, <2>1, <2>3, SMT
      <4>3. log'[j] = log[i] BY <1>1, <4>1, <4>2
      <4> QED BY <2>1, <4>1, <4>3 DEF Fresh
    <3> QED BY <1>5, <2>1, <3>1, <3>2, <3>3 DEF SweepInv
  <2>9. SweepInv(s)' BY <1>1, <2>1, <2>4, <2>5, <2>6, <2>7, <2>8 DEF SweepInv
  <2> QED BY <2>9 DEF s
<1>12. EventsInv' BY <1>9, <1>10, <1>11 DEF EventsInv, Active
<1> QED BY <1>4, <1>8, <1>12 DEF IInv

LEMMA RemoveDone == ASSUME IInv, Races = {}, NEW m, Remove(m) PROVE IInv'
<1>1. /\ m \in 1 .. posts /\ Unseen(Len(log) + 1)
      /\ \/ m \notin stored \cup InHand
         \/ mark # Absent /\ \A e \in Sweep : sweep[e].pc # "idle" => sweep[e].mark # Absent
      /\ removed' = removed \cup {m} /\ log' = Append(log, m)
      /\ UNCHANGED <<posts, stored, latest, mark, since, loop, sweep, jump>>
  BY DEF Remove, device
<1>2. m \in Nat /\ m \in removed' \cup {0} /\ removed \subseteq removed' /\ removed' \subseteq 1 .. posts
  BY <1>1 DEF IInv, ChannelInv, ChannelTypes
<1> QED BY <1>1, <1>2, Logged

LEMMA OtherEventDone == ASSUME IInv, Races = {}, OtherEvent PROVE IInv'
<1> DEFINE m == 0
<1>1. /\ Unseen(Len(log) + 1) /\ log' = Append(log, m)
      /\ UNCHANGED <<posts, removed, stored, latest, mark, since, loop, sweep, jump>>
  BY DEF OtherEvent, device
<1>3. m \notin stored \cup InHand BY Nothing
<1>4. m \in Nat /\ m \in removed' \cup {0} /\ removed \subseteq removed' /\ removed' \subseteq 1 .. posts
  BY <1>1 DEF IInv, ChannelInv, ChannelTypes
<1> HIDE DEF m
<1> QED BY <1>1, <1>3, <1>4, Logged

-----------------------------------------------------------------------------
(* Steps of one run of the sweep. *)

LEMMA SweepMoves ==
    ASSUME IInv, NEW e \in Sweep,
           NEW s \in [pc : {"idle", "asking", "page", "acted"}, mark : Int, seen : Nat],
           sweep' = [sweep EXCEPT ![e] = s], s.pc # "idle" => SweepInv(s),
           UNCHANGED <<posts, removed, log, stored, latest, mark, since, loop, jump>>
    PROVE  IInv'
<1>1. ChannelInv' BY ChannelStays DEF IInv, ChannelInv, ChannelTypes
<1>2. EventTypes' BY DEF IInv, EventTypes
<1>3. \A k \in Sweep : sweep'[k] = IF k = e THEN s ELSE sweep[k] BY DEF IInv, EventTypes
<1>4. \A n : AllDone(n)' <=> AllDone(n) BY DEF AllDone, Done, InHand
<1>5. \A q : SweepInv(q) => SweepInv(q)' BY <1>4 DEF SweepInv, Fresh, Done, InHand
<1>6. ASSUME NEW k \in Sweep, Active(k)' PROVE SweepInv(sweep[k])'
  <2> DEFINE q == sweep[k]
  <2>1. SweepInv(q') BY <1>3, <1>6 DEF Active, IInv, EventsInv
  <2>2. SweepInv(q)' BY <1>4, <2>1 DEF SweepInv, Fresh, Done, InHand
  <2> QED BY <2>2
<1>7. EventsInv' BY <1>4, <1>6 DEF IInv, EventsInv
<1> QED BY <1>1, <1>2, <1>7 DEF IInv

LEMMA RefreshesDone == ASSUME IInv, NEW e \in Sweep, Refreshes(e) PROVE IInv'
<1> DEFINE c == mark
           s == [NoSweep EXCEPT !.pc = "asking", !.mark = c]
<1>1. /\ sweep' = [sweep EXCEPT ![e] = s]
      /\ UNCHANGED <<posts, removed, log, stored, latest, mark, since, loop, jump>>
  BY DEF Refreshes, server, device
<1>2. c \in Int /\ c <= Len(log) /\ Len(log) \in Nat BY LenProperties DEF IInv, EventTypes
<1>3. AllDone(c) /\ (c = Absent => AllDone(Len(log))) BY DEF IInv, EventsInv
<1> HIDE DEF c
<1>4. /\ s \in [pc : {"idle", "asking", "page", "acted"}, mark : Int, seen : Nat]
      /\ s.pc = "asking" /\ s.mark = c /\ s.seen = 0
  BY <1>2 DEF NoSweep
<1> HIDE DEF s
<1>5. SweepInv(s) BY <1>2, <1>3, <1>4 DEF SweepInv
<1> QED BY <1>1, <1>4, <1>5, SweepMoves

LEMMA EventsFailDone == ASSUME IInv, NEW e \in Sweep, EventsFail(e) PROVE IInv'
<1>1. /\ sweep' = [sweep EXCEPT ![e] = NoSweep]
      /\ UNCHANGED <<posts, removed, log, stored, latest, mark, since, loop, jump>>
  BY DEF EventsFail, server, device
<1>2. /\ NoSweep \in [pc : {"idle", "asking", "page", "acted"}, mark : Int, seen : Nat]
      /\ NoSweep.pc = "idle"
  BY DEF NoSweep, Absent
<1> QED BY <1>1, <1>2, SweepMoves

LEMMA EventsAnsweredDone == ASSUME IInv, NEW e \in Sweep, EventsAnswered(e) PROVE IInv'
<1> DEFINE q == sweep[e]
           n == Len(log)
           s == [q EXCEPT !.pc = "page", !.seen = n]
<1>1. /\ sweep' = [sweep EXCEPT ![e] = s]
      /\ UNCHANGED <<posts, removed, log, stored, latest, mark, since, loop, jump>>
  BY DEF EventsAnswered, server, device, IInv, EventTypes
<1>2. /\ q \in [pc : {"idle", "asking", "page", "acted"}, mark : Int, seen : Nat]
      /\ n \in Nat /\ SweepInv(q)
  BY LenProperties DEF EventsAnswered, IInv, EventTypes, EventsInv, Active
<1> HIDE DEF q
<1>3. /\ s \in [pc : {"idle", "asking", "page", "acted"}, mark : Int, seen : Nat]
      /\ s.pc = "page" /\ s.mark = q.mark /\ s.seen = n
  BY <1>2
<1> HIDE DEF s
<1>4. ASSUME NEW i \in 1 .. n PROVE log[i] \in Fresh(s) \/ Done(i)
  <2>1. CASE s.mark = Absent BY <1>2, <1>3, <2>1 DEF SweepInv, AllDone
  <2>2. CASE i <= s.mark BY <1>2, <1>3, <2>2 DEF SweepInv, AllDone
  <2>3. CASE i <= n - EventsPage BY <2>3 DEF IInv, EventsInv, AllDone
  <2>4. CASE log[i] = 0 BY <2>4, Nothing DEF Done
  <2>5. CASE s.mark # Absent /\ ~(i <= s.mark) /\ ~(i <= n - EventsPage) /\ log[i] # 0
    <3>1. i > s.mark /\ i > s.seen - EventsPage /\ i \in 1 .. s.seen
      BY <1>2, <1>3, <2>5, PageSizes
    <3> QED BY <2>5, <3>1 DEF Fresh
  <2> QED BY <2>1, <2>2, <2>3, <2>4, <2>5
<1>5. SweepInv(s) BY <1>2, <1>3, <1>4 DEF SweepInv
<1> QED BY <1>1, <1>3, <1>5, SweepMoves

LEMMA ActsDone == ASSUME IInv, Races = {}, NEW e \in Sweep, Acts(e) PROVE IInv'
<1> DEFINE q == sweep[e]
           s == [q EXCEPT !.pc = "acted"]
<1>1. /\ sweep' = [sweep EXCEPT ![e] = s] /\ stored' = stored \ Fresh(q)
      /\ Fresh(q) \cap InHand = {} /\ q.pc = "page"
      /\ UNCHANGED <<posts, removed, log, latest, mark, since, loop, jump>>
  BY DEF Acts, server, IInv, EventTypes
<1>2. /\ q \in [pc : {"idle", "asking", "page", "acted"}, mark : Int, seen : Nat]
      /\ SweepInv(q) /\ Len(log) \in Nat /\ q.seen <= Len(log)
  BY <1>1, LenProperties DEF IInv, EventTypes, EventsInv, Active, SweepInv
<1>3. Fresh(q) \subseteq removed
  <2>1. \A i \in 1 .. q.seen : i \in 1 .. Len(log) BY <1>2, SMT
  <2> QED BY <2>1 DEF Fresh, IInv, EventTypes
<1> HIDE DEF q
<1>4. /\ s \in [pc : {"idle", "asking", "page", "acted"}, mark : Int, seen : Nat]
      /\ s.pc = "acted" /\ s.mark = q.mark /\ s.seen = q.seen
  BY <1>2
<1> HIDE DEF s
<1>5. ChannelInv' BY <1>1, <1>3, ChannelStays DEF IInv, ChannelInv, ChannelTypes
<1>6. EventTypes' BY <1>1, <1>4 DEF IInv, EventTypes
<1>7. \A i \in 1 .. Len(log) : Done(i) \/ log[i] \in Fresh(q) => Done(i)'
  <2> SUFFICES ASSUME NEW i \in 1 .. Len(log), Done(i) \/ log[i] \in Fresh(q) PROVE Done(i)'
    OBVIOUS
  <2>1. log[i] \notin stored' BY <1>1 DEF Done
  <2>2. log[i] \notin InHand BY <1>1 DEF Done
  <2>3. log[i] \notin InHand' BY <1>1, <2>2 DEF InHand
  <2> QED BY <1>1, <2>1, <2>3 DEF Done
<1>8. \A n : AllDone(n) => AllDone(n)' BY <1>1, <1>7 DEF AllDone
<1>9. ASSUME NEW k \in Sweep, Active(k)' PROVE SweepInv(sweep[k])'
  <2> DEFINE r == sweep[k]
  <2>1. CASE k = e
    <3>1. r' = s BY <1>1, <2>1 DEF IInv, EventTypes
    <3> HIDE DEF r
    <3> SUFFICES ASSUME NEW c, c = q.seen, NEW d, d = q.mark, NEW n, n = Len(log)
                 PROVE  SweepInv(r)'
      BY DEF r
    <3>2. r'.seen = c /\ r'.mark = d /\ r'.pc = "acted" /\ n = Len(log)' BY <1>1, <1>4, <3>1
    <3>3. c \in Nat /\ d \in Int /\ n \in Nat /\ c <= n /\ d <= n /\ AllDone(d)
          /\ (d = Absent => AllDone(n))
      BY <1>2 DEF SweepInv
    <3>4. AllDone(d)' /\ (d = Absent => AllDone(n)') BY <1>8, <3>3
    <3>5. AllDone(c)'
      <4> SUFFICES ASSUME NEW i \in 1 .. n, i <= c PROVE Done(i)'
        BY <3>2 DEF AllDone
      <4>1. i \in 1 .. q.seen BY <3>3
      <4> QED BY <1>1, <1>2, <1>7, <4>1 DEF SweepInv
    <3>6. (r'.mark = Absent) => AllDone(Len(log))' BY <3>2, <3>4 DEF AllDone
    <3>7. AllDone(r.mark)' /\ AllDone(r.seen)' BY <3>2, <3>4, <3>5 DEF AllDone
    <3> QED BY <3>2, <3>3, <3>6, <3>7 DEF SweepInv
  <2>2. CASE k # e
    <3>1. r' = r /\ SweepInv(r) BY <1>1, <1>9, <2>2 DEF IInv, EventTypes, EventsInv, Active
    <3> HIDE DEF r
    <3>2. SweepInv(r)' BY <1>1, <1>7, <1>8, <3>1 DEF SweepInv, AllDone, Fresh
    <3> QED BY <3>2 DEF r
  <2> QED BY <2>1, <2>2
<1>10. EventsInv' BY <1>1, <1>8, <1>9 DEF IInv, EventsInv, AllDone
<1> QED BY <1>5, <1>6, <1>10 DEF IInv

LEMMA MarksEventsDone == ASSUME IInv, NEW e \in Sweep, MarksEvents(e) PROVE IInv'
<1> DEFINE q == sweep[e]
<1>1. /\ sweep' = [sweep EXCEPT ![e] = NoSweep] /\ q.pc = "acted"
      /\ mark' = q.seen \/ mark' = mark
      /\ UNCHANGED <<posts, removed, log, stored, latest, since, loop, jump>>
  BY DEF MarksEvents, server
<1>2. SweepInv(q) /\ q.seen \in Nat BY <1>1 DEF IInv, EventTypes, EventsInv, Active
<1> HIDE DEF q
<1>3. q.seen <= Len(log) /\ AllDone(q.seen) BY <1>1, <1>2 DEF SweepInv
<1>4. ChannelInv' BY <1>1, ChannelStays DEF IInv, ChannelInv, ChannelTypes
<1>5. /\ NoSweep \in [pc : {"idle", "asking", "page", "acted"}, mark : Int, seen : Nat]
      /\ NoSweep.pc = "idle"
  BY DEF NoSweep, Absent
<1>6. EventTypes' BY <1>1, <1>2, <1>3, <1>5 DEF IInv, EventTypes
<1>7. \A n : AllDone(n)' <=> AllDone(n) BY <1>1 DEF AllDone, Done, InHand
<1>8. \A k \in Sweep : Active(k)' => Active(k) /\ sweep'[k] = sweep[k]
  BY <1>1, <1>5 DEF IInv, EventTypes, Active
<1>9. ASSUME NEW k \in Sweep, Active(k)' PROVE SweepInv(sweep[k])'
  <2> DEFINE r == sweep[k]
  <2>1. r' = r /\ SweepInv(r) BY <1>8, <1>9 DEF IInv, EventsInv
  <2> HIDE DEF r
  <2>2. SweepInv(r)' BY <1>1, <1>7, <2>1 DEF SweepInv, Fresh, Done, InHand
  <2> QED BY <2>2 DEF r
<1>10. AllDone(mark)' /\ (mark' = Absent => AllDone(Len(log))')
  <2>1. AllDone(mark') BY <1>1, <1>3 DEF IInv, EventsInv
  <2>2. mark' = Absent => mark = Absent BY <1>1, <1>2 DEF Absent
  <2>3. mark' = Absent => AllDone(Len(log)) BY <2>2 DEF IInv, EventsInv
  <2> QED BY <1>1, <1>7, <2>1, <2>3 DEF AllDone, Done, InHand
<1>11. AllDone(Len(log) - EventsPage)' BY <1>1, <1>7 DEF IInv, EventsInv, AllDone, Done, InHand
<1>12. EventsInv' BY <1>9, <1>10, <1>11 DEF EventsInv
<1> QED BY <1>4, <1>6, <1>12 DEF IInv

-----------------------------------------------------------------------------
(* Signing out, and the whole. *)

LEMMA SignOutDone == ASSUME IInv, Races = {}, SignOut PROVE IInv'
<1>1. /\ \A l \in Loop : loop[l].pc \in {"idle", "asking"}
      /\ \A e \in Sweep : sweep[e].pc = "idle"
      /\ jump.pc \in {"idle", "found"}
      /\ stored' = {} /\ latest' = Absent /\ mark' = Absent /\ since' = Absent
      /\ jump' = IF jump.pc = "found" THEN NoJump ELSE jump
      /\ UNCHANGED <<posts, removed, log, sweep>>
  BY DEF SignOut, server
<1>2. loop' = [l \in Loop |-> Idle] BY <1>1 DEF SignOut
<1>3. posts \in Nat /\ removed \subseteq 1 .. posts BY DEF IInv, ChannelInv, ChannelTypes
<1>4. Idle \in LoopType BY <1>3, Idling
<1>5. ChannelTypes' BY <1>1, <1>2, <1>3, <1>4 DEF ChannelTypes, Absent
<1>6. \A l \in Loop : /\ loop'[l].pc = "idle" /\ loop'[l].page = {}
                      /\ loop'[l].at = 0 /\ loop'[l].latest = Absent
  BY <1>2 DEF Idle
<1>7. ASSUME NEW l \in Loop PROVE PageInv(loop[l])'
  BY <1>1, <1>3, <1>6 DEF PageInv, Absent
<1>8. FewSince' /\ FewMeanwhile' /\ NothingIsPassedOver'
  BY <1>1, <1>6 DEF FewSince, FewMeanwhile, NothingIsPassedOver, FirstContact, Absent
<1>9. ChannelInv' BY <1>5, <1>7, <1>8 DEF ChannelInv
<1>10. jump'.page = {} /\ EventTypes'
  <2>1. jump \in [pc : {"idle", "found", "asking", "page"}, to : Nat, page : SUBSET Nat]
        /\ jump.page = {}
    BY <1>1 DEF IInv, EventTypes
  <2>2. /\ jump'.page = {} /\ jump'.pc = "idle" /\ jump'.to \in Nat /\ jump'.to <= posts
        /\ jump' \in [pc : {"idle", "found", "asking", "page"}, to : Nat, page : SUBSET Nat]
    BY <1>1, <1>3, <2>1 DEF NoJump, IInv, EventTypes
  <2>3. mark' \in Int /\ mark' <= Len(log') BY <1>1, LenProperties DEF IInv, EventTypes, Absent
  <2> QED BY <1>1, <2>2, <2>3 DEF IInv, EventTypes
<1>11. InHand' = {} BY <1>6, <1>10 DEF InHand
<1>12. EventsInv'
  <2>1. \A n : AllDone(n)' BY <1>1, <1>11 DEF AllDone, Done
  <2>2. \A e \in Sweep : ~Active(e)' BY <1>1 DEF Active
  <2> QED BY <2>1, <2>2 DEF EventsInv, AllDone
<1> QED BY <1>9, <1>10, <1>12 DEF IInv

LEMMA InitDone == Init => IInv
<1> SUFFICES ASSUME Init PROVE IInv
  OBVIOUS
<1>1. posts \in Nat /\ posts = 0 BY DEF Init
<1>2. Idle \in LoopType /\ PageInv(Idle) BY <1>1, Idling
<1>3. \A l \in Loop : loop[l] = Idle /\ loop[l].pc = "idle" /\ loop[l].page = {}
  BY DEF Init, Idle
<1>4. ChannelInv
  <2>1. ChannelTypes BY <1>2 DEF Init, ChannelTypes, Absent
  <2>2. \A l \in Loop : PageInv(loop[l]) BY <1>2, <1>3
  <2>3. FewSince /\ FewMeanwhile /\ NothingIsPassedOver
    BY <1>3 DEF Init, FewSince, FewMeanwhile, NothingIsPassedOver, FirstContact, Absent
  <2> QED BY <2>1, <2>2, <2>3 DEF ChannelInv
<1>5. log = <<>> /\ log \in Seq(Nat) /\ Len(log) = 0 BY DEF Init
<1>6. EventTypes
  <2>1. /\ jump \in [pc : {"idle", "found", "asking", "page"}, to : Nat, page : SUBSET Nat]
        /\ jump.page = {} /\ jump.pc = "idle" /\ jump.to = 0
    BY DEF Init, NoJump
  <2>2. NoSweep \in [pc : {"idle", "asking", "page", "acted"}, mark : Int, seen : Nat]
    BY DEF NoSweep, Absent
  <2>3. sweep \in [Sweep -> [pc : {"idle", "asking", "page", "acted"}, mark : Int, seen : Nat]]
    BY <2>2 DEF Init
  <2>4. mark \in Int /\ mark <= 0 BY DEF Init, Absent
  <2> QED BY <1>1, <1>5, <2>1, <2>3, <2>4 DEF EventTypes
<1>7. EventsInv
  <2>1. \A e \in Sweep : ~Active(e) BY DEF Init, Active, NoSweep
  <2> QED BY <1>5, <2>1 DEF EventsInv, AllDone
<1> QED BY <1>4, <1>6, <1>7 DEF IInv

LEMMA NextDone == ASSUME IInv, Races = {}, [Next]_vars PROVE IInv'
<1>1. CASE Post BY <1>1, PostDone
<1>2. CASE OtherEvent BY <1>2, OtherEventDone
<1>3. CASE Move BY <1>3, MoveDone
<1>4. ASSUME NEW m \in 1 .. posts, Remove(m) PROVE IInv' BY <1>4, RemoveDone
<1>5. ASSUME NEW m \in 1 .. posts, Finds(m) PROVE IInv' BY <1>5, FindsDone
<1>6. ASSUME NEW l \in Loop, Lists(l) PROVE IInv' BY <1>6, ListsDone
<1>7. ASSUME NEW l \in Loop, Begin(l) PROVE IInv' BY <1>7, BeginDone
<1>8. ASSUME NEW l \in Loop, Answered(l) PROVE IInv' BY <1>8, AnsweredDone
<1>9. ASSUME NEW l \in Loop, Fails(l) PROVE IInv' BY <1>9, FailsDone
<1>10. ASSUME NEW l \in Loop, Puts(l) PROVE IInv' BY <1>10, PutsDone
<1>11. ASSUME NEW l \in Loop, Marks(l) PROVE IInv' BY <1>11, MarksDone
<1>12. ASSUME NEW l \in Loop, Stops(l) PROVE IInv' BY <1>12, StopsDone
<1>13. ASSUME NEW m \in removed, HearsRemoval(m) PROVE IInv' BY <1>13, HearsRemovalDone
<1>14. ASSUME NEW e \in Sweep, Refreshes(e) PROVE IInv' BY <1>14, RefreshesDone
<1>15. ASSUME NEW e \in Sweep, EventsAnswered(e) PROVE IInv' BY <1>15, EventsAnsweredDone
<1>16. ASSUME NEW e \in Sweep, EventsFail(e) PROVE IInv' BY <1>16, EventsFailDone
<1>17. ASSUME NEW e \in Sweep, Acts(e) PROVE IInv' BY <1>17, ActsDone
<1>18. ASSUME NEW e \in Sweep, MarksEvents(e) PROVE IInv' BY <1>18, MarksEventsDone
<1>19. CASE Jumps BY <1>19, JumpsDone
<1>20. CASE ContextAnswered BY <1>20, ContextAnsweredDone
<1>21. CASE ContextPuts BY <1>21, ContextPutsDone
<1>22. CASE SignOut BY <1>22, SignOutDone
<1>23. CASE UNCHANGED vars
  <2>1. UNCHANGED <<posts, removed, log, stored, latest, mark, since, loop, sweep, jump>>
    BY <1>23 DEF vars, server, device
  <2>2. ChannelInv' BY <2>1, ChannelStays DEF IInv, ChannelInv, ChannelTypes
  <2>3. \A i \in 1 .. Len(log) : Done(i) => Done(i)' BY <2>1 DEF Done, InHand
  <2> QED BY <2>1, <2>2, <2>3, DoneStays DEF IInv, EventTypes
<1> QED BY <1>1, <1>2, <1>3, <1>4, <1>5, <1>6, <1>7, <1>8, <1>9, <1>10, <1>11, <1>12, <1>13, <1>14,
        <1>15, <1>16, <1>17, <1>18, <1>19, <1>20, <1>21, <1>22, <1>23 DEF Next

LEMMA Invariance == ASSUME Races = {} PROVE Spec => []IInv
<1>1. Init => IInv BY InitDone
<1>2. IInv /\ [Next]_vars => IInv' BY NextDone
<1> QED BY <1>1, <1>2, PTL DEF Spec

(***************************************************************************)
(* Any number of loops, of several tabs or of one tab before and after a   *)
(* steal, may each move the watermark: none moves it past a message that   *)
(* is neither on the device nor removed (#publicChannelSync).              *)
(***************************************************************************)
THEOREM NothingMissed == ASSUME Races = {} PROVE Spec => []NothingIsPassedOver
<1>1. IInv => NothingIsPassedOver BY DEF IInv, ChannelInv
<1> QED BY <1>1, Invariance, PTL

(***************************************************************************)
(* Any number of sweeps may overlap with those loops and with a jump: what *)
(* the events' watermark has passed as removed is not on the device        *)
(* (#syncHubEvents).                                                       *)
(***************************************************************************)
THEOREM RemovedAndPassed == ASSUME Races = {} PROVE Spec => []PassedIsRemoved
<1>1. IInv => PassedIsRemoved BY DEF IInv, EventsInv, AllDone, Done, PassedIsRemoved
<1> QED BY <1>1, Invariance, PTL
=============================================================================
