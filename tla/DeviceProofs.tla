---------------------------- MODULE DeviceProofs -----------------------------
(***************************************************************************)
(* Proofs about what a device answers for outside the sync loop, part by   *)
(* part: the account's key (AccountKeys), the session and the device's id  *)
(* (Session), the microphone (ShellMic), the camera and the share          *)
(* (ShellVideo), and then the device as a whole.                           *)
(***************************************************************************)
EXTENDS MCDevice, SequenceTheorems, FiniteSetTheorems, TLAPS

-----------------------------------------------------------------------------
(* AccountKeys, for any devices, passwords and bounds, as long as neither  *)
(* of its Races comes about: the strengthening.                            *)

WordWrap == [by : Words \cup {0}, key : Nat]
CodeWrap == [by : Nat, key : Nat]
KeyRow == [pub : Nat, word : WordWrap, code : CodeWrap]
KeyPc == {"out", "in", "unlocking", "stale", "rewrapping", "prompt", "recovering", "starting",
          "reissuing", "accepted", "showing", "changing", "changed"}
KeyFlow == [pc : KeyPc, typed : Words \cup {0}, new : Words \cup {0}, put : KeyRow, code : Nat]

KeyTypes ==
    /\ password \in Words \cup {0} /\ keys \in Nat /\ codes \in Nat /\ row \in KeyRow
    /\ kept \in [Device -> [pub : Nat, key : Nat]]
    /\ flow \in [Device -> KeyFlow]

\* A row as the server may be asked to put it: of one key, with a code.
Whole(r) == r.pub # 0 /\ r.word.key = r.pub /\ r.code.key = r.pub /\ r.code.by # 0

(***************************************************************************)
(* What a device is about to put was made for the row as it is now, but    *)
(* for a new key; what it puts under a new code is all new; and a code     *)
(* that was put and is still to be shown is the row's.                     *)
(***************************************************************************)
Fits(f, pair, r) ==
    /\ f.pc \in {"unlocking", "stale", "rewrapping"} => f.code = 0
    /\ f.pc = "stale" => pair.pub = r.pub
    /\ f.pc \in {"rewrapping", "recovering", "reissuing", "changing"} => f.put.pub = r.pub
    /\ f.pc \in {"rewrapping", "recovering", "starting", "reissuing", "accepted"} => Whole(f.put)
    /\ f.pc \in {"recovering", "starting", "reissuing"} => f.code # 0 /\ f.code = f.put.code.by
    /\ f.pc = "rewrapping" => f.put.code.by = r.code.by
    /\ f.pc \in {"changing", "changed"} => f.put.word.key \in {0, f.put.pub}
    /\ f.pc \in {"accepted", "showing"} /\ f.code # 0 => f.code = r.code.by
    /\ f.pc = "showing" => f.code # 0

KeysInv ==
    /\ KeyTypes
    /\ Whole(row) \/ (row = K!NoRow /\ \A d \in Device : K!Out(d))
    /\ \A d \in Device : kept[d].key = kept[d].pub /\ Fits(flow[d], kept[d], row)

ToShow(f) == f.pc \in {"accepted", "showing"} /\ f.code = row.code.by
CodeInv == Whole(row) => written = row.code.by \/ row.code.by \in unseen \/ \E d \in Device : ToShow(flow[d])

-----------------------------------------------------------------------------
(* What is common to the steps.  One device goes on, and the row stays.    *)

LEMMA FlowMoves ==
    ASSUME KeysInv, CodeInv, NEW d \in Device, Whole(row), UNCHANGED <<row, written>>,
           password' \in Words \cup {0}, keys' \in Nat, codes' \in Nat,
           kept' \in [Device -> [pub : Nat, key : Nat]], kept'[d].key = kept'[d].pub,
           \A e \in Device \ {d} : kept'[e] = kept[e],
           NEW g \in KeyFlow, flow' = [flow EXCEPT ![d] = g], Fits(g, kept'[d], row),
           unseen \subseteq unseen', ToShow(flow[d]) => ToShow(g) \/ row.code.by \in unseen'
    PROVE  KeysInv' /\ CodeInv'
<1>0. flow' \in [Device -> KeyFlow] /\ flow'[d] = g /\ \A e \in Device \ {d} : flow'[e] = flow[e]
  BY DEF KeysInv, KeyTypes
<1>1. KeyTypes' BY <1>0 DEF KeysInv, KeyTypes
<1>2. ASSUME NEW e \in Device PROVE kept'[e].key = kept'[e].pub /\ Fits(flow'[e], kept'[e], row)
  <2>1. CASE e = d BY <1>0, <2>1
  <2>2. CASE e # d BY <1>0, <2>2 DEF KeysInv
  <2> QED BY <2>1, <2>2
<1>3. KeysInv' BY <1>1, <1>2 DEF KeysInv
<1>4. CodeInv'
  <2> SUFFICES ASSUME written # row.code.by, row.code.by \notin unseen'
               PROVE  \E e \in Device : ToShow(flow'[e])
    BY DEF CodeInv, ToShow
  <2>1. PICK e \in Device : ToShow(flow[e]) BY DEF CodeInv
  <2>2. CASE e = d BY <1>0, <2>1, <2>2
  <2>3. CASE e # d BY <1>0, <2>1, <2>3
  <2> QED BY <2>2, <2>3
<1> QED BY <1>3, <1>4

\* Whoever does anything has a row to do it for.
LEMMA RowOfFlow ==
    ASSUME KeysInv, NEW d \in Device, flow[d].pc # "out"
    PROVE  Whole(row)
  BY DEF KeysInv, K!Out

LEMMA FlowType ==
    ASSUME NEW pc \in KeyPc
    PROVE  /\ K!NoRow \in KeyRow /\ K!Flow(pc) \in KeyFlow
           /\ K!Flow(pc).pc = pc /\ K!Flow(pc).code = 0
<1>1. K!Wrap(0, 0) \in WordWrap /\ K!Wrap(0, 0) \in CodeWrap BY DEF K!Wrap, WordWrap, CodeWrap
<1>2. K!NoRow \in KeyRow BY <1>1 DEF K!NoRow, K!Row, KeyRow
<1> QED BY <1>2 DEF K!Flow, KeyFlow

-----------------------------------------------------------------------------
(* Registration, sign-in and unlockAccountKey. *)

LEMMA KeysInitKeeps ==
    ASSUME K!Init
    PROVE  KeysInv /\ CodeInv
<1>1. KeyTypes
  <2>1. K!Flow("out") \in KeyFlow /\ K!NoRow \in KeyRow BY FlowType DEF KeyPc
  <2>2. row \in KeyRow /\ flow \in [Device -> KeyFlow] BY <2>1 DEF K!Init
  <2> QED BY <2>2 DEF K!Init, KeyTypes, K!NoPair, K!Pair
<1>2. row = K!NoRow /\ (\A d \in Device : K!Out(d)) /\ ~Whole(row)
  BY DEF K!Init, K!Out, K!Flow, Whole, K!NoRow, K!Row
<1>3. \A d \in Device : kept[d].key = kept[d].pub /\ Fits(flow[d], kept[d], row)
  BY DEF K!Init, Fits, K!Flow, K!NoPair, K!Pair
<1> QED BY <1>1, <1>2, <1>3 DEF KeysInv, CodeInv

LEMMA RegistersKeeps ==
    ASSUME KeysInv, CodeInv, NEW d \in Device, NEW w \in Words, K!Registers(d, w)
    PROVE  KeysInv' /\ CodeInv'
<1>1. row' = [pub |-> 1, word |-> [by |-> w, key |-> 1], code |-> [by |-> 1, key |-> 1]]
  BY DEF K!Registers, K!Row, K!Wrap
<1>2. /\ row' \in KeyRow /\ Whole(row') /\ keys' \in Nat /\ codes' \in Nat /\ password' \in Words \cup {0}
      /\ row'.code.by = 1
  BY <1>1 DEF KeyRow, WordWrap, CodeWrap, Whole, K!Registers
<1>3. \A e \in Device : flow[e].pc = "out" BY DEF KeysInv, K!Registers, K!Out, Whole, K!NoRow, K!Row
<1>4. UNCHANGED kept BY DEF K!Registers
<1>5. CASE unseen' = {1} /\ UNCHANGED flow
  <2>1. \A e \in Device : Fits(flow[e], kept[e], row') BY <1>3 DEF Fits
  <2> QED BY <1>2, <1>4, <1>5, <2>1 DEF KeysInv, KeyTypes, CodeInv
<1>6. CASE flow' = [flow EXCEPT ![d] = [K!Flow("accepted") EXCEPT !.put = row', !.code = 1]]
  <2> DEFINE g == [K!Flow("accepted") EXCEPT !.put = row', !.code = 1]
  <2>0. K!Flow("accepted") \in KeyFlow /\ K!Flow("accepted").pc = "accepted"
    BY FlowType DEF KeyPc
  <2>1. g \in KeyFlow /\ g.pc = "accepted" /\ g.put = row' /\ g.code = 1
    BY <1>2, <2>0 DEF KeyFlow
  <2> HIDE DEF g
  <2>2. flow' \in [Device -> KeyFlow] /\ flow'[d] = g /\ \A e \in Device \ {d} : flow'[e] = flow[e]
    BY <1>6, <2>1 DEF KeysInv, KeyTypes, g
  <2>3. ASSUME NEW e \in Device PROVE Fits(flow'[e], kept[e], row')
    BY <1>2, <1>3, <2>1, <2>2 DEF Fits
  <2>4. CodeInv' BY <1>2, <2>1, <2>2 DEF CodeInv, ToShow
  <2> QED BY <1>2, <1>4, <2>2, <2>3, <2>4 DEF KeysInv, KeyTypes
<1> QED BY <1>5, <1>6 DEF K!Registers

LEMMA SignsInKeeps ==
    ASSUME KeysInv, CodeInv, NEW d \in Device, K!SignsIn(d)
    PROVE  KeysInv' /\ CodeInv'
<1>1. Whole(row) BY DEF K!SignsIn, KeysInv
<1> DEFINE g == [K!Flow("unlocking") EXCEPT !.typed = password]
<1>0. K!Flow("unlocking") \in KeyFlow /\ K!Flow("unlocking").pc = "unlocking" /\ K!Flow("unlocking").code = 0
  BY FlowType DEF KeyPc
<1>2. g \in KeyFlow /\ g.pc = "unlocking" /\ g.code = 0
  BY <1>0 DEF KeyFlow, KeysInv, KeyTypes
<1>3. flow' = [flow EXCEPT ![d] = g] /\ flow[d].pc = "out" BY DEF K!SignsIn, K!Out
<1> HIDE DEF g
<1>4. Fits(g, kept[d], row) /\ ~ToShow(flow[d]) BY <1>2, <1>3 DEF Fits, ToShow
<1> QED BY <1>1, <1>2, <1>3, <1>4, FlowMoves DEF K!SignsIn, KeysInv, KeyTypes

LEMMA UnlocksKeeps ==
    ASSUME KeysInv, CodeInv, NEW d \in Device, K!Unlocks(d)
    PROVE  KeysInv' /\ CodeInv'
<1>1. Whole(row) /\ flow[d].pc = "unlocking" /\ ~ToShow(flow[d]) BY RowOfFlow DEF K!Unlocks, ToShow
<1>2. CASE K!Opens(flow[d].typed, row.word)
  <2>1. kept' = [kept EXCEPT ![d] = [pub |-> row.pub, key |-> row.word.key]] /\ flow' = [flow EXCEPT ![d] = K!Flow("in")]
    BY <1>2 DEF K!Unlocks, K!Goes, K!Pair
  <2>2. K!Flow("in") \in KeyFlow /\ K!Flow("in").pc = "in" BY FlowType DEF KeyPc
  <2>3. Fits(K!Flow("in"), kept'[d], row) BY <2>2 DEF Fits
  <2>4. /\ kept' \in [Device -> [pub : Nat, key : Nat]] /\ kept'[d].key = kept'[d].pub
        /\ \A e \in Device \ {d} : kept'[e] = kept[e]
    BY <1>1, <2>1 DEF KeysInv, KeyTypes, KeyRow, WordWrap, Whole
  <2> QED BY <1>1, <2>1, <2>2, <2>3, <2>4, FlowMoves DEF K!Unlocks, KeysInv, KeyTypes
<1>3. CASE ~K!Opens(flow[d].typed, row.word)
  <2> DEFINE g == [flow[d] EXCEPT !.pc = IF kept[d].pub = row.pub THEN "stale" ELSE "prompt"]
  <2>1. g \in KeyFlow /\ Fits(g, kept[d], row)
    BY <1>1 DEF KeysInv, KeyTypes, KeyFlow, KeyPc, Fits
  <2>2. flow' = [flow EXCEPT ![d] = g] BY <1>3 DEF K!Unlocks
  <2> HIDE DEF g
  <2> QED BY <1>1, <1>3, <2>1, <2>2, FlowMoves DEF K!Unlocks, KeysInv, KeyTypes
<1> QED BY <1>2, <1>3

LEMMA RewrapsKeeps ==
    ASSUME KeysInv, CodeInv, NEW d \in Device, K!Rewraps(d)
    PROVE  KeysInv' /\ CodeInv'
<1>1. Whole(row) /\ flow[d].pc = "stale" /\ ~ToShow(flow[d]) BY RowOfFlow DEF K!Rewraps, ToShow
<1> DEFINE p == [pub |-> kept[d].pub, word |-> [by |-> flow[d].typed, key |-> kept[d].key], code |-> row.code]
           g == [flow[d] EXCEPT !.pc = "rewrapping", !.put = p]
<1>2. p \in KeyRow /\ Whole(p) /\ p.pub = row.pub
  BY <1>1 DEF KeysInv, KeyTypes, KeyRow, WordWrap, CodeWrap, KeyFlow, Fits, Whole
<1>3. flow' = [flow EXCEPT ![d] = g] BY DEF K!Rewraps, K!Row, K!Wrap
<1>4. p.code = row.code OBVIOUS
<1> HIDE DEF p
<1>5. g \in KeyFlow /\ Fits(g, kept[d], row)
  BY <1>1, <1>2, <1>4 DEF KeysInv, KeyTypes, KeyFlow, KeyPc, Fits
<1> HIDE DEF g
<1> QED BY <1>1, <1>3, <1>5, FlowMoves DEF K!Rewraps, KeysInv, KeyTypes

-----------------------------------------------------------------------------
(* The person decides. *)

LEMMA Gone ==
    ASSUME KeysInv, CodeInv, NEW d \in Device, Whole(row), UNCHANGED <<row, written>>,
           password' \in Words \cup {0}, keys' \in Nat, codes' \in Nat,
           kept' \in [Device -> [pub : Nat, key : Nat]], kept'[d].key = kept'[d].pub,
           \A e \in Device \ {d} : kept'[e] = kept[e],
           NEW pc \in {"in", "out"}, K!Goes(d, pc),
           unseen \subseteq unseen', ToShow(flow[d]) => row.code.by \in unseen'
    PROVE  KeysInv' /\ CodeInv'
<1>1. K!Flow(pc) \in KeyFlow /\ K!Flow(pc).pc = pc BY FlowType DEF KeyPc
<1>2. Fits(K!Flow(pc), kept'[d], row) BY <1>1 DEF Fits
<1>3. flow' = [flow EXCEPT ![d] = K!Flow(pc)] BY DEF K!Goes
<1> QED BY <1>1, <1>2, <1>3, FlowMoves

LEMMA SkipsKeeps ==
    ASSUME KeysInv, CodeInv, NEW d \in Device, K!Skips(d)
    PROVE  KeysInv' /\ CodeInv'
<1>1. Whole(row) /\ ~ToShow(flow[d]) BY RowOfFlow DEF K!Skips, ToShow
<1> QED BY <1>1, Gone DEF K!Skips, KeysInv, KeyTypes

\* Both wraps of a key made anew are a row of that key.
LEMMA ReplacesKeeps ==
    ASSUME KeysInv, CodeInv, NEW d \in Device, Whole(row), ~ToShow(flow[d]), keys' \in Nat,
           NEW pc \in {"recovering", "starting", "reissuing"}, NEW pub \in Nat, pub # 0,
           pc = "starting" \/ pub = row.pub, NEW key, key = pub, K!Replaces(d, pc, pub, key)
    PROVE  KeysInv' /\ CodeInv'
<1> DEFINE typed == IF flow[d].typed = 0 THEN password ELSE flow[d].typed
           p == [pub |-> pub, word |-> [by |-> typed, key |-> key], code |-> [by |-> codes', key |-> key]]
           g == [K!Flow(pc) EXCEPT !.typed = typed, !.code = codes', !.put = p]
<1>1. flow' = [flow EXCEPT ![d] = g] /\ UNCHANGED <<password, row, kept, written, unseen>> /\ codes' = codes + 1
  BY DEF K!Replaces, K!Row, K!Wrap
<1>2. typed \in Words \cup {0} BY DEF KeysInv, KeyTypes, KeyFlow
<1>3. codes' \in Nat /\ codes' # 0 BY <1>1 DEF KeysInv, KeyTypes
<1> HIDE DEF typed
<1>4. p \in KeyRow /\ Whole(p) /\ p.pub = pub /\ p.code.by = codes'
  BY <1>2, <1>3 DEF KeyRow, WordWrap, CodeWrap, Whole
<1> HIDE DEF p
<1>5. K!Flow(pc) \in KeyFlow /\ K!Flow(pc).pc = pc BY FlowType DEF KeyPc
<1>6. g \in KeyFlow /\ g.pc = pc /\ g.code = codes' /\ g.put = p
  BY <1>2, <1>3, <1>4, <1>5 DEF KeyFlow
<1> HIDE DEF g
<1>7. Fits(g, kept[d], row) BY <1>3, <1>4, <1>6 DEF Fits
<1> QED BY <1>1, <1>3, <1>6, <1>7, FlowMoves DEF KeysInv, KeyTypes

LEMMA RecoversKeeps ==
    ASSUME KeysInv, CodeInv, NEW d \in Device, K!Recovers(d)
    PROVE  KeysInv' /\ CodeInv'
<1>1. Whole(row) /\ ~ToShow(flow[d]) BY RowOfFlow DEF K!Recovers, ToShow
<1>2. row.code.key = row.pub /\ row.pub # 0 /\ row.pub \in Nat /\ keys' \in Nat
  BY <1>1 DEF Whole, K!Recovers, KeysInv, KeyTypes, KeyRow
<1>3. K!Replaces(d, "recovering", row.pub, row.code.key) BY DEF K!Recovers
<1> QED BY <1>1, <1>2, <1>3, ReplacesKeeps

LEMMA StartsFreshKeeps ==
    ASSUME KeysInv, CodeInv, NEW d \in Device, K!StartsFresh(d)
    PROVE  KeysInv' /\ CodeInv'
<1>1. Whole(row) /\ ~ToShow(flow[d]) BY RowOfFlow DEF K!StartsFresh, ToShow
<1>2. keys' \in Nat /\ keys' # 0 BY DEF K!StartsFresh, KeysInv, KeyTypes
<1>3. K!Replaces(d, "starting", keys', keys') BY DEF K!StartsFresh
<1> QED BY <1>1, <1>2, <1>3, ReplacesKeeps

LEMMA RegeneratesKeeps ==
    ASSUME KeysInv, CodeInv, NEW d \in Device, K!Regenerates(d)
    PROVE  KeysInv' /\ CodeInv'
<1> DEFINE key == IF kept[d].pub = row.pub THEN kept[d].key ELSE row.word.key
<1>1. Whole(row) /\ ~ToShow(flow[d]) BY RowOfFlow DEF K!Regenerates, K!In, ToShow
<1>2. key = row.pub /\ row.pub # 0 /\ row.pub \in Nat /\ keys' \in Nat
  BY <1>1 DEF Whole, K!Regenerates, KeysInv, KeyTypes, KeyRow
<1>3. K!Replaces(d, "reissuing", row.pub, key) BY DEF K!Regenerates
<1> HIDE DEF key
<1> QED BY <1>1, <1>2, <1>3, ReplacesKeeps

(***************************************************************************)
(* The server replaces the row.  A new key comes when nobody else has read *)
(* the row, a new code when nobody else has one to show; and a repair puts *)
(* the key and the code that are there.                                    *)
(***************************************************************************)
LEMMA PutsKeeps ==
    ASSUME KeysInv, CodeInv, NEW d \in Device, K!Puts(d)
    PROVE  KeysInv' /\ CodeInv'
<1> DEFINE f == flow[d]
           g == [f EXCEPT !.pc = "accepted"]
<1>1. f \in KeyFlow /\ f.pc \in {"rewrapping", "recovering", "starting", "reissuing"} /\ Fits(f, kept[d], row)
  BY DEF K!Puts, KeysInv, KeyTypes
<1>2. row' = f.put /\ flow' = [flow EXCEPT ![d] = g] /\ UNCHANGED <<password, keys, codes, kept, written, unseen>>
  BY DEF K!Puts
<1>3. ASSUME NEW e \in Device \ {d}
      PROVE  /\ f.pc = "starting" => ~K!Read(e)
             /\ f.code # 0 => flow[e].code = 0 /\ (K!Read(e) => f.pc = "starting")
  BY DEF K!Puts
<1> HIDE DEF f
<1>4. g \in KeyFlow /\ g.pc = "accepted" /\ g.code = f.code /\ g.put = f.put
  BY <1>1 DEF KeyFlow, KeyPc
<1> HIDE DEF g
<1>5. row' \in KeyRow /\ Whole(row') BY <1>1, <1>2 DEF KeyFlow, Fits
<1>6. Fits(g, kept[d], row') BY <1>1, <1>2, <1>4 DEF Fits
<1>7. flow' \in [Device -> KeyFlow] /\ flow'[d] = g /\ \A e \in Device \ {d} : flow'[e] = flow[e]
  BY <1>2, <1>4 DEF KeysInv, KeyTypes
<1>8. CASE f.pc = "rewrapping"
  <2>1. row'.pub = row.pub /\ row'.code.by = row.code.by BY <1>1, <1>2, <1>8 DEF Fits
  <2>2. ASSUME NEW e \in Device PROVE Fits(flow'[e], kept[e], row')
    <3>1. CASE e = d BY <1>6, <1>7, <3>1
    <3>2. CASE e # d
      <4>1. flow'[e] = flow[e] /\ Fits(flow[e], kept[e], row) BY <1>7, <3>2 DEF KeysInv
      <4> QED BY <2>1, <4>1 DEF Fits
    <3> QED BY <3>1, <3>2
  <2>3. KeysInv' BY <1>2, <1>5, <1>7, <2>2 DEF KeysInv, KeyTypes
  <2>4. CodeInv'
    <3>1. Whole(row) /\ ~ToShow(flow[d]) BY <1>8, RowOfFlow DEF ToShow, f
    <3> SUFFICES ASSUME written # row.code.by, row.code.by \notin unseen
                 PROVE  \E e \in Device : flow'[e].pc \in {"accepted", "showing"} /\ flow'[e].code = row.code.by
      BY <1>2, <2>1 DEF CodeInv, ToShow
    <3>2. PICK e \in Device : ToShow(flow[e]) BY <3>1 DEF CodeInv
    <3> QED BY <1>7, <3>1, <3>2 DEF ToShow
  <2> QED BY <2>3, <2>4
<1>9. CASE f.pc # "rewrapping"
  <2>1. f.code # 0 /\ f.code = f.put.code.by BY <1>1, <1>9 DEF Fits
  <2>2. ASSUME NEW e \in Device PROVE Fits(flow'[e], kept[e], row')
    <3>1. CASE e = d BY <1>6, <1>7, <3>1
    <3>2. CASE e # d
      <4>1. flow'[e] = flow[e] /\ Fits(flow[e], kept[e], row) BY <1>7, <3>2 DEF KeysInv
      <4>2. ~K!Read(e) /\ flow[e].code = 0 BY <1>3, <2>1, <3>2
      <4> QED BY <4>1, <4>2 DEF Fits, K!Read
    <3> QED BY <3>1, <3>2
  <2>3. KeysInv' BY <1>2, <1>5, <1>7, <2>2 DEF KeysInv, KeyTypes
  <2>4. CodeInv' BY <1>2, <1>4, <1>7, <2>1 DEF CodeInv, ToShow
  <2> QED BY <2>3, <2>4
<1> QED BY <1>8, <1>9

LEMMA PersistsKeeps ==
    ASSUME KeysInv, CodeInv, NEW d \in Device, K!Persists(d)
    PROVE  KeysInv' /\ CodeInv'
<1>1. Whole(row) /\ flow[d].pc = "accepted" /\ flow[d] \in KeyFlow /\ Fits(flow[d], kept[d], row)
  BY RowOfFlow DEF K!Persists, KeysInv, KeyTypes
<1>2. CASE flow[d].code = 0
  <2>1. ~ToShow(flow[d]) BY <1>1, <1>2 DEF ToShow, Whole
  <2> QED BY <1>1, <1>2, <2>1, Gone DEF K!Persists, KeysInv, KeyTypes
<1>3. CASE flow[d].code # 0
  <2> DEFINE g == [flow[d] EXCEPT !.pc = "showing"]
  <2>1. /\ kept' = [kept EXCEPT ![d] = [pub |-> flow[d].put.pub, key |-> flow[d].put.code.key]]
        /\ flow' = [flow EXCEPT ![d] = g]
    BY <1>3 DEF K!Persists, K!Pair
  <2>2. flow[d].put \in KeyRow /\ Whole(flow[d].put) BY <1>1 DEF KeyFlow, Fits
  <2>3. /\ kept' \in [Device -> [pub : Nat, key : Nat]] /\ kept'[d].key = kept'[d].pub
        /\ \A e \in Device \ {d} : kept'[e] = kept[e]
    BY <2>1, <2>2 DEF KeysInv, KeyTypes, KeyRow, CodeWrap, Whole
  <2>4. g \in KeyFlow /\ Fits(g, kept'[d], row) /\ ToShow(g)
    BY <1>1, <1>3 DEF KeyFlow, KeyPc, Fits, ToShow
  <2> HIDE DEF g
  <2> QED BY <1>1, <1>3, <2>1, <2>3, <2>4, FlowMoves DEF K!Persists, KeysInv, KeyTypes
<1> QED BY <1>2, <1>3

LEMMA ShowsKeeps ==
    ASSUME KeysInv, CodeInv, NEW d \in Device, K!Shows(d)
    PROVE  KeysInv' /\ CodeInv'
<1>1. Whole(row) /\ flow[d].code = row.code.by
  BY RowOfFlow DEF K!Shows, KeysInv, Fits
<1>2. CodeInv' BY <1>1 DEF K!Shows, CodeInv
<1>3. K!Flow("in") \in KeyFlow /\ K!Flow("in").pc = "in" BY FlowType DEF KeyPc
<1>4. /\ flow' \in [Device -> KeyFlow] /\ flow'[d] = K!Flow("in")
      /\ \A e \in Device \ {d} : flow'[e] = flow[e]
  BY <1>3 DEF K!Shows, K!Goes, KeysInv, KeyTypes
<1>5. ASSUME NEW e \in Device PROVE Fits(flow'[e], kept[e], row)
  BY <1>3, <1>4 DEF KeysInv, Fits
<1> QED BY <1>1, <1>2, <1>4, <1>5 DEF K!Shows, KeysInv, KeyTypes

-----------------------------------------------------------------------------
(* Passwords. *)

LEMMA ChangesKeeps ==
    ASSUME KeysInv, CodeInv, NEW d \in Device, NEW w \in Words, K!Changes(d, w)
    PROVE  KeysInv' /\ CodeInv'
<1> DEFINE key == IF kept[d].pub = row.pub THEN kept[d].key
                  ELSE IF K!Opens(password, row.word) THEN row.word.key ELSE 0
           p == [pub |-> row.pub, word |-> [by |-> w, key |-> key], code |-> K!NoRow.code]
           g == [K!Flow("changing") EXCEPT !.typed = password, !.new = w, !.put = p]
<1>1. Whole(row) /\ ~ToShow(flow[d]) BY RowOfFlow DEF K!Changes, K!In, ToShow
<1>2. flow' = [flow EXCEPT ![d] = g] BY DEF K!Changes, K!Row, K!Wrap
<1>3. key \in {0, row.pub} /\ row.pub \in Nat BY <1>1 DEF Whole, KeysInv, KeyTypes, KeyRow
<1> HIDE DEF key
<1>4. K!Flow("changing") \in KeyFlow /\ K!Flow("changing").pc = "changing" /\ K!NoRow \in KeyRow
  BY FlowType DEF KeyPc
<1>5. p \in KeyRow /\ p.pub = row.pub /\ p.word.key = key BY <1>3, <1>4 DEF KeyRow, WordWrap
<1> HIDE DEF p
<1>6. g \in KeyFlow /\ g.pc = "changing" /\ g.put = p BY <1>4, <1>5 DEF KeyFlow, KeysInv, KeyTypes
<1> HIDE DEF g
<1>7. Fits(g, kept[d], row) BY <1>3, <1>5, <1>6 DEF Fits
<1> QED BY <1>1, <1>2, <1>6, <1>7, FlowMoves DEF K!Changes, KeysInv, KeyTypes

\* The row has the key and the code it had, whichever wrap comes.
LEMMA ChangedKeeps ==
    ASSUME KeysInv, CodeInv, NEW d \in Device, K!Changed(d)
    PROVE  KeysInv' /\ CodeInv'
<1> DEFINE g == [flow[d] EXCEPT !.pc = "changed"]
<1>1. Whole(row) /\ flow[d].pc = "changing" /\ flow[d] \in KeyFlow /\ Fits(flow[d], kept[d], row) /\ ~ToShow(flow[d])
  BY RowOfFlow DEF K!Changed, KeysInv, KeyTypes, ToShow
<1>2. row' \in KeyRow /\ Whole(row') /\ row'.pub = row.pub /\ row'.code = row.code
  <2>1. CASE flow[d].put.word.key = 0
    BY <1>1, <2>1 DEF K!Changed, KeysInv, KeyTypes
  <2>2. CASE flow[d].put.word.key # 0
    BY <1>1, <2>2 DEF K!Changed, KeysInv, KeyTypes, KeyRow, KeyFlow, Fits, Whole
  <2> QED BY <2>1, <2>2
<1>3. g \in KeyFlow /\ Fits(g, kept[d], row) /\ ~ToShow(g)
  BY <1>1 DEF KeyFlow, KeyPc, Fits, ToShow
<1>4. flow' = [flow EXCEPT ![d] = g] /\ UNCHANGED <<keys, codes, kept, written, unseen>> /\ password' \in Words \cup {0}
  BY <1>1 DEF K!Changed, KeyFlow
<1> HIDE DEF g
<1>5. flow' \in [Device -> KeyFlow] /\ flow'[d] = g /\ \A e \in Device \ {d} : flow'[e] = flow[e]
  BY <1>3, <1>4 DEF KeysInv, KeyTypes
<1>6. ASSUME NEW e \in Device PROVE Fits(flow'[e], kept[e], row')
  <2>1. Fits(flow'[e], kept[e], row) BY <1>3, <1>5 DEF KeysInv
  <2> QED BY <1>2, <2>1 DEF Fits
<1>7. KeysInv' BY <1>2, <1>4, <1>5, <1>6 DEF KeysInv, KeyTypes
<1>8. CodeInv'
  <2> SUFFICES ASSUME written # row.code.by, row.code.by \notin unseen
               PROVE  \E e \in Device : flow'[e].pc \in {"accepted", "showing"} /\ flow'[e].code = row.code.by
    BY <1>2, <1>4 DEF CodeInv, ToShow
  <2>1. PICK e \in Device : ToShow(flow[e]) BY <1>1, Zenon DEF CodeInv
  <2> QED BY <1>1, <1>5, <2>1 DEF ToShow
<1> QED BY <1>7, <1>8

LEMMA KeepsChangedKeeps ==
    ASSUME KeysInv, CodeInv, NEW d \in Device, K!KeepsChanged(d)
    PROVE  KeysInv' /\ CodeInv'
<1>1. Whole(row) /\ flow[d].pc = "changed" /\ flow[d] \in KeyFlow /\ Fits(flow[d], kept[d], row) /\ ~ToShow(flow[d])
  BY RowOfFlow DEF K!KeepsChanged, KeysInv, KeyTypes, ToShow
<1>2. /\ kept' \in [Device -> [pub : Nat, key : Nat]] /\ kept'[d].key = kept'[d].pub
      /\ \A e \in Device \ {d} : kept'[e] = kept[e]
  <2>1. CASE flow[d].put.word.key = 0
    BY <2>1 DEF K!KeepsChanged, KeysInv, KeyTypes
  <2>2. CASE flow[d].put.word.key # 0
    <3>1. kept' = [kept EXCEPT ![d] = [pub |-> flow[d].put.pub, key |-> flow[d].put.word.key]]
      BY <2>2 DEF K!KeepsChanged, K!Pair
    <3>2. flow[d].put.word.key = flow[d].put.pub /\ flow[d].put.pub \in Nat
      BY <1>1, <2>2 DEF Fits, KeyFlow, KeyRow
    <3> QED BY <3>1, <3>2 DEF KeysInv, KeyTypes
  <2> QED BY <2>1, <2>2
<1> QED BY <1>1, <1>2, Gone, Zenon DEF K!KeepsChanged, KeysInv, KeyTypes

LEMMA ResetsKeeps ==
    ASSUME KeysInv, CodeInv, NEW w \in Words, K!Resets(w)
    PROVE  KeysInv' /\ CodeInv'
<1>1. UNCHANGED <<row, keys, codes, kept, flow, written, unseen>> /\ password' \in Words \cup {0} BY DEF K!Resets
<1>2. Whole(row) BY DEF K!Resets, KeysInv
<1> QED BY <1>1, <1>2 DEF KeysInv, KeyTypes, CodeInv, ToShow, Fits, Whole

-----------------------------------------------------------------------------
(* Failures and ends. *)

LEMMA KeyFailsKeeps ==
    ASSUME KeysInv, CodeInv, NEW d \in Device, K!Fails(d)
    PROVE  KeysInv' /\ CodeInv'
<1> DEFINE pc == K!Back(flow[d].pc)
           g == [K!Flow(pc) EXCEPT !.typed = IF pc = "prompt" THEN flow[d].typed ELSE 0]
<1>1. Whole(row) /\ ~ToShow(flow[d]) BY RowOfFlow DEF K!Fails, ToShow
<1>2. pc \in {"out", "prompt", "in"} BY DEF K!Back
<1>3. flow' = [flow EXCEPT ![d] = g] BY DEF K!Fails
<1> HIDE DEF pc
<1>4. K!Flow(pc) \in KeyFlow /\ K!Flow(pc).pc = pc BY <1>2, FlowType DEF KeyPc
<1>5. g \in KeyFlow /\ g.pc = pc BY <1>4 DEF KeyFlow, KeysInv, KeyTypes
<1> HIDE DEF g
<1>6. Fits(g, kept[d], row) BY <1>2, <1>5 DEF Fits
<1> QED BY <1>1, <1>3, <1>5, <1>6, FlowMoves DEF K!Fails, KeysInv, KeyTypes

LEMMA KeyClosesKeeps ==
    ASSUME KeysInv, CodeInv, NEW d \in Device, K!Closes(d)
    PROVE  KeysInv' /\ CodeInv'
<1>1. Whole(row) BY RowOfFlow DEF K!Closes
<1>2. unseen \subseteq unseen' /\ (ToShow(flow[d]) => row.code.by \in unseen')
  BY <1>1 DEF K!Closes, ToShow, Whole
<1>3. PICK pc \in {"in", "out"} : K!Goes(d, pc) BY DEF K!Closes
<1> QED BY <1>1, <1>2, <1>3, Gone DEF K!Closes, KeysInv, KeyTypes

LEMMA KeyExpiresKeeps ==
    ASSUME KeysInv, CodeInv, NEW d \in Device, K!Expires(d)
    PROVE  KeysInv' /\ CodeInv'
<1>1. Whole(row) /\ ~ToShow(flow[d]) BY RowOfFlow DEF K!Expires, K!In, ToShow
<1> QED BY <1>1, Gone DEF K!Expires, KeysInv, KeyTypes

LEMMA KeySignsOutKeeps ==
    ASSUME KeysInv, CodeInv, NEW d \in Device, K!SignsOut(d)
    PROVE  KeysInv' /\ CodeInv'
<1>1. Whole(row) /\ ~ToShow(flow[d]) BY RowOfFlow DEF K!SignsOut, K!In, ToShow
<1>2. /\ kept' \in [Device -> [pub : Nat, key : Nat]] /\ kept'[d].key = kept'[d].pub
      /\ \A e \in Device \ {d} : kept'[e] = kept[e]
  BY DEF K!SignsOut, K!NoPair, K!Pair, KeysInv, KeyTypes
<1> QED BY <1>1, <1>2, Gone DEF K!SignsOut, KeysInv, KeyTypes

-----------------------------------------------------------------------------
LEMMA KeysNextKeeps ==
    ASSUME KeysInv, CodeInv, [K!Next]_(K!vars)
    PROVE  KeysInv' /\ CodeInv'
<1>1. ASSUME NEW w \in Words, K!Resets(w) PROVE KeysInv' /\ CodeInv'
  BY <1>1, ResetsKeeps
<1>2. ASSUME NEW d \in Device, NEW w \in Words, K!Registers(d, w) \/ K!Changes(d, w) PROVE KeysInv' /\ CodeInv'
  BY <1>2, RegistersKeeps, ChangesKeeps
<1>3. ASSUME NEW d \in Device, K!SignsIn(d) \/ K!Unlocks(d) \/ K!Rewraps(d) PROVE KeysInv' /\ CodeInv'
  BY <1>3, SignsInKeeps, UnlocksKeeps, RewrapsKeeps
<1>4. ASSUME NEW d \in Device, K!Skips(d) \/ K!Recovers(d) \/ K!StartsFresh(d) \/ K!Regenerates(d)
      PROVE  KeysInv' /\ CodeInv'
  BY <1>4, SkipsKeeps, RecoversKeeps, StartsFreshKeeps, RegeneratesKeeps
<1>5. ASSUME NEW d \in Device, K!Puts(d) \/ K!Persists(d) \/ K!Shows(d) PROVE KeysInv' /\ CodeInv'
  BY <1>5, PutsKeeps, PersistsKeeps, ShowsKeeps
<1>6. ASSUME NEW d \in Device, K!Changed(d) \/ K!KeepsChanged(d) PROVE KeysInv' /\ CodeInv'
  BY <1>6, ChangedKeeps, KeepsChangedKeeps
<1>7. ASSUME NEW d \in Device, K!Fails(d) \/ K!Closes(d) \/ K!Expires(d) \/ K!SignsOut(d) PROVE KeysInv' /\ CodeInv'
  BY <1>7, KeyFailsKeeps, KeyClosesKeeps, KeyExpiresKeeps, KeySignsOutKeeps
<1>8. CASE UNCHANGED K!vars
  BY <1>8 DEF K!vars, KeysInv, KeyTypes, CodeInv, ToShow, Fits, Whole, K!Out
<1> QED BY <1>1, <1>2, <1>3, <1>4, <1>5, <1>6, <1>7, <1>8 DEF K!Next

THEOREM KeysInvariance == K!Spec => [](KeysInv /\ CodeInv)
<1>1. K!Init => KeysInv /\ CodeInv BY KeysInitKeeps
<1>2. (KeysInv /\ CodeInv) /\ [K!Next]_(K!vars) => (KeysInv /\ CodeInv)' BY KeysNextKeeps
<1> QED BY <1>1, <1>2, PTL DEF K!Spec

(***************************************************************************)
(* Through repairs, recoveries, fresh starts, changes and resets of the    *)
(* password on any devices, what the password opens, what the code opens   *)
(* and what others seal to is one key, and each device that unwrapped it   *)
(* has a pair that fits (unlockAccountKey, rewrapPasswordWrap,             *)
(* recoverWithCode, startFresh, changePasswordWithRewrap).                 *)
(***************************************************************************)
THEOREM OneKey == K!Spec => []RowIsOneKey
<1>1. KeysInv => RowIsOneKey
  BY DEF KeysInv, Whole, K!NoRow, K!Row, K!Wrap, RowIsOneKey, K!RowIsOneKey
<1> QED BY <1>1, KeysInvariance, PTL

(***************************************************************************)
(* The code that was on a screen last opens the account's key, unless a    *)
(* newer one is on its way there or went with its page (persistKeypair,    *)
(* the silent repair of unlockAccountKey).                                 *)
(***************************************************************************)
THEOREM CodeOpens == K!Spec => []WrittenCodeOpens
<1>1. KeysInv /\ CodeInv => WrittenCodeOpens
  BY DEF KeysInv, CodeInv, ToShow, WrittenCodeOpens, K!WrittenCodeOpens, K!Opens
<1> QED BY <1>1, KeysInvariance, PTL

-----------------------------------------------------------------------------
(* Session, for any tabs, accounts and bounds, as long as none of its      *)
(* LateRaces comes about: the strengthening.                               *)

SessionPage ==
    [pc : {"closed", "login", "asked", "unknown", "answered", "cleared", "held", "in"},
     cached : Nat, as : Account \cup {0}, prior : Nat, sent : Nat, got : Nat, mark : Nat]

Rows == DOMAIN of
Given == DOMAIN issued

SessionTypes ==
    /\ of \in Seq(Account) /\ issued \in Seq([account : Account, device : Nat])
    /\ \A n \in Given : S!DeviceOf(n) \in Rows
    /\ honoured \subseteq Given /\ ended \subseteq Given
    /\ signedIn \in Given \cup {0} /\ deviceId \in Rows \cup {0} /\ crypto \in Nat
    /\ vault \in [session : Given \cup {0}, device : Rows \cup {0}]
    /\ tab \in [Tab -> SessionPage]

Signing == {"asked", "unknown", "answered", "cleared", "held"}
AllClosed == \A t \in Tab : tab[t].pc = "closed"

(***************************************************************************)
(* What a page holds, by where it is.  Nobody signs in beside a page that  *)
(* is signed in or signing in; whoever is in holds the profile's session,  *)
(* or one that another page has cleared and the server does not take; and  *)
(* a picture or a recheck is under way only for the session there is.      *)
(***************************************************************************)
PageInv(t) ==
    LET p == tab[t] IN
    /\ p.pc \in Signing => signedIn = 0 /\ \A u \in Tab \ {t} : tab[u].pc \in {"closed", "login"}
    /\ p.pc = "asked" => /\ p.sent = deviceId /\ p.as \in Account
                         /\ crypto \in {0, p.prior} \/ p.prior = 0
    /\ p.pc = "unknown" => deviceId = 0 /\ p.as \in Account
    /\ p.pc \in {"answered", "cleared"} => p.got \in Given /\ p.got \notin ended
    /\ p.pc = "answered" => crypto \in {0, p.prior} \/ p.prior = 0
    /\ p.pc = "cleared" => crypto \in {0, S!DeviceOf(p.got)}
    /\ p.pc \in {"held", "in"} => /\ p.cached \in Given /\ deviceId = S!DeviceOf(p.cached)
                                  /\ crypto \in {0, deviceId}
    /\ p.pc = "held" => p.cached \notin ended
    /\ p.pc = "in" => IF signedIn = 0 THEN p.cached \notin honoured ELSE p.cached = signedIn
    /\ p.mark # 0 => p.pc = "in" /\ p.mark = p.cached /\ p.mark = signedIn

(***************************************************************************)
(* The copies.  The keychain has what localStorage has, but for a profile  *)
(* that was evicted and not opened since; a session is of the device that  *)
(* is kept with it and was not let go of; and so is the MLS state, but for *)
(* one whose device was forgotten.                                         *)
(***************************************************************************)
CopiesInv ==
    /\ \/ vault.session = signedIn /\ vault.device = deviceId
       \/ shell /\ AllClosed /\ signedIn = 0 /\ deviceId = 0 /\ crypto = 0
    /\ vault.session # 0 => vault.device = S!DeviceOf(vault.session) /\ vault.session \notin ended
    /\ (\A t \in Tab : tab[t].pc \notin {"answered", "cleared"}) => crypto \in {0, deviceId} \/ deviceId = 0

(***************************************************************************)
(* As long as the profile has seen one account, the device that was not    *)
(* revoked is the one it keeps, or the one it is just being told of.       *)
(***************************************************************************)
OneAccount == \A d, e \in Rows : of[d] = of[e]
Alive == Rows \ revoked

AliveInv ==
    OneAccount =>
        /\ \A t \in Tab : tab[t].pc \in {"answered", "cleared"} => Alive \subseteq {S!DeviceOf(tab[t].got)}
        /\ (\A t \in Tab : tab[t].pc \notin {"answered", "cleared"}) => Alive \subseteq {vault.device}

SessionInv == SessionTypes /\ (\A t \in Tab : PageInv(t)) /\ CopiesInv /\ AliveInv

-----------------------------------------------------------------------------
(* Of sequences and pages. *)

LEMMA Appending ==
    ASSUME NEW T, NEW q \in Seq(T), NEW e \in T
    PROVE  /\ Append(q, e) \in Seq(T) /\ Len(q) \in Nat /\ DOMAIN q = 1..Len(q)
           /\ Len(Append(q, e)) = Len(q) + 1 /\ DOMAIN Append(q, e) = DOMAIN q \cup {Len(q) + 1}
           /\ Append(q, e)[Len(q) + 1] = e /\ \A i \in DOMAIN q : Append(q, e)[i] = q[i]
           /\ Len(q) + 1 \notin DOMAIN q
<1>1. Len(q) \in Nat /\ DOMAIN q = 1..Len(q) BY LenProperties
<1>2. /\ Append(q, e) \in Seq(T) /\ Len(Append(q, e)) = Len(q) + 1
      /\ \A i \in 1..Len(q) : Append(q, e)[i] = q[i] /\ Append(q, e)[Len(q) + 1] = e
    BY AppendProperties
<1>3. DOMAIN Append(q, e) = 1..(Len(q) + 1) BY <1>2, LenProperties
<1>4. Append(q, e)[Len(q) + 1] = e BY AppendProperties
<1> QED BY <1>1, <1>2, <1>3, <1>4, SMT

LEMMA Numbered ==
    ASSUME SessionTypes
    PROVE  /\ \A d \in Rows : d \in Nat \ {0} /\ of[d] \in Account
           /\ \A n \in Given : n \in Nat \ {0} /\ issued[n] \in [account : Account, device : Nat]
           /\ \A n \in Given : S!DeviceOf(n) \in Rows /\ S!DeviceOf(n) # 0
           /\ signedIn \in Nat /\ deviceId \in Nat /\ vault.session \in Nat /\ vault.device \in Nat
<1>1. of \in Seq(Account) /\ issued \in Seq([account : Account, device : Nat]) BY DEF SessionTypes
<1>2. Len(of) \in Nat /\ Rows = 1..Len(of) /\ Len(issued) \in Nat /\ Given = 1..Len(issued)
  BY <1>1, LenProperties DEF Rows, Given
<1>3. \A d \in 1..Len(of) : of[d] \in Account BY <1>1, ElementOfSeq
<1>4. \A n \in 1..Len(issued) : issued[n] \in [account : Account, device : Nat] BY <1>1, ElementOfSeq
<1>5. \A d \in Rows : d \in Nat \ {0} BY <1>2
<1>6. \A n \in Given : n \in Nat \ {0} BY <1>2
<1>7. signedIn \in Nat /\ deviceId \in Nat /\ vault.session \in Nat /\ vault.device \in Nat
  BY <1>5, <1>6 DEF SessionTypes
<1>8. \A n \in Given : S!DeviceOf(n) \in Rows /\ S!DeviceOf(n) # 0
  BY <1>2, <1>5, <1>6 DEF SessionTypes, S!DeviceOf
<1> QED BY <1>2, <1>3, <1>4, <1>5, <1>6, <1>7, <1>8

LEMMA PageType ==
    ASSUME NEW pc \in {"closed", "login", "held", "in"}, NEW cached \in Nat
    PROVE  /\ S!Page(pc, cached) \in SessionPage
           /\ S!Page(pc, cached).pc = pc /\ S!Page(pc, cached).cached = cached /\ S!Page(pc, cached).mark = 0
  BY DEF S!Page, S!Closed, SessionPage

\* Beside a page that signs in, no other one does or is in; and where one is in, none does.
LEMMA AloneWhenSigning ==
    ASSUME SessionInv, NEW t \in Tab
    PROVE  /\ tab[t].pc \in Signing => signedIn = 0 /\ \A u \in Tab \ {t} : tab[u].pc \in {"closed", "login"}
           /\ tab[t].pc = "in" => \A u \in Tab : tab[u].pc \notin Signing
           /\ tab[t].pc # "closed" => vault.session = signedIn /\ vault.device = deviceId
<1>1. \A u \in Tab : PageInv(u) BY DEF SessionInv
<1>2. CopiesInv BY DEF SessionInv
<1> QED BY <1>1, <1>2 DEF PageInv, CopiesInv, AllClosed, Signing

-----------------------------------------------------------------------------
LEMMA SessionInitKeeps ==
    ASSUME S!Init
    PROVE  SessionInv
<1>1. of = <<>> /\ issued = <<>> /\ DOMAIN of = {} /\ DOMAIN issued = {} BY DEF S!Init
<1>2. SessionTypes
  <2>1. of \in Seq(Account) /\ issued \in Seq([account : Account, device : Nat]) BY <1>1
  <2>2. tab \in [Tab -> SessionPage] BY DEF S!Init, S!Closed, SessionPage
  <2> QED BY <1>1, <2>1, <2>2 DEF S!Init, SessionTypes, Rows, Given
<1>3. \A t \in Tab : PageInv(t) BY DEF S!Init, S!Closed, PageInv, Signing
<1>4. CopiesInv BY DEF S!Init, CopiesInv
<1>5. AliveInv BY <1>1 DEF S!Init, AliveInv, Alive, Rows, S!Closed
<1> QED BY <1>2, <1>3, <1>4, <1>5 DEF SessionInv

LEMMA OpensKeeps ==
    ASSUME SessionInv, NEW t \in Tab, S!Opens(t)
    PROVE  SessionInv'
<1> USE DEF S!DeviceOf, Rows, Given
<1>1. SessionTypes /\ CopiesInv /\ AliveInv /\ (\A u \in Tab : PageInv(u)) BY DEF SessionInv
<1> DEFINE g == S!Page(IF signedIn' = 0 THEN "login" ELSE "in", signedIn')
<1>2. /\ UNCHANGED <<shell, issued, honoured, of, revoked, vault, crypto, ended>>
      /\ tab' = [tab EXCEPT ![t] = g] /\ tab[t].pc = "closed"
      /\ deviceId' = IF deviceId = 0 /\ shell THEN vault.device ELSE deviceId
      /\ signedIn' = IF signedIn = 0 /\ shell THEN vault.session ELSE signedIn
      /\ shell => AllClosed
  BY DEF S!Opens, AllClosed
<1>3. /\ signedIn' \in Given \cup {0} /\ deviceId' \in Rows \cup {0} /\ signedIn' \in Nat
      /\ signedIn' = vault.session /\ deviceId' = vault.device
  BY <1>1, <1>2, Numbered DEF SessionTypes, CopiesInv
<1>4. g \in SessionPage /\ g.pc = (IF signedIn' = 0 THEN "login" ELSE "in") /\ g.cached = signedIn' /\ g.mark = 0
  BY <1>3, PageType
<1> HIDE DEF g
<1>5. /\ tab' \in [Tab -> SessionPage] /\ tab'[t] = g /\ \A u \in Tab \ {t} : tab'[u] = tab[u]
  BY <1>1, <1>2, <1>4 DEF SessionTypes
<1>6. SessionTypes' BY <1>1, <1>2, <1>3, <1>5 DEF SessionTypes
<1>7. signedIn' # 0 => \A u \in Tab : tab[u].pc \notin Signing
  BY <1>1, <1>2 DEF PageInv, AllClosed, Signing
<1>8. signedIn' # 0 => deviceId' = S!DeviceOf(signedIn') /\ crypto \in {0, deviceId'}
  BY <1>1, <1>2, <1>3, <1>7, Numbered DEF CopiesInv, Signing, SessionTypes
<1>9. ASSUME NEW u \in Tab PROVE PageInv(u)'
  <2>1. CASE u = t BY <1>2, <1>3, <1>4, <1>5, <1>8, <2>1 DEF PageInv, Signing
  <2>2. CASE u # t
    <3>1. CASE shell BY <1>1, <1>2, <1>5, <2>2, <3>1 DEF PageInv, AllClosed, Signing
    <3>2. CASE ~shell
      <4>1. tab'[u] = tab[u] /\ signedIn' = signedIn /\ deviceId' = deviceId BY <1>2, <1>5, <2>2, <3>2
      <4>2. tab[u].pc \in Signing => \A v \in Tab \ {u} : tab'[v].pc \in {"closed", "login"}
        BY <1>1, <1>4, <1>5, <4>1 DEF PageInv
      <4> QED BY <1>1, <1>2, <4>1, <4>2 DEF PageInv
    <3> QED BY <3>1, <3>2
  <2> QED BY <2>1, <2>2
<1>10. CopiesInv' BY <1>1, <1>2, <1>3, <1>4, <1>5, <1>8 DEF CopiesInv
<1>11. AliveInv' BY <1>1, <1>2, <1>4, <1>5 DEF AliveInv, Alive, OneAccount
<1> QED BY <1>6, <1>9, <1>10, <1>11 DEF SessionInv

LEMMA PageMoves ==
    ASSUME SessionTypes, NEW t \in Tab, NEW p \in SessionPage, tab' = [tab EXCEPT ![t] = p]
    PROVE  tab' \in [Tab -> SessionPage] /\ tab'[t] = p /\ \A u \in Tab \ {t} : tab'[u] = tab[u]
  BY DEF SessionTypes

\* A page that is closed or at the form holds nothing.
LEMMA RestingKeeps ==
    ASSUME NEW u \in Tab, PageInv(u), tab'[u] = tab[u], tab[u].pc \in {"closed", "login"}
    PROVE  PageInv(u)' /\ tab'[u].pc \in {"closed", "login"}
  BY DEF PageInv, Signing

LEMMA ClosesKeeps ==
    ASSUME SessionInv, NEW t \in Tab, S!Closes(t)
    PROVE  SessionInv'
<1> USE DEF S!DeviceOf, Rows, Given
<1>1. SessionTypes /\ CopiesInv /\ AliveInv /\ (\A u \in Tab : PageInv(u)) BY DEF SessionInv
<1>2. /\ UNCHANGED <<shell, issued, honoured, of, revoked, signedIn, deviceId, vault, crypto, ended>>
      /\ tab' = [tab EXCEPT ![t] = S!Closed] /\ tab[t].pc \notin {"closed", "answered", "cleared"}
  BY DEF S!Closes
<1>3. S!Closed \in SessionPage /\ S!Closed.pc = "closed" /\ S!Closed.mark = 0 BY DEF S!Closed, SessionPage
<1>4. tab' \in [Tab -> SessionPage] /\ tab'[t] = S!Closed /\ \A u \in Tab \ {t} : tab'[u] = tab[u]
  BY <1>1, <1>2, <1>3, PageMoves
<1>5. SessionTypes' BY <1>1, <1>2, <1>4 DEF SessionTypes
<1>6. ASSUME NEW u \in Tab PROVE PageInv(u)'
  <2>1. CASE u = t BY <1>3, <1>4, <2>1 DEF PageInv, Signing
  <2>2. CASE u # t
    <3>1. tab'[u] = tab[u] BY <1>4, <2>2
    <3>2. tab[u].pc \in Signing => \A v \in Tab \ {u} : tab'[v].pc \in {"closed", "login"}
      BY <1>1, <1>3, <1>4 DEF PageInv
    <3> QED BY <1>1, <1>2, <3>1, <3>2 DEF PageInv
  <2> QED BY <2>1, <2>2
<1>7. CopiesInv' BY <1>1, <1>2, <1>3, <1>4, AloneWhenSigning DEF CopiesInv
<1>8. AliveInv' BY <1>1, <1>2, <1>3, <1>4 DEF AliveInv, Alive, OneAccount
<1> QED BY <1>5, <1>6, <1>7, <1>8 DEF SessionInv

LEMMA EvictsKeeps ==
    ASSUME SessionInv, S!Evicts
    PROVE  SessionInv'
<1> USE DEF S!DeviceOf, Rows, Given
<1>1. SessionTypes /\ CopiesInv /\ AliveInv /\ (\A u \in Tab : PageInv(u)) BY DEF SessionInv
<1>2. /\ UNCHANGED <<shell, issued, honoured, of, revoked, vault, tab, ended>>
      /\ shell /\ (\A u \in Tab : tab[u].pc = "closed") /\ signedIn' = 0 /\ deviceId' = 0 /\ crypto' = 0
  BY DEF S!Evicts
<1>3. SessionTypes' BY <1>1, <1>2 DEF SessionTypes
<1>4. ASSUME NEW u \in Tab PROVE PageInv(u)' BY <1>1, <1>2, RestingKeeps
<1>5. CopiesInv' BY <1>1, <1>2 DEF CopiesInv, AllClosed
<1>6. AliveInv' BY <1>1, <1>2 DEF AliveInv, Alive, OneAccount
<1> QED BY <1>3, <1>4, <1>5, <1>6 DEF SessionInv

LEMMA SubmitsKeeps ==
    ASSUME SessionInv, NEW t \in Tab, NEW a \in Account, S!Submits(t, a)
    PROVE  SessionInv'
<1> USE DEF S!DeviceOf, Rows, Given
<1>1. SessionTypes /\ CopiesInv /\ AliveInv /\ (\A u \in Tab : PageInv(u)) BY DEF SessionInv
<1> DEFINE g == [tab[t] EXCEPT !.pc = "asked", !.as = a, !.prior = deviceId, !.sent = deviceId]
<1>2. /\ UNCHANGED <<shell, issued, honoured, of, revoked, signedIn, deviceId, vault, crypto, ended>>
      /\ tab' = [tab EXCEPT ![t] = g] /\ tab[t].pc = "login"
      /\ signedIn = 0 /\ \A u \in Tab \ {t} : tab[u].pc \in {"closed", "login"}
  BY DEF S!Submits
<1>3. /\ g \in SessionPage /\ g.pc = "asked" /\ g.as = a /\ g.prior = deviceId /\ g.sent = deviceId
      /\ g.mark = tab[t].mark
  <2>1. tab[t] \in SessionPage /\ deviceId \in Nat BY <1>1, Numbered DEF SessionTypes
  <2> QED BY <2>1 DEF SessionPage
<1> HIDE DEF g
<1>4. tab' \in [Tab -> SessionPage] /\ tab'[t] = g /\ \A u \in Tab \ {t} : tab'[u] = tab[u]
  BY <1>1, <1>2, <1>3, PageMoves
<1>5. SessionTypes' BY <1>1, <1>2, <1>4 DEF SessionTypes
<1>6. \A u \in Tab \ {t} : PageInv(u)' /\ tab'[u].pc \in {"closed", "login"}
  BY <1>1, <1>2, <1>4, RestingKeeps
<1>7. crypto \in {0, deviceId} \/ deviceId = 0 BY <1>1, <1>2 DEF CopiesInv
<1>8. g.mark = 0 BY <1>1, <1>2, <1>3 DEF PageInv
<1>9. PageInv(t)' BY <1>2, <1>3, <1>4, <1>6, <1>7, <1>8 DEF PageInv
<1>10. CopiesInv' BY <1>1, <1>2, <1>3, <1>4, <1>7, AloneWhenSigning DEF CopiesInv
<1>11. AliveInv' BY <1>1, <1>2, <1>3, <1>4 DEF AliveInv, Alive, OneAccount
<1> QED BY <1>5, <1>6, <1>9, <1>10, <1>11 DEF SessionInv

\* A step of a page that signs in: the others rest.
LEMMA SignerMoves ==
    ASSUME SessionInv, NEW t \in Tab, tab[t].pc \in Signing, NEW p \in SessionPage, tab' = [tab EXCEPT ![t] = p]
    PROVE  /\ tab' \in [Tab -> SessionPage] /\ tab'[t] = p /\ \A u \in Tab \ {t} : tab'[u] = tab[u]
           /\ \A u \in Tab \ {t} : PageInv(u)' /\ tab[u].pc \in {"closed", "login"}
           /\ tab[t].mark = 0 /\ signedIn = 0 /\ vault.session = 0 /\ vault.device = deviceId
<1>1. SessionTypes /\ (\A u \in Tab : PageInv(u)) BY DEF SessionInv
<1>2. tab' \in [Tab -> SessionPage] /\ tab'[t] = p /\ \A u \in Tab \ {t} : tab'[u] = tab[u]
  BY <1>1, PageMoves
<1>3. \A u \in Tab \ {t} : tab[u].pc \in {"closed", "login"} BY AloneWhenSigning
<1>4. \A u \in Tab \ {t} : PageInv(u)' BY <1>1, <1>2, <1>3, RestingKeeps
<1>5. tab[t].mark = 0 BY <1>1 DEF PageInv, Signing
<1>6. signedIn = 0 /\ vault.session = 0 /\ vault.device = deviceId BY AloneWhenSigning DEF Signing
<1> QED BY <1>2, <1>3, <1>4, <1>5, <1>6

LEMMA FailsKeeps ==
    ASSUME SessionInv, NEW t \in Tab, S!Fails(t)
    PROVE  SessionInv'
<1> USE DEF S!DeviceOf, Rows, Given
<1>1. SessionTypes /\ CopiesInv /\ AliveInv /\ (\A u \in Tab : PageInv(u)) BY DEF SessionInv
<1> DEFINE g == S!Page("login", tab[t].cached)
<1>2. /\ UNCHANGED <<shell, issued, honoured, of, revoked, signedIn, deviceId, vault, crypto, ended>>
      /\ tab' = [tab EXCEPT ![t] = g] /\ tab[t].pc = "asked"
  BY DEF S!Fails
<1>3. g \in SessionPage /\ g.pc = "login" /\ g.mark = 0
  <2>1. tab[t].cached \in Nat BY <1>1 DEF SessionTypes, SessionPage
  <2> QED BY <2>1, PageType
<1> HIDE DEF g
<1>4. /\ tab' \in [Tab -> SessionPage] /\ tab'[t] = g /\ \A u \in Tab \ {t} : tab'[u] = tab[u]
      /\ \A u \in Tab \ {t} : PageInv(u)' /\ tab[u].pc \in {"closed", "login"}
      /\ vault.session = signedIn /\ vault.device = deviceId
  BY <1>2, <1>3, SignerMoves DEF Signing
<1>5. SessionTypes' BY <1>1, <1>2, <1>4 DEF SessionTypes
<1>6. PageInv(t)' BY <1>3, <1>4 DEF PageInv, Signing
<1>7. CopiesInv' BY <1>1, <1>2, <1>3, <1>4 DEF CopiesInv
<1>8. AliveInv' BY <1>1, <1>2, <1>3, <1>4 DEF AliveInv, Alive, OneAccount
<1> QED BY <1>4, <1>5, <1>6, <1>7, <1>8 DEF SessionInv

LEMMA RetriesKeeps ==
    ASSUME SessionInv, NEW t \in Tab, S!Retries(t)
    PROVE  SessionInv'
<1> USE DEF S!DeviceOf, Rows, Given
<1>1. SessionTypes /\ CopiesInv /\ AliveInv /\ (\A u \in Tab : PageInv(u)) BY DEF SessionInv
<1> DEFINE g == [tab[t] EXCEPT !.pc = "asked", !.sent = 0]
<1>2. /\ UNCHANGED <<shell, issued, honoured, of, revoked, signedIn, deviceId, vault, ended>>
      /\ tab' = [tab EXCEPT ![t] = g] /\ tab[t].pc = "unknown" /\ crypto' = 0
  BY DEF S!Retries
<1>3. g \in SessionPage /\ g.pc = "asked" /\ g.sent = 0 /\ g.as = tab[t].as /\ g.mark = tab[t].mark
  <2>1. tab[t] \in SessionPage BY <1>1 DEF SessionTypes
  <2> QED BY <2>1 DEF SessionPage
<1> HIDE DEF g
<1>4. /\ tab' \in [Tab -> SessionPage] /\ tab'[t] = g /\ \A u \in Tab \ {t} : tab'[u] = tab[u]
      /\ \A u \in Tab \ {t} : PageInv(u)' /\ tab[u].pc \in {"closed", "login"}
      /\ tab[t].mark = 0 /\ signedIn = 0 /\ vault.session = 0 /\ vault.device = deviceId
  BY <1>2, <1>3, SignerMoves DEF Signing
<1>5. SessionTypes' BY <1>1, <1>2, <1>4 DEF SessionTypes
<1>6. deviceId = 0 /\ tab[t].as \in Account BY <1>1, <1>2 DEF PageInv
<1>7. PageInv(t)' BY <1>2, <1>3, <1>4, <1>6 DEF PageInv
<1>8. CopiesInv' BY <1>1, <1>2, <1>3, <1>4, <1>6 DEF CopiesInv
<1>9. AliveInv' BY <1>1, <1>2, <1>3, <1>4 DEF AliveInv, Alive, OneAccount
<1> QED BY <1>4, <1>5, <1>7, <1>8, <1>9 DEF SessionInv

LEMMA ClearsKeeps ==
    ASSUME SessionInv, NEW t \in Tab, S!Clears(t)
    PROVE  SessionInv'
<1> USE DEF S!DeviceOf, Rows, Given
<1>1. SessionTypes /\ CopiesInv /\ AliveInv /\ (\A u \in Tab : PageInv(u)) BY DEF SessionInv
<1> DEFINE g == [tab[t] EXCEPT !.pc = "cleared"]
<1>2. /\ UNCHANGED <<shell, issued, honoured, of, revoked, signedIn, deviceId, vault, ended>>
      /\ tab' = [tab EXCEPT ![t] = g] /\ tab[t].pc = "answered"
      /\ crypto' = IF tab[t].prior = S!DeviceOf(tab[t].got) THEN crypto ELSE 0
  BY DEF S!Clears
<1>3. g \in SessionPage /\ g.pc = "cleared" /\ g.got = tab[t].got /\ g.mark = tab[t].mark
  <2>1. tab[t] \in SessionPage BY <1>1 DEF SessionTypes
  <2> QED BY <2>1 DEF SessionPage
<1> HIDE DEF g
<1>4. /\ tab' \in [Tab -> SessionPage] /\ tab'[t] = g /\ \A u \in Tab \ {t} : tab'[u] = tab[u]
      /\ \A u \in Tab \ {t} : PageInv(u)' /\ tab[u].pc \in {"closed", "login"}
      /\ tab[t].mark = 0 /\ signedIn = 0 /\ vault.session = 0 /\ vault.device = deviceId
  BY <1>2, <1>3, SignerMoves DEF Signing
<1>5. /\ tab[t].got \in Given /\ tab[t].got \notin ended
      /\ crypto \in {0, tab[t].prior} \/ tab[t].prior = 0
  BY <1>1, <1>2 DEF PageInv
<1>6. S!DeviceOf(tab[t].got) # 0 BY <1>1, <1>5, Numbered
<1>7. crypto' \in {0, S!DeviceOf(tab[t].got)} /\ crypto' \in Nat BY <1>1, <1>2, <1>5, <1>6 DEF SessionTypes
<1>8. SessionTypes' BY <1>1, <1>2, <1>4, <1>7 DEF SessionTypes
<1>9. PageInv(t)' BY <1>2, <1>3, <1>4, <1>5, <1>7 DEF PageInv
<1>10. CopiesInv' BY <1>1, <1>2, <1>3, <1>4 DEF CopiesInv
<1>11. AliveInv' BY <1>1, <1>2, <1>3, <1>4 DEF AliveInv, Alive, OneAccount
<1> QED BY <1>4, <1>8, <1>9, <1>10, <1>11 DEF SessionInv

LEMMA HoldsKeeps ==
    ASSUME SessionInv, NEW t \in Tab, S!Holds(t)
    PROVE  SessionInv'
<1> USE DEF S!DeviceOf, Rows, Given
<1>1. SessionTypes /\ CopiesInv /\ AliveInv /\ (\A u \in Tab : PageInv(u)) BY DEF SessionInv
<1> DEFINE g == S!Page("held", tab[t].got)
<1>2. /\ UNCHANGED <<shell, issued, honoured, of, revoked, signedIn, crypto, ended>>
      /\ tab' = [tab EXCEPT ![t] = g] /\ tab[t].pc = "cleared"
      /\ deviceId' = S!DeviceOf(tab[t].got) /\ vault' = [vault EXCEPT !.device = deviceId']
  BY DEF S!Holds
<1>3. /\ tab[t].got \in Given /\ tab[t].got \notin ended /\ crypto \in {0, S!DeviceOf(tab[t].got)}
      /\ tab[t].got \in Nat /\ deviceId' \in Rows
  BY <1>1, <1>2, Numbered DEF PageInv
<1>4. g \in SessionPage /\ g.pc = "held" /\ g.cached = tab[t].got /\ g.mark = 0 BY <1>3, PageType
<1> HIDE DEF g
<1>5. /\ tab' \in [Tab -> SessionPage] /\ tab'[t] = g /\ \A u \in Tab \ {t} : tab'[u] = tab[u]
      /\ \A u \in Tab \ {t} : PageInv(u)' /\ tab[u].pc \in {"closed", "login"}
      /\ signedIn = 0 /\ vault.session = 0
  BY <1>2, <1>4, SignerMoves DEF Signing
<1>6. /\ vault' \in [session : Given \cup {0}, device : Rows \cup {0}]
      /\ vault'.session = 0 /\ vault'.device = deviceId'
  BY <1>1, <1>2, <1>3, <1>5 DEF SessionTypes
<1>7. SessionTypes' BY <1>1, <1>2, <1>3, <1>5, <1>6 DEF SessionTypes
<1>8. PageInv(t)' BY <1>2, <1>3, <1>4, <1>5 DEF PageInv
<1>9. CopiesInv' BY <1>2, <1>3, <1>5, <1>6 DEF CopiesInv
<1>10. AliveInv' BY <1>1, <1>2, <1>4, <1>5, <1>6 DEF AliveInv, Alive, OneAccount
<1> QED BY <1>5, <1>7, <1>8, <1>9, <1>10 DEF SessionInv

LEMMA EntersKeeps ==
    ASSUME SessionInv, NEW t \in Tab, S!Persists(t)
    PROVE  SessionInv'
<1> USE DEF S!DeviceOf, Rows, Given
<1>1. SessionTypes /\ CopiesInv /\ AliveInv /\ (\A u \in Tab : PageInv(u)) BY DEF SessionInv
<1> DEFINE g == [tab[t] EXCEPT !.pc = "in"]
<1>2. /\ UNCHANGED <<shell, issued, honoured, of, revoked, deviceId, crypto, ended>>
      /\ tab' = [tab EXCEPT ![t] = g] /\ tab[t].pc = "held"
      /\ signedIn' = tab[t].cached /\ vault' = [vault EXCEPT !.session = tab[t].cached]
  BY DEF S!Persists, S!Writes
<1>3. g \in SessionPage /\ g.pc = "in" /\ g.cached = tab[t].cached /\ g.mark = tab[t].mark
  <2>1. tab[t] \in SessionPage BY <1>1 DEF SessionTypes
  <2> QED BY <2>1 DEF SessionPage
<1> HIDE DEF g
<1>4. /\ tab' \in [Tab -> SessionPage] /\ tab'[t] = g /\ \A u \in Tab \ {t} : tab'[u] = tab[u]
      /\ \A u \in Tab \ {t} : PageInv(u)' /\ tab[u].pc \in {"closed", "login"}
      /\ tab[t].mark = 0 /\ vault.device = deviceId
  BY <1>2, <1>3, SignerMoves DEF Signing
<1>5. /\ tab[t].cached \in Given /\ deviceId = S!DeviceOf(tab[t].cached) /\ crypto \in {0, deviceId}
      /\ tab[t].cached \notin ended /\ tab[t].cached # 0
  BY <1>1, <1>2, Numbered DEF PageInv
<1>6. /\ vault' \in [session : Given \cup {0}, device : Rows \cup {0}]
      /\ vault'.session = signedIn' /\ vault'.device = deviceId
  BY <1>1, <1>2, <1>4, <1>5 DEF SessionTypes
<1>7. SessionTypes' BY <1>1, <1>2, <1>4, <1>5, <1>6 DEF SessionTypes
<1>8. PageInv(t)' BY <1>2, <1>3, <1>4, <1>5 DEF PageInv, Signing
<1>9. CopiesInv' BY <1>2, <1>5, <1>6 DEF CopiesInv
<1>10. AliveInv' BY <1>1, <1>2, <1>3, <1>4, <1>6 DEF AliveInv, Alive, OneAccount
<1> QED BY <1>4, <1>7, <1>8, <1>9, <1>10 DEF SessionInv

\* One page's recheck begins, or is answered: it stays in, and so do the others.
LEMMA MarksKeep ==
    ASSUME SessionInv, NEW t \in Tab, NEW g \in SessionPage, tab' = [tab EXCEPT ![t] = g],
           tab[t].pc = "in", g.pc = "in", g.cached = tab[t].cached,
           g.mark \in {0, tab[t].cached}, g.mark # 0 => g.mark = signedIn,
           UNCHANGED <<shell, issued, honoured, of, revoked, signedIn, deviceId, vault, crypto, ended>>
    PROVE  SessionInv'
<1> USE DEF S!DeviceOf, Rows, Given
<1>1. SessionTypes /\ CopiesInv /\ AliveInv /\ (\A u \in Tab : PageInv(u)) BY DEF SessionInv
<1>2. tab' \in [Tab -> SessionPage] /\ tab'[t] = g /\ \A u \in Tab \ {t} : tab'[u] = tab[u]
  BY <1>1, PageMoves
<1>3. \A u \in Tab : tab'[u].pc = tab[u].pc BY <1>2
<1>4. SessionTypes' BY <1>1, <1>2 DEF SessionTypes
<1>5. ASSUME NEW u \in Tab PROVE PageInv(u)'
  <2>1. CASE u = t BY <1>1, <1>2, <2>1 DEF PageInv, Signing
  <2>2. CASE u # t
    <3>1. tab'[u] = tab[u] BY <1>2, <2>2
    <3> QED BY <1>1, <1>3, <3>1 DEF PageInv
  <2> QED BY <2>1, <2>2
<1>6. CopiesInv' BY <1>1, <1>2, <1>3 DEF CopiesInv, AllClosed
<1>7. AliveInv'
  <2>1. \A u \in Tab : tab'[u].pc \in {"answered", "cleared"} => tab'[u] = tab[u] BY <1>2
  <2> QED BY <1>1, <1>3, <2>1 DEF AliveInv, Alive, OneAccount
<1> QED BY <1>4, <1>5, <1>6, <1>7 DEF SessionInv

LEMMA RechecksKeeps ==
    ASSUME SessionInv, NEW t \in Tab, S!Rechecks(t)
    PROVE  SessionInv'
<1>1. SessionTypes /\ PageInv(t) BY DEF SessionInv
<1> DEFINE g == [tab[t] EXCEPT !.mark = tab[t].cached]
<1>2. /\ UNCHANGED <<shell, issued, honoured, of, revoked, signedIn, deviceId, vault, crypto, ended>>
      /\ tab' = [tab EXCEPT ![t] = g] /\ tab[t].pc = "in" /\ tab[t].cached \in honoured
  BY DEF S!Rechecks, S!In
<1>3. g \in SessionPage /\ g.pc = "in" /\ g.cached = tab[t].cached /\ g.mark = tab[t].cached
  <2>1. tab[t] \in SessionPage BY <1>1 DEF SessionTypes
  <2> QED BY <1>2, <2>1 DEF SessionPage
<1> HIDE DEF g
<1>4. tab[t].cached = signedIn BY <1>1, <1>2 DEF PageInv
<1> QED BY <1>2, <1>3, <1>4, MarksKeep

\* The session that is written back is the one there is.
LEMMA MarkedIsSame ==
    ASSUME SessionInv, NEW t \in Tab, S!Marked(t)
    PROVE  /\ tab[t].pc = "in" /\ tab[t].mark = tab[t].cached /\ tab[t].mark # 0
           /\ UNCHANGED <<signedIn, vault>>
<1>1. SessionTypes /\ PageInv(t) BY DEF SessionInv
<1>2. tab[t].mark # 0 /\ signedIn' = tab[t].mark /\ vault' = [vault EXCEPT !.session = tab[t].mark]
  BY DEF S!Marked, S!Writes
<1>3. tab[t].pc = "in" /\ tab[t].mark = tab[t].cached /\ tab[t].mark = signedIn BY <1>1, <1>2 DEF PageInv
<1>4. vault.session = signedIn BY <1>3, AloneWhenSigning
<1>5. vault' = vault BY <1>1, <1>2, <1>3, <1>4 DEF SessionTypes
<1> QED BY <1>2, <1>3, <1>5

LEMMA MarkedKeeps ==
    ASSUME SessionInv, NEW t \in Tab, S!Marked(t)
    PROVE  SessionInv'
<1>1. SessionTypes BY DEF SessionInv
<1> DEFINE g == [tab[t] EXCEPT !.mark = 0, !.cached = tab[t].mark]
<1>2. /\ UNCHANGED <<shell, issued, honoured, of, revoked, deviceId, crypto, ended>>
      /\ tab' = [tab EXCEPT ![t] = g]
  BY DEF S!Marked
<1>3. tab[t].pc = "in" /\ tab[t].mark = tab[t].cached /\ UNCHANGED <<signedIn, vault>> BY MarkedIsSame
<1>4. g \in SessionPage /\ g.pc = "in" /\ g.cached = tab[t].cached /\ g.mark = 0
  <2>1. tab[t] \in SessionPage BY <1>1 DEF SessionTypes
  <2> QED BY <1>3, <2>1 DEF SessionPage
<1> HIDE DEF g
<1> QED BY <1>2, <1>3, <1>4, MarksKeep

LEMMA UnmarkedKeeps ==
    ASSUME SessionInv, NEW t \in Tab, S!Unmarked(t)
    PROVE  SessionInv'
<1>1. SessionTypes /\ PageInv(t) BY DEF SessionInv
<1> DEFINE g == [tab[t] EXCEPT !.mark = 0]
<1>2. /\ UNCHANGED <<shell, issued, honoured, of, revoked, signedIn, deviceId, vault, crypto, ended>>
      /\ tab' = [tab EXCEPT ![t] = g] /\ tab[t].mark # 0
  BY DEF S!Unmarked
<1>3. tab[t].pc = "in" BY <1>1, <1>2 DEF PageInv
<1>4. g \in SessionPage /\ g.pc = "in" /\ g.cached = tab[t].cached /\ g.mark = 0
  <2>1. tab[t] \in SessionPage BY <1>1 DEF SessionTypes
  <2> QED BY <1>3, <2>1 DEF SessionPage
<1> HIDE DEF g
<1> QED BY <1>2, <1>3, <1>4, MarksKeep

LEMMA UsesKeeps ==
    ASSUME SessionInv, NEW t \in Tab, S!Uses(t)
    PROVE  SessionInv'
<1> USE DEF S!DeviceOf, Rows, Given
<1>1. SessionTypes /\ CopiesInv /\ AliveInv /\ (\A u \in Tab : PageInv(u)) BY DEF SessionInv
<1>2. /\ UNCHANGED <<shell, issued, honoured, of, revoked, signedIn, deviceId, vault, tab, ended>>
      /\ tab[t].pc = "in" /\ crypto' = S!DeviceOf(tab[t].cached)
  BY DEF S!Uses, S!In
<1>3. crypto' = deviceId /\ deviceId \in Nat BY <1>1, <1>2, Numbered DEF PageInv
<1>4. \A u \in Tab : tab[u].pc \notin Signing BY <1>2, AloneWhenSigning
<1>5. SessionTypes' BY <1>1, <1>2, <1>3 DEF SessionTypes
<1>6. ASSUME NEW u \in Tab PROVE PageInv(u)' BY <1>1, <1>2, <1>3, <1>4 DEF PageInv, Signing
<1>7. CopiesInv' BY <1>1, <1>2, <1>3, AloneWhenSigning DEF CopiesInv
<1>8. AliveInv' BY <1>1, <1>2 DEF AliveInv, Alive, OneAccount
<1> QED BY <1>5, <1>6, <1>7, <1>8 DEF SessionInv

LEMMA RevokesKeeps ==
    ASSUME SessionInv, NEW d \in Rows, S!Revokes(d)
    PROVE  SessionInv'
<1> USE DEF S!DeviceOf, Rows, Given
<1>1. SessionTypes /\ CopiesInv /\ AliveInv /\ (\A u \in Tab : PageInv(u)) BY DEF SessionInv
<1>2. /\ UNCHANGED <<shell, issued, of, signedIn, deviceId, vault, crypto, tab, ended>>
      /\ revoked \subseteq revoked' /\ honoured' \subseteq honoured
  BY DEF S!Revokes
<1>3. SessionTypes' BY <1>1, <1>2 DEF SessionTypes
<1>4. ASSUME NEW u \in Tab PROVE PageInv(u)' BY <1>1, <1>2 DEF PageInv
<1>5. CopiesInv' BY <1>1, <1>2 DEF CopiesInv, AllClosed
<1>6. AliveInv' BY <1>1, <1>2 DEF AliveInv, Alive, OneAccount
<1> QED BY <1>3, <1>4, <1>5, <1>6 DEF SessionInv

LEMMA ExpiresKeeps ==
    ASSUME SessionInv, NEW token \in honoured, S!Expires(token)
    PROVE  SessionInv'
<1> USE DEF S!DeviceOf, Rows, Given
<1>1. SessionTypes /\ CopiesInv /\ AliveInv /\ (\A u \in Tab : PageInv(u)) BY DEF SessionInv
<1>2. /\ UNCHANGED <<shell, issued, of, revoked, signedIn, deviceId, vault, crypto, tab, ended>>
      /\ honoured' \subseteq honoured
  BY DEF S!Expires
<1>3. SessionTypes' BY <1>1, <1>2 DEF SessionTypes
<1>4. ASSUME NEW u \in Tab PROVE PageInv(u)' BY <1>1, <1>2 DEF PageInv
<1>5. CopiesInv' BY <1>1, <1>2 DEF CopiesInv, AllClosed
<1>6. AliveInv' BY <1>1, <1>2 DEF AliveInv, Alive, OneAccount
<1> QED BY <1>3, <1>4, <1>5, <1>6 DEF SessionInv

\* The tabs that are told go to the form, as does the one that signs out.
LEMMA SignsOutKeeps ==
    ASSUME SessionInv, NEW t \in Tab, S!SignsOut(t)
    PROVE  SessionInv'
<1> USE DEF S!DeviceOf, Rows, Given
<1>1. SessionTypes /\ CopiesInv /\ AliveInv /\ (\A u \in Tab : PageInv(u)) BY DEF SessionInv
<1>2. /\ UNCHANGED <<shell, issued, of, revoked, deviceId, crypto>>
      /\ tab[t].pc = "in" /\ signedIn' = 0 /\ ended' = ended \cup {tab[t].cached}
      /\ vault' = [vault EXCEPT !.session = 0] /\ honoured' \subseteq honoured
      /\ \A u \in Tab : tab[u].mark = 0
      /\ tab' = [u \in Tab |-> IF u = t THEN [tab[t] EXCEPT !.pc = "login", !.cached = 0]
                               ELSE IF tab[u].pc = "in" THEN [tab[u] EXCEPT !.pc = "login"] ELSE tab[u]]
  BY DEF S!SignsOut, S!ClearsSession, S!In
<1>3. \A u \in Tab : tab[u].pc \in {"closed", "login", "in"}
  <2>1. \A u \in Tab : tab[u].pc \notin Signing /\ tab[u] \in SessionPage
    BY <1>1, <1>2, AloneWhenSigning DEF SessionTypes
  <2> QED BY <2>1 DEF Signing, SessionPage
<1>4. ASSUME NEW u \in Tab
      PROVE  tab'[u] \in SessionPage /\ tab'[u].pc \in {"closed", "login"} /\ tab'[u].mark = 0
  <2>1. tab[u] \in SessionPage BY <1>1 DEF SessionTypes
  <2>2. CASE u = t BY <1>2, <2>1, <2>2 DEF SessionPage
  <2>3. CASE u # t /\ tab[u].pc = "in" BY <1>2, <2>1, <2>3 DEF SessionPage
  <2>4. CASE u # t /\ tab[u].pc # "in" BY <1>2, <1>3, <2>1, <2>4
  <2> QED BY <2>2, <2>3, <2>4
<1>5. tab' \in [Tab -> SessionPage] BY <1>2, <1>4
<1>6. tab[t].cached \in Given BY <1>1, <1>2 DEF PageInv
<1>7. /\ vault' \in [session : Given \cup {0}, device : Rows \cup {0}]
      /\ vault'.session = 0 /\ vault'.device = deviceId /\ vault'.device = vault.device
  BY <1>1, <1>2, AloneWhenSigning DEF SessionTypes
<1>8. SessionTypes' BY <1>1, <1>2, <1>5, <1>6, <1>7 DEF SessionTypes
<1>9. ASSUME NEW u \in Tab PROVE PageInv(u)' BY <1>4 DEF PageInv, Signing
<1>10. CopiesInv' BY <1>1, <1>2, <1>3, <1>7 DEF CopiesInv
<1>11. AliveInv' BY <1>1, <1>2, <1>3, <1>4, <1>7 DEF AliveInv, Alive, OneAccount
<1> QED BY <1>8, <1>9, <1>10, <1>11 DEF SessionInv

\* The other tabs keep a session that the server does not take.
LEMMA UnauthorizedKeeps ==
    ASSUME SessionInv, NEW t \in Tab, S!Unauthorized(t)
    PROVE  SessionInv'
<1> USE DEF S!DeviceOf, Rows, Given
<1>1. SessionTypes /\ CopiesInv /\ AliveInv /\ (\A u \in Tab : PageInv(u)) BY DEF SessionInv
<1> DEFINE g == [tab[t] EXCEPT !.pc = "login", !.cached = 0]
<1>2. /\ UNCHANGED <<shell, issued, honoured, of, revoked, deviceId, crypto>>
      /\ tab[t].pc = "in" /\ signedIn' = 0 /\ ended' = ended \cup {tab[t].cached}
      /\ vault' = [vault EXCEPT !.session = 0] /\ tab[t].cached \notin honoured
      /\ \A u \in Tab : tab[u].mark = 0
      /\ tab' = [tab EXCEPT ![t] = g]
  BY DEF S!Unauthorized, S!ClearsSession, S!In
<1>3. g \in SessionPage /\ g.pc = "login" /\ g.mark = tab[t].mark
  <2>1. tab[t] \in SessionPage BY <1>1 DEF SessionTypes
  <2> QED BY <2>1 DEF SessionPage
<1> HIDE DEF g
<1>4. tab' \in [Tab -> SessionPage] /\ tab'[t] = g /\ \A u \in Tab \ {t} : tab'[u] = tab[u]
  BY <1>1, <1>2, <1>3, PageMoves
<1>5. \A u \in Tab : tab[u].pc \notin Signing /\ tab'[u].pc \notin Signing
  <2>1. \A u \in Tab : tab[u].pc \notin Signing BY <1>2, AloneWhenSigning
  <2> QED BY <1>3, <1>4, <2>1 DEF Signing
<1>6. tab[t].cached \in Given BY <1>1, <1>2 DEF PageInv
<1>7. /\ vault' \in [session : Given \cup {0}, device : Rows \cup {0}]
      /\ vault'.session = 0 /\ vault'.device = deviceId /\ vault'.device = vault.device
  BY <1>1, <1>2, AloneWhenSigning DEF SessionTypes
<1>8. SessionTypes' BY <1>1, <1>2, <1>4, <1>6, <1>7 DEF SessionTypes
<1>9. ASSUME NEW u \in Tab PROVE PageInv(u)'
  <2>1. CASE u = t BY <1>2, <1>3, <1>4, <2>1 DEF PageInv, Signing
  <2>2. CASE u # t
    <3>1. tab'[u] = tab[u] /\ tab[u].mark = 0 /\ tab[u].pc \notin Signing BY <1>2, <1>4, <1>5, <2>2
    <3>2. tab[u].pc = "in" => tab[u].cached \notin honoured BY <1>1, <1>2 DEF PageInv
    <3>3. tab[u].pc = "in" => /\ tab[u].cached \in Given /\ deviceId = S!DeviceOf(tab[u].cached)
                              /\ crypto \in {0, deviceId}
      BY <1>1 DEF PageInv
    <3> QED BY <1>2, <3>1, <3>2, <3>3 DEF PageInv, Signing
  <2> QED BY <2>1, <2>2
<1>10. CopiesInv' BY <1>1, <1>2, <1>5, <1>7 DEF CopiesInv, Signing
<1>11. AliveInv' BY <1>1, <1>2, <1>5, <1>7 DEF AliveInv, Alive, OneAccount, Signing
<1> QED BY <1>8, <1>9, <1>10, <1>11 DEF SessionInv

\* An id the server does not know is of another account, or revoked: then no device is left.
LEMMA ForgetsKeeps ==
    ASSUME SessionInv, NEW t \in Tab, S!Forgets(t)
    PROVE  SessionInv'
<1> USE DEF S!DeviceOf, Rows, Given
<1>1. SessionTypes /\ CopiesInv /\ AliveInv /\ (\A u \in Tab : PageInv(u)) BY DEF SessionInv
<1> DEFINE g == [tab[t] EXCEPT !.pc = "unknown"]
<1>2. /\ UNCHANGED <<shell, issued, honoured, of, revoked, signedIn, crypto, ended>>
      /\ tab' = [tab EXCEPT ![t] = g] /\ tab[t].pc = "asked"
      /\ deviceId' = 0 /\ vault' = [vault EXCEPT !.device = 0]
      /\ tab[t].as \in S!Made /\ tab[t].sent # 0
      /\ of[tab[t].sent] # tab[t].as \/ tab[t].sent \in revoked
  BY DEF S!Forgets, S!Anew, S!Known
<1>3. g \in SessionPage /\ g.pc = "unknown" /\ g.as = tab[t].as /\ g.mark = tab[t].mark
  <2>1. tab[t] \in SessionPage BY <1>1 DEF SessionTypes
  <2> QED BY <2>1 DEF SessionPage
<1> HIDE DEF g
<1>4. /\ tab' \in [Tab -> SessionPage] /\ tab'[t] = g /\ \A u \in Tab \ {t} : tab'[u] = tab[u]
      /\ \A u \in Tab \ {t} : PageInv(u)' /\ tab[u].pc \in {"closed", "login"}
      /\ tab[t].mark = 0 /\ signedIn = 0 /\ vault.session = 0 /\ vault.device = deviceId
  BY <1>2, <1>3, SignerMoves DEF Signing
<1>5. tab[t].sent = deviceId /\ tab[t].as \in Account BY <1>1, <1>2 DEF PageInv
<1>6. /\ vault' \in [session : Given \cup {0}, device : Rows \cup {0}]
      /\ vault'.session = 0 /\ vault'.device = 0
  BY <1>1, <1>2, <1>4 DEF SessionTypes
<1>7. SessionTypes' BY <1>1, <1>2, <1>4, <1>6 DEF SessionTypes
<1>8. PageInv(t)' BY <1>2, <1>3, <1>4, <1>5 DEF PageInv
<1>9. CopiesInv' BY <1>2, <1>4, <1>6 DEF CopiesInv
<1>10. OneAccount => Alive = {}
  <2> SUFFICES ASSUME OneAccount PROVE Alive = {} OBVIOUS
  <2>1. PICK d \in Rows : of[d] = tab[t].as BY <1>2 DEF S!Made
  <2>2. deviceId \in Rows BY <1>1, <1>2, <1>5 DEF SessionTypes
  <2>3. deviceId \in revoked BY <1>2, <1>5, <2>1, <2>2 DEF OneAccount
  <2>4. Alive \subseteq {deviceId} BY <1>1, <1>2, <1>4 DEF AliveInv
  <2> QED BY <2>3, <2>4 DEF Alive
<1>11. AliveInv' BY <1>2, <1>10 DEF AliveInv, Alive, OneAccount
<1> QED BY <1>4, <1>7, <1>8, <1>9, <1>11 DEF SessionInv

LEMMA AnswersKeeps ==
    ASSUME SessionInv, NEW t \in Tab, S!Answers(t)
    PROVE  SessionInv'
<1>1. SessionTypes /\ CopiesInv /\ AliveInv /\ (\A u \in Tab : PageInv(u)) BY DEF SessionInv
<1> DEFINE next == Len(of) + 1
           token == Len(issued) + 1
           mine == IF S!Anew(t) THEN next ELSE tab[t].sent
           entry == [account |-> tab[t].as, device |-> mine]
           g == [tab[t] EXCEPT !.pc = "answered", !.got = token]
<1>2. of \in Seq(Account) /\ issued \in Seq([account : Account, device : Nat]) BY <1>1 DEF SessionTypes
<1>3. /\ tab[t].pc = "asked"
      /\ S!Anew(t) \/ S!Known(t)
      /\ of' = IF S!Anew(t) THEN Append(of, tab[t].as) ELSE of
      /\ issued' = Append(issued, entry) /\ honoured' = honoured \cup {Len(issued')}
      /\ tab' = [tab EXCEPT ![t] = [tab[t] EXCEPT !.pc = "answered", !.got = Len(issued')]]
      /\ UNCHANGED <<shell, revoked, signedIn, deviceId, vault, crypto, ended>>
  BY DEF S!Answers
<1>4. /\ tab[t].sent = deviceId /\ tab[t].as \in Account /\ deviceId \in Nat
      /\ crypto \in {0, tab[t].prior} \/ tab[t].prior = 0
  BY <1>1, <1>3, Numbered DEF PageInv
<1>5. Len(of) \in Nat /\ Rows = 1..Len(of) /\ Len(issued) \in Nat /\ Given = 1..Len(issued)
  BY <1>2, LenProperties DEF Rows, Given
<1>6. mine \in Nat /\ entry \in [account : Account, device : Nat] BY <1>4, <1>5
<1> HIDE DEF entry
<1>7. /\ issued' \in Seq([account : Account, device : Nat]) /\ Given' = Given \cup {token}
      /\ token \notin Given /\ token \in Nat \ {0} /\ Len(issued') = token
      /\ issued'[token] = entry /\ \A n \in Given : issued'[n] = issued[n]
  BY <1>2, <1>3, <1>5, <1>6, Appending DEF Given
<1>8. entry.device = mine BY DEF entry
<1>9. issued'[token].device = mine /\ \A n \in Given : issued'[n].device = S!DeviceOf(n)
  BY <1>7, <1>8 DEF S!DeviceOf
<1>10. /\ of' \in Seq(Account) /\ Rows \subseteq Rows'
       /\ S!Anew(t) => /\ Rows' = Rows \cup {next} /\ of'[next] = tab[t].as
                       /\ \A d \in Rows : of'[d] = of[d]
       /\ ~S!Anew(t) => of' = of /\ Rows' = Rows
  <2>1. CASE S!Anew(t) BY <1>2, <1>3, <1>4, <2>1, Appending DEF Rows
  <2>2. CASE ~S!Anew(t) BY <1>2, <1>3, <2>2 DEF Rows
  <2> QED BY <2>1, <2>2
<1>11. ~S!Anew(t) => deviceId \in Rows /\ mine = deviceId
  BY <1>1, <1>3, <1>4 DEF S!Known, SessionTypes
<1>12. mine \in Rows' BY <1>10, <1>11
<1>13. tab' = [tab EXCEPT ![t] = g] BY <1>3, <1>7
<1>14. g \in SessionPage /\ g.pc = "answered" /\ g.got = token /\ g.prior = tab[t].prior /\ g.mark = tab[t].mark
  <2>1. tab[t] \in SessionPage BY <1>1 DEF SessionTypes
  <2> QED BY <1>7, <2>1 DEF SessionPage
<1> HIDE DEF g, mine, token, next
<1>15. /\ tab' \in [Tab -> SessionPage] /\ tab'[t] = g /\ \A u \in Tab \ {t} : tab'[u] = tab[u]
       /\ \A u \in Tab \ {t} : PageInv(u)' /\ tab[u].pc \in {"closed", "login"}
       /\ tab[t].mark = 0 /\ signedIn = 0 /\ vault.session = 0 /\ vault.device = deviceId
  BY <1>3, <1>13, <1>14, SignerMoves DEF Signing
<1>16. \A n \in Given' : S!DeviceOf(n)' \in Rows'
  BY <1>1, <1>7, <1>9, <1>10, <1>12 DEF SessionTypes, S!DeviceOf
<1>17. SessionTypes'
  BY <1>1, <1>3, <1>7, <1>10, <1>15, <1>16 DEF SessionTypes
<1>18. PageInv(t)'
  <2>1. token \notin ended BY <1>1, <1>7 DEF SessionTypes
  <2> QED BY <1>3, <1>4, <1>7, <1>14, <1>15, <2>1 DEF PageInv
<1>19. CopiesInv' BY <1>3, <1>14, <1>15 DEF CopiesInv
<1>20. OneAccount' => Alive' \subseteq {mine}
  <2> SUFFICES ASSUME OneAccount' PROVE Alive' \subseteq {mine} OBVIOUS
  <2>1. OneAccount BY <1>10 DEF OneAccount, Rows
  <2>2. Alive \subseteq {deviceId} BY <1>1, <1>3, <1>15, <2>1 DEF AliveInv
  <2>3. CASE ~S!Anew(t) BY <1>3, <1>10, <1>11, <2>2, <2>3 DEF Alive
  <2>4. CASE S!Anew(t)
    <3>1. mine = next BY <2>4 DEF mine
    <3>2. \A d \in Rows : of[d] = tab[t].as BY <1>10, <2>4 DEF OneAccount, Rows
    <3>3. Rows = {} \/ deviceId = 0 BY <1>4, <2>4, <3>2 DEF S!Anew, S!Made, Rows
    <3>4. Alive = {} BY <2>2, <3>3, <1>5 DEF Alive
    <3> QED BY <1>3, <1>10, <2>4, <3>1, <3>4 DEF Alive
  <2> QED BY <2>3, <2>4
<1>21. AliveInv' BY <1>9, <1>14, <1>15, <1>20 DEF AliveInv, S!DeviceOf
<1> QED BY <1>15, <1>17, <1>18, <1>19, <1>21 DEF SessionInv

-----------------------------------------------------------------------------
LEMMA SessionNextKeeps ==
    ASSUME SessionInv, [S!Next]_(S!vars)
    PROVE  SessionInv'
<1>1. ASSUME NEW t \in Tab, NEW a \in Account, S!Submits(t, a) PROVE SessionInv'
  BY <1>1, SubmitsKeeps
<1>2. ASSUME NEW t \in Tab, S!Opens(t) \/ S!Closes(t) \/ S!Answers(t) \/ S!Fails(t) PROVE SessionInv'
  BY <1>2, OpensKeeps, ClosesKeeps, AnswersKeeps, FailsKeeps
<1>3. ASSUME NEW t \in Tab, S!Forgets(t) \/ S!Retries(t) \/ S!Clears(t) \/ S!Holds(t) PROVE SessionInv'
  BY <1>3, ForgetsKeeps, RetriesKeeps, ClearsKeeps, HoldsKeeps
<1>4. ASSUME NEW t \in Tab, S!Persists(t) \/ S!Uses(t) \/ S!Rechecks(t) PROVE SessionInv'
  BY <1>4, EntersKeeps, UsesKeeps, RechecksKeeps
<1>5. ASSUME NEW t \in Tab, S!Marked(t) \/ S!Unmarked(t) PROVE SessionInv'
  BY <1>5, MarkedKeeps, UnmarkedKeeps
<1>6. ASSUME NEW t \in Tab, S!SignsOut(t) \/ S!Unauthorized(t) PROVE SessionInv'
  BY <1>6, SignsOutKeeps, UnauthorizedKeeps
<1>7. ASSUME NEW d \in Rows, S!Revokes(d) PROVE SessionInv'
  BY <1>7, RevokesKeeps
<1>8. ASSUME NEW token \in honoured, S!Expires(token) PROVE SessionInv'
  BY <1>8, ExpiresKeeps
<1>9. ASSUME S!Evicts PROVE SessionInv'
  BY <1>9, EvictsKeeps
<1>10. CASE UNCHANGED S!vars
  BY <1>10 DEF S!vars, SessionInv, SessionTypes, PageInv, CopiesInv, AliveInv, OneAccount, Alive, AllClosed,
               Rows, Given, S!DeviceOf
<1> QED BY <1>1, <1>2, <1>3, <1>4, <1>5, <1>6, <1>7, <1>8, <1>9, <1>10 DEF S!Next, Rows

THEOREM SessionInvariance == S!Spec => []SessionInv
<1>1. S!Init => SessionInv BY SessionInitKeeps
<1>2. SessionInv /\ [S!Next]_(S!vars) => SessionInv' BY SessionNextKeeps
<1> QED BY <1>1, <1>2, PTL DEF S!Spec

LEMMA SameCardinality == \A X : S!Cardinality(X) = Cardinality(X)
  BY Zenon DEF S!Cardinality, Cardinality, S!IsFiniteSet, IsFiniteSet

\* A profile that made its devices for one account has seen one account.
LEMMA MadeForOne ==
    ASSUME SessionTypes, Cardinality(S!Made) = 1
    PROVE  OneAccount
<1>1. Len(of) \in Nat /\ Rows = 1..Len(of) BY LenProperties DEF SessionTypes, Rows
<1>2. IsFiniteSet(Rows) BY <1>1, FS_Interval
<1>3. \A d \in Rows : of[d] \in S!Made BY DEF S!Made, Rows
<1>4. of \in Surjection(Rows, S!Made)
  <2>1. of = [d \in Rows |-> of[d]]
    <3>1. of \in [1..Len(of) -> Account] BY LenProperties DEF SessionTypes
    <3> QED BY <1>1, <3>1
  <2>2. of \in [Rows -> S!Made] BY <1>3, <2>1
  <2> QED BY <2>2 DEF Surjection, S!Made, Rows
<1>5. IsFiniteSet(S!Made) BY <1>2, <1>4, FS_Surjection
<1>6. PICK a : S!Made = {a} BY <1>5, FS_Singleton
<1> QED BY <1>3, <1>6 DEF OneAccount

(***************************************************************************)
(* Through sign-ins that are refused, retried or given up, pages and tabs  *)
(* that close and open, an evicted storage and a keychain that brings it   *)
(* back: whoever is in uses the MLS state of its own device, and a profile *)
(* of one account never makes a second device beside one that stands       *)
(* (Login's submit, forgetOtherDevice, holdSession, restoreFromVault).     *)
(***************************************************************************)
THEOREM OwnDevice == S!Spec => []DeviceIsItself
<1>1. SessionInv => DeviceIsItself
  <2> SUFFICES ASSUME SessionInv PROVE DeviceIsItself OBVIOUS
  <2>1. SessionTypes /\ AliveInv /\ (\A t \in Tab : PageInv(t)) BY DEF SessionInv
  <2>2. \A t \in Tab : S!In(t) => crypto \in {0, S!DeviceOf(tab[t].cached)} BY <2>1 DEF PageInv, S!In
  <2>3. ASSUME Cardinality(S!Made) = 1 PROVE Cardinality(DOMAIN of \ revoked) <= 1
    <3>1. OneAccount BY <2>1, <2>3, MadeForOne
    <3>2. PICK d : DOMAIN of \ revoked \subseteq {d} BY <2>1, <3>1 DEF AliveInv, Alive, Rows
    <3>3. IsFiniteSet({d}) /\ Cardinality({d}) = 1 BY FS_Singleton
    <3> QED BY <3>2, <3>3, FS_Subset
  <2> QED BY <2>2, <2>3, SameCardinality DEF DeviceIsItself, S!DeviceIsItself
<1> QED BY <1>1, SessionInvariance, PTL

\* What a step may do to the session that is kept.
SessionTurn ==
    signedIn' # signedIn => IF signedIn' = 0 THEN signedIn \in ended' \/ S!Evicts ELSE signedIn' \notin ended

LEMMA SessionTurns ==
    ASSUME SessionInv, [S!Next]_(S!vars)
    PROVE  [SessionTurn]_(S!vars)
<1> SUFFICES ASSUME S!Next, signedIn' # signedIn PROVE SessionTurn BY DEF SessionTurn
<1>1. SessionTypes /\ CopiesInv /\ (\A u \in Tab : PageInv(u)) BY DEF SessionInv
<1>2. ASSUME NEW t \in Tab, S!Opens(t) PROVE SessionTurn
  <2>1. signedIn' = vault.session /\ UNCHANGED ended BY <1>2 DEF S!Opens
  <2>2. signedIn = 0 BY <1>2 DEF S!Opens
  <2> QED BY <1>1, <2>1, <2>2 DEF CopiesInv, SessionTurn
<1>3. ASSUME NEW t \in Tab, S!Persists(t) PROVE SessionTurn
  <2>1. signedIn' = tab[t].cached /\ tab[t].pc = "held" BY <1>3 DEF S!Persists, S!Writes
  <2> QED BY <1>1, <2>1, Numbered DEF PageInv, SessionTurn
<1>4. ASSUME NEW t \in Tab, S!Marked(t) PROVE SessionTurn BY <1>4, MarkedIsSame
<1>5. ASSUME NEW t \in Tab, S!SignsOut(t) \/ S!Unauthorized(t) PROVE SessionTurn
  <2>1. tab[t].pc = "in" /\ signedIn' = 0 /\ ended' = ended \cup {tab[t].cached}
    BY <1>5 DEF S!SignsOut, S!Unauthorized, S!ClearsSession, S!In
  <2> QED BY <1>1, <2>1 DEF PageInv, SessionTurn
<1>6. CASE S!Evicts BY <1>6 DEF S!Evicts, SessionTurn
<1>7. ASSUME NEW t \in Tab, NEW a \in Account, S!Submits(t, a) PROVE SessionTurn BY <1>7 DEF S!Submits
<1>8. ASSUME NEW t \in Tab, S!Closes(t) \/ S!Answers(t) \/ S!Fails(t) \/ S!Forgets(t) \/ S!Retries(t)
                            \/ S!Clears(t) \/ S!Holds(t) \/ S!Uses(t) \/ S!Rechecks(t) \/ S!Unmarked(t)
      PROVE  SessionTurn
  BY <1>8 DEF S!Closes, S!Answers, S!Fails, S!Forgets, S!Retries, S!Clears, S!Holds, S!Uses, S!Rechecks, S!Unmarked
<1>9. ASSUME NEW d, S!Revokes(d) \/ S!Expires(d) PROVE SessionTurn BY <1>9 DEF S!Revokes, S!Expires
<1> QED BY <1>2, <1>3, <1>4, <1>5, <1>6, <1>7, <1>8, <1>9 DEF S!Next

(***************************************************************************)
(* The keychain keeps no session that this profile let go of, so none      *)
(* comes back by a restore, whatever was evicted; and a session that is    *)
(* kept goes only with its own end or with the storage (clearSession,      *)
(* restoreFromVault).  No session ends here while a request about it is    *)
(* under way: its answer would write it back.                              *)
(***************************************************************************)
THEOREM KeychainLetsGo == S!Spec => EndsOnce /\ []S!KeychainForgets
<1>1. SessionInv /\ [S!Next]_(S!vars) => [SessionTurn]_(S!vars) BY SessionTurns
<1>2. SessionInv /\ [S!Next]_(S!vars) =>
        [signedIn' # signedIn => IF signedIn' = 0 THEN signedIn \in ended' \/ S!Evicts
                                 ELSE signedIn' \notin ended]_(S!vars)
  BY <1>1 DEF SessionTurn
<1>3. SessionInv => S!KeychainForgets BY DEF SessionInv, CopiesInv, S!KeychainForgets
<1> QED BY <1>2, <1>3, SessionInvariance, PTL DEF S!Spec, EndsOnce, S!EndsOnce
-----------------------------------------------------------------------------
(* ShellMic, for any calls, commands and bounds, as long as none of its    *)
(* Races comes about: the strengthening.                                   *)

Publishing == {"publish", "publishing", "published"}
Acting == {"locking"} \cup Publishing
Pending == {"sent"} \cup Acting
MicCmd == [pc : {"unused"} \cup Pending \cup Ended, call : Calls \cup {None}, on : BOOLEAN, seq : Nat,
           first : BOOLEAN, ours : BOOLEAN]
MicPage == [muted : BOOLEAN, wanted : BOOLEAN, ticket : Asks \cup {None}, starting : BOOLEAN, seq : Nat]

MicTypes ==
    /\ session \in Calls \cup {None}
    /\ mic \in [Calls -> BOOLEAN] /\ failed \in [Calls -> BOOLEAN] /\ dirty \in [Calls -> BOOLEAN]
    /\ asked \in [Calls -> Nat]
    /\ gate \in BOOLEAN /\ rec \in {"off", "init", "on"}
    /\ track \in [Calls -> {"none", "muted", "on"}]
    /\ cmd \in [Asks -> MicCmd]
    /\ down \in [Calls -> {"unborn", "no", "taken", "over"}]
    /\ looks \in 0..3
    /\ share \in {"none", "fresh", "on", "stopping"}
    /\ page \in MicPage
    /\ told \subseteq Asks

\* The call that is stored is the one that is not down, and only a call
\* whose microphone is published has a change to pump.
CallsInv ==
    /\ session # None => down[session] = "no"
    /\ \A k \in Calls :
        /\ down[k] = "no" => session = k
        /\ down[k] = "taken" => session = None
        /\ down[k] = "unborn" => asked[k] = 0 /\ ~mic[k] /\ track[k] = "none"
        /\ dirty[k] => mic[k]

\* What a command has read of its call is still so when it acts on it: the
\* call, whether its microphone is published, and the gate it opened.
CommandsInv ==
    /\ \A a \in Asks :
        /\ cmd[a].pc \in Acting =>
            /\ cmd[a].call \in Calls /\ down[cmd[a].call] # "unborn"
            /\ session # None => cmd[a].call = session
        /\ cmd[a].pc = "locking" => mic[cmd[a].call]
        /\ cmd[a].pc \in Publishing => ~mic[cmd[a].call]
        /\ session # None =>
            /\ cmd[a].pc \in {"publishing", "published"} => gate = cmd[a].on
            /\ cmd[a].pc = "published" => track[session] = IF cmd[a].on THEN "on" ELSE "muted"
            /\ cmd[a].pc \in Pending => cmd[a].ours
        /\ a \in told => cmd[a].pc \in Ended
    /\ session # None =>
        IF mic[session] THEN track[session] # "none"
        ELSE /\ \A a, b \in Asks : cmd[a].pc \in Pending /\ cmd[b].pc \in Pending => a = b
             /\ track[session] = "none" \/ \E a \in Asks : cmd[a].pc = "published"

\* A page numbers its commands, and the shell has no number it did not give.
NumbersInv ==
    /\ session # None => asked[session] <= page.seq
    /\ \A a \in Asks : cmd[a].ours =>
        /\ session # None /\ cmd[a].pc # "unused"
        /\ 1 <= cmd[a].seq /\ cmd[a].seq <= page.seq
        /\ IF cmd[a].pc = "sent" THEN cmd[a].seq # asked[session] ELSE cmd[a].seq <= asked[session]
        /\ \A b \in Asks : cmd[b].ours /\ cmd[b].seq = cmd[a].seq => a = b

\* The device runs behind an open gate, and the gate is open for a call
\* that is not over, which publishes or sends, or is about to hear that it
\* no longer does.
GateInv ==
    /\ rec # "off" => gate
    /\ gate => \E k \in Calls : down[k] \in {"no", "taken"}
    /\ gate /\ session # None =>
        \/ \E a \in Asks : cmd[a].pc \in {"publishing", "published"}
        \/ mic[session] /\ (track[session] = "on" \/ dirty[session])

\* The latest request is the one whose answer the page awaits; once it has
\* ended no other acts, the microphone is what it says, and when it has
\* been answered the page shows that, or will hear of what changed since.
Awaiting == page.ticket # None /\ page.ticket \notin told
Sending == mic[session] /\ gate /\ track[session] = "on"
Latest(a) == cmd[a].ours /\ cmd[a].seq = asked[session]
AnswersInv ==
    /\ page.starting =>
        /\ session # None /\ Awaiting
        /\ \A b \in Asks : cmd[b].ours => b = page.ticket \/ b \in told
    /\ session # None /\ Awaiting => cmd[page.ticket].ours /\ cmd[page.ticket].seq = page.seq
    /\ \A a \in Asks : Latest(a) /\ cmd[a].pc \in Ended =>
        /\ \A b \in Asks : cmd[b].pc \notin Acting
        /\ a \in told \/ (Sending <=> cmd[a].on /\ cmd[a].pc = "done")
    /\ session # None /\ ~page.starting /\ ~Awaiting =>
        /\ page.wanted = page.muted
        /\ asked[session] = page.seq
        /\ \A a \in Asks : cmd[a].pc \notin Acting
        /\ page.muted = ~Sending \/ (dirty[session] /\ ~Busy)

\* An open microphone that does not record has a look to come, which will
\* start it, unless the device refused.
HeardInv ==
    /\ share # "none" => session # None
    /\ share = "stopping" =>
        /\ ~failed[session]
        /\ Open => pending = session /\ looks >= 2
        /\ \A a \in Asks : cmd[a].pc \in {"publishing", "published"} => ~cmd[a].on
    /\ Open /\ rec = "off" => looks = 3 /\ share = "none"
    /\ Open /\ rec = "init" /\ ~failed[session] => pending = session /\ looks > 0

MicInv == MicTypes /\ CallsInv /\ CommandsInv /\ NumbersInv /\ GateInv /\ AnswersInv /\ HeardInv

LEMMA Goes ==
    ASSUME cmd \in [Asks -> MicCmd], NEW a \in Asks, NEW p \in {"unused"} \cup Pending \cup Ended,
           cmd' = [cmd EXCEPT ![a].pc = p]
    PROVE  /\ cmd' \in [Asks -> MicCmd] /\ \A b \in Asks : b # a => cmd'[b] = cmd[b]
           /\ cmd'[a].pc = p /\ cmd'[a].call = cmd[a].call /\ cmd'[a].on = cmd[a].on
           /\ cmd'[a].seq = cmd[a].seq /\ cmd'[a].ours = cmd[a].ours
<1>1. cmd[a] \in MicCmd OBVIOUS
<1>2. [cmd[a] EXCEPT !.pc = p] \in MicCmd BY <1>1 DEF MicCmd
<1> QED BY <1>1, <1>2 DEF MicCmd

LEMMA MicInitKeeps == ASSUME Init PROVE MicInv
<1> USE DEF Init, MicInv, device
<1>1. NoCmd \in MicCmd BY DEF NoCmd, MicCmd
<1>2. NoPage \in MicPage BY DEF NoPage, MicPage
<1>3. \A a \in Asks : cmd[a].pc = "unused" /\ ~cmd[a].ours BY DEF NoCmd
<1>4. MicTypes
  <2>1. cmd \in [Asks -> MicCmd] BY <1>1
  <2>2. page \in MicPage BY <1>2
  <2>3. /\ mic \in [Calls -> BOOLEAN] /\ failed \in [Calls -> BOOLEAN] /\ dirty \in [Calls -> BOOLEAN]
        /\ asked \in [Calls -> Nat] /\ down \in [Calls -> {"unborn", "no", "taken", "over"}]
        /\ track \in [Calls -> {"none", "muted", "on"}]
    OBVIOUS
  <2>4. session \in Calls \cup {None} /\ gate \in BOOLEAN /\ rec \in {"off", "init", "on"} OBVIOUS
  <2>7. looks \in 0..3 OBVIOUS
  <2>5. share \in {"none", "fresh", "on", "stopping"} OBVIOUS
  <2>6. told \subseteq Asks OBVIOUS
  <2> HIDE DEF Init
  <2> QED BY <2>1, <2>2, <2>3, <2>4, <2>5, <2>6, <2>7 DEF MicTypes
<1>5. CallsInv BY DEF CallsInv
<1>6. CommandsInv BY <1>3 DEF CommandsInv, Pending, Acting, Publishing
<1>7. NumbersInv /\ GateInv /\ HeardInv BY <1>3 DEF NumbersInv, GateInv, HeardInv, Open
<1>8. AnswersInv BY <1>3 DEF AnswersInv, NoPage, Latest
<1> QED BY <1>4, <1>5, <1>6, <1>7, <1>8

LEMMA TakesKeeps == ASSUME MicInv, Takes PROVE MicInv'
<1> USE DEF MicInv, Takes, device
<1>1. session \in Calls BY DEF MicTypes
<1>2. \A a \in Asks : cmd'[a] = [cmd[a] EXCEPT !.ours = FALSE] OBVIOUS
<1>3. \A a \in Asks : /\ cmd'[a] \in MicCmd /\ ~cmd'[a].ours /\ cmd'[a].pc = cmd[a].pc /\ cmd'[a].call = cmd[a].call
                      /\ cmd'[a].on = cmd[a].on
  <2> SUFFICES ASSUME NEW a \in Asks
               PROVE  /\ cmd'[a] \in MicCmd /\ ~cmd'[a].ours /\ cmd'[a].pc = cmd[a].pc /\ cmd'[a].call = cmd[a].call
                      /\ cmd'[a].on = cmd[a].on
    OBVIOUS
  <2>1. cmd[a] \in MicCmd BY DEF MicTypes
  <2> QED BY <1>2, <2>1 DEF MicCmd
<1>4. MicTypes'
  BY <1>1, <1>3, MicAssumption DEF MicTypes, MicPage, NoPage
<1>5. CallsInv' BY <1>1, MicAssumption DEF MicTypes, CallsInv
<1>6. CommandsInv' BY <1>3 DEF CommandsInv
<1>7. NumbersInv' BY <1>3 DEF NumbersInv
<1>8. GateInv' BY <1>1 DEF GateInv, MicTypes, CallsInv
<1>9. AnswersInv' BY <1>3 DEF AnswersInv, NoPage, Latest
<1>10. HeardInv' BY DEF HeardInv, Open
<1> QED BY <1>4, <1>5, <1>6, <1>7, <1>8, <1>9, <1>10

LEMMA StoreKeeps ==
    ASSUME Races = {}, MicInv, NEW k \in Calls, NEW muted \in BOOLEAN, Store(k, muted)
    PROVE  MicInv'
<1> USE DEF MicInv, device
<1>1. PICK a \in Asks : /\ Ask(a, ~muted, 1, TRUE)
                        /\ page' = [NoPage EXCEPT !.wanted = muted, !.ticket = a, !.starting = TRUE, !.seq = 1]
  BY DEF Store
<1>2. /\ session = None /\ session' = k /\ down[k] = "unborn" /\ down' = [down EXCEPT ![k] = "no"]
      /\ Idle /\ (\A j \in Calls : down[j] # "taken") /\ gate' = FALSE /\ share' = "none"
      /\ UNCHANGED <<mic, asked, failed, rec, track, looks, pending, dirty, told, used>>
  BY DEF Store
<1>3. k # None BY MicAssumption
<1>4. /\ cmd' \in [Asks -> MicCmd] /\ \A b \in Asks : b # a => cmd'[b] = cmd[b]
      /\ cmd[a].pc = "unused" /\ cmd'[a].pc = "sent" /\ cmd'[a].seq = 1 /\ cmd'[a].ours
  BY <1>1 DEF Ask, Unused, NoCmd, MicTypes, MicCmd, Pending
<1>5. /\ page' \in MicPage /\ page'.starting /\ page'.ticket = a /\ page'.seq = 1
  BY <1>1 DEF NoPage, MicPage
<1>6. \A b \in Asks : b # a => cmd'[b].pc \in Ended \cup {"unused"} BY <1>2, <1>4 DEF Idle
<1>7. a \notin told BY <1>4 DEF CommandsInv, Ended
<1>8. \A j \in Calls : j # k => down'[j] \notin {"no", "taken"} BY <1>2, MicAssumption DEF MicTypes, CallsInv
<1>9. ~gate /\ rec = "off"
  BY <1>2, MicAssumption DEF GateInv, CallsInv, MicTypes
<1>10. MicTypes' BY <1>2, <1>4, <1>5, <1>9 DEF MicTypes
<1>11. CallsInv' BY <1>2, <1>3, <1>8 DEF CallsInv, MicTypes
<1>12. CommandsInv' BY <1>2, <1>3, <1>4, <1>6, <1>7 DEF CommandsInv, CallsInv, Pending, Acting, Publishing, Ended
<1>13. NumbersInv'
  <2>1. asked'[k] = 0 BY <1>2 DEF CallsInv
  <2>2. \A b \in Asks : cmd'[b].ours => b = a BY <1>2, <1>4 DEF NumbersInv
  <2> QED BY <1>2, <1>3, <1>4, <1>5, <2>1, <2>2 DEF NumbersInv
<1>14. GateInv' BY <1>2, <1>9 DEF GateInv
<1>15. AnswersInv'
  <2>1. \A b \in Asks : cmd'[b].ours => b = a BY <1>2, <1>4 DEF NumbersInv
  <2> QED BY <1>2, <1>3, <1>4, <1>5, <1>7, <2>1, MicAssumption DEF AnswersInv, Awaiting, Latest, Ended
<1>16. HeardInv' BY <1>2 DEF HeardInv, Open
<1> QED BY <1>10, <1>11, <1>12, <1>13, <1>14, <1>15, <1>16

\* A command that asks, and the page that awaits its answer.
LEMMA AskKeeps ==
    ASSUME MicInv, session # None, NEW a \in Asks, NEW on \in BOOLEAN, NEW page1 \in MicPage,
           Ask(a, on, page.seq + 1, FALSE), mic[session] \/ \A b \in Asks : cmd[b].ours => b \in told',
           page' = page1, page1.ticket = a, page1.seq = page.seq + 1,
           told \subseteq told', told' \subseteq Asks, \A b \in told' : cmd[b].pc \in Ended,
           page1.starting => page.starting /\ told' = told \cup {page.ticket},
           UNCHANGED <<session, mic, asked, failed, device, track, down, looks, share, pending, dirty>>
    PROVE  MicInv'
<1> USE DEF MicInv, device
<1>2. page.seq \in Nat /\ page.seq + 1 \in Nat /\ session \in Calls BY DEF MicTypes, MicPage
<1>1. /\ cmd' \in [Asks -> MicCmd] /\ \A b \in Asks : b # a => cmd'[b] = cmd[b]
      /\ cmd[a].pc = "unused" /\ cmd'[a].pc = "sent" /\ cmd'[a].seq = page.seq + 1 /\ cmd'[a].ours
  BY <1>2 DEF Ask, Unused, NoCmd, MicTypes, MicCmd, Pending
<1>3. a \notin told' /\ ~cmd[a].ours BY <1>1 DEF Ended, NumbersInv
<1>4. MicTypes' BY <1>1 DEF MicTypes
<1>5. CallsInv' BY DEF CallsInv
<1>6. CommandsInv'
  <2>1. \A b \in Asks : b # a /\ ~mic[session] => cmd[b].pc \notin Pending
    BY DEF CommandsInv, Ended, Pending, Acting, Publishing
  <2> QED BY <1>1, <1>2, <1>3, <2>1 DEF CommandsInv, Pending, Acting, Publishing
<1>7. NumbersInv'
  <2>1. asked[session] \in Nat BY <1>2 DEF MicTypes
  <2>2. \A b \in Asks : cmd[b].seq \in Nat BY DEF MicTypes, MicCmd
  <2> QED BY <1>1, <1>2, <1>3, <2>1, <2>2 DEF NumbersInv
<1>8. GateInv' BY <1>1 DEF GateInv
<1>9. AnswersInv'
  <2>1. page'.starting => \A b \in Asks : cmd'[b].ours => b = a \/ b \in told' BY <1>1 DEF AnswersInv
  <2>2. \A b \in Asks : Latest(b)' /\ cmd'[b].pc \in Ended => Latest(b) /\ cmd[b].pc \in Ended /\ b # a
    BY <1>1 DEF Latest, Ended
  <2> QED BY <1>1, <1>2, <1>3, <2>1, <2>2, MicAssumption
          DEF AnswersInv, Awaiting, Sending, Acting, Publishing
<1>10. HeardInv' BY <1>1 DEF HeardInv, Open
<1> QED BY <1>4, <1>5, <1>6, <1>7, <1>8, <1>9, <1>10

LEMMA PressKeeps == ASSUME Races = {}, MicInv, Press PROVE MicInv'
<1> USE DEF MicInv
<1>1. page \in MicPage /\ UNCHANGED told /\ session # None BY DEF MicTypes, Press
<1>2. CASE page.starting
  <2>1. /\ page' = [page EXCEPT !.wanted = ~@, !.muted = ~page.wanted]
        /\ UNCHANGED <<session, mic, asked, failed, device, track, cmd, down, looks, share, pending, dirty, told, used>>
    BY <1>2 DEF Press
  <2>2. page' \in MicPage /\ page'.starting /\ UNCHANGED <<page.ticket, page.seq>>
    BY <1>1, <1>2, <2>1 DEF MicPage
  <2>3. MicTypes' BY <2>1, <2>2 DEF MicTypes, device
  <2> QED BY <1>2, <2>1, <2>2, <2>3
          DEF CallsInv, CommandsInv, NumbersInv, GateInv, AnswersInv, Awaiting, Sending, Latest, HeardInv, Open, device
<1>3. CASE ~page.starting
  <2>1. PICK a \in Asks : /\ Ask(a, page.wanted, page.seq + 1, FALSE)
                          /\ page' = [page EXCEPT !.wanted = ~@, !.ticket = a, !.seq = @ + 1]
    BY <1>3 DEF Press
  <2>2. page' \in MicPage /\ page'.ticket = a /\ page'.seq = page.seq + 1 /\ ~page'.starting
    <3>1. page.seq + 1 \in Nat /\ (~page.wanted) \in BOOLEAN BY <1>1 DEF MicPage
    <3>2. page' = [muted |-> page.muted, wanted |-> ~page.wanted, ticket |-> a, starting |-> page.starting,
                   seq |-> page.seq + 1]
      BY <1>1, <2>1 DEF MicPage
    <3> QED BY <1>1, <1>3, <3>1, <3>2 DEF MicPage
  <2>3. mic[session] \/ \A b \in Asks : cmd[b].ours => b \in told BY <1>3 DEF Press, Busy, NumbersInv
  <2> QED
    <3>1. page.wanted \in BOOLEAN BY <1>1 DEF MicPage
    <3>2. told \subseteq Asks /\ \A b \in told : cmd[b].pc \in Ended BY DEF MicTypes, CommandsInv
    <3>3. UNCHANGED <<session, mic, asked, failed, device, track, down, looks, share, pending, dirty, told>>
      BY DEF Press
    <3> HIDE DEF MicInv
    <3> QED BY <1>1, <2>1, <2>2, <2>3, <3>1, <3>2, <3>3, AskKeeps
<1> QED BY <1>2, <1>3

LEMMA JoinAnsweredKeeps == ASSUME Races = {}, MicInv, NEW a \in Asks, JoinAnswered(a) PROVE MicInv'
<1> USE DEF MicInv
<1>1. page \in MicPage /\ page.starting /\ page.ticket = a /\ cmd[a].pc \in Ended /\ a \notin told
      /\ told' = told \cup {a} /\ told' \subseteq Asks /\ a # None
  BY MicAssumption DEF MicTypes, JoinAnswered
<1>2. UNCHANGED <<session, mic, asked, failed, device, track, down, looks, share, pending, dirty>>
  BY DEF JoinAnswered
<1>3. /\ session # None /\ cmd[a].ours /\ cmd[a].seq = page.seq /\ asked[session] = page.seq
      /\ \A b \in Asks : cmd[b].ours => b \in told'
      /\ \A b \in told' : cmd[b].pc \in Ended
      /\ session \in Calls /\ asked[session] \in Nat /\ page.seq \in Nat
  <2>1. session # None /\ cmd[a].ours /\ cmd[a].seq = page.seq BY <1>1 DEF AnswersInv, Awaiting
  <2>2. session \in Calls /\ asked[session] \in Nat /\ page.seq \in Nat BY <2>1 DEF MicTypes, MicPage
  <2>3. page.seq <= asked[session] /\ asked[session] <= page.seq BY <1>1, <2>1 DEF NumbersInv, Ended
  <2> QED BY <1>1, <2>1, <2>2, <2>3 DEF AnswersInv, CommandsInv, MicTypes
<1>4. /\ \A b \in Asks : cmd[b].pc \notin Acting
      /\ Sending <=> cmd[a].on /\ cmd[a].pc = "done"
  BY <1>1, <1>3 DEF AnswersInv, Latest
<1>5. ASSUME UNCHANGED cmd, NEW g \in MicPage, page' = g, ~g.starting, g.ticket = a, g.seq = page.seq, g.wanted = g.muted,
             g.muted = ~Sending
      PROVE  MicInv'
  <2> USE DEF device
  <2>1. MicTypes' BY <1>1, <1>2, <1>5 DEF MicTypes
  <2>2. CallsInv' /\ GateInv' /\ NumbersInv' BY <1>2, <1>5 DEF CallsInv, GateInv, NumbersInv
  <2>3. CommandsInv' BY <1>1, <1>2, <1>3, <1>5 DEF CommandsInv
  <2>4. AnswersInv' BY <1>1, <1>2, <1>3, <1>4, <1>5 DEF AnswersInv, Awaiting, Latest, Sending
  <2>5. HeardInv' BY <1>2, <1>5 DEF HeardInv, Open
  <2> QED BY <2>1, <2>2, <2>3, <2>4, <2>5
<1>6. CASE cmd[a].pc = "failed"
  <2>1. UNCHANGED cmd /\ page' = [page EXCEPT !.starting = FALSE, !.wanted = TRUE, !.muted = TRUE]
    BY <1>6 DEF JoinAnswered
  <2>2. page' = [muted |-> TRUE, wanted |-> TRUE, ticket |-> page.ticket, starting |-> FALSE, seq |-> page.seq]
    BY <1>1, <2>1 DEF MicPage
  <2>3. page' \in MicPage BY <1>1, <2>2 DEF MicPage
  <2> QED BY <1>1, <1>4, <1>5, <1>6, <2>1, <2>2, <2>3
<1>7. CASE cmd[a].pc = "done" /\ cmd[a].on # page.wanted
  <2>1. UNCHANGED cmd /\ page' = [page EXCEPT !.starting = FALSE, !.muted = page.wanted]
    BY <1>7 DEF JoinAnswered
  <2>2. page' = [muted |-> page.wanted, wanted |-> page.wanted, ticket |-> page.ticket, starting |-> FALSE,
                 seq |-> page.seq]
    BY <1>1, <2>1 DEF MicPage
  <2>3. page' \in MicPage /\ page.wanted \in BOOLEAN BY <1>1, <2>2 DEF MicPage
  <2>4. cmd[a].on \in BOOLEAN BY DEF MicTypes, MicCmd
  <2> QED BY <1>1, <1>4, <1>5, <1>7, <2>1, <2>2, <2>3, <2>4 DEF Sending
<1>8. CASE cmd[a].pc = "done" /\ cmd[a].on = page.wanted
  <2>1. PICK b \in Asks : /\ Ask(b, ~page.wanted, page.seq + 1, FALSE)
                          /\ page' = [page EXCEPT !.ticket = b, !.seq = @ + 1]
    BY <1>8 DEF JoinAnswered
  <2>2. page' = [muted |-> page.muted, wanted |-> page.wanted, ticket |-> b, starting |-> page.starting,
                 seq |-> page.seq + 1]
    BY <1>1, <2>1 DEF MicPage
  <2>3. page' \in MicPage /\ (~page.wanted) \in BOOLEAN BY <1>1, <2>2 DEF MicPage
  <2>4. page'.ticket = b /\ page'.seq = page.seq + 1 /\ (page'.starting => page.starting) BY <2>2
  <2> HIDE DEF MicInv
  <2> QED BY <1>1, <1>2, <1>3, <2>1, <2>3, <2>4, AskKeeps
<1> QED BY <1>1, <1>6, <1>7, <1>8 DEF Ended

LEMMA AnsweredKeeps == ASSUME Races = {}, MicInv, NEW a \in Asks, Answered(a) PROVE MicInv'
<1> USE DEF MicInv
<1>1. /\ page \in MicPage /\ ~page.starting /\ cmd[a].ours /\ cmd[a].pc \in Ended /\ a \notin told
      /\ told' = told \cup {a} /\ told' \subseteq Asks /\ a # None /\ session # None
  BY MicAssumption DEF MicTypes, Answered, NumbersInv
<1>2. UNCHANGED <<session, mic, asked, failed, device, track, cmd, down, looks, share, pending, dirty>>
  BY DEF Answered
<1>3. /\ page' \in MicPage /\ page'.seq = page.seq /\ ~page'.starting
      /\ page.ticket # a => page' = page
      /\ page.ticket = a =>
           page'.ticket = None /\ page'.wanted = page'.muted /\ page'.muted = ~(cmd[a].on /\ cmd[a].pc = "done")
  <2>1. CASE page.ticket # a BY <1>1, <2>1 DEF Answered
  <2>2. CASE page.ticket = a
    <3> DEFINE muted == ~cmd[a].on \/ cmd[a].pc = "failed"
    <3>1. muted = ~(cmd[a].on /\ cmd[a].pc = "done")
      <4>1. cmd[a].on \in BOOLEAN BY DEF MicTypes, MicCmd
      <4> QED BY <1>1, <4>1 DEF Ended
    <3>2. page' = [page EXCEPT !.muted = muted, !.wanted = muted, !.ticket = None] BY <2>2 DEF Answered
    <3>3. muted \in BOOLEAN OBVIOUS
    <3> HIDE DEF muted
    <3>4. page' = [muted |-> muted, wanted |-> muted, ticket |-> None, starting |-> page.starting, seq |-> page.seq]
      BY <1>1, <3>2 DEF MicPage
    <3>5. page' \in MicPage BY <1>1, <3>3, <3>4 DEF MicPage
    <3> QED BY <1>1, <2>2, <3>1, <3>4, <3>5
  <2> QED BY <2>1, <2>2
<1>4. MicTypes' BY <1>1, <1>2, <1>3 DEF MicTypes, device
<1>5. CallsInv' /\ GateInv' /\ NumbersInv' BY <1>2, <1>3 DEF CallsInv, GateInv, NumbersInv, device
<1>6. CommandsInv' BY <1>1, <1>2 DEF CommandsInv, device
<1>7. HeardInv' BY <1>2 DEF HeardInv, Open, device
<1>8. AnswersInv'
  <2> USE DEF device
  <2>1. Busy' => Busy BY <1>1, <1>2 DEF Busy
  <2>2. CASE page.ticket # a
    BY <1>1, <1>2, <1>3, <2>1, <2>2 DEF AnswersInv, Awaiting, Latest, Sending
  <2>3. CASE page.ticket = a
    <3>1. cmd[a].seq = page.seq /\ asked[session] = page.seq
      <4>1. session \in Calls /\ asked[session] \in Nat /\ page.seq \in Nat BY <1>1 DEF MicTypes, MicPage
      <4>2. cmd[a].seq = page.seq BY <1>1, <2>3 DEF AnswersInv, Awaiting
      <4> QED BY <1>1, <4>1, <4>2 DEF NumbersInv, Ended
    <3>2. /\ \A b \in Asks : cmd[b].pc \notin Acting
          /\ Sending <=> cmd[a].on /\ cmd[a].pc = "done"
      BY <1>1, <3>1 DEF AnswersInv, Latest
    <3> QED BY <1>1, <1>2, <1>3, <2>3, <3>1, <3>2 DEF AnswersInv, Awaiting, Latest, Sending
  <2> QED BY <2>2, <2>3
<1> QED BY <1>4, <1>5, <1>6, <1>7, <1>8

LEMMA BeginsKeeps == ASSUME Races = {}, MicInv, NEW a \in Asks, Begins(a) PROVE MicInv'
<1> USE DEF MicInv, device
<1>1. cmd[a].pc = "sent" /\ cmd[a] \in MicCmd /\ cmd \in [Asks -> MicCmd] /\ a \notin told
      /\ UNCHANGED <<session, mic, failed, device, track, down, looks, share, pending, dirty, page, told>>
  BY DEF Begins, MicTypes, CommandsInv, Ended
<1>2. CASE session = None
  <2>1. cmd' = [cmd EXCEPT ![a].pc = "failed"] /\ UNCHANGED asked BY <1>2 DEF Begins
  <2>2. /\ cmd' \in [Asks -> MicCmd] /\ \A b \in Asks : b # a => cmd'[b] = cmd[b]
        /\ cmd'[a].pc = "failed" /\ cmd'[a].ours = cmd[a].ours
    BY <1>1, <2>1, Goes DEF Ended
  <2>3. MicTypes' BY <1>1, <2>1, <2>2 DEF MicTypes
  <2>4. CallsInv' /\ GateInv' BY <1>1, <1>2, <2>1, <2>2 DEF CallsInv, GateInv
  <2>5. CommandsInv' BY <1>1, <1>2, <2>1, <2>2 DEF CommandsInv, Acting, Publishing
  <2>6. NumbersInv' /\ AnswersInv' BY <1>1, <1>2, <2>1, <2>2 DEF NumbersInv, AnswersInv, Latest
  <2>7. HeardInv' BY <1>1, <1>2, <2>1, <2>2 DEF HeardInv, Open
  <2> QED BY <2>3, <2>4, <2>5, <2>6, <2>7
<1>3. ASSUME session # None PROVE /\ session \in Calls /\ asked[session] \in Nat /\ cmd[a].seq \in Nat /\ page.seq \in Nat
                                  /\ cmd[a].ours
                                  /\ 1 <= cmd[a].seq /\ cmd[a].seq <= page.seq /\ cmd[a].seq # asked[session]
  BY <1>1, <1>3 DEF MicTypes, MicCmd, MicPage, CommandsInv, NumbersInv, Pending
<1>4. CASE session # None /\ cmd[a].seq <= asked[session]
  <2>1. cmd' = [cmd EXCEPT ![a].pc = "done"] /\ UNCHANGED asked BY <1>4 DEF Begins
  <2>2. /\ cmd' \in [Asks -> MicCmd] /\ \A b \in Asks : b # a => cmd'[b] = cmd[b]
        /\ cmd'[a].pc = "done" /\ cmd'[a].ours = cmd[a].ours /\ cmd'[a].seq = cmd[a].seq
    BY <1>1, <2>1, Goes DEF Ended
  <2>3. MicTypes' BY <1>1, <2>1, <2>2 DEF MicTypes
  <2>4. CallsInv' /\ GateInv' BY <1>1, <2>1, <2>2 DEF CallsInv, GateInv
  <2>5. CommandsInv' BY <1>1, <2>1, <2>2 DEF CommandsInv, Acting, Publishing, Pending
  <2>6. NumbersInv' BY <1>1, <1>3, <1>4, <2>1, <2>2 DEF NumbersInv
  <2>7. AnswersInv'
    <3>1. \A b \in Asks : cmd'[b].pc \in Acting => cmd[b].pc \in Acting BY <2>2 DEF Acting, Publishing
    <3>2. \A b \in Asks : Latest(b)' /\ cmd'[b].pc \in Ended => Latest(b) /\ cmd'[b] = cmd[b]
      BY <1>1, <1>3, <1>4, <2>1, <2>2 DEF Latest
    <3>3. Busy' => Busy BY <1>1, <2>2 DEF Busy
    <3>4. \A b \in Asks : cmd'[b].ours = cmd[b].ours /\ cmd'[b].seq = cmd[b].seq BY <2>2
    <3>5. (Awaiting <=> Awaiting') /\ (Sending <=> Sending') BY <1>1 DEF Awaiting, Sending
    <3>6. Awaiting => page.ticket \in Asks BY DEF Awaiting, MicTypes, MicPage
    <3>7. UNCHANGED <<session, page, told, asked, dirty, mic, gate, track>> BY <1>1, <2>1
    <3>8. session # None /\ Awaiting => cmd[page.ticket].ours /\ cmd[page.ticket].seq = page.seq BY DEF AnswersInv
    <3>9. \A b \in Asks : Latest(b) /\ cmd[b].pc \in Ended =>
            /\ \A c \in Asks : cmd[c].pc \notin Acting
            /\ b \in told \/ (Sending <=> cmd[b].on /\ cmd[b].pc = "done")
      BY DEF AnswersInv
    <3>10. \A b \in Asks : Latest(b)' /\ cmd'[b].pc \in Ended =>
            /\ \A c \in Asks : cmd'[c].pc \notin Acting
            /\ b \in told' \/ (Sending' <=> cmd'[b].on /\ cmd'[b].pc = "done")
      BY <3>1, <3>2, <3>5, <3>7, <3>9
    <3>11. session' # None /\ Awaiting' => cmd'[page'.ticket].ours /\ cmd'[page'.ticket].seq = page'.seq
      BY <3>4, <3>5, <3>6, <3>7, <3>8
    <3> QED BY <3>1, <3>3, <3>4, <3>5, <3>7, <3>10, <3>11 DEF AnswersInv
  <2>8. HeardInv' BY <1>1, <2>1, <2>2 DEF HeardInv, Open
  <2> QED BY <2>3, <2>4, <2>5, <2>6, <2>7, <2>8
<1>5. CASE session # None /\ ~(cmd[a].seq <= asked[session])
  <2>1. /\ cmd' = [cmd EXCEPT ![a].call = session, ![a].pc = Branch(a)]
        /\ asked' = [asked EXCEPT ![session] = cmd[a].seq]
    BY <1>5 DEF Begins
  <2>2. Branch(a) \in {"locking", "publish", "done"} /\ (mic[session] <=> Branch(a) = "locking")
        /\ (Branch(a) = "done" => ~cmd[a].on)
    BY DEF Branch
  <2>3. /\ cmd' \in [Asks -> MicCmd] /\ \A b \in Asks : b # a => cmd'[b] = cmd[b]
        /\ cmd'[a].pc = Branch(a) /\ cmd'[a].ours = cmd[a].ours /\ cmd'[a].seq = cmd[a].seq
        /\ cmd'[a].call = session /\ cmd'[a].on = cmd[a].on
    <3>1. cmd' = [cmd EXCEPT ![a] = [cmd[a] EXCEPT !.call = session, !.pc = Branch(a)]] BY <1>1, <2>1
    <3>2. [cmd[a] EXCEPT !.call = session, !.pc = Branch(a)] \in MicCmd
      BY <1>1, <1>3, <1>5, <2>2 DEF MicCmd, Acting, Publishing, Pending, Ended
    <3> QED BY <1>1, <3>1, <3>2 DEF MicCmd
  <2>4. asked' \in [Calls -> Nat] /\ asked'[session] = cmd[a].seq /\ \A k \in Calls : k # session => asked'[k] = asked[k]
    BY <1>3, <1>5, <2>1 DEF MicTypes
  <2>5. MicTypes' BY <1>1, <2>3, <2>4 DEF MicTypes
  <2>6. CallsInv' BY <1>1, <1>5, <2>4 DEF CallsInv
  <2>7. GateInv' BY <1>1, <2>2, <2>3 DEF GateInv
  <2>8. CommandsInv'
    <3>1. down[session] # "unborn" BY <1>5 DEF CallsInv
    <3>2. \A b \in Asks : cmd[b].pc = "published" => cmd'[b].pc = "published" BY <1>1, <2>3
    <3>3. \A b \in told : b # a BY <1>1
    <3> QED BY <1>1, <1>3, <1>5, <2>2, <2>3, <3>1, <3>2, <3>3 DEF CommandsInv, Acting, Publishing, Pending
  <2>9. NumbersInv'
    <3>1. \A b \in Asks : cmd[b].seq \in Nat BY <1>1 DEF MicCmd
    <3> QED BY <1>1, <1>3, <1>5, <2>2, <2>3, <2>4, <3>1 DEF NumbersInv
  <2>10. AnswersInv'
    <3>1. Awaiting \/ page.starting
      BY <1>3, <1>5 DEF AnswersInv
    <3>2. \A b \in Asks : Latest(b)' => b = a
      BY <1>1, <1>3, <1>5, <2>3, <2>4 DEF Latest, NumbersInv
    <3>3. Branch(a) = "done" => /\ ~mic[session]
                                /\ \A b \in Asks : cmd'[b].pc \notin Acting
      BY <1>1, <1>3, <1>5, <2>2, <2>3 DEF CommandsInv, Acting, Publishing, Pending
    <3>4. \A b \in Asks : cmd'[b].ours = cmd[b].ours /\ cmd'[b].seq = cmd[b].seq BY <2>3
    <3>5. (Awaiting <=> Awaiting') /\ (Sending <=> Sending') BY <1>1 DEF Awaiting, Sending
    <3>6. Awaiting => page.ticket \in Asks BY DEF Awaiting, MicTypes, MicPage
    <3> QED BY <1>1, <1>5, <2>2, <2>3, <3>1, <3>2, <3>3, <3>4, <3>5, <3>6 DEF AnswersInv, Sending, Ended
  <2>11. HeardInv' BY <1>1, <2>2, <2>3 DEF HeardInv, Open
  <2> QED BY <2>5, <2>6, <2>7, <2>8, <2>9, <2>10, <2>11
<1> QED BY <1>2, <1>4, <1>5

\* A command that is carried out: those that wait number no less, so none
\* is left to act when it is the latest.
LEMMA UnmutesKeeps == ASSUME Races = {}, MicInv, NEW a \in Asks, Unmutes(a) PROVE MicInv'
<1> DEFINE k == cmd[a].call
<1> USE DEF MicInv, device
<1>1. /\ cmd[a].pc = "locking" /\ cmd[a].on /\ gate' = TRUE /\ track' = [track EXCEPT ![k] = "on"]
      /\ Starts(k, TRUE) /\ cmd' = [cmd EXCEPT ![a].pc = "done"] /\ dirty' = [dirty EXCEPT ![k] = TRUE]
      /\ IF rec' = "init" THEN Recheck(k) ELSE UNCHANGED looks
      /\ UNCHANGED <<session, mic, asked, down, share, pending, page, told>>
      /\ down[k] \in {"no", "taken"} /\ InTurn(a) /\ share # "stopping"
  BY DEF Unmutes, Undisturbed
<1> HIDE DEF k
<1>2. k \in Calls /\ mic[k] /\ (session # None => session = k) /\ cmd \in [Asks -> MicCmd]
  BY <1>1 DEF CommandsInv, Acting, MicTypes, k
<1>3. /\ cmd' \in [Asks -> MicCmd] /\ \A b \in Asks : b # a => cmd'[b] = cmd[b]
      /\ cmd'[a].pc = "done" /\ cmd'[a].ours = cmd[a].ours /\ cmd'[a].seq = cmd[a].seq /\ cmd'[a].on
  BY <1>1, <1>2, Goes DEF Ended
<1>4. /\ failed' \in [Calls -> BOOLEAN] /\ rec' \in {"on", "init"} /\ (rec' = "init" /\ session = k => failed'[k])
      /\ track' \in [Calls -> {"none", "muted", "on"}] /\ track'[k] = "on"
      /\ dirty' \in [Calls -> BOOLEAN] /\ dirty'[k] /\ \A j \in Calls : dirty'[j] => dirty[j] \/ j = k
      /\ looks' \in 0..3
  <2>1. failed' \in [Calls -> BOOLEAN] /\ rec' \in {"on", "init"} /\ (rec' = "init" /\ session = k => failed'[k])
    <3>1. failed \in [Calls -> BOOLEAN] BY DEF MicTypes
    <3>2. CASE rec' = "on" /\ failed' = [failed EXCEPT ![k] = FALSE] BY <1>2, <3>1, <3>2
    <3>3. CASE rec' = "init" /\ failed' = [failed EXCEPT ![k] = (session = k)]
      BY <1>2, <3>1, <3>3
    <3> QED BY <1>1, <3>2, <3>3 DEF Starts
  <2>2. /\ track' \in [Calls -> {"none", "muted", "on"}] /\ track'[k] = "on"
        /\ dirty' \in [Calls -> BOOLEAN] /\ dirty'[k] /\ \A j \in Calls : dirty'[j] => dirty[j] \/ j = k
    BY <1>1, <1>2 DEF MicTypes
  <2>3. looks' \in 0..3 BY <1>1 DEF MicTypes, Recheck
  <2> QED BY <2>1, <2>2, <2>3
<1>5. MicTypes'
  <2>1. gate' \in BOOLEAN BY <1>1
  <2> QED BY <1>1, <1>2, <1>3, <1>4, <2>1 DEF MicTypes
<1>6. CallsInv' BY <1>1, <1>2, <1>4 DEF CallsInv
<1>7. CommandsInv'
  <2>1. \A b \in Asks : cmd'[b].pc \in Pending => cmd'[b] = cmd[b] /\ b # a BY <1>3 DEF Pending, Acting, Publishing
  <2>2. session # None => \A b \in Asks : cmd[b].pc \notin Publishing BY <1>2 DEF CommandsInv, Acting
  <2>3. session # None => mic'[session] /\ track'[session] # "none" BY <1>1, <1>2, <1>4
  <2>4. \A b \in told : b \in Asks => cmd'[b].pc \in Ended BY <1>3 DEF CommandsInv, Ended
  <2>5. \A b \in Asks : cmd'[b].pc \notin Publishing \/ session = None BY <2>1, <2>2 DEF Pending, Acting
  <2> HIDE DEF device
  <2>6. \A b \in Asks : cmd'[b].pc \in Acting =>
          /\ cmd'[b].call \in Calls /\ down'[cmd'[b].call] # "unborn"
          /\ session' # None => cmd'[b].call = session'
    BY <1>1, <2>1 DEF CommandsInv, Pending
  <2>7. \A b \in Asks : cmd'[b].pc = "locking" => mic'[cmd'[b].call] BY <1>1, <2>1 DEF CommandsInv, Pending, Acting
  <2>8. \A b \in Asks : cmd'[b].pc \in Publishing => ~mic'[cmd'[b].call]
    BY <1>1, <2>1 DEF CommandsInv, Pending, Acting
  <2>9. session' # None => \A b \in Asks : cmd'[b].pc \notin {"publishing", "published"}
    BY <1>1, <2>5 DEF Publishing
  <2>10. session' # None => \A b \in Asks : cmd'[b].pc \in Pending => cmd'[b].ours BY <1>1, <2>1 DEF CommandsInv
  <2>11. \A b \in Asks : b \in told' => cmd'[b].pc \in Ended BY <1>1, <2>4
  <2>12. session' # None => mic'[session'] /\ track'[session'] # "none" BY <1>1, <2>3
  <2> QED BY <2>6, <2>7, <2>8, <2>9, <2>10, <2>11, <2>12 DEF CommandsInv
<1>8. NumbersInv' BY <1>1, <1>3 DEF NumbersInv
<1>9. GateInv' BY <1>1, <1>2, <1>4 DEF GateInv
<1>10. AnswersInv'
  <2>1. session # None => cmd[a].ours /\ a \notin told BY <1>1 DEF CommandsInv, Pending, Acting, Ended
  <2>2. session # None => page.starting \/ Awaiting BY <1>1 DEF AnswersInv, Acting
  <2>3. Latest(a)' => /\ \A b \in Asks : cmd'[b].pc \notin Acting
                      /\ Sending'
    <3> SUFFICES ASSUME Latest(a)' PROVE (\A b \in Asks : cmd'[b].pc \notin Acting) /\ Sending' OBVIOUS
    <3>1. session = k /\ Latest(a) /\ k # None BY <1>1, <1>2, <1>3 DEF Latest, NumbersInv
    <3>2. \A b \in Asks : cmd[b].seq \in Nat BY <1>2 DEF MicCmd
    <3>3. asked[session] \in Nat BY <3>1, <1>2 DEF MicTypes
    <3>4. ASSUME NEW b \in Asks, cmd[b].pc = "locking" PROVE b = a
      <4>1. cmd[b].ours /\ cmd[b].seq <= asked[session] /\ cmd[b].seq >= cmd[a].seq
        BY <1>1, <3>1, <3>4 DEF CommandsInv, NumbersInv, Pending, Acting, InTurn
      <4> QED BY <3>1, <3>2, <3>3, <4>1 DEF Latest, NumbersInv
    <3>5. \A b \in Asks : cmd[b].pc \notin Publishing BY <1>2, <3>1 DEF CommandsInv, Acting
    <3> QED BY <1>1, <1>2, <1>3, <1>4, <3>1, <3>4, <3>5 DEF Sending, Acting, Publishing
  <2>4. \A b \in Asks : Latest(b)' /\ cmd'[b].pc \in Ended => b = a
    <3> SUFFICES ASSUME NEW b \in Asks, Latest(b)', cmd'[b].pc \in Ended, b # a PROVE FALSE OBVIOUS
    <3>1. Latest(b) /\ cmd[b].pc \in Ended BY <1>1, <1>3 DEF Latest
    <3> QED BY <1>1, <3>1 DEF AnswersInv, Acting
  <2>5. \A b \in Asks : cmd'[b].ours = cmd[b].ours /\ cmd'[b].seq = cmd[b].seq BY <1>3
  <2>6. Awaiting => page.ticket \in Asks BY DEF Awaiting, MicTypes, MicPage
  <2> QED BY <1>1, <1>3, <2>1, <2>2, <2>3, <2>4, <2>5, <2>6 DEF AnswersInv, Awaiting
<1>11. HeardInv'
  <2>1. share' # "stopping" BY <1>1
  <2> QED BY <1>1, <1>2, <1>4, <2>1 DEF HeardInv, Open
<1> QED BY <1>5, <1>6, <1>7, <1>8, <1>9, <1>10, <1>11

LEMMA MutesKeeps == ASSUME Races = {}, MicInv, NEW a \in Asks, Mutes(a) PROVE MicInv'
<1> DEFINE k == cmd[a].call
<1> USE DEF MicInv, device
<1>1. /\ cmd[a].pc = "locking" /\ ~cmd[a].on /\ gate' = FALSE /\ rec' = Stopped
      /\ track' = [track EXCEPT ![k] = "muted"]
      /\ failed' = [failed EXCEPT ![k] = FALSE]
      /\ cmd' = [cmd EXCEPT ![a].pc = "done"] /\ dirty' = [dirty EXCEPT ![k] = TRUE]
      /\ UNCHANGED <<session, mic, asked, down, looks, share, pending, page, told>>
      /\ InTurn(a)
  BY DEF Mutes, Undisturbed
<1> HIDE DEF k
<1>2. k \in Calls /\ mic[k] /\ (session # None => session = k) /\ cmd \in [Asks -> MicCmd]
  BY <1>1 DEF CommandsInv, Acting, MicTypes, k
<1>3. /\ cmd' \in [Asks -> MicCmd] /\ \A b \in Asks : b # a => cmd'[b] = cmd[b]
      /\ cmd'[a].pc = "done" /\ cmd'[a].ours = cmd[a].ours /\ cmd'[a].seq = cmd[a].seq /\ ~cmd'[a].on
  BY <1>1, <1>2, Goes DEF Ended
<1>4. /\ failed' \in [Calls -> BOOLEAN] /\ ~failed'[k] /\ rec' = "off"
      /\ track' \in [Calls -> {"none", "muted", "on"}] /\ track'[k] = "muted"
      /\ dirty' \in [Calls -> BOOLEAN] /\ dirty'[k] /\ \A j \in Calls : dirty'[j] => dirty[j] \/ j = k
  BY <1>1, <1>2 DEF MicTypes, Stopped, GateInv
<1>5. MicTypes'
  <2>1. gate' \in BOOLEAN BY <1>1
  <2> QED BY <1>1, <1>2, <1>3, <1>4, <2>1 DEF MicTypes
<1>6. CallsInv' BY <1>1, <1>2, <1>4 DEF CallsInv
<1>7. CommandsInv'
  <2>1. \A b \in Asks : cmd'[b].pc \in Pending => cmd'[b] = cmd[b] /\ b # a BY <1>3 DEF Pending, Acting, Publishing
  <2>2. session # None => \A b \in Asks : cmd[b].pc \notin Publishing BY <1>2 DEF CommandsInv, Acting
  <2>3. session # None => mic'[session] /\ track'[session] # "none" BY <1>1, <1>2, <1>4
  <2>4. \A b \in told : b \in Asks => cmd'[b].pc \in Ended BY <1>3 DEF CommandsInv, Ended
  <2>5. \A b \in Asks : cmd'[b].pc \notin Publishing \/ session = None BY <2>1, <2>2 DEF Pending, Acting
  <2> HIDE DEF device
  <2>6. \A b \in Asks : cmd'[b].pc \in Acting =>
          /\ cmd'[b].call \in Calls /\ down'[cmd'[b].call] # "unborn"
          /\ session' # None => cmd'[b].call = session'
    BY <1>1, <2>1 DEF CommandsInv, Pending
  <2>7. \A b \in Asks : cmd'[b].pc = "locking" => mic'[cmd'[b].call] BY <1>1, <2>1 DEF CommandsInv, Pending, Acting
  <2>8. \A b \in Asks : cmd'[b].pc \in Publishing => ~mic'[cmd'[b].call]
    BY <1>1, <2>1 DEF CommandsInv, Pending, Acting
  <2>9. session' # None => \A b \in Asks : cmd'[b].pc \notin {"publishing", "published"}
    BY <1>1, <2>5 DEF Publishing
  <2>10. session' # None => \A b \in Asks : cmd'[b].pc \in Pending => cmd'[b].ours BY <1>1, <2>1 DEF CommandsInv
  <2>11. \A b \in Asks : b \in told' => cmd'[b].pc \in Ended BY <1>1, <2>4
  <2>12. session' # None => mic'[session'] /\ track'[session'] # "none" BY <1>1, <2>3
  <2> QED BY <2>6, <2>7, <2>8, <2>9, <2>10, <2>11, <2>12 DEF CommandsInv
<1>8. NumbersInv' BY <1>1, <1>3 DEF NumbersInv
<1>9. GateInv' BY <1>1, <1>2, <1>4 DEF GateInv
<1>10. AnswersInv'
  <2>1. session # None => cmd[a].ours /\ a \notin told BY <1>1 DEF CommandsInv, Pending, Acting, Ended
  <2>2. session # None => page.starting \/ Awaiting BY <1>1 DEF AnswersInv, Acting
  <2>3. Latest(a)' => \A b \in Asks : cmd'[b].pc \notin Acting
    <3> SUFFICES ASSUME Latest(a)' PROVE \A b \in Asks : cmd'[b].pc \notin Acting OBVIOUS
    <3>1. session = k /\ Latest(a) /\ k # None BY <1>1, <1>2, <1>3 DEF Latest, NumbersInv
    <3>2. \A b \in Asks : cmd[b].seq \in Nat BY <1>2 DEF MicCmd
    <3>3. asked[session] \in Nat BY <3>1, <1>2 DEF MicTypes
    <3>4. ASSUME NEW b \in Asks, cmd[b].pc = "locking" PROVE b = a
      <4>1. cmd[b].ours /\ cmd[b].seq <= asked[session] /\ cmd[b].seq >= cmd[a].seq
        BY <1>1, <3>1, <3>4 DEF CommandsInv, NumbersInv, Pending, Acting, InTurn
      <4> QED BY <3>1, <3>2, <3>3, <4>1 DEF Latest, NumbersInv
    <3>5. \A b \in Asks : cmd[b].pc \notin Publishing BY <1>2, <3>1 DEF CommandsInv, Acting
    <3> QED BY <1>3, <3>4, <3>5 DEF Acting, Publishing
  <2>4. \A b \in Asks : Latest(b)' /\ cmd'[b].pc \in Ended => b = a
    <3> SUFFICES ASSUME NEW b \in Asks, Latest(b)', cmd'[b].pc \in Ended, b # a PROVE FALSE OBVIOUS
    <3>1. Latest(b) /\ cmd[b].pc \in Ended BY <1>1, <1>3 DEF Latest
    <3> QED BY <1>1, <3>1 DEF AnswersInv, Acting
  <2>5. \A b \in Asks : cmd'[b].ours = cmd[b].ours /\ cmd'[b].seq = cmd[b].seq BY <1>3
  <2>6. Awaiting => page.ticket \in Asks BY DEF Awaiting, MicTypes, MicPage
  <2> QED BY <1>1, <1>3, <2>1, <2>2, <2>3, <2>4, <2>5, <2>6 DEF AnswersInv, Awaiting, Sending
<1>11. HeardInv'
  <2>1. \A b \in Asks : cmd'[b].pc \in {"publishing", "published"} => cmd[b] = cmd'[b] BY <1>3
  <2> QED BY <1>1, <1>2, <1>4, <2>1 DEF HeardInv, Open
<1> QED BY <1>5, <1>6, <1>7, <1>8, <1>9, <1>10, <1>11

\* A command that publishes is the only one, and so the latest.
LEMMA PublishAlone ==
    ASSUME MicInv, session # None, NEW a \in Asks, cmd[a].pc \in Publishing
    PROVE  /\ cmd[a].call = session /\ session \in Calls /\ ~mic[session] /\ cmd[a].ours /\ a \notin told
           /\ \A b \in Asks : b # a => cmd[b].pc \notin Pending
           /\ page.starting \/ Awaiting
           /\ ~dirty[session]
<1>1. cmd[a].call = session /\ session \in Calls /\ ~mic[session] /\ cmd[a].ours /\ a \notin told
  BY DEF MicInv, MicTypes, CommandsInv, Acting, Pending, Publishing, Ended
<1>2. \A b \in Asks : b # a => cmd[b].pc \notin Pending
  BY <1>1 DEF MicInv, CommandsInv, Acting, Pending
<1>3. page.starting \/ Awaiting BY DEF MicInv, AnswersInv, Acting
<1>4. ~dirty[session] BY <1>1 DEF MicInv, CallsInv
<1> QED BY <1>1, <1>2, <1>3, <1>4

LEMMA PublishesKeeps == ASSUME Races = {}, MicInv, NEW a \in Asks, Publishes(a) PROVE MicInv'
<1> DEFINE k == cmd[a].call
<1> USE DEF MicInv, device
<1>1. /\ cmd[a].pc = "publish" /\ gate' = (gate \/ cmd[a].on) /\ cmd' = [cmd EXCEPT ![a].pc = "publishing"]
      /\ UNCHANGED <<session, mic, asked, failed, rec, track, down, looks, share, pending, dirty, page, told, used>>
      /\ down[k] \in {"no", "taken"} /\ (cmd[a].on => share # "stopping")
  BY DEF Publishes, Undisturbed
<1> HIDE DEF k
<1>2. k \in Calls /\ ~mic[k] /\ (session # None => session = k) /\ cmd \in [Asks -> MicCmd]
  BY <1>1 DEF CommandsInv, Acting, Publishing, MicTypes, k
<1>3. /\ cmd' \in [Asks -> MicCmd] /\ \A b \in Asks : b # a => cmd'[b] = cmd[b]
      /\ cmd'[a].pc = "publishing" /\ cmd'[a].ours = cmd[a].ours /\ cmd'[a].seq = cmd[a].seq
      /\ cmd'[a].on = cmd[a].on /\ cmd'[a].call = k
  BY <1>1, <1>2, Goes DEF Pending, Acting, Publishing, k
<1>4. session # None =>
        /\ \A b \in Asks : b # a => cmd[b].pc \notin Pending
        /\ page.starting \/ Awaiting
        /\ ~mic[session]
  BY <1>1, PublishAlone DEF Publishing
<1>5. session # None => ~gate
  BY <1>1, <1>4 DEF GateInv, Pending, Acting, Publishing
<1>6. MicTypes'
  <2>1. gate' \in BOOLEAN BY <1>1
  <2> QED BY <1>1, <1>3, <2>1 DEF MicTypes
<1>7. CallsInv' BY <1>1 DEF CallsInv
<1>8. CommandsInv'
  <2>1. session # None => gate' = cmd[a].on
    <3>1. gate \in BOOLEAN /\ cmd[a].on \in BOOLEAN BY <1>2 DEF MicTypes, MicCmd
    <3> QED BY <1>1, <1>5, <3>1
  <2> QED BY <1>1, <1>2, <1>3, <1>4, <2>1 DEF CommandsInv, Acting, Publishing, Pending, Ended
<1>9. NumbersInv' BY <1>1, <1>3 DEF NumbersInv
<1>10. GateInv' BY <1>1, <1>2, <1>3 DEF GateInv
<1>11. AnswersInv'
  <2>1. \A b \in Asks : Latest(b)' /\ cmd'[b].pc \in Ended => FALSE
    <3> SUFFICES ASSUME NEW b \in Asks, Latest(b)', cmd'[b].pc \in Ended PROVE FALSE OBVIOUS
    <3>1. Latest(b) /\ cmd[b].pc \in Ended BY <1>1, <1>3 DEF Latest, Ended
    <3> QED BY <1>1, <3>1 DEF AnswersInv, Acting, Publishing
  <2>2. \A b \in Asks : cmd'[b].ours = cmd[b].ours /\ cmd'[b].seq = cmd[b].seq BY <1>3
  <2>3. Awaiting => page.ticket \in Asks BY DEF Awaiting, MicTypes, MicPage
  <2> QED BY <1>1, <1>4, <2>1, <2>2, <2>3 DEF AnswersInv, Awaiting
<1>12. HeardInv' BY <1>1, <1>3, <1>4 DEF HeardInv, Open
<1> QED BY <1>6, <1>7, <1>8, <1>9, <1>10, <1>11, <1>12

LEMMA PublishedKeeps == ASSUME Races = {}, MicInv, NEW a \in Asks, Published(a) PROVE MicInv'
<1> DEFINE k == cmd[a].call
<1> USE DEF MicInv, device
<1>1. /\ cmd[a].pc = "publishing"
      /\ UNCHANGED <<session, mic, asked, failed, down, looks, share, pending, dirty, page, told, used>>
  BY DEF Published
<1> HIDE DEF k
<1>2. k \in Calls /\ ~mic[k] /\ (session # None => session = k) /\ cmd \in [Asks -> MicCmd]
  BY <1>1 DEF CommandsInv, Acting, Publishing, MicTypes, k
<1>3. session # None =>
        /\ \A b \in Asks : b # a => cmd[b].pc \notin Pending
        /\ page.starting \/ Awaiting
        /\ ~mic[session] /\ cmd[a].ours /\ a \notin told
  BY <1>1, PublishAlone DEF Publishing
<1>4. \A b \in Asks : ~(Latest(b) /\ cmd[b].pc \in Ended)
  BY <1>1 DEF AnswersInv, Acting, Publishing
<1>5. Awaiting => page.ticket \in Asks BY DEF Awaiting, MicTypes, MicPage
<1>7. CASE /\ track' = [track EXCEPT ![k] = IF cmd[a].on THEN "on" ELSE "muted"]
           /\ rec' = (IF cmd[a].on THEN RtcStart ELSE rec)
           /\ cmd' = [cmd EXCEPT ![a].pc = "published"]
           /\ UNCHANGED gate
  <2>1. /\ cmd' \in [Asks -> MicCmd] /\ \A b \in Asks : b # a => cmd'[b] = cmd[b]
        /\ cmd'[a].pc = "published" /\ cmd'[a].ours = cmd[a].ours /\ cmd'[a].seq = cmd[a].seq
        /\ cmd'[a].on = cmd[a].on /\ cmd'[a].call = k
    BY <1>2, <1>7, Goes DEF Pending, Acting, Publishing, k
  <2>2. /\ track' \in [Calls -> {"none", "muted", "on"}] /\ track'[k] = IF cmd[a].on THEN "on" ELSE "muted"
        /\ rec' \in {"off", "init", "on"} /\ (rec' # "off" => gate)
    BY <1>2, <1>7 DEF MicTypes, RtcStart, GateInv
  <2>3. MicTypes' BY <1>1, <1>7, <2>1, <2>2 DEF MicTypes
  <2>9. CallsInv'
    <3>1. down[k] # "unborn" BY <1>1 DEF CommandsInv, Acting, Publishing, k
    <3>2. \A j \in Calls : j # k => track'[j] = track[j] BY <1>2, <1>7 DEF MicTypes
    <3> QED BY <1>1, <3>1, <3>2 DEF CallsInv
  <2>4. CommandsInv' BY <1>1, <1>2, <1>3, <1>7, <2>1, <2>2 DEF CommandsInv, Acting, Publishing, Pending, Ended
  <2>5. NumbersInv' BY <1>1, <2>1 DEF NumbersInv
  <2>6. GateInv' BY <1>1, <1>2, <1>3, <1>7, <2>1, <2>2 DEF GateInv
  <2>7. AnswersInv'
    <3>1. \A b \in Asks : Latest(b)' /\ cmd'[b].pc \in Ended => FALSE BY <1>1, <1>4, <2>1 DEF Latest, Ended
    <3>2. \A b \in Asks : cmd'[b].ours = cmd[b].ours /\ cmd'[b].seq = cmd[b].seq BY <2>1
    <3> QED BY <1>1, <1>3, <1>5, <3>1, <3>2 DEF AnswersInv, Awaiting
  <2>8. HeardInv' BY <1>1, <1>3, <2>1 DEF HeardInv, Open
  <2> QED BY <2>3, <2>4, <2>5, <2>6, <2>7, <2>8, <2>9
<1>8. CASE /\ rec = "off" /\ cmd' = [cmd EXCEPT ![a].pc = "failed"] /\ gate' = FALSE /\ UNCHANGED <<track, rec>>
  <2>1. /\ cmd' \in [Asks -> MicCmd] /\ \A b \in Asks : b # a => cmd'[b] = cmd[b]
        /\ cmd'[a].pc = "failed" /\ cmd'[a].ours = cmd[a].ours /\ cmd'[a].seq = cmd[a].seq
    BY <1>2, <1>8, Goes DEF Ended
  <2>2. gate' \in BOOLEAN BY <1>8
  <2>3. MicTypes' BY <1>1, <1>8, <2>1, <2>2 DEF MicTypes
  <2>9. CallsInv' BY <1>1, <1>8 DEF CallsInv
  <2>4. CommandsInv' BY <1>1, <1>2, <1>3, <1>8, <2>1 DEF CommandsInv, Acting, Publishing, Pending, Ended
  <2>5. NumbersInv' BY <1>1, <2>1 DEF NumbersInv
  <2>6. GateInv' BY <1>8 DEF GateInv
  <2>7. AnswersInv'
    <3>1. \A b \in Asks : Latest(b)' /\ cmd'[b].pc \in Ended => b = a BY <1>1, <1>4, <2>1 DEF Latest
    <3>2. Latest(a)' => \A b \in Asks : cmd'[b].pc \notin Acting
      BY <1>1, <1>3, <2>1 DEF Latest, NumbersInv, Pending, Acting, Publishing
    <3>3. \A b \in Asks : cmd'[b].ours = cmd[b].ours /\ cmd'[b].seq = cmd[b].seq BY <2>1
    <3>4. ~Sending' BY <1>8 DEF Sending
    <3> QED BY <1>1, <1>3, <1>5, <2>1, <3>1, <3>2, <3>3, <3>4 DEF AnswersInv, Awaiting
  <2>8. HeardInv' BY <1>1, <1>3, <1>8, <2>1 DEF HeardInv, Open
  <2> QED BY <2>3, <2>4, <2>5, <2>6, <2>7, <2>8, <2>9
<1> QED BY <1>7, <1>8 DEF Published, k

LEMMA StartsPublishedKeeps == ASSUME Races = {}, MicInv, NEW a \in Asks, StartsPublished(a) PROVE MicInv'
<1> DEFINE k == cmd[a].call
<1> USE DEF MicInv, device
<1>1. /\ cmd[a].pc = "published" /\ cmd' = [cmd EXCEPT ![a].pc = "done"]
      /\ UNCHANGED <<session, asked, gate, track, down, share, pending, page, told>>
  BY DEF StartsPublished
<1> HIDE DEF k
<1>2. k \in Calls /\ ~mic[k] /\ (session # None => session = k) /\ cmd \in [Asks -> MicCmd]
  BY <1>1 DEF CommandsInv, Acting, Publishing, MicTypes, k
<1>3. /\ cmd' \in [Asks -> MicCmd] /\ \A b \in Asks : b # a => cmd'[b] = cmd[b]
      /\ cmd'[a].pc = "done" /\ cmd'[a].ours = cmd[a].ours /\ cmd'[a].seq = cmd[a].seq
      /\ cmd'[a].on = cmd[a].on
  BY <1>1, <1>2, Goes DEF Ended
<1>4. CASE session # k
  <2>1. session = None /\ UNCHANGED <<mic, failed, rec, looks, dirty, used>> BY <1>2, <1>4 DEF StartsPublished, k
  <2>2. MicTypes' BY <1>1, <1>3, <2>1 DEF MicTypes
  <2>3. CallsInv' /\ GateInv' BY <1>1, <1>3, <2>1 DEF CallsInv, GateInv
  <2>4. CommandsInv' BY <1>1, <1>3, <2>1 DEF CommandsInv, Acting, Publishing, Pending, Ended
  <2>5. NumbersInv' BY <1>1, <1>3, <2>1 DEF NumbersInv
  <2>6. AnswersInv' BY <1>1, <1>3, <2>1, <2>5 DEF AnswersInv, NumbersInv, Latest
  <2>7. HeardInv' BY <1>1, <1>3, <2>1 DEF HeardInv, Open
  <2> QED BY <2>2, <2>3, <2>4, <2>5, <2>6, <2>7
<1>5. CASE session = k
  <2>1. /\ IF cmd[a].on THEN Starts(k, gate) ELSE UNCHANGED <<rec, used>> /\ failed' = [failed EXCEPT ![k] = FALSE]
        /\ mic' = [mic EXCEPT ![k] = TRUE]
        /\ dirty' = [dirty EXCEPT ![k] = TRUE]
        /\ IF cmd[a].on /\ rec' = "init" THEN Recheck(k) ELSE UNCHANGED looks
    BY <1>5 DEF StartsPublished, k
  <2>2. /\ \A b \in Asks : b # a => cmd[b].pc \notin Pending
        /\ page.starting \/ Awaiting
        /\ session # None /\ cmd[a].ours /\ a \notin told
    BY <1>1, <1>2, <1>5, MicAssumption, PublishAlone DEF Publishing
  <2>3. /\ gate = cmd[a].on /\ track[k] = (IF cmd[a].on THEN "on" ELSE "muted")
        /\ cmd[a].on \in BOOLEAN /\ gate \in BOOLEAN
    BY <1>1, <1>2, <1>5, <2>2 DEF CommandsInv, MicTypes, MicCmd
  <2>4. /\ mic' \in [Calls -> BOOLEAN] /\ mic'[k] /\ \A j \in Calls : j # k => mic'[j] = mic[j]
        /\ dirty' \in [Calls -> BOOLEAN] /\ dirty'[k] /\ \A j \in Calls : j # k => dirty'[j] = dirty[j]
    BY <1>2, <2>1 DEF MicTypes
  <2>5. /\ failed' \in [Calls -> BOOLEAN] /\ looks' \in 0..3 /\ rec' \in {"off", "init", "on"}
        /\ cmd[a].on => rec' # "off" /\ (rec' = "init" => failed'[k])
        /\ ~cmd[a].on => ~gate /\ rec' = rec /\ ~failed'[k] /\ looks' = looks
    <3>1. failed \in [Calls -> BOOLEAN] /\ rec \in {"off", "init", "on"} /\ looks \in 0..3 BY DEF MicTypes
    <3>2. looks' \in 0..3 BY <2>1, <3>1 DEF Recheck
    <3>3. CASE ~cmd[a].on BY <1>2, <2>1, <2>3, <3>1, <3>2, <3>3
    <3>4. CASE cmd[a].on /\ rec' = "on" /\ failed' = [failed EXCEPT ![k] = FALSE] BY <1>2, <3>1, <3>2, <3>4
    <3>5. CASE cmd[a].on /\ rec' = "init" /\ failed' = [failed EXCEPT ![k] = (session = k)]
      BY <1>2, <1>5, <3>1, <3>2, <3>5
    <3> QED BY <2>1, <2>3, <3>3, <3>4, <3>5 DEF Starts
  <2>6. MicTypes' BY <1>1, <1>3, <2>4, <2>5 DEF MicTypes
  <2>7. CallsInv' BY <1>1, <1>2, <1>5, <2>2, <2>4 DEF CallsInv
  <2>8. CommandsInv'
    <3>1. \A b \in Asks : cmd'[b].pc \notin Acting BY <1>3, <2>2 DEF Acting, Publishing, Pending
    <3>2. \A b \in Asks : cmd'[b].pc \in Pending => cmd'[b] = cmd[b] BY <1>3 DEF Acting, Publishing, Pending
    <3> QED BY <1>1, <1>2, <1>3, <1>5, <2>2, <2>3, <2>4, <3>1, <3>2
            DEF CommandsInv, Acting, Publishing, Pending, Ended
  <2>9. NumbersInv' BY <1>1, <1>3 DEF NumbersInv
  <2>10. GateInv' BY <1>1, <1>2, <1>5, <2>3, <2>4, <2>5 DEF GateInv
  <2>11. AnswersInv'
    <3>1. \A b \in Asks : Latest(b)' /\ cmd'[b].pc \in Ended => b = a
      <4>1. \A b \in Asks : ~(Latest(b) /\ cmd[b].pc \in Ended) BY <1>1 DEF AnswersInv, Acting, Publishing
      <4> QED BY <1>1, <1>3, <4>1 DEF Latest
    <3>2. \A b \in Asks : cmd'[b].pc \notin Acting BY <1>3, <2>2 DEF Acting, Publishing, Pending
    <3>3. \A b \in Asks : cmd'[b].ours = cmd[b].ours /\ cmd'[b].seq = cmd[b].seq BY <1>3
    <3>4. Sending' = cmd[a].on BY <1>1, <1>5, <2>3, <2>4 DEF Sending
    <3>5. Awaiting => page.ticket \in Asks BY DEF Awaiting, MicTypes, MicPage
    <3> QED BY <1>1, <1>3, <2>2, <3>1, <3>2, <3>3, <3>4, <3>5 DEF AnswersInv, Awaiting
  <2>12. HeardInv'
    <3>1. share = "stopping" => ~cmd[a].on BY <1>1 DEF HeardInv
    <3>2. \A b \in Asks : cmd'[b].pc \in {"publishing", "published"} => cmd'[b] = cmd[b] BY <1>3
    <3> QED BY <1>1, <1>2, <1>5, <2>3, <2>4, <2>5, <3>1, <3>2 DEF HeardInv, Open
  <2> QED BY <2>6, <2>7, <2>8, <2>9, <2>10, <2>11, <2>12
<1> QED BY <1>4, <1>5

-----------------------------------------------------------------------------
(* What leaves the page and its commands alone.                            *)

LEMMA SameCommands ==
    ASSUME MicInv, UNCHANGED <<session, mic, asked, gate, track, cmd, down, dirty, page, told>>,
           failed' \in [Calls -> BOOLEAN], looks' \in 0..3, share' \in {"none", "fresh", "on", "stopping"},
           rec' \in {"off", "init", "on"}, rec' # "off" => gate, HeardInv'
    PROVE  MicInv'
<1> USE DEF MicInv
<1>1. MicTypes' BY DEF MicTypes
<1>2. CallsInv' /\ NumbersInv' /\ CommandsInv' BY DEF CallsInv, NumbersInv, CommandsInv
<1>3. GateInv' BY DEF GateInv
<1>4. AnswersInv' BY DEF AnswersInv, Awaiting, Sending, Latest, Busy
<1> QED BY <1>1, <1>2, <1>3, <1>4

LEMMA LooksKeeps == ASSUME Races = {}, MicInv, Looks PROVE MicInv'
<1> DEFINE restart == looks < 3 /\ pending = session
<1>1. /\ looks > 0 /\ (looks = 3 \/ share # "stopping") /\ looks' = looks - 1 /\ Ensured(restart)
      /\ pending' = (IF restart THEN None ELSE pending)
      /\ UNCHANGED <<session, mic, asked, gate, track, cmd, down, share, dirty, page, told>>
  BY DEF Looks
<1> HIDE DEF restart
<1>2. MicTypes /\ GateInv /\ HeardInv BY DEF MicInv
<1>3. /\ looks \in 0..3 /\ failed \in [Calls -> BOOLEAN] /\ rec \in {"off", "init", "on"}
      /\ looks' \in 0..3 /\ share' \in {"none", "fresh", "on", "stopping"}
      /\ Open => session \in Calls /\ session # None
  BY <1>1, <1>2 DEF MicTypes, Open
<1>4. Open' <=> Open BY <1>1 DEF Open
<1>5. CASE ~(Open /\ (rec = "off" \/ failed[session] \/ restart))
  <2>1. UNCHANGED <<rec, failed>> BY <1>1, <1>5 DEF Ensured
  <2>2. HeardInv' BY <1>1, <1>2, <1>3, <1>4, <1>5, <2>1 DEF HeardInv, restart
  <2> QED BY <1>1, <1>2, <1>3, <2>1, <2>2, SameCommands DEF GateInv
<1>6. CASE Open /\ (rec = "off" \/ failed[session] \/ restart)
  <2>1. share # "stopping" BY <1>1, <1>2, <1>6 DEF HeardInv, restart
  <2>2. /\ failed' \in [Calls -> BOOLEAN] /\ rec' \in {"init", "on"} /\ (rec' = "init" => failed'[session]) /\ gate
    <3>1. Starts(session, TRUE) /\ gate BY <1>1, <1>6 DEF Ensured, Open
    <3>2. CASE rec' = "on" /\ failed' = [failed EXCEPT ![session] = FALSE] BY <1>3, <1>6, <3>1, <3>2
    <3>3. CASE rec' = "init" /\ failed' = [failed EXCEPT ![session] = (session = session)]
      BY <1>3, <1>6, <3>1, <3>3
    <3> QED BY <3>1, <3>2, <3>3 DEF Starts
  <2>3. HeardInv' BY <1>1, <1>2, <1>3, <1>4, <1>6, <2>1, <2>2 DEF HeardInv
  <2> QED BY <1>1, <1>3, <2>2, <2>3, SameCommands
<1> QED BY <1>5, <1>6

LEMMA ShareKeeps == ASSUME Races = {}, MicInv, ShareStarts \/ Negotiated \/ ShareStops PROVE MicInv'
<1>1. MicTypes /\ GateInv /\ HeardInv /\ CommandsInv BY DEF MicInv
<1>2. /\ looks \in 0..3 /\ failed \in [Calls -> BOOLEAN] /\ rec \in {"off", "init", "on"}
      /\ share \in {"none", "fresh", "on", "stopping"} /\ (session # None => session \in Calls)
  BY <1>1 DEF MicTypes
<1>3. CASE ShareStarts
  <2>1. /\ session # None /\ looks # 3 /\ share = "none" /\ share' = "fresh" /\ looks' = 3
        /\ UNCHANGED <<session, mic, asked, failed, gate, rec, track, cmd, down, pending, dirty, page, told>>
    BY <1>3 DEF ShareStarts, Recheck, device
  <2>2. HeardInv' BY <1>1, <1>2, <2>1 DEF HeardInv, Open
  <2> QED BY <1>1, <1>2, <2>1, <2>2, SameCommands DEF GateInv
<1>4. CASE Negotiated
  <2>1. /\ share \in {"fresh", "stopping"} /\ share' = (IF share = "fresh" THEN "on" ELSE "none")
        /\ rec' = (IF share = "fresh" THEN RtcStart ELSE IF gate THEN "init" ELSE rec)
        /\ UNCHANGED <<session, mic, asked, failed, gate, track, cmd, down, looks, pending, dirty, page, told, used>>
    BY <1>4 DEF Negotiated
  <2>2. rec' \in {"off", "init", "on"} /\ (rec' # "off" => gate) BY <1>1, <1>2, <2>1 DEF RtcStart, GateInv
  <2>3. share' \in {"none", "on"} /\ share' # "stopping" BY <2>1
  <2>4. HeardInv' BY <1>1, <1>2, <2>1, <2>2, <2>3 DEF HeardInv, Open, RtcStart
  <2> QED BY <1>1, <1>2, <2>1, <2>2, <2>3, <2>4, SameCommands
<1>5. CASE ShareStops
  <2>1. /\ session # None /\ share \in {"fresh", "on"} /\ looks' = 3
        /\ ~failed[session] /\ \A a \in Asks : cmd[a].pc \notin {"publishing", "published"}
        /\ share' = (IF share = "fresh" THEN "stopping" ELSE "none")
        /\ rec' = (IF share = "on" THEN Stopped ELSE rec)
        /\ pending' = (IF share = "fresh" /\ Open /\ rec # "off" /\ ~failed[session] THEN session ELSE pending)
        /\ UNCHANGED <<session, mic, asked, failed, gate, track, cmd, down, dirty, page, told, used>>
    BY <1>5 DEF ShareStops, Recheck
  <2>2. rec' \in {"off", "init", "on"} /\ (rec' # "off" => gate) BY <1>1, <1>2, <2>1 DEF Stopped, GateInv
  <2>3. CASE share = "fresh"
    <3>1. share' = "stopping" /\ rec' = rec BY <2>1, <2>3
    <3>2. Open => rec # "off" BY <1>1, <2>3 DEF HeardInv
    <3>3. HeardInv' BY <1>1, <1>2, <2>1, <2>3, <3>1, <3>2 DEF HeardInv, Open
    <3> QED BY <1>2, <2>1, <2>2, <3>1, <3>3, SameCommands
  <2>4. CASE share = "on"
    <3>1. share' = "none" /\ rec' = Stopped BY <2>1, <2>4
    <3>2. HeardInv' BY <1>1, <1>2, <2>1, <2>4, <3>1 DEF HeardInv, Open, Stopped
    <3> QED BY <1>2, <2>1, <2>2, <3>1, <3>2, SameCommands
  <2> QED BY <2>1, <2>3, <2>4
<1> QED BY <1>3, <1>4, <1>5

-----------------------------------------------------------------------------
(* The SFU, the pump, the hang-up and another page.                        *)

LEMMA SfuMutesKeeps == ASSUME Races = {}, MicInv, NEW k \in Calls, SfuMutes(k) PROVE MicInv'
<1> USE DEF MicInv, device
<1>1. /\ track[k] = "on" /\ down[k] = "no" /\ Idle /\ ~Busy
      /\ track' = [track EXCEPT ![k] = "muted"] /\ dirty' = [dirty EXCEPT ![k] = TRUE]
      /\ UNCHANGED <<session, mic, asked, failed, gate, rec, cmd, down, looks, share, pending, page, told, used>>
  BY DEF SfuMutes
<1>2. session = k /\ k # None BY <1>1, MicAssumption DEF CallsInv
<1>3. \A a \in Asks : cmd[a].pc \notin Pending BY <1>1 DEF Idle, Ended, Pending, Acting, Publishing
<1>4. mic[k] BY <1>1, <1>2, <1>3 DEF CommandsInv, Pending, Acting, Publishing
<1>5. /\ track' \in [Calls -> {"none", "muted", "on"}] /\ track'[k] = "muted" /\ \A j \in Calls : j # k => track'[j] = track[j]
      /\ dirty' \in [Calls -> BOOLEAN] /\ dirty'[k] /\ \A j \in Calls : j # k => dirty'[j] = dirty[j]
  BY <1>1 DEF MicTypes
<1>6. MicTypes' BY <1>1, <1>5 DEF MicTypes
<1>7. CallsInv' BY <1>1, <1>2, <1>4, <1>5 DEF CallsInv
<1>8. CommandsInv' BY <1>1, <1>2, <1>3, <1>4, <1>5 DEF CommandsInv, Pending, Acting, Publishing
<1>9. NumbersInv' BY <1>1 DEF NumbersInv
<1>10. GateInv' BY <1>1, <1>2, <1>4, <1>5 DEF GateInv
<1>11. AnswersInv'
  <2>1. ~Busy' BY <1>1 DEF Busy
  <2>2. \A a \in Asks : cmd[a].ours => a \in told BY <1>1 DEF Busy, NumbersInv
  <2>3. (Awaiting <=> Awaiting') /\ \A a \in Asks : Latest(a)' <=> Latest(a) BY <1>1 DEF Awaiting, Latest
  <2> QED BY <1>1, <1>2, <1>5, <2>1, <2>2, <2>3 DEF AnswersInv, Latest
<1>12. HeardInv' BY <1>1 DEF HeardInv, Open
<1> QED BY <1>6, <1>7, <1>8, <1>9, <1>10, <1>11, <1>12

LEMMA PumpsKeeps == ASSUME Races = {}, MicInv, NEW k \in Calls, Pumps(k) PROVE MicInv'
<1> DEFINE remote == session = k /\ gate /\ track[k] = "muted"
           reading == track[k] = "on" /\ gate
<1> USE DEF MicInv, device
<1>1. /\ dirty[k] /\ dirty' = [dirty EXCEPT ![k] = FALSE]
      /\ IF remote
         THEN gate' = FALSE /\ rec' = Stopped /\ failed' = [failed EXCEPT ![k] = FALSE]
         ELSE UNCHANGED <<gate, rec, failed>>
      /\ page' = (IF session = k THEN LocalChanged(reading) ELSE page)
      /\ UNCHANGED <<session, mic, asked, track, cmd, down, looks, share, pending, told, used>>
  BY DEF Pumps
<1>2. mic[k] /\ k # None /\ reading \in BOOLEAN /\ page \in MicPage BY <1>1, MicAssumption DEF CallsInv, MicTypes
<1>3. session = k => /\ \A a \in Asks : cmd[a].pc \notin Publishing
                     /\ track[k] \in {"muted", "on"}
                     /\ Sending <=> reading
  BY <1>2 DEF CommandsInv, Acting, Sending, MicTypes
<1> HIDE DEF reading
<1>5. /\ page' \in MicPage /\ page'.seq = page.seq /\ page'.starting = page.starting
      /\ Busy \/ page.starting \/ session # k => page' = page
      /\ ~Busy /\ ~page.starting /\ session = k =>
           /\ page'.muted = ~reading
           /\ IF page.muted = reading THEN page'.wanted = ~reading /\ page'.ticket = None
              ELSE page'.wanted = page.wanted /\ page'.ticket = page.ticket
  <2>1. CASE Busy \/ page.starting \/ session # k BY <1>1, <1>2, <2>1 DEF LocalChanged
  <2>2. CASE ~Busy /\ ~page.starting /\ session = k
    <3>1. page' = [page EXCEPT !.muted = ~reading, !.wanted = IF page.muted = reading THEN ~reading ELSE @,
                      !.ticket = IF page.muted = reading THEN None ELSE @]
      BY <1>1, <1>2, <2>2 DEF LocalChanged
    <3>2. page' = [muted |-> ~reading, wanted |-> IF page.muted = reading THEN ~reading ELSE page.wanted,
                   ticket |-> IF page.muted = reading THEN None ELSE page.ticket, starting |-> page.starting,
                   seq |-> page.seq]
      BY <1>2, <3>1 DEF MicPage
    <3>3. /\ (~reading) \in BOOLEAN /\ (IF page.muted = reading THEN ~reading ELSE page.wanted) \in BOOLEAN
          /\ (IF page.muted = reading THEN None ELSE page.ticket) \in Asks \cup {None}
          /\ page.starting \in BOOLEAN /\ page.seq \in Nat
      BY <1>2 DEF MicPage
    <3>4. page' \in MicPage BY <3>2, <3>3 DEF MicPage
    <3> QED BY <2>2, <3>2, <3>4
  <2> QED BY <2>1, <2>2
<1>6. /\ dirty' \in [Calls -> BOOLEAN] /\ ~dirty'[k] /\ \A j \in Calls : j # k => dirty'[j] = dirty[j]
      /\ failed' \in [Calls -> BOOLEAN] /\ rec' \in {"off", "init", "on"} /\ gate' \in BOOLEAN
  <2>1. gate' \in BOOLEAN
    <3>1. gate \in BOOLEAN BY DEF MicTypes
    <3>2. gate' = FALSE \/ gate' = gate BY <1>1
    <3> QED BY <3>1, <3>2
  <2>2. failed \in [Calls -> BOOLEAN] /\ dirty \in [Calls -> BOOLEAN] /\ rec \in {"off", "init", "on"} BY DEF MicTypes
  <2>3. /\ dirty' \in [Calls -> BOOLEAN] /\ ~dirty'[k] /\ \A j \in Calls : j # k => dirty'[j] = dirty[j]
    BY <1>1, <2>2
  <2>4. failed' \in [Calls -> BOOLEAN] BY <1>1, <2>2
  <2>5. rec' \in {"off", "init", "on"} BY <1>1, <2>2 DEF Stopped
  <2> QED BY <2>1, <2>3, <2>4, <2>5
<1>7. remote => session = k /\ ~reading /\ gate' = FALSE /\ rec' = "off" /\ ~failed'[k]
  BY <1>1, <1>6 DEF reading, MicTypes, Stopped, GateInv
<1>8. ~remote => UNCHANGED <<gate, rec, failed>> BY <1>1
<1>9. session = k /\ ~remote => (reading <=> gate) BY <1>3 DEF reading
<1> HIDE DEF remote
<1>10. MicTypes' BY <1>1, <1>5, <1>6 DEF MicTypes
<1>11. CallsInv' BY <1>1, <1>6 DEF CallsInv
<1>12. CommandsInv'
  <2>1. session = k => \A a \in Asks : cmd[a].pc \notin {"publishing", "published"} BY <1>3 DEF Publishing
  <2> QED BY <1>1, <1>3, <1>7, <1>8, <2>1 DEF CommandsInv
<1>13. NumbersInv' BY <1>1, <1>5 DEF NumbersInv
<1>14. GateInv'
  <2>1. CASE remote BY <1>7, <2>1 DEF GateInv
  <2>2. CASE ~remote
    <3>1. session = k /\ gate => track[session] = "on" BY <1>9, <2>2 DEF reading
    <3>2. session # None => session \in Calls BY DEF MicTypes
    <3> QED BY <1>1, <1>2, <1>6, <1>8, <2>2, <3>1, <3>2 DEF GateInv
  <2> QED BY <2>1, <2>2
<1>15. AnswersInv'
  <2>1. session \in Calls => (Sending' <=> Sending)
    <3>1. CASE remote BY <1>1, <1>3, <1>7, <3>1 DEF Sending
    <3>2. CASE ~remote BY <1>1, <1>8, <3>2 DEF Sending
    <3> QED BY <3>1, <3>2
  <2>2. (Busy' <=> Busy) /\ \A a \in Asks : Latest(a)' <=> Latest(a) BY <1>1 DEF Busy, Latest
  <2>3. session # None => session \in Calls BY DEF MicTypes
  <2>4. Awaiting /\ session # None => Busy
    BY <1>2 DEF AnswersInv, Awaiting, Busy, NumbersInv, MicPage
  <2>5. CASE Busy \/ page.starting \/ session # k
    <3>1. page' = page BY <1>5, <2>5
    <3>2. Awaiting' <=> Awaiting BY <1>1, <3>1 DEF Awaiting
    <3>3. session # None /\ session # k => dirty'[session] = dirty[session] BY <1>6, <2>3
    <3>4. \A a \in Asks : Latest(a) => session \in Calls BY <2>3 DEF Latest, NumbersInv
    <3> QED BY <1>1, <2>1, <2>2, <2>3, <2>5, <3>1, <3>2, <3>3, <3>4 DEF AnswersInv
  <2>6. CASE ~Busy /\ ~page.starting /\ session = k
    <3>1. ~Awaiting BY <1>2, <2>4, <2>6
    <3>2. page.wanted = page.muted /\ page.muted \in BOOLEAN BY <1>2, <2>6, <3>1 DEF AnswersInv, MicPage
    <3>3. ~Awaiting' /\ page'.wanted = page'.muted /\ page'.muted = ~reading /\ ~page'.starting /\ page'.seq = page.seq
      BY <1>1, <1>2, <1>5, <2>6, <3>1, <3>2 DEF Awaiting
    <3>4. page'.muted = ~Sending' BY <1>2, <1>3, <2>1, <2>6, <3>3
    <3>5. \A a \in Asks : Latest(a) => session \in Calls BY <2>6
    <3> QED BY <1>1, <1>2, <2>1, <2>2, <2>6, <3>1, <3>3, <3>4, <3>5 DEF AnswersInv
  <2> QED BY <2>5, <2>6
<1>16. HeardInv'
  <2>1. CASE remote BY <1>1, <1>7, <2>1 DEF HeardInv, Open
  <2>2. CASE ~remote BY <1>1, <1>8, <2>2 DEF HeardInv, Open
  <2> QED BY <2>1, <2>2
<1> QED BY <1>10, <1>11, <1>12, <1>13, <1>14, <1>15, <1>16

LEMMA StopsKeeps == ASSUME Races = {}, MicInv, NEW k \in Calls, Stops(k) PROVE MicInv'
<1> USE DEF MicInv, device
<1>1. /\ down[k] = "taken" /\ down' = [down EXCEPT ![k] = "over"] /\ track' = [track EXCEPT ![k] = "none"]
      /\ rec' = Stopped /\ gate' = FALSE
      /\ UNCHANGED <<session, mic, asked, failed, cmd, looks, share, pending, dirty, page, told, used>>
  BY DEF Stops
<1>2. session = None /\ rec' = "off" BY <1>1 DEF CallsInv, Stopped, GateInv, MicTypes
<1>3. /\ down' \in [Calls -> {"unborn", "no", "taken", "over"}] /\ track' \in [Calls -> {"none", "muted", "on"}]
      /\ down'[k] = "over" /\ track'[k] = "none"
      /\ \A j \in Calls : j # k => down'[j] = down[j] /\ track'[j] = track[j]
  BY <1>1 DEF MicTypes
<1>4. MicTypes'
  <2>1. gate' \in BOOLEAN BY <1>1
  <2> QED BY <1>1, <1>2, <1>3, <2>1 DEF MicTypes
<1>5. CallsInv' BY <1>1, <1>2, <1>3 DEF CallsInv
<1>6. CommandsInv' BY <1>1, <1>2, <1>3 DEF CommandsInv
<1>7. NumbersInv' BY <1>1, <1>2 DEF NumbersInv
<1>8. GateInv' BY <1>1, <1>2 DEF GateInv
<1>9. AnswersInv' BY <1>1, <1>2 DEF AnswersInv, Latest, NumbersInv
<1>10. HeardInv' BY <1>1, <1>2 DEF HeardInv, Open
<1> QED BY <1>4, <1>5, <1>6, <1>7, <1>8, <1>9, <1>10

LEMMA TakenOverKeeps == ASSUME Races = {}, MicInv, NEW k \in Calls, TakenOver(k) PROVE MicInv'
<1> DEFINE open == mic[k] /\ gate
<1> USE DEF MicInv, device
<1>1. /\ session = k /\ Idle
      /\ asked' = [asked EXCEPT ![k] = 0] /\ cmd' = [a \in Asks |-> [cmd[a] EXCEPT !.ours = FALSE]]
      /\ page' = [muted |-> ~open, wanted |-> ~open, ticket |-> None, starting |-> FALSE, seq |-> 0]
      /\ UNCHANGED <<session, mic, failed, gate, rec, track, down, looks, share, pending, dirty, told>>
  BY DEF TakenOver
<1>2. \A a \in Asks : /\ cmd'[a] \in MicCmd /\ ~cmd'[a].ours /\ cmd'[a].pc = cmd[a].pc
                      /\ cmd[a].pc \notin Pending
  <2> SUFFICES ASSUME NEW a \in Asks
               PROVE  /\ cmd'[a] \in MicCmd /\ ~cmd'[a].ours /\ cmd'[a].pc = cmd[a].pc /\ cmd[a].pc \notin Pending
    OBVIOUS
  <2>1. cmd[a] \in MicCmd /\ cmd'[a] = [cmd[a] EXCEPT !.ours = FALSE] BY <1>1 DEF MicTypes
  <2>2. cmd[a].pc \notin Pending BY <1>1 DEF Idle, Ended, Pending, Acting, Publishing
  <2> QED BY <2>1, <2>2 DEF MicCmd
<1>3. asked' \in [Calls -> Nat] /\ asked'[k] = 0 /\ \A j \in Calls : j # k => asked'[j] = asked[j]
  BY <1>1 DEF MicTypes
<1>4. page' \in MicPage /\ page'.seq = 0 /\ page'.ticket = None /\ ~page'.starting /\ page'.wanted = page'.muted
      /\ page'.muted = ~open
  <2>1. (~open) \in BOOLEAN OBVIOUS
  <2> HIDE DEF open
  <2> QED BY <1>1, <2>1 DEF MicPage
<1>5. open => Sending \/ dirty[k]
  BY <1>1, <1>2, MicAssumption DEF GateInv, Sending, Pending, Acting, Publishing
<1>6. cmd' \in [Asks -> MicCmd]
  <2>1. cmd' = [a \in Asks |-> cmd'[a]] BY <1>1
  <2> QED BY <1>2, <2>1
<1>7. MicTypes' BY <1>1, <1>3, <1>4, <1>6 DEF MicTypes
<1>8. CallsInv' BY <1>1, <1>3 DEF CallsInv
<1>9. CommandsInv' BY <1>1, <1>2 DEF CommandsInv, Pending, Acting, Publishing
<1>10. NumbersInv'
  <2>1. asked'[session'] = 0 /\ page'.seq = 0 BY <1>1, <1>3, <1>4
  <2>2. \A a \in Asks : ~cmd'[a].ours BY <1>2
  <2> QED BY <2>1, <2>2 DEF NumbersInv
<1>11. GateInv' BY <1>1, <1>2 DEF GateInv
<1>12. AnswersInv'
  <2>1. ~Busy' BY <1>2 DEF Busy
  <2>2. Sending => open BY <1>1 DEF Sending
  <2>3. Sending' <=> Sending BY <1>1 DEF Sending
  <2> HIDE DEF open
  <2>4. page'.muted = ~Sending' \/ dirty'[k]
    <3>1. CASE dirty[k] BY <1>1, <3>1
    <3>2. CASE ~dirty[k] BY <1>4, <1>5, <2>2, <2>3, <3>2
    <3> QED BY <3>1, <3>2
  <2>5. ~Awaiting' BY <1>4 DEF Awaiting
  <2>6. \A a \in Asks : ~Latest(a)' /\ cmd'[a].pc \notin Acting BY <1>2 DEF Latest, Pending
  <2> QED BY <1>1, <1>3, <1>4, <2>1, <2>4, <2>5, <2>6 DEF AnswersInv
<1>13. HeardInv' BY <1>1, <1>2 DEF HeardInv, Open, Pending, Acting, Publishing
<1> QED BY <1>7, <1>8, <1>9, <1>10, <1>11, <1>12, <1>13

LEMMA MicNextKeeps ==
    ASSUME Races = {}, MicInv, [Next]_vars
    PROVE  MicInv'
<1>1. ASSUME NEW a \in Asks, JoinAnswered(a) \/ Answered(a) \/ Begins(a) PROVE MicInv'
  BY <1>1, JoinAnsweredKeeps, AnsweredKeeps, BeginsKeeps
<1>2. ASSUME NEW a \in Asks, Unmutes(a) \/ Mutes(a) \/ Publishes(a) \/ Published(a) \/ StartsPublished(a) PROVE MicInv'
  BY <1>2, UnmutesKeeps, MutesKeeps, PublishesKeeps, PublishedKeeps, StartsPublishedKeeps
<1>3. ASSUME NEW k \in Calls, NEW muted \in BOOLEAN, Store(k, muted) PROVE MicInv'
  BY <1>3, StoreKeeps
<1>4. ASSUME NEW k \in Calls, SfuMutes(k) \/ Pumps(k) \/ Stops(k) \/ TakenOver(k) PROVE MicInv'
  BY <1>4, SfuMutesKeeps, PumpsKeeps, StopsKeeps, TakenOverKeeps
<1>5. ASSUME Press \/ Looks \/ ShareStarts \/ Negotiated \/ ShareStops \/ Takes PROVE MicInv'
  BY <1>5, PressKeeps, LooksKeeps, ShareKeeps, TakesKeeps
<1>6. CASE UNCHANGED vars
  BY <1>6 DEF vars, device, MicInv, MicTypes, CallsInv, CommandsInv, NumbersInv, GateInv, AnswersInv, HeardInv,
              Awaiting, Sending, Latest, Busy, Open
<1> QED BY <1>1, <1>2, <1>3, <1>4, <1>5, <1>6 DEF Next

THEOREM MicInvariance == ASSUME Races = {} PROVE Spec => []MicInv
<1>1. Init => MicInv BY MicInitKeeps
<1>2. MicInv /\ [Next]_vars => MicInv' BY MicNextKeeps
<1> QED BY <1>1, <1>2, PTL DEF Spec

(***************************************************************************)
(* Once nothing is in flight the device records only for a call that sends *)
(* it: in a call whose microphone is closed, and after one, it is off.     *)
(***************************************************************************)
THEOREM DarkMicrophone == ASSUME Races = {} PROVE Spec => []DarkWhenClosed
<1>1. MicInv => DarkWhenClosed
  <2> SUFFICES ASSUME MicInv, Quiet, rec # "off"
               PROVE  session # None /\ mic[session] /\ gate /\ track[session] = "on"
    BY DEF DarkWhenClosed
  <2>1. gate BY DEF MicInv, GateInv
  <2>2. session # None /\ session \in Calls BY <2>1, MicAssumption DEF MicInv, GateInv, CallsInv, Quiet, MicTypes
  <2>3. \A a \in Asks : cmd[a].pc \notin {"publishing", "published"} BY DEF Quiet, Idle, Ended
  <2> QED BY <2>1, <2>2, <2>3 DEF MicInv, GateInv, Quiet
<1> QED BY <1>1, MicInvariance, PTL

(***************************************************************************)
(* Whatever was pressed, answered, reported or refused, in whatever order: *)
(* once nothing is in flight the button says how the microphone stands.    *)
(***************************************************************************)
THEOREM TrueButton == ASSUME Races = {} PROVE Spec => []ButtonIsTrue
<1>1. MicInv => ButtonIsTrue
  <2> SUFFICES ASSUME MicInv, Quiet, ~Busy, session # None, ~page.starting
               PROVE  page.muted = ~(mic[session] /\ gate /\ track[session] = "on") /\ page.wanted = page.muted
    BY DEF ButtonIsTrue
  <2>1. ~dirty[session] BY DEF MicInv, MicTypes, Quiet
  <2>2. ~Awaiting BY DEF MicInv, MicTypes, MicPage, AnswersInv, Awaiting, Busy, NumbersInv
  <2> QED BY <2>1, <2>2 DEF MicInv, AnswersInv, Sending
<1> QED BY <1>1, MicInvariance, PTL

(***************************************************************************)
(* An open microphone that a share, a mute or a start elsewhere left off   *)
(* or merely initialised is put back by the looks that follow, or its last *)
(* start was refused.                                                      *)
(***************************************************************************)
THEOREM HeardMicrophone == ASSUME Races = {} PROVE Spec => []OpenIsHeard
<1>1. MicInv => OpenIsHeard
  BY DEF MicInv, MicTypes, HeardInv, OpenIsHeard
<1> QED BY <1>1, MicInvariance, PTL

-----------------------------------------------------------------------------
(* ShellVideo, for any calls, commands, cameras and bounds, as long as     *)
(* nothing comes Untimely: the strengthening.                              *)

OpeningPc == {"switching", "opening", "opened", "publishing", "recording"}
CameraPc == {"waiting", "switching", "opening", "opened", "recording", "shutting"}
ScreenPc == {"quieting", "taking", "replacing", "picking", "picked", "sounding", "sounded", "quelling", "storing",
             "undoing", "hushing"}
EitherPc == {"publishing", "closing", "refused"}
BegunPc == CameraPc \cup ScreenPc \cup EitherPc
VideoPc == {"unused", "sent", "done", "failed"} \cup BegunPc
VideoCmd == [pc : VideoPc, kind : {"camera", "screen"}, on : BOOLEAN, dev : Cameras \cup {None}, sound : BOOLEAN,
             seq : Nat, call : Calls \cup {None}, took : Commands \cup {None}, first : BOOLEAN, muted : BOOLEAN,
             ours : BOOLEAN]
CameraState == [muted : BOOLEAN, cap : Commands \cup {None}, dev : Cameras \cup {None}]
SoundState == [cap : Commands \cup {None}, ticket : Nat]
VideoWish == [on : BOOLEAN, dev : Cameras \cup {None, "unasked"}]
VideoState == [session : Calls \cup {None}, camAsked : Nat, wish : VideoWish, camera : {None} \cup CameraState,
               scrAsked : Nat, screen : Commands \cup {None}, sound : {None} \cup SoundState]
ButtonState == [call : Calls \cup {None}, cam : BOOLEAN, dev : Cameras, camTicket : Commands \cup {None},
                scr : BOOLEAN, scrTicket : Commands \cup {None}, seq : Nat]

VideoTypes ==
    /\ carried \in Calls \cup {None} /\ hungUp \in [Calls -> {"unborn", "no", "taken", "torn", "done"}]
    /\ torn \subseteq Commands /\ lit \subseteq Commands /\ loud \subseteq Commands
    /\ video \in VideoState /\ sent \in [Commands -> VideoCmd]
    /\ turn \in Seq(Commands) /\ buttons \in ButtonState

\* One call at a time is not over, and what a teardown took is that call's.
TurnsInv ==
    /\ carried # None => hungUp[carried] = "no"
    /\ \A k \in Calls : hungUp[k] = "no" => carried = k
    /\ \A j, k \in Calls : j < k /\ hungUp[k] # "unborn" => hungUp[j] = "done"
    /\ torn # {} => \E k \in Calls : hungUp[k] = "torn"

\* A command that runs is of the page and of the one call that is not over;
\* of those of the camera one goes on, the one that has the turn.
OrderInv(c) ==
    /\ sent[c].pc \in CameraPc => sent[c].kind = "camera"
    /\ sent[c].pc \in ScreenPc => sent[c].kind = "screen"
    /\ sent[c].pc \in {"sent"} \cup BegunPc => sent[c].ours
    /\ sent[c].pc \in BegunPc =>
        /\ sent[c].call \in Calls
        /\ \A k \in Calls : k # sent[c].call => hungUp[k] \in {"unborn", "done"}
    /\ sent[c].kind = "camera" /\ sent[c].pc \in (CameraPc \cup EitherPc) \ {"waiting"} => V!HasTurn(c)
    /\ sent[c].kind = "camera" /\ sent[c].pc \in {"publishing", "recording"} => sent[c].first
    /\ sent[c].ours => 1 <= sent[c].seq /\ sent[c].seq <= buttons.seq
OrdersInv ==
    /\ \A c \in Commands : OrderInv(c)
    /\ \A b, c \in Commands : sent[b].ours /\ sent[c].ours /\ sent[b].seq = sent[c].seq => b = c

\* The state of a call that is torn down, or of none, holds nothing and was
\* asked for nothing.
Bare(v) ==
    /\ v.camAsked = 0 /\ v.wish = V!NoWish /\ v.scrAsked = 0 /\ v.screen = None
    /\ v.camera # None => v.camera.cap = None
    /\ v.sound # None => v.sound.cap = None
Kept(v) == v.session \in Calls /\ hungUp[v.session] \in {"no", "taken"}
\* Where a command is about to put what it opened, there is nothing.
CameraFree(c) ==
    sent[c].kind = "camera" /\ sent[c].pc \in OpeningPc /\ V!Live(c) =>
        /\ video.camera # None => video.camera.cap = None
        /\ sent[c].first => video.camera = None
SoundFree(c) ==
    /\ sent[c].kind = "screen" /\ V!Latest(c)
    /\ sent[c].pc \in {"quieting", "taking", "picking", "picked", "publishing", "sounding", "sounded"}
    => (video.sound # None => video.sound.cap = None)
StateInv ==
    /\ Bare(video) \/ Kept(video)
    /\ \A c \in Commands : CameraFree(c) /\ SoundFree(c)

\* What a command has captured, or is to stop, and what a state keeps.
LitBy(c) ==
    CASE sent[c].pc \in {"opened", "publishing", "recording", "picked", "sounding", "sounded", "quelling", "storing",
                         "undoing"} -> {c}
      [] sent[c].pc \in {"switching", "closing", "refused", "shutting", "taking", "replacing"} -> {sent[c].took}
      [] OTHER -> {}
LoudBy(c) ==
    CASE sent[c].pc \in {"sounded", "quelling"} -> {c}
      [] sent[c].pc = "quieting" -> {sent[c].took}
      [] OTHER -> {}
LitIn(v) == {x \in Commands : x = v.screen \/ (v.camera # None /\ x = v.camera.cap)}
LoudIn(v) == {x \in Commands : v.sound # None /\ x = v.sound.cap}
HeldInv ==
    /\ \A x \in lit : x \in torn \/ x \in LitIn(video) \/ \E c \in Commands : x \in LitBy(c)
    /\ \A x \in loud : x \in torn \/ x \in LoudIn(video) \/ \E c \in Commands : x \in LoudBy(c)

VideoInv == VideoTypes /\ TurnsInv /\ OrdersInv /\ StateInv /\ HeldInv

\* A call that is neither over nor to come has no other beside it.
LEMMA OneCall ==
    ASSUME VideoTypes, TurnsInv, NEW k \in Calls, hungUp[k] \in {"no", "taken", "torn"}, NEW j \in Calls, j # k
    PROVE  hungUp[j] \in {"unborn", "done"}
<1>1. hungUp[j] \in {"unborn", "no", "taken", "torn", "done"} BY DEF VideoTypes
<1>2. hungUp[j] # "no" => hungUp[j] \in {"unborn", "done"}
  <2>1. j \in Nat /\ k \in Nat BY MicAssumption
  <2>2. \A i, l \in Calls : i < l /\ hungUp[l] # "unborn" => hungUp[i] = "done" BY DEF TurnsInv
  <2>3. CASE j < k BY <2>2, <2>3
  <2>4. CASE k < j BY <2>2, <2>4
  <2> QED BY <2>1, <2>3, <2>4
<1>3. hungUp[j] # "no"
  <2>1. j \in Nat /\ k \in Nat BY MicAssumption
  <2>2. \A i, l \in Calls : i < l /\ hungUp[l] # "unborn" => hungUp[i] = "done" BY DEF TurnsInv
  <2>3. j < k \/ k < j BY <2>1
  <2> QED BY <2>2, <2>3
<1> QED BY <1>2, <1>3

LEMMA FreshState == \A k \in Calls \cup {None} : V!Fresh(k) \in VideoState /\ Bare(V!Fresh(k)) /\ V!Fresh(k).session = k
                        /\ V!Fresh(k).camera = None /\ V!Fresh(k).sound = None
BY DEF V!Fresh, VideoState, VideoWish, V!NoWish, Bare

\* The state of the call of a command, or of the call that is up, has lost
\* nothing when it is made anew.
LEMMA StateOfCall ==
    ASSUME VideoTypes, TurnsInv, StateInv, NEW k \in Calls, \A j \in Calls : j # k => hungUp[j] \in {"unborn", "done"}
    PROVE  /\ V!StateOf(k) \in VideoState /\ V!StateOf(k).session = k
           /\ LitIn(V!StateOf(k)) = LitIn(video) /\ LoudIn(V!StateOf(k)) = LoudIn(video)
           /\ V!StateOf(k) = video \/ (V!StateOf(k) = V!Fresh(k) /\ Bare(V!StateOf(k)))
<1>1. CASE video.session = k BY <1>1 DEF V!StateOf, VideoTypes
<1>2. CASE video.session # k
  <2>1. V!StateOf(k) = V!Fresh(k) BY <1>2 DEF V!StateOf
  <2>2. Bare(video) BY <1>2 DEF StateInv, Kept
  <2>3. LitIn(video) = {} /\ LoudIn(video) = {} BY <2>2, VideoAssumption, MicAssumption DEF Bare, LitIn, LoudIn
  <2>4. LitIn(V!Fresh(k)) = {} /\ LoudIn(V!Fresh(k)) = {} BY VideoAssumption, MicAssumption DEF V!Fresh, LitIn, LoudIn
  <2> QED BY <2>1, <2>3, <2>4, FreshState
<1> QED BY <1>1, <1>2

\* Only the commands of the camera that has the turn are past their wait.
LEMMA OneTurn ==
    ASSUME OrdersInv, NEW c \in Commands, V!HasTurn(c), NEW b \in Commands, b # c, sent[b].kind = "camera"
    PROVE  sent[b].pc \notin (CameraPc \cup EitherPc) \ {"waiting"}
BY DEF OrdersInv, OrderInv, V!HasTurn

\* A step of one command; the call and the page stay.
Moves(c) ==
    /\ sent' \in [Commands -> VideoCmd] /\ \A b \in Commands : b # c => sent'[b] = sent[b]
    /\ sent'[c].kind = sent[c].kind /\ sent'[c].seq = sent[c].seq /\ sent'[c].ours = sent[c].ours
    /\ UNCHANGED <<carried, hungUp, torn, buttons>>

LEMMA MovesOrders ==
    ASSUME VideoTypes, TurnsInv, OrdersInv, NEW c \in Commands, Moves(c), turn' \in Seq(Commands),
           sent[c].ours, sent'[c].pc # "sent",
           sent'[c].pc \in CameraPc => sent[c].kind = "camera",
           sent'[c].pc \in ScreenPc => sent[c].kind = "screen",
           sent'[c].pc \in BegunPc => \/ sent[c].pc \in BegunPc /\ sent'[c].call = sent[c].call
                                      \/ carried \in Calls /\ sent'[c].call = carried,
           turn' = turn \/ (V!HasTurn(c) /\ sent[c].kind = "camera" /\ sent'[c].pc \notin BegunPc)
               \/ (turn' = Append(turn, c) /\ sent'[c].pc = "waiting"),
           sent[c].kind = "camera" /\ sent'[c].pc \in (CameraPc \cup EitherPc) \ {"waiting"} => V!HasTurn(c),
           sent[c].kind = "camera" /\ sent'[c].pc \in {"publishing", "recording"} => sent'[c].first
    PROVE  OrdersInv' /\ TurnsInv'
<1> USE DEF Moves
<1>1. TurnsInv' BY DEF TurnsInv
<1>2. ASSUME NEW b \in Commands PROVE OrderInv(b)'
  <2>1. OrderInv(b) BY DEF OrdersInv
  <2>2. V!HasTurn(b) => V!HasTurn(b)' \/ (V!HasTurn(c) /\ sent[c].kind = "camera" /\ sent'[c].pc \notin BegunPc)
    <3>1. ASSUME turn' = Append(turn, c), turn # <<>> PROVE turn' # <<>> /\ Head(turn') = Head(turn)
      BY <3>1 DEF VideoTypes
    <3> QED BY <3>1 DEF V!HasTurn
  <2>3. CASE b # c
    <3>1. sent[b].kind = "camera" /\ sent[b].pc \in (CameraPc \cup EitherPc) \ {"waiting"} => V!HasTurn(b)'
      <4>1. SUFFICES ASSUME sent[b].kind = "camera", sent[b].pc \in (CameraPc \cup EitherPc) \ {"waiting"} PROVE V!HasTurn(b)'
        OBVIOUS
      <4>2. V!HasTurn(b) BY <2>1, <4>1 DEF OrderInv
      <4>3. ~V!HasTurn(c) BY <2>3, <4>2 DEF V!HasTurn
      <4> QED BY <2>2, <4>2, <4>3
    <3> QED BY <2>1, <2>3, <3>1 DEF OrderInv
  <2>4. CASE b = c
    <3>1. sent'[c].pc \in BegunPc =>
            /\ sent'[c].call \in Calls
            /\ \A k \in Calls : k # sent'[c].call => hungUp[k] \in {"unborn", "done"}
      <4>1. ASSUME carried \in Calls PROVE \A k \in Calls : k # carried => hungUp[k] \in {"unborn", "done"}
        BY <4>1, OneCall, VideoAssumption, MicAssumption DEF TurnsInv
      <4> QED BY <2>1, <2>4, <4>1 DEF OrderInv
    <3>2. sent[c].kind = "camera" /\ sent'[c].pc \in (CameraPc \cup EitherPc) \ {"waiting"} => V!HasTurn(c)'
      BY <2>2, <2>4 DEF BegunPc
    <3> QED BY <2>1, <2>4, <3>1, <3>2 DEF OrderInv
  <2> QED BY <2>3, <2>4
<1>3. \A a, b \in Commands : sent'[a].ours /\ sent'[b].ours /\ sent'[a].seq = sent'[b].seq => a = b BY DEF OrdersInv
<1> QED BY <1>1, <1>2, <1>3 DEF OrdersInv

LEMMA MovesHeld ==
    ASSUME HeldInv, NEW c \in Commands, Moves(c),
           lit' \subseteq lit \cup LitBy(c)', loud' \subseteq loud \cup LoudBy(c)',
           \A x \in lit' : x \in LitBy(c) \/ x \in LitIn(video) => x \in LitBy(c)' \/ x \in LitIn(video'),
           \A x \in loud' : x \in LoudBy(c) \/ x \in LoudIn(video) => x \in LoudBy(c)' \/ x \in LoudIn(video')
    PROVE  HeldInv'
<1>1. \A b \in Commands : b # c => LitBy(b)' = LitBy(b) /\ LoudBy(b)' = LoudBy(b) BY DEF Moves, LitBy, LoudBy
<1>2. LitIn(video)' = LitIn(video') /\ LoudIn(video)' = LoudIn(video') BY DEF LitIn, LoudIn
<1>3. torn' = torn BY DEF Moves
<1>4. \A x \in lit' : x \in torn' \/ x \in LitIn(video)' \/ \E b \in Commands : x \in LitBy(b)'
  BY <1>1, <1>2, <1>3 DEF HeldInv
<1>5. \A x \in loud' : x \in torn' \/ x \in LoudIn(video)' \/ \E b \in Commands : x \in LoudBy(b)'
  BY <1>1, <1>2, <1>3 DEF HeldInv
<1> QED BY <1>4, <1>5 DEF HeldInv

\* What the others look at is as it was, or nothing.
LEMMA MovesState ==
    ASSUME OrdersInv, StateInv, NEW c \in Commands, Moves(c),
           Bare(video') \/ (video'.session \in Calls /\ hungUp[video'.session] \in {"no", "taken"}),
           \/ video'.camera = None
           \/ video'.session = video.session /\ (video'.camera = video.camera \/ V!HasTurn(c)),
           \/ video'.sound # None => video'.sound.cap = None
           \/ video'.session = video.session /\ video'.scrAsked = video.scrAsked
                /\ (video'.sound = video.sound \/ (V!Latest(c) /\ sent[c].ours)),
           CameraFree(c)', SoundFree(c)'
    PROVE  StateInv'
<1>1. (Bare(video) \/ Kept(video))' BY DEF Bare, Kept, Moves
<1>2. ASSUME NEW b \in Commands, b # c PROVE CameraFree(b)'
  <2>1. CameraFree(b) /\ sent'[b] = sent[b] BY <1>2 DEF StateInv, Moves
  <2>2. CASE video'.camera = None BY <1>2, <2>1, <2>2 DEF CameraFree, V!Live
  <2>3. CASE video'.session = video.session /\ video'.camera = video.camera BY <2>1, <2>3 DEF CameraFree, V!Live
  <2>4. CASE V!HasTurn(c)
    <3>1. ~(sent'[b].kind = "camera" /\ sent'[b].pc \in OpeningPc)
      BY <1>2, <2>1, <2>4, OneTurn DEF OpeningPc, CameraPc, EitherPc
    <3> QED BY <3>1 DEF CameraFree
  <2> QED BY <2>2, <2>3, <2>4
<1>3. ASSUME NEW b \in Commands, b # c PROVE SoundFree(b)'
  <2>1. SoundFree(b) /\ sent'[b] = sent[b] BY <1>3 DEF StateInv, Moves
  <2>2. CASE video'.sound # None => video'.sound.cap = None BY <2>2 DEF SoundFree
  <2>3. CASE video'.session = video.session /\ video'.scrAsked = video.scrAsked /\ video'.sound = video.sound
    BY <2>1, <2>3 DEF SoundFree, V!Latest, V!Live
  <2>4. CASE /\ video'.session = video.session /\ video'.scrAsked = video.scrAsked
             /\ V!Latest(c) /\ sent[c].ours
    <3>1. SUFFICES ASSUME sent[b].kind = "screen", V!Latest(b)',
                          sent[b].pc \in {"quieting", "taking", "picking", "picked", "publishing", "sounding", "sounded"}
                   PROVE FALSE
      BY <2>1 DEF SoundFree
    <3>2. sent[b].ours BY <3>1 DEF OrdersInv, OrderInv, BegunPc, ScreenPc, EitherPc
    <3>3. sent[b].seq = sent[c].seq BY <2>1, <2>4, <3>1 DEF V!Latest
    <3> QED BY <1>3, <2>4, <3>2, <3>3 DEF OrdersInv
  <2> QED BY <2>2, <2>3, <2>4
<1> QED BY <1>1, <1>2, <1>3 DEF StateInv

\* What a command has kept, its place apart.
Same(c) == /\ sent'[c].kind = sent[c].kind /\ sent'[c].seq = sent[c].seq /\ sent'[c].ours = sent[c].ours
           /\ sent'[c].on = sent[c].on /\ sent'[c].dev = sent[c].dev /\ sent'[c].sound = sent[c].sound
           /\ sent'[c].muted = sent[c].muted
Steps(c) == sent' \in [Commands -> VideoCmd] /\ (\A b \in Commands : b # c => sent'[b] = sent[b]) /\ Same(c)

\* A command that is past its wait ends, and gives its turn on.
LEMMA EndsCase ==
    ASSUME VideoInv, NEW c \in Commands, NEW p \in {"done", "failed"}, V!Ends(c, p), sent[c].pc \in BegunPc,
           sent[c].kind = "camera" => V!HasTurn(c)
    PROVE  /\ Steps(c) /\ sent'[c].pc = p /\ sent'[c].call = sent[c].call /\ sent'[c].took = None
           /\ turn' \in Seq(Commands)
           /\ turn' = turn \/ (V!HasTurn(c) /\ sent[c].kind = "camera" /\ sent'[c].pc \notin BegunPc)
           /\ LitBy(c)' = {} /\ LoudBy(c)' = {}
<1> USE DEF V!Ends, VideoInv
<1>1. p \in VideoPc /\ p \notin BegunPc BY DEF VideoPc, BegunPc, CameraPc, ScreenPc, EitherPc
<1>2. /\ Steps(c) /\ sent'[c].pc = p /\ sent'[c].call = sent[c].call
      /\ sent'[c].took = None /\ sent'[c].first = sent[c].first
  <2>1. sent[c] \in VideoCmd /\ sent \in [Commands -> VideoCmd] BY DEF VideoInv, VideoTypes
  <2>2. [sent[c] EXCEPT !.pc = p, !.took = None] \in VideoCmd
    BY <2>1, <1>1 DEF VideoCmd, VideoPc, BegunPc, CameraPc, ScreenPc, EitherPc
  <2> QED BY <2>1, <2>2, <1>1 DEF VideoCmd, Steps, Same
<1>3. turn' \in Seq(Commands) BY DEF VideoTypes, V!HasTurn
<1>4. LitBy(c)' = {} /\ LoudBy(c)' = {} BY <1>2 DEF LitBy, LoudBy
<1> QED BY <1>1, <1>2, <1>3, <1>4

\* A command that is overtaken, or comes to no call.
LEMMA AsideKeeps ==
    ASSUME VideoInv, NEW c \in Commands, sent[c].pc = "sent", NEW p \in {"done", "failed"}, V!Goes(c, p),
           UNCHANGED <<carried, hungUp, torn, turn, lit, loud, buttons>>,
           video' = video \/ (carried # None /\ video' = V!StateOf(carried))
    PROVE  VideoInv'
<1> USE DEF VideoInv
<1>1. sent' = [sent EXCEPT ![c].pc = p] /\ sent[c].ours BY DEF V!Goes, OrdersInv, OrderInv
<1>2. /\ Steps(c) /\ sent'[c].pc = p /\ sent'[c].call = sent[c].call
      /\ sent'[c].took = sent[c].took /\ sent'[c].first = sent[c].first
  <2>1. sent[c] \in VideoCmd /\ sent \in [Commands -> VideoCmd] BY DEF VideoInv, VideoTypes
  <2>2. [sent[c] EXCEPT !.pc = p] \in VideoCmd
    BY <2>1, <1>1 DEF VideoCmd, VideoPc, BegunPc, CameraPc, ScreenPc, EitherPc
  <2> QED BY <2>1, <2>2, <1>1 DEF VideoCmd, Steps, Same
<1>3. Moves(c) BY <1>2 DEF Moves, Steps, Same
<1>4. /\ video' \in VideoState /\ LitIn(video') = LitIn(video) /\ LoudIn(video') = LoudIn(video)
      /\ video' = video \/ (video'.camera = None /\ video'.sound = None /\ Bare(video'))
  <2>1. CASE carried # None /\ video' = V!StateOf(carried)
    <3>1. carried \in Calls /\ \A j \in Calls : j # carried => hungUp[j] \in {"unborn", "done"}
      BY <2>1, OneCall DEF VideoTypes, TurnsInv
    <3> QED BY <2>1, <3>1, StateOfCall, FreshState
  <2> QED BY <2>1 DEF VideoTypes
<1>5. VideoTypes' BY <1>3, <1>4 DEF Moves, VideoTypes
<1>6. OrdersInv' /\ TurnsInv'
  BY <1>1, <1>2, <1>3, MovesOrders DEF VideoTypes, CameraPc, ScreenPc, EitherPc, BegunPc
<1>7. HeldInv'
  <2>1. LitBy(c) = {} /\ LoudBy(c) = {} BY DEF LitBy, LoudBy
  <2> QED BY <1>3, <1>4, <2>1, MovesHeld
<1>8. StateInv'
  <2>1. CameraFree(c)' /\ SoundFree(c)' BY <1>2 DEF CameraFree, SoundFree, OpeningPc
  <2>2. Bare(video') \/ (video'.session \in Calls /\ hungUp[video'.session] \in {"no", "taken"})
    BY <1>4 DEF StateInv, Kept
  <2> QED BY <1>3, <1>4, <2>1, <2>2, MovesState
<1> QED BY <1>5, <1>6, <1>7, <1>8

LEMMA ArrivesCameraKeeps == ASSUME VideoInv, NEW c \in Commands, V!ArrivesCamera(c) PROVE VideoInv'
<1> USE DEF VideoInv
<1>1. /\ sent[c].pc = "sent" /\ sent[c].kind = "camera" /\ UNCHANGED <<carried, hungUp, torn, lit, loud, buttons>>
      /\ sent[c].ours /\ sent[c] \in VideoCmd /\ 1 <= sent[c].seq
  BY DEF V!ArrivesCamera, OrdersInv, OrderInv, VideoTypes
<1>2. V!Wish(c) \in VideoWish BY <1>1 DEF V!Wish, VideoWish, VideoCmd
<1>3. CASE carried = None
  <2>1. V!Goes(c, "failed") /\ UNCHANGED <<video, turn>> BY <1>3 DEF V!ArrivesCamera
  <2> QED BY <1>1, <2>1, AsideKeeps
<1>4. CASE carried # None
  <2>1. /\ carried \in Calls /\ hungUp[carried] = "no"
        /\ \A j \in Calls : j # carried => hungUp[j] \in {"unborn", "done"}
    BY <1>4, OneCall DEF VideoTypes, TurnsInv
  <2> DEFINE s == V!StateOf(carried)
  <2>2. /\ s \in VideoState /\ s.session = carried /\ LitIn(s) = LitIn(video) /\ LoudIn(s) = LoudIn(video)
        /\ s = video \/ (s = V!Fresh(carried) /\ Bare(s))
    BY <2>1, StateOfCall
  <2>3. CASE sent[c].seq <= s.camAsked
    <3>1. V!Goes(c, "done") /\ video' = s /\ turn' = turn BY <1>1, <1>4, <2>3 DEF V!ArrivesCamera
    <3> QED BY <1>1, <1>4, <3>1, AsideKeeps
  <2>4. CASE ~(sent[c].seq <= s.camAsked)
    <3>1. /\ sent' = [sent EXCEPT ![c].pc = "waiting", ![c].call = carried] /\ turn' = Append(turn, c)
          /\ video' = [s EXCEPT !.camAsked = sent[c].seq, !.wish = V!Wish(c)]
      BY <1>1, <1>4, <2>4 DEF V!ArrivesCamera
    <3>2. /\ Steps(c) /\ sent'[c].pc = "waiting" /\ sent'[c].call = carried
          /\ sent'[c].took = sent[c].took /\ sent'[c].first = sent[c].first
      <4>1. sent[c] \in VideoCmd /\ sent \in [Commands -> VideoCmd] BY DEF VideoInv, VideoTypes
      <4>2. [sent[c] EXCEPT !.pc = "waiting", !.call = carried] \in VideoCmd
        BY <4>1, <2>1, <3>1 DEF VideoCmd, VideoPc, BegunPc, CameraPc, ScreenPc, EitherPc
      <4> QED BY <4>1, <4>2, <2>1, <3>1 DEF VideoCmd, Steps, Same
    <3>3. Moves(c) BY <1>1, <3>2 DEF Moves, Steps, Same
    <3> HIDE DEF s
    <3>4. /\ video' \in VideoState /\ video'.session = carried /\ video'.camera = s.camera /\ video'.screen = s.screen
          /\ video'.sound = s.sound /\ video'.scrAsked = s.scrAsked
      BY <1>1, <1>2, <2>2, <3>1 DEF VideoState, VideoCmd
    <3>5. turn' \in Seq(Commands) BY <3>1 DEF VideoTypes
    <3>6. VideoTypes' BY <1>1, <3>3, <3>4, <3>5 DEF Moves, VideoTypes
    <3>7. OrdersInv' /\ TurnsInv'
      BY <1>1, <2>1, <3>1, <3>2, <3>3, <3>5, MovesOrders DEF CameraPc, ScreenPc, EitherPc, BegunPc
    <3>8. LitIn(video') = LitIn(video) /\ LoudIn(video') = LoudIn(video) BY <2>2, <3>4 DEF LitIn, LoudIn
    <3>9. HeldInv'
      <4>1. LitBy(c) = {} /\ LoudBy(c) = {} BY <1>1 DEF LitBy, LoudBy
      <4> QED BY <1>1, <3>3, <3>8, <4>1, MovesHeld
    <3>10. StateInv'
      <4>1. CameraFree(c)' /\ SoundFree(c)' BY <3>2 DEF CameraFree, SoundFree, OpeningPc
      <4>2. s = video \/ (s.camera = None /\ s.sound = None) BY <2>1, <2>2, FreshState DEF s
      <4> QED BY <2>1, <2>2, <3>3, <3>4, <4>1, <4>2, MovesState
    <3> QED BY <3>6, <3>7, <3>9, <3>10
  <2> QED BY <2>3, <2>4
<1> QED BY <1>3, <1>4

\* Who was asked for something last is of the call the state is kept for.
LEMMA StandsKept ==
    ASSUME VideoInv, NEW c \in Commands, sent[c].ours, V!Stands(c) \/ V!Latest(c)
    PROVE  Kept(video) /\ V!Live(c)
<1>1. sent[c] \in VideoCmd /\ 1 <= sent[c].seq BY DEF VideoInv, VideoTypes, OrdersInv, OrderInv
<1>2. V!Wish(c).dev # "unasked" BY <1>1, VideoAssumption, MicAssumption DEF V!Wish, VideoCmd
<1>3. V!Wish(c) # V!NoWish BY <1>2 DEF V!NoWish
<1>4. ~Bare(video) /\ V!Live(c) BY <1>1, <1>3 DEF V!Stands, V!Latest, Bare, VideoCmd
<1> QED BY <1>4 DEF VideoInv, StateInv

LEMMA BegunFacts ==
    ASSUME VideoInv, NEW c \in Commands, sent[c].pc \in BegunPc
    PROVE  /\ sent[c] \in VideoCmd /\ sent[c].ours /\ sent[c].call \in Calls
           /\ \A j \in Calls : j # sent[c].call => hungUp[j] \in {"unborn", "done"}
           /\ sent[c].kind = "camera" /\ sent[c].pc \in (CameraPc \cup EitherPc) \ {"waiting"} => V!HasTurn(c)
BY DEF VideoInv, VideoTypes, OrdersInv, OrderInv

\* A camera's command that ends, and leaves of the state what it leaves.
LEMMA EndsKeeps ==
    ASSUME VideoInv, NEW c \in Commands, NEW p \in {"done", "failed"}, V!Ends(c, p), sent[c].pc \in BegunPc,
           sent[c].kind = "camera" => V!HasTurn(c), UNCHANGED <<carried, hungUp, torn, loud, buttons>>,
           video' \in VideoState, video'.session = video.session, video'.sound = video.sound,
           video'.scrAsked = video.scrAsked, video'.screen = video.screen,
           video'.camera = video.camera \/ V!HasTurn(c), Bare(video') \/ Kept(video),
           LoudBy(c) = {}, lit' \subseteq lit, \A x \in lit' : x \in LitBy(c) \/ x \in LitIn(video) => x \in LitIn(video')
    PROVE  VideoInv'
<1> USE DEF VideoInv
<1>1. /\ Steps(c) /\ sent'[c].pc = p /\ sent'[c].call = sent[c].call /\ sent'[c].took = None
      /\ turn' \in Seq(Commands)
      /\ turn' = turn \/ (V!HasTurn(c) /\ sent[c].kind = "camera" /\ sent'[c].pc \notin BegunPc)
      /\ LitBy(c)' = {} /\ LoudBy(c)' = {}
  BY EndsCase
<1>2. Moves(c) BY <1>1 DEF Moves, Steps, Same
<1>3. sent[c].ours BY BegunFacts
<1>4. VideoTypes' BY <1>1, <1>2 DEF Moves, VideoTypes
<1>5. OrdersInv' /\ TurnsInv'
  BY <1>1, <1>2, <1>3, MovesOrders DEF CameraPc, ScreenPc, EitherPc, BegunPc
<1>6. HeldInv'
  <2>1. LoudIn(video') = LoudIn(video) BY DEF LoudIn
  <2> QED BY <1>1, <1>2, <2>1, MovesHeld
<1>7. StateInv'
  <2>1. CameraFree(c)' /\ SoundFree(c)' BY <1>1 DEF CameraFree, SoundFree, OpeningPc
  <2>2. Bare(video') \/ (video'.session \in Calls /\ hungUp[video'.session] \in {"no", "taken"}) BY DEF Kept
  <2> QED BY <1>2, <2>1, <2>2, MovesState
<1> QED BY <1>4, <1>5, <1>6, <1>7

LEMMA BeginsCameraKeeps == ASSUME VideoInv, NEW c \in Commands, V!BeginsCamera(c) PROVE VideoInv'
<1> USE DEF VideoInv
<1>1. V!HasTurn(c) /\ sent[c].pc = "waiting" /\ UNCHANGED <<carried, hungUp, torn, lit, loud, buttons>>
  BY DEF V!BeginsCamera
<1>2. sent[c].pc \in BegunPc BY <1>1 DEF BegunPc, CameraPc
<1>3. sent[c] \in VideoCmd /\ sent[c].ours /\ sent[c].call \in Calls BY <1>2, BegunFacts
<1>4. LitBy(c) = {} /\ LoudBy(c) = {} BY <1>1 DEF LitBy, LoudBy
<1>5. video \in VideoState /\ video.camera \in {None} \cup CameraState BY DEF VideoTypes, VideoState
<1>6. sent[c].kind = "camera" BY <1>1 DEF OrdersInv, OrderInv, CameraPc
<1> DEFINE camera == video.camera
           same == camera # None /\ camera.cap # None /\ camera.dev = sent[c].dev
           took == IF camera = None THEN None ELSE camera.cap
<1>7. CASE ~V!Stands(c) \/ (camera = None /\ ~sent[c].on)
  <2>1. V!Ends(c, "done") /\ UNCHANGED video BY <1>7 DEF V!BeginsCamera
  <2>2. Bare(video) \/ Kept(video) BY DEF StateInv
  <2> QED BY <1>1, <1>2, <1>4, <1>5, <2>1, <2>2, EndsKeeps
<1>8. ASSUME V!Stands(c), camera # None, ~sent[c].on PROVE VideoInv'
  <2>1. /\ video' = [video EXCEPT !.camera = [@ EXCEPT !.muted = TRUE, !.cap = None]]
        /\ IF took = None THEN V!Ends(c, "done")
           ELSE sent' = [sent EXCEPT ![c].pc = "closing", ![c].took = took] /\ UNCHANGED turn
    BY <1>8 DEF V!BeginsCamera
  <2>2. Kept(video) BY <1>3, <1>8, StandsKept
  <2>3. /\ video' \in VideoState /\ video'.session = video.session /\ video'.sound = video.sound
        /\ video'.scrAsked = video.scrAsked /\ video'.screen = video.screen
        /\ video'.camera.cap = None
    <3> DEFINE r == [camera EXCEPT !.muted = TRUE, !.cap = None]
    <3>1. r \in CameraState /\ r.cap = None BY <1>5, <1>8 DEF CameraState
    <3>2. video' = [video EXCEPT !.camera = r] BY <2>1
    <3> HIDE DEF r
    <3> QED BY <1>5, <3>1, <3>2 DEF VideoState
  <2>4. CASE took = None
    <3>1. LitIn(video) \subseteq LitIn(video') BY <2>3, <2>4, VideoAssumption, MicAssumption DEF LitIn
    <3> QED BY <1>1, <1>2, <1>4, <1>5, <2>1, <2>2, <2>3, <2>4, <3>1, EndsKeeps
  <2>5. CASE took # None
    <3>1. took \in Commands BY <1>5, <1>8, <2>5 DEF CameraState
    <3>2. sent' = [sent EXCEPT ![c].pc = "closing", ![c].took = took] /\ turn' = turn BY <2>1, <2>5
    <3> HIDE DEF took
    <3>3. /\ Steps(c) /\ sent'[c].pc = "closing" /\ sent'[c].call = sent[c].call
          /\ sent'[c].took = took /\ sent'[c].first = sent[c].first
      <4>1. sent[c] \in VideoCmd /\ sent \in [Commands -> VideoCmd] BY DEF VideoInv, VideoTypes
      <4>2. [sent[c] EXCEPT !.pc = "closing", !.took = took] \in VideoCmd
        BY <4>1, <3>1, <3>2 DEF VideoCmd, VideoPc, BegunPc, CameraPc, ScreenPc, EitherPc
      <4> QED BY <4>1, <4>2, <3>1, <3>2 DEF VideoCmd, Steps, Same
    <3>4. Moves(c) BY <1>1, <3>3 DEF Moves, Steps, Same
    <3>5. VideoTypes' BY <1>1, <2>3, <3>2, <3>4 DEF Moves, VideoTypes
    <3>6. OrdersInv' /\ TurnsInv'
      BY <1>1, <1>2, <1>3, <1>6, <3>2, <3>3, <3>4, MovesOrders DEF VideoTypes, CameraPc, ScreenPc, EitherPc, BegunPc
    <3>7. HeldInv'
      <4>1. LitBy(c)' = {took} /\ LoudBy(c)' = {} BY <3>3 DEF LitBy, LoudBy
      <4>2. LoudIn(video') = LoudIn(video) BY <2>3 DEF LoudIn
      <4>3. \A x \in LitIn(video) : x = took \/ x \in LitIn(video') BY <2>3 DEF LitIn, took
      <4> QED BY <1>1, <1>4, <3>4, <4>1, <4>2, <4>3, MovesHeld
    <3>8. StateInv'
      <4>1. CameraFree(c)' /\ SoundFree(c)' BY <3>3 DEF CameraFree, SoundFree, OpeningPc
      <4> QED BY <1>1, <2>2, <2>3, <3>4, <4>1, MovesState DEF Kept
    <3> QED BY <3>5, <3>6, <3>7, <3>8
  <2> QED BY <2>4, <2>5
<1>9. ASSUME V!Stands(c), sent[c].on, same PROVE VideoInv'
  <2>1. video' = [video EXCEPT !.camera.muted = FALSE] /\ V!Ends(c, "done") BY <1>9 DEF V!BeginsCamera
  <2>2. Kept(video) BY <1>3, <1>9, StandsKept
  <2>3. /\ video' \in VideoState /\ video'.session = video.session /\ video'.sound = video.sound
        /\ video'.scrAsked = video.scrAsked /\ video'.screen = video.screen
        /\ video'.camera.cap = video.camera.cap /\ video'.camera # None
    <3>1. [camera EXCEPT !.muted = FALSE] \in CameraState BY <1>5, <1>9 DEF CameraState
    <3>2. video' = [video EXCEPT !.camera = [camera EXCEPT !.muted = FALSE]] BY <1>5, <1>9, <2>1 DEF VideoState
    <3>3. [camera EXCEPT !.muted = FALSE].cap = camera.cap BY <1>5, <1>9 DEF CameraState
    <3>4. [camera EXCEPT !.muted = FALSE] # None BY <3>1, VideoAssumption, MicAssumption DEF CameraState
    <3> QED BY <1>5, <3>1, <3>2, <3>3, <3>4 DEF VideoState
  <2>4. LitIn(video) \subseteq LitIn(video') BY <2>3 DEF LitIn
  <2> QED BY <1>1, <1>2, <1>4, <2>1, <2>2, <2>3, <2>4, EndsKeeps
<1>10. ASSUME V!Stands(c), sent[c].on, ~same PROVE VideoInv'
  <2> DEFINE p == IF took = None THEN "opening" ELSE "switching"
             f == (camera = None)
  <2>1. /\ video' = IF camera = None THEN video ELSE [video EXCEPT !.camera.cap = None]
        /\ sent' = [sent EXCEPT ![c].pc = p, ![c].took = took, ![c].first = f] /\ turn' = turn
    BY <1>10 DEF V!BeginsCamera
  <2>2. Kept(video) BY <1>3, <1>10, StandsKept
  <2>3. /\ video' \in VideoState /\ video'.session = video.session /\ video'.sound = video.sound
        /\ video'.scrAsked = video.scrAsked /\ video'.screen = video.screen
        /\ f => video'.camera = None
        /\ video'.camera # None => video'.camera.cap = None
    BY <1>5, <2>1 DEF VideoState, CameraState
  <2>4. took \in Commands \cup {None} /\ p \in {"opening", "switching"} /\ f \in BOOLEAN BY <1>5 DEF CameraState
  <2>5. p = "opening" => took = None OBVIOUS
  <2>6. \A x \in LitIn(video) : x = took \/ x \in LitIn(video') BY <2>3 DEF LitIn
  <2> HIDE DEF took, p, f
  <2>7. /\ Steps(c) /\ sent'[c].pc = p /\ sent'[c].call = sent[c].call
        /\ sent'[c].took = took /\ sent'[c].first = f
    <3>1. sent[c] \in VideoCmd /\ sent \in [Commands -> VideoCmd] BY DEF VideoInv, VideoTypes
    <3>2. [sent[c] EXCEPT !.pc = p, !.took = took, !.first = f] \in VideoCmd
      BY <3>1, <2>1, <2>4 DEF VideoCmd, VideoPc, BegunPc, CameraPc, ScreenPc, EitherPc
    <3> QED BY <3>1, <3>2, <2>1, <2>4 DEF VideoCmd, Steps, Same
  <2>8. Moves(c) BY <1>1, <2>7 DEF Moves, Steps, Same
  <2>9. VideoTypes' BY <1>1, <2>1, <2>3, <2>8 DEF Moves, VideoTypes
  <2>10. OrdersInv' /\ TurnsInv'
    BY <1>1, <1>2, <1>3, <1>6, <2>1, <2>4, <2>7, <2>8, MovesOrders
       DEF VideoTypes, CameraPc, ScreenPc, EitherPc, BegunPc
  <2>11. HeldInv'
    <3>1. LitBy(c)' = (IF took = None THEN {} ELSE {took}) /\ LoudBy(c)' = {}
      BY <2>4, <2>7 DEF LitBy, LoudBy, p
    <3>2. LoudIn(video') = LoudIn(video) BY <2>3 DEF LoudIn
    <3>3. \A x \in LitIn(video) : x \in LitBy(c)' \/ x \in LitIn(video')
      BY <2>6, <3>1, VideoAssumption, MicAssumption DEF LitIn
    <3> QED BY <1>1, <1>4, <2>8, <3>1, <3>2, <3>3, MovesHeld
  <2>12. StateInv'
    <3>1. CameraFree(c)' BY <2>3, <2>4, <2>7 DEF CameraFree
    <3>2. SoundFree(c)' BY <1>6, <2>7 DEF SoundFree, Steps, Same
    <3> QED BY <1>1, <2>2, <2>3, <2>8, <3>1, <3>2, MovesState DEF Kept
  <2> QED BY <2>9, <2>10, <2>11, <2>12
<1> QED BY <1>7, <1>8, <1>9, <1>10

LEMMA SwitchesKeeps == ASSUME VideoInv, NEW c \in Commands, V!Switches(c) PROVE VideoInv'
<1> USE DEF VideoInv
<1>1. /\ sent[c].pc = "switching" /\ lit' = lit \ {sent[c].took} /\ UNCHANGED <<carried, hungUp, torn, video, loud, buttons>>
      /\ IF V!Stands(c) THEN sent' = [sent EXCEPT ![c].pc = "opening"] /\ UNCHANGED turn ELSE V!Ends(c, "done")
  BY DEF V!Switches
<1>2. sent[c].pc \in BegunPc BY <1>1 DEF BegunPc, CameraPc
<1>3. /\ sent[c] \in VideoCmd /\ sent[c].ours /\ sent[c].call \in Calls /\ sent[c].kind = "camera" /\ V!HasTurn(c)
  BY <1>1, <1>2, BegunFacts DEF OrdersInv, OrderInv, CameraPc
<1>4. LitBy(c) = {sent[c].took} /\ LoudBy(c) = {} BY <1>1 DEF LitBy, LoudBy
<1>5. video \in VideoState /\ (Bare(video) \/ Kept(video)) BY DEF VideoTypes, StateInv
<1>6. CASE ~V!Stands(c) BY <1>1, <1>2, <1>3, <1>4, <1>5, <1>6, EndsKeeps
<1>7. CASE V!Stands(c)
  <2>1. sent' = [sent EXCEPT ![c].pc = "opening"] /\ turn' = turn BY <1>1, <1>7
  <2>2. /\ Steps(c) /\ sent'[c].pc = "opening" /\ sent'[c].call = sent[c].call
        /\ sent'[c].took = sent[c].took /\ sent'[c].first = sent[c].first
    <3>1. sent[c] \in VideoCmd /\ sent \in [Commands -> VideoCmd] BY DEF VideoInv, VideoTypes
    <3>2. [sent[c] EXCEPT !.pc = "opening"] \in VideoCmd
      BY <3>1, <2>1 DEF VideoCmd, VideoPc, BegunPc, CameraPc, ScreenPc, EitherPc
    <3> QED BY <3>1, <3>2, <2>1 DEF VideoCmd, Steps, Same
  <2>3. Moves(c) BY <1>1, <2>2 DEF Moves, Steps, Same
  <2>4. VideoTypes' BY <1>1, <2>1, <2>3 DEF Moves, VideoTypes
  <2>5. OrdersInv' /\ TurnsInv'
    BY <1>1, <1>2, <1>3, <2>1, <2>2, <2>3, MovesOrders DEF VideoTypes, CameraPc, ScreenPc, EitherPc, BegunPc
  <2>6. HeldInv'
    <3>1. LitBy(c)' = {} /\ LoudBy(c)' = {} BY <2>2 DEF LitBy, LoudBy
    <3> QED BY <1>1, <1>4, <2>3, <3>1, MovesHeld
  <2>7. StateInv'
    <3>1. CameraFree(c)' BY <1>1, <2>2 DEF StateInv, CameraFree, V!Live, OpeningPc, Steps, Same
    <3>2. SoundFree(c)' BY <1>3, <2>2 DEF SoundFree, Steps, Same
    <3> QED BY <1>1, <1>5, <2>3, <3>1, <3>2, MovesState DEF Kept
  <2> QED BY <2>4, <2>5, <2>6, <2>7
<1> QED BY <1>6, <1>7

\* A command that goes on, or a screen's that ends.
LEMMA MovesKeeps ==
    ASSUME VideoInv, NEW c \in Commands, Moves(c), sent[c].pc \in BegunPc, sent'[c].call = sent[c].call, turn' = turn,
           sent'[c].pc \in IF sent[c].kind = "camera" THEN (CameraPc \cup EitherPc) \ {"waiting"}
                           ELSE ScreenPc \cup EitherPc \cup {"done", "failed"},
           sent[c].kind = "camera" => V!HasTurn(c),
           sent[c].kind = "camera" /\ sent'[c].pc \in {"publishing", "recording"} => sent'[c].first,
           video' \in VideoState, Bare(video') \/ (video'.session \in Calls /\ hungUp[video'.session] \in {"no", "taken"}),
           \/ video'.camera = None
           \/ video'.session = video.session /\ (video'.camera = video.camera \/ V!HasTurn(c)),
           \/ video'.sound # None => video'.sound.cap = None
           \/ video'.session = video.session /\ video'.scrAsked = video.scrAsked
                /\ (video'.sound = video.sound \/ (V!Latest(c) /\ sent[c].ours)),
           CameraFree(c)', SoundFree(c)',
           lit' \subseteq lit \cup LitBy(c)', loud' \subseteq loud \cup LoudBy(c)',
           lit' \subseteq Commands, loud' \subseteq Commands,
           \A x \in lit' : x \in LitBy(c) \/ x \in LitIn(video) => x \in LitBy(c)' \/ x \in LitIn(video'),
           \A x \in loud' : x \in LoudBy(c) \/ x \in LoudIn(video) => x \in LoudBy(c)' \/ x \in LoudIn(video')
    PROVE  VideoInv'
<1> USE DEF VideoInv
<1>1. sent[c] \in VideoCmd /\ sent[c].ours BY BegunFacts
<1>2. VideoTypes' BY DEF Moves, VideoTypes
<1>3. StateInv' BY MovesState
<1>4. HeldInv' BY MovesHeld
<1>5. OrdersInv' /\ TurnsInv'
  <2>1. sent[c].kind \in {"camera", "screen"} BY <1>1 DEF VideoCmd
  <2>2. CASE sent[c].kind = "camera"
    <3>1. sent'[c].pc \in (CameraPc \cup EitherPc) \ {"waiting"} BY <2>2
    <3>2. sent'[c].pc \notin ScreenPc /\ sent'[c].pc # "sent" BY <3>1 DEF CameraPc, ScreenPc, EitherPc
    <3> QED BY <1>1, <2>2, <3>1, <3>2, MovesOrders DEF VideoTypes
  <2>3. CASE sent[c].kind # "camera"
    <3>1. sent'[c].pc \in ScreenPc \cup EitherPc \cup {"done", "failed"} BY <2>3
    <3>2. sent'[c].pc \notin CameraPc /\ sent'[c].pc # "sent" BY <3>1 DEF CameraPc, ScreenPc, EitherPc
    <3> QED BY <1>1, <2>1, <2>3, <3>1, <3>2, MovesOrders DEF VideoTypes
  <2> QED BY <2>2, <2>3
<1> QED BY <1>2, <1>3, <1>4, <1>5

\* What the step of a command that leaves the state alone need not show.
LEMMA StateStays ==
    ASSUME VideoInv, UNCHANGED video
    PROVE  /\ video' \in VideoState /\ (Bare(video') \/ (video'.session \in Calls /\ hungUp[video'.session] \in {"no", "taken"}))
           /\ video'.session = video.session /\ video'.camera = video.camera /\ video'.sound = video.sound
           /\ video'.scrAsked = video.scrAsked /\ LitIn(video') = LitIn(video) /\ LoudIn(video') = LoudIn(video)
BY DEF VideoInv, StateInv, VideoTypes, Kept

LEMMA VideoOpensKeeps == ASSUME VideoInv, NEW c \in Commands, V!Opens(c) PROVE VideoInv'
<1> USE DEF VideoInv
<1>1. sent[c].pc = "opening" /\ UNCHANGED <<carried, hungUp, torn, video, loud, buttons>> BY DEF V!Opens
<1>2. sent[c].pc \in BegunPc BY <1>1 DEF BegunPc, CameraPc
<1>3. /\ sent[c] \in VideoCmd /\ sent[c].ours /\ sent[c].call \in Calls /\ sent[c].kind = "camera" /\ V!HasTurn(c)
  BY <1>1, <1>2, BegunFacts DEF OrdersInv, OrderInv, CameraPc
<1>4. LitBy(c) = {} /\ LoudBy(c) = {} BY <1>1 DEF LitBy, LoudBy
<1>5. video \in VideoState /\ (Bare(video) \/ Kept(video)) BY DEF VideoTypes, StateInv
<1>6. CASE V!Ends(c, "failed") /\ UNCHANGED lit BY <1>1, <1>2, <1>3, <1>4, <1>5, <1>6, EndsKeeps
<1>7. CASE lit' = lit \cup {c} /\ V!Goes(c, "opened") /\ UNCHANGED turn
  <2>1. sent' = [sent EXCEPT ![c].pc = "opened"] BY <1>7 DEF V!Goes
  <2>2. /\ Steps(c) /\ sent'[c].pc = "opened" /\ sent'[c].call = sent[c].call
        /\ sent'[c].took = sent[c].took /\ sent'[c].first = sent[c].first
    <3>1. sent[c] \in VideoCmd /\ sent \in [Commands -> VideoCmd] BY DEF VideoInv, VideoTypes
    <3>2. [sent[c] EXCEPT !.pc = "opened"] \in VideoCmd
      BY <3>1, <2>1 DEF VideoCmd, VideoPc, BegunPc, CameraPc, ScreenPc, EitherPc
    <3> QED BY <3>1, <3>2, <2>1 DEF VideoCmd, Steps, Same
  <2>3. Moves(c) BY <1>1, <2>2 DEF Moves, Steps, Same
  <2>4. LitBy(c)' = {c} /\ LoudBy(c)' = {} BY <2>2 DEF LitBy, LoudBy
  <2>5. CameraFree(c)' BY <1>1, <1>3, <2>2 DEF StateInv, CameraFree, V!Live, OpeningPc
  <2>6. SoundFree(c)' BY <1>3, <2>2 DEF SoundFree, Steps, Same
  <2>7. lit' \subseteq Commands /\ loud' \subseteq Commands BY <1>1, <1>7 DEF VideoTypes
  <2> QED BY <1>1, <1>2, <1>3, <1>4, <1>7, <2>2, <2>3, <2>4, <2>5, <2>6, <2>7, StateStays, MovesKeeps
             DEF CameraPc, EitherPc
<1> QED BY <1>6, <1>7 DEF V!Opens

LEMMA InstallsKeeps == ASSUME VideoInv, NEW c \in Commands, V!Installs(c) PROVE VideoInv'
<1> USE DEF VideoInv
<1>1. sent[c].pc = "opened" /\ UNCHANGED <<carried, hungUp, torn, lit, loud, buttons>> BY DEF V!Installs
<1>2. sent[c].pc \in BegunPc BY <1>1 DEF BegunPc, CameraPc
<1>3. /\ sent[c] \in VideoCmd /\ sent[c].ours /\ sent[c].call \in Calls /\ sent[c].kind = "camera" /\ V!HasTurn(c)
  BY <1>1, <1>2, BegunFacts DEF OrdersInv, OrderInv, CameraPc
<1>4. LitBy(c) = {c} /\ LoudBy(c) = {} BY <1>1 DEF LitBy, LoudBy
<1>5. lit' \subseteq Commands /\ loud' \subseteq Commands BY <1>1 DEF VideoTypes
<1>6. CASE V!Stands(c) /\ sent[c].first
  <2>0. UNCHANGED <<video, turn>> BY <1>6 DEF V!Installs
  <2>1. sent' = [sent EXCEPT ![c].pc = "publishing"] BY <1>6 DEF V!Installs, V!Goes
  <2>2. /\ Steps(c) /\ sent'[c].pc = "publishing" /\ sent'[c].call = sent[c].call
        /\ sent'[c].took = sent[c].took /\ sent'[c].first = sent[c].first
    <3>1. sent[c] \in VideoCmd /\ sent \in [Commands -> VideoCmd] BY DEF VideoInv, VideoTypes
    <3>2. [sent[c] EXCEPT !.pc = "publishing"] \in VideoCmd
      BY <3>1, <2>1 DEF VideoCmd, VideoPc, BegunPc, CameraPc, ScreenPc, EitherPc
    <3> QED BY <3>1, <3>2, <2>1 DEF VideoCmd, Steps, Same
  <2>3. Moves(c) BY <1>1, <2>2 DEF Moves, Steps, Same
  <2>4. LitBy(c)' = {c} /\ LoudBy(c)' = {} BY <2>2 DEF LitBy, LoudBy
  <2>5. CameraFree(c)' BY <1>1, <1>3, <2>0, <2>2 DEF StateInv, CameraFree, V!Live, OpeningPc
  <2>6. SoundFree(c)' BY <1>3, <2>2 DEF SoundFree, Steps, Same
  <2> QED BY <1>1, <1>2, <1>3, <1>4, <1>5, <1>6, <2>0, <2>2, <2>3, <2>4, <2>5, <2>6, StateStays, MovesKeeps
             DEF CameraPc, EitherPc
<1>7. CASE V!Stands(c) /\ ~sent[c].first /\ video.camera # None
  <2> DEFINE r == [muted |-> FALSE, cap |-> c, dev |-> sent[c].dev]
  <2>0. V!Ends(c, "done") BY <1>7 DEF V!Installs
  <2>1. video' = [video EXCEPT !.camera = r] BY <1>7 DEF V!Installs
  <2>2. r \in CameraState /\ r.cap = c /\ r # None
    <3>1. r \in CameraState BY <1>3 DEF CameraState, VideoCmd
    <3> QED BY <3>1, VideoAssumption, MicAssumption DEF CameraState
  <2>3. Kept(video) BY <1>3, <1>7, StandsKept
  <2>4. video.camera.cap = None
    BY <1>1, <1>3, <1>7, StandsKept DEF StateInv, CameraFree, OpeningPc
  <2> HIDE DEF r
  <2>5. /\ video' \in VideoState /\ video'.session = video.session /\ video'.sound = video.sound
        /\ video'.scrAsked = video.scrAsked /\ video'.screen = video.screen
        /\ video'.camera.cap = c /\ video'.camera # None
    BY <2>1, <2>2 DEF VideoState, VideoTypes
  <2>6. LitIn(video) \subseteq LitIn(video') /\ c \in LitIn(video') BY <2>4, <2>5, VideoAssumption, MicAssumption DEF LitIn
  <2> QED BY <1>1, <1>2, <1>3, <1>4, <2>0, <2>3, <2>5, <2>6, EndsKeeps
<1>8. CASE ~(V!Stands(c) /\ sent[c].first) /\ ~(V!Stands(c) /\ video.camera # None)
  <2>0. UNCHANGED <<video, turn>> BY <1>8 DEF V!Installs
  <2>1. sent' = [sent EXCEPT ![c].pc = "closing", ![c].took = c] BY <1>8 DEF V!Installs
  <2>2. /\ Steps(c) /\ sent'[c].pc = "closing" /\ sent'[c].call = sent[c].call
        /\ sent'[c].took = c /\ sent'[c].first = sent[c].first
    <3>1. sent[c] \in VideoCmd /\ sent \in [Commands -> VideoCmd] BY DEF VideoInv, VideoTypes
    <3>2. [sent[c] EXCEPT !.pc = "closing", !.took = c] \in VideoCmd
      BY <3>1, <2>1 DEF VideoCmd, VideoPc, BegunPc, CameraPc, ScreenPc, EitherPc
    <3> QED BY <3>1, <3>2, <2>1 DEF VideoCmd, Steps, Same
  <2>3. Moves(c) BY <1>1, <2>2 DEF Moves, Steps, Same
  <2>4. LitBy(c)' = {c} /\ LoudBy(c)' = {} BY <2>2 DEF LitBy, LoudBy
  <2>5. CameraFree(c)' /\ SoundFree(c)' BY <2>2 DEF CameraFree, SoundFree, OpeningPc
  <2> QED BY <1>1, <1>2, <1>3, <1>4, <1>5, <2>0, <2>2, <2>3, <2>4, <2>5, StateStays, MovesKeeps
             DEF CameraPc, EitherPc
<1> QED BY <1>6, <1>7, <1>8

LEMMA PublishesCameraKeeps == ASSUME VideoInv, NEW c \in Commands, V!PublishesCamera(c) PROVE VideoInv'
<1> USE DEF VideoInv
<1>1. sent[c].pc = "publishing" /\ sent[c].kind = "camera" /\ UNCHANGED <<carried, hungUp, torn, video, turn, lit, loud, buttons>>
  BY DEF V!PublishesCamera
<1>2. sent[c].pc \in BegunPc BY <1>1 DEF BegunPc, EitherPc
<1>3. /\ sent[c] \in VideoCmd /\ sent[c].ours /\ sent[c].call \in Calls /\ V!HasTurn(c) /\ sent[c].first
  BY <1>1, <1>2, BegunFacts DEF OrdersInv, OrderInv, EitherPc
<1>4. LitBy(c) = {c} /\ LoudBy(c) = {} BY <1>1 DEF LitBy, LoudBy
<1>5. lit' \subseteq Commands /\ loud' \subseteq Commands BY <1>1 DEF VideoTypes
<1>6. CASE V!Goes(c, "recording")
  <2>1. sent' = [sent EXCEPT ![c].pc = "recording"] BY <1>6 DEF V!Goes
  <2>2. /\ Steps(c) /\ sent'[c].pc = "recording" /\ sent'[c].call = sent[c].call
        /\ sent'[c].took = sent[c].took /\ sent'[c].first = sent[c].first
    <3>1. sent[c] \in VideoCmd /\ sent \in [Commands -> VideoCmd] BY DEF VideoInv, VideoTypes
    <3>2. [sent[c] EXCEPT !.pc = "recording"] \in VideoCmd
      BY <3>1, <2>1 DEF VideoCmd, VideoPc, BegunPc, CameraPc, ScreenPc, EitherPc
    <3> QED BY <3>1, <3>2, <2>1 DEF VideoCmd, Steps, Same
  <2>3. Moves(c) BY <1>1, <2>2 DEF Moves, Steps, Same
  <2>4. LitBy(c)' = {c} /\ LoudBy(c)' = {} BY <2>2 DEF LitBy, LoudBy
  <2>5. CameraFree(c)' BY <1>1, <1>3, <2>2 DEF StateInv, CameraFree, V!Live, OpeningPc
  <2>6. SoundFree(c)' BY <1>1, <2>2 DEF SoundFree, Steps, Same
  <2> QED BY <1>1, <1>2, <1>3, <1>4, <1>5, <2>2, <2>3, <2>4, <2>5, <2>6, StateStays, MovesKeeps
             DEF CameraPc, EitherPc
<1>7. CASE sent' = [sent EXCEPT ![c].pc = "refused", ![c].took = c]
  <2>2. /\ Steps(c) /\ sent'[c].pc = "refused" /\ sent'[c].call = sent[c].call
        /\ sent'[c].took = c /\ sent'[c].first = sent[c].first
    <3>1. sent[c] \in VideoCmd /\ sent \in [Commands -> VideoCmd] BY DEF VideoInv, VideoTypes
    <3>2. [sent[c] EXCEPT !.pc = "refused", !.took = c] \in VideoCmd
      BY <3>1, <1>7 DEF VideoCmd, VideoPc, BegunPc, CameraPc, ScreenPc, EitherPc
    <3> QED BY <3>1, <3>2, <1>7 DEF VideoCmd, Steps, Same
  <2>3. Moves(c) BY <1>1, <2>2 DEF Moves, Steps, Same
  <2>4. LitBy(c)' = {c} /\ LoudBy(c)' = {} BY <2>2 DEF LitBy, LoudBy
  <2>5. CameraFree(c)' /\ SoundFree(c)' BY <2>2 DEF CameraFree, SoundFree, OpeningPc
  <2> QED BY <1>1, <1>2, <1>3, <1>4, <1>5, <2>2, <2>3, <2>4, <2>5, StateStays, MovesKeeps
             DEF CameraPc, EitherPc
<1> QED BY <1>6, <1>7 DEF V!PublishesCamera

LEMMA RecordsKeeps == ASSUME VideoInv, NEW c \in Commands, V!Records(c) PROVE VideoInv'
<1> USE DEF VideoInv
<1>1. sent[c].pc = "recording" /\ sent[c].kind = "camera" /\ UNCHANGED <<carried, hungUp, torn, lit, loud, buttons>>
  BY DEF V!Records
<1>2. sent[c].pc \in BegunPc BY <1>1 DEF BegunPc, CameraPc
<1>3. /\ sent[c] \in VideoCmd /\ sent[c].ours /\ sent[c].call \in Calls /\ V!HasTurn(c) /\ sent[c].first
  BY <1>1, <1>2, BegunFacts DEF OrdersInv, OrderInv, CameraPc
<1>4. LitBy(c) = {c} /\ LoudBy(c) = {} BY <1>1 DEF LitBy, LoudBy
<1>5. lit' \subseteq Commands /\ loud' \subseteq Commands BY <1>1 DEF VideoTypes
<1> DEFINE r == [muted |-> sent[c].muted \/ ~V!Stands(c), dev |-> sent[c].dev, cap |-> IF V!Stands(c) THEN c ELSE None]
<1>6. ASSUME V!Live(c), video' = [video EXCEPT !.camera = r]
      PROVE  /\ video' \in VideoState /\ video'.session = video.session /\ video'.sound = video.sound
             /\ video'.scrAsked = video.scrAsked /\ video'.screen = video.screen
             /\ LitIn(video) \subseteq LitIn(video') /\ (V!Stands(c) => c \in LitIn(video'))
             /\ (Bare(video') \/ Kept(video))
  <2>1. r \in CameraState /\ r.cap = (IF V!Stands(c) THEN c ELSE None) /\ r # None
    <3>1. (sent[c].muted \/ ~V!Stands(c)) \in BOOLEAN BY <1>3 DEF VideoCmd
    <3>2. r \in CameraState BY <1>3, <3>1 DEF CameraState, VideoCmd
    <3> QED BY <3>2, VideoAssumption, MicAssumption DEF CameraState
  <2>2. video.camera = None BY <1>1, <1>3, <1>6 DEF StateInv, CameraFree, OpeningPc
  <2> HIDE DEF r
  <2>3. /\ video' \in VideoState /\ video'.session = video.session /\ video'.sound = video.sound
        /\ video'.scrAsked = video.scrAsked /\ video'.screen = video.screen /\ video'.camera = r
        /\ video'.camAsked = video.camAsked /\ video'.wish = video.wish
    BY <1>6, <2>1 DEF VideoState, VideoTypes
  <2>4. LitIn(video) \subseteq LitIn(video') /\ (V!Stands(c) => c \in LitIn(video'))
    BY <2>1, <2>2, <2>3 DEF LitIn
  <2>5. Bare(video') \/ Kept(video)
    <3>1. CASE V!Stands(c) BY <1>3, <3>1, StandsKept
    <3>2. CASE ~V!Stands(c) BY <2>1, <2>3, <3>2 DEF StateInv, Bare
    <3> QED BY <3>1, <3>2
  <2> QED BY <2>3, <2>4, <2>5
<1>7. CASE V!Live(c) /\ V!Stands(c)
  <2>1. video' = [video EXCEPT !.camera = r] BY <1>7 DEF V!Records
  <2>2. V!Ends(c, "done") BY <1>7 DEF V!Records
  <2> DEFINE A == /\ video' \in VideoState /\ video'.session = video.session /\ video'.sound = video.sound
                  /\ video'.scrAsked = video.scrAsked /\ video'.screen = video.screen
                  /\ LitIn(video) \subseteq LitIn(video') /\ c \in LitIn(video')
                  /\ (Bare(video') \/ Kept(video))
  <2>3. A BY <1>6, <1>7, <2>1
  <2> QED BY <1>1, <1>2, <1>3, <1>4, <2>2, <2>3, EndsKeeps
<1>8. CASE V!Live(c) /\ ~V!Stands(c)
  <2>0. turn' = turn BY <1>8 DEF V!Records
  <2>1. video' = [video EXCEPT !.camera = r] BY <1>8 DEF V!Records
  <2>2. sent' = [sent EXCEPT ![c].pc = "shutting", ![c].took = c] BY <1>8 DEF V!Records
  <2>3. /\ Steps(c) /\ sent'[c].pc = "shutting" /\ sent'[c].call = sent[c].call
        /\ sent'[c].took = c /\ sent'[c].first = sent[c].first
    <3>1. sent[c] \in VideoCmd /\ sent \in [Commands -> VideoCmd] BY DEF VideoInv, VideoTypes
    <3>2. [sent[c] EXCEPT !.pc = "shutting", !.took = c] \in VideoCmd
      BY <3>1, <2>2 DEF VideoCmd, VideoPc, BegunPc, CameraPc, ScreenPc, EitherPc
    <3> QED BY <3>1, <3>2, <2>2 DEF VideoCmd, Steps, Same
  <2>4. Moves(c) BY <1>1, <2>3 DEF Moves, Steps, Same
  <2>5. LitBy(c)' = {c} /\ LoudBy(c)' = {} BY <2>3 DEF LitBy, LoudBy
  <2>6. CameraFree(c)' /\ SoundFree(c)' BY <2>3 DEF CameraFree, SoundFree, OpeningPc
  <2>7. /\ video' \in VideoState /\ video'.session = video.session /\ video'.sound = video.sound
        /\ video'.scrAsked = video.scrAsked /\ LitIn(video) \subseteq LitIn(video') /\ (Bare(video') \/ Kept(video))
    BY <1>6, <1>8, <2>1
  <2>8. LoudIn(video') = LoudIn(video) BY <2>7 DEF LoudIn
  <2>9. Bare(video') \/ (video'.session \in Calls /\ hungUp[video'.session] \in {"no", "taken"})
    BY <2>7 DEF Kept
  <2> QED BY <1>1, <1>2, <1>3, <1>4, <1>5, <2>0, <2>3, <2>4, <2>5, <2>6, <2>7, <2>8, <2>9, MovesKeeps
             DEF CameraPc, EitherPc
<1>9. CASE ~V!Live(c)
  <2>0. UNCHANGED <<video, turn>> BY <1>9 DEF V!Records
  <2>1. sent' = [sent EXCEPT ![c].pc = "closing", ![c].took = c] BY <1>9 DEF V!Records
  <2>2. /\ Steps(c) /\ sent'[c].pc = "closing" /\ sent'[c].call = sent[c].call
        /\ sent'[c].took = c /\ sent'[c].first = sent[c].first
    <3>1. sent[c] \in VideoCmd /\ sent \in [Commands -> VideoCmd] BY DEF VideoInv, VideoTypes
    <3>2. [sent[c] EXCEPT !.pc = "closing", !.took = c] \in VideoCmd
      BY <3>1, <2>1 DEF VideoCmd, VideoPc, BegunPc, CameraPc, ScreenPc, EitherPc
    <3> QED BY <3>1, <3>2, <2>1 DEF VideoCmd, Steps, Same
  <2>3. Moves(c) BY <1>1, <2>2 DEF Moves, Steps, Same
  <2>4. LitBy(c)' = {c} /\ LoudBy(c)' = {} BY <2>2 DEF LitBy, LoudBy
  <2>5. CameraFree(c)' /\ SoundFree(c)' BY <2>2 DEF CameraFree, SoundFree, OpeningPc
  <2> QED BY <1>1, <1>2, <1>3, <1>4, <1>5, <2>0, <2>2, <2>3, <2>4, <2>5, StateStays, MovesKeeps
             DEF CameraPc, EitherPc
<1> QED BY <1>7, <1>8, <1>9

LEMMA VideoClosesKeeps == ASSUME VideoInv, NEW c \in Commands, V!Closes(c) PROVE VideoInv'
<1> USE DEF VideoInv
<1> DEFINE p == IF sent[c].pc = "refused" THEN "failed" ELSE "done"
<1>1. /\ sent[c].pc \in {"closing", "refused", "shutting"} /\ lit' = lit \ {sent[c].took}
      /\ video' = IF sent[c].pc = "shutting" THEN V!StateOf(sent[c].call) ELSE video
      /\ V!Ends(c, p) /\ p \in {"done", "failed"} /\ UNCHANGED <<carried, hungUp, torn, loud, buttons>>
  BY DEF V!Closes
<1>2. sent[c].pc \in BegunPc BY <1>1 DEF BegunPc, CameraPc, EitherPc
<1>3. /\ sent[c] \in VideoCmd /\ sent[c].ours /\ sent[c].call \in Calls
      /\ \A j \in Calls : j # sent[c].call => hungUp[j] \in {"unborn", "done"}
      /\ sent[c].kind = "camera" => V!HasTurn(c)
  BY <1>1, <1>2, BegunFacts DEF CameraPc, EitherPc
<1>4. LitBy(c) = {sent[c].took} /\ LoudBy(c) = {} BY <1>1 DEF LitBy, LoudBy
<1> DEFINE s == V!StateOf(sent[c].call)
<1>5. /\ s \in VideoState /\ LitIn(s) = LitIn(video) /\ LoudIn(s) = LoudIn(video)
      /\ s = video \/ (s = V!Fresh(sent[c].call) /\ Bare(s))
  BY <1>3, StateOfCall
<1> HIDE DEF p
<1>6. /\ Steps(c) /\ sent'[c].pc = p /\ sent'[c].call = sent[c].call /\ sent'[c].took = None
      /\ turn' \in Seq(Commands)
      /\ turn' = turn \/ (V!HasTurn(c) /\ sent[c].kind = "camera" /\ sent'[c].pc \notin BegunPc)
      /\ LitBy(c)' = {} /\ LoudBy(c)' = {}
  BY <1>1, <1>2, <1>3, EndsCase
<1>7. Moves(c) BY <1>1, <1>6 DEF Moves, Steps, Same
<1>8. /\ video' \in VideoState /\ LitIn(video') = LitIn(video) /\ LoudIn(video') = LoudIn(video)
      /\ video' = video \/ (video'.camera = None /\ video'.sound = None /\ Bare(video'))
  <2> HIDE DEF s
  <2>1. video' = video \/ video' = s BY <1>1 DEF s
  <2>2. s = video \/ (s.camera = None /\ s.sound = None /\ Bare(s)) BY <1>3, <1>5, FreshState
  <2> QED BY <1>5, <2>1, <2>2 DEF VideoTypes
<1>9. VideoTypes' BY <1>1, <1>6, <1>7, <1>8 DEF Moves, VideoTypes
<1>10. OrdersInv' /\ TurnsInv'
  BY <1>1, <1>3, <1>6, <1>7, MovesOrders DEF CameraPc, ScreenPc, EitherPc, BegunPc
<1>11. HeldInv' BY <1>1, <1>4, <1>6, <1>7, <1>8, MovesHeld
<1>12. StateInv'
  <2>1. CameraFree(c)' /\ SoundFree(c)' BY <1>1, <1>6 DEF CameraFree, SoundFree, OpeningPc
  <2>2. Bare(video') \/ (video'.session \in Calls /\ hungUp[video'.session] \in {"no", "taken"})
    BY <1>8 DEF StateInv, Kept
  <2> QED BY <1>7, <1>8, <2>1, <2>2, MovesState
<1> QED BY <1>9, <1>10, <1>11, <1>12

LEMMA ScreenKeeps ==
    ASSUME VideoInv, NEW c \in Commands, Moves(c), sent[c].kind = "screen", sent[c].pc \in BegunPc,
           sent'[c].call = sent[c].call, turn' = turn, sent'[c].pc \in ScreenPc \cup EitherPc \cup {"done", "failed"},
           video' \in VideoState, Bare(video') \/ (video'.session \in Calls /\ hungUp[video'.session] \in {"no", "taken"}),
           video'.camera = None \/ (video'.session = video.session /\ video'.camera = video.camera),
           \/ video'.sound # None => video'.sound.cap = None
           \/ video'.session = video.session /\ video'.scrAsked = video.scrAsked
                /\ (video'.sound = video.sound \/ (V!Latest(c) /\ sent[c].ours)),
           SoundFree(c)',
           lit' \subseteq lit \cup LitBy(c)', loud' \subseteq loud \cup LoudBy(c)',
           \A x \in lit' : x \in LitBy(c) \/ x \in LitIn(video) => x \in LitBy(c)' \/ x \in LitIn(video'),
           \A x \in loud' : x \in LoudBy(c) \/ x \in LoudIn(video) => x \in LoudBy(c)' \/ x \in LoudIn(video'),
           LitBy(c)' \subseteq Commands, LoudBy(c)' \subseteq Commands
    PROVE  VideoInv'
<1>1. CameraFree(c)' BY DEF CameraFree, Moves
<1>2. lit' \subseteq Commands /\ loud' \subseteq Commands BY DEF VideoInv, VideoTypes
<1> QED BY <1>1, <1>2, MovesKeeps

LEMMA ScreenFacts ==
    ASSUME VideoInv, NEW c \in Commands, sent[c].pc \in ScreenPc \/ (sent[c].pc \in EitherPc /\ sent[c].kind = "screen")
    PROVE  /\ sent[c].pc \in BegunPc /\ sent[c] \in VideoCmd /\ sent[c].ours /\ sent[c].call \in Calls
           /\ sent[c].kind = "screen"
           /\ \A j \in Calls : j # sent[c].call => hungUp[j] \in {"unborn", "done"}
BY DEF VideoInv, VideoTypes, OrdersInv, OrderInv, BegunPc

LEMMA BeginsScreen ==
    ASSUME VideoInv, NEW c \in Commands, sent[c].pc = "sent", sent[c].kind = "screen", carried # None,
           Steps(c), sent'[c].call = carried, sent'[c].pc \in ScreenPc \cup {"done"},
           UNCHANGED <<carried, hungUp, torn, turn, lit, loud, buttons>>,
           video' \in VideoState, video'.session = carried, video'.camera = V!StateOf(carried).camera,
           video'.sound # None => video'.sound.cap = None,
           LitIn(V!StateOf(carried)) \subseteq LitIn(video') \cup LitBy(c)',
           LoudIn(V!StateOf(carried)) \subseteq LoudIn(video') \cup LoudBy(c)'
    PROVE  VideoInv'
<1> USE DEF VideoInv
<1>1. carried \in Calls /\ hungUp[carried] = "no" /\ \A j \in Calls : j # carried => hungUp[j] \in {"unborn", "done"}
  BY OneCall DEF VideoTypes, TurnsInv
<1> DEFINE s == V!StateOf(carried)
<1>2. /\ LitIn(s) = LitIn(video) /\ LoudIn(s) = LoudIn(video) /\ s.session = carried
      /\ s = video \/ s.camera = None
  BY <1>1, StateOfCall, FreshState
<1>3. Moves(c) BY DEF Moves, Steps, Same
<1>4. sent[c].ours BY DEF OrdersInv, OrderInv
<1>5. VideoTypes' BY <1>3 DEF Moves, VideoTypes
<1>6. OrdersInv' /\ TurnsInv'
  <2>1. sent'[c].pc \notin CameraPc /\ sent'[c].pc # "sent" BY DEF CameraPc, ScreenPc
  <2> QED BY <1>1, <1>3, <1>4, <2>1, MovesOrders DEF VideoTypes
<1>7. HeldInv'
  <2>1. LitBy(c) = {} /\ LoudBy(c) = {} BY DEF LitBy, LoudBy
  <2> HIDE DEF s
  <2>2. LitIn(video) \subseteq LitIn(video') \cup LitBy(c)' /\ LoudIn(video) \subseteq LoudIn(video') \cup LoudBy(c)'
    BY <1>2 DEF s
  <2> QED BY <1>3, <2>1, <2>2, MovesHeld
<1>8. StateInv'
  <2>1. CameraFree(c)' BY <1>3 DEF CameraFree, Moves
  <2>2. SoundFree(c)' BY DEF SoundFree
  <2> HIDE DEF s
  <2>3. video'.camera = None \/ (video'.session = video.session /\ video'.camera = video.camera) BY <1>2 DEF s
  <2> QED BY <1>1, <1>3, <2>1, <2>2, <2>3, MovesState
<1> QED BY <1>5, <1>6, <1>7, <1>8

LEMMA ArrivesScreenKeeps == ASSUME VideoInv, NEW c \in Commands, V!ArrivesScreen(c) PROVE VideoInv'
<1> USE DEF VideoInv
<1>1. /\ sent[c].pc = "sent" /\ sent[c].kind = "screen" /\ UNCHANGED <<carried, hungUp, torn, turn, lit, loud, buttons>>
      /\ sent[c] \in VideoCmd
  BY DEF V!ArrivesScreen, VideoTypes
<1> DEFINE s == V!StateOf(carried)
           v == [s EXCEPT !.scrAsked = sent[c].seq]
<1>2. CASE carried = None
  <2>1. V!Goes(c, "failed") /\ UNCHANGED video BY <1>2 DEF V!ArrivesScreen
  <2> QED BY <1>1, <2>1, AsideKeeps
<1>3. CASE carried # None /\ sent[c].seq <= s.scrAsked
  <2>1. V!Goes(c, "done") /\ video' = V!StateOf(carried) BY <1>3 DEF V!ArrivesScreen
  <2> QED BY <1>1, <1>3, <2>1, AsideKeeps
<1>4. ASSUME carried # None PROVE carried \in Calls /\ s \in VideoState /\ s.session = carried
  <2>1. carried \in Calls /\ \A j \in Calls : j # carried => hungUp[j] \in {"unborn", "done"}
    BY <1>4, OneCall DEF VideoTypes, TurnsInv
  <2> QED BY <2>1, StateOfCall
<1>5. ASSUME carried # None
      PROVE  /\ v \in VideoState /\ v.session = carried /\ v.camera = s.camera /\ v.screen = s.screen /\ v.sound = s.sound
             /\ v.sound \in {None} \cup SoundState /\ v.screen \in Commands \cup {None}
  <2> HIDE DEF s
  <2> QED BY <1>1, <1>4, <1>5 DEF VideoState, VideoCmd
<1>6. CASE carried # None /\ ~(sent[c].seq <= s.scrAsked) /\ v.sound # None /\ v.sound.cap # None
  <2>1. video' = [v EXCEPT !.sound.cap = None] BY <1>6 DEF V!ArrivesScreen
  <2>2. sent' = [sent EXCEPT ![c].pc = "quieting", ![c].took = v.sound.cap, ![c].call = carried]
    BY <1>6 DEF V!ArrivesScreen
  <2> HIDE DEF v
  <2>3. v.sound \in SoundState /\ v.sound.cap \in Commands BY <1>5, <1>6 DEF SoundState
  <2>4. /\ Steps(c) /\ sent'[c].pc = "quieting" /\ sent'[c].call = carried
        /\ sent'[c].took = v.sound.cap /\ sent'[c].first = sent[c].first
    <3>1. sent[c] \in VideoCmd /\ sent \in [Commands -> VideoCmd] BY DEF VideoInv, VideoTypes
    <3>2. [sent[c] EXCEPT !.pc = "quieting", !.took = v.sound.cap, !.call = carried] \in VideoCmd
      BY <3>1, <1>4, <1>6, <2>2, <2>3 DEF VideoCmd, VideoPc, BegunPc, CameraPc, ScreenPc, EitherPc
    <3> QED BY <3>1, <3>2, <1>4, <1>6, <2>2, <2>3 DEF VideoCmd, Steps, Same
  <2>5. [v.sound EXCEPT !.cap = None] \in SoundState /\ [v.sound EXCEPT !.cap = None].cap = None
    BY <2>3 DEF SoundState
  <2>6. video' = [v EXCEPT !.sound = [v.sound EXCEPT !.cap = None]] BY <1>5, <1>6, <2>1 DEF VideoState
  <2>7. /\ video' \in VideoState /\ video'.session = carried /\ video'.camera = s.camera /\ video'.screen = s.screen
        /\ video'.sound.cap = None
    <3> HIDE DEF s
    <3> QED BY <1>5, <1>6, <2>5, <2>6 DEF VideoState
  <2>8. LitBy(c)' = {} /\ LoudBy(c)' = {v.sound.cap} BY <2>4 DEF LitBy, LoudBy
  <2>9. LitIn(s) \subseteq LitIn(video') /\ LoudIn(s) \subseteq LoudBy(c)'
    <3> HIDE DEF s
    <3> QED BY <1>5, <1>6, <2>7, <2>8 DEF LitIn, LoudIn
  <2>10. sent'[c].pc \in ScreenPc BY <2>4 DEF ScreenPc
  <2> QED BY <1>1, <1>6, <2>4, <2>7, <2>9, <2>10, BeginsScreen
<1>7. CASE carried # None /\ ~(sent[c].seq <= s.scrAsked) /\ ~(v.sound # None /\ v.sound.cap # None)
  <2> DEFINE p == IF v.screen = None THEN V!NextOf(c) ELSE "taking"
  <2>1. video' = [v EXCEPT !.screen = None] BY <1>7 DEF V!ArrivesScreen, V!TakesPicture
  <2>2. sent' = [sent EXCEPT ![c].pc = p, ![c].took = v.screen, ![c].call = carried]
    BY <1>7 DEF V!ArrivesScreen, V!TakesPicture
  <2>3. p \in {"picking", "done", "taking"} /\ (p # "taking" => v.screen = None) BY DEF V!NextOf
  <2> HIDE DEF p
  <2> HIDE DEF v
  <2>4. /\ Steps(c) /\ sent'[c].pc = p /\ sent'[c].call = carried
        /\ sent'[c].took = v.screen /\ sent'[c].first = sent[c].first
    <3>1. sent[c] \in VideoCmd /\ sent \in [Commands -> VideoCmd] BY DEF VideoInv, VideoTypes
    <3>2. [sent[c] EXCEPT !.pc = p, !.took = v.screen, !.call = carried] \in VideoCmd
      BY <3>1, <1>4, <1>5, <1>7, <2>2, <2>3 DEF VideoCmd, VideoPc, BegunPc, CameraPc, ScreenPc, EitherPc
    <3> QED BY <3>1, <3>2, <1>4, <1>5, <1>7, <2>2, <2>3 DEF VideoCmd, Steps, Same
  <2>5. /\ video' \in VideoState /\ video'.session = carried /\ video'.camera = s.camera /\ video'.sound = v.sound
    <3> HIDE DEF s
    <3> QED BY <1>5, <1>7, <2>1 DEF VideoState
  <2>6. LoudBy(c)' = {} /\ LitBy(c)' = (IF p = "taking" THEN {v.screen} ELSE {}) BY <2>3, <2>4 DEF LitBy, LoudBy
  <2>7. LitIn(s) \subseteq LitIn(video') \cup LitBy(c)' /\ LoudIn(s) \subseteq LoudIn(video')
    <3> HIDE DEF s
    <3> QED BY <1>5, <1>7, <2>3, <2>5, <2>6, VideoAssumption, MicAssumption DEF LitIn, LoudIn
  <2>8. sent'[c].pc \in ScreenPc \cup {"done"} BY <2>3, <2>4 DEF ScreenPc
  <2> QED BY <1>1, <1>5, <1>7, <2>4, <2>5, <2>7, <2>8, BeginsScreen
<1> QED BY <1>2, <1>3, <1>6, <1>7

LEMMA QuietsKeeps == ASSUME VideoInv, NEW c \in Commands, V!Quiets(c) PROVE VideoInv'
<1> DEFINE screen == IF V!Live(c) THEN video.screen ELSE None
           p == IF screen = None THEN V!NextOf(c) ELSE "taking"
<1>1. /\ sent[c].pc = "quieting" /\ loud' = loud \ {sent[c].took} /\ UNCHANGED <<carried, hungUp, torn, turn, lit, buttons>>
      /\ video' = IF V!Live(c) THEN [video EXCEPT !.screen = None] ELSE video
  BY DEF V!Quiets
<1>2. sent' = [sent EXCEPT ![c].pc = p, ![c].took = screen] BY DEF V!Quiets
<1>3. /\ sent[c].pc \in BegunPc /\ sent[c] \in VideoCmd /\ sent[c].ours /\ sent[c].call \in Calls /\ sent[c].kind = "screen"
  BY <1>1, ScreenFacts DEF ScreenPc
<1>4. VideoTypes /\ StateInv /\ video \in VideoState /\ video.screen \in Commands \cup {None}
  BY DEF VideoInv, VideoTypes, VideoState
<1>5. /\ p \in {"picking", "done", "taking"} /\ (p # "taking" => screen = None)
      /\ (p = "taking" => screen \in Commands) /\ screen \in Commands \cup {None}
  BY <1>4 DEF V!NextOf
<1>6. /\ video' \in VideoState /\ video'.session = video.session /\ video'.camera = video.camera
      /\ video'.sound = video.sound /\ video'.scrAsked = video.scrAsked
      /\ video'.camAsked = video.camAsked /\ video'.wish = video.wish
      /\ video'.screen = IF V!Live(c) THEN None ELSE video.screen
  BY <1>1, <1>4 DEF VideoState
<1>7. Bare(video') \/ (video'.session \in Calls /\ hungUp[video'.session] \in {"no", "taken"})
  BY <1>4, <1>6 DEF StateInv, Bare, Kept
<1>8. \A x \in LitIn(video) : x = screen \/ x \in LitIn(video') BY <1>6 DEF LitIn
<1> HIDE DEF p, screen
<1>9. /\ Steps(c) /\ sent'[c].pc = p /\ sent'[c].call = sent[c].call
      /\ sent'[c].took = screen /\ sent'[c].first = sent[c].first
  <2>1. sent[c] \in VideoCmd /\ sent \in [Commands -> VideoCmd] BY DEF VideoInv, VideoTypes
  <2>2. [sent[c] EXCEPT !.pc = p, !.took = screen] \in VideoCmd
    BY <2>1, <1>2, <1>4, <1>5 DEF VideoCmd, VideoPc, BegunPc, CameraPc, ScreenPc, EitherPc
  <2> QED BY <2>1, <2>2, <1>2, <1>4, <1>5 DEF VideoCmd, Steps, Same
<1>10. Moves(c) BY <1>1, <1>9 DEF Moves, Steps, Same
<1>11. /\ LitBy(c) = {} /\ LoudBy(c) = {sent[c].took} /\ LoudBy(c)' = {}
       /\ LitBy(c)' = (IF p = "taking" THEN {screen} ELSE {})
  BY <1>1, <1>5, <1>9 DEF LitBy, LoudBy
<1>12. \A x \in LitIn(video) : x \in LitBy(c)' \/ x \in LitIn(video')
  BY <1>5, <1>8, <1>11, VideoAssumption, MicAssumption DEF LitIn
<1>13. LoudIn(video') = LoudIn(video) BY <1>6 DEF LoudIn
<1>14. SoundFree(c)' BY <1>1, <1>3, <1>4, <1>6, <1>9 DEF StateInv, SoundFree, V!Latest, V!Live, Steps, Same
<1>15. sent'[c].pc \in ScreenPc \cup {"done"} BY <1>5, <1>9 DEF ScreenPc
<1>16. LitBy(c)' \subseteq Commands BY <1>5, <1>11
<1> QED BY <1>1, <1>3, <1>6, <1>7, <1>9, <1>10, <1>11, <1>12, <1>13, <1>14, <1>15, <1>16, ScreenKeeps

LEMMA TakesDownKeeps ==
    ASSUME VideoInv, NEW c \in Commands, NEW x \in Commands \cup {None}, NEW p \in {"picking", "done", "hushing"}, V!Goes(c, p), V!TakenDown(c, x),
           \/ sent[c].pc \in {"taking", "replacing"} /\ x = sent[c].took /\ (p = "picking" => sent[c].pc = "taking")
           \/ sent[c].pc = "undoing" /\ x = c /\ p = "hushing"
    PROVE  VideoInv'
<1>1. /\ lit' = lit \ {x} /\ video' = V!StateOf(sent[c].call) /\ UNCHANGED <<carried, hungUp, torn, turn, loud, buttons>>
      /\ sent' = [sent EXCEPT ![c].pc = p]
  BY DEF V!TakenDown, V!Goes
<1>2. /\ sent[c].pc \in BegunPc /\ sent[c] \in VideoCmd /\ sent[c].ours /\ sent[c].call \in Calls /\ sent[c].kind = "screen"
      /\ \A j \in Calls : j # sent[c].call => hungUp[j] \in {"unborn", "done"}
  BY ScreenFacts DEF ScreenPc
<1>3. VideoTypes /\ TurnsInv /\ StateInv BY DEF VideoInv
<1>4. /\ video' \in VideoState /\ LitIn(video') = LitIn(video) /\ LoudIn(video') = LoudIn(video)
      /\ video' = video \/ (video'.camera = None /\ video'.sound = None /\ Bare(video'))
  BY <1>1, <1>2, <1>3, StateOfCall, FreshState
<1>5. Bare(video') \/ (video'.session \in Calls /\ hungUp[video'.session] \in {"no", "taken"})
  BY <1>3, <1>4 DEF StateInv, Kept
<1>6. /\ Steps(c) /\ sent'[c].pc = p /\ sent'[c].call = sent[c].call
      /\ sent'[c].took = sent[c].took /\ sent'[c].first = sent[c].first
  <2>1. sent[c] \in VideoCmd /\ sent \in [Commands -> VideoCmd] BY DEF VideoInv, VideoTypes
  <2>2. [sent[c] EXCEPT !.pc = p] \in VideoCmd
    BY <2>1, <1>1, <1>3 DEF VideoCmd, VideoPc, BegunPc, CameraPc, ScreenPc, EitherPc
  <2> QED BY <2>1, <2>2, <1>1, <1>3 DEF VideoCmd, Steps, Same
<1>7. Moves(c) BY <1>1, <1>6 DEF Moves, Steps, Same
<1>8. LitBy(c) = {x} /\ LoudBy(c) = {} /\ LitBy(c)' = {} /\ LoudBy(c)' = {} BY <1>6 DEF LitBy, LoudBy
<1>9. SoundFree(c)' BY <1>2, <1>3, <1>4, <1>6 DEF StateInv, SoundFree, V!Latest, V!Live, Steps, Same
<1>10. sent'[c].pc \in ScreenPc \cup {"done"} BY <1>6 DEF ScreenPc
<1> QED BY <1>1, <1>2, <1>4, <1>5, <1>6, <1>7, <1>8, <1>9, <1>10, ScreenKeeps

\* A command for the screen that leaves the state alone.
LEMMA ScreenStays ==
    ASSUME VideoInv, NEW c \in Commands, sent[c].pc \in ScreenPc \/ (sent[c].pc \in EitherPc /\ sent[c].kind = "screen"),
           Steps(c), sent'[c].call = sent[c].call, sent'[c].pc \in ScreenPc \cup EitherPc \cup {"done", "failed"},
           UNCHANGED <<carried, hungUp, torn, video, turn, buttons>>, SoundFree(c)',
           lit' \subseteq lit \cup LitBy(c)', loud' \subseteq loud \cup LoudBy(c)',
           \A x \in lit' : x \in LitBy(c) => x \in LitBy(c)', \A x \in loud' : x \in LoudBy(c) => x \in LoudBy(c)',
           LitBy(c)' \subseteq Commands, LoudBy(c)' \subseteq Commands
    PROVE  VideoInv'
<1>1. Moves(c) BY DEF Moves, Steps, Same
<1> QED BY <1>1, ScreenFacts, StateStays, ScreenKeeps

LEMMA PicksKeeps == ASSUME VideoInv, NEW c \in Commands, V!Picks(c) \/ V!Picked(c) PROVE VideoInv'
<1>1. /\ sent[c].pc \in {"picking", "picked"} /\ UNCHANGED <<carried, hungUp, torn, video, turn, loud, buttons>>
      /\ sent[c].pc \in ScreenPc /\ VideoTypes
  BY DEF V!Picks, V!Picked, ScreenPc, VideoInv
<1>2. sent[c].kind = "screen" BY <1>1, ScreenFacts
<1>3. CASE sent[c].pc = "picking" /\ lit' = lit \cup {c} /\ V!Goes(c, "picked")
  <2>1. sent' = [sent EXCEPT ![c].pc = "picked"] BY <1>3 DEF V!Goes
  <2>2. /\ Steps(c) /\ sent'[c].pc = "picked" /\ sent'[c].call = sent[c].call
        /\ sent'[c].took = sent[c].took /\ sent'[c].first = sent[c].first
    <3>1. sent[c] \in VideoCmd /\ sent \in [Commands -> VideoCmd] BY DEF VideoInv, VideoTypes
    <3>2. [sent[c] EXCEPT !.pc = "picked"] \in VideoCmd
      BY <3>1, <1>1, <2>1 DEF VideoCmd, VideoPc, BegunPc, CameraPc, ScreenPc, EitherPc
    <3> QED BY <3>1, <3>2, <1>1, <2>1 DEF VideoCmd, Steps, Same
  <2>3. LitBy(c) = {} /\ LitBy(c)' = {c} /\ LoudBy(c) = {} /\ LoudBy(c)' = {} BY <1>3, <2>2 DEF LitBy, LoudBy
  <2>4. SoundFree(c)' BY <1>1, <1>3, <2>2 DEF VideoInv, StateInv, SoundFree, V!Latest, V!Live, Steps, Same
  <2>5. sent'[c].pc \in ScreenPc BY <2>2 DEF ScreenPc
  <2> QED BY <1>1, <1>3, <2>2, <2>3, <2>4, <2>5, ScreenStays
<1>4. CASE sent[c].pc = "picking" /\ lit' = lit /\ V!Goes(c, "failed")
  <2>1. sent' = [sent EXCEPT ![c].pc = "failed"] BY <1>4 DEF V!Goes
  <2>2. /\ Steps(c) /\ sent'[c].pc = "failed" /\ sent'[c].call = sent[c].call
        /\ sent'[c].took = sent[c].took /\ sent'[c].first = sent[c].first
    <3>1. sent[c] \in VideoCmd /\ sent \in [Commands -> VideoCmd] BY DEF VideoInv, VideoTypes
    <3>2. [sent[c] EXCEPT !.pc = "failed"] \in VideoCmd
      BY <3>1, <1>1, <2>1 DEF VideoCmd, VideoPc, BegunPc, CameraPc, ScreenPc, EitherPc
    <3> QED BY <3>1, <3>2, <1>1, <2>1 DEF VideoCmd, Steps, Same
  <2>3. LitBy(c) = {} /\ LitBy(c)' = {} /\ LoudBy(c) = {} /\ LoudBy(c)' = {} BY <1>4, <2>2 DEF LitBy, LoudBy
  <2>4. SoundFree(c)' BY <2>2 DEF SoundFree
  <2> QED BY <1>1, <1>4, <2>2, <2>3, <2>4, ScreenStays
<1>5. CASE sent[c].pc = "picked" /\ lit' = lit /\ sent' = [sent EXCEPT ![c].pc = "publishing"]
  <2>1. sent' = [sent EXCEPT ![c].pc = "publishing"] BY <1>5
  <2>2. /\ Steps(c) /\ sent'[c].pc = "publishing" /\ sent'[c].call = sent[c].call
        /\ sent'[c].took = sent[c].took /\ sent'[c].first = sent[c].first
    <3>1. sent[c] \in VideoCmd /\ sent \in [Commands -> VideoCmd] BY DEF VideoInv, VideoTypes
    <3>2. [sent[c] EXCEPT !.pc = "publishing"] \in VideoCmd
      BY <3>1, <1>1, <2>1 DEF VideoCmd, VideoPc, BegunPc, CameraPc, ScreenPc, EitherPc
    <3> QED BY <3>1, <3>2, <1>1, <2>1 DEF VideoCmd, Steps, Same
  <2>3. LitBy(c) = {c} /\ LitBy(c)' = {c} /\ LoudBy(c) = {} /\ LoudBy(c)' = {} BY <1>5, <2>2 DEF LitBy, LoudBy
  <2>4. SoundFree(c)' BY <1>1, <1>5, <2>2 DEF VideoInv, StateInv, SoundFree, V!Latest, V!Live, Steps, Same
  <2>5. lit' = lit /\ sent[c].pc \in ScreenPc /\ sent'[c].pc \in EitherPc BY <1>1, <1>5, <2>2 DEF EitherPc
  <2> QED BY <1>1, <2>2, <2>3, <2>4, <2>5, ScreenStays
<1>6. CASE sent[c].pc = "picked" /\ lit' = lit /\ sent' = [sent EXCEPT ![c].pc = "closing", ![c].took = c]
  <2>1. sent' = [sent EXCEPT ![c].pc = "closing", ![c].took = c] BY <1>6
  <2>2. /\ Steps(c) /\ sent'[c].pc = "closing" /\ sent'[c].call = sent[c].call
        /\ sent'[c].took = c /\ sent'[c].first = sent[c].first
    <3>1. sent[c] \in VideoCmd /\ sent \in [Commands -> VideoCmd] BY DEF VideoInv, VideoTypes
    <3>2. [sent[c] EXCEPT !.pc = "closing", !.took = c] \in VideoCmd
      BY <3>1, <1>1, <2>1 DEF VideoCmd, VideoPc, BegunPc, CameraPc, ScreenPc, EitherPc
    <3> QED BY <3>1, <3>2, <1>1, <2>1 DEF VideoCmd, Steps, Same
  <2>3. LitBy(c) = {c} /\ LitBy(c)' = {c} /\ LoudBy(c) = {} /\ LoudBy(c)' = {} BY <1>6, <2>2 DEF LitBy, LoudBy
  <2>4. SoundFree(c)' BY <2>2 DEF SoundFree
  <2>5. lit' = lit /\ sent[c].pc \in ScreenPc /\ sent'[c].pc \in EitherPc BY <1>1, <1>6, <2>2 DEF EitherPc
  <2> QED BY <1>1, <2>2, <2>3, <2>4, <2>5, ScreenStays
<1> QED BY <1>3, <1>4, <1>5, <1>6 DEF V!Picks, V!Picked

LEMMA PublishesScreenKeeps == ASSUME VideoInv, NEW c \in Commands, V!PublishesScreen(c) PROVE VideoInv'
<1>1. /\ sent[c].pc = "publishing" /\ sent[c].kind = "screen" /\ UNCHANGED <<carried, hungUp, torn, video, turn, lit, loud, buttons>>
      /\ sent[c].pc \in EitherPc /\ VideoTypes
  BY DEF V!PublishesScreen, EitherPc, VideoInv
<1>2. sent[c] \in VideoCmd /\ LitBy(c) = {c} /\ LoudBy(c) = {} BY <1>1, ScreenFacts DEF LitBy, LoudBy
<1> DEFINE p == IF ~V!Latest(c) THEN "replacing" ELSE IF sent[c].sound THEN "sounding" ELSE "storing"
           took == IF V!Latest(c) THEN sent[c].took ELSE c
           first == V!Latest(c) /\ video.sound = None
<1>3. CASE sent' = [sent EXCEPT ![c].pc = p, ![c].took = took, ![c].first = first]
  <2>1. p \in {"replacing", "sounding", "storing"} /\ first \in BOOLEAN /\ (p = "replacing" => took = c)
    BY DEF V!Latest, V!Live
  <2>2. took \in Commands \cup {None} BY <1>2 DEF VideoCmd
  <2> HIDE DEF p, took, first
  <2>3. /\ Steps(c) /\ sent'[c].pc = p /\ sent'[c].call = sent[c].call
        /\ sent'[c].took = took /\ sent'[c].first = first
    <3>1. sent[c] \in VideoCmd /\ sent \in [Commands -> VideoCmd] BY DEF VideoInv, VideoTypes
    <3>2. [sent[c] EXCEPT !.pc = p, !.took = took, !.first = first] \in VideoCmd
      BY <3>1, <1>1, <1>3, <2>1, <2>2 DEF VideoCmd, VideoPc, BegunPc, CameraPc, ScreenPc, EitherPc
    <3> QED BY <3>1, <3>2, <1>1, <1>3, <2>1, <2>2 DEF VideoCmd, Steps, Same
  <2>4. LitBy(c)' = {c} /\ LoudBy(c)' = {} BY <2>1, <2>3 DEF LitBy, LoudBy
  <2>5. SoundFree(c)' BY <1>1, <2>3 DEF VideoInv, StateInv, SoundFree, V!Latest, V!Live, Steps, Same
  <2>6. sent'[c].pc \in ScreenPc BY <2>1, <2>3 DEF ScreenPc
  <2> QED BY <1>1, <1>2, <2>3, <2>4, <2>5, <2>6, ScreenStays
<1>4. CASE sent' = [sent EXCEPT ![c].pc = "refused", ![c].took = c]
  <2>1. /\ Steps(c) /\ sent'[c].pc = "refused" /\ sent'[c].call = sent[c].call
        /\ sent'[c].took = c /\ sent'[c].first = sent[c].first
    <3>1. sent[c] \in VideoCmd /\ sent \in [Commands -> VideoCmd] BY DEF VideoInv, VideoTypes
    <3>2. [sent[c] EXCEPT !.pc = "refused", !.took = c] \in VideoCmd
      BY <3>1, <1>1, <1>4 DEF VideoCmd, VideoPc, BegunPc, CameraPc, ScreenPc, EitherPc
    <3> QED BY <3>1, <3>2, <1>1, <1>4 DEF VideoCmd, Steps, Same
  <2>2. LitBy(c)' = {c} /\ LoudBy(c)' = {} BY <2>1 DEF LitBy, LoudBy
  <2>3. SoundFree(c)' BY <2>1 DEF SoundFree
  <2>4. sent'[c].pc \in EitherPc BY <2>1 DEF EitherPc
  <2> QED BY <1>1, <1>2, <2>1, <2>2, <2>3, <2>4, ScreenStays
<1> QED BY <1>3, <1>4 DEF V!PublishesScreen

LEMMA SoundsKeeps == ASSUME VideoInv, NEW c \in Commands, V!Sounds(c) \/ V!Quells(c) PROVE VideoInv'
<1>1. /\ sent[c].pc \in {"sounding", "quelling"} /\ UNCHANGED <<carried, hungUp, torn, video, turn, lit, buttons>>
      /\ sent[c].pc \in ScreenPc /\ VideoTypes
  BY DEF V!Sounds, V!Quells, ScreenPc, VideoInv
<1>2. CASE sent[c].pc = "sounding" /\ loud' = loud \cup {c} /\ V!Goes(c, "sounded")
  <2>1. sent' = [sent EXCEPT ![c].pc = "sounded"] BY <1>2 DEF V!Goes
  <2>2. /\ Steps(c) /\ sent'[c].pc = "sounded" /\ sent'[c].call = sent[c].call
        /\ sent'[c].took = sent[c].took /\ sent'[c].first = sent[c].first
    <3>1. sent[c] \in VideoCmd /\ sent \in [Commands -> VideoCmd] BY DEF VideoInv, VideoTypes
    <3>2. [sent[c] EXCEPT !.pc = "sounded"] \in VideoCmd
      BY <3>1, <1>1, <2>1 DEF VideoCmd, VideoPc, BegunPc, CameraPc, ScreenPc, EitherPc
    <3> QED BY <3>1, <3>2, <1>1, <2>1 DEF VideoCmd, Steps, Same
  <2>3. LitBy(c) = {c} /\ LitBy(c)' = {c} /\ LoudBy(c) = {} /\ LoudBy(c)' = {c} BY <1>2, <2>2 DEF LitBy, LoudBy
  <2>4. SoundFree(c)' BY <1>1, <1>2, <2>2 DEF VideoInv, StateInv, SoundFree, V!Latest, V!Live, Steps, Same
  <2>5. sent'[c].pc \in ScreenPc BY <2>2 DEF ScreenPc
  <2> QED BY <1>1, <1>2, <2>2, <2>3, <2>4, <2>5, ScreenStays
<1>3. CASE V!Goes(c, "storing") /\ \/ sent[c].pc = "sounding" /\ loud' = loud
                                   \/ sent[c].pc = "quelling" /\ loud' = loud \ {c}
  <2>1. sent' = [sent EXCEPT ![c].pc = "storing"] BY <1>3 DEF V!Goes
  <2>2. /\ Steps(c) /\ sent'[c].pc = "storing" /\ sent'[c].call = sent[c].call
        /\ sent'[c].took = sent[c].took /\ sent'[c].first = sent[c].first
    <3>1. sent[c] \in VideoCmd /\ sent \in [Commands -> VideoCmd] BY DEF VideoInv, VideoTypes
    <3>2. [sent[c] EXCEPT !.pc = "storing"] \in VideoCmd
      BY <3>1, <1>1, <2>1 DEF VideoCmd, VideoPc, BegunPc, CameraPc, ScreenPc, EitherPc
    <3> QED BY <3>1, <3>2, <1>1, <2>1 DEF VideoCmd, Steps, Same
  <2>3. LitBy(c) = {c} /\ LitBy(c)' = {c} /\ LoudBy(c)' = {} BY <1>1, <2>2 DEF LitBy, LoudBy
  <2>4. LoudBy(c) = IF sent[c].pc = "sounding" THEN {} ELSE {c} BY <1>1 DEF LoudBy
  <2>5. SoundFree(c)' BY <2>2 DEF SoundFree
  <2>6. sent'[c].pc \in ScreenPc BY <2>2 DEF ScreenPc
  <2> QED BY <1>1, <1>3, <2>2, <2>3, <2>4, <2>5, <2>6, ScreenStays
<1> QED BY <1>2, <1>3 DEF V!Sounds, V!Quells

LEMMA KeepsSoundKeeps == ASSUME VideoInv, NEW c \in Commands, V!KeepsSound(c) PROVE VideoInv'
<1> DEFINE keeps == V!Latest(c) /\ (sent[c].first <=> video.sound = None)
<1>1. /\ sent[c].pc = "sounded" /\ UNCHANGED <<carried, hungUp, torn, turn, lit, loud, buttons>>
      /\ sent[c].pc \in ScreenPc /\ VideoTypes /\ video \in VideoState
  BY DEF V!KeepsSound, ScreenPc, VideoInv, VideoTypes
<1>2. /\ sent[c].pc \in BegunPc /\ sent[c] \in VideoCmd /\ sent[c].ours /\ sent[c].kind = "screen" BY <1>1, ScreenFacts
<1>3. LitBy(c) = {c} /\ LoudBy(c) = {c} BY <1>1 DEF LitBy, LoudBy
<1>4. CASE keeps /\ video' = [video EXCEPT !.sound = [cap |-> c, ticket |-> sent[c].seq]] /\ V!Goes(c, "storing")
  <2> DEFINE r == [cap |-> c, ticket |-> sent[c].seq]
  <2>1. r \in SoundState /\ r.cap = c BY <1>2 DEF SoundState, VideoCmd
  <2>2. r # None BY <2>1, VideoAssumption, MicAssumption DEF SoundState
  <2>3. video' = [video EXCEPT !.sound = r] BY <1>4
  <2>4. Kept(video) BY <1>2, <1>4, StandsKept
  <2>5. video.sound # None => video.sound.cap = None BY <1>1, <1>2, <1>4 DEF VideoInv, StateInv, SoundFree
  <2> HIDE DEF r
  <2>6. /\ video' \in VideoState /\ video'.session = video.session /\ video'.camera = video.camera
        /\ video'.screen = video.screen /\ video'.scrAsked = video.scrAsked /\ video'.sound = r
    BY <1>1, <2>1, <2>3 DEF VideoState
  <2>7. sent' = [sent EXCEPT ![c].pc = "storing"] BY <1>4 DEF V!Goes
  <2>8. /\ Steps(c) /\ sent'[c].pc = "storing" /\ sent'[c].call = sent[c].call
        /\ sent'[c].took = sent[c].took /\ sent'[c].first = sent[c].first
    <3>1. sent[c] \in VideoCmd /\ sent \in [Commands -> VideoCmd] BY DEF VideoInv, VideoTypes
    <3>2. [sent[c] EXCEPT !.pc = "storing"] \in VideoCmd
      BY <3>1, <1>1, <2>7 DEF VideoCmd, VideoPc, BegunPc, CameraPc, ScreenPc, EitherPc
    <3> QED BY <3>1, <3>2, <1>1, <2>7 DEF VideoCmd, Steps, Same
  <2>9. Moves(c) BY <1>1, <2>8 DEF Moves, Steps, Same
  <2>10. LitBy(c)' = {c} /\ LoudBy(c)' = {} BY <2>8 DEF LitBy, LoudBy
  <2>11. SoundFree(c)' BY <2>8 DEF SoundFree
  <2>12. LitIn(video') = LitIn(video) BY <2>6 DEF LitIn
  <2>13. LoudIn(video) = {} /\ c \in LoudIn(video') BY <2>1, <2>2, <2>5, <2>6, VideoAssumption, MicAssumption DEF LoudIn
  <2>14. sent'[c].pc \in ScreenPc BY <2>8 DEF ScreenPc
  <2>15. V!Latest(c) /\ (Bare(video') \/ (video'.session \in Calls /\ hungUp[video'.session] \in {"no", "taken"}))
    BY <1>4, <2>4, <2>6 DEF Kept
  <2> QED BY <1>1, <1>2, <1>3, <2>6, <2>8, <2>9, <2>10, <2>11, <2>12, <2>13, <2>14, <2>15, ScreenKeeps
<1>5. ASSUME V!Goes(c, "quelling"),
             \/ video' = video
             \/ video.sound = None /\ video' = [video EXCEPT !.sound = [cap |-> None, ticket |-> sent[c].seq]]
      PROVE  VideoInv'
  <2> DEFINE r == [cap |-> None, ticket |-> sent[c].seq]
  <2>1. r \in SoundState /\ r.cap = None BY <1>2 DEF SoundState, VideoCmd
  <2>2. \/ video' = video
        \/ video.sound = None /\ video' = [video EXCEPT !.sound = r]
    BY <1>5
  <2> HIDE DEF r
  <2>3. /\ video' \in VideoState /\ video'.session = video.session /\ video'.camera = video.camera
        /\ video'.screen = video.screen /\ video'.scrAsked = video.scrAsked
        /\ video'.camAsked = video.camAsked /\ video'.wish = video.wish
        /\ video'.sound = video.sound \/ (video.sound = None /\ video'.sound.cap = None)
    BY <1>1, <2>1, <2>2 DEF VideoState
  <2>4. Bare(video') \/ (video'.session \in Calls /\ hungUp[video'.session] \in {"no", "taken"})
    BY <2>3 DEF VideoInv, StateInv, Bare, Kept
  <2>5. sent' = [sent EXCEPT ![c].pc = "quelling"] BY <1>5 DEF V!Goes
  <2>6. /\ Steps(c) /\ sent'[c].pc = "quelling" /\ sent'[c].call = sent[c].call
        /\ sent'[c].took = sent[c].took /\ sent'[c].first = sent[c].first
    <3>1. sent[c] \in VideoCmd /\ sent \in [Commands -> VideoCmd] BY DEF VideoInv, VideoTypes
    <3>2. [sent[c] EXCEPT !.pc = "quelling"] \in VideoCmd
      BY <3>1, <1>1, <2>5 DEF VideoCmd, VideoPc, BegunPc, CameraPc, ScreenPc, EitherPc
    <3> QED BY <3>1, <3>2, <1>1, <2>5 DEF VideoCmd, Steps, Same
  <2>7. Moves(c) BY <1>1, <2>6 DEF Moves, Steps, Same
  <2>8. LitBy(c)' = {c} /\ LoudBy(c)' = {c} BY <2>6 DEF LitBy, LoudBy
  <2>9. SoundFree(c)' BY <2>6 DEF SoundFree
  <2>10. LitIn(video') = LitIn(video) BY <2>3 DEF LitIn
  <2>11. LoudIn(video) \subseteq LoudIn(video') BY <2>3 DEF LoudIn
  <2>12. sent'[c].pc \in ScreenPc BY <2>6 DEF ScreenPc
  <2> QED BY <1>1, <1>2, <1>3, <2>3, <2>4, <2>6, <2>7, <2>8, <2>9, <2>10, <2>11, <2>12, ScreenKeeps
<1> QED BY <1>4, <1>5 DEF V!KeepsSound

LEMMA StoresKeeps == ASSUME VideoInv, NEW c \in Commands, V!Stores(c) PROVE VideoInv'
<1>1. /\ sent[c].pc = "storing" /\ UNCHANGED <<carried, hungUp, torn, turn, lit, loud, buttons>>
      /\ sent[c].pc \in ScreenPc /\ VideoTypes /\ video \in VideoState /\ video.screen \in Commands \cup {None}
  BY DEF V!Stores, ScreenPc, VideoInv, VideoTypes, VideoState
<1>2. /\ sent[c].pc \in BegunPc /\ sent[c].ours /\ sent[c].kind = "screen" BY <1>1, ScreenFacts
<1>3. LitBy(c) = {c} /\ LoudBy(c) = {} BY <1>1 DEF LitBy, LoudBy
<1>4. CASE ~V!Latest(c)
  <2>1. sent' = [sent EXCEPT ![c].pc = "undoing"] /\ video' = video BY <1>4 DEF V!Stores, V!Goes
  <2>2. /\ Steps(c) /\ sent'[c].pc = "undoing" /\ sent'[c].call = sent[c].call
        /\ sent'[c].took = sent[c].took /\ sent'[c].first = sent[c].first
    <3>1. sent[c] \in VideoCmd /\ sent \in [Commands -> VideoCmd] BY DEF VideoInv, VideoTypes
    <3>2. [sent[c] EXCEPT !.pc = "undoing"] \in VideoCmd
      BY <3>1, <1>1, <2>1 DEF VideoCmd, VideoPc, BegunPc, CameraPc, ScreenPc, EitherPc
    <3> QED BY <3>1, <3>2, <1>1, <2>1 DEF VideoCmd, Steps, Same
  <2>3. LitBy(c)' = {c} /\ LoudBy(c)' = {} BY <2>2 DEF LitBy, LoudBy
  <2>4. SoundFree(c)' BY <2>2 DEF SoundFree
  <2>5. sent'[c].pc \in ScreenPc BY <2>2 DEF ScreenPc
  <2> QED BY <1>1, <1>3, <2>1, <2>2, <2>3, <2>4, <2>5, ScreenStays
<1>5. CASE V!Latest(c)
  <2> DEFINE p == IF video.screen = None THEN "done" ELSE "replacing"
  <2>0. video' = [video EXCEPT !.screen = c] BY <1>5 DEF V!Stores
  <2>1. sent' = [sent EXCEPT ![c].pc = p, ![c].took = video.screen] BY <1>5 DEF V!Stores
  <2>2. p \in {"done", "replacing"} /\ (p = "done" <=> video.screen = None) OBVIOUS
  <2>3. Kept(video) BY <1>2, <1>5, StandsKept
  <2> HIDE DEF p
  <2>4. /\ Steps(c) /\ sent'[c].pc = p /\ sent'[c].call = sent[c].call
        /\ sent'[c].took = video.screen /\ sent'[c].first = sent[c].first
    <3>1. sent[c] \in VideoCmd /\ sent \in [Commands -> VideoCmd] BY DEF VideoInv, VideoTypes
    <3>2. [sent[c] EXCEPT !.pc = p, !.took = video.screen] \in VideoCmd
      BY <3>1, <1>1, <2>1, <2>2 DEF VideoCmd, VideoPc, BegunPc, CameraPc, ScreenPc, EitherPc
    <3> QED BY <3>1, <3>2, <1>1, <2>1, <2>2 DEF VideoCmd, Steps, Same
  <2>5. /\ video' \in VideoState /\ video'.session = video.session /\ video'.camera = video.camera
        /\ video'.screen = c /\ video'.scrAsked = video.scrAsked /\ video'.sound = video.sound
    BY <1>1, <2>0 DEF VideoState
  <2>6. Bare(video') \/ (video'.session \in Calls /\ hungUp[video'.session] \in {"no", "taken"}) BY <2>3, <2>5 DEF Kept
  <2>7. Moves(c) BY <1>1, <2>4 DEF Moves, Steps, Same
  <2>8. LitBy(c)' = (IF p = "done" THEN {} ELSE {video.screen}) /\ LoudBy(c)' = {} BY <2>2, <2>4 DEF LitBy, LoudBy
  <2>9. \A x \in LitIn(video) : x \in LitBy(c)' \/ x \in LitIn(video')
    BY <2>2, <2>5, <2>8, VideoAssumption, MicAssumption DEF LitIn
  <2>10. c \in LitIn(video') /\ LoudIn(video') = LoudIn(video) BY <2>5 DEF LitIn, LoudIn
  <2>11. SoundFree(c)' BY <2>2, <2>4 DEF SoundFree
  <2>12. sent'[c].pc \in ScreenPc \cup {"done"} BY <2>2, <2>4 DEF ScreenPc
  <2>13. LitBy(c)' \subseteq Commands BY <1>1, <2>2, <2>8
  <2> QED BY <1>1, <1>2, <1>3, <2>4, <2>5, <2>6, <2>7, <2>8, <2>9, <2>10, <2>11, <2>12, <2>13, ScreenKeeps
<1> QED BY <1>4, <1>5

LEMMA HushesKeeps == ASSUME VideoInv, NEW c \in Commands, V!Hushes(c) PROVE VideoInv'
<1> DEFINE its == V!Live(c) /\ video.sound # None /\ video.sound.cap # None /\ video.sound.ticket = sent[c].seq
<1>1. /\ sent[c].pc = "hushing" /\ UNCHANGED <<carried, hungUp, torn, turn, lit, buttons>>
      /\ video' = (IF its THEN [video EXCEPT !.sound.cap = None] ELSE video)
      /\ loud' = (IF its THEN loud \ {video.sound.cap} ELSE loud)
      /\ sent[c].pc \in ScreenPc /\ VideoTypes /\ video \in VideoState
  BY DEF V!Hushes, ScreenPc, VideoInv, VideoTypes
<1>2. /\ sent[c].pc \in BegunPc /\ sent[c].ours /\ sent[c].kind = "screen" BY <1>1, ScreenFacts
<1>3. LitBy(c) = {} /\ LoudBy(c) = {} BY <1>1 DEF LitBy, LoudBy
<1>4. sent' = [sent EXCEPT ![c].pc = "done"] BY DEF V!Hushes, V!Goes
<1>5. /\ Steps(c) /\ sent'[c].pc = "done" /\ sent'[c].call = sent[c].call
      /\ sent'[c].took = sent[c].took /\ sent'[c].first = sent[c].first
  <2>1. sent[c] \in VideoCmd /\ sent \in [Commands -> VideoCmd] BY DEF VideoInv, VideoTypes
  <2>2. [sent[c] EXCEPT !.pc = "done"] \in VideoCmd
    BY <2>1, <1>1, <1>4 DEF VideoCmd, VideoPc, BegunPc, CameraPc, ScreenPc, EitherPc
  <2> QED BY <2>1, <2>2, <1>1, <1>4 DEF VideoCmd, Steps, Same
<1>6. Moves(c) BY <1>1, <1>5 DEF Moves, Steps, Same
<1>7. LitBy(c)' = {} /\ LoudBy(c)' = {} BY <1>5 DEF LitBy, LoudBy
<1>8. SoundFree(c)' BY <1>5 DEF SoundFree
<1>9. CASE ~its
  <2>1. video' = video /\ loud' = loud BY <1>1, <1>9
  <2> QED BY <1>1, <1>3, <1>5, <1>7, <1>8, <2>1, ScreenStays
<1>10. CASE its
  <2>1. video' = [video EXCEPT !.sound.cap = None] /\ loud' = loud \ {video.sound.cap} BY <1>1, <1>10
  <2>2. video.sound \in SoundState BY <1>1, <1>10 DEF VideoState
  <2>3. [video.sound EXCEPT !.cap = None] \in SoundState /\ [video.sound EXCEPT !.cap = None].cap = None
    BY <2>2 DEF SoundState
  <2>4. video' = [video EXCEPT !.sound = [video.sound EXCEPT !.cap = None]] BY <1>1, <2>1 DEF VideoState
  <2>5. /\ video' \in VideoState /\ video'.session = video.session /\ video'.camera = video.camera
        /\ video'.screen = video.screen /\ video'.scrAsked = video.scrAsked
        /\ video'.camAsked = video.camAsked /\ video'.wish = video.wish /\ video'.sound.cap = None
    BY <1>1, <2>3, <2>4 DEF VideoState
  <2>6. Bare(video') \/ (video'.session \in Calls /\ hungUp[video'.session] \in {"no", "taken"})
    BY <2>5 DEF VideoInv, StateInv, Bare, Kept
  <2>7. LitIn(video') = LitIn(video) /\ \A x \in loud' : x \notin LoudIn(video) BY <2>1, <2>5 DEF LitIn, LoudIn
  <2> QED BY <1>1, <1>2, <1>3, <1>5, <1>6, <1>7, <1>8, <2>1, <2>5, <2>6, <2>7, ScreenKeeps
<1> QED BY <1>9, <1>10

\* What a command that does not run holds.
LEMMA IdleHolds ==
    ASSUME NEW c \in Commands, sent[c].pc \in {"unused", "sent", "done", "failed"}
    PROVE  LitBy(c) = {} /\ LoudBy(c) = {} /\ CameraFree(c) /\ SoundFree(c)
BY DEF LitBy, LoudBy, CameraFree, SoundFree, OpeningPc

\* A step of the page: a command that is new, or one whose answer it has.
LEMMA PageKeeps ==
    ASSUME VideoInv, NEW c \in Commands, sent[c].pc \in {"unused", "done", "failed"},
           sent' \in [Commands -> VideoCmd], \A b \in Commands : b # c => sent'[b] = sent[b],
           \/ sent'[c].pc = "done" /\ ~sent'[c].ours /\ buttons'.seq = buttons.seq
           \/ sent'[c].pc = "sent" /\ sent'[c].ours /\ sent'[c].seq = buttons.seq + 1 /\ buttons'.seq = buttons.seq + 1,
           buttons' \in ButtonState, UNCHANGED <<carried, hungUp, torn, video, turn, lit, loud>>
    PROVE  VideoInv'
<1> USE DEF VideoInv
<1>1. sent \in [Commands -> VideoCmd] /\ buttons.seq \in Nat /\ buttons'.seq \in Nat /\ buttons.seq <= buttons'.seq
  BY DEF VideoTypes, ButtonState
<1>2. \A b \in Commands : sent[b].seq \in Nat /\ sent'[b].seq \in Nat BY <1>1 DEF VideoCmd
<1>3. VideoTypes' BY DEF VideoTypes
<1>4. TurnsInv' BY DEF TurnsInv
<1>5. OrdersInv'
  <2>1. ASSUME NEW b \in Commands PROVE OrderInv(b)'
    <3>1. CASE b # c
      <4>1. OrderInv(b) /\ sent'[b] = sent[b] BY <3>1 DEF OrdersInv
      <4> QED BY <1>1, <1>2, <4>1 DEF OrderInv, V!HasTurn
    <3>2. CASE b = c
      <4>1. sent'[c].pc \in {"sent", "done"} OBVIOUS
      <4>2. sent'[c].pc \notin BegunPc /\ (sent'[c].pc = "sent" => sent'[c].ours)
        BY <4>1 DEF BegunPc, CameraPc, ScreenPc, EitherPc
      <4>3. sent'[c].ours => 1 <= sent'[c].seq /\ sent'[c].seq <= buttons'.seq BY <1>1
      <4> QED BY <3>2, <4>2, <4>3 DEF OrderInv, BegunPc, EitherPc, CameraPc
    <3> QED BY <3>1, <3>2
  <2>2. ASSUME NEW a \in Commands, NEW b \in Commands, sent'[a].ours, sent'[b].ours, sent'[a].seq = sent'[b].seq PROVE a = b
    <3>1. CASE a # c /\ b # c BY <2>2, <3>1 DEF OrdersInv
    <3>2. ASSUME NEW d \in Commands, d # c, sent'[d].ours PROVE sent'[d].seq <= buttons.seq
      BY <3>2 DEF OrdersInv, OrderInv
    <3> QED BY <1>1, <1>2, <2>2, <3>1, <3>2
  <2> QED BY <2>1, <2>2 DEF OrdersInv
<1>6. ASSUME NEW b \in Commands
      PROVE  LitBy(b)' = LitBy(b) /\ LoudBy(b)' = LoudBy(b) /\ CameraFree(b)' /\ SoundFree(b)'
  <2>1. CASE b # c
    <3>1. sent'[b] = sent[b] /\ CameraFree(b) /\ SoundFree(b) BY <2>1 DEF StateInv
    <3> QED BY <3>1 DEF LitBy, LoudBy, CameraFree, SoundFree, V!Latest, V!Live
  <2>2. CASE b = c
    <3>1. LitBy(c) = {} /\ LoudBy(c) = {} BY IdleHolds
    <3>2. sent'[c].pc \in {"sent", "done"} OBVIOUS
    <3>3. LitBy(c)' = {} /\ LoudBy(c)' = {} BY <3>2 DEF LitBy, LoudBy
    <3>4. CameraFree(c)' /\ SoundFree(c)' BY <3>2 DEF CameraFree, SoundFree, OpeningPc
    <3> QED BY <2>2, <3>1, <3>3, <3>4
  <2> QED BY <2>1, <2>2
<1>7. StateInv' BY <1>6 DEF StateInv, Bare, Kept
<1>8. HeldInv' BY <1>6 DEF HeldInv, LitIn, LoudIn
<1> QED BY <1>3, <1>4, <1>5, <1>7, <1>8

LEMMA VideoAskKeeps ==
    ASSUME VideoInv, NEW c \in Commands, NEW kind \in {"camera", "screen"}, NEW on \in BOOLEAN,
           NEW dev \in Cameras \cup {None}, NEW sound \in BOOLEAN, V!Ask(c, kind, on, dev, sound),
           buttons' \in ButtonState, buttons'.seq = buttons.seq + 1, UNCHANGED <<carried, hungUp, torn, video, turn, lit, loud>>
    PROVE  VideoInv'
<1> DEFINE r == [V!NoCmd EXCEPT !.pc = "sent", !.kind = kind, !.on = on, !.dev = dev, !.sound = sound,
                                !.seq = buttons.seq + 1, !.ours = TRUE]
<1>1. sent[c].pc = "unused" /\ sent' = [sent EXCEPT ![c] = r] BY DEF V!Ask, V!Unused
<1>2. sent \in [Commands -> VideoCmd] /\ buttons.seq \in Nat BY DEF VideoInv, VideoTypes, ButtonState
<1>3. r \in VideoCmd /\ r.pc = "sent" /\ r.ours /\ r.seq = buttons.seq + 1
  <2>1. V!NoCmd \in VideoCmd BY DEF V!NoCmd, VideoCmd, VideoPc
  <2>2. buttons.seq + 1 \in Nat /\ "sent" \in VideoPc BY <1>2 DEF VideoPc
  <2> QED BY <2>1, <2>2 DEF VideoCmd
<1> HIDE DEF r
<1>4. /\ sent' \in [Commands -> VideoCmd] /\ (\A b \in Commands : b # c => sent'[b] = sent[b]) /\ sent'[c] = r
  BY <1>1, <1>2, <1>3
<1> QED BY <1>1, <1>3, <1>4, PageKeeps

LEMMA PressesKeep ==
    ASSUME VideoInv, V!PressCamera \/ (\E d \in Cameras : V!PickCamera(d)) \/ (\E sound \in BOOLEAN : V!PressScreen(sound))
    PROVE  VideoInv'
<1>1. VideoTypes /\ buttons \in ButtonState BY DEF VideoInv, VideoTypes
<1>2. UNCHANGED <<carried, hungUp, torn, video, turn, lit, loud>> BY DEF V!PressCamera, V!PickCamera, V!PressScreen
<1>3. CASE V!PressCamera
  <2> DEFINE on == IF buttons.camTicket # None THEN ~sent[buttons.camTicket].on ELSE ~buttons.cam
  <2>1. PICK c \in Commands : /\ V!Ask(c, "camera", on, IF on THEN buttons.dev ELSE None, FALSE)
                              /\ buttons' = [buttons EXCEPT !.camTicket = c, !.seq = @ + 1]
    BY <1>3 DEF V!PressCamera
  <2>2. on \in BOOLEAN BY <1>1 DEF VideoTypes, VideoCmd, ButtonState
  <2>3. (IF on THEN buttons.dev ELSE None) \in Cameras \cup {None} BY <1>1 DEF ButtonState
  <2> HIDE DEF on
  <2>4. buttons' \in ButtonState /\ buttons'.seq = buttons.seq + 1
    <3>1. buttons' = [call |-> buttons.call, cam |-> buttons.cam, dev |-> buttons.dev, camTicket |-> c, scr |-> buttons.scr,
                 scrTicket |-> buttons.scrTicket, seq |-> buttons.seq + 1]
      BY <1>1, <2>1 DEF ButtonState
    <3>2. buttons.seq + 1 \in Nat BY <1>1 DEF ButtonState
    <3> QED BY <1>1, <3>1, <3>2 DEF ButtonState
  <2> QED BY <1>2, <2>1, <2>2, <2>3, <2>4, VideoAskKeeps
<1>4. ASSUME NEW d \in Cameras, V!PickCamera(d) PROVE VideoInv'
  <2>1. CASE sent' = sent /\ buttons' = [buttons EXCEPT !.dev = d]
    <3>1. buttons' \in ButtonState /\ buttons'.seq = buttons.seq BY <1>1, <2>1 DEF ButtonState
    <3> QED BY <1>2, <2>1, <3>1 DEF VideoInv, VideoTypes, TurnsInv, OrdersInv, OrderInv, V!HasTurn, StateInv, Bare, Kept,
                                CameraFree, SoundFree, V!Latest, V!Live, HeldInv, LitBy, LoudBy, LitIn, LoudIn
  <2>2. ASSUME NEW c \in Commands, V!Ask(c, "camera", TRUE, d, FALSE),
               buttons' = [buttons EXCEPT !.dev = d, !.camTicket = c, !.seq = @ + 1]
        PROVE  VideoInv'
    <3>1. buttons' \in ButtonState /\ buttons'.seq = buttons.seq + 1
      <4>1. buttons' = [call |-> buttons.call, cam |-> buttons.cam, dev |-> d, camTicket |-> c, scr |-> buttons.scr,
                      scrTicket |-> buttons.scrTicket, seq |-> buttons.seq + 1]
        BY <1>1, <2>2 DEF ButtonState
      <4>2. buttons.seq + 1 \in Nat BY <1>1 DEF ButtonState
      <4> QED BY <1>1, <4>1, <4>2 DEF ButtonState
    <3> QED BY <1>2, <2>2, <3>1, VideoAskKeeps
  <2> QED BY <1>4, <2>1, <2>2 DEF V!PickCamera
<1>5. ASSUME NEW sound \in BOOLEAN, V!PressScreen(sound) PROVE VideoInv'
  <2>1. PICK c \in Commands : V!Ask(c, "screen", ~buttons.scr, None, sound) /\ buttons' = [buttons EXCEPT !.scrTicket = c, !.seq = @ + 1]
    BY <1>5 DEF V!PressScreen
  <2>2. buttons' \in ButtonState /\ buttons'.seq = buttons.seq + 1
    <3>1. buttons' = [call |-> buttons.call, cam |-> buttons.cam, dev |-> buttons.dev, camTicket |-> buttons.camTicket, scr |-> buttons.scr,
                 scrTicket |-> c, seq |-> buttons.seq + 1]
      BY <1>1, <2>1 DEF ButtonState
    <3>2. buttons.seq + 1 \in Nat BY <1>1 DEF ButtonState
    <3> QED BY <1>1, <3>1, <3>2 DEF ButtonState
  <2>3. (~buttons.scr) \in BOOLEAN OBVIOUS
  <2> QED BY <1>2, <2>1, <2>2, <2>3, VideoAskKeeps
<1> QED BY <1>3, <1>4, <1>5

LEMMA OverType == V!Over \in VideoCmd /\ V!Over.pc = "done" /\ ~V!Over.ours
BY DEF V!Over, V!NoCmd, VideoCmd, VideoPc

LEMMA VideoAnsweredKeeps == ASSUME VideoInv, NEW c \in Commands, V!Answered(c) PROVE VideoInv'
<1>1. /\ sent[c].pc \in {"done", "failed"} /\ sent' = [sent EXCEPT ![c] = V!Over]
      /\ UNCHANGED <<carried, hungUp, torn, video, turn, lit, loud>>
  BY DEF V!Answered, V!Ended
<1>2. sent \in [Commands -> VideoCmd] /\ buttons \in ButtonState BY DEF VideoInv, VideoTypes
<1>3. sent' \in [Commands -> VideoCmd] /\ (\A b \in Commands : b # c => sent'[b] = sent[b]) /\ sent'[c] = V!Over
  BY <1>1, <1>2, OverType
<1> DEFINE on == sent[c].on /\ sent[c].pc = "done"
<1>4. buttons' = IF c = buttons.camTicket THEN [buttons EXCEPT !.cam = on, !.camTicket = None]
                 ELSE IF c = buttons.scrTicket THEN [buttons EXCEPT !.scr = on, !.scrTicket = None]
                 ELSE buttons
  BY DEF V!Answered
<1>5. on \in BOOLEAN BY <1>2 DEF VideoCmd
<1> HIDE DEF on
<1>6. buttons' \in ButtonState /\ buttons'.seq = buttons.seq BY <1>2, <1>4, <1>5 DEF ButtonState
<1> QED BY <1>1, <1>3, <1>6, OverType, PageKeeps

\* A step in which no command moves.
LEMMA RestKeeps ==
    ASSUME VideoInv, VideoTypes', TurnsInv', UNCHANGED <<sent, turn>>,
           \A c \in Commands : sent[c].ours => buttons.seq <= buttons'.seq,
           \A c \in Commands : sent[c].pc \in BegunPc =>
               \A k \in Calls : k # sent[c].call => hungUp'[k] \in {"unborn", "done"},
           Bare(video') \/ (video'.session \in Calls /\ hungUp'[video'.session] \in {"no", "taken"}),
           \/ video'.camera = None
           \/ /\ video'.session = video.session
              /\ video'.camera # None => video.camera # None /\ video'.camera.cap \in {video.camera.cap, None},
           \/ video'.sound = None
           \/ video'.session = video.session /\ video'.sound = video.sound /\ video'.scrAsked = video.scrAsked
    PROVE  OrdersInv' /\ StateInv'
<1> USE DEF VideoInv
<1>1. \A c \in Commands : OrderInv(c)'
  <2>1. SUFFICES ASSUME NEW c \in Commands PROVE OrderInv(c)' OBVIOUS
  <2>2. OrderInv(c) /\ sent[c] \in VideoCmd BY DEF OrdersInv, VideoTypes
  <2>3. buttons.seq \in Nat /\ buttons'.seq \in Nat /\ sent[c].seq \in Nat BY <2>2 DEF VideoTypes, ButtonState, VideoCmd
  <2>4. sent[c].ours => sent[c].seq <= buttons'.seq BY <2>2, <2>3 DEF OrderInv
  <2> QED BY <2>2, <2>4 DEF OrderInv, V!HasTurn
<1>2. OrdersInv' BY <1>1 DEF OrdersInv
<1>3. ASSUME NEW c \in Commands PROVE CameraFree(c)' /\ SoundFree(c)'
  <2>1. CameraFree(c) /\ SoundFree(c) BY DEF StateInv
  <2>2. CameraFree(c)' BY <2>1 DEF CameraFree, V!Live
  <2>3. SoundFree(c)' BY <2>1 DEF SoundFree, V!Latest, V!Live
  <2> QED BY <2>2, <2>3
<1>4. (Bare(video) \/ Kept(video))' BY DEF Bare, Kept
<1> QED BY <1>2, <1>3, <1>4 DEF StateInv

LEMMA RestHolds == ASSUME UNCHANGED sent PROVE \A c \in Commands : LitBy(c)' = LitBy(c) /\ LoudBy(c)' = LoudBy(c)
BY DEF LitBy, LoudBy

LEMMA ConnectsKeeps == ASSUME VideoInv, NEW k \in Calls, V!Connects(k) PROVE VideoInv'
<1> USE DEF VideoInv
<1>1. /\ carried = None /\ carried' = k /\ hungUp[k] = "unborn" /\ (\A j \in Calls : j < k => hungUp[j] = "done")
      /\ hungUp' = [hungUp EXCEPT ![k] = "no"] /\ buttons' = [buttons EXCEPT !.call = k, !.cam = FALSE, !.scr = FALSE, !.seq = 0]
      /\ UNCHANGED <<torn, video, turn, sent, lit, loud>> /\ ~V!Busy("camera") /\ ~V!Busy("screen")
  BY DEF V!Connects
<1>2. \A c \in Commands : ~sent[c].ours BY <1>1 DEF V!Busy, VideoTypes, VideoCmd
<1>3. \A c \in Commands : sent[c].pc \notin BegunPc BY <1>2 DEF OrdersInv, OrderInv
<1>4. k # None /\ Calls \subseteq Nat BY VideoAssumption, MicAssumption
<1>5. VideoTypes' BY <1>1 DEF VideoTypes, ButtonState
<1>6. TurnsInv'
  <2>1. \A j \in Calls : hungUp'[j] = IF j = k THEN "no" ELSE hungUp[j] BY <1>1 DEF VideoTypes
  <2>2. \A i, j \in Calls : i < j /\ hungUp'[j] # "unborn" => hungUp'[i] = "done"
    <3>1. SUFFICES ASSUME NEW i \in Calls, NEW j \in Calls, i < j, hungUp'[j] # "unborn" PROVE hungUp'[i] = "done"
      OBVIOUS
    <3>2. i # j BY <1>4, <3>1
    <3>3. CASE j = k BY <1>1, <2>1, <3>1, <3>2, <3>3
    <3>4. CASE j # k BY <1>1, <2>1, <3>1, <3>4 DEF TurnsInv
    <3> QED BY <3>3, <3>4
  <2>3. \A j \in Calls : hungUp'[j] = "no" => carried' = j BY <1>1, <1>4, <2>1 DEF TurnsInv
  <2>4. torn' # {} => \E j \in Calls : hungUp'[j] = "torn" BY <1>1, <2>1 DEF TurnsInv
  <2> QED BY <1>1, <2>1, <2>2, <2>3, <2>4 DEF TurnsInv
<1>7. OrdersInv' /\ StateInv'
  <2>1. Bare(video') \/ (video'.session \in Calls /\ hungUp'[video'.session] \in {"no", "taken"})
    BY <1>1 DEF StateInv, Kept, VideoTypes
  <2> QED BY <1>1, <1>2, <1>3, <1>5, <1>6, <2>1, RestKeeps
<1>8. HeldInv' BY <1>1, RestHolds DEF HeldInv, LitIn, LoudIn
<1> QED BY <1>5, <1>6, <1>7, <1>8

\* A command that has begun is of the call that is not over.
LEMMA BegunOf ==
    ASSUME VideoInv, NEW k \in Calls, hungUp[k] \notin {"unborn", "done"}
    PROVE  \A c \in Commands : sent[c].pc \in BegunPc =>
               sent[c].call = k /\ \A j \in Calls : j # k => hungUp[j] \in {"unborn", "done"}
BY BegunFacts

LEMMA HangUpKeeps == ASSUME VideoInv, V!HangUp PROVE VideoInv'
<1> USE DEF VideoInv
<1>1. /\ carried # None /\ carried' = None /\ hungUp' = [hungUp EXCEPT ![carried] = "taken"]
      /\ buttons' = [buttons EXCEPT !.call = None, !.cam = FALSE, !.scr = FALSE]
      /\ UNCHANGED <<torn, video, turn, sent, lit, loud>>
  BY DEF V!HangUp
<1>2. carried \in Calls /\ hungUp[carried] = "no" BY <1>1 DEF VideoTypes, TurnsInv
<1>3. \A j \in Calls : hungUp'[j] = IF j = carried THEN "taken" ELSE hungUp[j] BY <1>1, <1>2 DEF VideoTypes
<1>4. VideoTypes' BY <1>1, <1>2 DEF VideoTypes, ButtonState
<1>5. TurnsInv' BY <1>1, <1>2, <1>3 DEF TurnsInv
<1>6. OrdersInv' /\ StateInv'
  <2>1. Bare(video') \/ (video'.session \in Calls /\ hungUp'[video'.session] \in {"no", "taken"})
    BY <1>1, <1>3 DEF StateInv, Kept
  <2>2. \A c \in Commands : sent[c].pc \in BegunPc =>
            \A k \in Calls : k # sent[c].call => hungUp'[k] \in {"unborn", "done"}
    BY <1>2, <1>3, BegunOf
  <2>3. buttons'.seq = buttons.seq /\ buttons.seq \in Nat BY <1>1 DEF VideoTypes, ButtonState
  <2> QED BY <1>1, <1>4, <1>5, <2>1, <2>2, <2>3, RestKeeps
<1>7. HeldInv' BY <1>1, RestHolds DEF HeldInv, LitIn, LoudIn
<1> QED BY <1>4, <1>5, <1>6, <1>7

LEMMA TearsKeeps == ASSUME VideoInv, NEW k \in Calls, V!Tears(k) PROVE VideoInv'
<1> USE DEF VideoInv
<1>1. /\ hungUp[k] = "taken" /\ hungUp' = [hungUp EXCEPT ![k] = "torn"] /\ torn' = LitIn(video) \cup LoudIn(video)
      /\ video' = V!Fresh(None) /\ UNCHANGED <<carried, turn, sent, lit, loud, buttons>>
  BY DEF V!Tears, LitIn, LoudIn
<1>2. \A j \in Calls : hungUp'[j] = IF j = k THEN "torn" ELSE hungUp[j] BY <1>1 DEF VideoTypes
<1>3. torn = {} BY <1>1, OneCall DEF TurnsInv
<1>4. VideoTypes' BY <1>1, FreshState DEF VideoTypes, LitIn, LoudIn
<1>5. TurnsInv' BY <1>1, <1>2, OneCall DEF TurnsInv
<1>6. OrdersInv' /\ StateInv'
  <2>1. \A c \in Commands : sent[c].pc \in BegunPc =>
            \A j \in Calls : j # sent[c].call => hungUp'[j] \in {"unborn", "done"}
    BY <1>1, <1>2, BegunOf
  <2>2. buttons'.seq = buttons.seq /\ buttons.seq \in Nat BY <1>1 DEF VideoTypes, ButtonState
  <2>3. video'.camera = None /\ video'.sound = None /\ Bare(video') BY <1>1, FreshState
  <2> QED BY <1>1, <1>4, <1>5, <2>1, <2>2, <2>3, RestKeeps
<1>7. HeldInv'
  <2>1. \A c \in Commands : LitBy(c)' = LitBy(c) /\ LoudBy(c)' = LoudBy(c) BY <1>1, RestHolds
  <2> QED BY <1>1, <1>3, <2>1 DEF HeldInv
<1> QED BY <1>4, <1>5, <1>6, <1>7

LEMMA VideoStopsKeeps == ASSUME VideoInv, NEW k \in Calls, V!Stops(k) PROVE VideoInv'
<1> USE DEF VideoInv
<1>1. /\ hungUp[k] = "torn" /\ hungUp' = [hungUp EXCEPT ![k] = "done"] /\ lit' = lit \ torn /\ loud' = loud \ torn
      /\ torn' = {} /\ UNCHANGED <<carried, video, turn, sent, buttons>>
  BY DEF V!Stops
<1>2. \A j \in Calls : hungUp'[j] = IF j = k THEN "done" ELSE hungUp[j] BY <1>1 DEF VideoTypes
<1>3. VideoTypes' BY <1>1 DEF VideoTypes
<1>4. TurnsInv' BY <1>1, <1>2 DEF TurnsInv
<1>5. OrdersInv' /\ StateInv'
  <2>1. \A c \in Commands : sent[c].pc \in BegunPc =>
            \A j \in Calls : j # sent[c].call => hungUp'[j] \in {"unborn", "done"}
    BY <1>1, <1>2, BegunOf
  <2>2. buttons'.seq = buttons.seq /\ buttons.seq \in Nat BY <1>1 DEF VideoTypes, ButtonState
  <2>3. Bare(video') \/ (video'.session \in Calls /\ hungUp'[video'.session] \in {"no", "taken"})
    BY <1>1, <1>2 DEF StateInv, Kept
  <2> QED BY <1>1, <1>3, <1>4, <2>1, <2>2, <2>3, RestKeeps
<1>6. HeldInv'
  <2>1. \A c \in Commands : LitBy(c)' = LitBy(c) /\ LoudBy(c)' = LoudBy(c) BY <1>1, RestHolds
  <2> QED BY <1>1, <2>1 DEF HeldInv, LitIn, LoudIn
<1> QED BY <1>3, <1>4, <1>5, <1>6

LEMMA ReloadKeeps == ASSUME VideoInv, V!Reload PROVE VideoInv'
<1> USE DEF VideoInv
<1> DEFINE s == V!StateOf(carried)
           v == [s EXCEPT !.camAsked = 0, !.wish = V!NoWish, !.scrAsked = 0]
<1>1. /\ carried # None /\ video' = v /\ UNCHANGED <<carried, hungUp, torn, turn, lit, loud>>
      /\ \A c \in Commands : sent[c].pc \in {"done", "failed", "unused"}
      /\ sent' = [c \in Commands |-> IF sent[c].pc \in V!Ended THEN V!Over ELSE [sent[c] EXCEPT !.ours = FALSE]]
  BY DEF V!Reload, V!Ended
<1>2. buttons' = [V!NoPage EXCEPT !.call = carried, !.dev = buttons.dev, !.cam = V!Sends.cam, !.scr = V!Sends.scr]
  BY DEF V!Reload
<1>3. buttons' \in ButtonState /\ buttons'.seq = 0
  <2>1. V!Sends.cam \in BOOLEAN /\ V!Sends.scr \in BOOLEAN BY DEF V!Sends
  <2>2. buttons.dev \in Cameras /\ carried \in Calls BY <1>1 DEF VideoTypes, ButtonState
  <2>3. buttons' = [call |-> carried, cam |-> V!Sends.cam, dev |-> buttons.dev, camTicket |-> None, scr |-> V!Sends.scr,
                    scrTicket |-> None, seq |-> 0]
    BY <1>2 DEF V!NoPage
  <2> QED BY <2>1, <2>2, <2>3 DEF ButtonState
<1>4. \A c \in Commands : /\ sent'[c] \in VideoCmd /\ ~sent'[c].ours /\ sent'[c].pc \in {"done", "unused"}
  <2>1. SUFFICES ASSUME NEW c \in Commands
                 PROVE  sent'[c] \in VideoCmd /\ ~sent'[c].ours /\ sent'[c].pc \in {"done", "unused"}
    OBVIOUS
  <2>2. sent[c] \in VideoCmd BY DEF VideoTypes
  <2>3. CASE sent[c].pc \in V!Ended BY <1>1, <2>3, OverType
  <2>4. CASE sent[c].pc \notin V!Ended
    <3>1. sent'[c] = [sent[c] EXCEPT !.ours = FALSE] /\ sent[c].pc = "unused" BY <1>1, <2>4 DEF V!Ended
    <3>2. [sent[c] EXCEPT !.ours = FALSE] \in VideoCmd BY <2>2 DEF VideoCmd
    <3> QED BY <2>2, <3>1, <3>2 DEF VideoCmd
  <2> QED BY <2>3, <2>4
<1>5. sent' \in [Commands -> VideoCmd] BY <1>1, <1>4
<1>6. /\ carried \in Calls /\ hungUp[carried] = "no" /\ \A j \in Calls : j # carried => hungUp[j] \in {"unborn", "done"}
  BY <1>1, OneCall DEF VideoTypes, TurnsInv
<1>7. s \in VideoState /\ s.session = carried /\ LitIn(s) = LitIn(video) /\ LoudIn(s) = LoudIn(video)
  BY <1>6, StateOfCall
<1> HIDE DEF s
<1>8. v \in VideoState /\ v.session = carried /\ v.camera = s.camera /\ v.screen = s.screen /\ v.sound = s.sound
  BY <1>7 DEF VideoState, VideoWish, V!NoWish
<1> HIDE DEF v
<1>9. VideoTypes' BY <1>1, <1>3, <1>5, <1>8 DEF VideoTypes
<1>10. TurnsInv' BY <1>1 DEF TurnsInv
<1>11. \A c \in Commands : sent'[c].pc \notin BegunPc \cup {"sent"}
  BY <1>4 DEF BegunPc, CameraPc, ScreenPc, EitherPc
<1>12. OrdersInv' BY <1>4, <1>11 DEF OrdersInv, OrderInv, BegunPc
<1>13. \A c \in Commands : LitBy(c)' = {} /\ LoudBy(c)' = {} /\ CameraFree(c)' /\ SoundFree(c)'
  BY <1>4 DEF LitBy, LoudBy, CameraFree, SoundFree, OpeningPc
<1>14. StateInv' BY <1>1, <1>6, <1>8, <1>13 DEF StateInv, Kept
<1>15. HeldInv'
  <2>1. \A c \in Commands : LitBy(c) = {} /\ LoudBy(c) = {} BY <1>1, IdleHolds
  <2>2. LitIn(video') = LitIn(video) /\ LoudIn(video') = LoudIn(video) BY <1>1, <1>7, <1>8 DEF LitIn, LoudIn
  <2>3. LitIn(video)' = LitIn(video') /\ LoudIn(video)' = LoudIn(video') BY DEF LitIn, LoudIn
  <2> QED BY <1>1, <2>1, <2>2, <2>3 DEF HeldInv
<1> QED BY <1>9, <1>10, <1>12, <1>14, <1>15

LEMMA VideoSfuMutesKeeps == ASSUME VideoInv, V!SfuMutes PROVE VideoInv'
<1> USE DEF VideoInv
<1>1. /\ carried # None /\ ~V!Busy("camera") /\ UNCHANGED <<carried, hungUp, torn, turn, lit, loud, buttons>>
      /\ \/ video.camera # None /\ video' = [video EXCEPT !.camera.muted = TRUE] /\ UNCHANGED sent
         \/ \E c \in Commands : sent[c].kind = "camera" /\ sent[c].pc = "recording"
  BY DEF V!SfuMutes
<1>2. ASSUME NEW c \in Commands, sent[c].kind = "camera", sent[c].pc = "recording" PROVE FALSE
  <2>1. sent[c].ours BY <1>2 DEF OrdersInv, OrderInv, BegunPc, CameraPc
  <2> QED BY <1>1, <1>2, <2>1 DEF V!Busy
<1>3. video.camera # None /\ video' = [video EXCEPT !.camera.muted = TRUE] /\ UNCHANGED sent BY <1>1, <1>2
<1>0. video.camera # None /\ UNCHANGED <<carried, hungUp, torn, turn, sent, lit, loud, buttons>> BY <1>1, <1>3
<1>4. video \in VideoState /\ video.camera \in CameraState BY <1>3 DEF VideoTypes, VideoState
<1> DEFINE r == [video.camera EXCEPT !.muted = TRUE]
<1>5. r \in CameraState /\ r.cap = video.camera.cap BY <1>4 DEF CameraState
<1>6. r # None BY <1>5, VideoAssumption, MicAssumption DEF CameraState
<1>7. video' = [video EXCEPT !.camera = r] BY <1>3, <1>4 DEF VideoState
<1> HIDE DEF r
<1>8. /\ video' \in VideoState /\ video'.session = video.session /\ video'.camera = r /\ video'.screen = video.screen
      /\ video'.sound = video.sound /\ video'.scrAsked = video.scrAsked
      /\ video'.camAsked = video.camAsked /\ video'.wish = video.wish
  BY <1>4, <1>5, <1>7 DEF VideoState
<1>9. VideoTypes' BY <1>0, <1>8 DEF VideoTypes
<1>10. TurnsInv' BY <1>0 DEF TurnsInv
<1>11. OrdersInv' /\ StateInv'
  <2>1. Bare(video') \/ (video'.session \in Calls /\ hungUp'[video'.session] \in {"no", "taken"})
    BY <1>0, <1>5, <1>8 DEF StateInv, Bare, Kept
  <2>2. buttons'.seq = buttons.seq /\ buttons.seq \in Nat BY <1>1 DEF VideoTypes, ButtonState
  <2>3. \A c \in Commands : sent[c].pc \in BegunPc =>
               \A k \in Calls : k # sent[c].call => hungUp'[k] \in {"unborn", "done"}
    BY <1>1, BegunFacts
  <2>4. /\ video'.session = video.session /\ video.camera # None
        /\ video'.camera.cap \in {video.camera.cap, None}
    BY <1>0, <1>5, <1>8
  <2> QED BY <1>0, <1>8, <1>9, <1>10, <2>1, <2>2, <2>3, <2>4, RestKeeps
<1>12. HeldInv'
  <2>1. \A c \in Commands : LitBy(c)' = LitBy(c) /\ LoudBy(c)' = LoudBy(c) BY <1>3, RestHolds
  <2>2. LitIn(video') = LitIn(video) /\ LoudIn(video') = LoudIn(video) BY <1>3, <1>5, <1>6, <1>8 DEF LitIn, LoudIn
  <2>3. LitIn(video)' = LitIn(video') /\ LoudIn(video)' = LoudIn(video') BY DEF LitIn, LoudIn
  <2> QED BY <1>1, <2>1, <2>2, <2>3 DEF HeldInv
<1> QED BY <1>9, <1>10, <1>11, <1>12

LEMMA PumpKeeps == ASSUME VideoInv, V!Pump PROVE VideoInv'
<1> USE DEF VideoInv
<1> DEFINE closes == video.session = carried /\ video.camera # None /\ video.camera.muted
<1>1. /\ video' = (IF closes THEN [video EXCEPT !.camera.cap = None] ELSE video)
      /\ lit' = (IF closes THEN lit \ {video.camera.cap} ELSE lit)
      /\ buttons' = (IF buttons.call = carried THEN V!LocalChanged(V!Sends) ELSE buttons)
      /\ UNCHANGED <<carried, hungUp, torn, turn, sent, loud>>
  BY DEF V!Pump
<1>2. buttons \in ButtonState /\ video \in VideoState BY DEF VideoTypes
<1>3. buttons' \in ButtonState /\ buttons'.seq = buttons.seq
  <2>1. V!Sends.cam \in BOOLEAN /\ V!Sends.scr \in BOOLEAN BY DEF V!Sends
  <2>2. V!LocalChanged(V!Sends) \in ButtonState /\ V!LocalChanged(V!Sends).seq = buttons.seq
    <3> DEFINE cam == IF V!Busy("camera") THEN buttons.cam ELSE V!Sends.cam
               camTicket == IF V!Busy("camera") \/ buttons.cam = V!Sends.cam THEN buttons.camTicket ELSE None
               scr == IF V!Busy("screen") THEN buttons.scr ELSE V!Sends.scr
               scrTicket == IF V!Busy("screen") \/ buttons.scr = V!Sends.scr THEN buttons.scrTicket ELSE None
    <3>1. V!LocalChanged(V!Sends) = [buttons EXCEPT !.cam = cam, !.camTicket = camTicket, !.scr = scr, !.scrTicket = scrTicket]
      BY DEF V!LocalChanged
    <3>2. /\ cam \in BOOLEAN /\ scr \in BOOLEAN /\ camTicket \in Commands \cup {None}
          /\ scrTicket \in Commands \cup {None}
      BY <1>2, <2>1 DEF ButtonState
    <3> HIDE DEF cam, camTicket, scr, scrTicket
    <3> QED BY <1>2, <3>1, <3>2 DEF ButtonState
  <2> QED BY <1>1, <1>2, <2>2
<1>4. /\ video' \in VideoState /\ video'.session = video.session /\ video'.screen = video.screen
      /\ video'.sound = video.sound /\ video'.scrAsked = video.scrAsked
      /\ video'.camAsked = video.camAsked /\ video'.wish = video.wish
      /\ video'.camera # None => video.camera # None /\ video'.camera.cap \in {video.camera.cap, None}
      /\ lit' \subseteq lit /\ \A x \in lit' : x \in LitIn(video) => x \in LitIn(video')
  <2>1. CASE closes
    <3>1. video' = [video EXCEPT !.camera.cap = None] /\ lit' = lit \ {video.camera.cap} BY <1>1, <2>1
    <3>2. video.camera # None /\ video.camera \in CameraState BY <1>2, <2>1 DEF VideoState
    <3> DEFINE r == [video.camera EXCEPT !.cap = None]
    <3>3. r \in CameraState /\ r.cap = None BY <3>2 DEF CameraState
    <3>4. video' = [video EXCEPT !.camera = r] BY <1>2, <3>1, <3>2 DEF VideoState
    <3> HIDE DEF r
    <3>5. /\ video' \in VideoState /\ video'.session = video.session /\ video'.screen = video.screen
          /\ video'.sound = video.sound /\ video'.scrAsked = video.scrAsked /\ video'.camera = r
          /\ video'.camAsked = video.camAsked /\ video'.wish = video.wish
      BY <1>2, <3>3, <3>4 DEF VideoState
    <3> QED BY <3>1, <3>2, <3>3, <3>5 DEF LitIn
  <2>2. CASE ~closes BY <1>1, <1>2, <2>2
  <2> QED BY <2>1, <2>2
<1>5. VideoTypes' BY <1>1, <1>3, <1>4 DEF VideoTypes
<1>6. TurnsInv' BY <1>1 DEF TurnsInv
<1>7. OrdersInv' /\ StateInv'
  <2>1. Bare(video') \/ (video'.session \in Calls /\ hungUp'[video'.session] \in {"no", "taken"})
    BY <1>1, <1>4 DEF StateInv, Bare, Kept
  <2>2. buttons'.seq = buttons.seq /\ buttons.seq \in Nat BY <1>2, <1>3 DEF ButtonState
  <2>3. \A c \in Commands : sent[c].pc \in BegunPc =>
               \A k \in Calls : k # sent[c].call => hungUp'[k] \in {"unborn", "done"}
    BY <1>1, BegunFacts
  <2> QED BY <1>1, <1>4, <1>5, <1>6, <2>1, <2>2, <2>3, RestKeeps
<1>8. HeldInv'
  <2>1. \A c \in Commands : LitBy(c)' = LitBy(c) /\ LoudBy(c)' = LoudBy(c) BY <1>1, RestHolds
  <2>2. LoudIn(video') = LoudIn(video) BY <1>4 DEF LoudIn
  <2>3. LitIn(video)' = LitIn(video') /\ LoudIn(video)' = LoudIn(video') BY DEF LitIn, LoudIn
  <2> QED BY <1>1, <1>4, <2>1, <2>2, <2>3 DEF HeldInv
<1> QED BY <1>5, <1>6, <1>7, <1>8

LEMMA VideoInitKeeps == ASSUME V!Init PROVE VideoInv
<1>1. PICK d \in Cameras : buttons = [V!NoPage EXCEPT !.dev = d] BY DEF V!Init
<1>2. /\ carried = None /\ hungUp = [k \in Calls |-> "unborn"] /\ torn = {} /\ video = V!Fresh(None) /\ turn = <<>>
      /\ sent = [c \in Commands |-> V!NoCmd] /\ lit = {} /\ loud = {}
  BY DEF V!Init
<1>3. buttons \in ButtonState BY <1>1 DEF V!NoPage, ButtonState
<1>4. V!NoCmd \in VideoCmd /\ V!NoCmd.pc = "unused" /\ ~V!NoCmd.ours BY DEF V!NoCmd, VideoCmd, VideoPc
<1>5. \A c \in Commands : sent[c] = V!NoCmd BY <1>2
<1>6. VideoTypes BY <1>2, <1>3, <1>4, FreshState DEF VideoTypes
<1>7. TurnsInv BY <1>2 DEF TurnsInv
<1>8. OrdersInv BY <1>4, <1>5 DEF OrdersInv, OrderInv, BegunPc, CameraPc, ScreenPc, EitherPc
<1>9. StateInv BY <1>2, <1>4, <1>5, FreshState, IdleHolds DEF StateInv
<1>10. HeldInv BY <1>2 DEF HeldInv
<1> QED BY <1>6, <1>7, <1>8, <1>9, <1>10 DEF VideoInv

LEMMA CameraKeeps == ASSUME VideoInv, NEW c \in Commands, V!Camera(c) PROVE VideoInv'
BY ArrivesCameraKeeps, BeginsCameraKeeps, SwitchesKeeps, VideoOpensKeeps, InstallsKeeps, PublishesCameraKeeps, RecordsKeeps,
   VideoClosesKeeps DEF V!Camera

LEMMA ScreensKeep == ASSUME VideoInv, NEW c \in Commands, V!Screen(c) PROVE VideoInv'
<1>1. CASE V!TakesDown(c)
  <2> DEFINE p == IF sent[c].pc = "taking" THEN V!NextOf(c) ELSE "done"
  <2>1. sent[c].pc \in {"taking", "replacing"} /\ V!Goes(c, p) /\ V!TakenDown(c, sent[c].took) BY <1>1 DEF V!TakesDown
  <2>2. p \in {"picking", "done"} /\ (p = "picking" => sent[c].pc = "taking") BY DEF V!NextOf
  <2>3. sent[c].took \in Commands \cup {None} BY DEF VideoInv, VideoTypes, VideoCmd
  <2> HIDE DEF p
  <2> QED BY <2>1, <2>2, <2>3, TakesDownKeeps
<1>2. CASE V!Undoes(c) BY <1>2, TakesDownKeeps DEF V!Undoes
<1>3. CASE V!ArrivesScreen(c) \/ V!Quiets(c) \/ V!Picks(c) \/ V!Picked(c) \/ V!PublishesScreen(c)
  BY <1>3, ArrivesScreenKeeps, QuietsKeeps, PicksKeeps, PublishesScreenKeeps
<1>4. CASE V!Sounds(c) \/ V!KeepsSound(c) \/ V!Quells(c) \/ V!Stores(c) \/ V!Hushes(c)
  BY <1>4, SoundsKeeps, KeepsSoundKeeps, StoresKeeps, HushesKeeps
<1> QED BY <1>1, <1>2, <1>3, <1>4 DEF V!Screen

LEMMA VideoNextKeeps == ASSUME VideoInv, [V!Next]_(V!vars) PROVE VideoInv'
<1>1. ASSUME NEW k \in Calls, V!Connects(k) \/ V!Tears(k) \/ V!Stops(k) PROVE VideoInv'
  BY <1>1, ConnectsKeeps, TearsKeeps, VideoStopsKeeps
<1>2. CASE V!PressCamera \/ (\E d \in Cameras : V!PickCamera(d)) \/ (\E sound \in BOOLEAN : V!PressScreen(sound))
  BY <1>2, PressesKeep
<1>3. CASE V!Reload \/ V!HangUp \/ V!SfuMutes \/ V!Pump BY <1>3, ReloadKeeps, HangUpKeeps, VideoSfuMutesKeeps, PumpKeeps
<1>4. ASSUME NEW c \in Commands, V!Answered(c) \/ V!Camera(c) \/ V!Screen(c) PROVE VideoInv'
  BY <1>4, VideoAnsweredKeeps, CameraKeeps, ScreensKeep
<1>5. CASE UNCHANGED V!vars
  BY <1>5 DEF V!vars, VideoInv, VideoTypes, TurnsInv, OrdersInv, OrderInv, V!HasTurn, StateInv, Bare, Kept,
              CameraFree, SoundFree, V!Latest, V!Live, HeldInv, LitBy, LoudBy, LitIn, LoudIn
<1> QED BY <1>1, <1>2, <1>3, <1>4, <1>5 DEF V!Next

THEOREM VideoInvariance == V!Spec => []VideoInv
<1>1. V!Init => VideoInv BY VideoInitKeeps
<1>2. VideoInv /\ [V!Next]_(V!vars) => VideoInv' BY VideoNextKeeps
<1> QED BY <1>1, <1>2, PTL DEF V!Spec

(***************************************************************************)
(* Through presses and switches of the camera and the share that overtake  *)
(* each other, devices, pickers and publishes that fail, a mute by the     *)
(* SFU, a reload and hang-ups: no camera, screen or loopback is captured   *)
(* that nothing will stop (voice_set_camera, voice_set_screen, teardown).  *)
(***************************************************************************)
THEOREM NoneRunsOn == V!Spec => []V!NothingRunsOn
<1>1. VideoInv => V!NothingRunsOn
  <2> SUFFICES ASSUME VideoInv PROVE V!NothingRunsOn OBVIOUS
  <2>1. HeldInv /\ lit \subseteq Commands /\ loud \subseteq Commands BY DEF VideoInv, VideoTypes
  <2>2. \A c \in Commands : \A x : x \in LitBy(c) \/ x \in LoudBy(c) => c \in V!Running /\ (x = c \/ sent[c].took = x)
    BY DEF LitBy, LoudBy, V!Running, V!Ended
  <2> QED BY <2>1, <2>2 DEF HeldInv, V!NothingRunsOn, LitIn, LoudIn
<1> QED BY <1>1, VideoInvariance, PTL

-----------------------------------------------------------------------------
(* The buttons of the camera and the share: the second strengthening, for  *)
(* what is settled when nothing is under way.                              *)

\* The state of the call that is up, as the next command finds it.
Now == V!StateOf(carried)
Films(v) == v.camera # None /\ v.camera.cap # None /\ ~v.camera.muted
Filming(c) == sent[c].kind = "camera" /\ sent[c].pc \in BegunPc
Waits(c) == sent[c].ours /\ sent[c].kind = "camera"
Asked(c) == sent[c].seq = Now.camAsked
Answers(c) == sent[c].on /\ sent[c].pc = "done"

\* The camera's ticket is the latest command the page waits for, the
\* share's is the only one, and who runs is of the call that is up.
TicketsInv ==
    /\ changed \in BOOLEAN /\ buttons.call = carried
    /\ video.session \in Calls => hungUp[video.session] # "unborn"
    /\ \A c \in Commands : ~sent[c].muted /\ (sent[c].pc = "unused" => ~sent[c].ours)
    /\ \A c \in Commands : sent[c].pc \in BegunPc => hungUp[sent[c].call] # "unborn" /\ (carried # None => V!Live(c))
    /\ \A c \in Commands :
         c = buttons.camTicket => Waits(c) /\ \A b \in Commands : Waits(b) => sent[b].seq <= sent[c].seq
    /\ \A c \in Commands : c = buttons.scrTicket <=> sent[c].ours /\ sent[c].kind = "screen"

\* The queue is of the camera's commands that run, in the page's order.
QueueInv ==
    /\ \A i \in 1..Len(turn) : Filming(turn[i])
    /\ \A c \in Commands : Filming(c) => \E i \in 1..Len(turn) : turn[i] = c
    /\ \A i, j \in 1..Len(turn) : i < j => sent[turn[i]].seq < sent[turn[j]].seq

\* What a camera's command that runs finds, and where the one that was
\* asked for last cannot be.
RunInv(c) ==
    Filming(c) =>
        /\ sent[c].seq <= Now.camAsked
        /\ sent[c].pc \in OpeningPc => sent[c].on /\ (sent[c].first <=> Now.camera = None)
        /\ sent[c].pc = "refused" => Now.camera = None
        /\ Asked(c) => sent[c].pc # "shutting" /\ (sent[c].pc = "closing" => ~sent[c].on /\ ~Films(Now))
\* The ticket's command is the one asked for last, once it is there, and
\* its answer is what the camera does.
CamTicketInv(c) ==
    /\ sent[c].pc = "sent" => Now.camAsked < sent[c].seq
    /\ sent[c].pc # "sent" => Asked(c)
    /\ sent[c].pc \in V!Ended => (Answers(c) <=> Films(Now))
\* A camera that is muted is closed, or the pump will close it; one that is
\* not captures, or the last command is about to open it.
SeenInv ==
    Now.camera # None =>
        /\ Now.camera.muted /\ Now.camera.cap # None => changed
        /\ ~Now.camera.muted /\ Now.camera.cap = None =>
             \E b \in Commands : Filming(b) /\ Asked(b) /\ sent[b].pc \in {"waiting"} \cup OpeningPc
\* Without a ticket the button is right, or the pump will put it right.
ButtonInv ==
    buttons.camTicket = None =>
        /\ \A b \in Commands : Waits(b) => sent[b].seq <= Now.camAsked
        /\ (buttons.cam <=> Films(Now)) \/ (changed /\ \A b \in Commands : ~Waits(b))
CameraInv ==
    carried # None =>
        /\ Now.camAsked <= buttons.seq
        /\ \A c \in Commands : RunInv(c)
        /\ (\E c \in Commands : Filming(c)) =>
             /\ \E b \in Commands : Filming(b) /\ Asked(b)
             /\ \E b \in Commands : b = buttons.camTicket /\ sent[b].pc \notin V!Ended
        /\ \A c \in Commands : c = buttons.camTicket => CamTicketInv(c)
        /\ ButtonInv /\ SeenInv

\* The share's command is the latest, has taken what there was, and stops a
\* sound that goes with no share.
ScrTicketInv(c) ==
    /\ sent[c].pc = "sent" => Now.scrAsked < sent[c].seq
    /\ sent[c].pc \in BegunPc =>
        /\ Now.scrAsked = sent[c].seq
        /\ sent[c].pc \notin {"closing", "replacing", "undoing", "hushing", "shutting"}
        /\ sent[c].pc # "quieting" => Now.screen = None
        /\ sent[c].pc \notin {"quieting", "taking"} => sent[c].on
    /\ sent[c].pc \in V!Ended => (Answers(c) <=> Now.screen # None)
ScreenInv ==
    carried # None =>
        /\ Now.scrAsked <= buttons.seq
        /\ \A c \in Commands : c = buttons.scrTicket => ScrTicketInv(c)
        /\ buttons.scrTicket = None => (buttons.scr <=> Now.screen # None)
        /\ Now.sound # None /\ Now.sound.cap # None =>
             Now.screen # None \/ \E c \in Commands : c = buttons.scrTicket /\ sent[c].pc = "storing"

SettledInv == TicketsInv /\ QueueInv /\ CameraInv /\ ScreenInv

\* A command that runs while a call is up is that call's, whose state is
\* there.
LEMMA LiveNow ==
    ASSUME VideoInv, TicketsInv, carried # None, NEW c \in Commands, sent[c].pc \in BegunPc
    PROVE  /\ sent[c].call = carried /\ video.session = carried /\ Now = video /\ V!StateOf(sent[c].call) = video
           /\ V!Live(c)
<1>1. carried \in Calls /\ hungUp[carried] = "no" BY DEF VideoInv, VideoTypes, TurnsInv
<1>2. sent[c].call = carried BY <1>1, BegunFacts
<1>3. video.session = carried /\ V!Live(c) BY <1>2 DEF TicketsInv, V!Live
<1> QED BY <1>2, <1>3 DEF Now, V!StateOf

\* Who waits for the camera was asked later than who has it.
LEMMA Behind ==
    ASSUME VideoInv, QueueInv, NEW c \in Commands, V!HasTurn(c), NEW b \in Commands, Filming(b), b # c
    PROVE  sent[c].seq < sent[b].seq
<1>1. PICK i \in 1..Len(turn) : turn[i] = b BY DEF QueueInv
<1>2. turn \in Seq(Commands) /\ turn # <<>> /\ turn[1] = c BY DEF VideoInv, VideoTypes, V!HasTurn
<1>3. 1 \in 1..Len(turn) /\ 1 < i BY <1>1, <1>2
<1> QED BY <1>1, <1>2, <1>3 DEF QueueInv

\* A step of one command that keeps what the page asked of it.
Carries(c) ==
    /\ \A b \in Commands : b # c => sent'[b] = sent[b]
    /\ Same(c) /\ sent'[c].pc # "unused"
    /\ UNCHANGED <<carried, hungUp, buttons>> /\ changed' \in BOOLEAN /\ (changed => changed')

LEMMA TicketsMove ==
    ASSUME VideoInv, TicketsInv, NEW c \in Commands, Carries(c),
           \/ video'.session = video.session
           \/ carried # None /\ video'.session = carried
           \/ carried = None /\ sent[c].pc \in BegunPc /\ video'.session = sent[c].call,
           sent'[c].pc \in BegunPc =>
             \/ sent[c].pc \in BegunPc /\ sent'[c].call = sent[c].call
             \/ carried # None /\ sent'[c].call = carried /\ video'.session = carried
    PROVE  TicketsInv'
<1> USE DEF Carries, Same
<1>1. carried # None => carried \in Calls /\ hungUp[carried] = "no" BY DEF VideoInv, VideoTypes, TurnsInv
<1>2. changed' \in BOOLEAN /\ buttons'.call = carried' BY DEF TicketsInv
<1>3. video'.session \in Calls => hungUp'[video'.session] # "unborn" BY <1>1 DEF TicketsInv
<1>4. \A b \in Commands : ~sent'[b].muted /\ (sent'[b].pc = "unused" => ~sent'[b].ours) BY DEF TicketsInv
<1>5. ASSUME NEW b \in Commands, sent'[b].pc \in BegunPc
      PROVE  hungUp'[sent'[b].call] # "unborn" /\ (carried' # None => V!Live(b)')
  <2>1. CASE carried # None /\ sent'[b].call = carried /\ video'.session = carried BY <1>1, <2>1 DEF V!Live
  <2>2. CASE sent[b].pc \in BegunPc /\ sent'[b].call = sent[b].call
    <3>1. hungUp'[sent'[b].call] # "unborn" BY <2>2 DEF TicketsInv
    <3>2. carried # None => V!Live(b)' BY <2>2, LiveNow DEF V!Live
    <3> QED BY <3>1, <3>2
  <2> QED BY <1>5, <2>1, <2>2
<1>6. \A b \in Commands : b = buttons'.camTicket =>
        Waits(b)' /\ \A a \in Commands : Waits(a)' => sent'[a].seq <= sent'[b].seq
  BY DEF TicketsInv, Waits
<1>7. \A b \in Commands : b = buttons'.scrTicket <=> sent'[b].ours /\ sent'[b].kind = "screen" BY DEF TicketsInv
<1> QED BY <1>2, <1>3, <1>4, <1>5, <1>6, <1>7 DEF TicketsInv

\* The queue as it is, or without its first, or with one more.
LEMMA QueueStays ==
    ASSUME QueueInv, turn' = turn,
           \A c \in Commands : (Filming(c)' <=> Filming(c)) /\ (Filming(c) => sent'[c].seq = sent[c].seq),
           turn \in Seq(Commands)
    PROVE  QueueInv'
<1>1. \A i \in 1..Len(turn) : turn[i] \in Commands OBVIOUS
<1>2. \A i \in 1..Len(turn) : Filming(turn[i]) BY DEF QueueInv
<1>3. \A i \in 1..Len(turn)' : Filming(turn[i])' BY <1>1, <1>2
<1> QED BY <1>1, <1>2, <1>3 DEF QueueInv

LEMMA QueueShifts ==
    ASSUME VideoInv, QueueInv, NEW c \in Commands, V!HasTurn(c), turn' = Tail(turn), ~Filming(c)',
           \A b \in Commands : b # c => (Filming(b)' <=> Filming(b)),
           \A b \in Commands : sent'[b].seq = sent[b].seq
    PROVE  QueueInv'
<1> DEFINE n == Len(turn)
<1>1. turn \in Seq(Commands) /\ turn # <<>> /\ turn[1] = c /\ n \in Nat /\ 1 <= n
  BY DEF VideoInv, VideoTypes, V!HasTurn
<1>2. Len(turn') = n - 1 /\ \A i \in 1..(n - 1) : turn'[i] = turn[i + 1] /\ i + 1 \in 1..n BY <1>1
<1>3. \A i \in 1..n : turn[i] \in Commands BY <1>1
<1>4. \A i \in 1..n : 1 < i => turn[i] # c
  <2>1. SUFFICES ASSUME NEW i \in 1..n, 1 < i, turn[i] = c PROVE FALSE OBVIOUS
  <2>2. sent[turn[1]].seq < sent[turn[i]].seq BY <1>1, <2>1 DEF QueueInv
  <2>3. sent[c].seq \in Nat BY DEF VideoInv, VideoTypes, VideoCmd
  <2> QED BY <1>1, <2>1, <2>2, <2>3
<1>5. ASSUME NEW i \in 1..Len(turn') PROVE sent'[turn'[i]].kind = "camera" /\ sent'[turn'[i]].pc \in BegunPc
  <2>1. turn'[i] = turn[i + 1] /\ i + 1 \in 1..n /\ 1 < i + 1 BY <1>1, <1>2
  <2>2. turn'[i] \in Commands /\ turn'[i] # c /\ Filming(turn[i + 1]) BY <1>3, <1>4, <2>1 DEF QueueInv
  <2> QED BY <2>1, <2>2 DEF Filming
<1>6. ASSUME NEW b \in Commands, Filming(b)' PROVE \E i \in 1..Len(turn') : turn'[i] = b
  <2>1. b # c /\ Filming(b) BY <1>6
  <2>2. PICK j \in 1..n : turn[j] = b BY <2>1 DEF QueueInv
  <2>3. j # 1 BY <1>1, <2>1, <2>2
  <2>4. j - 1 \in 1..(n - 1) /\ (j - 1) + 1 = j BY <1>1, <2>2, <2>3
  <2> QED BY <1>2, <2>2, <2>4
<1>7. ASSUME NEW i \in 1..Len(turn'), NEW j \in 1..Len(turn'), i < j PROVE sent'[turn'[i]].seq < sent'[turn'[j]].seq
  <2>1. /\ turn'[i] = turn[i + 1] /\ i + 1 \in 1..n /\ turn'[j] = turn[j + 1] /\ j + 1 \in 1..n /\ i + 1 < j + 1
    BY <1>1, <1>2, <1>7
  <2>2. sent[turn[i + 1]].seq < sent[turn[j + 1]].seq BY <2>1 DEF QueueInv
  <2> QED BY <1>3, <2>1, <2>2
<1> QED BY <1>5, <1>6, <1>7 DEF QueueInv, Filming

LEMMA QueueGrows ==
    ASSUME VideoInv, QueueInv, NEW c \in Commands, ~Filming(c), turn' = Append(turn, c), Filming(c)',
           \A b \in Commands : b # c => (Filming(b)' <=> Filming(b)),
           \A b \in Commands : sent'[b].seq = sent[b].seq,
           \A b \in Commands : Filming(b) => sent[b].seq < sent[c].seq
    PROVE  QueueInv'
<1> DEFINE n == Len(turn)
<1>1. turn \in Seq(Commands) /\ n \in Nat BY DEF VideoInv, VideoTypes
<1>2. Len(turn') = n + 1 /\ turn'[n + 1] = c /\ \A i \in 1..n : turn'[i] = turn[i] /\ turn[i] \in Commands BY <1>1
<1>3. \A i \in 1..n : Filming(turn[i]) /\ turn[i] # c BY DEF QueueInv
<1>4. ASSUME NEW i \in 1..Len(turn') PROVE sent'[turn'[i]].kind = "camera" /\ sent'[turn'[i]].pc \in BegunPc
  <2>1. CASE i = n + 1 BY <1>2, <2>1 DEF Filming
  <2>2. CASE i \in 1..n BY <1>2, <1>3, <2>2 DEF Filming
  <2> QED BY <1>1, <1>2, <2>1, <2>2
<1>5. ASSUME NEW b \in Commands, Filming(b)' PROVE \E i \in 1..Len(turn') : turn'[i] = b
  <2>1. CASE b = c BY <1>1, <1>2, <2>1
  <2>2. CASE b # c
    <3>1. PICK j \in 1..n : turn[j] = b BY <1>5, <2>2 DEF QueueInv
    <3> QED BY <1>1, <1>2, <3>1
  <2> QED BY <2>1, <2>2
<1>6. ASSUME NEW i \in 1..Len(turn'), NEW j \in 1..Len(turn'), i < j PROVE sent'[turn'[i]].seq < sent'[turn'[j]].seq
  <2>1. i \in 1..n /\ turn'[i] = turn[i] BY <1>1, <1>2, <1>6
  <2>2. CASE j = n + 1 BY <1>2, <1>3, <2>1, <2>2
  <2>3. CASE j \in 1..n
    <3>1. sent[turn[i]].seq < sent[turn[j]].seq BY <1>6, <2>1, <2>3 DEF QueueInv
    <3> QED BY <1>2, <2>1, <2>3, <3>1
  <2> QED BY <1>1, <1>2, <2>2, <2>3
<1> QED BY <1>4, <1>5, <1>6 DEF QueueInv, Filming

-----------------------------------------------------------------------------
(* The camera's story under a step of its command that has the turn, of a  *)
(* command of the share, and the other way round.                          *)

\* The camera rests: no command of its own moves, nor its publication.
LEMMA CameraRests ==
    ASSUME VideoInv, CameraInv, carried' = carried,
           carried # None => Now'.camAsked = Now.camAsked /\ Now'.camera = Now.camera,
           buttons'.cam = buttons.cam, buttons'.camTicket = buttons.camTicket,
           buttons.seq <= buttons'.seq, buttons'.seq \in Nat,
           changed => changed',
           \A b \in Commands : sent'[b] = sent[b] \/ (sent[b].kind = "screen" /\ sent'[b].kind = "screen")
                                 \/ (sent[b].pc = "unused" /\ ~sent[b].ours /\ sent'[b].kind = "screen"),
           \A b \in Commands : b = buttons.camTicket => sent[b].kind = "camera" /\ sent[b].ours
    PROVE  CameraInv'
<1> SUFFICES ASSUME carried # None PROVE CameraInv' BY DEF CameraInv
<1>1. \A b \in Commands : b = buttons.camTicket => sent'[b] = sent[b] OBVIOUS
<1>2. \A b \in Commands : (Filming(b)' <=> Filming(b)) /\ (Waits(b)' <=> Waits(b))
                            /\ (Filming(b) \/ Waits(b) => sent'[b] = sent[b])
  BY DEF Filming, Waits, BegunPc, CameraPc, ScreenPc, EitherPc
<1>3. Films(Now)' <=> Films(Now) BY DEF Films
<1>4. \A b \in Commands : Filming(b) \/ Waits(b) => (Asked(b)' <=> Asked(b)) BY <1>2 DEF Asked
<1>5. Now'.camAsked <= buttons'.seq
  <2>1. Now.camAsked \in Nat /\ buttons.seq \in Nat
    BY FreshState DEF VideoInv, VideoTypes, VideoState, ButtonState, Now, V!StateOf
  <2> QED BY <2>1 DEF CameraInv
<1>6. \A b \in Commands : RunInv(b)'
  <2> SUFFICES ASSUME NEW b \in Commands, Filming(b)' PROVE RunInv(b)' BY DEF RunInv
  <2>1. RunInv(b) /\ Filming(b) /\ sent'[b] = sent[b] /\ (Asked(b)' <=> Asked(b)) BY <1>2, <1>4 DEF CameraInv
  <2> QED BY <1>3, <2>1 DEF RunInv
<1>7. (\E b \in Commands : Filming(b)') =>
        /\ \E b \in Commands : Filming(b)' /\ Asked(b)'
        /\ \E b \in Commands : b = buttons'.camTicket /\ sent'[b].pc \notin V!Ended
  BY <1>1, <1>2, <1>4 DEF CameraInv
<1>8. \A b \in Commands : b = buttons'.camTicket => CamTicketInv(b)'
  <2> SUFFICES ASSUME NEW b \in Commands, b = buttons.camTicket PROVE CamTicketInv(b)' OBVIOUS
  <2>1. CamTicketInv(b) /\ sent'[b] = sent[b] /\ (Asked(b)' <=> Asked(b)) BY <1>1, <1>2, <1>4 DEF CameraInv, Waits
  <2> QED BY <1>3, <2>1 DEF CamTicketInv, Answers
<1>9. ButtonInv' BY <1>2, <1>3 DEF CameraInv, ButtonInv
<1>10. SeenInv' BY <1>2, <1>4 DEF CameraInv, SeenInv
<1> QED BY <1>5, <1>6, <1>7, <1>8, <1>9, <1>10 DEF CameraInv

LEMMA ScreenRests ==
    ASSUME VideoInv, ScreenInv, carried' = carried,
           carried # None => Now'.scrAsked = Now.scrAsked /\ Now'.screen = Now.screen /\ Now'.sound = Now.sound,
           buttons'.scr = buttons.scr, buttons'.scrTicket = buttons.scrTicket,
           buttons.seq <= buttons'.seq, buttons'.seq \in Nat,
           \A b \in Commands : b = buttons.scrTicket => sent'[b] = sent[b]
    PROVE  ScreenInv'
<1> SUFFICES ASSUME carried # None PROVE ScreenInv' BY DEF ScreenInv
<1>1. Now'.scrAsked <= buttons'.seq
  <2>1. Now.scrAsked \in Nat /\ buttons.seq \in Nat
    BY FreshState DEF VideoInv, VideoTypes, VideoState, ButtonState, Now, V!StateOf
  <2> QED BY <2>1 DEF ScreenInv
<1>2. \A b \in Commands : b = buttons'.scrTicket => ScrTicketInv(b)'
  <2> SUFFICES ASSUME NEW b \in Commands, b = buttons.scrTicket PROVE ScrTicketInv(b)' OBVIOUS
  <2>1. ScrTicketInv(b) /\ sent'[b] = sent[b] BY DEF ScreenInv
  <2> QED BY <2>1 DEF ScrTicketInv, Answers
<1>3. buttons'.scrTicket = None => (buttons'.scr <=> Now'.screen # None) BY DEF ScreenInv
<1>4. Now'.sound # None /\ Now'.sound.cap # None =>
        Now'.screen # None \/ \E b \in Commands : b = buttons'.scrTicket /\ sent'[b].pc = "storing"
  BY DEF ScreenInv
<1> QED BY <1>1, <1>2, <1>3, <1>4 DEF ScreenInv

\* A camera's command that has the turn takes a step in the call that is up.
LEMMA CameraMoves ==
    ASSUME VideoInv, SettledInv, carried # None, NEW c \in Commands, Carries(c), Filming(c), V!HasTurn(c),
           video'.session = carried, video'.camAsked = video.camAsked,
           video'.camera # None /\ video'.camera.muted /\ video'.camera.cap # None => changed',
           \/ Filming(c)'
           \/ /\ sent'[c].pc \in V!Ended
              /\ Asked(c) => (Answers(c)' <=> Films(video'))
              /\ Asked(c) => (video'.camera = None \/ video'.camera.muted \/ video'.camera.cap # None),
           sent'[c].pc \in OpeningPc => sent[c].on /\ (sent'[c].first <=> video'.camera = None),
           sent'[c].pc = "refused" => video'.camera = None,
           sent'[c].pc # "sent", Asked(c) => sent'[c].pc # "shutting",
           Asked(c) /\ sent'[c].pc = "closing" => ~sent[c].on /\ ~Films(video'),
           Asked(c) /\ Filming(c)' =>
             \/ video'.camera = None \/ video'.camera.muted \/ video'.camera.cap # None
             \/ sent'[c].pc \in OpeningPc
    PROVE  CameraInv'
<1> USE DEF Carries, Same
<1>1. Now = video /\ Now' = video'
  <2>1. Now = video BY LiveNow DEF SettledInv, Filming
  <2> QED BY <2>1 DEF Now, V!StateOf
<1>2. CameraInv /\ TicketsInv /\ QueueInv BY DEF SettledInv
<1>3. \A b \in Commands : sent'[b].seq = sent[b].seq /\ (Asked(b)' <=> Asked(b)) /\ (Waits(b)' <=> Waits(b))
  <2>1. \A b \in Commands : sent'[b].seq = sent[b].seq OBVIOUS
  <2> QED BY <1>1, <2>1 DEF Asked, Waits
<1>4. \A b \in Commands : b # c => (Filming(b)' <=> Filming(b)) BY DEF Filming
<1>5. \A b \in Commands : Filming(b) /\ b # c => sent[b].pc = "waiting"
  BY OneTurn DEF VideoInv, Filming, OrdersInv, OrderInv, BegunPc, ScreenPc
<1>6. PICK t \in Commands : t = buttons.camTicket /\ sent[t].pc \notin V!Ended BY <1>2 DEF CameraInv
<1>7. CamTicketInv(t) BY <1>2, <1>6 DEF CameraInv
<1>8. PICK a \in Commands : Filming(a) /\ Asked(a) BY <1>2 DEF CameraInv
<1>9. \A b \in Commands : sent[b].seq \in Nat BY DEF VideoInv, VideoTypes, VideoCmd
<1>10. Asked(c) => \A b \in Commands : Filming(b) => b = c
  <2> SUFFICES ASSUME Asked(c), NEW b \in Commands, Filming(b), b # c PROVE FALSE OBVIOUS
  <2>1. sent[c].seq < sent[b].seq BY <1>2, Behind
  <2>2. sent[b].seq <= Now.camAsked BY <1>2 DEF CameraInv, RunInv
  <2> QED BY <1>9, <2>1, <2>2 DEF Asked
<1>11. t = c => Asked(c) BY <1>7 DEF CamTicketInv, Filming, BegunPc, CameraPc, ScreenPc, EitherPc
<1>12. Now'.camAsked <= buttons'.seq BY <1>1, <1>2 DEF CameraInv
<1>13. ASSUME NEW b \in Commands PROVE RunInv(b)'
  <2>1. CASE b = c
    <3> SUFFICES ASSUME Filming(c)' PROVE RunInv(c)' BY <2>1 DEF RunInv
    <3>1. sent'[c].seq <= Now'.camAsked BY <1>1, <1>2, <1>3 DEF CameraInv, RunInv
    <3>2. Films(Now)' <=> Films(video') BY <1>1 DEF Films
    <3> QED BY <1>1, <1>3, <2>1, <3>1, <3>2 DEF RunInv
  <2>2. CASE b # c
    <3> SUFFICES ASSUME Filming(b)' PROVE RunInv(b)' BY DEF RunInv
    <3>1. sent'[b] = sent[b] /\ Filming(b) /\ sent[b].pc = "waiting" BY <1>4, <1>5, <2>2
    <3>2. sent'[b].seq <= Now'.camAsked BY <1>1, <1>2, <3>1 DEF CameraInv, RunInv
    <3> QED BY <3>1, <3>2 DEF RunInv, OpeningPc
  <2> QED BY <2>1, <2>2
<1>14. (\E b \in Commands : Filming(b)') =>
         /\ \E b \in Commands : Filming(b)' /\ Asked(b)'
         /\ \E b \in Commands : b = buttons'.camTicket /\ sent'[b].pc \notin V!Ended
  <2> SUFFICES ASSUME NEW d \in Commands, Filming(d)'
               PROVE  Filming(a)' /\ Asked(a)' /\ sent'[t].pc \notin V!Ended
    BY <1>6
  <2>1. Asked(c) => Filming(c)' BY <1>4, <1>10
  <2>2. Filming(c)' => sent'[c].pc \notin V!Ended
    BY DEF Filming, V!Ended, BegunPc, CameraPc, ScreenPc, EitherPc
  <2> QED BY <1>3, <1>4, <1>6, <1>8, <1>11, <2>1, <2>2
<1>15. \A b \in Commands : b = buttons'.camTicket => CamTicketInv(b)'
  <2> SUFFICES CamTicketInv(t)' BY <1>6
  <2>1. CASE t = c
    <3>1. Asked(c)' BY <1>3, <1>11, <2>1
    <3>2. sent'[c].pc \in V!Ended => (Answers(c)' <=> Films(video'))
      BY <1>11, <2>1 DEF Filming, V!Ended, BegunPc, CameraPc, ScreenPc, EitherPc
    <3>3. Films(Now)' <=> Films(video') BY <1>1 DEF Films
    <3> QED BY <2>1, <3>1, <3>2, <3>3 DEF CamTicketInv
  <2>2. CASE t # c
    <3>1. sent'[t] = sent[t] BY <2>2
    <3> QED BY <1>1, <1>3, <1>6, <1>7, <3>1 DEF CamTicketInv
  <2> QED BY <2>1, <2>2
<1>16. ButtonInv' BY <1>6, VideoAssumption DEF ButtonInv
<1>17. SeenInv'
  <2>1. ASSUME video'.camera # None, ~video'.camera.muted, video'.camera.cap = None
        PROVE  Filming(a)' /\ Asked(a)' /\ sent'[a].pc \in {"waiting"} \cup OpeningPc
    <3>1. CASE a = c BY <1>3, <1>8, <2>1, <3>1
    <3>2. CASE a # c BY <1>3, <1>4, <1>5, <1>8, <3>2
    <3> QED BY <3>1, <3>2
  <2> QED BY <1>1, <2>1 DEF SeenInv
<1> QED BY <1>12, <1>13, <1>14, <1>15, <1>16, <1>17 DEF CameraInv

\* The share's command takes a step in the call that is up.
LEMMA ScreenMoves ==
    ASSUME VideoInv, SettledInv, carried # None, NEW c \in Commands, Carries(c), sent[c].kind = "screen", sent[c].ours,
           Now'.scrAsked = sent[c].seq,
           sent'[c].pc \in V!Ended \/ sent'[c].pc \in BegunPc \ {"closing", "replacing", "undoing", "hushing", "shutting"},
           sent'[c].pc \in BegunPc \ {"quieting"} => Now'.screen = None,
           sent'[c].pc \in BegunPc \ {"quieting", "taking"} => sent[c].on,
           sent'[c].pc \in V!Ended => (Answers(c)' <=> Now'.screen # None),
           Now'.sound # None /\ Now'.sound.cap # None => Now'.screen # None \/ sent'[c].pc = "storing"
    PROVE  ScreenInv'
<1> USE DEF Carries, Same
<1>1. c = buttons.scrTicket BY DEF SettledInv, TicketsInv
<1>2. Now'.scrAsked <= buttons'.seq BY DEF VideoInv, OrdersInv, OrderInv
<1>3. sent'[c].pc # "sent" /\ ~(sent'[c].pc \in V!Ended /\ sent'[c].pc \in BegunPc)
  BY DEF V!Ended, BegunPc, CameraPc, ScreenPc, EitherPc
<1>4. ScrTicketInv(c)' BY <1>3 DEF ScrTicketInv
<1> QED BY <1>1, <1>2, <1>4, VideoAssumption DEF ScreenInv

\* What a step of the camera's command comes to, in the call that is up.
Shows(v) == v.camera = None \/ v.camera.muted \/ v.camera.cap # None
CameraStep(c) ==
    /\ video'.session = carried /\ video'.camAsked = video.camAsked
    /\ video'.scrAsked = video.scrAsked /\ video'.screen = video.screen /\ video'.sound = video.sound
    /\ video'.camera # None /\ video'.camera.muted /\ video'.camera.cap # None => changed'
    /\ Filming(c)' \/ (sent'[c].pc \in V!Ended /\ (Asked(c) => (Answers(c)' <=> Films(video')) /\ Shows(video')))
    /\ sent'[c].pc \in OpeningPc => sent[c].on /\ (sent'[c].first <=> video'.camera = None)
    /\ sent'[c].pc = "refused" => video'.camera = None
    /\ sent'[c].pc # "sent" /\ (Asked(c) => sent'[c].pc # "shutting")
    /\ Asked(c) /\ sent'[c].pc = "closing" => ~sent[c].on /\ ~Films(video')
    /\ Asked(c) /\ Filming(c)' => Shows(video') \/ sent'[c].pc \in OpeningPc
LEMMA CameraSettles ==
    ASSUME VideoInv, SettledInv, NEW c \in Commands, Carries(c), Filming(c), V!HasTurn(c),
           \/ Filming(c)' /\ turn' = turn /\ sent'[c].call = sent[c].call
           \/ ~Filming(c)' /\ turn' = Tail(turn),
           video'.session \in {video.session, sent[c].call},
           carried # None => CameraStep(c)
    PROVE  SettledInv'
<1>1. TicketsInv /\ QueueInv /\ CameraInv /\ ScreenInv /\ Same(c) BY DEF SettledInv, Carries
<1>2. TicketsInv'
  <2>1. sent'[c].pc \in BegunPc => sent[c].pc \in BegunPc /\ sent'[c].call = sent[c].call
    BY <1>1 DEF Filming, Same
  <2>2. carried # None => video'.session = carried BY DEF CameraStep
  <2> QED BY <1>1, <2>1, <2>2, TicketsMove DEF Filming
<1>3. QueueInv'
  <2>1. \A b \in Commands : b # c => (Filming(b)' <=> Filming(b)) BY DEF Filming, Carries
  <2>2. \A b \in Commands : sent'[b].seq = sent[b].seq BY DEF Carries, Same
  <2>3. turn \in Seq(Commands) BY DEF VideoInv, VideoTypes
  <2>4. CASE Filming(c)' /\ turn' = turn BY <1>1, <2>1, <2>2, <2>3, <2>4, QueueStays
  <2>5. CASE ~Filming(c)' /\ turn' = Tail(turn) BY <1>1, <2>1, <2>2, <2>5, QueueShifts
  <2> QED BY <2>4, <2>5
<1>4. CameraInv'
  <2>1. CASE carried # None BY <2>1, CameraMoves DEF CameraStep, Shows
  <2>2. CASE carried = None BY <2>2 DEF CameraInv, Carries
  <2> QED BY <2>1, <2>2
<1>5. ScreenInv'
  <2>1. CASE carried # None
    <3>1. Now = video /\ Now' = video'
      <4>1. Now = video BY <1>1, <2>1, LiveNow DEF Filming
      <4> QED BY <2>1, <4>1 DEF Now, V!StateOf, CameraStep, Carries
    <3>2. \A b \in Commands : b = buttons.scrTicket => sent'[b] = sent[b]
      BY <1>1 DEF TicketsInv, Filming, Carries
    <3>3. buttons.seq <= buttons'.seq /\ buttons'.seq \in Nat
      BY DEF VideoInv, VideoTypes, ButtonState, Carries
    <3> QED BY <1>1, <2>1, <3>1, <3>2, <3>3, ScreenRests DEF Carries, CameraStep
  <2>2. CASE carried = None BY <2>2 DEF ScreenInv, Carries
  <2> QED BY <2>1, <2>2
<1> QED BY <1>2, <1>3, <1>4, <1>5 DEF SettledInv

\* And one of the share's.
ScreenStep(c) ==
    /\ Now'.camAsked = Now.camAsked /\ Now'.camera = Now.camera
    /\ Now'.scrAsked = sent[c].seq
    /\ sent'[c].pc \in V!Ended \/ sent'[c].pc \in BegunPc \ {"closing", "replacing", "undoing", "hushing", "shutting"}
    /\ sent'[c].pc \in BegunPc \ {"quieting"} => Now'.screen = None
    /\ sent'[c].pc \in BegunPc \ {"quieting", "taking"} => sent[c].on
    /\ sent'[c].pc \in V!Ended => (Answers(c)' <=> Now'.screen # None)
    /\ Now'.sound # None /\ Now'.sound.cap # None => Now'.screen # None \/ sent'[c].pc = "storing"
LEMMA ScreenSettles ==
    ASSUME VideoInv, SettledInv, NEW c \in Commands, Carries(c), sent[c].kind = "screen", sent[c].ours, turn' = turn,
           \/ video'.session = video.session
           \/ carried # None /\ video'.session = carried
           \/ carried = None /\ sent[c].pc \in BegunPc /\ video'.session = sent[c].call,
           sent'[c].pc \in BegunPc =>
             \/ sent[c].pc \in BegunPc /\ sent'[c].call = sent[c].call
             \/ carried # None /\ sent'[c].call = carried /\ video'.session = carried,
           carried # None => ScreenStep(c)
    PROVE  SettledInv'
<1>1. TicketsInv /\ QueueInv /\ CameraInv /\ ScreenInv /\ Same(c) BY DEF SettledInv, Carries
<1>2. TicketsInv' BY <1>1, TicketsMove
<1>3. QueueInv'
  <2>1. \A b \in Commands : (Filming(b)' <=> Filming(b)) /\ (Filming(b) => sent'[b].seq = sent[b].seq)
    BY DEF Filming, Carries, Same
  <2>2. turn \in Seq(Commands) BY DEF VideoInv, VideoTypes
  <2> QED BY <1>1, <2>1, <2>2, QueueStays
<1>4. CameraInv'
  <2>1. \A b \in Commands : sent'[b] = sent[b] \/ (sent[b].kind = "screen" /\ sent'[b].kind = "screen")
    BY DEF Carries, Same
  <2>2. \A b \in Commands : b = buttons.camTicket => sent[b].kind = "camera" /\ sent[b].ours
    BY <1>1 DEF TicketsInv, Waits
  <2>3. buttons.seq <= buttons'.seq /\ buttons'.seq \in Nat BY DEF VideoInv, VideoTypes, ButtonState, Carries
  <2>4. carried # None => Now'.camAsked = Now.camAsked /\ Now'.camera = Now.camera BY DEF ScreenStep
  <2> QED BY <1>1, <2>1, <2>2, <2>3, <2>4, CameraRests DEF Carries
<1>5. ScreenInv'
  <2>1. CASE carried # None BY <2>1, ScreenMoves DEF ScreenStep
  <2>2. CASE carried = None BY <2>2 DEF ScreenInv, Carries
  <2> QED BY <2>1, <2>2
<1> QED BY <1>2, <1>3, <1>4, <1>5 DEF SettledInv

-----------------------------------------------------------------------------
(* The commands of the camera, step by step.                               *)

LEMMA FilmingFacts ==
    ASSUME VideoInv, SettledInv, NEW c \in Commands, Filming(c), carried # None
    PROVE  /\ Now = video /\ video.session = carried /\ sent[c].call = carried /\ V!Live(c)
           /\ Asked(c) => V!Stands(c)
           /\ RunInv(c) /\ SeenInv
<1>1. /\ Now = video /\ video.session = carried /\ sent[c].call = carried /\ V!Live(c)
  BY LiveNow DEF SettledInv, Filming
<1>2. Asked(c) => V!Stands(c) BY <1>1 DEF Asked, V!Stands
<1> QED BY <1>1, <1>2 DEF SettledInv, CameraInv

\* A camera's command ends.
LEMMA EndsStep ==
    ASSUME VideoInv, SettledInv, NEW c \in Commands, Filming(c), NEW p \in V!Ended, V!Ends(c, p),
           UNCHANGED <<carried, hungUp, buttons>>, changed' \in BOOLEAN, changed => changed'
    PROVE  /\ Carries(c) /\ sent'[c].pc = p /\ ~Filming(c)' /\ turn' = Tail(turn)
           /\ (Answers(c)' <=> sent[c].on /\ p = "done")
<1>1. sent \in [Commands -> VideoCmd] /\ sent[c] \in VideoCmd BY DEF VideoInv, VideoTypes
<1>2. sent' = [sent EXCEPT ![c].pc = p, ![c].took = None] /\ turn' = Tail(turn) BY DEF V!Ends, Filming
<1>3. Carries(c) /\ sent'[c].pc = p BY <1>1, <1>2 DEF VideoCmd, Carries, Same, V!Ended
<1>4. p \notin BegunPc BY DEF V!Ended, BegunPc, CameraPc, ScreenPc, EitherPc
<1> QED BY <1>2, <1>3, <1>4 DEF Filming, Answers, Carries, Same

LEMMA BeginsCameraSettles ==
    ASSUME VideoInv, SettledInv, NEW c \in Commands, V!BeginsCamera(c) PROVE SettledInv'
<1>1. /\ V!HasTurn(c) /\ sent[c].pc = "waiting" /\ UNCHANGED <<carried, hungUp, buttons>>
      /\ changed \in BOOLEAN
  BY DEF V!BeginsCamera, SettledInv, TicketsInv
<1>2. Filming(c) BY <1>1 DEF VideoInv, OrdersInv, OrderInv, Filming, BegunPc, CameraPc
<1>3. video \in VideoState /\ video.camera \in {None} \cup CameraState BY DEF VideoInv, VideoTypes, VideoState
<1>4. sent \in [Commands -> VideoCmd] /\ sent[c] \in VideoCmd BY DEF VideoInv, VideoTypes
<1> DEFINE camera == video.camera
           same == camera # None /\ camera.cap # None /\ camera.dev = sent[c].dev
           took == IF camera = None THEN None ELSE camera.cap
           seen == camera # None /\ camera.muted /\ camera.cap # None => changed
<1>5. "done" \in V!Ended BY DEF V!Ended
<1>6. carried # None => seen
  <2>1. carried # None => Now = video /\ SeenInv BY <1>2, FilmingFacts
  <2> QED BY <2>1 DEF SeenInv
<1>7. CASE ~V!Stands(c) \/ (camera = None /\ ~sent[c].on)
  <2>1. V!Ends(c, "done") /\ UNCHANGED <<video, changed>> BY <1>7 DEF V!BeginsCamera
  <2>2. /\ Carries(c) /\ sent'[c].pc = "done" /\ ~Filming(c)' /\ turn' = Tail(turn)
        /\ (Answers(c)' <=> sent[c].on)
    BY <1>1, <1>2, <1>5, <2>1, EndsStep
  <2>3. ASSUME carried # None PROVE CameraStep(c)
    <3>1. Asked(c) => camera = None /\ ~sent[c].on BY <1>2, <1>7, <2>3, FilmingFacts
    <3>2. video.session = carried BY <1>2, <2>3, FilmingFacts
    <3>3. Asked(c) => (Answers(c)' <=> Films(video')) /\ Shows(video') BY <2>1, <2>2, <3>1 DEF Films, Shows
    <3> QED BY <1>5, <1>6, <2>1, <2>2, <2>3, <3>2, <3>3 DEF CameraStep, OpeningPc
  <2> QED BY <1>1, <1>2, <2>1, <2>2, <2>3, CameraSettles
<1>8. ASSUME V!Stands(c), camera # None, ~sent[c].on PROVE SettledInv'
  <2>1. /\ video' = [video EXCEPT !.camera = [@ EXCEPT !.muted = TRUE, !.cap = None]]
        /\ changed' = (changed \/ ~camera.muted)
        /\ IF took = None THEN V!Ends(c, "done")
           ELSE sent' = [sent EXCEPT ![c].pc = "closing", ![c].took = took] /\ UNCHANGED turn
    BY <1>8 DEF V!BeginsCamera
  <2>2. changed' \in BOOLEAN /\ (changed => changed') BY <1>1, <1>3, <1>8, <2>1 DEF CameraState
  <2>3. /\ video'.session = video.session /\ video'.camAsked = video.camAsked
        /\ video'.scrAsked = video.scrAsked /\ video'.screen = video.screen /\ video'.sound = video.sound
        /\ video'.camera.muted /\ video'.camera.cap = None
    <3> DEFINE r == [camera EXCEPT !.muted = TRUE, !.cap = None]
    <3>1. r.muted /\ r.cap = None BY <1>3, <1>8 DEF CameraState
    <3>2. video' = [video EXCEPT !.camera = r] BY <2>1
    <3> HIDE DEF r
    <3> QED BY <1>3, <3>1, <3>2 DEF VideoState
  <2>4. Carries(c) /\ \/ sent'[c].pc = "done" /\ ~Filming(c)' /\ turn' = Tail(turn) /\ ~Answers(c)'
                      \/ sent'[c].pc = "closing" /\ Filming(c)' /\ turn' = turn /\ sent'[c].call = sent[c].call
    <3>1. CASE took = None BY <1>1, <1>2, <1>5, <1>8, <2>1, <2>2, <3>1, EndsStep
    <3>2. CASE took # None
      <4>1. sent' = [sent EXCEPT ![c].pc = "closing", ![c].took = took] /\ turn' = turn BY <2>1, <3>2
      <4> HIDE DEF took
      <4>2. Carries(c) /\ sent'[c].pc = "closing" /\ sent'[c].call = sent[c].call
        BY <1>1, <1>4, <2>2, <4>1 DEF VideoCmd, Carries, Same
      <4> QED BY <1>2, <4>1, <4>2 DEF Filming, Carries, Same, BegunPc, EitherPc
    <3> QED BY <3>1, <3>2
  <2>5. ~Films(video') /\ Shows(video') BY <2>3 DEF Films, Shows
  <2>6. ASSUME carried # None PROVE CameraStep(c)
    <3>1. video.session = carried BY <1>2, <2>6, FilmingFacts
    <3> QED BY <1>5, <1>8, <2>3, <2>4, <2>5, <3>1 DEF CameraStep, OpeningPc
  <2> QED BY <1>1, <1>2, <2>3, <2>4, <2>6, CameraSettles
<1>9. ASSUME V!Stands(c), sent[c].on, same PROVE SettledInv'
  <2>1. /\ video' = [video EXCEPT !.camera.muted = FALSE] /\ V!Ends(c, "done")
        /\ changed' = (changed \/ camera.muted)
    BY <1>9 DEF V!BeginsCamera
  <2>2. changed' \in BOOLEAN /\ (changed => changed') BY <1>1, <1>3, <1>9, <2>1 DEF CameraState
  <2>3. /\ video'.session = video.session /\ video'.camAsked = video.camAsked
        /\ video'.scrAsked = video.scrAsked /\ video'.screen = video.screen /\ video'.sound = video.sound
        /\ video'.camera # None /\ ~video'.camera.muted /\ video'.camera.cap # None
    <3> DEFINE r == [camera EXCEPT !.muted = FALSE]
    <3>1. r \in CameraState /\ ~r.muted /\ r.cap # None BY <1>3, <1>9 DEF CameraState
    <3>2. r # None BY <3>1, VideoAssumption DEF CameraState
    <3>3. video' = [video EXCEPT !.camera = r] BY <1>3, <1>9, <2>1 DEF VideoState
    <3> HIDE DEF r
    <3> QED BY <1>3, <3>1, <3>2, <3>3 DEF VideoState
  <2>4. /\ Carries(c) /\ sent'[c].pc = "done" /\ ~Filming(c)' /\ turn' = Tail(turn) /\ Answers(c)'
    BY <1>1, <1>2, <1>5, <1>9, <2>1, <2>2, EndsStep
  <2>5. Films(video') /\ Shows(video') BY <2>3 DEF Films, Shows
  <2>6. ASSUME carried # None PROVE CameraStep(c)
    <3>1. video.session = carried BY <1>2, <2>6, FilmingFacts
    <3> QED BY <1>5, <2>3, <2>4, <2>5, <3>1 DEF CameraStep, OpeningPc
  <2> QED BY <1>1, <1>2, <2>3, <2>4, <2>6, CameraSettles
<1>10. ASSUME V!Stands(c), sent[c].on, ~same PROVE SettledInv'
  <2> DEFINE p == IF took = None THEN "opening" ELSE "switching"
             f == (camera = None)
  <2>1. /\ video' = IF camera = None THEN video ELSE [video EXCEPT !.camera.cap = None]
        /\ sent' = [sent EXCEPT ![c].pc = p, ![c].took = took, ![c].first = f] /\ UNCHANGED <<turn, changed>>
    BY <1>10 DEF V!BeginsCamera
  <2>2. /\ video'.session = video.session /\ video'.camAsked = video.camAsked
        /\ video'.scrAsked = video.scrAsked /\ video'.screen = video.screen /\ video'.sound = video.sound
        /\ (video'.camera = None <=> f) /\ (video'.camera # None => video'.camera.cap = None)
    <3>1. CASE camera = None BY <2>1, <3>1
    <3>2. CASE camera # None
      <4> DEFINE r == [camera EXCEPT !.cap = None]
      <4>1. r \in CameraState /\ r.cap = None BY <1>3, <3>2 DEF CameraState
      <4>2. r # None BY <4>1, VideoAssumption DEF CameraState
      <4>3. video' = [video EXCEPT !.camera = r] BY <1>3, <2>1, <3>2 DEF VideoState
      <4> HIDE DEF r
      <4> QED BY <1>3, <3>2, <4>1, <4>2, <4>3 DEF VideoState
    <3> QED BY <3>1, <3>2
  <2>3. p \in OpeningPc /\ p \in BegunPc /\ p \notin V!Ended
    BY DEF OpeningPc, BegunPc, CameraPc, V!Ended
  <2>4. p # "unused" /\ p # "refused" /\ p # "sent" /\ p # "shutting" /\ p # "closing" /\ f \in BOOLEAN OBVIOUS
  <2> HIDE DEF took, p, f
  <2>5. Carries(c) /\ sent'[c].pc = p /\ sent'[c].call = sent[c].call /\ sent'[c].first = f
    BY <1>1, <1>4, <2>1, <2>4 DEF VideoCmd, Carries, Same
  <2>6. Filming(c)' BY <1>2, <2>3, <2>5 DEF Filming, Carries, Same
  <2>7. ASSUME carried # None PROVE CameraStep(c)
    <3>1. video.session = carried BY <1>2, <2>7, FilmingFacts
    <3> QED BY <1>10, <2>2, <2>3, <2>4, <2>5, <2>6, <3>1 DEF CameraStep
  <2> QED BY <1>1, <1>2, <2>1, <2>2, <2>5, <2>6, <2>7, CameraSettles
<1> QED BY <1>7, <1>8, <1>9, <1>10

\* On the way to an open device nothing is seen to change.
LEMMA OpensOn ==
    ASSUME VideoInv, SettledInv, NEW c \in Commands, Filming(c), V!HasTurn(c), sent[c].pc \in OpeningPc,
           NEW p \in OpeningPc, V!Goes(c, p), UNCHANGED <<carried, hungUp, buttons, video, turn>>,
           changed' \in BOOLEAN, changed => changed'
    PROVE  SettledInv'
<1>1. sent \in [Commands -> VideoCmd] /\ sent[c] \in VideoCmd BY DEF VideoInv, VideoTypes
<1>2. p \in BegunPc /\ p # "unused" /\ p # "refused" /\ p # "sent" /\ p # "shutting" /\ p # "closing"
  BY DEF OpeningPc, BegunPc, CameraPc, EitherPc
<1>3. Carries(c) /\ sent'[c].pc = p /\ sent'[c].call = sent[c].call /\ sent'[c].first = sent[c].first
  BY <1>1, <1>2 DEF V!Goes, VideoCmd, Carries, Same
<1>4. Filming(c)' BY <1>2, <1>3 DEF Filming, Carries, Same
<1>5. ASSUME carried # None PROVE CameraStep(c)
  <2>1. Now = video /\ video.session = carried /\ RunInv(c) /\ SeenInv BY <1>5, FilmingFacts
  <2>2. video.camera # None /\ video.camera.muted /\ video.camera.cap # None => changed BY <2>1 DEF SeenInv
  <2>3. sent[c].on /\ (sent[c].first <=> video.camera = None) BY <2>1 DEF RunInv
  <2> QED BY <1>2, <1>3, <1>4, <2>1, <2>2, <2>3 DEF CameraStep
<1> QED BY <1>3, <1>4, <1>5, CameraSettles

\* A command ends and leaves the state as it is.
LEMMA EndsSettled ==
    ASSUME VideoInv, SettledInv, NEW c \in Commands, Filming(c), V!HasTurn(c), NEW p \in V!Ended, V!Ends(c, p),
           UNCHANGED <<carried, hungUp, buttons, changed>>,
           video' = video \/ video' = V!StateOf(sent[c].call),
           carried # None /\ Asked(c) => ((sent[c].on /\ p = "done") <=> Films(video)) /\ Shows(video)
    PROVE  SettledInv'
<1>1. /\ Carries(c) /\ sent'[c].pc = p /\ ~Filming(c)' /\ turn' = Tail(turn)
      /\ (Answers(c)' <=> sent[c].on /\ p = "done")
  <2>1. changed' \in BOOLEAN BY DEF SettledInv, TicketsInv
  <2> QED BY <2>1, EndsStep
<1>2. video'.session \in {video.session, sent[c].call} BY DEF V!StateOf, V!Fresh
<1>3. ASSUME carried # None PROVE CameraStep(c)
  <2>1. Now = video /\ video.session = carried /\ SeenInv /\ video' = video
    <3>1. V!StateOf(sent[c].call) = video BY <1>3, LiveNow DEF SettledInv, Filming
    <3> QED BY <1>3, <3>1, FilmingFacts
  <2>2. video.camera # None /\ video.camera.muted /\ video.camera.cap # None => changed BY <2>1 DEF SeenInv
  <2>3. Asked(c) => (Answers(c)' <=> Films(video')) /\ Shows(video') BY <1>1, <1>3, <2>1
  <2>4. p \notin OpeningPc /\ p # "refused" /\ p # "sent" /\ p # "shutting" /\ p # "closing" BY DEF V!Ended, OpeningPc
  <2> QED BY <1>1, <2>1, <2>2, <2>3, <2>4 DEF CameraStep
<1> QED BY <1>1, <1>2, <1>3, CameraSettles

\* Whoever was asked last and opens nothing leaves no dark camera unmuted.
LEMMA AskedShows ==
    ASSUME VideoInv, SettledInv, NEW c \in Commands, Filming(c), carried # None, Asked(c),
           sent[c].pc \notin {"waiting"} \cup OpeningPc
    PROVE  Shows(video)
<1>1. Now = video /\ SeenInv BY FilmingFacts
<1>2. \A b \in Commands : Filming(b) /\ Asked(b) => b = c
  BY DEF VideoInv, OrdersInv, OrderInv, Asked, Filming
<1> QED BY <1>1, <1>2 DEF SeenInv, Shows

LEMMA SwitchesSettles == ASSUME VideoInv, SettledInv, NEW c \in Commands, V!Switches(c) PROVE SettledInv'
<1>1. sent[c].pc = "switching" /\ UNCHANGED <<carried, hungUp, buttons, video, changed>> BY DEF V!Switches
<1>2. Filming(c) /\ V!HasTurn(c) /\ sent[c].pc \in OpeningPc /\ changed' \in BOOLEAN
  BY <1>1 DEF VideoInv, OrdersInv, OrderInv, Filming, BegunPc, CameraPc, OpeningPc, SettledInv, TicketsInv
<1>3. CASE V!Stands(c)
  <2>1. V!Goes(c, "opening") /\ turn' = turn BY <1>3 DEF V!Switches, V!Goes
  <2>2. "opening" \in OpeningPc BY DEF OpeningPc
  <2> QED BY <1>1, <1>2, <2>1, <2>2, OpensOn
<1>4. CASE ~V!Stands(c)
  <2>1. V!Ends(c, "done") BY <1>4 DEF V!Switches
  <2>2. carried # None => ~Asked(c) BY <1>2, <1>4, FilmingFacts
  <2>3. "done" \in V!Ended BY DEF V!Ended
  <2> QED BY <1>1, <1>2, <2>1, <2>2, <2>3, EndsSettled
<1> QED BY <1>3, <1>4

LEMMA VideoOpensSettles == ASSUME VideoInv, SettledInv, NEW c \in Commands, V!Opens(c) PROVE SettledInv'
<1>1. sent[c].pc = "opening" /\ UNCHANGED <<carried, hungUp, buttons, video, changed>> BY DEF V!Opens
<1>2. Filming(c) /\ V!HasTurn(c) /\ sent[c].pc \in OpeningPc /\ changed' \in BOOLEAN
  BY <1>1 DEF VideoInv, OrdersInv, OrderInv, Filming, BegunPc, CameraPc, OpeningPc, SettledInv, TicketsInv
<1>3. CASE V!Goes(c, "opened") /\ turn' = turn
  <2>1. "opened" \in OpeningPc BY DEF OpeningPc
  <2> QED BY <1>1, <1>2, <1>3, <2>1, OpensOn
<1>4. CASE ~V!Watched(c) /\ V!Ends(c, "failed")
  <2>1. carried # None => V!Live(c) BY <1>2, FilmingFacts
  <2>2. carried # None => ~Films(video) /\ Shows(video) BY <1>4, <2>1 DEF V!Watched, Films, Shows
  <2>3. "failed" \in V!Ended BY DEF V!Ended
  <2> QED BY <1>1, <1>2, <1>4, <2>2, <2>3, EndsSettled
<1> QED BY <1>3, <1>4 DEF V!Opens

\* What a command takes away, on its way to close it.
LEMMA TakesStep ==
    ASSUME VideoInv, NEW c \in Commands, Filming(c), NEW p \in {"closing", "refused", "shutting"},
           sent' = [sent EXCEPT ![c].pc = p, ![c].took = c], UNCHANGED <<carried, hungUp, buttons>>,
           changed' \in BOOLEAN, changed => changed'
    PROVE  Carries(c) /\ sent'[c].pc = p /\ sent'[c].call = sent[c].call /\ Filming(c)'
<1>1. sent \in [Commands -> VideoCmd] /\ sent[c] \in VideoCmd BY DEF VideoInv, VideoTypes
<1>2. Carries(c) /\ sent'[c].pc = p /\ sent'[c].call = sent[c].call BY <1>1 DEF VideoCmd, Carries, Same
<1> QED BY <1>2 DEF Filming, Carries, Same, BegunPc, CameraPc, EitherPc

LEMMA TakesSettled ==
    ASSUME VideoInv, SettledInv, NEW c \in Commands, Filming(c), V!HasTurn(c), NEW p \in {"closing", "refused"},
           sent' = [sent EXCEPT ![c].pc = p, ![c].took = c],
           UNCHANGED <<carried, hungUp, buttons, video, turn, changed>>,
           carried # None => (p = "closing" /\ ~Asked(c)) \/ (p = "refused" /\ video.camera = None)
    PROVE  SettledInv'
<1>1. Carries(c) /\ sent'[c].pc = p /\ sent'[c].call = sent[c].call /\ Filming(c)'
  BY TakesStep DEF SettledInv, TicketsInv
<1>2. ASSUME carried # None PROVE CameraStep(c)
  <2>1. Now = video /\ video.session = carried /\ SeenInv BY <1>2, FilmingFacts
  <2>2. video.camera # None /\ video.camera.muted /\ video.camera.cap # None => changed BY <2>1 DEF SeenInv
  <2>3. p \notin OpeningPc /\ p # "sent" /\ p # "shutting" BY DEF OpeningPc
  <2> QED BY <1>1, <1>2, <2>1, <2>2, <2>3 DEF CameraStep, Shows
<1> QED BY <1>1, <1>2, CameraSettles

\* A device is open in the publication, and seen.
LEMMA ShowsCamera ==
    ASSUME VideoInv, NEW r \in CameraState, video' = [video EXCEPT !.camera = r]
    PROVE  /\ video'.session = video.session /\ video'.camAsked = video.camAsked
           /\ video'.scrAsked = video.scrAsked /\ video'.screen = video.screen /\ video'.sound = video.sound
           /\ video'.camera = r /\ r # None
<1>1. r # None BY VideoAssumption DEF CameraState
<1>2. video \in VideoState BY DEF VideoInv, VideoTypes
<1> QED BY <1>1, <1>2 DEF VideoState

LEMMA SeesCamera ==
    ASSUME VideoInv, SettledInv, NEW c \in Commands, Filming(c), V!HasTurn(c), sent[c].pc \in OpeningPc,
           V!Ends(c, "done"), UNCHANGED <<carried, hungUp, buttons>>, changed' \in BOOLEAN, changed => changed',
           NEW r \in CameraState, video' = [video EXCEPT !.camera = r], ~r.muted, r.cap = c
    PROVE  SettledInv'
<1>1. "done" \in V!Ended BY DEF V!Ended
<1>2. /\ Carries(c) /\ sent'[c].pc = "done" /\ ~Filming(c)' /\ turn' = Tail(turn)
      /\ (Answers(c)' <=> sent[c].on)
  BY <1>1, EndsStep
<1>3. /\ video'.session = video.session /\ video'.camAsked = video.camAsked
      /\ video'.scrAsked = video.scrAsked /\ video'.screen = video.screen /\ video'.sound = video.sound
      /\ video'.camera = r /\ r # None
  BY ShowsCamera
<1>4. Films(video') /\ Shows(video') BY <1>3, VideoAssumption DEF Films, Shows
<1>5. ASSUME carried # None PROVE CameraStep(c)
  <2>1. video.session = carried /\ sent[c].on
    <3>1. video.session = carried /\ RunInv(c) BY <1>5, FilmingFacts
    <3> QED BY <3>1 DEF RunInv
  <2> QED BY <1>1, <1>2, <1>3, <1>4, <2>1 DEF CameraStep, OpeningPc
<1> QED BY <1>2, <1>3, <1>5, CameraSettles

LEMMA InstallsSettles == ASSUME VideoInv, SettledInv, NEW c \in Commands, V!Installs(c) PROVE SettledInv'
<1>1. sent[c].pc = "opened" /\ UNCHANGED <<carried, hungUp, buttons>> BY DEF V!Installs
<1>2. Filming(c) /\ V!HasTurn(c) /\ sent[c].pc \in OpeningPc /\ changed \in BOOLEAN /\ sent[c] \in VideoCmd
  BY <1>1 DEF VideoInv, VideoTypes, OrdersInv, OrderInv, Filming, BegunPc, CameraPc, OpeningPc, SettledInv, TicketsInv
<1>3. CASE V!Stands(c) /\ sent[c].first
  <2>1. V!Goes(c, "publishing") /\ UNCHANGED <<video, turn, changed>> BY <1>3 DEF V!Installs
  <2>2. "publishing" \in OpeningPc BY DEF OpeningPc
  <2> QED BY <1>1, <1>2, <2>1, <2>2, OpensOn
<1>4. CASE V!Stands(c) /\ ~sent[c].first /\ video.camera # None
  <2> DEFINE r == [muted |-> FALSE, cap |-> c, dev |-> sent[c].dev]
  <2>1. video' = [video EXCEPT !.camera = r] /\ V!Ends(c, "done") /\ changed' = (changed \/ video.camera.muted)
    BY <1>4 DEF V!Installs
  <2>2. changed' \in BOOLEAN /\ (changed => changed') BY <1>2, <2>1
  <2>3. r \in CameraState /\ ~r.muted /\ r.cap = c BY <1>2 DEF CameraState, VideoCmd
  <2> HIDE DEF r
  <2> QED BY <1>1, <1>2, <2>1, <2>2, <2>3, SeesCamera
<1>5. CASE ~(V!Stands(c) /\ sent[c].first) /\ ~(V!Stands(c) /\ video.camera # None)
  <2>1. sent' = [sent EXCEPT ![c].pc = "closing", ![c].took = c] /\ UNCHANGED <<video, turn, changed>>
    BY <1>5 DEF V!Installs
  <2>2. carried # None => ~Asked(c)
    <3>1. carried # None => Now = video /\ RunInv(c) /\ (Asked(c) => V!Stands(c)) BY <1>2, FilmingFacts
    <3> QED BY <1>2, <1>5, <3>1 DEF RunInv
  <2> QED BY <1>1, <1>2, <2>1, <2>2, TakesSettled
<1> QED BY <1>3, <1>4, <1>5

LEMMA PublishesCameraSettles ==
    ASSUME VideoInv, SettledInv, NEW c \in Commands, V!PublishesCamera(c) PROVE SettledInv'
<1>1. /\ sent[c].pc = "publishing" /\ sent[c].kind = "camera" /\ UNCHANGED <<carried, hungUp, buttons, video, turn>>
  BY DEF V!PublishesCamera
<1>2. Filming(c) /\ V!HasTurn(c) /\ sent[c].pc \in OpeningPc /\ changed \in BOOLEAN /\ sent[c].first
  BY <1>1 DEF VideoInv, OrdersInv, OrderInv, Filming, BegunPc, CameraPc, EitherPc, OpeningPc, SettledInv, TicketsInv
<1>3. CASE V!Goes(c, "recording") /\ changed' = (changed \/ carried = sent[c].call)
  <2>1. "recording" \in OpeningPc BY DEF OpeningPc
  <2>2. changed' \in BOOLEAN /\ (changed => changed') BY <1>2, <1>3
  <2> QED BY <1>1, <1>2, <1>3, <2>1, <2>2, OpensOn
<1>4. CASE sent' = [sent EXCEPT ![c].pc = "refused", ![c].took = c] /\ changed' = changed
  <2>1. carried # None => video.camera = None
    <3>1. carried # None => Now = video /\ RunInv(c) BY <1>2, FilmingFacts
    <3> QED BY <1>2, <3>1 DEF RunInv
  <2> QED BY <1>1, <1>2, <1>4, <2>1, TakesSettled
<1> QED BY <1>3, <1>4 DEF V!PublishesCamera

LEMMA RecordsSettles == ASSUME VideoInv, SettledInv, NEW c \in Commands, V!Records(c) PROVE SettledInv'
<1>1. /\ sent[c].pc = "recording" /\ sent[c].kind = "camera" /\ UNCHANGED <<carried, hungUp, buttons>>
  BY DEF V!Records
<1>2. /\ Filming(c) /\ V!HasTurn(c) /\ sent[c].pc \in OpeningPc /\ changed \in BOOLEAN /\ sent[c] \in VideoCmd
      /\ ~sent[c].muted
  BY <1>1 DEF VideoInv, VideoTypes, OrdersInv, OrderInv, Filming, BegunPc, CameraPc, OpeningPc, SettledInv, TicketsInv
<1> DEFINE r == [muted |-> sent[c].muted \/ ~V!Stands(c), dev |-> sent[c].dev, cap |-> IF V!Stands(c) THEN c ELSE None]
<1>3. /\ r \in CameraState /\ (r.muted <=> ~V!Stands(c)) /\ r.cap = (IF V!Stands(c) THEN c ELSE None)
  <2>1. (sent[c].muted \/ ~V!Stands(c)) \in BOOLEAN BY <1>2
  <2> QED BY <1>2, <2>1 DEF CameraState, VideoCmd
<1>4. V!Live(c) => video' = [video EXCEPT !.camera = r] /\ changed' = (changed \/ (~V!Stands(c) /\ ~sent[c].muted))
  BY DEF V!Records
<1> HIDE DEF r
<1>5. CASE V!Live(c) /\ V!Stands(c)
  <2>1. V!Ends(c, "done") BY <1>5 DEF V!Records
  <2>2. changed' \in BOOLEAN /\ (changed => changed') BY <1>2, <1>4, <1>5
  <2> QED BY <1>1, <1>2, <1>3, <1>4, <1>5, <2>1, <2>2, SeesCamera
<1>6. CASE V!Live(c) /\ ~V!Stands(c)
  <2>1. sent' = [sent EXCEPT ![c].pc = "shutting", ![c].took = c] /\ turn' = turn BY <1>6 DEF V!Records
  <2>2. changed' \in BOOLEAN /\ (changed => changed') BY <1>2, <1>4, <1>6
  <2>3. Carries(c) /\ sent'[c].pc = "shutting" /\ sent'[c].call = sent[c].call /\ Filming(c)'
    BY <1>1, <1>2, <2>1, <2>2, TakesStep
  <2>4. /\ video'.session = video.session /\ video'.camAsked = video.camAsked
        /\ video'.scrAsked = video.scrAsked /\ video'.screen = video.screen /\ video'.sound = video.sound
        /\ video'.camera = r /\ r # None
    BY <1>3, <1>4, <1>6, ShowsCamera
  <2>5. ASSUME carried # None PROVE CameraStep(c)
    <3>1. video.session = carried /\ ~Asked(c) BY <1>2, <1>6, <2>5, FilmingFacts
    <3> QED BY <1>3, <1>6, <2>3, <2>4, <3>1 DEF CameraStep, OpeningPc
  <2> QED BY <1>1, <1>2, <2>1, <2>3, <2>4, <2>5, CameraSettles
<1>7. CASE ~V!Live(c)
  <2>1. sent' = [sent EXCEPT ![c].pc = "closing", ![c].took = c] /\ UNCHANGED <<video, turn, changed>>
    BY <1>7 DEF V!Records
  <2>2. carried = None BY <1>2, <1>7, FilmingFacts
  <2> QED BY <1>1, <1>2, <2>1, <2>2, TakesSettled
<1> QED BY <1>5, <1>6, <1>7

LEMMA ArrivesCameraSettles ==
    ASSUME VideoInv, SettledInv, NEW c \in Commands, V!ArrivesCamera(c) PROVE SettledInv'
<1>1. /\ sent[c].pc = "sent" /\ sent[c].kind = "camera" /\ UNCHANGED <<carried, hungUp, buttons, changed>>
      /\ sent[c].ours /\ sent[c] \in VideoCmd /\ sent \in [Commands -> VideoCmd] /\ turn \in Seq(Commands)
  BY DEF V!ArrivesCamera, VideoInv, OrdersInv, OrderInv, VideoTypes
<1>2. TicketsInv /\ QueueInv /\ CameraInv /\ ScreenInv /\ changed \in BOOLEAN BY DEF SettledInv, TicketsInv
<1>3. ~Filming(c) /\ \A b \in Commands : b = buttons.scrTicket => b # c
  BY <1>1, <1>2 DEF Filming, BegunPc, CameraPc, ScreenPc, EitherPc, TicketsInv
<1>4. buttons.seq <= buttons'.seq /\ buttons'.seq \in Nat BY <1>1 DEF VideoInv, VideoTypes, ButtonState
<1>5. CASE carried = None
  <2>1. V!Goes(c, "failed") /\ UNCHANGED <<video, turn>> BY <1>5 DEF V!ArrivesCamera
  <2>2. Carries(c) /\ sent'[c].pc = "failed" BY <1>1, <1>2, <2>1 DEF V!Goes, VideoCmd, Carries, Same
  <2>3. sent'[c].pc \notin BegunPc BY <2>2 DEF BegunPc, CameraPc, ScreenPc, EitherPc
  <2>4. TicketsInv' BY <1>2, <2>1, <2>2, <2>3, TicketsMove
  <2>5. QueueInv'
    <3>1. \A b \in Commands : (Filming(b)' <=> Filming(b)) /\ (Filming(b) => sent'[b].seq = sent[b].seq)
      BY <1>3, <2>2, <2>3 DEF Filming, Carries
    <3> QED BY <1>1, <1>2, <2>1, <3>1, QueueStays
  <2> QED BY <1>1, <1>5, <2>4, <2>5 DEF SettledInv, CameraInv, ScreenInv
<1>6. ASSUME carried # None PROVE SettledInv'
  <2>1. Now.session = carried BY DEF Now, V!StateOf, V!Fresh
  <2>2. Now \in VideoState BY <1>6, FreshState DEF VideoInv, VideoTypes, Now, V!StateOf
  <2>3. \A b \in Commands : Filming(b) => sent[b].seq <= Now.camAsked BY <1>2, <1>6 DEF CameraInv, RunInv
  <2>4. ASSUME sent[c].seq <= Now.camAsked PROVE SettledInv'
    <3>1. video' = Now /\ V!Goes(c, "done") /\ turn' = turn BY <1>6, <2>4 DEF V!ArrivesCamera, Now
    <3>2. Now' = Now BY <1>1, <2>1, <3>1 DEF Now, V!StateOf
    <3>3. Carries(c) /\ sent'[c].pc = "done" BY <1>1, <1>2, <3>1 DEF V!Goes, VideoCmd, Carries, Same
    <3>4. sent'[c].pc \notin BegunPc BY <3>3 DEF BegunPc, CameraPc, ScreenPc, EitherPc
    <3>5. TicketsInv' BY <1>2, <1>6, <2>1, <3>1, <3>3, <3>4, TicketsMove
    <3>6. \A b \in Commands : (Filming(b)' <=> Filming(b)) /\ (Filming(b) => sent'[b] = sent[b])
      BY <1>3, <3>3, <3>4 DEF Filming, Carries
    <3>7. QueueInv' BY <1>1, <1>2, <3>1, <3>6, QueueStays
    <3>8. ScreenInv'
      <4>1. \A b \in Commands : b = buttons.scrTicket => sent'[b] = sent[b] BY <1>3, <3>3 DEF Carries
      <4> QED BY <1>1, <1>2, <1>4, <1>6, <3>2, <4>1, ScreenRests
    <3>9. CameraInv'
      <4>1. c # buttons.camTicket
        <5>1. SUFFICES ASSUME c = buttons.camTicket PROVE FALSE OBVIOUS
        <5>2. Now.camAsked < sent[c].seq BY <1>1, <1>2, <1>6, <5>1 DEF CameraInv, CamTicketInv
        <5> QED BY <1>1, <2>2, <2>4, <5>2 DEF VideoState, VideoCmd
      <4>2. Films(Now)' <=> Films(Now) BY <3>2 DEF Films
      <4>3. \A b \in Commands : sent'[b].seq = sent[b].seq /\ (Waits(b)' <=> Waits(b)) /\ (Asked(b)' <=> Asked(b))
        BY <3>2, <3>3 DEF Carries, Same, Waits, Asked
      <4>4. \A b \in Commands : b # c => sent'[b] = sent[b] BY <3>3 DEF Carries
      <4>5. Now'.camAsked <= buttons'.seq BY <1>1, <1>2, <1>6, <3>2 DEF CameraInv
      <4>6. \A b \in Commands : RunInv(b)'
        <5> SUFFICES ASSUME NEW b \in Commands, Filming(b)' PROVE RunInv(b)' BY DEF RunInv
        <5>1. RunInv(b) /\ Filming(b) /\ sent'[b] = sent[b] BY <1>2, <1>6, <3>6 DEF CameraInv
        <5> QED BY <3>2, <4>2, <4>3, <5>1 DEF RunInv
      <4>7. (\E b \in Commands : Filming(b)') =>
              /\ \E b \in Commands : Filming(b)' /\ Asked(b)'
              /\ \E b \in Commands : b = buttons'.camTicket /\ sent'[b].pc \notin V!Ended
        BY <1>1, <1>2, <1>6, <3>6, <4>1, <4>3, <4>4 DEF CameraInv
      <4>8. \A b \in Commands : b = buttons'.camTicket => CamTicketInv(b)'
        <5> SUFFICES ASSUME NEW b \in Commands, b = buttons.camTicket PROVE CamTicketInv(b)' BY <1>1
        <5>1. CamTicketInv(b) /\ sent'[b] = sent[b] BY <1>2, <1>6, <4>1, <4>4 DEF CameraInv
        <5> QED BY <3>2, <4>2, <4>3, <5>1 DEF CamTicketInv, Answers
      <4>9. ButtonInv' BY <1>1, <1>2, <1>6, <3>2, <4>2, <4>3 DEF CameraInv, ButtonInv
      <4>10. SeenInv' BY <1>1, <1>2, <1>6, <3>2, <3>6, <4>3 DEF CameraInv, SeenInv
      <4> QED BY <4>5, <4>6, <4>7, <4>8, <4>9, <4>10 DEF CameraInv
    <3> QED BY <3>5, <3>7, <3>8, <3>9 DEF SettledInv
  <2>5. ASSUME ~(sent[c].seq <= Now.camAsked) PROVE SettledInv'
    <3>1. /\ video' = [Now EXCEPT !.camAsked = sent[c].seq, !.wish = V!Wish(c)] /\ turn' = Append(turn, c)
          /\ sent' = [sent EXCEPT ![c].pc = "waiting", ![c].call = carried]
      BY <1>6, <2>5 DEF V!ArrivesCamera, Now
    <3>2. /\ video'.session = carried /\ video'.camAsked = sent[c].seq /\ video'.camera = Now.camera
          /\ video'.scrAsked = Now.scrAsked /\ video'.screen = Now.screen /\ video'.sound = Now.sound
      BY <2>1, <2>2, <3>1 DEF VideoState
    <3>3. Now' = video' BY <1>1, <3>2 DEF Now, V!StateOf
    <3>4. /\ Carries(c) /\ sent'[c].pc = "waiting" /\ sent'[c].call = carried
      BY <1>1, <1>2, <3>1 DEF VideoCmd, Carries, Same
    <3>5. Filming(c)' BY <1>1, <3>4 DEF Filming, Carries, Same, BegunPc, CameraPc
    <3>6. TicketsInv' BY <1>2, <1>6, <3>2, <3>4, TicketsMove
    <3>7. \A b \in Commands : b # c => (Filming(b)' <=> Filming(b)) BY <3>4 DEF Filming, Carries
    <3>8. \A b \in Commands : sent'[b].seq = sent[b].seq /\ (Waits(b)' <=> Waits(b))
      BY <3>4 DEF Carries, Same, Waits
    <3>9. Now.camAsked < sent[c].seq /\ Now.camAsked \in Nat /\ \A b \in Commands : sent[b].seq \in Nat
      BY <1>1, <2>2, <2>5 DEF VideoState, VideoCmd
    <3>10. QueueInv'
      <4>1. \A b \in Commands : Filming(b) => sent[b].seq < sent[c].seq BY <2>3, <3>9
      <4>2. \A b \in Commands : sent'[b].seq = sent[b].seq BY <3>8
      <4> QED BY <1>2, <1>3, <3>1, <3>5, <3>7, <4>1, <4>2, QueueGrows
    <3>11. ScreenInv'
      <4>1. \A b \in Commands : b = buttons.scrTicket => sent'[b] = sent[b] BY <1>3, <3>4 DEF Carries
      <4> QED BY <1>1, <1>2, <1>4, <1>6, <3>2, <3>3, <4>1, ScreenRests
    <3>12. CameraInv'
      <4>1. PICK t \in Commands : t = buttons.camTicket
        <5>1. buttons.camTicket # None BY <1>1, <1>2, <1>6, <3>9, VideoAssumption DEF CameraInv, ButtonInv, Waits
        <5> QED BY <5>1 DEF VideoInv, VideoTypes, ButtonState
      <4>2. sent[c].seq <= sent[t].seq BY <1>1, <1>2, <4>1 DEF TicketsInv, Waits
      <4>3. CamTicketInv(t) BY <1>2, <1>6, <4>1 DEF CameraInv
      <4>4. sent[t].pc = "sent" BY <3>9, <4>2, <4>3 DEF CamTicketInv, Asked
      <4>5. t = c \/ sent[c].seq < sent[t].seq
        <5>1. sent[t].ours BY <1>2, <4>1 DEF TicketsInv, Waits
        <5>2. sent[c].seq = sent[t].seq => c = t BY <1>1, <5>1 DEF VideoInv, OrdersInv
        <5> QED BY <3>9, <4>2, <5>2
      <4>6. Asked(c)' BY <3>2, <3>3, <3>8 DEF Asked
      <4>7. Now'.camAsked <= buttons'.seq BY <1>1, <3>2, <3>3 DEF VideoInv, OrdersInv, OrderInv
      <4>8. ASSUME NEW b \in Commands, Filming(b)' PROVE RunInv(b)'
        <5>1. CASE b = c
          <6>1. sent'[c].seq <= Now'.camAsked BY <3>2, <3>3, <3>8, <3>9
          <6> QED BY <3>4, <5>1, <6>1 DEF RunInv, OpeningPc
        <5>2. CASE b # c
          <6>1. Filming(b) /\ sent'[b] = sent[b] BY <3>4, <3>7, <4>8, <5>2 DEF Carries
          <6>2. sent[b].seq <= Now.camAsked /\ sent[b].seq < Now'.camAsked BY <2>3, <3>2, <3>3, <3>9, <6>1
          <6>3. ~Asked(b)' BY <3>8, <3>9, <6>2 DEF Asked
          <6>4. RunInv(b) BY <1>2, <1>6 DEF CameraInv
          <6>5. sent'[b].seq <= Now'.camAsked BY <3>2, <3>3, <3>8, <3>9, <6>2
          <6> QED BY <3>2, <3>3, <6>1, <6>3, <6>4, <6>5 DEF RunInv
        <5> QED BY <5>1, <5>2
      <4>9. \A b \in Commands : RunInv(b)' BY <4>8 DEF RunInv
      <4>10. sent'[t].pc \notin V!Ended BY <3>4, <4>4 DEF V!Ended, Carries
      <4>11. CamTicketInv(t)'
        <5>1. CASE t = c BY <3>4, <4>6, <5>1 DEF CamTicketInv, V!Ended
        <5>2. CASE t # c
          <6>1. sent'[t] = sent[t] BY <3>4, <5>2 DEF Carries
          <6> QED BY <3>2, <3>3, <4>4, <4>5, <5>2, <6>1 DEF CamTicketInv, V!Ended
        <5> QED BY <5>1, <5>2
      <4>12. ButtonInv' BY <1>1, <4>1, VideoAssumption DEF ButtonInv
      <4>13. SeenInv'
        <5>1. Now'.camera = Now.camera /\ SeenInv /\ changed' = changed BY <1>1, <1>2, <1>6, <3>2, <3>3 DEF CameraInv
        <5> QED BY <3>4, <3>5, <4>6, <5>1 DEF SeenInv
      <4> QED BY <1>1, <3>5, <4>1, <4>6, <4>7, <4>9, <4>10, <4>11, <4>12, <4>13 DEF CameraInv
    <3> QED BY <3>6, <3>10, <3>11, <3>12 DEF SettledInv
  <2> QED BY <2>4, <2>5
<1> QED BY <1>5, <1>6

-----------------------------------------------------------------------------
(* The commands of the share.                                              *)

\* A command of the share that runs while a call is up is the latest.
LEMMA SharingFacts ==
    ASSUME VideoInv, SettledInv, NEW c \in Commands, sent[c].kind = "screen", sent[c].pc \in BegunPc, carried # None
    PROVE  /\ Now = video /\ video.session = carried /\ sent[c].call = carried /\ V!StateOf(sent[c].call) = video
           /\ V!Live(c) /\ V!Latest(c) /\ video.scrAsked = sent[c].seq
           /\ sent[c].pc \notin {"closing", "replacing", "undoing", "hushing", "shutting"}
           /\ sent[c].pc # "quieting" => video.screen = None
           /\ sent[c].pc \notin {"quieting", "taking"} => sent[c].on
           /\ video.sound # None /\ video.sound.cap # None => video.screen # None \/ sent[c].pc = "storing"
<1>1. /\ Now = video /\ video.session = carried /\ sent[c].call = carried /\ V!StateOf(sent[c].call) = video /\ V!Live(c)
  BY LiveNow DEF SettledInv
<1>2. sent[c].ours BY DEF VideoInv, OrdersInv, OrderInv
<1>3. c = buttons.scrTicket BY <1>2 DEF SettledInv, TicketsInv
<1>4. ScreenInv /\ ScrTicketInv(c) BY <1>3 DEF SettledInv, ScreenInv
<1> QED BY <1>1, <1>3, <1>4 DEF ScrTicketInv, V!Latest, ScreenInv

\* Its step: what it finds is as it was, and it goes on from there.
LEMMA GoesStep ==
    ASSUME VideoInv, SettledInv, NEW c \in Commands, NEW p \in VideoPc \ {"unused"}, V!Goes(c, p),
           UNCHANGED <<carried, hungUp, buttons>>, changed' \in BOOLEAN, changed => changed'
    PROVE  Carries(c) /\ sent'[c].pc = p /\ sent'[c].call = sent[c].call
<1>1. sent \in [Commands -> VideoCmd] /\ sent[c] \in VideoCmd BY DEF VideoInv, VideoTypes
<1> QED BY <1>1 DEF V!Goes, VideoCmd, Carries, Same

LEMMA SharingSettles ==
    ASSUME VideoInv, SettledInv, NEW c \in Commands, Carries(c), sent[c].kind = "screen", sent[c].pc \in BegunPc,
           turn' = turn, sent'[c].call = sent[c].call,
           video'.session \in {video.session, sent[c].call},
           carried # None =>
             /\ video'.session = carried /\ video'.scrAsked = video.scrAsked
             /\ video'.camAsked = video.camAsked /\ video'.camera = video.camera
             /\ sent'[c].pc \in V!Ended \/ sent'[c].pc \in BegunPc \ {"closing", "replacing", "undoing", "hushing", "shutting"}
             /\ sent'[c].pc \in BegunPc \ {"quieting"} => video'.screen = None
             /\ sent'[c].pc \in BegunPc \ {"quieting", "taking"} => sent[c].on
             /\ sent'[c].pc \in V!Ended => (Answers(c)' <=> video'.screen # None)
             /\ video'.sound # None /\ video'.sound.cap # None => video'.screen # None \/ sent'[c].pc = "storing"
    PROVE  SettledInv'
<1>1. sent[c].ours BY DEF VideoInv, OrdersInv, OrderInv
<1>2. ASSUME carried # None PROVE ScreenStep(c) /\ video'.session = carried
  <2>1. Now = video /\ video.scrAsked = sent[c].seq BY <1>2, SharingFacts
  <2>2. Now' = video' BY <1>2 DEF Now, V!StateOf, Carries
  <2> QED BY <1>2, <2>1, <2>2 DEF ScreenStep
<1>3. carried # None => video.session = carried BY SharingFacts
<1> QED BY <1>1, <1>2, <1>3, ScreenSettles

LEMMA TakesStart ==
    ASSUME VideoInv, SettledInv, NEW c \in Commands, sent[c].pc = "sent", sent[c].kind = "screen", carried # None,
           NEW v \in VideoState, v.session = carried, v.camAsked = Now.camAsked, v.camera = Now.camera,
           v.scrAsked = sent[c].seq, v.sound # None => v.sound.cap = None,
           V!TakesPicture(c, v), UNCHANGED <<carried, hungUp, buttons, turn, changed>>
    PROVE  SettledInv'
<1> DEFINE p == IF v.screen = None THEN V!NextOf(c) ELSE "taking"
<1>1. /\ sent \in [Commands -> VideoCmd] /\ sent[c] \in VideoCmd /\ sent[c].ours /\ changed' \in BOOLEAN
  BY DEF VideoInv, VideoTypes, OrdersInv, OrderInv, SettledInv, TicketsInv
<1>2. /\ video' = [v EXCEPT !.screen = None]
      /\ sent' = [sent EXCEPT ![c].pc = p, ![c].took = v.screen, ![c].call = carried]
  BY DEF V!TakesPicture
<1>3. p \in {"picking", "done", "taking"} /\ (p = "picking" => sent[c].on) /\ (p = "done" => ~sent[c].on)
  BY DEF V!NextOf
<1> HIDE DEF p
<1>4. Carries(c) /\ sent'[c].pc = p /\ sent'[c].call = carried BY <1>1, <1>2, <1>3 DEF VideoCmd, Carries, Same
<1>5. /\ video'.session = carried /\ video'.camAsked = Now.camAsked /\ video'.camera = Now.camera
      /\ video'.scrAsked = sent[c].seq /\ video'.screen = None /\ video'.sound = v.sound
  BY <1>2 DEF VideoState
<1>6. Now' = video' BY <1>5 DEF Now, V!StateOf
<1>7. Answers(c)' <=> sent[c].on /\ p = "done" BY <1>4 DEF Answers, Carries, Same
<1>8. ScreenStep(c)
  BY <1>3, <1>4, <1>5, <1>6, <1>7 DEF ScreenStep, V!Ended, BegunPc, CameraPc, ScreenPc, EitherPc
<1> QED BY <1>1, <1>4, <1>5, <1>8, ScreenSettles

LEMMA ArrivesScreenSettles ==
    ASSUME VideoInv, SettledInv, NEW c \in Commands, V!ArrivesScreen(c) PROVE SettledInv'
<1>1. /\ sent[c].pc = "sent" /\ sent[c].kind = "screen" /\ UNCHANGED <<carried, hungUp, buttons, turn, changed>>
      /\ sent \in [Commands -> VideoCmd] /\ sent[c] \in VideoCmd /\ sent[c].ours /\ changed' \in BOOLEAN
  BY DEF V!ArrivesScreen, VideoInv, VideoTypes, OrdersInv, OrderInv, SettledInv, TicketsInv
<1> DEFINE v == [Now EXCEPT !.scrAsked = sent[c].seq]
<1>2. CASE carried = None
  <2>1. V!Goes(c, "failed") /\ UNCHANGED video BY <1>2 DEF V!ArrivesScreen
  <2>2. "failed" \in VideoPc /\ "failed" \notin BegunPc BY DEF VideoPc, BegunPc, CameraPc, ScreenPc, EitherPc
  <2>3. Carries(c) /\ sent'[c].pc = "failed" BY <1>1, <2>1, <2>2, GoesStep
  <2> QED BY <1>1, <1>2, <2>1, <2>2, <2>3, ScreenSettles
<1>3. ASSUME carried # None PROVE SettledInv'
  <2>1. Now.session = carried /\ Now \in VideoState
    BY <1>3, FreshState DEF VideoInv, VideoTypes, Now, V!StateOf, V!Fresh
  <2>2. /\ v \in VideoState /\ v.session = carried /\ v.camAsked = Now.camAsked /\ v.camera = Now.camera
        /\ v.scrAsked = sent[c].seq
    BY <1>1, <2>1 DEF VideoState, VideoCmd
  <2>3. ~(sent[c].seq <= Now.scrAsked)
    <3>1. c = buttons.scrTicket BY <1>1 DEF SettledInv, TicketsInv
    <3>2. Now.scrAsked < sent[c].seq BY <1>1, <1>3, <3>1 DEF SettledInv, ScreenInv, ScrTicketInv
    <3> QED BY <1>1, <2>1, <3>2 DEF VideoState, VideoCmd
  <2>4. IF v.sound # None /\ v.sound.cap # None
        THEN /\ video' = [v EXCEPT !.sound.cap = None]
             /\ sent' = [sent EXCEPT ![c].pc = "quieting", ![c].took = v.sound.cap, ![c].call = carried]
        ELSE V!TakesPicture(c, v)
    BY <1>3, <2>3 DEF V!ArrivesScreen, Now
  <2> HIDE DEF v
  <2>5. CASE v.sound # None /\ v.sound.cap # None
    <3> DEFINE r == [v.sound EXCEPT !.cap = None]
    <3>1. v.sound \in SoundState BY <2>2, <2>5 DEF VideoState
    <3>2. r.cap = None BY <3>1 DEF SoundState
    <3>3. video' = [v EXCEPT !.sound = r] BY <2>2, <2>4, <2>5 DEF VideoState
    <3> HIDE DEF r
    <3>4. /\ video'.session = carried /\ video'.camAsked = Now.camAsked /\ video'.camera = Now.camera
          /\ video'.scrAsked = sent[c].seq /\ video'.sound.cap = None
      BY <2>2, <3>2, <3>3 DEF VideoState
    <3>5. Carries(c) /\ sent'[c].pc = "quieting" /\ sent'[c].call = carried
      <4> DEFINE x == v.sound.cap
      <4>1. sent' = [sent EXCEPT ![c].pc = "quieting", ![c].took = x, ![c].call = carried] BY <2>4, <2>5
      <4> HIDE DEF x
      <4> QED BY <1>1, <4>1 DEF VideoCmd, Carries, Same
    <3>6. Now' = video' BY <1>1, <3>4 DEF Now, V!StateOf
    <3>7. ScreenStep(c) BY <3>4, <3>5, <3>6 DEF ScreenStep, V!Ended, BegunPc, ScreenPc
    <3> QED BY <1>1, <1>3, <3>4, <3>5, <3>7, ScreenSettles
  <2>6. CASE ~(v.sound # None /\ v.sound.cap # None) BY <1>1, <1>3, <2>2, <2>4, <2>6, TakesStart
  <2> QED BY <2>5, <2>6
<1> QED BY <1>2, <1>3

LEMMA QuietsSettles == ASSUME VideoInv, SettledInv, NEW c \in Commands, V!Quiets(c) PROVE SettledInv'
<1> DEFINE screen == IF V!Live(c) THEN video.screen ELSE None
           p == IF screen = None THEN V!NextOf(c) ELSE "taking"
<1>1. /\ sent[c].pc = "quieting" /\ UNCHANGED <<carried, hungUp, buttons, turn, changed>>
      /\ video' = IF V!Live(c) THEN [video EXCEPT !.screen = None] ELSE video
      /\ sent' = [sent EXCEPT ![c].pc = p, ![c].took = screen]
  BY DEF V!Quiets
<1>2. /\ sent \in [Commands -> VideoCmd] /\ sent[c] \in VideoCmd /\ sent[c].kind = "screen" /\ sent[c].pc \in BegunPc
      /\ changed' \in BOOLEAN /\ video \in VideoState
  BY <1>1, ScreenFacts DEF ScreenPc, VideoInv, VideoTypes, SettledInv, TicketsInv
<1>3. p \in {"picking", "done", "taking"} /\ (p = "picking" => sent[c].on) /\ (p = "done" => ~sent[c].on)
  BY DEF V!NextOf
<1> HIDE DEF p, screen
<1>4. Carries(c) /\ sent'[c].pc = p /\ sent'[c].call = sent[c].call BY <1>1, <1>2, <1>3 DEF VideoCmd, Carries, Same
<1>5. Answers(c)' <=> sent[c].on /\ p = "done" BY <1>4 DEF Answers, Carries, Same
<1>6. /\ video'.session = video.session /\ video'.scrAsked = video.scrAsked /\ video'.camAsked = video.camAsked
      /\ video'.camera = video.camera /\ video'.sound = video.sound /\ (V!Live(c) => video'.screen = None)
  BY <1>1, <1>2 DEF VideoState
<1>7. ASSUME carried # None
      PROVE  video'.screen = None /\ ~(video'.sound # None /\ video'.sound.cap # None) /\ video.session = carried
  <2>1. V!Live(c) /\ V!Latest(c) /\ video.session = carried BY <1>2, <1>7, SharingFacts
  <2>2. video.sound # None => video.sound.cap = None BY <1>1, <1>2, <2>1 DEF VideoInv, StateInv, SoundFree
  <2> QED BY <1>6, <2>1, <2>2
<1> QED BY <1>1, <1>2, <1>3, <1>4, <1>5, <1>6, <1>7, SharingSettles
        DEF V!Ended, BegunPc, CameraPc, ScreenPc, EitherPc

LEMMA TakesDownSettles ==
    ASSUME VideoInv, SettledInv, NEW c \in Commands, V!TakesDown(c) \/ V!Undoes(c) PROVE SettledInv'
<1>1. /\ sent[c].pc \in {"taking", "replacing", "undoing"} /\ UNCHANGED <<carried, hungUp, buttons, turn>>
      /\ video' = V!StateOf(sent[c].call) /\ changed' = (changed \/ carried = sent[c].call)
  BY DEF V!TakesDown, V!Undoes, V!TakenDown
<1>2. /\ sent[c].kind = "screen" /\ sent[c].pc \in BegunPc /\ changed \in BOOLEAN
  BY <1>1, ScreenFacts DEF ScreenPc, SettledInv, TicketsInv
<1>3. changed' \in BOOLEAN /\ (changed => changed') BY <1>1, <1>2
<1>4. PICK p \in VideoPc \ {"unused"} : V!Goes(c, p) /\ (sent[c].pc = "taking" => p = V!NextOf(c))
  BY DEF V!TakesDown, V!Undoes, V!NextOf, VideoPc, BegunPc, ScreenPc
<1>5. Carries(c) /\ sent'[c].pc = p /\ sent'[c].call = sent[c].call BY <1>1, <1>3, <1>4, GoesStep
<1>6. video'.session \in {video.session, sent[c].call} BY <1>1 DEF V!StateOf, V!Fresh
<1>7. Answers(c)' <=> sent[c].on /\ p = "done" BY <1>5 DEF Answers, Carries, Same
<1>8. ASSUME carried # None
      PROVE  /\ video' = video /\ video.session = carried /\ p = V!NextOf(c) /\ video.screen = None
             /\ ~(video.sound # None /\ video.sound.cap # None)
  <2>1. /\ video' = video /\ video.session = carried /\ sent[c].pc = "taking" /\ video.screen = None
        /\ ~(video.sound # None /\ video.sound.cap # None)
    BY <1>1, <1>2, <1>8, SharingFacts
  <2> QED BY <1>4, <2>1
<1>9. carried # None => p \in {"picking", "done"} /\ (p = "picking" => sent[c].on) /\ (p = "done" => ~sent[c].on)
  BY <1>8 DEF V!NextOf
<1> QED BY <1>1, <1>2, <1>5, <1>6, <1>7, <1>8, <1>9, SharingSettles
        DEF V!Ended, BegunPc, CameraPc, ScreenPc, EitherPc

LEMMA PicksSettles ==
    ASSUME VideoInv, SettledInv, NEW c \in Commands, V!Picks(c) \/ V!Picked(c) PROVE SettledInv'
<1>1. sent[c].pc \in {"picking", "picked"} /\ UNCHANGED <<carried, hungUp, buttons, turn, video, changed>>
  BY DEF V!Picks, V!Picked
<1>2. sent[c].kind = "screen" /\ sent[c].pc \in BegunPc /\ changed' \in BOOLEAN
      /\ sent \in [Commands -> VideoCmd] /\ sent[c] \in VideoCmd
  BY <1>1, ScreenFacts DEF ScreenPc, VideoInv, VideoTypes, SettledInv, TicketsInv
<1>3. \E p \in {"picked", "failed", "publishing", "closing"} :
        /\ sent'[c].pc = p /\ Carries(c) /\ sent'[c].call = sent[c].call
        /\ p = "closing" => ~V!Latest(c)
  <2>1. CASE V!Goes(c, "picked") \/ V!Goes(c, "failed")
    BY <1>1, <1>2, <2>1, GoesStep DEF VideoPc, BegunPc, ScreenPc
  <2>2. CASE V!Picked(c)
    <3>1. CASE V!Latest(c)
      <4>1. V!Goes(c, "publishing") BY <2>2, <3>1 DEF V!Picked, V!Goes
      <4> QED BY <1>1, <1>2, <4>1, GoesStep DEF VideoPc, BegunPc, EitherPc
    <3>2. CASE ~V!Latest(c)
      <4>1. sent' = [sent EXCEPT ![c].pc = "closing", ![c].took = c] BY <2>2, <3>2 DEF V!Picked
      <4> QED BY <1>1, <1>2, <3>2, <4>1 DEF VideoCmd, Carries, Same
    <3> QED BY <3>1, <3>2
  <2> QED BY <2>1, <2>2 DEF V!Picks
<1>4. PICK p \in {"picked", "failed", "publishing", "closing"} :
        /\ sent'[c].pc = p /\ Carries(c) /\ sent'[c].call = sent[c].call
        /\ p = "closing" => ~V!Latest(c)
  BY <1>3
<1>5. Answers(c)' <=> FALSE BY <1>4 DEF Answers
<1>6. ASSUME carried # None
      PROVE  /\ video.session = carried /\ p # "closing" /\ video.screen = None /\ sent[c].on
             /\ ~(video.sound # None /\ video.sound.cap # None)
  BY <1>1, <1>2, <1>4, <1>6, SharingFacts
<1> QED BY <1>1, <1>2, <1>4, <1>5, <1>6, SharingSettles DEF V!Ended, BegunPc, CameraPc, ScreenPc, EitherPc

LEMMA PublishesScreenSettles ==
    ASSUME VideoInv, SettledInv, NEW c \in Commands, V!PublishesScreen(c) PROVE SettledInv'
<1>1. /\ sent[c].pc = "publishing" /\ sent[c].kind = "screen" /\ UNCHANGED <<carried, hungUp, buttons, turn, video>>
  BY DEF V!PublishesScreen
<1>2. sent[c].pc \in BegunPc /\ changed \in BOOLEAN /\ sent \in [Commands -> VideoCmd] /\ sent[c] \in VideoCmd
  BY <1>1, ScreenFacts DEF EitherPc, VideoInv, VideoTypes, SettledInv, TicketsInv
<1>3. changed' \in BOOLEAN /\ (changed => changed') BY <1>2 DEF V!PublishesScreen
<1> DEFINE p == IF ~V!Latest(c) THEN "replacing" ELSE IF sent[c].sound THEN "sounding" ELSE "storing"
           x == IF V!Latest(c) THEN sent[c].took ELSE c
           f == V!Latest(c) /\ video.sound = None
<1>4. \E q \in {"replacing", "sounding", "storing", "refused"} :
        /\ sent'[c].pc = q /\ Carries(c) /\ sent'[c].call = sent[c].call
        /\ q = "replacing" => ~V!Latest(c)
  <2>1. CASE sent' = [sent EXCEPT ![c].pc = p, ![c].took = x, ![c].first = f]
    <3>1. p \in {"replacing", "sounding", "storing"} /\ (p = "replacing" => ~V!Latest(c)) OBVIOUS
    <3> HIDE DEF p, x, f
    <3>2. sent'[c].pc = p /\ Carries(c) /\ sent'[c].call = sent[c].call
      BY <1>1, <1>2, <1>3, <2>1, <3>1 DEF VideoCmd, Carries, Same
    <3> QED BY <3>1, <3>2
  <2>2. CASE sent' = [sent EXCEPT ![c].pc = "refused", ![c].took = c]
    BY <1>1, <1>2, <1>3, <2>2 DEF VideoCmd, Carries, Same
  <2>3. \/ sent' = [sent EXCEPT ![c].pc = p, ![c].took = x, ![c].first = f]
        \/ sent' = [sent EXCEPT ![c].pc = "refused", ![c].took = c]
    <3>1. CASE V!Latest(c) BY <1>2, <3>1 DEF V!PublishesScreen, VideoCmd
    <3>2. CASE ~V!Latest(c) BY <3>2 DEF V!PublishesScreen
    <3> QED BY <3>1, <3>2
  <2> QED BY <2>1, <2>2, <2>3
<1>5. PICK q \in {"replacing", "sounding", "storing", "refused"} :
        /\ sent'[c].pc = q /\ Carries(c) /\ sent'[c].call = sent[c].call
        /\ q = "replacing" => ~V!Latest(c)
  BY <1>4
<1>6. ASSUME carried # None
      PROVE  /\ video.session = carried /\ q # "replacing" /\ video.screen = None /\ sent[c].on
             /\ ~(video.sound # None /\ video.sound.cap # None)
  BY <1>1, <1>2, <1>5, <1>6, SharingFacts
<1> QED BY <1>1, <1>2, <1>5, <1>6, SharingSettles DEF V!Ended, BegunPc, CameraPc, ScreenPc, EitherPc

LEMMA SoundsSettles ==
    ASSUME VideoInv, SettledInv, NEW c \in Commands, V!Sounds(c) \/ V!Quells(c) PROVE SettledInv'
<1>1. sent[c].pc \in {"sounding", "quelling"} /\ UNCHANGED <<carried, hungUp, buttons, turn, video, changed>>
  BY DEF V!Sounds, V!Quells
<1>2. sent[c].kind = "screen" /\ sent[c].pc \in BegunPc /\ changed' \in BOOLEAN
  BY <1>1, ScreenFacts DEF ScreenPc, SettledInv, TicketsInv
<1>3. PICK p \in {"sounded", "storing"} : V!Goes(c, p) BY DEF V!Sounds, V!Quells
<1>4. Carries(c) /\ sent'[c].pc = p /\ sent'[c].call = sent[c].call
  BY <1>1, <1>2, <1>3, GoesStep DEF VideoPc, BegunPc, ScreenPc
<1>5. ASSUME carried # None
      PROVE  /\ video.session = carried /\ video.screen = None /\ sent[c].on
             /\ ~(video.sound # None /\ video.sound.cap # None)
  BY <1>1, <1>2, <1>5, SharingFacts
<1> QED BY <1>1, <1>2, <1>4, <1>5, SharingSettles DEF V!Ended, BegunPc, CameraPc, ScreenPc, EitherPc

LEMMA KeepsSoundSettles ==
    ASSUME VideoInv, SettledInv, NEW c \in Commands, V!KeepsSound(c) PROVE SettledInv'
<1> DEFINE keep == V!Latest(c) /\ (sent[c].first <=> video.sound = None)
<1>1. sent[c].pc = "sounded" /\ UNCHANGED <<carried, hungUp, buttons, turn, changed>> BY DEF V!KeepsSound
<1>2. /\ sent[c].kind = "screen" /\ sent[c].pc \in BegunPc /\ changed' \in BOOLEAN /\ video \in VideoState
  BY <1>1, ScreenFacts DEF ScreenPc, VideoInv, VideoTypes, SettledInv, TicketsInv
<1>3. PICK p \in {"storing", "quelling"} :
        /\ V!Goes(c, p)
        /\ \/ keep /\ p = "storing"
           \/ ~keep /\ sent[c].first /\ V!Live(c) /\ video.sound = None
           \/ video' = video
  BY DEF V!KeepsSound
<1>4. Carries(c) /\ sent'[c].pc = p /\ sent'[c].call = sent[c].call
  BY <1>1, <1>2, <1>3, GoesStep DEF VideoPc, BegunPc, ScreenPc
<1>5. /\ video'.session = video.session /\ video'.scrAsked = video.scrAsked /\ video'.camAsked = video.camAsked
      /\ video'.camera = video.camera /\ video'.screen = video.screen
  BY <1>2 DEF V!KeepsSound, VideoState
<1>6. ASSUME carried # None
      PROVE  /\ video.session = carried /\ video.screen = None /\ sent[c].on
             /\ video'.sound # None /\ video'.sound.cap # None => p = "storing"
  <2>1. /\ video.session = carried /\ video.screen = None /\ sent[c].on /\ V!Latest(c)
        /\ ~(video.sound # None /\ video.sound.cap # None)
    BY <1>1, <1>2, <1>6, SharingFacts
  <2> QED BY <1>3, <2>1
<1> QED BY <1>1, <1>2, <1>3, <1>4, <1>5, <1>6, SharingSettles DEF V!Ended, BegunPc, CameraPc, ScreenPc, EitherPc

LEMMA StoresSettles == ASSUME VideoInv, SettledInv, NEW c \in Commands, V!Stores(c) PROVE SettledInv'
<1>1. sent[c].pc = "storing" /\ UNCHANGED <<carried, hungUp, buttons, turn, changed>> BY DEF V!Stores
<1>2. /\ sent[c].kind = "screen" /\ sent[c].pc \in BegunPc /\ changed' \in BOOLEAN /\ video \in VideoState
      /\ sent \in [Commands -> VideoCmd] /\ sent[c] \in VideoCmd
  BY <1>1, ScreenFacts DEF ScreenPc, VideoInv, VideoTypes, SettledInv, TicketsInv
<1>3. CASE V!Latest(c)
  <2> DEFINE p == IF video.screen = None THEN "done" ELSE "replacing"
             x == video.screen
  <2>1. video' = [video EXCEPT !.screen = c] /\ sent' = [sent EXCEPT ![c].pc = p, ![c].took = x]
    BY <1>3 DEF V!Stores
  <2>2. p \in {"done", "replacing"} /\ (video.screen = None => p = "done") OBVIOUS
  <2> HIDE DEF p, x
  <2>3. Carries(c) /\ sent'[c].pc = p /\ sent'[c].call = sent[c].call
    BY <1>1, <1>2, <2>1, <2>2 DEF VideoCmd, Carries, Same
  <2>4. /\ video'.session = video.session /\ video'.scrAsked = video.scrAsked /\ video'.camAsked = video.camAsked
        /\ video'.camera = video.camera /\ video'.screen = c /\ c # None
    BY <1>2, <2>1, VideoAssumption DEF VideoState
  <2>5. Answers(c)' <=> sent[c].on /\ p = "done" BY <2>3 DEF Answers, Carries, Same
  <2>6. carried # None => video.session = carried /\ p = "done" /\ sent[c].on
    BY <1>1, <1>2, <2>2, SharingFacts
  <2> QED BY <1>1, <1>2, <2>3, <2>4, <2>5, <2>6, SharingSettles DEF V!Ended, BegunPc, CameraPc, ScreenPc, EitherPc
<1>4. CASE ~V!Latest(c)
  <2>1. V!Goes(c, "undoing") /\ video' = video BY <1>4 DEF V!Stores
  <2>2. Carries(c) /\ sent'[c].pc = "undoing" /\ sent'[c].call = sent[c].call
    BY <1>1, <1>2, <2>1, GoesStep DEF VideoPc, BegunPc, ScreenPc
  <2>3. carried = None BY <1>2, <1>4, SharingFacts
  <2> QED BY <1>1, <1>2, <2>1, <2>2, <2>3, SharingSettles
<1> QED BY <1>3, <1>4

LEMMA HushesSettles == ASSUME VideoInv, SettledInv, NEW c \in Commands, V!Hushes(c) PROVE SettledInv'
<1>1. sent[c].pc = "hushing" /\ V!Goes(c, "done") /\ UNCHANGED <<carried, hungUp, buttons, turn, changed>> BY DEF V!Hushes
<1>2. /\ sent[c].kind = "screen" /\ sent[c].pc \in BegunPc /\ changed' \in BOOLEAN /\ video \in VideoState
  BY <1>1, ScreenFacts DEF ScreenPc, VideoInv, VideoTypes, SettledInv, TicketsInv
<1>3. Carries(c) /\ sent'[c].pc = "done" /\ sent'[c].call = sent[c].call
  BY <1>1, <1>2, GoesStep DEF VideoPc
<1>4. video'.session = video.session BY <1>2 DEF V!Hushes, VideoState
<1>5. carried = None BY <1>1, <1>2, SharingFacts
<1> QED BY <1>1, <1>2, <1>3, <1>4, <1>5, SharingSettles

\* Closes is of both kinds: a share's closes for a publication refused.
LEMMA VideoClosesSettles == ASSUME VideoInv, SettledInv, NEW c \in Commands, V!Closes(c) PROVE SettledInv'
<1> DEFINE p == IF sent[c].pc = "refused" THEN "failed" ELSE "done"
<1>1. /\ sent[c].pc \in {"closing", "refused", "shutting"} /\ V!Ends(c, p)
      /\ UNCHANGED <<carried, hungUp, buttons, changed>>
      /\ video' = IF sent[c].pc = "shutting" THEN V!StateOf(sent[c].call) ELSE video
      /\ p \in V!Ended
  BY DEF V!Closes, V!Ended
<1>2. /\ sent[c].pc \in BegunPc /\ changed' \in BOOLEAN /\ sent \in [Commands -> VideoCmd] /\ sent[c] \in VideoCmd
  BY <1>1 DEF BegunPc, CameraPc, EitherPc, VideoInv, VideoTypes, SettledInv, TicketsInv
<1>3. (p = "failed" <=> sent[c].pc = "refused") /\ (p = "done" <=> sent[c].pc # "refused") OBVIOUS
<1> HIDE DEF p
<1>4. CASE sent[c].kind = "camera"
  <2>1. Filming(c) /\ V!HasTurn(c) BY <1>1, <1>2, <1>4, BegunFacts DEF Filming, CameraPc, EitherPc
  <2>2. ASSUME carried # None, Asked(c) PROVE ((sent[c].on /\ p = "done") <=> Films(video)) /\ Shows(video)
    <3>1. Now = video /\ RunInv(c) BY <2>1, <2>2, FilmingFacts
    <3>2. sent[c].pc \notin {"waiting"} \cup OpeningPc BY <1>1 DEF OpeningPc
    <3>3. Shows(video) BY <2>1, <2>2, <3>2, AskedShows
    <3>4. CASE sent[c].pc = "refused"
      <4>1. video.camera = None BY <2>1, <3>1, <3>4 DEF RunInv
      <4> QED BY <1>3, <3>3, <3>4, <4>1 DEF Films
    <3>5. CASE sent[c].pc = "closing" BY <1>3, <2>1, <2>2, <3>1, <3>3, <3>5 DEF RunInv
    <3> QED BY <1>1, <2>1, <2>2, <3>1, <3>4, <3>5 DEF RunInv
  <2> QED BY <1>1, <2>1, <2>2, EndsSettled
<1>5. CASE sent[c].kind # "camera"
  <2>1. sent[c].kind = "screen" /\ turn' = turn /\ sent' = [sent EXCEPT ![c].pc = p, ![c].took = None]
    BY <1>1, <1>2, <1>5 DEF V!Ends, VideoCmd
  <2>2. Carries(c) /\ sent'[c].pc = p /\ sent'[c].call = sent[c].call
    BY <1>1, <1>2, <2>1 DEF VideoCmd, Carries, Same, V!Ended
  <2>3. video'.session \in {video.session, sent[c].call} BY <1>1 DEF V!StateOf, V!Fresh
  <2>4. Answers(c)' <=> sent[c].on /\ p = "done" BY <2>2 DEF Answers, Carries, Same
  <2>5. ASSUME carried # None
        PROVE  /\ video' = video /\ video.session = carried /\ p = "failed" /\ video.screen = None
               /\ ~(video.sound # None /\ video.sound.cap # None)
    BY <1>1, <1>2, <1>3, <2>1, <2>5, SharingFacts
  <2>6. p \notin BegunPc BY <1>1 DEF V!Ended, BegunPc, CameraPc, ScreenPc, EitherPc
  <2> QED BY <1>1, <1>2, <2>1, <2>2, <2>3, <2>4, <2>5, <2>6, SharingSettles
<1> QED BY <1>4, <1>5

-----------------------------------------------------------------------------
(* The page.                                                               *)

LEMMA AskFacts ==
    ASSUME VideoInv, SettledInv, NEW c \in Commands, NEW kind \in {"camera", "screen"}, NEW on, NEW dev, NEW sound,
           V!Ask(c, kind, on, dev, sound)
    PROVE  /\ sent[c].pc = "unused" /\ ~sent[c].ours
           /\ \A b \in Commands : b # c => sent'[b] = sent[b]
           /\ sent'[c].pc = "sent" /\ sent'[c].kind = kind /\ sent'[c].seq = buttons.seq + 1 /\ sent'[c].ours
           /\ ~sent'[c].muted /\ buttons.seq \in Nat
           /\ \A b \in Commands : (Filming(b)' <=> Filming(b)) /\ (Filming(b) => sent'[b] = sent[b])
<1> DEFINE r == [V!NoCmd EXCEPT !.pc = "sent", !.kind = kind, !.on = on, !.dev = dev, !.sound = sound,
                                !.seq = buttons.seq + 1, !.ours = TRUE]
<1>1. sent[c].pc = "unused" /\ sent' = [sent EXCEPT ![c] = r] BY DEF V!Ask, V!Unused
<1>2. sent \in [Commands -> VideoCmd] /\ buttons.seq \in Nat BY DEF VideoInv, VideoTypes, ButtonState
<1>3. r.pc = "sent" /\ r.kind = kind /\ r.seq = buttons.seq + 1 /\ r.ours /\ ~r.muted BY DEF V!NoCmd
<1> HIDE DEF r
<1>4. (\A b \in Commands : b # c => sent'[b] = sent[b]) /\ sent'[c] = r BY <1>1, <1>2
<1>5. ~sent[c].ours BY <1>1 DEF SettledInv, TicketsInv
<1>6. ~Filming(c) /\ ~Filming(c)' BY <1>1, <1>3, <1>4 DEF Filming, BegunPc, CameraPc, ScreenPc, EitherPc
<1>7. \A b \in Commands : (Filming(b)' <=> Filming(b)) /\ (Filming(b) => sent'[b] = sent[b]) BY <1>4, <1>6 DEF Filming
<1> QED BY <1>1, <1>2, <1>3, <1>4, <1>5, <1>7

LEMMA AskCameraSettles ==
    ASSUME VideoInv, SettledInv, NEW c \in Commands, NEW on, NEW dev, V!Ask(c, "camera", on, dev, FALSE),
           buttons'.camTicket = c, buttons'.seq = buttons.seq + 1, buttons'.call = buttons.call,
           buttons'.scr = buttons.scr, buttons'.scrTicket = buttons.scrTicket,
           UNCHANGED <<carried, hungUp, video, turn, changed>>
    PROVE  SettledInv'
<1>1. /\ sent[c].pc = "unused" /\ ~sent[c].ours
      /\ \A b \in Commands : b # c => sent'[b] = sent[b]
      /\ sent'[c].pc = "sent" /\ sent'[c].kind = "camera" /\ sent'[c].seq = buttons.seq + 1 /\ sent'[c].ours
      /\ ~sent'[c].muted /\ buttons.seq \in Nat
      /\ \A b \in Commands : (Filming(b)' <=> Filming(b)) /\ (Filming(b) => sent'[b] = sent[b])
  BY AskFacts
<1>2. TicketsInv /\ QueueInv /\ CameraInv /\ ScreenInv /\ turn \in Seq(Commands)
  BY DEF SettledInv, VideoInv, VideoTypes
<1>3. \A b \in Commands : sent[b].ours => sent[b].seq <= buttons.seq /\ sent[b].seq \in Nat
  BY DEF VideoInv, VideoTypes, OrdersInv, OrderInv, VideoCmd
<1>4. Now' = Now BY DEF Now, V!StateOf
<1>5. \A b \in Commands : b # c => (Asked(b)' <=> Asked(b)) BY <1>1, <1>4 DEF Asked
<1>6. "sent" \notin BegunPc BY DEF BegunPc, CameraPc, ScreenPc, EitherPc
<1>7. TicketsInv'
  <2>1. \A b \in Commands : ~sent'[b].muted /\ (sent'[b].pc = "unused" => ~sent'[b].ours) BY <1>1, <1>2 DEF TicketsInv
  <2>2. \A b \in Commands : sent'[b].pc \in BegunPc => hungUp'[sent'[b].call] # "unborn" /\ (carried' # None => V!Live(b)')
    BY <1>1, <1>2, <1>6 DEF TicketsInv, V!Live
  <2>3. \A b \in Commands : b = buttons'.camTicket => Waits(b)' /\ \A a \in Commands : Waits(a)' => sent'[a].seq <= sent'[b].seq
    BY <1>1, <1>3 DEF Waits
  <2>4. \A b \in Commands : b = buttons'.scrTicket <=> sent'[b].ours /\ sent'[b].kind = "screen"
    BY <1>1, <1>2 DEF TicketsInv
  <2> QED BY <1>2, <2>1, <2>2, <2>3, <2>4 DEF TicketsInv
<1>8. QueueInv' BY <1>1, <1>2, QueueStays
<1>9. ScreenInv'
  <2>1. \A b \in Commands : b = buttons.scrTicket => sent'[b] = sent[b] BY <1>1, <1>2 DEF TicketsInv
  <2>2. buttons.seq <= buttons'.seq /\ buttons'.seq \in Nat BY <1>1
  <2> QED BY <1>2, <1>4, <2>1, <2>2, ScreenRests
<1>10. CameraInv'
  <2> SUFFICES ASSUME carried # None PROVE CameraInv' BY DEF CameraInv
  <2>1. Now.camAsked \in Nat BY FreshState DEF VideoInv, VideoTypes, VideoState, Now, V!StateOf
  <2>2. Now.camAsked <= buttons.seq BY <1>2 DEF CameraInv
  <2>3. Now'.camAsked <= buttons'.seq /\ Now'.camAsked < sent'[c].seq BY <1>1, <1>4, <2>1, <2>2
  <2>4. Films(Now)' <=> Films(Now) BY <1>4 DEF Films
  <2>5. ~Filming(c) BY <1>1, <1>6 DEF Filming
  <2>6. \A b \in Commands : RunInv(b)'
    <3> SUFFICES ASSUME NEW b \in Commands, Filming(b)' PROVE RunInv(b)' BY DEF RunInv
    <3>1. RunInv(b) /\ Filming(b) /\ sent'[b] = sent[b] /\ (Asked(b)' <=> Asked(b)) BY <1>1, <1>2, <1>5, <2>5 DEF CameraInv
    <3> QED BY <1>4, <2>4, <3>1 DEF RunInv
  <2>7. (\E b \in Commands : Filming(b)') => \E b \in Commands : Filming(b)' /\ Asked(b)'
    BY <1>1, <1>2, <1>5, <2>5 DEF CameraInv
  <2>8. \A b \in Commands : b = buttons'.camTicket => CamTicketInv(b)' /\ sent'[b].pc \notin V!Ended
    BY <1>1, <2>3 DEF CamTicketInv, V!Ended
  <2>9. ButtonInv' BY VideoAssumption DEF ButtonInv
  <2>10. SeenInv'
    <3>1. SeenInv BY <1>2 DEF CameraInv
    <3> QED BY <1>1, <1>4, <1>5, <2>5, <3>1 DEF SeenInv
  <2> QED BY <2>3, <2>6, <2>7, <2>8, <2>9, <2>10 DEF CameraInv
<1> QED BY <1>7, <1>8, <1>9, <1>10 DEF SettledInv

LEMMA AskScreenSettles ==
    ASSUME VideoInv, SettledInv, NEW c \in Commands, NEW on, NEW sound, V!Ask(c, "screen", on, None, sound),
           ~V!Busy("screen"), buttons'.scrTicket = c, buttons'.seq = buttons.seq + 1, buttons'.call = buttons.call,
           buttons'.cam = buttons.cam, buttons'.camTicket = buttons.camTicket,
           UNCHANGED <<carried, hungUp, video, turn, changed>>
    PROVE  SettledInv'
<1>1. /\ sent[c].pc = "unused" /\ ~sent[c].ours
      /\ \A b \in Commands : b # c => sent'[b] = sent[b]
      /\ sent'[c].pc = "sent" /\ sent'[c].kind = "screen" /\ sent'[c].seq = buttons.seq + 1 /\ sent'[c].ours
      /\ ~sent'[c].muted /\ buttons.seq \in Nat
      /\ \A b \in Commands : (Filming(b)' <=> Filming(b)) /\ (Filming(b) => sent'[b] = sent[b])
  BY AskFacts
<1>2. TicketsInv /\ QueueInv /\ CameraInv /\ ScreenInv /\ turn \in Seq(Commands)
  BY DEF SettledInv, VideoInv, VideoTypes
<1>3. \A b \in Commands : ~(sent[b].ours /\ sent[b].kind = "screen") BY DEF V!Busy
<1>4. Now' = Now BY DEF Now, V!StateOf
<1>5. "sent" \notin BegunPc BY DEF BegunPc, CameraPc, ScreenPc, EitherPc
<1>6. TicketsInv'
  <2>1. \A b \in Commands : ~sent'[b].muted /\ (sent'[b].pc = "unused" => ~sent'[b].ours) BY <1>1, <1>2 DEF TicketsInv
  <2>2. \A b \in Commands : sent'[b].pc \in BegunPc => hungUp'[sent'[b].call] # "unborn" /\ (carried' # None => V!Live(b)')
    BY <1>1, <1>2, <1>5 DEF TicketsInv, V!Live
  <2>3. \A b \in Commands : b = buttons'.camTicket => Waits(b)' /\ \A a \in Commands : Waits(a)' => sent'[a].seq <= sent'[b].seq
    BY <1>1, <1>2 DEF Waits, TicketsInv
  <2>4. \A b \in Commands : b = buttons'.scrTicket <=> sent'[b].ours /\ sent'[b].kind = "screen"
    BY <1>1, <1>3
  <2> QED BY <1>2, <2>1, <2>2, <2>3, <2>4 DEF TicketsInv
<1>7. QueueInv' BY <1>1, <1>2, QueueStays
<1>8. CameraInv'
  <2>1. \A b \in Commands : b = buttons.camTicket => sent[b].kind = "camera" /\ sent[b].ours BY <1>2 DEF TicketsInv, Waits
  <2>2. buttons.seq <= buttons'.seq /\ buttons'.seq \in Nat BY <1>1
  <2>3. \A b \in Commands : sent'[b] = sent[b] \/ (sent[b].pc = "unused" /\ ~sent[b].ours /\ sent'[b].kind = "screen")
    BY <1>1
  <2> QED BY <1>2, <1>4, <2>1, <2>2, <2>3, CameraRests
<1>9. ScreenInv'
  <2> SUFFICES ASSUME carried # None PROVE ScreenInv' BY DEF ScreenInv
  <2>1. Now.scrAsked \in Nat BY FreshState DEF VideoInv, VideoTypes, VideoState, Now, V!StateOf
  <2>2. Now.scrAsked <= buttons.seq BY <1>2 DEF ScreenInv
  <2>3. Now'.scrAsked <= buttons'.seq /\ Now'.scrAsked < sent'[c].seq BY <1>1, <1>4, <2>1, <2>2
  <2>4. ScrTicketInv(c)' BY <1>1, <1>5, <2>3 DEF ScrTicketInv, V!Ended
  <2>5. Now.sound # None /\ Now.sound.cap # None => Now.screen # None BY <1>2, <1>3 DEF ScreenInv, TicketsInv
  <2> QED BY <1>4, <2>3, <2>4, <2>5, VideoAssumption DEF ScreenInv
<1> QED BY <1>6, <1>7, <1>8, <1>9 DEF SettledInv

LEMMA PressesSettle ==
    ASSUME VideoInv, SettledInv,
           V!PressCamera \/ (\E d \in Cameras : V!PickCamera(d)) \/ (\E sound \in BOOLEAN : V!PressScreen(sound))
    PROVE  SettledInv'
<1>1. UNCHANGED <<carried, hungUp, video, turn, changed>> BY DEF V!PressCamera, V!PickCamera, V!PressScreen
<1>2. buttons \in ButtonState BY DEF VideoInv, VideoTypes
<1>3. CASE V!PressCamera
  <2> DEFINE on == IF buttons.camTicket # None THEN ~sent[buttons.camTicket].on ELSE ~buttons.cam
             dev == IF on THEN buttons.dev ELSE None
  <2>1. PICK c \in Commands : V!Ask(c, "camera", on, dev, FALSE) /\ buttons' = [buttons EXCEPT !.camTicket = c, !.seq = @ + 1]
    BY <1>3 DEF V!PressCamera
  <2> HIDE DEF on, dev
  <2>2. /\ buttons'.camTicket = c /\ buttons'.seq = buttons.seq + 1 /\ buttons'.call = buttons.call
        /\ buttons'.scr = buttons.scr /\ buttons'.scrTicket = buttons.scrTicket
    BY <1>2, <2>1 DEF ButtonState
  <2> QED BY <1>1, <2>1, <2>2, AskCameraSettles
<1>4. ASSUME NEW d \in Cameras, V!PickCamera(d) PROVE SettledInv'
  <2>1. CASE sent' = sent /\ buttons' = [buttons EXCEPT !.dev = d]
    <3>1. /\ buttons'.camTicket = buttons.camTicket /\ buttons'.seq = buttons.seq /\ buttons'.call = buttons.call
          /\ buttons'.scr = buttons.scr /\ buttons'.scrTicket = buttons.scrTicket /\ buttons'.cam = buttons.cam
      BY <1>2, <2>1 DEF ButtonState
    <3> QED BY <1>1, <2>1, <3>1
            DEF SettledInv, TicketsInv, QueueInv, CameraInv, ScreenInv, Waits, Filming, Now, Asked, Answers, Films, V!Live,
                V!StateOf, RunInv, CamTicketInv, SeenInv, ButtonInv, ScrTicketInv
  <2>2. ASSUME NEW c \in Commands, V!Ask(c, "camera", TRUE, d, FALSE),
               buttons' = [buttons EXCEPT !.dev = d, !.camTicket = c, !.seq = @ + 1]
        PROVE  SettledInv'
    <3>1. /\ buttons'.camTicket = c /\ buttons'.seq = buttons.seq + 1 /\ buttons'.call = buttons.call
          /\ buttons'.scr = buttons.scr /\ buttons'.scrTicket = buttons.scrTicket
      BY <1>2, <2>2 DEF ButtonState
    <3>2. \E on, dev : on = TRUE /\ dev = d /\ V!Ask(c, "camera", on, dev, FALSE) BY <2>2
    <3> QED BY <1>1, <3>1, <3>2, AskCameraSettles
  <2> QED BY <1>4, <2>1, <2>2 DEF V!PickCamera
<1>5. ASSUME NEW sound \in BOOLEAN, V!PressScreen(sound) PROVE SettledInv'
  <2> DEFINE on == ~buttons.scr
  <2>1. PICK c \in Commands : V!Ask(c, "screen", on, None, sound) /\ buttons' = [buttons EXCEPT !.scrTicket = c, !.seq = @ + 1]
    BY <1>5 DEF V!PressScreen
  <2> HIDE DEF on
  <2>2. /\ buttons'.scrTicket = c /\ buttons'.seq = buttons.seq + 1 /\ buttons'.call = buttons.call
        /\ buttons'.cam = buttons.cam /\ buttons'.camTicket = buttons.camTicket
    BY <1>2, <2>1 DEF ButtonState
  <2>3. ~V!Busy("screen") BY <1>5 DEF V!PressScreen
  <2> QED BY <1>1, <2>1, <2>2, <2>3, AskScreenSettles
<1> QED BY <1>3, <1>4, <1>5

LEMMA VideoAnsweredSettles == ASSUME VideoInv, SettledInv, NEW c \in Commands, V!Answered(c) PROVE SettledInv'
<1> DEFINE on == sent[c].on /\ sent[c].pc = "done"
<1>1. /\ sent[c].ours /\ sent[c].pc \in V!Ended /\ sent' = [sent EXCEPT ![c] = V!Over]
      /\ buttons' = IF c = buttons.camTicket THEN [buttons EXCEPT !.cam = on, !.camTicket = None]
                    ELSE IF c = buttons.scrTicket THEN [buttons EXCEPT !.scr = on, !.scrTicket = None]
                    ELSE buttons
      /\ UNCHANGED <<carried, hungUp, video, turn, changed>>
  BY DEF V!Answered
<1>2. /\ TicketsInv /\ QueueInv /\ CameraInv /\ ScreenInv /\ turn \in Seq(Commands)
      /\ sent \in [Commands -> VideoCmd] /\ buttons \in ButtonState
  BY DEF SettledInv, VideoInv, VideoTypes
<1>3. V!Over.pc = "done" /\ ~V!Over.ours /\ ~V!Over.muted BY DEF V!Over, V!NoCmd
<1>4. /\ \A b \in Commands : b # c => sent'[b] = sent[b]
      /\ sent'[c].pc = "done" /\ ~sent'[c].ours /\ ~sent'[c].muted
  BY <1>1, <1>2, <1>3
<1>5. ~Filming(c) /\ ~Filming(c)' /\ on = Answers(c)
  BY <1>1, <1>4 DEF Filming, V!Ended, BegunPc, CameraPc, ScreenPc, EitherPc, Answers
<1> HIDE DEF on
<1>6. /\ buttons'.seq = buttons.seq /\ buttons'.call = buttons.call
      /\ c = buttons.camTicket => /\ buttons'.cam = on /\ buttons'.camTicket = None
                                  /\ buttons'.scr = buttons.scr /\ buttons'.scrTicket = buttons.scrTicket
      /\ c # buttons.camTicket => buttons'.cam = buttons.cam /\ buttons'.camTicket = buttons.camTicket
      /\ c # buttons.camTicket /\ c # buttons.scrTicket => buttons' = buttons
      /\ c # buttons.camTicket /\ c = buttons.scrTicket => buttons'.scr = on /\ buttons'.scrTicket = None
  BY <1>1, <1>2 DEF ButtonState
<1>7. c = buttons.camTicket => c # buttons.scrTicket BY <1>2 DEF TicketsInv, Waits
<1>8. Now' = Now BY <1>1 DEF Now, V!StateOf
<1>9. \A b \in Commands : (Filming(b)' <=> Filming(b)) /\ (Filming(b) => b # c) BY <1>4, <1>5 DEF Filming
<1>10. "done" \notin BegunPc BY DEF BegunPc, CameraPc, ScreenPc, EitherPc
<1>11. \A b \in Commands : Waits(b)' => Waits(b) /\ b # c BY <1>4 DEF Waits
<1>12. TicketsInv'
  <2>1. \A b \in Commands : ~sent'[b].muted /\ (sent'[b].pc = "unused" => ~sent'[b].ours) BY <1>2, <1>4 DEF TicketsInv
  <2>2. \A b \in Commands : sent'[b].pc \in BegunPc => hungUp'[sent'[b].call] # "unborn" /\ (carried' # None => V!Live(b)')
    BY <1>1, <1>2, <1>4, <1>10 DEF TicketsInv, V!Live
  <2>3. ASSUME NEW b \in Commands, b = buttons'.camTicket
        PROVE  Waits(b)' /\ \A a \in Commands : Waits(a)' => sent'[a].seq <= sent'[b].seq
    <3>1. c # buttons.camTicket /\ b = buttons.camTicket /\ b # c BY <1>6, <2>3, VideoAssumption
    <3>2. sent'[b] = sent[b] /\ Waits(b) BY <1>2, <1>4, <3>1 DEF TicketsInv
    <3> QED BY <1>2, <1>4, <1>11, <3>1, <3>2 DEF TicketsInv, Waits
  <2>4. \A b \in Commands : b = buttons'.scrTicket <=> sent'[b].ours /\ sent'[b].kind = "screen"
    <3>1. \A b \in Commands : b = buttons.scrTicket <=> sent[b].ours /\ sent[b].kind = "screen" BY <1>2 DEF TicketsInv
    <3>2. CASE c = buttons.scrTicket
      <4>1. buttons'.scrTicket = None BY <1>6, <1>7, <3>2
      <4> QED BY <1>4, <3>1, <3>2, <4>1, VideoAssumption
    <3>3. CASE c # buttons.scrTicket
      <4>1. buttons'.scrTicket = buttons.scrTicket BY <1>6, <3>3
      <4> QED BY <1>4, <3>1, <3>3, <4>1
    <3> QED BY <3>2, <3>3
  <2> QED BY <1>1, <1>2, <1>6, <2>1, <2>2, <2>3, <2>4 DEF TicketsInv
<1>13. QueueInv'
  <2>1. \A b \in Commands : (Filming(b)' <=> Filming(b)) /\ (Filming(b) => sent'[b].seq = sent[b].seq) BY <1>4, <1>9
  <2> QED BY <1>1, <1>2, <2>1, QueueStays
<1>14. CameraInv'
  <2> SUFFICES ASSUME carried # None PROVE CameraInv' BY <1>1 DEF CameraInv
  <2>1. Films(Now)' <=> Films(Now) BY <1>8 DEF Films
  <2>2. \A b \in Commands : b # c => sent'[b] = sent[b] /\ (Asked(b)' <=> Asked(b)) BY <1>4, <1>8 DEF Asked
  <2>3. Now'.camAsked <= buttons'.seq BY <1>2, <1>6, <1>8 DEF CameraInv
  <2>4. \A b \in Commands : RunInv(b)'
    <3> SUFFICES ASSUME NEW b \in Commands, Filming(b)' PROVE RunInv(b)' BY DEF RunInv
    <3>1. RunInv(b) /\ Filming(b) /\ b # c BY <1>2, <1>9 DEF CameraInv
    <3> QED BY <1>8, <2>1, <2>2, <3>1 DEF RunInv
  <2>5. SeenInv'
    <3>1. SeenInv BY <1>2 DEF CameraInv
    <3> QED BY <1>1, <1>8, <1>9, <2>2, <3>1 DEF SeenInv
  <2>6. CASE c = buttons.camTicket
    <3>1. CamTicketInv(c) BY <1>2, <2>6 DEF CameraInv
    <3>2. Asked(c) /\ (Answers(c) <=> Films(Now)) BY <1>1, <3>1 DEF CamTicketInv, V!Ended
    <3>3. \A b \in Commands : ~Filming(b) BY <1>1, <1>2, <2>6 DEF CameraInv
    <3>4. ButtonInv'
      <4>1. ASSUME NEW b \in Commands, Waits(b)' PROVE sent'[b].seq <= Now'.camAsked
        <5>1. Waits(b) /\ b # c BY <1>11, <4>1
        <5>2. sent[b].seq <= sent[c].seq BY <1>2, <2>6, <5>1 DEF TicketsInv
        <5> QED BY <1>8, <2>2, <3>2, <5>1, <5>2 DEF Asked
      <4> QED BY <1>5, <1>6, <2>1, <2>6, <3>2, <4>1 DEF ButtonInv
    <3>5. \A b \in Commands : b # buttons'.camTicket BY <1>6, <2>6, VideoAssumption
    <3> QED BY <1>9, <2>3, <2>4, <2>5, <3>3, <3>4, <3>5 DEF CameraInv
  <2>7. CASE c # buttons.camTicket
    <3>1. buttons'.cam = buttons.cam /\ buttons'.camTicket = buttons.camTicket BY <1>6, <2>7
    <3>2. \A b \in Commands : b = buttons'.camTicket => CamTicketInv(b)'
      <4> SUFFICES ASSUME NEW b \in Commands, b = buttons.camTicket PROVE CamTicketInv(b)' BY <3>1
      <4>1. CamTicketInv(b) /\ b # c BY <1>2, <2>7 DEF CameraInv
      <4> QED BY <1>8, <2>1, <2>2, <4>1 DEF CamTicketInv, Answers
    <3>3. ButtonInv'
      <4>1. ButtonInv BY <1>2 DEF CameraInv
      <4> QED BY <1>1, <1>8, <1>11, <2>1, <2>2, <3>1, <4>1 DEF ButtonInv
    <3>4. (\E b \in Commands : Filming(b)') =>
            /\ \E b \in Commands : Filming(b)' /\ Asked(b)'
            /\ \E b \in Commands : b = buttons'.camTicket /\ sent'[b].pc \notin V!Ended
      BY <1>2, <1>9, <2>2, <2>7, <3>1 DEF CameraInv
    <3> QED BY <2>3, <2>4, <2>5, <3>2, <3>3, <3>4 DEF CameraInv
  <2> QED BY <2>6, <2>7
<1>15. ScreenInv'
  <2>1. CASE c # buttons.scrTicket
    <3>1. \A b \in Commands : b = buttons.scrTicket => sent'[b] = sent[b] BY <1>4, <2>1
    <3>2. buttons'.scr = buttons.scr /\ buttons'.scrTicket = buttons.scrTicket BY <1>6, <2>1
    <3>3. buttons.seq <= buttons'.seq /\ buttons'.seq \in Nat BY <1>2, <1>6 DEF ButtonState
    <3> QED BY <1>1, <1>2, <1>8, <3>1, <3>2, <3>3, ScreenRests
  <2>2. CASE c = buttons.scrTicket
    <3> SUFFICES ASSUME carried # None PROVE ScreenInv' BY <1>1 DEF ScreenInv
    <3>1. buttons'.scr = Answers(c) /\ buttons'.scrTicket = None BY <1>5, <1>6, <1>7, <2>2
    <3>2. ScrTicketInv(c) BY <1>2, <2>2 DEF ScreenInv
    <3>3. Answers(c) <=> Now.screen # None BY <1>1, <3>2 DEF ScrTicketInv
    <3>4. Now.sound # None /\ Now.sound.cap # None => Now.screen # None
      BY <1>1, <1>2, <2>2 DEF ScreenInv, V!Ended
    <3> QED BY <1>2, <1>6, <1>8, <3>1, <3>3, <3>4, VideoAssumption DEF ScreenInv
  <2> QED BY <2>1, <2>2
<1> QED BY <1>12, <1>13, <1>14, <1>15 DEF SettledInv

\* What this device sends, in the words of the state of the call that is up.
LEMMA SentIs ==
    /\ V!Sends.cam <=> Films(Now)
    /\ V!Sends.scr <=> Now.screen # None
    /\ V!Sends.cam \in BOOLEAN /\ V!Sends.scr \in BOOLEAN
<1>1. CASE video.session = carried BY <1>1 DEF V!Sends, Films, Now, V!StateOf
<1>2. CASE video.session # carried
  <2>1. Now = V!Fresh(carried) BY <1>2 DEF Now, V!StateOf
  <2>2. Now.camera = None /\ Now.screen = None BY <2>1 DEF V!Fresh
  <2>3. ~V!Sends.cam /\ ~V!Sends.scr BY <1>2 DEF V!Sends
  <2>4. V!Sends.cam \in BOOLEAN /\ V!Sends.scr \in BOOLEAN BY DEF V!Sends
  <2> QED BY <2>2, <2>3, <2>4 DEF Films
<1> QED BY <1>1, <1>2

\* A call is there, its own, and nothing is under way: nobody waits, and
\* nobody runs.
LEMMA NobodyWaits ==
    ASSUME VideoInv, SettledInv, NEW kind \in {"camera", "screen"}, ~V!Busy(kind)
    PROVE  /\ \A c \in Commands : sent[c].kind = kind => ~sent[c].ours /\ sent[c].pc \notin BegunPc
           /\ kind = "camera" => buttons.camTicket = None /\ \A c \in Commands : ~Waits(c) /\ ~Filming(c)
           /\ kind = "screen" => buttons.scrTicket = None
<1>1. ASSUME NEW c \in Commands, sent[c].kind = kind PROVE ~sent[c].ours /\ sent[c].pc \notin BegunPc
  <2>1. sent[c] \in VideoCmd /\ ~sent[c].ours BY <1>1 DEF V!Busy, VideoInv, VideoTypes, VideoCmd
  <2> QED BY <2>1, BegunFacts
<1>2. buttons.camTicket \in Commands \cup {None} /\ buttons.scrTicket \in Commands \cup {None}
  BY DEF VideoInv, VideoTypes, ButtonState
<1>3. kind = "camera" => buttons.camTicket = None /\ \A c \in Commands : ~Waits(c) /\ ~Filming(c)
  BY <1>1, <1>2 DEF SettledInv, TicketsInv, Waits, Filming
<1>4. kind = "screen" => buttons.scrTicket = None BY <1>1, <1>2 DEF SettledInv, TicketsInv
<1> QED BY <1>1, <1>3, <1>4

LEMMA ConnectsSettles == ASSUME VideoInv, SettledInv, NEW k \in Calls, V!Connects(k) PROVE SettledInv'
<1>1. /\ carried = None /\ carried' = k /\ hungUp[k] = "unborn" /\ hungUp' = [hungUp EXCEPT ![k] = "no"] /\ changed' = FALSE
      /\ buttons' = [buttons EXCEPT !.call = k, !.cam = FALSE, !.scr = FALSE, !.seq = 0]
      /\ UNCHANGED <<torn, video, turn, sent, lit, loud>> /\ ~V!Busy("camera") /\ ~V!Busy("screen")
  BY DEF V!Connects
<1>2. \A c \in Commands : ~sent[c].ours /\ sent[c].pc \notin BegunPc
  <2>1. \A c \in Commands : sent[c].kind \in {"camera", "screen"} BY DEF VideoInv, VideoTypes, VideoCmd
  <2> QED BY <1>1, <2>1, NobodyWaits
<1>3. buttons.camTicket = None /\ buttons.scrTicket = None BY <1>1, NobodyWaits
<1>4. /\ buttons'.call = k /\ ~buttons'.cam /\ ~buttons'.scr /\ buttons'.seq = 0
      /\ buttons'.camTicket = None /\ buttons'.scrTicket = None
  BY <1>1, <1>3 DEF VideoInv, VideoTypes, ButtonState
<1>5. TicketsInv /\ QueueInv /\ turn \in Seq(Commands) BY DEF SettledInv, VideoInv, VideoTypes
<1>6. \A j \in Calls : hungUp'[j] = IF j = k THEN "no" ELSE hungUp[j] BY <1>1 DEF VideoInv, VideoTypes
<1>7. k # None /\ None \notin Commands BY VideoAssumption, MicAssumption
<1>8. /\ Now'.camAsked = 0 /\ Now'.camera = None /\ Now'.scrAsked = 0 /\ Now'.screen = None /\ Now'.sound = None
  <2>1. video'.session # k BY <1>1, <1>5 DEF TicketsInv
  <2>2. Now' = V!Fresh(k) BY <1>1, <2>1 DEF Now, V!StateOf, V!Fresh
  <2> QED BY <2>2 DEF V!Fresh
<1>9. \A c \in Commands : ~Filming(c)' /\ ~Waits(c)' BY <1>1, <1>2 DEF Filming, Waits
<1>10. TicketsInv'
  <2>1. video'.session \in Calls => hungUp'[video'.session] # "unborn" BY <1>1, <1>5, <1>6 DEF TicketsInv
  <2>2. \A c \in Commands : ~sent'[c].muted /\ (sent'[c].pc = "unused" => ~sent'[c].ours) BY <1>1, <1>5 DEF TicketsInv
  <2> QED BY <1>1, <1>2, <1>4, <1>7, <2>1, <2>2 DEF TicketsInv
<1>11. QueueInv'
  <2>1. \A c \in Commands : (Filming(c)' <=> Filming(c)) /\ (Filming(c) => sent'[c].seq = sent[c].seq)
    BY <1>1 DEF Filming
  <2> QED BY <1>1, <1>5, <2>1, QueueStays
<1>12. CameraInv' BY <1>4, <1>7, <1>8, <1>9 DEF CameraInv, RunInv, ButtonInv, SeenInv, Films
<1>13. ScreenInv' BY <1>4, <1>7, <1>8 DEF ScreenInv
<1> QED BY <1>10, <1>11, <1>12, <1>13 DEF SettledInv

\* A call that ends leaves the camera's and the share's story with it.
LEMMA OverSettles ==
    ASSUME VideoInv, SettledInv, carried' = None, buttons'.call = None,
           buttons'.camTicket = buttons.camTicket, buttons'.scrTicket = buttons.scrTicket,
           UNCHANGED <<sent, turn, changed>>,
           video'.session \in {video.session, None}, \A j \in Calls : hungUp[j] # "unborn" => hungUp'[j] # "unborn"
    PROVE  SettledInv'
<1>1. TicketsInv /\ QueueInv /\ turn \in Seq(Commands) BY DEF SettledInv, VideoInv, VideoTypes
<1>2. None \notin Calls BY VideoAssumption, MicAssumption
<1>3. TicketsInv'
  <2>1. video'.session \in Calls => hungUp'[video'.session] # "unborn" BY <1>1, <1>2 DEF TicketsInv
  <2>2. \A c \in Commands : sent[c].pc \in BegunPc => sent[c].call \in Calls BY BegunFacts
  <2>3. \A c \in Commands : sent'[c].pc \in BegunPc => hungUp'[sent'[c].call] # "unborn" /\ (carried' # None => V!Live(c)')
    BY <1>1, <2>2 DEF TicketsInv
  <2>4. \A c \in Commands : c = buttons'.camTicket =>
            Waits(c)' /\ \A b \in Commands : Waits(b)' => sent'[b].seq <= sent'[c].seq
    BY <1>1 DEF TicketsInv, Waits
  <2> QED BY <1>1, <2>1, <2>3, <2>4 DEF TicketsInv
<1>4. QueueInv'
  <2>1. \A c \in Commands : (Filming(c)' <=> Filming(c)) /\ (Filming(c) => sent'[c].seq = sent[c].seq) BY DEF Filming
  <2> QED BY <1>1, <2>1, QueueStays
<1>5. CameraInv' /\ ScreenInv' BY DEF CameraInv, ScreenInv
<1> QED BY <1>3, <1>4, <1>5 DEF SettledInv

LEMMA HangUpSettles == ASSUME VideoInv, SettledInv, V!HangUp PROVE SettledInv'
<1>1. /\ carried # None /\ carried' = None /\ hungUp' = [hungUp EXCEPT ![carried] = "taken"]
      /\ buttons' = [buttons EXCEPT !.call = None, !.cam = FALSE, !.scr = FALSE]
      /\ UNCHANGED <<torn, video, turn, sent, lit, loud, changed>>
  BY DEF V!HangUp
<1>2. buttons \in ButtonState /\ hungUp \in [Calls -> {"unborn", "no", "taken", "torn", "done"}]
  BY DEF VideoInv, VideoTypes
<1>3. buttons'.call = None /\ buttons'.camTicket = buttons.camTicket /\ buttons'.scrTicket = buttons.scrTicket
  BY <1>1, <1>2 DEF ButtonState
<1>4. \A j \in Calls : hungUp[j] # "unborn" => hungUp'[j] # "unborn" BY <1>1, <1>2
<1> QED BY <1>1, <1>3, <1>4, OverSettles

LEMMA TearsSettles == ASSUME VideoInv, SettledInv, NEW k \in Calls, V!Tears(k) \/ V!Stops(k) PROVE SettledInv'
<1>1. /\ hungUp[k] \in {"taken", "torn"} /\ \E p \in {"torn", "done"} : hungUp' = [hungUp EXCEPT ![k] = p]
      /\ (video' = video \/ video' = V!Fresh(None)) /\ UNCHANGED <<carried, turn, sent, buttons, changed>>
  BY DEF V!Tears, V!Stops
<1>2. carried = None
  <2>1. SUFFICES ASSUME carried # None PROVE FALSE OBVIOUS
  <2>2. carried \in Calls /\ hungUp[carried] = "no" BY <2>1 DEF VideoInv, VideoTypes, TurnsInv
  <2> QED BY <1>1, <2>2, OneCall DEF VideoInv
<1>3. \A j \in Calls : hungUp[j] # "unborn" => hungUp'[j] # "unborn" BY <1>1 DEF VideoInv, VideoTypes
<1>4. buttons'.call = None BY <1>1, <1>2 DEF SettledInv, TicketsInv
<1>5. video'.session \in {video.session, None} BY <1>1, FreshState
<1> QED BY <1>1, <1>2, <1>3, <1>4, <1>5, OverSettles

LEMMA ReloadSettles == ASSUME VideoInv, SettledInv, V!Reload PROVE SettledInv'
<1> DEFINE s == V!StateOf(carried)
           v == [s EXCEPT !.camAsked = 0, !.wish = V!NoWish, !.scrAsked = 0]
<1>1. /\ carried # None /\ video' = v /\ UNCHANGED <<carried, hungUp, torn, turn, lit, loud, changed>>
      /\ \A c \in Commands : sent[c].pc \in {"done", "failed", "unused"}
      /\ sent' = [c \in Commands |-> IF sent[c].pc \in V!Ended THEN V!Over ELSE [sent[c] EXCEPT !.ours = FALSE]]
  BY DEF V!Reload, V!Ended
<1>2. /\ buttons'.call = carried /\ buttons'.cam = V!Sends.cam /\ buttons'.scr = V!Sends.scr /\ buttons'.seq = 0
      /\ buttons'.camTicket = None /\ buttons'.scrTicket = None
  BY DEF V!Reload, V!NoPage
<1>3. TicketsInv /\ QueueInv /\ CameraInv /\ ScreenInv /\ turn \in Seq(Commands) /\ sent \in [Commands -> VideoCmd]
  BY DEF SettledInv, VideoInv, VideoTypes
<1>4. ASSUME NEW c \in Commands
      PROVE  /\ sent'[c].pc \in {"done", "unused"} /\ ~sent'[c].ours /\ ~sent'[c].muted
             /\ sent'[c].pc \notin BegunPc /\ sent[c].pc \notin BegunPc
  <2>1. CASE sent[c].pc \in V!Ended
    <3>1. sent'[c] = V!Over BY <1>1, <2>1
    <3>2. V!Over.pc = "done" /\ ~V!Over.ours /\ ~V!Over.muted BY DEF V!Over, V!NoCmd
    <3> QED BY <1>1, <3>1, <3>2 DEF BegunPc, CameraPc, ScreenPc, EitherPc
  <2>2. CASE sent[c].pc \notin V!Ended
    <3>1. sent'[c] = [sent[c] EXCEPT !.ours = FALSE] /\ sent[c].pc = "unused" BY <1>1, <2>2 DEF V!Ended
    <3>2. sent'[c].pc = "unused" /\ ~sent'[c].ours /\ sent'[c].muted = sent[c].muted BY <1>3, <3>1 DEF VideoCmd
    <3> QED BY <1>3, <3>1, <3>2 DEF BegunPc, CameraPc, ScreenPc, EitherPc, TicketsInv
  <2> QED BY <2>1, <2>2
<1>5. /\ carried \in Calls /\ hungUp[carried] = "no" /\ \A j \in Calls : j # carried => hungUp[j] \in {"unborn", "done"}
  BY <1>1, OneCall DEF VideoInv, VideoTypes, TurnsInv
<1>6. s \in VideoState /\ s.session = carried BY <1>5, StateOfCall DEF VideoInv
<1>7. s = Now BY DEF Now
<1>8. /\ V!Sends.cam <=> Films(Now)
      /\ V!Sends.scr <=> Now.screen # None
  BY SentIs
<1> HIDE DEF s
<1>9. /\ v.session = carried /\ v.camera = s.camera /\ v.screen = s.screen /\ v.sound = s.sound
      /\ v.camAsked = 0 /\ v.scrAsked = 0
  BY <1>6 DEF VideoState
<1> HIDE DEF v
<1>10. Now' = v BY <1>1, <1>9 DEF Now, V!StateOf
<1>11. /\ Now'.camAsked = 0 /\ Now'.scrAsked = 0
       /\ Now'.camera = Now.camera /\ Now'.screen = Now.screen /\ Now'.sound = Now.sound
  BY <1>7, <1>9, <1>10
<1>12. Films(Now)' <=> Films(Now) BY <1>11 DEF Films
<1>13. \A c \in Commands : ~Filming(c) /\ ~Filming(c)' /\ ~Waits(c)' BY <1>4 DEF Filming, Waits
<1>14. None \notin Commands BY VideoAssumption
<1>15. TicketsInv'
  <2>1. video'.session \in Calls => hungUp'[video'.session] # "unborn" BY <1>1, <1>5, <1>9
  <2> QED BY <1>1, <1>2, <1>3, <1>4, <1>14, <2>1 DEF TicketsInv
<1>16. QueueInv'
  <2>1. \A c \in Commands : (Filming(c)' <=> Filming(c)) /\ (Filming(c) => sent'[c].seq = sent[c].seq) BY <1>13
  <2> QED BY <1>1, <1>3, <2>1, QueueStays
<1>17. CameraInv'
  <2>1. \A c \in Commands : RunInv(c)' BY <1>13 DEF RunInv
  <2>2. ButtonInv' BY <1>2, <1>8, <1>12, <1>13 DEF ButtonInv
  <2>3. SeenInv' BY <1>1, <1>3, <1>11, <1>13 DEF CameraInv, SeenInv
  <2> QED BY <1>2, <1>11, <1>13, <1>14, <2>1, <2>2, <2>3 DEF CameraInv
<1>18. ScreenInv'
  <2>1. Now.sound # None /\ Now.sound.cap # None => Now.screen # None BY <1>1, <1>3 DEF ScreenInv
  <2> QED BY <1>2, <1>8, <1>11, <1>14, <2>1 DEF ScreenInv
<1> QED BY <1>15, <1>16, <1>17, <1>18 DEF SettledInv

LEMMA VideoSfuMutesSettles == ASSUME VideoInv, SettledInv, V!SfuMutes PROVE SettledInv'
<1>1. /\ carried # None /\ ~V!Busy("camera") /\ changed' = TRUE
      /\ UNCHANGED <<carried, hungUp, torn, turn, lit, loud, buttons>>
      /\ \/ /\ video.session = carried /\ video.camera # None /\ video' = [video EXCEPT !.camera.muted = TRUE]
            /\ UNCHANGED sent
         \/ \E c \in Commands : sent[c].kind = "camera" /\ sent[c].pc = "recording"
  BY DEF V!SfuMutes
<1>2. buttons.camTicket = None /\ \A c \in Commands : ~Waits(c) /\ ~Filming(c) BY <1>1, NobodyWaits
<1>3. ASSUME NEW c \in Commands, sent[c].kind = "camera", sent[c].pc = "recording" PROVE FALSE
  BY <1>2, <1>3 DEF Filming, BegunPc, CameraPc
<1>4. video.session = carried /\ video.camera # None /\ video' = [video EXCEPT !.camera.muted = TRUE] /\ UNCHANGED sent
  BY <1>1, <1>3
<1>5. video \in VideoState /\ video.camera \in CameraState BY <1>4 DEF VideoInv, VideoTypes, VideoState
<1> DEFINE r == [video.camera EXCEPT !.muted = TRUE]
<1>6. r \in CameraState /\ r.muted BY <1>5 DEF CameraState
<1>7. video' = [video EXCEPT !.camera = r] BY <1>4, <1>5 DEF VideoState
<1> HIDE DEF r
<1>8. /\ video'.session = carried /\ video'.camera = r /\ video'.screen = video.screen
      /\ video'.sound = video.sound /\ video'.scrAsked = video.scrAsked /\ video'.camAsked = video.camAsked
  BY <1>4, <1>5, <1>7 DEF VideoState
<1>9. Now = video /\ Now' = video' BY <1>1, <1>4, <1>8 DEF Now, V!StateOf
<1>10. TicketsInv /\ QueueInv /\ CameraInv /\ ScreenInv /\ turn \in Seq(Commands) /\ buttons.seq \in Nat
  BY DEF SettledInv, VideoInv, VideoTypes, ButtonState
<1>11. \A c \in Commands : ~Filming(c)' /\ ~Waits(c)' BY <1>2, <1>4 DEF Filming, Waits
<1>12. TicketsInv'
  <2>1. \A c \in Commands : c = buttons'.camTicket =>
            Waits(c)' /\ \A b \in Commands : Waits(b)' => sent'[b].seq <= sent'[c].seq
    BY <1>1, <1>2, VideoAssumption
  <2>2. \A c \in Commands : sent'[c].pc \in BegunPc => hungUp'[sent'[c].call] # "unborn" /\ (carried' # None => V!Live(c)')
    BY <1>1, <1>4, <1>8, <1>10 DEF TicketsInv, V!Live
  <2> QED BY <1>1, <1>4, <1>8, <1>10, <2>1, <2>2 DEF TicketsInv
<1>13. QueueInv'
  <2>1. \A c \in Commands : (Filming(c)' <=> Filming(c)) /\ (Filming(c) => sent'[c].seq = sent[c].seq)
    BY <1>2, <1>11
  <2> QED BY <1>1, <1>10, <2>1, QueueStays
<1>14. CameraInv'
  <2>1. \A c \in Commands : RunInv(c)' BY <1>11 DEF RunInv
  <2>2. ButtonInv' BY <1>1, <1>11 DEF ButtonInv
  <2>3. SeenInv' BY <1>1, <1>6, <1>8, <1>9 DEF SeenInv
  <2>4. Now'.camAsked <= buttons'.seq BY <1>1, <1>8, <1>9, <1>10 DEF CameraInv
  <2> QED BY <1>1, <1>2, <1>11, <2>1, <2>2, <2>3, <2>4, VideoAssumption DEF CameraInv
<1>15. ScreenInv' BY <1>1, <1>4, <1>8, <1>9, <1>10, ScreenRests
<1> QED BY <1>12, <1>13, <1>14, <1>15 DEF SettledInv

\* What the pump reports is what is sent; a source with a request in flight
\* keeps what its button says.
LEMMA Reported ==
    ASSUME VideoInv, SettledInv, carried # None, buttons' = V!LocalChanged(V!Sends)
    PROVE  /\ buttons'.call = buttons.call /\ buttons'.seq = buttons.seq
           /\ buttons'.camTicket = buttons.camTicket /\ buttons'.scrTicket = buttons.scrTicket
           /\ V!Busy("camera") => buttons'.cam = buttons.cam
           /\ ~V!Busy("camera") => (buttons'.cam <=> Films(Now))
           /\ V!Busy("screen") => buttons'.scr = buttons.scr
           /\ ~V!Busy("screen") => (buttons'.scr <=> Now.screen # None)
<1> DEFINE cam == IF V!Busy("camera") THEN buttons.cam ELSE V!Sends.cam
           camTicket == IF V!Busy("camera") \/ buttons.cam = V!Sends.cam THEN buttons.camTicket ELSE None
           scr == IF V!Busy("screen") THEN buttons.scr ELSE V!Sends.scr
           scrTicket == IF V!Busy("screen") \/ buttons.scr = V!Sends.scr THEN buttons.scrTicket ELSE None
<1>1. buttons' = [buttons EXCEPT !.cam = cam, !.camTicket = camTicket, !.scr = scr, !.scrTicket = scrTicket]
  BY DEF V!LocalChanged
<1>2. buttons \in ButtonState BY DEF VideoInv, VideoTypes
<1>3. camTicket = buttons.camTicket /\ scrTicket = buttons.scrTicket
  <2>1. ~V!Busy("camera") => buttons.camTicket = None BY NobodyWaits
  <2>2. ~V!Busy("screen") => buttons.scrTicket = None BY NobodyWaits
  <2> QED BY <2>1, <2>2
<1>4. /\ V!Sends.cam <=> Films(Now)
      /\ V!Sends.scr <=> Now.screen # None
  BY SentIs
<1>5. /\ V!Busy("camera") => cam = buttons.cam
      /\ ~V!Busy("camera") => cam = V!Sends.cam
      /\ V!Busy("screen") => scr = buttons.scr
      /\ ~V!Busy("screen") => scr = V!Sends.scr
  OBVIOUS
<1> HIDE DEF cam, camTicket, scr, scrTicket
<1>6. /\ buttons'.call = buttons.call /\ buttons'.seq = buttons.seq /\ buttons'.cam = cam /\ buttons'.scr = scr
      /\ buttons'.camTicket = camTicket /\ buttons'.scrTicket = scrTicket
  BY <1>1, <1>2 DEF ButtonState
<1> QED BY <1>3, <1>4, <1>5, <1>6

LEMMA PumpSettles == ASSUME VideoInv, SettledInv, V!Pump PROVE SettledInv'
<1> DEFINE closes == video.session = carried /\ video.camera # None /\ video.camera.muted
<1>1. /\ changed /\ carried # None /\ changed' = FALSE
      /\ video' = (IF closes THEN [video EXCEPT !.camera.cap = None] ELSE video)
      /\ UNCHANGED <<carried, hungUp, torn, turn, sent, loud>>
  BY DEF V!Pump
<1>2. TicketsInv /\ QueueInv /\ CameraInv /\ ScreenInv /\ turn \in Seq(Commands) /\ buttons \in ButtonState /\ video \in VideoState
  BY DEF SettledInv, VideoInv, VideoTypes
<1>3. buttons' = V!LocalChanged(V!Sends) BY <1>2 DEF V!Pump, TicketsInv
<1>4. /\ buttons'.call = buttons.call /\ buttons'.seq = buttons.seq
      /\ buttons'.camTicket = buttons.camTicket /\ buttons'.scrTicket = buttons.scrTicket
      /\ V!Busy("camera") => buttons'.cam = buttons.cam
      /\ ~V!Busy("camera") => (buttons'.cam <=> Films(Now))
      /\ V!Busy("screen") => buttons'.scr = buttons.scr
      /\ ~V!Busy("screen") => (buttons'.scr <=> Now.screen # None)
  BY <1>1, <1>3, Reported
<1>5. /\ video'.session = video.session /\ Now'.camAsked = Now.camAsked /\ Now'.scrAsked = Now.scrAsked
      /\ Now'.screen = Now.screen /\ Now'.sound = Now.sound
      /\ Now'.camera = None <=> Now.camera = None
      /\ Now.camera # None => /\ Now'.camera.muted = Now.camera.muted
                              /\ Now'.camera.cap = IF Now.camera.muted THEN None ELSE Now.camera.cap
  <2>1. CASE closes
    <3>1. video' = [video EXCEPT !.camera.cap = None] BY <1>1, <2>1
    <3>2. video.camera # None /\ video.camera \in CameraState BY <1>2, <2>1 DEF VideoState
    <3> DEFINE r == [video.camera EXCEPT !.cap = None]
    <3>3. r \in CameraState /\ r.cap = None /\ r.muted = video.camera.muted BY <3>2 DEF CameraState
    <3>4. r # None BY <3>3, VideoAssumption DEF CameraState
    <3>5. video' = [video EXCEPT !.camera = r] BY <1>2, <3>1, <3>2 DEF VideoState
    <3> HIDE DEF r
    <3>6. /\ video'.session = video.session /\ video'.screen = video.screen /\ video'.camera = r
          /\ video'.sound = video.sound /\ video'.scrAsked = video.scrAsked /\ video'.camAsked = video.camAsked
      BY <1>2, <3>5 DEF VideoState
    <3>7. Now = video /\ Now' = video' BY <1>1, <2>1, <3>6 DEF Now, V!StateOf
    <3> QED BY <2>1, <3>2, <3>3, <3>4, <3>6, <3>7
  <2>2. CASE ~closes
    <3>1. video' = video BY <1>1, <2>2
    <3>2. Now' = Now BY <1>1, <3>1 DEF Now, V!StateOf
    <3>3. ~(Now.camera # None /\ Now.camera.muted)
      <4>1. CASE video.session = carried BY <2>2, <4>1 DEF Now, V!StateOf
      <4>2. CASE video.session # carried BY <4>2 DEF Now, V!StateOf, V!Fresh
      <4> QED BY <4>1, <4>2
    <3> QED BY <3>1, <3>2, <3>3
  <2> QED BY <2>1, <2>2
<1>6. Films(Now)' <=> Films(Now) BY <1>5 DEF Films
<1>7. \A c \in Commands : /\ Filming(c)' <=> Filming(c)
                          /\ Waits(c)' <=> Waits(c)
                          /\ Asked(c)' <=> Asked(c)
                          /\ Answers(c)' <=> Answers(c)
  BY <1>1, <1>5 DEF Filming, Waits, Asked, Answers
<1> HIDE DEF closes
<1>8. TicketsInv'
  <2>1. \A c \in Commands : c = buttons'.camTicket =>
            Waits(c)' /\ \A b \in Commands : Waits(b)' => sent'[b].seq <= sent'[c].seq
    BY <1>1, <1>2, <1>4, <1>7 DEF TicketsInv
  <2>2. \A c \in Commands : sent'[c].pc \in BegunPc => hungUp'[sent'[c].call] # "unborn" /\ (carried' # None => V!Live(c)')
    BY <1>1, <1>2, <1>5 DEF TicketsInv, V!Live
  <2>3. \A c \in Commands : ~sent'[c].muted /\ (sent'[c].pc = "unused" => ~sent'[c].ours) BY <1>1, <1>2 DEF TicketsInv
  <2>4. \A c \in Commands : c = buttons'.scrTicket <=> sent'[c].ours /\ sent'[c].kind = "screen"
    BY <1>1, <1>2, <1>4 DEF TicketsInv
  <2>5. changed' \in BOOLEAN /\ buttons'.call = carried' /\ (video'.session \in Calls => hungUp'[video'.session] # "unborn")
    BY <1>1, <1>2, <1>4, <1>5 DEF TicketsInv
  <2> QED BY <2>1, <2>2, <2>3, <2>4, <2>5 DEF TicketsInv
<1>9. QueueInv' BY <1>1, <1>2, <1>7, QueueStays
<1>10. CameraInv'
  <2>1. \A c \in Commands : RunInv(c)' BY <1>1, <1>2, <1>5, <1>6, <1>7 DEF CameraInv, RunInv
  <2>2. \A c \in Commands : c = buttons'.camTicket => CamTicketInv(c)'
    BY <1>1, <1>2, <1>4, <1>5, <1>6, <1>7 DEF CameraInv, CamTicketInv
  <2>3. ButtonInv'
    <3>1. CASE V!Busy("camera")
      <4>1. PICK b \in Commands : Waits(b) BY <3>1 DEF V!Busy, Waits
      <4>2. ButtonInv BY <1>1, <1>2 DEF CameraInv
      <4> QED BY <1>1, <1>4, <1>5, <1>6, <1>7, <3>1, <4>1, <4>2 DEF ButtonInv
    <3>2. CASE ~V!Busy("camera")
      <4>1. \A c \in Commands : ~Waits(c) BY <3>2, NobodyWaits
      <4> QED BY <1>4, <1>6, <1>7, <3>2, <4>1 DEF ButtonInv
    <3> QED BY <3>1, <3>2
  <2>4. SeenInv'
    <3>1. SeenInv BY <1>1, <1>2 DEF CameraInv
    <3> QED BY <1>1, <1>5, <1>7, <3>1 DEF SeenInv
  <2>5. (\E c \in Commands : Filming(c)') =>
          /\ \E b \in Commands : Filming(b)' /\ Asked(b)'
          /\ \E b \in Commands : b = buttons'.camTicket /\ sent'[b].pc \notin V!Ended
    BY <1>1, <1>2, <1>4, <1>7 DEF CameraInv
  <2>6. Now'.camAsked <= buttons'.seq BY <1>1, <1>2, <1>4, <1>5 DEF CameraInv
  <2> QED BY <2>1, <2>2, <2>3, <2>4, <2>5, <2>6 DEF CameraInv
<1>11. ScreenInv'
  <2>1. CASE V!Busy("screen")
    <3>1. buttons.seq <= buttons'.seq /\ buttons'.seq \in Nat BY <1>2, <1>4 DEF ButtonState
    <3> QED BY <1>1, <1>2, <1>4, <1>5, <2>1, <3>1, ScreenRests
  <2>2. CASE ~V!Busy("screen")
    <3>1. buttons'.scrTicket = None BY <1>4, <2>2, NobodyWaits
    <3>2. Now'.scrAsked <= buttons'.seq BY <1>1, <1>2, <1>4, <1>5 DEF ScreenInv
    <3>3. Now.sound # None /\ Now.sound.cap # None => Now.screen # None
      BY <1>1, <1>2, <1>4, <3>1, VideoAssumption DEF ScreenInv
    <3> QED BY <1>4, <1>5, <2>2, <3>1, <3>2, <3>3, VideoAssumption DEF ScreenInv
  <2> QED BY <2>1, <2>2
<1> QED BY <1>8, <1>9, <1>10, <1>11 DEF SettledInv

LEMMA SettledInit == ASSUME V!Init PROVE SettledInv
<1>1. PICK d \in Cameras : buttons = [V!NoPage EXCEPT !.dev = d] BY DEF V!Init
<1>2. /\ carried = None /\ video = V!Fresh(None) /\ turn = <<>> /\ sent = [c \in Commands |-> V!NoCmd] /\ changed = FALSE
  BY DEF V!Init
<1>3. V!NoCmd.pc = "unused" /\ ~V!NoCmd.ours /\ ~V!NoCmd.muted BY DEF V!NoCmd
<1>4. buttons.call = None /\ buttons.camTicket = None /\ buttons.scrTicket = None BY <1>1 DEF V!NoPage
<1>5. \A c \in Commands : /\ sent[c].pc = "unused" /\ ~sent[c].ours /\ ~sent[c].muted /\ sent[c].pc \notin BegunPc
  BY <1>2, <1>3 DEF BegunPc, CameraPc, ScreenPc, EitherPc
<1>6. video.session = None /\ None \notin Commands /\ None \notin Calls
  BY <1>2, FreshState, VideoAssumption, MicAssumption
<1>7. TicketsInv BY <1>2, <1>4, <1>5, <1>6 DEF TicketsInv
<1>8. QueueInv BY <1>2, <1>5 DEF QueueInv, Filming
<1> QED BY <1>2, <1>7, <1>8 DEF SettledInv, CameraInv, ScreenInv

LEMMA CameraSettle == ASSUME VideoInv, SettledInv, NEW c \in Commands, V!Camera(c) PROVE SettledInv'
BY ArrivesCameraSettles, BeginsCameraSettles, SwitchesSettles, VideoOpensSettles, InstallsSettles, PublishesCameraSettles,
   RecordsSettles, VideoClosesSettles DEF V!Camera

LEMMA ScreensSettle == ASSUME VideoInv, SettledInv, NEW c \in Commands, V!Screen(c) PROVE SettledInv'
<1>1. CASE V!ArrivesScreen(c) \/ V!Quiets(c) \/ V!TakesDown(c) \/ V!Undoes(c)
  BY <1>1, ArrivesScreenSettles, QuietsSettles, TakesDownSettles
<1>2. CASE V!Picks(c) \/ V!Picked(c) \/ V!PublishesScreen(c)
  BY <1>2, PicksSettles, PublishesScreenSettles
<1>3. CASE V!Sounds(c) \/ V!KeepsSound(c) \/ V!Quells(c) \/ V!Stores(c) \/ V!Hushes(c)
  BY <1>3, SoundsSettles, KeepsSoundSettles, StoresSettles, HushesSettles
<1> QED BY <1>1, <1>2, <1>3 DEF V!Screen

LEMMA SettledNext == ASSUME VideoInv, SettledInv, [V!Next]_(V!vars) PROVE SettledInv'
<1>1. ASSUME NEW k \in Calls, V!Connects(k) \/ V!Tears(k) \/ V!Stops(k) PROVE SettledInv'
  BY <1>1, ConnectsSettles, TearsSettles
<1>2. CASE V!PressCamera \/ (\E d \in Cameras : V!PickCamera(d)) \/ (\E sound \in BOOLEAN : V!PressScreen(sound))
  BY <1>2, PressesSettle
<1>3. CASE V!Reload \/ V!HangUp \/ V!SfuMutes \/ V!Pump
  BY <1>3, ReloadSettles, HangUpSettles, VideoSfuMutesSettles, PumpSettles
<1>4. ASSUME NEW c \in Commands, V!Answered(c) \/ V!Camera(c) \/ V!Screen(c) PROVE SettledInv'
  BY <1>4, VideoAnsweredSettles, CameraSettle, ScreensSettle
<1>5. CASE UNCHANGED V!vars
  BY <1>5 DEF V!vars, SettledInv, TicketsInv, QueueInv, CameraInv, RunInv, CamTicketInv, ButtonInv, SeenInv, ScreenInv,
              ScrTicketInv, Now, Films, Filming, Waits, Asked, Answers, V!StateOf, V!Live
<1> QED BY <1>1, <1>2, <1>3, <1>4, <1>5 DEF V!Next

THEOREM SettledInvariance == V!Spec => []SettledInv
<1>1. V!Init => SettledInv BY SettledInit
<1>2. VideoInv /\ SettledInv /\ [V!Next]_(V!vars) => SettledInv' BY SettledNext
<1> QED BY <1>1, <1>2, VideoInvariance, PTL DEF V!Spec

(***************************************************************************)
(* Whatever was pressed, switched, overtaken, refused, muted, reloaded or  *)
(* hung up before: when nothing is under way, the buttons of the page say  *)
(* what the shell sends, a camera captures just when it is not muted, and  *)
(* a sound goes with a share (setCameraEnabled, setScreenShareEnabled,     *)
(* #onLocalChanged; voice_set_camera, voice_set_screen, the pump).         *)
(***************************************************************************)
THEOREM ButtonsShow == V!Spec => []V!ShownIsSent
<1>1. VideoInv /\ SettledInv => V!ShownIsSent
  <2> SUFFICES ASSUME VideoInv, SettledInv, V!AtRest, carried # None PROVE V!ShownIsSent BY DEF V!ShownIsSent
  <2>1. CameraInv /\ ScreenInv /\ buttons.cam \in BOOLEAN /\ buttons.scr \in BOOLEAN /\ ~changed
    BY DEF SettledInv, VideoInv, VideoTypes, ButtonState, V!AtRest
  <2>2. ~V!Busy("camera") /\ ~V!Busy("screen") BY DEF V!AtRest, V!Busy
  <2>3. /\ buttons.camTicket = None /\ buttons.scrTicket = None
        /\ \A c \in Commands : ~Filming(c)
    BY <2>2, NobodyWaits
  <2>4. /\ buttons.cam <=> Films(Now)
        /\ buttons.scr <=> Now.screen # None
    BY <2>1, <2>3 DEF CameraInv, ButtonInv, ScreenInv
  <2>5. /\ V!Sends.cam <=> Films(Now)
        /\ V!Sends.scr <=> Now.screen # None
        /\ V!Sends.cam \in BOOLEAN /\ V!Sends.scr \in BOOLEAN
    BY SentIs
  <2>6. video.session = carried => Now = video BY DEF Now, V!StateOf
  <2>7. video.session = carried /\ video.camera # None => (video.camera.cap = None <=> video.camera.muted)
    <3>1. SUFFICES ASSUME video.session = carried, video.camera # None
                   PROVE  video.camera.cap = None <=> video.camera.muted
      OBVIOUS
    <3>2. SeenInv BY <2>1 DEF CameraInv
    <3>3. video.camera.muted \in BOOLEAN BY <3>1 DEF VideoInv, VideoTypes, VideoState, CameraState
    <3> QED BY <2>1, <2>3, <2>6, <3>1, <3>2, <3>3 DEF SeenInv
  <2>8. video.session = carried /\ video.sound # None /\ video.sound.cap # None => video.screen # None
    BY <2>1, <2>3, <2>6, VideoAssumption DEF ScreenInv
  <2>9. buttons.cam = V!Sends.cam /\ buttons.scr = V!Sends.scr BY <2>1, <2>4, <2>5
  <2> QED BY <2>7, <2>8, <2>9 DEF V!ShownIsSent
<1> QED BY <1>1, VideoInvariance, SettledInvariance, PTL

-----------------------------------------------------------------------------
(* The device as a whole: a step is one part's, and the others rest, so    *)
(* that a behaviour of the device is a behaviour of every part.            *)
LEMMA DeviceParts == DeviceSpec => Spec /\ V!Spec /\ K!Spec /\ S!Spec
<1>1. DeviceInit => Init /\ V!Init /\ K!Init /\ S!Init BY DEF DeviceInit
<1>2. [DeviceNext]_deviceVars => /\ [Next]_vars
                                 /\ [V!Next]_(V!vars)
                                 /\ [K!Next]_(K!vars)
                                 /\ [S!Next]_(S!vars)
  BY DEF DeviceNext, deviceVars, videoVars, keyVars, sessionVars, V!vars, K!vars, S!vars
<1> QED BY <1>1, <1>2, PTL DEF DeviceSpec, Spec, V!Spec, K!Spec, S!Spec

(***************************************************************************)
(* Nothing captures on the device for a call that is over: neither the     *)
(* microphone (voice_set_mic, teardown), as long as no capture starts      *)
(* behind the call's back, nor a camera, a screen or a loopback.           *)
(***************************************************************************)
THEOREM DarkDevice == ASSUME Races = {} PROVE DeviceSpec => []NothingRunsOn
<1>1. DarkWhenClosed /\ V!NothingRunsOn => NothingRunsOn BY DEF NothingRunsOn
<1> QED BY <1>1, DeviceParts, DarkMicrophone, NoneRunsOn, PTL

(***************************************************************************)
(* The buttons of the camera and the share say what is sent, on the device *)
(* as a whole.                                                             *)
(***************************************************************************)
THEOREM DeviceShows == DeviceSpec => []ShownIsSent
BY DeviceParts, ButtonsShow, PTL DEF ShownIsSent

(***************************************************************************)
(* The account's key, its recovery code and the device of who is signed in *)
(* hold on the device as a whole.                                          *)
(***************************************************************************)
THEOREM DeviceHolds == DeviceSpec => [](RowIsOneKey /\ WrittenCodeOpens /\ DeviceIsItself) /\ EndsOnce
BY DeviceParts, OneKey, CodeOpens, OwnDevice, KeychainLetsGo, PTL
=============================================================================
