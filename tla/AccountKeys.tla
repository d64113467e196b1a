---------------------------- MODULE AccountKeys -----------------------------
(***************************************************************************)
(* The account's key (client/src/crypto/account.ts).  The server has one   *)
(* row: a public key and its private key wrapped twice, under the password *)
(* and under a recovery code, and it replaces the row whole.  A device     *)
(* keeps the pair it once unwrapped (crypto/db.ts).  Signing in unlocks    *)
(* the key, repairs the password's wrap, or asks for the code              *)
(* (ui/Login.tsx); Settings change the password and the code; a link in an *)
(* email resets the password and touches no wrap (ui/EmailLanding.tsx).    *)
(*                                                                         *)
(* A wrap opens with the secret it was made under and no other, and a      *)
(* public key is named by its private one: both are numbers.  The person   *)
(* knows the password, and the last recovery code that was on a screen.    *)
(***************************************************************************)
EXTENDS Naturals

CONSTANTS
    Device,
    Words,     \* passwords
    Races,     \* what may come at a bad moment, see Untimely
    MaxKeys, MaxCodes,
    MaxTurns   \* sign-ins, changes, resets and closed pages, in all

(* What else is assumed not to happen, between another device's reading of *)
(* the row and the end of what it does with it:                            *)
(*   fresh   the person starts fresh                                       *)
(*   code    another code is issued (or one is still to be shown)          *)
Untimely == {"fresh", "code"}

VARIABLES
    password,
    row,      \* the server's key row, or NoRow before the account is made
    keys,     \* keypairs made so far are 1 .. keys,
    codes,    \* and recovery codes 1 .. codes
    kept,     \* per device: the keypair in SECRETS
    live,     \* per device: does the server honour its session?
    flow,     \* per device: what it is doing
    shown,    \* the last code on a screen, or 0
    unseen,   \* ghost: codes that were put and then lost with their page
    turns

vars == <<password, row, keys, codes, kept, live, flow, shown, unseen, turns>>

Wrap(secret, key) == [by |-> secret, key |-> key]
Opens(secret, wrap) == secret = wrap.by
Row(pub, word, code) == [pub |-> pub, word |-> word, code |-> code]
NoRow == Row(0, Wrap(0, 0), Wrap(0, 0))
Pair(pub, key) == [pub |-> pub, key |-> key]
NoPair == Pair(0, 0)

\* pc; the password typed, and the new one; the row or pair to be put, and its code.
Flow(pc) == [pc |-> pc, typed |-> 0, new |-> 0, put |-> NoRow, code |-> 0]

Out(d) == flow[d].pc = "out"
In(d) == flow[d].pc = "in"
Goes(d, pc) == flow' = [flow EXCEPT ![d] = Flow(pc)]

\* Where a request that failed leaves the person.
Back(pc) ==
    CASE pc \in {"unlocking", "stale", "rewrapping"} -> "out"
      [] pc \in {"recovering", "starting"} -> "prompt"
      [] OTHER -> "in"

Turn == turns < MaxTurns /\ turns' = turns + 1

Init ==
    /\ password = 0 /\ row = NoRow /\ keys = 0 /\ codes = 0
    /\ kept = [d \in Device |-> NoPair] /\ live = [d \in Device |-> FALSE]
    /\ flow = [d \in Device |-> Flow("out")]
    /\ shown = 0 /\ unseen = {} /\ turns = 0

-----------------------------------------------------------------------------
(* Registration, sign-in and unlockAccountKey. *)

(* The keys go with the request.  An answer that is lost takes the code    *)
(* with it.                                                                *)
Registers(d, w) ==
    /\ Out(d) /\ row = NoRow /\ keys' = 1 /\ codes' = 1
    /\ password' = w /\ row' = Row(1, Wrap(w, 1), Wrap(1, 1))
    /\ \/ /\ live' = [live EXCEPT ![d] = TRUE]
          /\ flow' = [flow EXCEPT ![d] = [Flow("accepted") EXCEPT !.put = row', !.code = 1]]
          /\ UNCHANGED unseen
       \/ unseen' = {1} /\ UNCHANGED <<live, flow>>
    /\ UNCHANGED <<kept, shown, turns>>

SignsIn(d) ==
    /\ Out(d) /\ row # NoRow /\ Turn
    /\ live' = [live EXCEPT ![d] = TRUE]
    /\ flow' = [flow EXCEPT ![d] = [Flow("unlocking") EXCEPT !.typed = password]]
    /\ UNCHANGED <<password, row, keys, codes, kept, shown, unseen>>

\* Mutant: whatever pair is kept is taken for the account's
UnlocksAnyKept(d) ==
    /\ flow[d].pc = "unlocking" /\ live[d]
    /\ IF Opens(flow[d].typed, row.word)
       THEN kept' = [kept EXCEPT ![d] = Pair(row.pub, row.word.key)] /\ Goes(d, "in")
       ELSE /\ flow' = [flow EXCEPT ![d].pc = IF kept[d] # NoPair THEN "stale" ELSE "prompt"]
            /\ UNCHANGED kept
    /\ UNCHANGED <<password, row, keys, codes, live, shown, unseen, turns>>
(* The wrap opens, or a kept pair that is the account's own can repair it, *)
(* or the person has to decide.                                            *)
Unlocks(d) ==
    /\ flow[d].pc = "unlocking" /\ live[d]
    /\ IF Opens(flow[d].typed, row.word)
       THEN kept' = [kept EXCEPT ![d] = Pair(row.pub, row.word.key)] /\ Goes(d, "in")
       ELSE /\ flow' = [flow EXCEPT ![d].pc = IF kept[d].pub = row.pub THEN "stale" ELSE "prompt"]
            /\ UNCHANGED kept
    /\ UNCHANGED <<password, row, keys, codes, live, shown, unseen, turns>>

\* Mutant: the silent repair makes both wraps anew
RewrapsBoth(d) ==
    /\ flow[d].pc = "stale" /\ live[d] /\ codes < MaxCodes
    /\ codes' = codes + 1
    /\ flow' = [flow EXCEPT ![d].pc = "rewrapping",
                            ![d].put = Row(kept[d].pub, Wrap(flow[d].typed, kept[d].key), Wrap(codes', kept[d].key))]
    /\ UNCHANGED <<password, row, keys, kept, live, shown, unseen, turns>>
(* rewrapPasswordWrap reads the row again, for the other wrap.             *)
Rewraps(d) ==
    /\ flow[d].pc = "stale" /\ live[d]
    /\ flow' = [flow EXCEPT ![d].pc = "rewrapping",
                            ![d].put = Row(kept[d].pub, Wrap(flow[d].typed, kept[d].key), row.code)]
    /\ UNCHANGED <<password, row, keys, codes, kept, live, shown, unseen, turns>>

-----------------------------------------------------------------------------
(* The person decides, or asks for a new code. *)

\* Both wraps of a key, made anew.
Replaces(d, pc, pub, key) ==
    /\ codes < MaxCodes /\ codes' = codes + 1
    /\ LET typed == IF flow[d].typed = 0 THEN password ELSE flow[d].typed IN
       flow' = [flow EXCEPT ![d] = [Flow(pc) EXCEPT !.typed = typed, !.code = codes',
                                    !.put = Row(pub, Wrap(typed, key), Wrap(codes', key))]]
    /\ UNCHANGED <<password, row, kept, live, shown, unseen, turns>>

Skips(d) ==
    /\ flow[d].pc = "prompt" /\ Goes(d, "in")
    /\ UNCHANGED <<password, row, keys, codes, kept, live, shown, unseen, turns>>

(* recoverWithCode, with the code the person has.                          *)
Recovers(d) ==
    /\ flow[d].pc = "prompt" /\ live[d] /\ Opens(shown, row.code)
    /\ Replaces(d, "recovering", row.pub, row.code.key)
    /\ UNCHANGED keys

StartsFresh(d) ==
    /\ flow[d].pc = "prompt" /\ keys < MaxKeys
    /\ keys' = keys + 1 /\ Replaces(d, "starting", keys', keys')

(* regenerateRecoveryCode: by the kept pair, or by the password's wrap.    *)
Regenerates(d) ==
    /\ In(d) /\ live[d] /\ (kept[d].pub = row.pub \/ Opens(password, row.word))
    /\ Replaces(d, "reissuing", row.pub, IF kept[d].pub = row.pub THEN kept[d].key ELSE row.word.key)
    /\ UNCHANGED keys

(* The server checks the password and replaces the row.  A code that stays *)
(* is one the row had when it was read.                                    *)
Read(d) == flow[d].pc \in {"stale", "rewrapping", "recovering", "starting", "reissuing", "changing"}

Puts(d) ==
    /\ flow[d].pc \in {"rewrapping", "recovering", "starting", "reissuing"}
    /\ live[d] /\ flow[d].typed = password
    /\ "fresh" \in Races \/ (flow[d].pc = "starting" => \A e \in Device \ {d} : ~Read(e))
    /\ "code" \in Races \/ (flow[d].code # 0 =>
          \A e \in Device \ {d} : flow[e].code = 0 /\ (Read(e) => flow[d].pc = "starting"))
    /\ row' = flow[d].put
    /\ flow' = [flow EXCEPT ![d].pc = "accepted"]
    /\ UNCHANGED <<password, keys, codes, kept, live, shown, unseen, turns>>

(* persistKeypair, except after a silent repair, which has nothing to show.*)
Persists(d) ==
    /\ flow[d].pc = "accepted"
    /\ IF flow[d].code = 0
       THEN Goes(d, "in") /\ UNCHANGED kept
       ELSE /\ kept' = [kept EXCEPT ![d] = Pair(flow[d].put.pub, flow[d].put.code.key)]
            /\ flow' = [flow EXCEPT ![d].pc = "showing"]
    /\ UNCHANGED <<password, row, keys, codes, live, shown, unseen, turns>>

Shows(d) ==
    /\ flow[d].pc = "showing"
    /\ shown' = flow[d].code /\ Goes(d, "in")
    /\ UNCHANGED <<password, row, keys, codes, kept, live, unseen, turns>>

-----------------------------------------------------------------------------
(* Passwords. *)

(* changePasswordWithRewrap: by the kept pair or the current password's    *)
(* wrap, or without a wrap of the new one.                                 *)
Changes(d, w) ==
    /\ In(d) /\ live[d] /\ w # password /\ Turn
    /\ LET key == IF kept[d].pub = row.pub THEN kept[d].key
                  ELSE IF Opens(password, row.word) THEN row.word.key ELSE 0 IN
       flow' = [flow EXCEPT ![d] = [Flow("changing") EXCEPT !.typed = password, !.new = w,
                                    !.put = Row(row.pub, Wrap(w, key), NoRow.code)]]
    /\ UNCHANGED <<password, row, keys, codes, kept, live, shown, unseen>>

(* The wrap goes with the change, and every other session is revoked.      *)
Changed(d) ==
    /\ flow[d].pc = "changing" /\ live[d] /\ flow[d].typed = password
    /\ password' = flow[d].new
    /\ row' = IF flow[d].put.word.key # 0 THEN [row EXCEPT !.word = flow[d].put.word] ELSE row
    /\ live' = [e \in Device |-> e = d]
    /\ flow' = [flow EXCEPT ![d].pc = "changed"]
    /\ UNCHANGED <<keys, codes, kept, shown, unseen, turns>>

KeepsChanged(d) ==
    /\ flow[d].pc = "changed" /\ Goes(d, "in")
    /\ kept' = IF flow[d].put.word.key = 0 THEN kept
               ELSE [kept EXCEPT ![d] = Pair(flow[d].put.pub, flow[d].put.word.key)]
    /\ UNCHANGED <<password, row, keys, codes, live, shown, unseen, turns>>

(* confirmPasswordReset.                                                   *)
Resets(w) ==
    /\ row # NoRow /\ w # password /\ Turn
    /\ password' = w /\ live' = [d \in Device |-> FALSE]
    /\ UNCHANGED <<row, keys, codes, kept, flow, shown, unseen>>

-----------------------------------------------------------------------------
(* Failures and ends. *)

(* A request is refused, does not arrive, or its answer does not.          *)
Fails(d) ==
    /\ flow[d].pc \in {"unlocking", "stale", "rewrapping", "recovering", "starting", "reissuing", "changing"}
    /\ flow' = [flow EXCEPT ![d] = [Flow(Back(flow[d].pc)) EXCEPT !.typed =
                                       IF Back(flow[d].pc) = "prompt" THEN flow[d].typed ELSE 0]]
    /\ UNCHANGED <<password, row, keys, codes, kept, live, shown, unseen, turns>>

(* The page is closed, or an answer is lost: a code not yet shown is gone. *)
Closes(d) ==
    /\ flow[d].pc \notin {"out", "in"} /\ Turn
    /\ Goes(d, IF flow[d].pc \in {"reissuing", "changing", "changed"} THEN "in" ELSE "out")
    /\ unseen' = unseen \cup (IF flow[d].pc \in {"accepted", "showing"} THEN {flow[d].code} \ {0} ELSE {})
    /\ UNCHANGED <<password, row, keys, codes, kept, live, shown>>

\* A 401 keeps the pair, for a repair.
Expires(d) ==
    /\ In(d) /\ ~live[d] /\ Goes(d, "out")
    /\ UNCHANGED <<password, row, keys, codes, kept, live, shown, unseen, turns>>

\* A sign-out does not.
SignsOut(d) ==
    /\ In(d) /\ Goes(d, "out")
    /\ kept' = [kept EXCEPT ![d] = NoPair] /\ live' = [live EXCEPT ![d] = FALSE]
    /\ UNCHANGED <<password, row, keys, codes, shown, unseen, turns>>

Next ==
    \/ \E w \in Words : Resets(w)
    \/ \E d \in Device :
        \/ \E w \in Words : Registers(d, w) \/ Changes(d, w)
        \/ SignsIn(d) \/ Unlocks(d) \/ Rewraps(d)
        \/ Skips(d) \/ Recovers(d) \/ StartsFresh(d) \/ Regenerates(d)
        \/ Puts(d) \/ Persists(d) \/ Shows(d)
        \/ Changed(d) \/ KeepsChanged(d)
        \/ Fails(d) \/ Closes(d) \/ Expires(d) \/ SignsOut(d)

Spec == Init /\ [][Next]_vars

-----------------------------------------------------------------------------
Key == 0 .. MaxKeys
Code == 0 .. MaxCodes
Wraps(secrets) == [by : secrets, key : Key]
Rows == [pub : Key, word : Wraps(Words \cup {0}), code : Wraps(Code)]

TypeOK ==
    /\ password \in Words \cup {0} /\ row \in Rows /\ keys \in Key /\ codes \in Code
    /\ kept \in [Device -> [pub : Key, key : Key]] /\ live \in [Device -> BOOLEAN]
    /\ flow \in [Device -> [pc : {"out", "in", "unlocking", "stale", "rewrapping", "prompt", "recovering", "starting",
                                  "reissuing", "accepted", "showing", "changing", "changed"},
                            typed : Words \cup {0}, new : Words \cup {0}, put : Rows, code : Code]]
    /\ shown \in Code /\ unseen \subseteq Code /\ turns \in 0 .. MaxTurns

(* The row is of one key: what the password opens, what the code opens and *)
(* what others seal to are the same, and a device that unwrapped it keeps  *)
(* a pair that fits.                                                       *)
RowIsOneKey ==
    /\ row.word.key = row.pub /\ row.code.key = row.pub
    /\ \A d \in Device : kept[d].key = kept[d].pub

(* The recovery code a person wrote down last opens the account's key,     *)
(* unless a newer one is on its way to the screen or was lost with its     *)
(* page.  A repair nobody sees does not spend it.                          *)
WrittenCodeOpens ==
    row # NoRow => \/ Opens(shown, row.code)
                   \/ row.code.by \in unseen
                   \/ \E d \in Device : flow[d].pc \in {"accepted", "showing"} /\ flow[d].code = row.code.by

(* A key that was given up does not come back.                             *)
RetiredForGood == [][row'.pub # row.pub => row'.pub > row.pub]_row
=============================================================================
