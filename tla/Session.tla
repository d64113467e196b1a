------------------------------ MODULE Session -------------------------------
(***************************************************************************)
(* Who is signed in in a browser profile, and as which device              *)
(* (client/src/api/session.ts, ui/Login.tsx, App.tsx, vault.ts).  The      *)
(* session and the device's id are kept apart in localStorage, because the *)
(* id outlives the session; a shell mirrors both in the OS keychain, and   *)
(* restores from it what the webview lost.  Each tab holds a session of    *)
(* its own in memory.  IndexedDB has the MLS state of one device.          *)
(*                                                                         *)
(* Tokens and devices are numbered as the server makes them.  An account   *)
(* is made by the first submit for it.                                     *)
(***************************************************************************)
EXTENDS Naturals, Sequences, FiniteSets

CONSTANTS
    Tab, Account,
    LateRaces,   \* what may come at a bad moment, see Untimely
    MaxTokens,   \* sign-ins
    MaxFaults    \* revocations, expiries, evictions, lost writes, closed pages

(* What else is assumed not to happen:                                     *)
(*   tabs   somebody signs in in a tab while the profile is signed in, or  *)
(*          signing in, in another                                         *)
(*   mark   a session ends while a recheck or a new picture is answered    *)
(*   lost   a sign-in is served, and its answer is not heard               *)
(*   vault  the keychain does not take a deletion                          *)
Untimely == {"tabs", "mark", "lost", "vault"}

VARIABLES
    shell,
    issued,     \* the server's sessions: token |-> [account, device]
    honoured,   \* the tokens it still takes
    of,         \* its device rows: device |-> account
    revoked,
    session, device,   \* localStorage: a token and a device id, or 0
    vault,      \* the keychain's copies
    crypto,     \* the device whose MLS state is in IndexedDB, or 0
    tab,
    ended,      \* ghost: tokens this profile let go of
    faults

vars == <<shell, issued, honoured, of, revoked, session, device, vault, crypto, tab, ended, faults>>

\* pc, the session in memory, the sign-in: its account, the id read before it, the id sent, its answer; and what a
\* request about the session was asked for.
Closed == [pc |-> "closed", cached |-> 0, as |-> 0, prior |-> 0, sent |-> 0, got |-> 0, mark |-> 0]
Page(pc, cached) == [Closed EXCEPT !.pc = pc, !.cached = cached]

Made == {of[d] : d \in DOMAIN of}
DeviceOf(token) == issued[token].device
Fault == faults < MaxFaults /\ faults' = faults + 1

Init ==
    /\ shell \in BOOLEAN /\ issued = <<>> /\ honoured = {} /\ of = <<>> /\ revoked = {}
    /\ session = 0 /\ device = 0 /\ vault = [session |-> 0, device |-> 0] /\ crypto = 0
    /\ tab = [t \in Tab |-> Closed] /\ ended = {} /\ faults = 0

-----------------------------------------------------------------------------
(* main.tsx: restoreFromVault, then the first read.  A shell has one page. *)

Opens(t) ==
    /\ tab[t].pc = "closed"
    /\ shell => \A u \in Tab : tab[u].pc = "closed"
    /\ device' = IF device = 0 /\ shell THEN vault.device ELSE device
    /\ session' = IF session = 0 /\ shell THEN vault.session ELSE session
    /\ tab' = [tab EXCEPT ![t] = Page(IF session' = 0 THEN "login" ELSE "in", session')]
    /\ UNCHANGED <<shell, issued, honoured, of, revoked, vault, crypto, ended, faults>>

Closes(t) ==
    /\ tab[t].pc # "closed" /\ Fault
    /\ "lost" \in LateRaces \/ tab[t].pc \notin {"answered", "cleared"}
    /\ tab' = [tab EXCEPT ![t] = Closed]
    /\ UNCHANGED <<shell, issued, honoured, of, revoked, session, device, vault, crypto, ended>>

\* The webview's storage is evicted under an app that is not running.
Evicts ==
    /\ shell /\ \A t \in Tab : tab[t].pc = "closed"
    /\ session # 0 \/ device # 0 \/ crypto # 0
    /\ Fault /\ session' = 0 /\ device' = 0 /\ crypto' = 0
    /\ UNCHANGED <<shell, issued, honoured, of, revoked, vault, tab, ended>>

-----------------------------------------------------------------------------
(* Login's submit. *)

Submits(t, a) ==
    /\ tab[t].pc = "login" /\ Len(issued) < MaxTokens
    /\ "tabs" \in LateRaces \/ (session = 0 /\ \A u \in Tab \ {t} : tab[u].pc \in {"closed", "login"})
    /\ tab' = [tab EXCEPT ![t] = [@ EXCEPT !.pc = "asked", !.as = a, !.prior = device, !.sent = device]]
    /\ UNCHANGED <<shell, issued, honoured, of, revoked, session, device, vault, crypto, ended, faults>>

\* The server's answer: a registration makes a device whatever id is sent, a login only without one.
Known(t) == tab[t].sent # 0 /\ of[tab[t].sent] = tab[t].as /\ tab[t].sent \notin revoked
Anew(t) == tab[t].as \notin Made \/ tab[t].sent = 0

Answers(t) ==
    /\ tab[t].pc = "asked" /\ Len(issued) < MaxTokens
    /\ Anew(t) \/ Known(t)
    /\ of' = IF Anew(t) THEN Append(of, tab[t].as) ELSE of
    /\ issued' = Append(issued, [account |-> tab[t].as,
                                 device |-> IF Anew(t) THEN Len(of) + 1 ELSE tab[t].sent])
    /\ honoured' = honoured \cup {Len(issued')}
    /\ \/ tab' = [tab EXCEPT ![t] = [@ EXCEPT !.pc = "answered", !.got = Len(issued')]] /\ UNCHANGED faults
       \/ "lost" \in LateRaces /\ Fault /\ tab' = [tab EXCEPT ![t] = Page("login", tab[t].cached)]
    /\ UNCHANGED <<shell, revoked, session, device, vault, crypto, ended>>

Fails(t) ==
    /\ tab[t].pc = "asked" /\ Fault /\ tab' = [tab EXCEPT ![t] = Page("login", tab[t].cached)]
    /\ UNCHANGED <<shell, issued, honoured, of, revoked, session, device, vault, crypto, ended>>

(* UNKNOWN_DEVICE: the id is forgotten, then the state made for it, and    *)
(* the sign-in is tried once more without one.                             *)
Forgets(t) ==
    /\ tab[t].pc = "asked" /\ ~Anew(t) /\ ~Known(t)
    /\ device' = 0 /\ vault' = [vault EXCEPT !.device = 0]
    /\ tab' = [tab EXCEPT ![t].pc = "unknown"]
    /\ UNCHANGED <<shell, issued, honoured, of, revoked, session, crypto, ended, faults>>

Retries(t) ==
    /\ tab[t].pc = "unknown" /\ crypto' = 0
    /\ tab' = [tab EXCEPT ![t] = [@ EXCEPT !.pc = "asked", !.sent = 0]]
    /\ UNCHANGED <<shell, issued, honoured, of, revoked, session, device, vault, ended, faults>>

(* forgetOtherDevice: the state of any other device is cleared.            *)
Clears(t) ==
    /\ tab[t].pc = "answered" /\ tab' = [tab EXCEPT ![t].pc = "cleared"]
    /\ crypto' = IF tab[t].prior = DeviceOf(tab[t].got) THEN crypto ELSE 0
    /\ UNCHANGED <<shell, issued, honoured, of, revoked, session, device, vault, ended, faults>>

\* Mutant: the id is kept in memory with the session
HoldsInMemory(t) ==
    /\ tab[t].pc = "cleared" /\ tab' = [tab EXCEPT ![t] = Page("held", tab[t].got)]
    /\ UNCHANGED <<shell, issued, honoured, of, revoked, session, device, vault, crypto, ended, faults>>
(* holdSession: the id is kept at once, the session only in memory.        *)
Holds(t) ==
    /\ tab[t].pc = "cleared"
    /\ tab' = [tab EXCEPT ![t] = Page("held", tab[t].got)]
    /\ device' = DeviceOf(tab[t].got) /\ vault' = [vault EXCEPT !.device = device']
    /\ UNCHANGED <<shell, issued, honoured, of, revoked, session, crypto, ended, faults>>

Writes(t, token) ==
    /\ session' = token /\ vault' = [vault EXCEPT !.session = token]

\* enter, once the key is unlocked and a code, if there is one, was shown.
Persists(t) ==
    /\ tab[t].pc = "held" /\ tab' = [tab EXCEPT ![t].pc = "in"]
    /\ Writes(t, tab[t].cached)
    /\ UNCHANGED <<shell, issued, honoured, of, revoked, device, crypto, ended, faults>>

-----------------------------------------------------------------------------
(* Signed in. *)

In(t) == tab[t].pc = "in"

\* provider.ts: the first use makes an identity for the device.
Uses(t) ==
    /\ In(t) /\ crypto = 0 /\ tab[t].cached \in honoured
    /\ crypto' = DeviceOf(tab[t].cached)
    /\ UNCHANGED <<shell, issued, honoured, of, revoked, session, device, vault, tab, ended, faults>>

\* VerifyGate's recheck, a picture in Settings.
Rechecks(t) ==
    /\ In(t) /\ tab[t].mark = 0 /\ tab[t].cached \in honoured
    /\ tab' = [tab EXCEPT ![t].mark = tab[t].cached]
    /\ UNCHANGED <<shell, issued, honoured, of, revoked, session, device, vault, crypto, ended, faults>>

(* markEmailVerified and its like write back the session they were asked   *)
(* for.                                                                    *)
Marked(t) ==
    /\ tab[t].mark # 0
    /\ tab' = [tab EXCEPT ![t].mark = 0, ![t].cached = tab[t].mark]
    /\ Writes(t, tab[t].mark)
    /\ UNCHANGED <<shell, issued, honoured, of, revoked, device, crypto, ended, faults>>

Unmarked(t) ==
    /\ tab[t].mark # 0 /\ Fault /\ tab' = [tab EXCEPT ![t].mark = 0]
    /\ UNCHANGED <<shell, issued, honoured, of, revoked, session, device, vault, crypto, ended>>

-----------------------------------------------------------------------------
(* The end of a session. *)

\* Mutant: the keychain keeps its copy
ClearsLocalOnly(t) ==
    /\ "mark" \in LateRaces \/ \A u \in Tab : tab[u].mark = 0
    /\ session' = 0 /\ ended' = ended \cup {tab[t].cached}
    /\ UNCHANGED <<vault, faults>>
(* clearSession forgets the token, and keeps the id.                       *)
ClearsSession(t) ==
    /\ "mark" \in LateRaces \/ \A u \in Tab : tab[u].mark = 0
    /\ session' = 0 /\ ended' = ended \cup {tab[t].cached}
    /\ \/ vault' = [vault EXCEPT !.session = 0] /\ UNCHANGED faults
       \/ "vault" \in LateRaces /\ Fault /\ UNCHANGED vault

(* App's signOut: the logout need not arrive, and the other tabs are told. *)
SignsOut(t) ==
    /\ In(t) /\ ClearsSession(t)
    /\ honoured' \in {honoured, honoured \ {tab[t].cached}}
    /\ tab' = [u \in Tab |-> IF u = t THEN [tab[t] EXCEPT !.pc = "login", !.cached = 0]
                             ELSE IF In(u) THEN [tab[u] EXCEPT !.pc = "login"] ELSE tab[u]]
    /\ UNCHANGED <<shell, issued, of, revoked, device, crypto>>

\* A 401 ends this tab's session, and nobody tells the others.
Unauthorized(t) ==
    /\ In(t) /\ tab[t].cached \notin honoured /\ ClearsSession(t)
    /\ tab' = [tab EXCEPT ![t] = [@ EXCEPT !.pc = "login", !.cached = 0]]
    /\ UNCHANGED <<shell, issued, honoured, of, revoked, device, crypto>>

\* The device is revoked from another one.
Revokes(d) ==
    /\ d \in DOMAIN of \ revoked /\ Fault /\ revoked' = revoked \cup {d}
    /\ honoured' = {token \in honoured : DeviceOf(token) # d}
    /\ UNCHANGED <<shell, issued, of, session, device, vault, crypto, tab, ended>>

Expires(token) ==
    /\ Fault /\ honoured' = honoured \ {token}
    /\ UNCHANGED <<shell, issued, of, revoked, session, device, vault, crypto, tab, ended>>

Next ==
    \/ \E t \in Tab :
        \/ Opens(t) \/ Closes(t) \/ Answers(t) \/ Fails(t) \/ Forgets(t) \/ Retries(t)
        \/ Clears(t) \/ Holds(t) \/ Persists(t) \/ Uses(t)
        \/ Rechecks(t) \/ Marked(t) \/ Unmarked(t) \/ SignsOut(t) \/ Unauthorized(t)
        \/ \E a \in Account : Submits(t, a)
    \/ Evicts
    \/ \E d \in DOMAIN of : Revokes(d)
    \/ \E token \in honoured : Expires(token)

Spec == Init /\ [][Next]_vars

-----------------------------------------------------------------------------
Tokens == 0 .. MaxTokens

TypeOK ==
    /\ shell \in BOOLEAN /\ honoured \subseteq DOMAIN issued /\ revoked \subseteq DOMAIN of
    /\ of \in Seq(Account) /\ issued \in Seq([account : Account, device : DOMAIN of])
    /\ session \in Tokens /\ device \in Tokens /\ crypto \in Tokens
    /\ vault \in [session : Tokens, device : Tokens]
    /\ tab \in [Tab -> [pc : {"closed", "login", "asked", "unknown", "answered", "cleared", "held", "in"},
                        cached : Tokens, as : Account \cup {0}, prior : Tokens, sent : Tokens,
                        got : Tokens, mark : Tokens]]
    /\ ended \subseteq DOMAIN issued /\ faults \in 0 .. MaxFaults

(* The keychain has no session that was let go of: an eviction, and the    *)
(* restore after it, bring none back (api/session.ts: "token gone,         *)
(* keychain copy gone").                                                   *)
KeychainForgets == vault.session # 0 => vault.session \notin ended

(* A session that was let go of does not come back, and none goes that was *)
(* not.  Without LateRaces this is about the keychain and the storage: an  *)
(* answer under way, or another tab's 401, does bring one back, or end it. *)
EndsOnce == [][session' # session => IF session' = 0 THEN session \in ended' \/ Evicts
                                     ELSE session' \notin ended]_vars

(* Whoever is signed in uses the MLS state of its own device, and a        *)
(* profile of one account has made one device that was not revoked.        *)
DeviceIsItself ==
    /\ \A t \in Tab : In(t) => crypto \in {0, DeviceOf(tab[t].cached)}
    /\ Cardinality(Made) = 1 => Cardinality(DOMAIN of \ revoked) <= 1
=============================================================================
