------------------------------ MODULE MCDevice ------------------------------
(* What a device answers for outside the sync loop: its microphone         *)
(* (ShellMic), its camera and shared screen (ShellVideo), the account's    *)
(* key (AccountKeys), and the session with the device's id (Session).  A   *)
(* behaviour is one part's, and the others rest.                           *)
EXTENDS ShellMic

CONSTANTS Commands, Cameras, MaxTroubles,
          Device, Words, MaxKeys, MaxCodes, MaxTurns,
          Tab, Account, MaxTokens, MaxFaults

VARIABLES part,
    carried, hungUp, torn, video, turn, sent, lit, loud, changed, buttons, troubles,
    password, row, keys, codes, kept, live, flow, written, unseen, keyTurns,
    shell, issued, honoured, of, revoked, signedIn, deviceId, vault, crypto, tab, ended, faults

(* A camera is asked for by name or not at all; a command is neither of    *)
(* the records that may stand where there is none.                         *)
ASSUME VideoAssumption ==
    /\ None \notin Commands
    /\ "unasked" \notin Cameras \cup {None}
    /\ None \notin [muted : BOOLEAN, cap : Commands \cup {None}, dev : Cameras \cup {None}]
    /\ None \notin [cap : Commands \cup {None}, ticket : Nat]

V == INSTANCE ShellVideo WITH
        VideoRaces <- {}, session <- carried, down <- hungUp, cmd <- sent, dirty <- changed, page <- buttons
K == INSTANCE AccountKeys WITH
        Races <- {}, shown <- written, turns <- keyTurns
S == INSTANCE Session WITH LateRaces <- {}, session <- signedIn, device <- deviceId

videoVars == <<carried, hungUp, torn, video, turn, sent, lit, loud, changed, buttons, troubles>>
keyVars == <<password, row, keys, codes, kept, live, flow, written, unseen, keyTurns>>
sessionVars == <<shell, issued, honoured, of, revoked, signedIn, deviceId, vault, crypto, tab, ended, faults>>
deviceVars == <<part, vars, videoVars, keyVars, sessionVars>>

(* A part that rests has one initial state. *)
DeviceInit ==
    /\ part \in {"microphone", "video", "keys", "session"}
    /\ Init /\ V!Init /\ K!Init /\ S!Init
    /\ part = "video" \/ buttons.dev = CHOOSE d \in Cameras : TRUE
    /\ part = "session" \/ ~shell

DeviceNext ==
    \/ part = "microphone" /\ Next /\ UNCHANGED <<part, videoVars, keyVars, sessionVars>>
    \/ part = "video" /\ V!Next /\ UNCHANGED <<part, vars, keyVars, sessionVars>>
    \/ part = "keys" /\ K!Next /\ UNCHANGED <<part, vars, videoVars, sessionVars>>
    \/ part = "session" /\ S!Next /\ UNCHANGED <<part, vars, videoVars, keyVars>>

DeviceSpec == DeviceInit /\ [][DeviceNext]_deviceVars

-----------------------------------------------------------------------------
(* Neither the microphone, nor a camera, a screen or a loopback captures   *)
(* for a call that is over, or with nothing left that will stop it.        *)
NothingRunsOn == DarkWhenClosed /\ V!NothingRunsOn
(* At rest the buttons of the camera and the share say what is sent.       *)
ShownIsSent == V!ShownIsSent
(* The key's row is of one key, under both wraps and on every device.      *)
RowIsOneKey == K!RowIsOneKey
(* The recovery code that was shown last opens the account's key.          *)
WrittenCodeOpens == K!WrittenCodeOpens
(* A session that was let go of does not come back from the keychain, and  *)
(* none goes that was not.                                                 *)
EndsOnce == S!EndsOnce
(* Whoever is signed in uses the MLS state of its own device, of which the *)
(* account has one.                                                        *)
DeviceIsItself == S!DeviceIsItself
=============================================================================
