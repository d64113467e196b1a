------------------------------- MODULE MCSync -------------------------------
(* Two loops that must not forget anything: the page's sync loop with its  *)
(* socket (SyncLoop), and the check for a call that a shell still has      *)
(* (ShellCall).  A behaviour is one's, and the other rests.                *)
EXTENDS SyncLoop

CONSTANTS Calls, Commands, MaxLoads, Retries

\* No run of a command is what stands for none.
ASSUME CallAssumption == None \notin Calls /\ None \notin Commands

VARIABLES part,
    session, claim, cancelled, con, room, dis, tr, cur, join, down, check, tries, missed, lock, loads

S == INSTANCE ShellCall WITH InOrder <- TRUE

shellVars == <<session, claim, cancelled, con, room, dis, tr, cur, join, down, check, tries, missed, lock,
               loads>>
syncVars == <<part, vars, shellVars>>

SyncInit == part \in {"loop", "shell"} /\ Init /\ S!Init

SyncNext ==
    \/ part = "loop" /\ Next /\ UNCHANGED <<part, shellVars>>
    \/ part = "shell" /\ S!Next /\ UNCHANGED <<part, vars>>

(* Of each part, the fairness its module states.                           *)
InLoop(A) == part = "loop" /\ A /\ UNCHANGED <<part, shellVars>>

SyncFairness ==
    /\ WF_syncVars(InLoop(Settles))
    /\ SF_syncVars(InLoop(Prepared)) /\ SF_syncVars(InLoop(Flushed)) /\ SF_syncVars(InLoop(Rested))
    /\ SF_syncVars(InLoop(Drained(TRUE))) /\ SF_syncVars(InLoop(Swept(TRUE) /\ news["post"] = "taken"))
    /\ WF_syncVars(InLoop(Stale)) /\ WF_syncVars(InLoop(ReconnectTimer))
    /\ \A k \in Sock :
         WF_syncVars(InLoop(\E final \in BOOLEAN : Closed(k, final) /\ m.conn[k] = "closing"))
    /\ SF_syncVars(InLoop(\E k \in Sock : ~Inert(k) /\ Ready(k)))
    /\ WF_syncVars(part = "shell" /\ S!Settling /\ UNCHANGED <<part, vars>>)

SyncSpec == SyncInit /\ [][SyncNext]_syncVars /\ SyncFairness

-----------------------------------------------------------------------------
(* No room of the shell is open that nothing will close, and when nothing  *)
(* is under way its call is the page's.                                    *)
CallIsThePages == S!NoRoomIsLost /\ S!PageAndShellAgree
(* A check adopts a call of the page before, never this page's own, and a  *)
(* disconnect closes the call it was sent for.                             *)
TouchesItsOwn == S!AdoptsStrangers /\ S!ClosesItsOwn
(* A call that reaches the shell is closed, or held by a page.             *)
FoundOrClosed == S!FoundOrClosed
=============================================================================
