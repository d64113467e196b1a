----------------------------- MODULE NativePush -----------------------------
(***************************************************************************)
(* A phone's registration for push (client/src/sync/native-push.ts and     *)
(* native-push-rules.ts): one record on the device, one row on the server, *)
(* and in between the switch in Settings, the re-registration every launch *)
(* and every new token makes, the unregistrations that are still owed, and *)
(* sign-outs, expired sessions and killed processes.                       *)
(*                                                                         *)
(* Requests of one device may overtake one another: each is sent, served   *)
(* and answered by steps of their own.  Tokens, key material, permission   *)
(* and the server's settings only decide whether a registration is made,   *)
(* and so are a choice.  The provider is "fcm", whose row also carries the *)
(* rings and is kept with its alerts off, or "apns", whose row is not.     *)
(***************************************************************************)
EXTENDS Naturals, FiniteSets

CONSTANTS
    PushRaces,  \* what may come at a bad moment, see Untimely
    MaxPresses, MaxSignIns, MaxEvents,
    MaxFaults   \* requests that fail and processes that are killed

(* What else is assumed not to happen:                                     *)
(*   overlap  the switch is pressed while a launch's or a token's          *)
(*            registration is under way, or one of those begins meanwhile  *)
(*   signout  the person signs out while a registration is under way       *)
(*   lost     a Turn on is served and its answer is not heard, or the      *)
(*            process is killed in the middle of one                       *)
Untimely == {"overlap", "signout", "lost"}

Job == {"launch", "event", "press"}

VARIABLES
    provider,
    row,       \* the server's row: "none", "alerts" or "silent"
    live,      \* the sign-ins whose session the server honours
    owner,     \* this sign-in, or 0
    leaving,   \* is a sign-out under way?
    stored,    \* the record in localStorage, or NoRecord
    job,       \* what is under way in this process
    running,   \* is there a process?
    told,      \* ghost: it has heard the server's answer to a registration
    choice,    \* ghost: the last press that succeeded, off by a sign-out
    signIns, presses, events, faults

vars == <<provider, row, live, owner, leaving, stored, job, running, told, choice,
          signIns, presses, events, faults>>
counts == <<signIns, presses, events, faults>>

\* of: the sign-in it belongs to; entry: "none", or the alerts of the row this device keeps.
Record(of, entry, pending, resync) == [of |-> of, entry |-> entry, pending |-> pending, resync |-> resync]
NoRecord == Record(0, "none", FALSE, FALSE)

\* pc, the sign-in it is for, the row it asks for, and whether it took an unregistration off the queue
Idle == [pc |-> "idle", by |-> 0, alerts |-> "none", queued |-> FALSE]
At(pc) == [Idle EXCEPT !.pc = pc, !.by = owner]
Registering == {"waiting", "posting", "posted"}
Removing == {"removing", "removed"}
Flushing == {"flushing", "flushed"}

Fault == faults < MaxFaults /\ faults' = faults + 1

-----------------------------------------------------------------------------
(* The record. *)

(* carryOver: another sign-in of this device takes the record on, and      *)
(* tells the server again.                                                 *)
CarryOver(o) == IF stored.of \in {0, o} THEN stored
                ELSE [stored EXCEPT !.of = o, !.resync = stored.entry # "none"]

WithPending(record, o, pending) ==
    [(IF record.of = o THEN record ELSE Record(o, "none", FALSE, FALSE)) EXCEPT !.pending = pending]
WithEntry(record, o, entry) == [WithPending(record, o, FALSE) EXCEPT !.entry = entry]

\* Mutant: a sign-out forgets what it should have the server forget
SignedOutForgets == [stored EXCEPT !.entry = "none", !.resync = FALSE]
SignedOut == [stored EXCEPT !.entry = "none", !.resync = FALSE,
                            !.pending = @ \/ stored.entry # "none"]

\* alertEntry: what the switch shows, and what silences the engine's own alerts.
Shown == owner # 0 /\ stored.of = owner /\ stored.entry = "alerts"

-----------------------------------------------------------------------------
Init ==
    /\ provider \in {"apns", "fcm"}
    /\ row = "none" /\ live = {} /\ owner = 0 /\ leaving = FALSE
    /\ stored = NoRecord /\ job = [j \in Job |-> Idle] /\ running = TRUE
    /\ told = FALSE /\ choice = FALSE
    /\ signIns = 0 /\ presses = 0 /\ events = 0 /\ faults = 0

-----------------------------------------------------------------------------
(* startNativePush: what is owed is unregistered first. *)

Flushes ==
    /\ job["launch"].pc = "starting"
    /\ LET record == CarryOver(job["launch"].by) IN
       /\ stored' = record
       /\ job' = [job EXCEPT !["launch"].pc = IF record.pending THEN "flushing" ELSE "asking"]
    /\ UNCHANGED <<provider, row, live, owner, leaving, running, told, choice, counts>>

FlushServed ==
    /\ job["launch"].pc = "flushing" /\ job["launch"].by \in live
    /\ row' = "none" /\ job' = [job EXCEPT !["launch"].pc = "flushed"]
    /\ UNCHANGED <<provider, live, owner, leaving, stored, running, told, choice, counts>>

FlushAnswered ==
    /\ job["launch"].pc = "flushed"
    /\ job' = [job EXCEPT !["launch"].pc = "asking"]
    /\ stored' = WithPending(CarryOver(job["launch"].by), job["launch"].by, FALSE)
    /\ UNCHANGED <<provider, row, live, owner, leaving, running, told, choice, counts>>

FlushFails ==
    /\ job["launch"].pc \in Flushing /\ Fault
    /\ job' = [job EXCEPT !["launch"].pc = "asking"]
    /\ UNCHANGED <<provider, row, live, owner, leaving, stored, running, told, choice, signIns, presses, events>>

\* The plugin reports a token.
Event ==
    /\ running /\ owner # 0 /\ job["event"] = Idle /\ events < MaxEvents
    /\ events' = events + 1 /\ job' = [job EXCEPT !["event"] = At("asking")]
    /\ UNCHANGED <<provider, row, live, owner, leaving, stored, running, told, choice, signIns, presses, faults>>

-----------------------------------------------------------------------------
(* registerNativeToken. *)

Alone(j) == \/ "overlap" \in PushRaces
            \/ \A k \in Job \ {j} : j = "press" \/ k = "press" => job[k].pc \notin Registering \cup Removing

\* Mutant: the queued unregistration is left on the queue, and not waited for
RegistersAtOnce(j, alerts) ==
    /\ owner # 0 /\ Alone(j) /\ stored' = CarryOver(owner)
    /\ job' = [job EXCEPT ![j] = [At("posting") EXCEPT !.alerts = alerts]]
(* An unregistration on the queue is taken off it before the request, and  *)
(* one that is under way is waited for.                                    *)
Registers(j, alerts) ==
    /\ owner # 0 /\ Alone(j)
    /\ LET record == CarryOver(owner) IN
       /\ stored' = [record EXCEPT !.pending = FALSE]
       /\ job' = [job EXCEPT ![j] = [At("waiting") EXCEPT !.alerts = alerts, !.queued = record.pending]]

(* reregisterIfOwed: only for a row this device keeps, as it keeps it.     *)
Reregisters(j) ==
    /\ job[j].pc = "asking" /\ CarryOver(owner).entry # "none"
    /\ Registers(j, CarryOver(owner).entry)
    /\ UNCHANGED <<provider, row, live, owner, leaving, running, told, choice, counts>>

\* Nothing is owed, or the server, the permission or the token stands against it.
OwesNothing(j) ==
    /\ job[j].pc = "asking" /\ job' = [job EXCEPT ![j] = Idle]
    /\ stored' = IF owner = 0 THEN stored ELSE CarryOver(owner)
    /\ UNCHANGED <<provider, row, live, owner, leaving, running, told, choice, counts>>

Sends(j) ==
    /\ job[j].pc = "waiting" /\ job["launch"].pc \notin Flushing
    /\ job' = [job EXCEPT ![j].pc = "posting"]
    /\ UNCHANGED <<provider, row, live, owner, leaving, stored, running, told, choice, counts>>

Served(j) ==
    /\ job[j].pc = "posting" /\ job[j].by \in live
    /\ row' = job[j].alerts /\ job' = [job EXCEPT ![j].pc = "posted"]
    /\ UNCHANGED <<provider, live, owner, leaving, stored, running, told, choice, counts>>

(* afterAlertRegistration settles what was carried over, except when it    *)
(* was a Turn off.                                                         *)
Answered(j) ==
    /\ job[j].pc = "posted" /\ job' = [job EXCEPT ![j] = Idle]
    /\ LET record == WithEntry(CarryOver(job[j].by), job[j].by, job[j].alerts)
           off == j = "press" /\ job[j].alerts = "silent" IN
       stored' = IF off THEN record ELSE [record EXCEPT !.resync = FALSE]
    /\ told' = TRUE /\ choice' = IF j = "press" THEN job[j].alerts = "alerts" ELSE choice
    /\ UNCHANGED <<provider, row, live, owner, leaving, running, counts>>

\* Mutant: a Turn off that did not arrive is not remembered
FailsForgetting(j) ==
    /\ \/ job[j].pc \in {"posting", "posted"}
       \/ job[j].pc = "pressing" /\ job[j].alerts = "silent" /\ owner = 0 /\ Alone(j)
    /\ Fault
    /\ "lost" \in PushRaces \/ ~(j = "press" /\ job[j].pc = "posted" /\ job[j].alerts = "alerts")
    /\ job' = [job EXCEPT ![j] = Idle]
    /\ choice' = (choice /\ ~(j = "press" /\ job[j].alerts = "silent"))
    /\ stored' = IF job[j].queued THEN WithPending(CarryOver(job[j].by), job[j].by, TRUE) ELSE stored
    /\ UNCHANGED <<provider, row, live, owner, leaving, running, told, signIns, presses, events>>
(* What was taken off the queue is put back, and a Turn off that did not   *)
(* arrive is remembered: the next launch tells the server.                 *)
Fails(j) ==
    /\ \/ job[j].pc \in {"posting", "posted"}
       \/ job[j].pc = "pressing" /\ job[j].alerts = "silent" /\ owner = 0 /\ Alone(j)
    /\ Fault
    /\ "lost" \in PushRaces \/ ~(j = "press" /\ job[j].pc = "posted" /\ job[j].alerts = "alerts")
    /\ job' = [job EXCEPT ![j] = Idle]
    /\ LET off == j = "press" /\ job[j].alerts = "silent"
           back == IF job[j].queued THEN WithPending(CarryOver(job[j].by), job[j].by, TRUE) ELSE stored IN
       /\ stored' = IF off THEN WithEntry(CarryOver(job[j].by), job[j].by, "silent") ELSE back
       /\ choice' = (choice /\ ~off)
    /\ UNCHANGED <<provider, row, live, owner, leaving, running, told, signIns, presses, events>>

-----------------------------------------------------------------------------
(* The switch. *)

MayPress == /\ running /\ owner # 0 /\ job["press"] = Idle /\ presses < MaxPresses
            /\ leaving => "signout" \in PushRaces

\* enableNative, as far as its prompts.
TurnsOn ==
    /\ MayPress /\ ~Shown /\ presses' = presses + 1
    /\ job' = [job EXCEPT !["press"] = At("pressed")]
    /\ UNCHANGED <<provider, row, live, owner, leaving, stored, running, told, choice, signIns, events, faults>>

Enables ==
    /\ job["press"].pc = "pressed" /\ Registers("press", "alerts")
    /\ UNCHANGED <<provider, row, live, owner, leaving, running, told, choice, counts>>

GivesUp ==
    /\ job["press"].pc = "pressed" /\ job' = [job EXCEPT !["press"] = Idle]
    /\ UNCHANGED <<provider, row, live, owner, leaving, stored, running, told, choice, counts>>

\* disableNative: Android keeps the row of a device that has one.
TurnsOff ==
    /\ MayPress /\ Shown /\ presses' = presses + 1
    /\ job' = [job EXCEPT !["press"] = [At("pressing") EXCEPT !.alerts = IF provider = "fcm" THEN "silent" ELSE "none"]]
    /\ UNCHANGED <<provider, row, live, owner, leaving, stored, running, told, choice, signIns, events, faults>>

Silences ==
    /\ job["press"].pc = "pressing" /\ provider = "fcm"
    /\ CarryOver(job["press"].by).entry # "none" /\ Registers("press", "silent")
    /\ UNCHANGED <<provider, row, live, owner, leaving, running, told, choice, counts>>

Unregisters ==
    /\ job["press"].pc = "pressing" /\ Alone("press")
    /\ provider = "apns" \/ CarryOver(job["press"].by).entry = "none"
    /\ stored' = CarryOver(job["press"].by)
    /\ job' = [job EXCEPT !["press"].pc = "removing"]
    /\ UNCHANGED <<provider, row, live, owner, leaving, running, told, choice, counts>>

Removed ==
    /\ job["press"].pc = "removing" /\ job["press"].by \in live
    /\ row' = "none" /\ job' = [job EXCEPT !["press"].pc = "removed"]
    /\ UNCHANGED <<provider, live, owner, leaving, stored, running, told, choice, counts>>

(* What did not reach the server, or may not have, is queued.              *)
Forgets(reached) ==
    /\ IF reached THEN job["press"].pc = "removed" /\ UNCHANGED faults
                  ELSE job["press"].pc \in Removing /\ Fault
    /\ LET by == job["press"].by
           record == [CarryOver(by) EXCEPT !.entry = "none"] IN
       stored' = IF reached THEN record ELSE WithPending(record, by, TRUE)
    /\ choice' = FALSE /\ job' = [job EXCEPT !["press"] = Idle]
    /\ UNCHANGED <<provider, row, live, owner, leaving, running, told, signIns, presses, events>>

-----------------------------------------------------------------------------
(* Sessions and processes. *)

\* The sessions of one device follow one another.
SignsIn ==
    /\ running /\ owner = 0 /\ signIns < MaxSignIns /\ job["launch"] = Idle
    /\ signIns' = signIns + 1 /\ owner' = signIns' /\ live' = live \cup {signIns'}
    /\ job' = [job EXCEPT !["launch"] = [Idle EXCEPT !.pc = "starting", !.by = owner']]
    /\ UNCHANGED <<provider, row, leaving, stored, running, told, choice, presses, events, faults>>

\* noteSignOut
SignsOut ==
    /\ running /\ owner # 0 /\ ~leaving /\ leaving' = TRUE
    /\ "signout" \in PushRaces \/ \A j \in Job : job[j].pc \notin Registering \cup {"pressed", "pressing"}
    /\ stored' = SignedOut /\ choice' = FALSE
    /\ UNCHANGED <<provider, row, live, owner, job, running, told, counts>>

\* The logout route forgets this device's tokens, when it is reached.
Logout ==
    /\ leaving /\ owner \in live
    /\ live' = live \ {owner} /\ row' = "none"
    /\ UNCHANGED <<provider, owner, leaving, stored, job, running, told, choice, counts>>

Leaves ==
    /\ running /\ leaving /\ owner' = 0 /\ leaving' = FALSE
    /\ IF owner \in live THEN Fault ELSE UNCHANGED faults
    /\ UNCHANGED <<provider, row, live, stored, job, running, told, choice, signIns, presses, events>>

\* Nobody asked for it, and the server forgets nothing.
Expires ==
    /\ running /\ owner # 0 /\ ~leaving /\ Fault
    /\ live' = live \ {owner} /\ owner' = 0
    /\ UNCHANGED <<provider, row, leaving, stored, job, running, told, choice, signIns, presses, events>>

Killed ==
    /\ running /\ Fault /\ running' = FALSE
    /\ "lost" \in PushRaces \/ ~(job["press"].pc \in Registering /\ job["press"].alerts = "alerts")
    /\ job' = [j \in Job |-> Idle] /\ leaving' = FALSE /\ told' = FALSE
    /\ UNCHANGED <<provider, row, live, owner, stored, choice, signIns, presses, events>>

Launches ==
    /\ ~running /\ running' = TRUE
    /\ job' = IF owner = 0 THEN job ELSE [job EXCEPT !["launch"] = At("starting")]
    /\ UNCHANGED <<provider, row, live, owner, leaving, stored, told, choice, counts>>

Next ==
    \/ Flushes \/ FlushServed \/ FlushAnswered \/ FlushFails \/ Event
    \/ \E j \in Job : Reregisters(j) \/ OwesNothing(j) \/ Sends(j) \/ Served(j) \/ Answered(j) \/ Fails(j)
    \/ TurnsOn \/ Enables \/ GivesUp \/ TurnsOff \/ Silences \/ Unregisters \/ Removed
    \/ \E reached \in BOOLEAN : Forgets(reached)
    \/ SignsIn \/ SignsOut \/ Logout \/ Leaves \/ Expires \/ Killed \/ Launches

Spec == Init /\ [][Next]_vars

-----------------------------------------------------------------------------
Alerts == {"none", "alerts", "silent"}
PCs == {"idle", "starting", "asking", "pressed", "pressing"} \cup Registering \cup Removing \cup Flushing

TypeOK ==
    /\ provider \in {"apns", "fcm"} /\ row \in Alerts
    /\ live \subseteq 1 .. MaxSignIns /\ owner \in 0 .. MaxSignIns /\ leaving \in BOOLEAN
    /\ stored \in [of : 0 .. MaxSignIns, entry : Alerts, pending : BOOLEAN, resync : BOOLEAN]
    /\ job \in [Job -> [pc : PCs, by : 0 .. MaxSignIns, alerts : Alerts, queued : BOOLEAN]]
    /\ running \in BOOLEAN /\ told \in BOOLEAN /\ choice \in BOOLEAN
    /\ signIns \in 0 .. MaxSignIns /\ presses \in 0 .. MaxPresses
    /\ events \in 0 .. MaxEvents /\ faults \in 0 .. MaxFaults

Quiet == \A j \in Job : job[j] = Idle

(* A phone whose person turned alerts off, or signed out, is not alerted   *)
(* by the server, unless the device still knows that it owes the server    *)
(* that: by its queue, or by a row it registers silent at every launch.    *)
OffIsOwed ==
    Quiet /\ ~leaving /\ ~choice =>
        ~Shown /\ (row = "alerts" => stored.pending \/ stored.entry = "silent")

(* A phone that says it is alerted by push, and so shows nothing of its    *)
(* own, is: no unregistration lands after the registration it meant to     *)
(* precede.                                                                *)
ShownIsServed == Quiet /\ ~leaving /\ Shown /\ told => row = "alerts"
=============================================================================
