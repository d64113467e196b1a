------------------------------ MODULE MCFlows -------------------------------
(* What must come in the end, of three parts of the client that wait for   *)
(* each other's answers and for nobody's attention: the outbox of a hub    *)
(* channel beside a conversation without its key, the inbox and the        *)
(* archive, and a call that has ended.  Each part runs on an instance of   *)
(* its own; a behaviour is one part's, and the others rest.                *)
EXTENDS Naturals, TLC

CONSTANTS first, public, dm, hub, t1, NoTab,  \* the outbox
          g1, g2,                       \* the inbox
          c1, None                      \* the call

VARIABLES part,
    clock, createdAt, stage, outbox, stored, retrying, pc, snap, localKey, knownGone,
    retries, stops, serverKey, gone, seen, requests, reply, before, givenUp, copies,
    sent, member, missed, inbox, wrapped, inGroup, consumed, keys, rec, pending, walk,
    hydration, job, step, booted, local, tries, crashes, fails, forfeited,
    ui, plan, attempt, transport, leaving, leaves, watching, joins, downs, lock, room,
    row, open, forgot, followUp, sweep

O == INSTANCE Outbox WITH
        Message <- {first, public}, Conversation <- {dm, hub}, Readable <- {hub}, Tab <- {t1},
        ConvOf <- [m \in {first, public} |-> IF m = public THEN hub ELSE dm],
        MaxKey <- 1, MaxLate <- 0, MaxRetries <- 0, MaxStops <- 0

\* The first message is sealed under a key of its own, the second has an envelope.
I == INSTANCE Inbox WITH
        Count <- 2, Gen <- {g1, g2}, GenOf <- [m \in {1, 2} |-> IF m = 1 THEN g2 ELSE g1],
        Sealed <- {2}, Own <- {}, Tab <- {t1}, InboxPage <- 2, ArchivePage <- 1,
        WalkPages <- 1, Attempts <- 2, MaxCrashes <- 0, MaxFails <- 1

V == INSTANCE VoiceSession WITH
        Conv <- {c1}, Sealed <- {c1}, Mortal <- {c1}, Joins <- {1, 2}, Downs <- {1, 2, 3},
        MaxLeaves <- 1, Hasty <- FALSE, gone <- forgot

outboxVars == <<clock, createdAt, stage, outbox, stored, retrying, pc, snap, localKey, knownGone,
                retries, stops, serverKey, gone, seen, requests, reply, before, givenUp, copies>>
inboxVars == <<sent, member, missed, inbox, wrapped, inGroup, consumed, keys, rec, pending, walk,
               hydration, job, step, booted, local, tries, crashes, fails, forfeited>>
callVars == <<ui, plan, attempt, transport, leaving, leaves, watching, joins, downs, lock, room,
              row, open, forgot, followUp, sweep>>
vars == <<part, outboxVars, inboxVars, callVars>>

Init ==
    /\ part \in {"outbox", "inbox", "call"}
    /\ O!Init /\ I!Init /\ V!Init

Next ==
    \/ part = "outbox" /\ O!Next /\ UNCHANGED <<part, inboxVars, callVars>>
    \/ part = "inbox" /\ I!Next /\ UNCHANGED <<part, outboxVars, callVars>>
    \/ part = "call" /\ V!Next /\ UNCHANGED <<part, outboxVars, inboxVars>>

(* Of each part, the fairness its module states (KeylessSpec, LiveSpec).   *)
OutboxFlows(A) == part = "outbox" /\ A /\ UNCHANGED <<part, inboxVars, callVars>>
InboxFlows(A) == part = "inbox" /\ A /\ UNCHANGED <<part, outboxVars, callVars>>
CallFlows(A) == part = "call" /\ A /\ UNCHANGED <<part, outboxVars, inboxVars>>

Fairness ==
    /\ WF_vars(OutboxFlows(O!Work(t1)))
    /\ WF_vars(OutboxFlows(\E m \in {first, public} : O!OnAnswer(t1, m)))
    /\ SF_vars(OutboxFlows(O!AnsweredOnMerits(t1)))
    /\ SF_vars(OutboxFlows(O!MeritsArrive(t1)))
    /\ WF_vars(InboxFlows(I!Pass(t1)))
    /\ SF_vars(InboxFlows(I!RefreshKeys(t1))) /\ SF_vars(InboxFlows(I!ForwardBegin(t1)))
    /\ WF_vars(CallFlows(V!Settling)) /\ WF_vars(CallFlows(V!Hearing))

LiveSpec == Init /\ [][Next]_vars /\ Fairness

-----------------------------------------------------------------------------
(* A hub channel's message goes out whatever becomes of the others.        *)
ChannelsFlowOn == O!ChannelsFlowOn
(* A message whose key was shared becomes readable.                        *)
SharedBecomesReadable == I!SharedBecomesReadable
(* A call that has ended is left.                                          *)
EndedLeaves == V!EndedLeaves
=============================================================================
