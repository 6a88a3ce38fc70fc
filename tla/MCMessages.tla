----------------------------- MODULE MCMessages -----------------------------
(***************************************************************************)
(* The notification outbox and the two parts that fill it, for TLC.  Each  *)
(* behaviour plays one scene on the shared outbox:                         *)
(*   outbox    messages of any origin, dispatched;                         *)
(*   reports   the planner and the runners, the dispatchers at rest, one    *)
(*             recipient;                                                  *)
(*   audience  the same for all recipients under one mapping, for safety   *)
(*             alone: nothing is said of what goes on;                     *)
(*   handover  one run, its message also dispatched meanwhile;             *)
(*   healing   incidents and recoveries, nobody to alert;                  *)
(*   alerts    incidents and their alerts, no commands.                    *)
(* What a scene leaves at rest works on other rows of the database.        *)
(***************************************************************************)
EXTENDS Messaging

CONSTANTS
    Scenes,         \* those a run plays
    Workers         \* instances: dispatchers, runners and engines

VARIABLE scene

mcVars == <<scene, messagingVars>>

MCKeys == OutboxKeys \cup (Runs \X Recipients) \cup Alerts
MCContents == (0 .. MaxFigures) \X (1 .. MaxTemplate)
MCCallbacks == {<<"READ", 1>>, <<"FAILED", 1>>, <<"DELIVERED", 2>>, <<"UNKNOWN", 3>>}

Play(name, next, others) == scene = name /\ next /\ UNCHANGED <<others, scene>>

OneRecipient == CHOOSE p \in Recipients : TRUE
Alone == \A r \in Runs : Of(r) \subseteq {OneRecipient}

ReportScenes == {"reports", "audience", "handover"}
OpsScenes == {"healing", "alerts"}

MCInit ==
    /\ scene \in Scenes
    /\ ReportInit /\ OpsInit
    /\ scene \notin ReportScenes => nextSlot = 1 /\ mapping = 0
    /\ scene = "audience" => mapping = 1
    /\ scene = "handover" => nextSlot = 2 /\ mapping = 1 /\ Of(1) = {OneRecipient}
    /\ scene = "reports" => Alone
    /\ scene # "alerts" => alertMapping = 0
    /\ presence = [v \in Devices |-> IF scene = "alerts" THEN "offline" ELSE "fresh"]
    /\ lapses = CASE scene = "outbox" -> 0
                  [] scene \in ReportScenes \cup {"alerts"} -> MaxLapses - 1
                  [] OTHER -> MaxLapses

OutboxNext ==
    \/ \E k \in OutboxKeys, c \in {<<0, 1>>, <<1, 1>>} : EnqueueNotification(k, c)
    \/ DispatchNext

HandoverNext ==
    \/ \E w \in Workers : RunnerStep(w) \/ RunnerFault(w)
    \/ RunTimePasses
    \/ DispatchNext /\ UNCHANGED reportOnlyVars

HealingNext ==
    \/ World \/ EngineNext
    \/ Operate({})
    \/ \E e \in Workers : Detect(e, {})

AlertsNext ==
    \/ AlertMappingChanges \/ EngineNext
    \/ \E v \in Devices : RevokeDevice(v)
    \/ \E to \in SUBSET Addressees, e \in Workers : Detect(e, to)

MCNext ==
    \/ Play("outbox", OutboxNext, <<reportOnlyVars, opsOnlyVars>>)
    \/ Play("reports", RunsNext /\ Alone', opsOnlyVars)
    \/ Play("audience", RunsNext /\ UNCHANGED mapping, opsOnlyVars)
    \/ Play("handover", HandoverNext, opsOnlyVars)
    \/ Play("healing", HealingNext, reportOnlyVars)
    \/ Play("alerts", AlertsNext, reportOnlyVars)

MCSafe == MCInit /\ [][MCNext]_mcVars

\* The loop of each instance goes on, leases and backoffs pass; each scan
\* ends, and looks at every active incident.  Nothing is assumed of devices,
\* operators, the planner and the figures.
WorkerGoesOn(w) ==
    \/ Play("outbox", Dispatch(w), <<reportOnlyVars, opsOnlyVars>>)
    \/ scene \in {"reports", "handover"} /\ RunnerStep(w) /\ UNCHANGED <<opsOnlyVars, scene>>
    \/ scene \in OpsScenes /\ Drain(w) /\ UNCHANGED <<reportOnlyVars, scene>>

DetectorGoesOn(w) ==
    /\ scene \in OpsScenes
    /\ \E to \in SUBSET Addressees : OpenIncident(w, to) \/ ResolveIncident(w, to)
    /\ UNCHANGED <<reportOnlyVars, scene>>

ScanGoesOn(w, A) == scene \in OpsScenes /\ A /\ UNCHANGED <<reportOnlyVars, scene>>

TimePasses ==
    \/ scene \in {"outbox", "handover"} /\ NoteTimePasses
       /\ UNCHANGED <<reportOnlyVars, opsOnlyVars, scene>>
    \/ scene \in {"reports", "handover"} /\ RunTimePasses /\ UNCHANGED <<opsOnlyVars, scene>>
    \/ scene \in OpsScenes /\ (\E i \in IncidentIds : RecoveryComesDue(i))
       /\ UNCHANGED <<reportOnlyVars, scene>>

MCSpec ==
    /\ MCSafe
    /\ \A w \in Workers :
        /\ WF_mcVars(WorkerGoesOn(w))
        /\ WF_mcVars(Play("handover", Dispatch(w) /\ UNCHANGED reportOnlyVars, opsOnlyVars))
        /\ WF_mcVars(DetectorGoesOn(w))
        /\ SF_mcVars(ScanGoesOn(w, ScanEnds(w)))
        /\ \A i \in IncidentIds : SF_mcVars(ScanGoesOn(w, CheckOffline(w, i)))
    /\ WF_mcVars(TimePasses)
-----------------------------------------------------------------------------
\* Where dispatchers run, again and again no message is left undecided,
\* however leases expire and wherever they die (dispatcher.go,
\* claimNotification).
EveryMessageSettles ==
    []<>(scene \in {"outbox", "handover"} =>
            \A k \in Keys \ Alerts : outbox[k].st \in Settled \cup {"none"})

\* No run, recovery or alert is left undecided either, and a device that is
\* back is not said to be offline for ever.
EveryTaskSettles ==
    (scene # "audience" => EveryRunSettles) /\ EveryRecoverySettles /\ EveryAlertSettles /\ OfflineClears
=============================================================================
