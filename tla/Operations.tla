----------------------------- MODULE Operations -----------------------------
(***************************************************************************)
(* Operational incidents, their alerts and the healing of a device that    *)
(* comes back (internal/operations, internal/adapter/postgres).            *)
(* The engine of each instance is one loop: the detector scans and         *)
(* resolves, the alert processor enqueues the alerts as messages of the    *)
(* notification outbox, the recovery worker asks for a synchronisation.    *)
(*                                                                         *)
(* Two instances run the same loop with no lease between them; only the    *)
(* unique indexes and the row locks order them.  The rules modelled are    *)
(* the offline device (a condition that opens and clears) and the failed   *)
(* command (an event, as blocked reports and messages are).  A command is  *)
(* what DeviceControl details; here it only goes forward.                  *)
(***************************************************************************)
EXTENDS Notifications, FiniteSets

CONSTANTS
    Devices,
    Instances,
    Addressees,             \* recipients of alerts
    AutoSyncOnReconnect,
    MaxRecoveryAttempts,
    MaxIncidents,           \* bound: rows of operational_incidents
    MaxAlertMapping,        \* bound: versions of the alert templates' mapping
    MaxSilences             \* bound: times a device falls silent

IncidentIds == 1 .. MaxIncidents
Events == {"opened", "resolved"}
Alerts == IncidentIds \X Events \X Addressees

ASSUME OperationsAssumption ==
    /\ AutoSyncOnReconnect \in BOOLEAN
    /\ MaxRecoveryAttempts \in Nat \ {0} /\ MaxIncidents \in Nat
    /\ MaxAlertMapping \in Nat /\ MaxSilences \in Nat
    /\ IsFiniteSet(Addressees) /\ Nothing \notin Devices
    /\ Alerts \subseteq Keys
    /\ {0} \X (1 .. MaxAlertMapping) \subseteq Contents

VARIABLES
    presence,       \* age of device_control_presence.last_seen_at
    lifecycle,      \* devices.status
    command,        \* device_control_commands
    incident,       \* operational_incidents
    alert,          \* operational_alert_deliveries
    recovery,       \* operational_recovery_actions
    engine,         \* where the loop of each instance is
    alertMapping,   \* version of the alert templates' mapping, 0 for none
    silences

opsOnlyVars == <<presence, lifecycle, command, incident, alert, recovery, engine,
                 alertMapping, silences>>
opsVars == <<noteVars, opsOnlyVars>>
-----------------------------------------------------------------------------
Active == {"open", "acknowledged"}
\* 0 is the command an operator asks for, the others those of recoveries.
CommandIds == {0} \cup IncidentIds
Rules == {"offline", "failed"}

NoIncident == [st |-> "none", rule |-> "none", subject |-> Nothing, code |-> "none"]
\* born: created_at, by the number of the transaction that wrote it.
NoAlert == [st |-> "none", born |-> 0]
NoAction == [st |-> "none", attempts |-> 0, due |-> FALSE]
NoCommand == [st |-> "none", device |-> Nothing]

Rows(rule, s) ==
    {i \in IncidentIds : incident[i].rule = rule /\ incident[i].subject = s}
ActiveRows(rule, s) == {i \in Rows(rule, s) : incident[i].st \in Active}
UnderWayFor(v) == {c \in CommandIds : command[c].st = "active" /\ command[c].device = v}

OpsInit ==
    /\ NoteInit
    /\ presence \in [Devices -> {"fresh", "offline"}]
    /\ lifecycle = [v \in Devices |-> "active"]
    /\ command = [c \in CommandIds |-> NoCommand]
    /\ incident = [i \in IncidentIds |-> NoIncident]
    /\ alert = [a \in Alerts |-> NoAlert]
    /\ recovery = [i \in IncidentIds |-> NoAction]
    /\ engine = [e \in Instances |-> [at |-> "scan"]]
    /\ alertMapping \in {0, 1} \cap 0 .. MaxAlertMapping
    /\ silences = 0
-----------------------------------------------------------------------------
(* The world.                                                              *)

\* A poll of an active device.
DeviceContacts(v) ==
    /\ lifecycle[v] = "active" /\ presence[v] # "fresh"
    /\ presence' = [presence EXCEPT ![v] = "fresh"]
    /\ UNCHANGED <<noteVars, lifecycle, command, incident, alert, recovery, engine,
                   alertMapping, silences>>

\* OnlineWindow passes, then OfflineAfter.
DeviceSilent(v) ==
    /\ \/ presence[v] = "fresh" /\ silences < MaxSilences /\ silences' = silences + 1
          /\ presence' = [presence EXCEPT ![v] = "quiet"]
       \/ presence[v] = "quiet" /\ UNCHANGED silences
          /\ presence' = [presence EXCEPT ![v] = "offline"]
    /\ UNCHANGED <<noteVars, lifecycle, command, incident, alert, recovery, engine,
                   alertMapping>>

RevokeDevice(v) ==
    /\ lifecycle[v] = "active"
    /\ lifecycle' = [lifecycle EXCEPT ![v] = "revoked"]
    /\ UNCHANGED <<noteVars, presence, command, incident, alert, recovery, engine,
                   alertMapping, silences>>

\* CreateCommand: one command of a device is under way, one row for a key.
CommandAfter(c, v) == [command EXCEPT ![c] = [st |-> "active", device |-> v]]

OperatorSyncs(v) ==
    /\ lifecycle[v] = "active" /\ command[0].st = "none" /\ UnderWayFor(v) = {}
    /\ command' = CommandAfter(0, v)
    /\ UNCHANGED <<noteVars, presence, lifecycle, incident, alert, recovery, engine,
                   alertMapping, silences>>

CommandEnds(c, to) ==
    /\ command[c].st = "active"
    /\ command' = [command EXCEPT ![c].st = to]
    /\ UNCHANGED <<noteVars, presence, lifecycle, incident, alert, recovery, engine,
                   alertMapping, silences>>

AlertMappingChanges ==
    /\ alertMapping < MaxAlertMapping
    /\ alertMapping' = alertMapping + 1
    /\ UNCHANGED <<noteVars, presence, lifecycle, command, incident, alert, recovery,
                   engine, silences>>
-----------------------------------------------------------------------------
(* The detector.                                                           *)

EngineGoes(e, to) == engine' = [engine EXCEPT ![e] = to]

\* Any error ends the phase: the loop goes on with the next one.
EngineFails(e, phase) ==
    /\ lapses < MaxLapses
    /\ lapses' = lapses + 1
    /\ EngineGoes(e, [at |-> phase])
    /\ UNCHANGED <<outbox, history, courier, reached, postponed, presence, lifecycle,
                   command, incident, alert, recovery, alertMapping, silences>>

\* The next row: rows are made in the order of their numbers.
FreeRow == CHOOSE i \in IncidentIds : incident[i].st = "none" /\
               \A j \in IncidentIds : j < i => incident[j].st # "none"
HasFreeRow == \E i \in IncidentIds : incident[i].st = "none"

ScanOfflineDevices ==
    {v \in Devices : lifecycle[v] = "active" /\ presence[v] = "offline"
                     /\ ActiveRows("offline", v) = {}}
ScanFailedCommands ==
    {c \in CommandIds : command[c].st = "failed" /\ Rows("failed", c) = {}}

\* One candidate of the scans.
ScanFinds(e) ==
    /\ engine[e].at = "scan" /\ HasFreeRow
    /\ \E cand \in ({"offline"} \X ScanOfflineDevices) \cup ({"failed"} \X ScanFailedCommands) :
        EngineGoes(e, [at |-> "open", rule |-> cand[1], subject |-> cand[2]])
    /\ UNCHANGED <<noteVars, presence, lifecycle, command, incident, alert, recovery,
                   alertMapping, silences>>

\* The unique indexes: one active row for a subject, one row for an event.
Taken(rule, s) ==
    IF rule = "failed" THEN Rows(rule, s) # {} ELSE ActiveRows(rule, s) # {}

NextBorn == 1 + Cardinality({alert[a].born : a \in Alerts} \ {0})

\* insertMissingDeliveries: one row for an incident, event and recipient.
WithAlerts(i, event, to) ==
    [a \in Alerts |->
        IF a[1] = i /\ a[2] = event /\ a[3] \in to /\ alert[a].st = "none"
        THEN [st |-> "pending", born |-> NextBorn] ELSE alert[a]]

\* OpenStatefulAtomic and OpenEventAtomic; to whom is read just before.
OpenIncident(e, to) ==
    /\ engine[e].at = "open"
    /\ IF ~Taken(engine[e].rule, engine[e].subject) /\ HasFreeRow
       THEN /\ incident' = [incident EXCEPT ![FreeRow] =
                    [st |-> "open", rule |-> engine[e].rule, subject |-> engine[e].subject,
                     code |-> "none"]]
            /\ alert' = WithAlerts(FreeRow, "opened", to)
       ELSE UNCHANGED <<incident, alert>>
    /\ EngineGoes(e, [at |-> "scan"])
    /\ UNCHANGED <<noteVars, presence, lifecycle, command, recovery, alertMapping, silences>>

Resolving(e, i, code, heal) ==
    EngineGoes(e, [at |-> "resolve", row |-> i, code |-> code, heal |-> heal])

NoLongerActive(v) == lifecycle[v] # "active"

\* resolveOffline, of an incident that ActiveByRule lists: the lifecycle
\* goes before the presence.
CheckOffline(e, i) ==
    LET v == incident[i].subject IN
    /\ engine[e].at = "scan"
    /\ incident[i].rule = "offline" /\ incident[i].st \in Active
    /\ \/ NoLongerActive(v) /\ Resolving(e, i, "noActive", FALSE)
       \/ /\ ~NoLongerActive(v) /\ presence[v] = "fresh"
          /\ Resolving(e, i, "reconnect", AutoSyncOnReconnect)
    /\ UNCHANGED <<noteVars, presence, lifecycle, command, incident, alert, recovery,
                   alertMapping, silences>>
-----------------------------------------------------------------------------
(* Resolutions.                                                            *)

\* Mutant: what the scan saw of the device is used.
StillActiveSeen(i) == TRUE

\* The device's row, locked until the resolution is committed.
StillActive(i) == incident[i].rule = "offline" => lifecycle[incident[i].subject] = "active"

Resolved(i, code) == [incident EXCEPT ![i].st = "resolved", ![i].code = code]

\* ResolveAtomic: the first to resolve it writes the alerts and the recovery.
ResolveIncident(e, to) ==
    LET i == engine[e].row
        code == IF StillActive(i) THEN engine[e].code ELSE "noActive"
    IN
    /\ engine[e].at = "resolve"
    /\ IF incident[i].st \in Active
       THEN /\ incident' = Resolved(i, code)
            /\ alert' = WithAlerts(i, "resolved", to)
            /\ recovery' = IF engine[e].heal /\ code # "noActive" /\ recovery[i].st = "none"
                           THEN [recovery EXCEPT ![i] = [st |-> "pending", attempts |-> 0,
                                                         due |-> TRUE]]
                           ELSE recovery
       ELSE UNCHANGED <<incident, alert, recovery>>
    /\ EngineGoes(e, [at |-> "scan"])
    /\ UNCHANGED <<noteVars, presence, lifecycle, command, alertMapping, silences>>

\* The predicate of the guarded UPDATE; for an event there is none.
Clear(i) ==
    incident[i].rule = "offline" => presence[incident[i].subject] # "offline"

\* ResolveOperator: ResolveStatefulIfClear locks incident and subject.
ResolveOperator(i, to) ==
    /\ incident[i].st \in Active /\ Clear(i)
    /\ incident' = Resolved(i, "operator")
    /\ alert' = WithAlerts(i, "resolved", to)
    /\ UNCHANGED <<noteVars, presence, lifecycle, command, recovery, engine, alertMapping,
                   silences>>

AcknowledgeIncident(i) ==
    /\ incident[i].st = "open"
    /\ incident' = [incident EXCEPT ![i].st = "acknowledged"]
    /\ UNCHANGED <<noteVars, presence, lifecycle, command, alert, recovery, engine,
                   alertMapping, silences>>
-----------------------------------------------------------------------------
(* The alert processor.                                                    *)

\* The scan is over.
ScanEnds(e) ==
    /\ engine[e].at = "scan"
    /\ EngineGoes(e, [at |-> "alerts"])
    /\ UNCHANGED <<noteVars, presence, lifecycle, command, incident, alert, recovery,
                   alertMapping, silences>>

Pendings == {a \in Alerts : alert[a].st = "pending"}
Oldest == {a \in Pendings : \A b \in Pendings : alert[a].born <= alert[b].born}

\* ClaimDelivery: it locks nothing past its own transaction.
ClaimDelivery(e) ==
    /\ engine[e].at = "alerts"
    /\ \/ \E a \in Oldest : EngineGoes(e, [at |-> "enqueue", alert |-> a])
       \/ Pendings = {} /\ EngineGoes(e, [at |-> "recovery"])
    /\ UNCHANGED <<noteVars, presence, lifecycle, command, incident, alert, recovery,
                   alertMapping, silences>>

\* Mutant: an alert without a template is taken for sent.
AlertVerdictLoses(a, content) ==
    IF alertMapping # 0 /\ EnqueueOutcome(a, content) = "conflict" THEN "pending" ELSE "sent"

\* Mutant: an alert without a template waits for one.
AlertVerdictWaits(a, content) ==
    IF alertMapping = 0 \/ EnqueueOutcome(a, content) = "conflict" THEN "pending" ELSE "sent"

\* What EnqueueTemplate makes of an alert: without a mapping it is blocked;
\* a key that holds another content is refused and the alert left as it is.
AlertVerdict(a, content) ==
    CASE alertMapping = 0 -> "blocked"
      [] alertMapping # 0 /\ EnqueueOutcome(a, content) = "conflict" -> "pending"
      [] OTHER -> "sent"

\* A refusal ends the drain.
EnqueueAlert(e) ==
    LET a == engine[e].alert
        content == <<0, alertMapping>>
        verdict == AlertVerdict(a, content)
    IN
    /\ engine[e].at = "enqueue"
    /\ outbox' = IF verdict = "sent" /\ alertMapping # 0 THEN AfterEnqueue(a, content) ELSE outbox
    /\ EngineGoes(e, IF verdict = "pending" THEN [at |-> "recovery"]
                     ELSE [at |-> "record", alert |-> a, verdict |-> verdict])
    /\ UNCHANGED <<history, courier, reached, lapses, postponed, presence, lifecycle,
                   command, incident, alert, recovery, alertMapping, silences>>

\* FinishOpsDeliverySent, FinishOpsDeliveryBlocked: no row is an error.
RecordAlert(e) ==
    LET a == engine[e].alert IN
    /\ engine[e].at = "record"
    /\ IF alert[a].st = "pending"
       THEN /\ alert' = [alert EXCEPT ![a].st = engine[e].verdict]
            /\ EngineGoes(e, [at |-> "alerts"])
       ELSE /\ EngineGoes(e, [at |-> "recovery"])
            /\ UNCHANGED alert
    /\ UNCHANGED <<noteVars, presence, lifecycle, command, incident, recovery, alertMapping,
                   silences>>
-----------------------------------------------------------------------------
(* The recovery worker.                                                    *)

Due == {i \in IncidentIds : recovery[i].st = "pending" /\ recovery[i].due}

\* ClaimRecovery; rows are numbered in the order of their creation here.
ClaimRecovery(e) ==
    /\ engine[e].at = "recovery"
    /\ \/ \E i \in Due : EngineGoes(e, [at |-> "act", row |-> i,
                                        attempts |-> recovery[i].attempts])
       \/ Due = {} /\ EngineGoes(e, [at |-> "scan"])
    /\ UNCHANGED <<noteVars, presence, lifecycle, command, incident, alert, recovery,
                   alertMapping, silences>>

Settles(e, verdict) ==
    EngineGoes(e, [at |-> "settle", row |-> engine[e].row, attempts |-> engine[e].attempts,
                   verdict |-> verdict])

\* GetByIdempotency.
AskedBefore(i) == command[i].st # "none"

\* CreateSyncRequest: the row of this key, or the command under way is
\* adopted, or a new one; a device that is no longer active is refused.
RequestSync(e) ==
    LET i == engine[e].row
        v == incident[i].subject
    IN
    /\ engine[e].at = "act"
    /\ \/ /\ lifecycle[v] = "active" /\ (AskedBefore(i) \/ UnderWayFor(v) # {})
          /\ Settles(e, "completed")
          /\ UNCHANGED command
       \/ /\ lifecycle[v] = "active" /\ ~AskedBefore(i) /\ UnderWayFor(v) = {}
          /\ command' = CommandAfter(i, v)
          /\ Settles(e, "completed")
       \/ /\ lifecycle[v] # "active"
          /\ Settles(e, "failed")
          /\ UNCHANGED command
    /\ UNCHANGED <<noteVars, presence, lifecycle, incident, alert, recovery, alertMapping,
                   silences>>

\* The request fails, or the command under way is gone when it is asked for.
RequestFails(e) ==
    /\ engine[e].at = "act" /\ lapses < MaxLapses
    /\ lapses' = lapses + 1
    /\ Settles(e, "failed")
    /\ UNCHANGED <<outbox, history, courier, reached, postponed, presence, lifecycle,
                   command, incident, alert, recovery, alertMapping, silences>>

AttemptsOver(attempts) == attempts + 1 >= MaxRecoveryAttempts

\* FinishRecoveryCompleted; retryOrBlock, which ends the drain.
SettleRecovery(e) ==
    LET i == engine[e].row
        failed == engine[e].verdict = "failed"
    IN
    /\ engine[e].at = "settle"
    /\ recovery' =
        CASE recovery[i].st # "pending" -> recovery
          [] recovery[i].st = "pending" /\ ~failed ->
                [recovery EXCEPT ![i].st = "completed"]
          [] recovery[i].st = "pending" /\ failed /\ AttemptsOver(engine[e].attempts) ->
                [recovery EXCEPT ![i].st = "blocked"]
          [] OTHER -> [recovery EXCEPT ![i].attempts = @ + 1, ![i].due = FALSE]
    /\ EngineGoes(e, [at |-> IF failed \/ recovery[i].st # "pending"
                             THEN "scan" ELSE "recovery"])
    /\ UNCHANGED <<noteVars, presence, lifecycle, command, incident, alert, alertMapping,
                   silences>>

RecoveryComesDue(i) ==
    /\ recovery[i].st = "pending" /\ ~recovery[i].due
    /\ recovery' = [recovery EXCEPT ![i].due = TRUE]
    /\ UNCHANGED <<noteVars, presence, lifecycle, command, incident, alert, engine,
                   alertMapping, silences>>
-----------------------------------------------------------------------------
World ==
    \/ \E v \in Devices :
        DeviceContacts(v) \/ DeviceSilent(v) \/ RevokeDevice(v) \/ OperatorSyncs(v)
    \/ \E c \in CommandIds, to \in {"completed", "failed"} : CommandEnds(c, to)

\* What the detector and the operator do, with alerts for those of "to".
Detect(e, to) ==
    \/ ScanFinds(e) \/ OpenIncident(e, to)
    \/ \E i \in IncidentIds : CheckOffline(e, i)
    \/ ResolveIncident(e, to) \/ ScanEnds(e)

Operate(to) ==
    \E i \in IncidentIds : AcknowledgeIncident(i) \/ ResolveOperator(i, to)

Drain(e) ==
    \/ ClaimDelivery(e) \/ EnqueueAlert(e) \/ RecordAlert(e)
    \/ ClaimRecovery(e) \/ RequestSync(e) \/ SettleRecovery(e)

EngineErrs(e) ==
    \/ engine[e].at \in {"open", "resolve"} /\ EngineFails(e, "alerts")
    \/ engine[e].at \in {"enqueue", "record"} /\ EngineFails(e, "recovery")
    \/ engine[e].at \in {"act", "settle"} /\ EngineFails(e, "scan")
    \/ RequestFails(e)

EngineNext ==
    \/ \E e \in Instances : Drain(e) \/ EngineErrs(e)
    \/ \E i \in IncidentIds : RecoveryComesDue(i)

IncidentsNext ==
    \/ World \/ AlertMappingChanges \/ EngineNext
    \/ \E to \in SUBSET Addressees : Operate(to) \/ \E e \in Instances : Detect(e, to)

OpsNext == IncidentsNext \/ (DispatchNext /\ UNCHANGED opsOnlyVars)

OpsSafe == OpsInit /\ [][OpsNext]_opsVars
-----------------------------------------------------------------------------
EngineStates ==
    [at : {"scan", "alerts", "recovery"}]
    \cup [at : {"open"}, rule : Rules, subject : Devices \cup CommandIds]
    \cup [at : {"resolve"}, row : IncidentIds, code : {"noActive", "reconnect"},
          heal : BOOLEAN]
    \cup [at : {"enqueue"}, alert : Alerts]
    \cup [at : {"record"}, alert : Alerts, verdict : {"sent", "blocked"}]
    \cup [at : {"act"}, row : IncidentIds, attempts : Nat]
    \cup [at : {"settle"}, row : IncidentIds, attempts : Nat,
          verdict : {"completed", "failed"}]

\* Every variable has its type; a subject has one active incident of a rule
\* and an event one incident for all time.
OpsTypeOK ==
    /\ presence \in [Devices -> {"fresh", "quiet", "offline"}]
    /\ lifecycle \in [Devices -> {"active", "revoked"}]
    /\ \A c \in CommandIds :
        /\ command[c].st \in {"none", "active", "completed", "failed"}
        /\ command[c].st # "none" <=> command[c].device \in Devices
    /\ \A i \in IncidentIds :
        /\ incident[i].st \in {"none", "open", "acknowledged", "resolved"}
        /\ incident[i].st # "none" =>
            incident[i].rule \in Rules /\ incident[i].subject \in Devices \cup CommandIds
        /\ incident[i].st = "resolved" <=> incident[i].code # "none"
        /\ incident[i].st \in Active => ActiveRows(incident[i].rule, incident[i].subject) = {i}
        /\ incident[i].rule = "failed" => Rows("failed", incident[i].subject) = {i}
    /\ alert \in [Alerts -> [st : {"none", "pending", "sent", "blocked"},
                             born : Nat]]
    /\ recovery \in [IncidentIds -> [st : {"none", "pending", "completed", "blocked"},
                                     attempts : Nat, due : BOOLEAN]]
    /\ engine \in [Instances -> EngineStates]
    /\ alertMapping \in 0 .. MaxAlertMapping /\ silences \in 0 .. MaxSilences

\* What the alerts announce is so: an alert of an opening belongs to an
\* incident that was opened, one of a resolution to one that is resolved,
\* there is a message for each alert said to be sent, and every message
\* belongs to an alert, whichever instances raced over it.
AlertsAreTrue ==
    \A a \in Alerts :
        /\ alert[a].st # "none" => incident[a[1]].st # "none"
        /\ a[2] = "resolved" /\ alert[a].st # "none" => incident[a[1]].st = "resolved"
        /\ alert[a].st = "sent" => outbox[a].st # "none"
        /\ outbox[a].st # "none" => alert[a].st # "none"

\* What the operators are shown.
OperationsAreSound == OpsTypeOK /\ AlertsAreTrue

\* A device is healed only after a reconnection, and the resolution that
\* asks for it is never committed once the device is revoked, whatever the
\* scan had seen.
HealedOnlyWhenActive ==
    [][\A i \in IncidentIds :
        /\ recovery[i].st = "none" /\ recovery'[i].st # "none" =>
            /\ incident'[i].code = "reconnect"
            /\ lifecycle[incident[i].subject] = "active"
        /\ incident[i].code = "none" /\ incident'[i].code = "reconnect" =>
            lifecycle[incident[i].subject] = "active"]_opsVars

\* A recovery asks for one command at most, and what is decided stays so,
\* although two instances may work on it and either may die before it says
\* what it did.
DecidedStays ==
    [][/\ \A c \in CommandIds :
            command[c].st \in {"completed", "failed"} => command'[c] = command[c]
       /\ \A i \in IncidentIds : recovery[i].st \in {"completed", "blocked"} =>
            recovery'[i].st = recovery[i].st
       /\ \A a \in Alerts : alert[a].st \in {"sent", "blocked"} => alert'[a] = alert[a]]_opsVars

\* Again and again every recovery has been decided.
EveryRecoverySettles == []<>(\A i \in IncidentIds : recovery[i].st # "pending")

\* The offline incident of a device that is back for good, or revoked, is
\* resolved.
OfflineClears ==
    \A v \in Devices :
        <>[](presence[v] = "fresh" \/ lifecycle[v] = "revoked") =>
            <>[](ActiveRows("offline", v) = {})

\* Again and again every alert has been decided, unless the mapping is
\* replaced by another.
EveryAlertSettles == []<>(alertMapping > 1 \/ \A a \in Alerts : alert[a].st # "pending")
=============================================================================
