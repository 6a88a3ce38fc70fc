---------------------------- MODULE FleetUpdates -----------------------------
(***************************************************************************)
(* Rollouts of releases to the workstations (internal/fleetupdate,         *)
(* internal/adapter/postgres/fleet_updates.go): an operator stages a       *)
(* release over a snapshot of workstations, each polls for its target,     *)
(* downloads, installs and reports, and Cloud keeps what it was told.      *)
(*                                                                         *)
(* Two transactions are more than one step.  A claim takes its candidates  *)
(* from a snapshot and then locks target and rollout, whose rows it checks *)
(* again; the row of the release is not locked.  A report locks its target *)
(* and counts the open targets of the rollout, the last one reported       *)
(* included only if it has committed.  Retail goes on whether or not its   *)
(* report was answered, and reports its state again until it was; requests *)
(* overtake each other.  Cloud treats DOWNLOADING, VERIFIED and            *)
(* WAITING_SAFE_BOUNDARY alike, and so INSTALLING and AWAITING_HEALTH, and *)
(* the ends ROLLED_BACK and MANUAL_ACTION_REQUIRED: one stands for each.   *)
(* One rollout per release.                                                *)
(***************************************************************************)
EXTENDS Naturals, FiniteSets

CONSTANTS
    Fleet,          \* workstations bound to a Store
    Sequences,      \* releases, by their sequence
    Bucket,         \* a number from 1 to 100 of each target, sha256 in the code
    Artifacts,      \* the targets whose platform the release was built for
    Stages,         \* the percentages an operator chooses from
    MaxCloudReoffers,
    Jobs            \* requests of devices at work

Targets == Sequences \X Fleet

ASSUME FleetAssumption ==
    /\ Sequences \subseteq Nat \ {0} /\ Artifacts \subseteq Targets
    /\ Bucket \in [Targets -> 1 .. 100] /\ Stages \subseteq 1 .. 100
    /\ MaxCloudReoffers \in Nat \ {0}

VARIABLES
    release,    \* releases.status
    rollout,    \* update_rollouts
    target,     \* update_rollout_targets
    updater,    \* device_update_status: what each workstation said it runs
    phase,      \* what Retail has done about a target
    told,       \* whether its report of that was answered
    reports,    \* reports on their way
    job         \* transactions at work

fleetVars == <<release, rollout, target, updater, phase, told, reports, job>>
cloud == <<release, rollout, target, updater>>
-----------------------------------------------------------------------------
Waiting == {"NOT_SELECTED", "PENDING", "DELIVERED", "DOWNLOADING"}
Open == Waiting \cup {"INSTALLING"}
Ends == {"SUCCEEDED", "ALREADY_COMPLIANT", "FAILED", "ROLLED_BACK", "SKIPPED_NEWER",
         "UNSUPPORTED", "CANCELLED"}
NoRollout == [st |-> "none", percentage |-> 0]
NoTarget == [st |-> "none", attempts |-> 0, due |-> TRUE]
NotReported == [capable |-> FALSE, runs |-> 0]
NoJob == [op |-> "none"]

TargetsOf(r) == {t \in Targets : t[1] = r}
TargetsOn(d) == {t \in Targets : t[2] = d}
Locked == {job[x].t : x \in {y \in Jobs : job[y].op = "report"}}

FleetInit ==
    /\ release = [r \in Sequences |-> "none"]
    /\ rollout = [r \in Sequences |-> NoRollout]
    /\ target = [t \in Targets |-> NoTarget]
    /\ updater = [d \in Fleet |-> NotReported]
    /\ phase = [t \in Targets |-> "idle"] /\ told = [t \in Targets |-> TRUE]
    /\ reports = {} /\ job = [x \in Jobs |-> NoJob]

Settle(S, st) == [t \in Targets |-> IF t \in S THEN [target[t] EXCEPT !.st = st] ELSE target[t]]
In(st) == {t \in Targets : target[t].st \in st}
-----------------------------------------------------------------------------
\* ImportRelease, activate, revoke.
SetReleaseStatus(r) ==
    /\ release' = [release EXCEPT ![r] = IF @ = "ACTIVE" THEN "REVOKED" ELSE "ACTIVE"]
    /\ UNCHANGED <<rollout, target, updater, phase, told, reports, job>>

\* CreateRollout: a target for every workstation, selected by its bucket.
CreateRollout(r, percentage) ==
    /\ release[r] = "ACTIVE" /\ rollout[r].st = "none"
    /\ rollout' = [rollout EXCEPT ![r] = [st |-> "DRAFT", percentage |-> percentage]]
    /\ target' = [t \in Targets |->
            IF t \in TargetsOf(r)
            THEN [NoTarget EXCEPT !.st = IF Bucket[t] <= percentage THEN "PENDING" ELSE "NOT_SELECTED"]
            ELSE target[t]]
    /\ UNCHANGED <<release, updater, phase, told, reports, job>>

\* StartRollout, PauseRollout, ResumeRollout.
TransitionRollout(r, from, to) ==
    /\ rollout[r].st = from /\ rollout' = [rollout EXCEPT ![r].st = to]
    /\ UNCHANGED <<release, target, updater, phase, told, reports, job>>

\* CancelRollout, which waits for the targets a report has locked.
CancelRollout(r) ==
    /\ rollout[r].st \in {"DRAFT", "ACTIVE", "PAUSED"} /\ TargetsOf(r) \cap Locked = {}
    /\ rollout' = [rollout EXCEPT ![r].st = "CANCELLED"]
    /\ target' = Settle(TargetsOf(r) \cap In(Waiting), "CANCELLED")
    /\ UNCHANGED <<release, updater, phase, told, reports, job>>

\* SetRolloutPercentage: wider, over the same snapshot.
SetRolloutPercentage(r, percentage) ==
    /\ rollout[r].st \in {"DRAFT", "ACTIVE", "PAUSED"} /\ rollout[r].percentage < percentage
    /\ rollout' = [rollout EXCEPT ![r].percentage = percentage]
    /\ target' = Settle({t \in TargetsOf(r) \cap In({"NOT_SELECTED"}) : Bucket[t] <= percentage}, "PENDING")
    /\ UNCHANGED <<release, updater, phase, told, reports, job>>
-----------------------------------------------------------------------------
\* RecordStatus: what the workstation runs, and the pending targets that
\* this settles.
RecordStatus(d, capable) ==
    LET runs == IF \E t \in TargetsOn(d) : phase[t] = "SUCCEEDED"
                THEN CHOOSE r \in Sequences :
                        /\ phase[<<r, d>>] = "SUCCEEDED"
                        /\ \A o \in Sequences : phase[<<o, d>>] = "SUCCEEDED" => o <= r
                ELSE 0
        pending == TargetsOn(d) \cap In({"PENDING"}) IN
    /\ pending \cap Locked = {}
    /\ updater' = [updater EXCEPT ![d] = [capable |-> capable, runs |-> runs]]
    /\ target' = [t \in Targets |->
            IF t \notin pending THEN target[t]
            ELSE IF ~capable \/ t \notin Artifacts THEN [target[t] EXCEPT !.st = "UNSUPPORTED"]
            ELSE IF runs = t[1] THEN [target[t] EXCEPT !.st = "ALREADY_COMPLIANT"]
            ELSE IF runs > t[1] THEN [target[t] EXCEPT !.st = "SKIPPED_NEWER"]
            ELSE target[t]]
    /\ UNCHANGED <<release, rollout, phase, told, reports, job>>

\* What the snapshot of ClaimDeviceUpdateTarget offers.
Offered(d) ==
    {t \in TargetsOn(d) \cap Artifacts :
        /\ target[t].st \in {"PENDING", "DELIVERED"} /\ target[t].due
        /\ rollout[t[1]].st = "ACTIVE" /\ release[t[1]] = "ACTIVE"}

\* PollCommand: a workstation with an updater asks,
ClaimCommand(x, d) ==
    /\ job[x] = NoJob /\ updater[d].capable
    /\ job' = [job EXCEPT ![x] = [op |-> "claim", dev |-> d, offered |-> Offered(d)]]
    /\ UNCHANGED <<cloud, phase, told, reports>>

\* Mutant: the rollout is not locked, nor looked at again.
StillOfferedUnshared(t) == target[t].st \in {"PENDING", "DELIVERED"} /\ target[t].due

\* What is checked again under the locks.
StillOffered(t) ==
    /\ target[t].st \in {"PENDING", "DELIVERED"} /\ target[t].due
    /\ rollout[t[1]].st = "ACTIVE"

\* Retail takes a command up unless it has begun with it.
TakesUp(t) ==
    IF phase[t] \in {"idle", "FAILED"}
    THEN /\ phase' = [phase EXCEPT ![t] = "DOWNLOADING"] /\ told' = [told EXCEPT ![t] = FALSE]
    ELSE UNCHANGED <<phase, told>>

\* and is given the newest release still offered, if the answer arrives;
\* targets without an artifact are settled.
MarkTargetDelivered(x) ==
    LET d == job[x].dev
        still == {t \in job[x].offered : StillOffered(t)}
        unsupported == (TargetsOn(d) \cap In({"PENDING"})) \ Artifacts IN
    /\ job[x].op = "claim" /\ (unsupported \cup still) \cap Locked = {}
    /\ job' = [job EXCEPT ![x] = NoJob]
    /\ IF still = {}
       THEN target' = Settle(unsupported, "UNSUPPORTED") /\ UNCHANGED <<phase, told>>
       ELSE \E t \in {n \in still : \A o \in still : o[1] <= n[1]} :
            /\ target' = [Settle(unsupported, "UNSUPPORTED") EXCEPT ![t].st = "DELIVERED"]
            /\ TakesUp(t) \/ UNCHANGED <<phase, told>>
    /\ UNCHANGED <<release, rollout, updater, reports>>
-----------------------------------------------------------------------------
\* Retail goes on: it downloads, installs, and ends.
Follows ==
    [DOWNLOADING |-> {"INSTALLING", "FAILED"}, INSTALLING |-> {"SUCCEEDED", "ROLLED_BACK"}]

RetailGoesOn(t) ==
    /\ phase[t] \in DOMAIN Follows
    /\ \E p \in Follows[phase[t]] : phase' = [phase EXCEPT ![t] = p]
    /\ told' = [told EXCEPT ![t] = FALSE]
    /\ UNCHANGED <<cloud, reports, job>>

RetailReports(t) ==
    /\ ~told[t] /\ phase[t] # "idle"
    /\ \E retryable \in (IF phase[t] = "FAILED" THEN BOOLEAN ELSE {FALSE}) :
        reports' = reports \cup {[t |-> t, st |-> phase[t], retryable |-> retryable]}
    /\ reports' # reports
    /\ UNCHANGED <<cloud, phase, told, job>>

\* A failure is offered again, a bounded number of times, if Retail says so.
Failed(row, m) ==
    LET again == m.retryable /\ row.attempts + 1 < MaxCloudReoffers IN
    [st |-> IF again THEN "PENDING" ELSE "FAILED", attempts |-> row.attempts + 1, due |-> ~again]

\* Mutant: a cancelled target stays cancelled.
ApplyReportFinal(row, m) ==
    IF row.st \in Ends \cup {m.st, "NOT_SELECTED"} THEN row
    ELSE IF m.st = "FAILED" THEN Failed(row, m) ELSE [row EXCEPT !.st = m.st, !.due = TRUE]

\* ApplyReport: what Retail says moves a target that has not ended; one that
\* was cancelled only if it was installed all the same.
ApplyReport(row, m) ==
    IF \/ row.st = "CANCELLED" /\ m.st \notin {"INSTALLING", "SUCCEEDED", "ROLLED_BACK"}
       \/ row.st \in (Ends \ {"CANCELLED"}) \cup {m.st, "NOT_SELECTED"}
    THEN row
    ELSE IF m.st = "FAILED" THEN Failed(row, m) ELSE [row EXCEPT !.st = m.st, !.due = TRUE]

\* completeIfDone: asked when a report ends its target, of the other targets
\* as they are committed.
Completes(t, next) ==
    /\ next # target[t] /\ next.st \in Ends
    /\ rollout[t[1]].st = "ACTIVE" /\ rollout[t[1]].percentage = 100
    /\ (TargetsOf(t[1]) \ {t}) \cap In(Open) = {}

\* ReportTarget: the target is locked, the report applied, the open targets
\* counted;
LockDeviceTarget(x, m) ==
    /\ job[x] = NoJob /\ m \in reports /\ m.t \notin Locked /\ target[m.t].st # "none"
    /\ reports' = reports \ {m}
    /\ LET next == ApplyReport(target[m.t], m) IN
        job' = [job EXCEPT ![x] = [op |-> "report", t |-> m.t, m |-> m, next |-> next,
                                   completes |-> Completes(m.t, next)]]
    /\ UNCHANGED <<cloud, phase, told>>

\* then the transaction commits, and the answer may be lost.  A cancellation
\* stops what has not begun to install.
CommitReport(x) ==
    LET j == job[x] IN
    /\ j.op = "report"
    /\ job' = [job EXCEPT ![x] = NoJob]
    /\ target' = [target EXCEPT ![j.t] = j.next]
    /\ rollout' = IF j.completes /\ rollout[j.t[1]].st = "ACTIVE"
                  THEN [rollout EXCEPT ![j.t[1]].st = "COMPLETED"] ELSE rollout
    /\ \/ UNCHANGED <<phase, told>>
       \/ /\ phase[j.t] = j.m.st /\ told' = [told EXCEPT ![j.t] = TRUE]
          /\ phase' = IF j.next.st = "CANCELLED" /\ phase[j.t] = "DOWNLOADING"
                      THEN [phase EXCEPT ![j.t] = "idle"] ELSE phase
    /\ UNCHANGED <<release, updater, reports>>

\* The transaction fails, or the process dies.
JobFails(x) ==
    /\ job[x] # NoJob /\ job' = [job EXCEPT ![x] = NoJob]
    /\ UNCHANGED <<cloud, phase, told, reports>>

\* The backoff of a target passes.
BackoffPasses(t) ==
    /\ ~target[t].due /\ t \notin Locked /\ target' = [target EXCEPT ![t].due = TRUE]
    /\ UNCHANGED <<release, rollout, updater, phase, told, reports, job>>

FleetNext ==
    \/ \E r \in Sequences :
        \/ SetReleaseStatus(r) \/ CancelRollout(r)
        \/ \E p \in Stages : CreateRollout(r, p) \/ SetRolloutPercentage(r, p)
        \/ TransitionRollout(r, "DRAFT", "ACTIVE") \/ TransitionRollout(r, "ACTIVE", "PAUSED")
        \/ TransitionRollout(r, "PAUSED", "ACTIVE")
    \/ \E d \in Fleet, capable \in BOOLEAN : RecordStatus(d, capable)
    \/ \E t \in Targets : RetailGoesOn(t) \/ RetailReports(t) \/ BackoffPasses(t)
    \/ \E x \in Jobs :
        \/ \E d \in Fleet : ClaimCommand(x, d)
        \/ MarkTargetDelivered(x) \/ CommitReport(x) \/ JobFails(x)
        \/ \E m \in reports : LockDeviceTarget(x, m)

FleetSafe == FleetInit /\ [][FleetNext]_fleetVars
-----------------------------------------------------------------------------
\* "a pause and a concurrent claim serialize" (0052-fleet-rollout-device-
\* update-control.md; ClaimDeviceUpdateTarget): nothing is delivered of a
\* rollout that is paused, cancelled or complete.
DeliveredWhileActive ==
    [][\A t \in Targets :
        target'[t].st = "DELIVERED" /\ target[t].st # "DELIVERED" => rollout[t[1]].st = "ACTIVE"]_fleetVars

\* Once Retail's end of an installation was answered, Cloud shows no
\* cancellation and nothing still open, in whatever order its reports, a
\* cancellation and new offers came (ApplyReport, CancelOpenTargets).
OutcomeIsKept ==
    \A t \in Targets :
        phase[t] \in {"SUCCEEDED", "ROLLED_BACK"} /\ told[t]
            => target[t].st \in Ends \ {"CANCELLED"}
=============================================================================
