----------------------------- MODULE FieldProofs -----------------------------
(***************************************************************************)
(* What FleetUpdates guarantees for any workstations, releases, buckets    *)
(* and number of requests, whatever reports overtake each other, are sent  *)
(* again or lose their answers; what CatalogAdmin guarantees for any       *)
(* workstations, commands, values and polls; and what Reports guarantees   *)
(* for any sales, returns and readers.                                     *)
(***************************************************************************)
EXTENDS FleetUpdates, CatalogAdmin, Reports, SequenceTheorems, FiniteSetTheorems, TLAPS

Phases == {"idle", "DOWNLOADING", "INSTALLING", "SUCCEEDED", "ROLLED_BACK", "FAILED"}
Installed == {"SUCCEEDED", "ROLLED_BACK"}
Settled == Ends \ {"CANCELLED"}
Unoffered == {"none", "NOT_SELECTED"}
Said == [t : Targets, st : Phases \ {"idle"}, retryable : BOOLEAN]
TargetRows == [st : Open \cup Ends \cup {"none"}, attempts : Nat, due : BOOLEAN]
RolloutRows ==
    [st : {"none", "DRAFT", "ACTIVE", "PAUSED", "COMPLETED", "CANCELLED"}, percentage : Nat]

FleetTyped ==
    /\ rollout \in [Sequences -> RolloutRows] /\ target \in [Targets -> TargetRows]
    /\ phase \in [Targets -> Phases] /\ told \in [Targets -> BOOLEAN]
    /\ job = [x \in Jobs |-> job[x]] /\ reports \subseteq Said

ClaimTyped(j) ==
    /\ j.op \in {"none", "claim", "report"}
    /\ j.op = "claim" => j.dev \in Fleet /\ j.offered \subseteq Targets

\* What a report is about to write is still what follows from its target.
ReportTyped(j) ==
    j.op = "report" =>
        /\ j.t \in Targets /\ j.m \in Said /\ j.m.t = j.t
        /\ target[j.t].st \notin Unoffered
        /\ j.next = ApplyReport(target[j.t], j.m)

JobsFit == \A x \in Jobs : ClaimTyped(job[x]) /\ ReportTyped(job[x])

LockedOnce ==
    \A x, y \in Jobs :
        job[x].op = "report" /\ job[y].op = "report" /\ job[x].t = job[y].t => x = y

\* Whatever Retail has begun with, or speaks of, was offered to it.
RolloutsFit == \A t \in Targets : rollout[t[1]].st = "none" => target[t].st = "none"
BegunOffered == \A t \in Targets : phase[t] # "idle" => target[t].st \notin Unoffered
ReportsOffered == \A m \in reports : target[m.t].st \notin Unoffered

FleetInv ==
    /\ FleetTyped /\ JobsFit /\ LockedOnce /\ RolloutsFit
    /\ BegunOffered /\ ReportsOffered /\ OutcomeIsKept
-----------------------------------------------------------------------------
(* What a step does to each part. *)

TargetsMove ==
    /\ target' \in [Targets -> TargetRows]
    /\ \A t \in Targets :
        /\ target[t].st \notin Unoffered => target'[t].st \notin Unoffered
        /\ target[t].st \in Settled => target'[t].st = target[t].st
        /\ target'[t].st = "DELIVERED" /\ target[t].st # "DELIVERED" => rollout[t[1]].st = "ACTIVE"

RolloutsMove ==
    /\ rollout' \in [Sequences -> RolloutRows]
    /\ \A t \in Targets : rollout'[t[1]].st = "none" => target'[t].st = "none"

PhasesMove ==
    /\ phase' \in [Targets -> Phases] /\ told' \in [Targets -> BOOLEAN]
    /\ \A t \in Targets :
        /\ phase'[t] # "idle" => phase[t] # "idle" \/ target'[t].st \notin Unoffered
        /\ phase'[t] \in Installed /\ told'[t] =>
            \/ phase[t] \in Installed /\ told[t]
            \/ target'[t].st \in Settled

JobsMove ==
    /\ job' = [x \in Jobs |-> job'[x]]
    /\ \A x \in Jobs : ClaimTyped(job'[x])
    /\ \A x \in Jobs : job'[x].op = "report" =>
            job'[x] = job[x] /\ target'[job[x].t] = target[job[x].t]

ReportsMove ==
    reports' \subseteq Said /\ \A m \in reports' : m \in reports \/ phase[m.t] # "idle"

LEMMA TargetPairs ==
    /\ \A t \in Targets : t[1] \in Sequences /\ t[2] \in Fleet
    /\ \A r \in Sequences, d \in Fleet : <<r, d>> \in Targets
BY DEF Targets

\* What follows when all parts move as they may.
LEMMA FleetMoves ==
    ASSUME FleetInv, TargetsMove, RolloutsMove, PhasesMove, JobsMove, ReportsMove
    PROVE  FleetInv' /\ TargetsMove
<1>1. FleetTyped'
    BY DEF FleetTyped, TargetsMove, RolloutsMove, PhasesMove, JobsMove, ReportsMove
<1>2. JobsFit'
    <2> SUFFICES ASSUME NEW x \in Jobs PROVE ClaimTyped(job'[x]) /\ ReportTyped(job[x])'
        BY DEF JobsFit
    <2>1. ClaimTyped(job'[x])
        BY DEF JobsMove
    <2>2. ReportTyped(job[x])
        BY DEF FleetInv, JobsFit
    <2>3. job'[x].op = "report" => job'[x] = job[x] /\ target'[job[x].t] = target[job[x].t]
        BY DEF JobsMove
    <2>4. ReportTyped(job[x])'
        BY <2>2, <2>3 DEF ReportTyped
    <2> QED
        BY <2>1, <2>4
<1>3. LockedOnce'
    BY DEF FleetInv, LockedOnce, JobsMove
<1>4. RolloutsFit'
    BY DEF RolloutsMove, RolloutsFit
<1>5. BegunOffered'
    BY DEF FleetInv, BegunOffered, PhasesMove, TargetsMove
<1>6. ReportsOffered'
    <2> SUFFICES ASSUME NEW m \in reports' PROVE target'[m.t].st \notin Unoffered
        BY DEF ReportsOffered
    <2>1. m.t \in Targets
        BY DEF ReportsMove, Said
    <2>2. target[m.t].st \notin Unoffered
        BY <2>1 DEF ReportsMove, FleetInv, ReportsOffered, BegunOffered
    <2> QED
        BY <2>1, <2>2 DEF TargetsMove
<1>7. OutcomeIsKept'
    BY DEF FleetInv, OutcomeIsKept, PhasesMove, TargetsMove, Installed, Settled
<1> QED
    BY <1>1, <1>2, <1>3, <1>4, <1>5, <1>6, <1>7 DEF FleetInv

\* Parts that do not change.
LEMMA TargetsRest == FleetInv /\ target' = target => TargetsMove
BY DEF FleetInv, FleetTyped, TargetsMove

LEMMA RolloutsRest ==
    ASSUME FleetInv, rollout' = rollout,
           \A t \in Targets : target[t].st = "none" => target'[t].st = "none"
    PROVE  RolloutsMove
BY DEF FleetInv, FleetTyped, RolloutsMove, RolloutsFit

LEMMA PhasesRest == FleetInv /\ UNCHANGED <<phase, told>> => PhasesMove
BY DEF FleetInv, FleetTyped, PhasesMove

LEMMA ReportsRest == FleetInv /\ reports' \subseteq reports => ReportsMove
BY DEF FleetInv, FleetTyped, ReportsMove

LEMMA JobsRest ==
    ASSUME FleetInv, job' = job, \A t \in Locked : target'[t] = target[t]
    PROVE  JobsMove
BY DEF FleetInv, FleetTyped, JobsFit, JobsMove, Locked

\* A job that ends, or begins to claim.
LEMMA JobGoes ==
    ASSUME FleetInv, NEW x \in Jobs, NEW j, job' = [job EXCEPT ![x] = j], j.op # "report",
           ClaimTyped(j), \A t \in Locked \ {job[x].t} : target'[t] = target[t],
           job[x].op # "report" => \A t \in Locked : target'[t] = target[t]
    PROVE  JobsMove
<1>1. \A y \in Jobs : job'[y] = IF y = x THEN j ELSE job[y]
    BY DEF FleetInv, FleetTyped
<1>2. job' = [y \in Jobs |-> job'[y]]
    BY DEF FleetInv, FleetTyped
<1>3. \A y \in Jobs : ClaimTyped(job'[y])
    BY <1>1 DEF FleetInv, JobsFit
<1>4. ASSUME NEW y \in Jobs, job'[y].op = "report"
      PROVE  job'[y] = job[y] /\ target'[job[y].t] = target[job[y].t]
    <2>1. y # x /\ job'[y] = job[y] /\ job[y].t \in Locked
        BY <1>1, <1>4 DEF Locked
    <2>2. job[x].op = "report" => job[y].t # job[x].t
        BY <1>4, <2>1 DEF FleetInv, LockedOnce
    <2> QED
        BY <2>1, <2>2
<1> QED
    BY <1>2, <1>3, <1>4 DEF JobsMove

LEMMA NoJobIsTyped == ClaimTyped(NoJob) /\ NoJob.op # "report"
BY DEF ClaimTyped, NoJob
-----------------------------------------------------------------------------
(* Reports. *)

\* What a report makes of a target that was offered.
LEMMA Applied ==
    ASSUME NEW row \in TargetRows, NEW m \in Said, row.st \notin Unoffered
    PROVE  /\ ApplyReport(row, m) \in TargetRows
           /\ ApplyReport(row, m).st \notin Unoffered
           /\ row.st \in Settled => ApplyReport(row, m) = row
           /\ m.st \in Installed => ApplyReport(row, m).st \in Settled
           /\ ApplyReport(row, m).st = "DELIVERED" => row.st = "DELIVERED"
<1>1. m.st \in Phases \ {"idle"} /\ m.retryable \in BOOLEAN
    BY DEF Said
<1>2. row.st \in Open \cup Ends \cup {"none"} /\ row.attempts \in Nat /\ row.due \in BOOLEAN
    BY DEF TargetRows
<1>3. /\ [row EXCEPT !.st = m.st, !.due = TRUE] \in TargetRows \/ m.st = "FAILED"
      /\ [row EXCEPT !.st = m.st, !.due = TRUE].st = m.st
    BY <1>1, <1>2 DEF TargetRows, Phases, Open, Waiting, Ends
<1>4. /\ Failed(row, m) \in TargetRows /\ Failed(row, m).st \in {"PENDING", "FAILED"}
    BY <1>1, <1>2, FleetAssumption DEF Failed, TargetRows, Open, Waiting, Ends
<1>5. CASE ApplyReport(row, m) = row
    BY <1>1, <1>2, <1>5, <1>4, <1>3 DEF ApplyReport, Settled, Installed, Unoffered, Ends, Open, Waiting, Phases
<1>6. CASE ApplyReport(row, m) # row
    <2>1. row.st \notin Settled
        BY <1>6 DEF ApplyReport, Settled
    <2>2. CASE m.st = "FAILED"
        BY <1>4, <1>6, <2>1, <2>2 DEF ApplyReport, Unoffered, Installed
    <2>3. CASE m.st # "FAILED"
        <3>1. ApplyReport(row, m) = [row EXCEPT !.st = m.st, !.due = TRUE]
            BY <1>6, <2>3 DEF ApplyReport
        <3> QED
            BY <1>1, <1>3, <2>1, <2>3, <3>1 DEF Unoffered, Installed, Settled, Ends, Phases
    <2> QED
        BY <2>2, <2>3
<1> QED
    BY <1>5, <1>6
-----------------------------------------------------------------------------
(* The operator. *)

LEMMA TargetAt ==
    FleetInv => \A t \in Targets :
        /\ target[t] \in TargetRows /\ target[t].st \in Open \cup Ends \cup {"none"}
        /\ target[t].attempts \in Nat /\ target[t].due \in BOOLEAN
        /\ \A st \in Open \cup Ends : [target[t] EXCEPT !.st = st] \in TargetRows
        /\ \A st : [target[t] EXCEPT !.st = st].st = st
BY DEF FleetInv, FleetTyped, TargetRows

\* Targets that have not ended are settled or offered.
LEMMA SettleMoves ==
    ASSUME FleetInv, NEW S, NEW st \in (Open \cup Ends) \ (Unoffered \cup {"DELIVERED"}), target' = Settle(S, st),
           \A t \in S \cap Targets : target[t].st \notin Settled
    PROVE  /\ TargetsMove
           /\ \A t \in Targets : target'[t] = IF t \in S THEN [target[t] EXCEPT !.st = st] ELSE target[t]
<1>1. \A t \in Targets : target'[t] = IF t \in S THEN [target[t] EXCEPT !.st = st] ELSE target[t]
    BY DEF Settle
<1>2. ASSUME NEW t \in Targets PROVE target'[t] \in TargetRows
    <2>1. target[t] \in TargetRows /\ [target[t] EXCEPT !.st = st] \in TargetRows
        BY TargetAt
    <2> QED
        BY <1>1, <2>1
<1>3. target' = [t \in Targets |-> target'[t]]
    BY DEF Settle
<1>4. ASSUME NEW t \in Targets
      PROVE  /\ target[t].st \notin Unoffered => target'[t].st \notin Unoffered
             /\ target[t].st \in Settled => target'[t].st = target[t].st
             /\ target'[t].st = "DELIVERED" => target[t].st = "DELIVERED"
    <2>1. [target[t] EXCEPT !.st = st].st = st
        BY TargetAt
    <2> QED
        BY <1>1, <2>1
<1> QED
    BY <1>1, <1>2, <1>3, <1>4 DEF TargetsMove

LEMMA StatesApart ==
    /\ Waiting \cap Settled = {} /\ Unoffered \cap Settled = {} /\ "none" \notin Waiting
    /\ {"CANCELLED", "PENDING", "UNSUPPORTED", "DELIVERED"} \subseteq (Open \cup Ends) \ Unoffered
BY DEF Waiting, Settled, Unoffered, Open, Ends

LEMMA SetReleaseStatusKeeps ==
    ASSUME FleetInv, NEW r \in Sequences, SetReleaseStatus(r) PROVE FleetInv' /\ TargetsMove
<1>1. UNCHANGED <<rollout, target, phase, told, reports, job>>
    BY DEF SetReleaseStatus
<1> QED
    BY <1>1, TargetsRest, RolloutsRest, PhasesRest, JobsRest, ReportsRest, FleetMoves, StatesApart

LEMMA CreateRolloutKeeps ==
    ASSUME FleetInv, NEW r \in Sequences, NEW p \in Stages, CreateRollout(r, p) PROVE FleetInv' /\ TargetsMove
<1>1. /\ rollout[r].st = "none" /\ UNCHANGED <<phase, told, reports, job>>
      /\ rollout' = [rollout EXCEPT ![r] = [st |-> "DRAFT", percentage |-> p]]
    BY DEF CreateRollout
<1>2. \A t \in TargetsOf(r) : t \in Targets /\ t[1] = r /\ target[t].st = "none"
    BY <1>1 DEF TargetsOf, FleetInv, RolloutsFit
<1>3. ASSUME NEW t \in Targets
      PROVE  /\ target'[t] \in TargetRows
             /\ target'[t].st # "DELIVERED" \/ target'[t] = target[t]
             /\ t \notin TargetsOf(r) => target'[t] = target[t]
    <2>1. target'[t] = IF t \in TargetsOf(r)
                       THEN [NoTarget EXCEPT !.st = IF Bucket[t] <= p THEN "PENDING" ELSE "NOT_SELECTED"]
                       ELSE target[t]
        BY DEF CreateRollout
    <2>2. [NoTarget EXCEPT !.st = IF Bucket[t] <= p THEN "PENDING" ELSE "NOT_SELECTED"]
                \in {row \in TargetRows : row.st # "DELIVERED"}
        BY DEF NoTarget, TargetRows, Open, Waiting
    <2> QED
        BY <2>1, <2>2, TargetAt
<1>4. \A t \in TargetsOf(r) : target[t].st \in Unoffered /\ target[t].st \notin Settled
    BY <1>2 DEF Unoffered, Settled, Ends
<1>5. TargetsMove
    <2>1. target' \in [Targets -> TargetRows]
        BY <1>3 DEF CreateRollout
    <2> QED
        BY <2>1, <1>3, <1>4 DEF TargetsMove
<1>6. RolloutsMove
    <2>1. rollout' \in [Sequences -> RolloutRows]
        <3>1. p \in Nat
            BY FleetAssumption
        <3> QED
            BY <1>1, <3>1 DEF FleetInv, FleetTyped, RolloutRows
    <2>2. \A t \in Targets : t[1] = r => rollout'[t[1]].st # "none"
        BY <1>1 DEF FleetInv, FleetTyped
    <2>3. \A t \in Targets : t[1] # r => rollout'[t[1]] = rollout[t[1]] /\ t \notin TargetsOf(r)
        BY <1>1, TargetPairs DEF FleetInv, FleetTyped, TargetsOf
    <2> QED
        BY <2>1, <2>2, <2>3, <1>3 DEF RolloutsMove, FleetInv, RolloutsFit
<1>7. \A t \in Locked : target'[t] = target[t]
    <2>1. \A t \in Locked : t \in Targets /\ target[t].st \notin Unoffered
        BY DEF Locked, FleetInv, JobsFit, ReportTyped
    <2> QED
        BY <2>1, <1>3, <1>4
<1> QED
    BY <1>1, <1>5, <1>6, <1>7, PhasesRest, JobsRest, ReportsRest, FleetMoves

LEMMA TransitionRolloutKeeps ==
    ASSUME FleetInv, NEW r \in Sequences, NEW from \in {"DRAFT", "ACTIVE", "PAUSED"},
           NEW to \in {"ACTIVE", "PAUSED"}, TransitionRollout(r, from, to)
    PROVE  FleetInv' /\ TargetsMove
<1>1. /\ rollout' = [rollout EXCEPT ![r].st = to] /\ rollout[r].st = from
      /\ UNCHANGED <<target, phase, told, reports, job>>
    BY DEF TransitionRollout
<1>2. RolloutsMove
    <2>1. rollout' \in [Sequences -> RolloutRows]
        BY <1>1 DEF FleetInv, FleetTyped, RolloutRows
    <2>2. \A s \in Sequences : rollout'[s].st = "none" => rollout[s].st = "none"
        BY <1>1 DEF FleetInv, FleetTyped, RolloutRows
    <2> QED
        BY <2>1, <2>2, <1>1, TargetPairs DEF RolloutsMove, FleetInv, RolloutsFit
<1> QED
    BY <1>1, <1>2, TargetsRest, PhasesRest, JobsRest, ReportsRest, FleetMoves

LEMMA CancelRolloutKeeps ==
    ASSUME FleetInv, NEW r \in Sequences, CancelRollout(r) PROVE FleetInv' /\ TargetsMove
<1> DEFINE S == TargetsOf(r) \cap In(Waiting)
<1>1. /\ rollout' = [rollout EXCEPT ![r].st = "CANCELLED"] /\ target' = Settle(S, "CANCELLED")
      /\ TargetsOf(r) \cap Locked = {} /\ UNCHANGED <<phase, told, reports, job>>
    BY DEF CancelRollout
<1>2. \A t \in S : t \in Targets /\ target[t].st \in Waiting
    BY DEF In
<1>3. /\ TargetsMove
      /\ \A t \in Targets : target'[t] = IF t \in S THEN [target[t] EXCEPT !.st = "CANCELLED"] ELSE target[t]
    <2>1. \A t \in S \cap Targets : target[t].st \notin Settled
        BY <1>2, StatesApart
    <2> HIDE DEF S
    <2> QED
        BY <1>1, <2>1, SettleMoves, StatesApart
<1>4. RolloutsMove
    <2>1. rollout' \in [Sequences -> RolloutRows]
        BY <1>1 DEF FleetInv, FleetTyped, RolloutRows
    <2>2. \A s \in Sequences : rollout'[s].st = "none" => rollout[s].st = "none"
        BY <1>1 DEF FleetInv, FleetTyped, RolloutRows
    <2>3. \A t \in Targets : target[t].st = "none" => target'[t] = target[t]
        BY <1>2, <1>3, StatesApart
    <2> QED
        BY <2>1, <2>2, <2>3, TargetPairs DEF RolloutsMove, FleetInv, RolloutsFit
<1>5. \A t \in Locked : target'[t] = target[t]
    <2>1. \A t \in Locked : t \in Targets /\ t \notin S
        BY <1>1 DEF Locked, FleetInv, JobsFit, ReportTyped
    <2> QED
        BY <2>1, <1>3
<1> QED
    BY <1>1, <1>3, <1>4, <1>5, PhasesRest, JobsRest, ReportsRest, FleetMoves

LEMMA SetRolloutPercentageKeeps ==
    ASSUME FleetInv, NEW r \in Sequences, NEW p \in Stages, SetRolloutPercentage(r, p)
    PROVE  FleetInv' /\ TargetsMove
<1> DEFINE S == {t \in TargetsOf(r) \cap In({"NOT_SELECTED"}) : Bucket[t] <= p}
<1>1. /\ rollout' = [rollout EXCEPT ![r].percentage = p] /\ target' = Settle(S, "PENDING")
      /\ UNCHANGED <<phase, told, reports, job>>
    BY DEF SetRolloutPercentage
<1>2. \A t \in S : t \in Targets /\ target[t].st = "NOT_SELECTED"
    BY DEF In
<1>3. /\ TargetsMove
      /\ \A t \in Targets : target'[t] = IF t \in S THEN [target[t] EXCEPT !.st = "PENDING"] ELSE target[t]
    <2>1. "NOT_SELECTED" \notin Settled
        BY DEF Settled, Ends
    <2> QED
        BY <1>1, <1>2, <2>1, SettleMoves, StatesApart
<1>4. RolloutsMove
    <2>0. p \in Nat
        BY FleetAssumption
    <2>1. rollout' \in [Sequences -> RolloutRows]
        BY <1>1, <2>0 DEF FleetInv, FleetTyped, RolloutRows
    <2>2. \A s \in Sequences : rollout'[s].st = rollout[s].st
        BY <1>1 DEF FleetInv, FleetTyped, RolloutRows
    <2>3. \A t \in Targets : target[t].st = "none" => target'[t] = target[t]
        BY <1>2, <1>3
    <2> QED
        BY <2>1, <2>2, <2>3, TargetPairs DEF RolloutsMove, FleetInv, RolloutsFit
<1>5. \A t \in Locked : target'[t] = target[t]
    <2>1. \A t \in Locked : t \in Targets /\ t \notin S
        BY <1>2 DEF Locked, FleetInv, JobsFit, ReportTyped, Unoffered
    <2> QED
        BY <2>1, <1>3
<1> QED
    BY <1>1, <1>3, <1>4, <1>5, PhasesRest, JobsRest, ReportsRest, FleetMoves
-----------------------------------------------------------------------------
(* The workstations. *)

LEMMA RecordStatusKeeps ==
    ASSUME FleetInv, NEW d \in Fleet, NEW capable \in BOOLEAN, RecordStatus(d, capable)
    PROVE  FleetInv' /\ TargetsMove
<1> DEFINE pending == TargetsOn(d) \cap In({"PENDING"})
<1>1. /\ pending \cap Locked = {} /\ UNCHANGED <<rollout, phase, told, reports, job>>
    BY DEF RecordStatus
<1>2. PICK runs : target' = [t \in Targets |->
            IF t \notin pending THEN target[t]
            ELSE IF ~capable \/ t \notin Artifacts THEN [target[t] EXCEPT !.st = "UNSUPPORTED"]
            ELSE IF runs = t[1] THEN [target[t] EXCEPT !.st = "ALREADY_COMPLIANT"]
            ELSE IF runs > t[1] THEN [target[t] EXCEPT !.st = "SKIPPED_NEWER"]
            ELSE target[t]]
    BY DEF RecordStatus
<1>3. \A t \in pending : t \in Targets /\ target[t].st = "PENDING"
    BY DEF In
<1> HIDE DEF pending
<1>4. ASSUME NEW t \in Targets
      PROVE  /\ t \notin pending => target'[t] = target[t]
             /\ \/ target'[t] = target[t]
                \/ \E st \in {"UNSUPPORTED", "ALREADY_COMPLIANT", "SKIPPED_NEWER"} :
                        target'[t] = [target[t] EXCEPT !.st = st]
    BY <1>2
<1>5. ASSUME NEW t \in Targets
      PROVE  /\ target'[t] \in TargetRows
             /\ target[t].st \notin Unoffered => target'[t].st \notin Unoffered
             /\ target[t].st \in Settled => target'[t].st = target[t].st
             /\ target'[t].st = "DELIVERED" => target[t].st = "DELIVERED"
             /\ target[t].st = "none" => target'[t].st = "none"
    <2>1. {"UNSUPPORTED", "ALREADY_COMPLIANT", "SKIPPED_NEWER"} \subseteq (Open \cup Ends) \ Unoffered
        BY DEF Open, Ends, Unoffered, Waiting
    <2>2. "PENDING" \notin Settled
        BY DEF Settled, Ends
    <2>3. CASE t \notin pending
        BY <2>3, <1>4, TargetAt
    <2>4. CASE t \in pending
        <3>1. target[t].st = "PENDING"
            BY <2>4, <1>3
        <3>2. CASE target'[t] = target[t]
            BY <3>1, <3>2, TargetAt
        <3>3. ASSUME NEW st \in {"UNSUPPORTED", "ALREADY_COMPLIANT", "SKIPPED_NEWER"},
                     target'[t] = [target[t] EXCEPT !.st = st]
              PROVE  target'[t] \in TargetRows /\ target'[t].st = st
            BY <3>3, <2>1, TargetAt
        <3> QED
            BY <2>1, <2>2, <3>1, <3>2, <3>3, <1>4 DEF Unoffered
    <2> QED
        BY <2>3, <2>4
<1>6. TargetsMove
    <2>1. target' \in [Targets -> TargetRows]
        BY <1>2, <1>5
    <2> QED
        BY <2>1, <1>5 DEF TargetsMove
<1>7. \A t \in Locked : target'[t] = target[t]
    <2>1. \A t \in Locked : t \in Targets /\ t \notin pending
        BY <1>1 DEF Locked, FleetInv, JobsFit, ReportTyped
    <2> QED
        BY <2>1, <1>4
<1> QED
    BY <1>1, <1>5, <1>6, <1>7, RolloutsRest, PhasesRest, JobsRest, ReportsRest, FleetMoves

LEMMA ClaimCommandKeeps ==
    ASSUME FleetInv, NEW x \in Jobs, NEW d \in Fleet, ClaimCommand(x, d) PROVE FleetInv' /\ TargetsMove
<1> DEFINE j == [op |-> "claim", dev |-> d, offered |-> Offered(d)]
<1>1. job[x] = NoJob /\ job' = [job EXCEPT ![x] = j] /\ UNCHANGED <<rollout, target, phase, told, reports>>
    BY DEF ClaimCommand, cloud
<1>2. ClaimTyped(j) /\ j.op # "report"
    BY DEF ClaimTyped, Offered, TargetsOn
<1> HIDE DEF j
<1>3. JobsMove
    BY <1>1, <1>2, JobGoes
<1> QED
    BY <1>1, <1>3, TargetsRest, RolloutsRest, PhasesRest, ReportsRest, FleetMoves

LEMMA JobFailsKeeps ==
    ASSUME FleetInv, NEW x \in Jobs, JobFails(x) PROVE FleetInv' /\ TargetsMove
<1>1. job' = [job EXCEPT ![x] = NoJob] /\ UNCHANGED <<rollout, target, phase, told, reports>>
    BY DEF JobFails, cloud
<1>2. JobsMove
    BY <1>1, NoJobIsTyped, JobGoes
<1> QED
    BY <1>1, <1>2, TargetsRest, RolloutsRest, PhasesRest, ReportsRest, FleetMoves

LEMMA BackoffPassesKeeps ==
    ASSUME FleetInv, NEW t \in Targets, BackoffPasses(t) PROVE FleetInv' /\ TargetsMove
<1>1. /\ t \notin Locked /\ target' = [target EXCEPT ![t].due = TRUE]
      /\ UNCHANGED <<rollout, phase, told, reports, job>>
    BY DEF BackoffPasses
<1>2. \A n \in Targets : n # t => target'[n] = target[n]
    BY <1>1 DEF FleetInv, FleetTyped
<1>3. target'[t] \in TargetRows /\ target'[t].st = target[t].st
    BY <1>1 DEF FleetInv, FleetTyped, TargetRows
<1>4. TargetsMove
    <2>1. target' \in [Targets -> TargetRows]
        BY <1>1, <1>3 DEF FleetInv, FleetTyped
    <2> QED
        BY <2>1, <1>2, <1>3 DEF TargetsMove
<1>5. \A n \in Locked : target'[n] = target[n]
    BY <1>1, <1>2 DEF Locked, FleetInv, JobsFit, ReportTyped
<1> QED
    BY <1>1, <1>2, <1>3, <1>4, <1>5, RolloutsRest, PhasesRest, JobsRest, ReportsRest, FleetMoves

LEMMA RetailGoesOnKeeps ==
    ASSUME FleetInv, NEW t \in Targets, RetailGoesOn(t) PROVE FleetInv' /\ TargetsMove
<1>1. UNCHANGED <<rollout, target, reports, job>> /\ told' = [told EXCEPT ![t] = FALSE]
    BY DEF RetailGoesOn, cloud
<1>2. PICK p \in Phases \ {"idle"} : phase' = [phase EXCEPT ![t] = p] /\ phase[t] # "idle"
    <2>1. phase[t] \in {"DOWNLOADING", "INSTALLING"}
        BY DEF RetailGoesOn, Follows
    <2>2. Follows[phase[t]] \subseteq Phases \ {"idle"}
        BY <2>1 DEF Follows, Phases
    <2> QED
        BY <2>1, <2>2 DEF RetailGoesOn
<1>3. PhasesMove
    <2>1. phase' \in [Targets -> Phases] /\ told' \in [Targets -> BOOLEAN]
        BY <1>1, <1>2 DEF FleetInv, FleetTyped
    <2>2. ~told'[t] /\ \A n \in Targets : n # t => phase'[n] = phase[n] /\ told'[n] = told[n]
        BY <1>1, <1>2 DEF FleetInv, FleetTyped
    <2> QED
        BY <2>1, <2>2, <1>2 DEF PhasesMove
<1> QED
    BY <1>1, <1>3, TargetsRest, RolloutsRest, JobsRest, ReportsRest, FleetMoves

LEMMA RetailReportsKeeps ==
    ASSUME FleetInv, NEW t \in Targets, RetailReports(t) PROVE FleetInv' /\ TargetsMove
<1>1. phase[t] # "idle" /\ UNCHANGED <<rollout, target, phase, told, job>>
    BY DEF RetailReports, cloud
<1>2. PICK retryable \in BOOLEAN :
        reports' = reports \cup {[t |-> t, st |-> phase[t], retryable |-> retryable]}
    BY DEF RetailReports
<1>3. ReportsMove
    <2>1. [t |-> t, st |-> phase[t], retryable |-> retryable] \in Said
        BY <1>1 DEF Said, FleetInv, FleetTyped
    <2> QED
        BY <1>1, <1>2, <2>1 DEF ReportsMove, FleetInv, FleetTyped
<1> QED
    BY <1>1, <1>3, TargetsRest, RolloutsRest, PhasesRest, JobsRest, FleetMoves
-----------------------------------------------------------------------------
(* Delivery and reports. *)

LEMMA TakesUpMoves ==
    ASSUME FleetInv, NEW t \in Targets, target'[t].st \notin Unoffered,
           TakesUp(t) \/ UNCHANGED <<phase, told>>
    PROVE  PhasesMove
<1>1. CASE UNCHANGED <<phase, told>>
    BY <1>1, PhasesRest
<1>2. CASE phase' = [phase EXCEPT ![t] = "DOWNLOADING"] /\ told' = [told EXCEPT ![t] = FALSE]
    <2>1. phase' \in [Targets -> Phases] /\ told' \in [Targets -> BOOLEAN]
        BY <1>2 DEF FleetInv, FleetTyped, Phases
    <2>2. ~told'[t] /\ \A n \in Targets : n # t => phase'[n] = phase[n] /\ told'[n] = told[n]
        BY <1>2 DEF FleetInv, FleetTyped
    <2> QED
        BY <2>1, <2>2 DEF PhasesMove
<1> QED
    BY <1>1, <1>2 DEF TakesUp

\* Only what was offered, and still is, is delivered.
LEMMA DeliveryWrites ==
    ASSUME FleetInv, NEW x \in Jobs, MarkTargetDelivered(x)
    PROVE  /\ TargetsMove
           /\ \A t \in Targets : target[t].st = "none" => target'[t].st = "none"
           /\ \A t \in Locked : target'[t] = target[t]
           /\ PhasesMove
<1> DEFINE d == job[x].dev
           still == {t \in job[x].offered : StillOffered(t)}
           unsupported == (TargetsOn(d) \cap In({"PENDING"})) \ Artifacts
<1>1. /\ job[x].op = "claim" /\ (unsupported \cup still) \cap Locked = {}
    BY DEF MarkTargetDelivered
<1>2. \A t \in still : /\ t \in Targets /\ target[t].st \in {"PENDING", "DELIVERED"}
                       /\ rollout[t[1]].st = "ACTIVE"
    BY <1>1 DEF StillOffered, FleetInv, JobsFit, ClaimTyped
<1>3. \A t \in unsupported : t \in Targets /\ target[t].st = "PENDING"
    BY DEF In
<1>4. \/ target' = Settle(unsupported, "UNSUPPORTED") /\ UNCHANGED <<phase, told>>
      \/ \E t \in still :
            /\ target' = [Settle(unsupported, "UNSUPPORTED") EXCEPT ![t].st = "DELIVERED"]
            /\ TakesUp(t) \/ UNCHANGED <<phase, told>>
    BY DEF MarkTargetDelivered
<1>5. \A t \in Locked : t \in Targets /\ t \notin unsupported /\ t \notin still
    BY <1>1 DEF Locked, FleetInv, JobsFit, ReportTyped
<1> HIDE DEF still, unsupported, d
<1> DEFINE settled == Settle(unsupported, "UNSUPPORTED")
<1>6. ASSUME NEW t \in Targets
      PROVE  settled[t] = IF t \in unsupported THEN [target[t] EXCEPT !.st = "UNSUPPORTED"] ELSE target[t]
    BY DEF Settle
<1>7. settled \in [Targets -> TargetRows]
    <2>1. ASSUME NEW t \in Targets PROVE settled[t] \in TargetRows
        <3>1. target[t] \in TargetRows /\ [target[t] EXCEPT !.st = "UNSUPPORTED"] \in TargetRows
            BY TargetAt, StatesApart
        <3> QED
            BY <1>6, <3>1
    <2>2. settled = [t \in Targets |-> settled[t]]
        BY DEF Settle
    <2> QED
        BY <2>1, <2>2
<1>8. ASSUME NEW t \in unsupported
      PROVE  settled[t].st = "UNSUPPORTED" /\ target[t].st = "PENDING"
    <2>1. t \in Targets /\ target[t].st = "PENDING"
        BY <1>3, <1>8
    <2>2. settled[t] = [target[t] EXCEPT !.st = "UNSUPPORTED"]
        BY <1>6, <1>8, <2>1
    <2>3. [target[t] EXCEPT !.st = "UNSUPPORTED"].st = "UNSUPPORTED"
        BY <2>1, TargetAt
    <2> QED
        BY <2>1, <2>2, <2>3
<1> HIDE DEF settled
<1>9. "PENDING" \notin Settled /\ "PENDING" \notin Unoffered /\ "DELIVERED" \notin Settled
    BY DEF Settled, Unoffered, Ends
<1>10. CASE target' = settled /\ UNCHANGED <<phase, told>>
    <2>1. TargetsMove
        BY <1>3, <1>6, <1>7, <1>8, <1>9, <1>10, StatesApart DEF TargetsMove
    <2>2. \A t \in Targets : target[t].st = "none" => target'[t].st = "none"
        BY <1>6, <1>8, <1>10
    <2> QED
        BY <2>1, <2>2, <1>5, <1>6, <1>8, <1>10, PhasesRest
<1>11. ASSUME NEW n \in still, target' = [settled EXCEPT ![n].st = "DELIVERED"],
              TakesUp(n) \/ UNCHANGED <<phase, told>>
       PROVE  /\ TargetsMove
              /\ \A t \in Targets : target[t].st = "none" => target'[t].st = "none"
              /\ \A t \in Locked : target'[t] = target[t]
              /\ PhasesMove
    <2>1. n \in Targets /\ target[n].st \in {"PENDING", "DELIVERED"} /\ rollout[n[1]].st = "ACTIVE"
        BY <1>2, <1>11
    <2>2. target'[n].st = "DELIVERED" /\ target'[n] \in TargetRows
        <3>1. settled[n] \in TargetRows
            BY <1>7, <2>1
        <3>2. target'[n] = [settled[n] EXCEPT !.st = "DELIVERED"]
            BY <1>7, <1>11, <2>1
        <3> QED
            BY <3>1, <3>2 DEF TargetRows, Open, Waiting
    <2>3. \A t \in Targets : t # n => target'[t] = settled[t]
        BY <1>7, <1>11
    <2>4. target' \in [Targets -> TargetRows]
        BY <1>7, <1>11, <2>2
    <2>5. TargetsMove
        <3> SUFFICES ASSUME NEW t \in Targets
                     PROVE  /\ target[t].st \notin Unoffered => target'[t].st \notin Unoffered
                            /\ target[t].st \in Settled => target'[t].st = target[t].st
                            /\ target'[t].st = "DELIVERED" /\ target[t].st # "DELIVERED"
                                    => rollout[t[1]].st = "ACTIVE"
            BY <2>4 DEF TargetsMove
        <3>1. CASE t = n
            BY <1>9, <2>1, <2>2, <3>1, StatesApart
        <3>2. CASE t # n /\ t \in unsupported
            BY <1>8, <1>9, <2>3, <3>2, StatesApart
        <3>3. CASE t # n /\ t \notin unsupported
            BY <1>6, <2>3, <3>3
        <3> QED
            BY <3>1, <3>2, <3>3
    <2>6. \A t \in Targets : target[t].st = "none" => target'[t].st = "none"
        BY <1>6, <1>8, <2>1, <2>3
    <2>7. \A t \in Locked : target'[t] = target[t]
        BY <1>5, <1>6, <2>3, <1>11
    <2>8. PhasesMove
        BY <2>1, <2>2, <1>11, TakesUpMoves, StatesApart
    <2> QED
        BY <2>5, <2>6, <2>7, <2>8
<1> QED
    BY <1>4, <1>10, <1>11 DEF settled

LEMMA MarkTargetDeliveredKeeps ==
    ASSUME FleetInv, NEW x \in Jobs, MarkTargetDelivered(x) PROVE FleetInv' /\ TargetsMove
<1>1. /\ job' = [job EXCEPT ![x] = NoJob] /\ job[x].op = "claim" /\ UNCHANGED <<rollout, reports>>
    BY DEF MarkTargetDelivered
<1>2. JobsMove
    BY <1>1, DeliveryWrites, NoJobIsTyped, JobGoes
<1> QED
    BY <1>1, <1>2, DeliveryWrites, RolloutsRest, ReportsRest, FleetMoves

LEMMA LockDeviceTargetKeeps ==
    ASSUME FleetInv, NEW x \in Jobs, NEW m \in reports, LockDeviceTarget(x, m) PROVE FleetInv' /\ TargetsMove
<1> DEFINE next == ApplyReport(target[m.t], m)
           j == [op |-> "report", t |-> m.t, m |-> m, next |-> next, completes |-> Completes(m.t, next)]
<1>1. /\ m.t \notin Locked /\ target[m.t].st # "none" /\ reports' = reports \ {m}
      /\ job' = [job EXCEPT ![x] = j] /\ UNCHANGED <<rollout, target, phase, told>>
    BY DEF LockDeviceTarget, cloud
<1>2. m \in Said /\ m.t \in Targets /\ target[m.t].st \notin Unoffered
    BY DEF FleetInv, FleetTyped, Said, ReportsOffered
<1>3. ClaimTyped(j) /\ j.op = "report" /\ j.t = m.t /\ ReportTyped(j)
    BY <1>2 DEF ClaimTyped, ReportTyped
<1> HIDE DEF j
<1>4. \A y \in Jobs : job'[y] = IF y = x THEN j ELSE job[y]
    BY <1>1 DEF FleetInv, FleetTyped
<1>5. FleetTyped'
    BY <1>1 DEF FleetInv, FleetTyped
<1>6. JobsFit'
    <2> SUFFICES ASSUME NEW y \in Jobs PROVE ClaimTyped(job'[y]) /\ ReportTyped(job[y])'
        BY DEF JobsFit
    <2>1. ClaimTyped(job[y]) /\ ReportTyped(job[y])
        BY DEF FleetInv, JobsFit
    <2> QED
        BY <1>1, <1>3, <1>4, <2>1 DEF ReportTyped
<1>7. LockedOnce'
    BY <1>1, <1>3, <1>4 DEF FleetInv, LockedOnce, Locked
<1>8. RolloutsFit' /\ BegunOffered' /\ ReportsOffered' /\ OutcomeIsKept'
    BY <1>1 DEF FleetInv, RolloutsFit, BegunOffered, ReportsOffered, OutcomeIsKept
<1> QED
    BY <1>1, <1>5, <1>6, <1>7, <1>8, TargetsRest DEF FleetInv

LEMMA CommitReportKeeps ==
    ASSUME FleetInv, NEW x \in Jobs, CommitReport(x) PROVE FleetInv' /\ TargetsMove
<1> DEFINE j == job[x]
<1>1. /\ j.op = "report" /\ job' = [job EXCEPT ![x] = NoJob] /\ target' = [target EXCEPT ![j.t] = j.next]
      /\ reports' = reports
    BY DEF CommitReport
<1>2. /\ j.t \in Targets /\ j.m \in Said /\ j.m.t = j.t /\ target[j.t].st \notin Unoffered
      /\ j.next = ApplyReport(target[j.t], j.m)
    BY <1>1 DEF FleetInv, JobsFit, ReportTyped
<1>3. /\ j.next \in TargetRows /\ j.next.st \notin Unoffered
      /\ target[j.t].st \in Settled => j.next = target[j.t]
      /\ j.m.st \in Installed => j.next.st \in Settled
      /\ j.next.st = "DELIVERED" => target[j.t].st = "DELIVERED"
    BY <1>2, TargetAt, Applied
<1>4. target'[j.t] = j.next /\ \A t \in Targets : t # j.t => target'[t] = target[t]
    BY <1>1, <1>2 DEF FleetInv, FleetTyped
<1>5. TargetsMove
    <2>1. target' \in [Targets -> TargetRows]
        BY <1>1, <1>3 DEF FleetInv, FleetTyped
    <2> QED
        BY <2>1, <1>3, <1>4 DEF TargetsMove
<1>6. \A t \in Targets : target[t].st = "none" => target'[t].st = "none"
    BY <1>2, <1>4 DEF Unoffered
<1>7. RolloutsMove
    <2>1. CASE rollout' = rollout
        BY <2>1, <1>6, RolloutsRest
    <2>2. CASE rollout' = [rollout EXCEPT ![j.t[1]].st = "COMPLETED"] /\ rollout[j.t[1]].st = "ACTIVE"
        <3>1. rollout' \in [Sequences -> RolloutRows]
            BY <2>2 DEF FleetInv, FleetTyped, RolloutRows
        <3>2. \A s \in Sequences : rollout'[s].st = "none" => rollout[s].st = "none"
            BY <2>2 DEF FleetInv, FleetTyped, RolloutRows
        <3> QED
            BY <3>1, <3>2, <1>6, TargetPairs DEF RolloutsMove, FleetInv, RolloutsFit
    <2> QED
        BY <2>1, <2>2 DEF CommitReport
<1>8. PhasesMove
    <2>1. CASE UNCHANGED <<phase, told>>
        BY <2>1, PhasesRest
    <2>2. CASE /\ phase[j.t] = j.m.st /\ told' = [told EXCEPT ![j.t] = TRUE]
               /\ phase' = IF j.next.st = "CANCELLED" /\ phase[j.t] = "DOWNLOADING"
                           THEN [phase EXCEPT ![j.t] = "idle"] ELSE phase
        <3>1. phase' \in [Targets -> Phases] /\ told' \in [Targets -> BOOLEAN]
            BY <2>2 DEF FleetInv, FleetTyped, Phases
        <3>2. \A t \in Targets : t # j.t => phase'[t] = phase[t] /\ told'[t] = told[t]
            BY <2>2 DEF FleetInv, FleetTyped
        <3>3. phase'[j.t] \in {phase[j.t], "idle"} /\ phase[j.t] = j.m.st
            BY <2>2, <1>2 DEF FleetInv, FleetTyped
        <3>4. "idle" \notin Installed
            BY DEF Installed
        <3> QED
            BY <3>1, <3>2, <3>3, <3>4, <1>3, <1>4 DEF PhasesMove
    <2> QED
        BY <2>1, <2>2 DEF CommitReport
<1>9. JobsMove
    <2>1. \A t \in Locked \ {j.t} : target'[t] = target[t]
        BY <1>4 DEF Locked, FleetInv, JobsFit, ReportTyped
    <2> QED
        BY <1>1, <2>1, NoJobIsTyped, JobGoes
<1> QED
    BY <1>1, <1>5, <1>7, <1>8, <1>9, ReportsRest, FleetMoves
-----------------------------------------------------------------------------
LEMMA FleetInvInit == FleetInit => FleetInv
<1> SUFFICES ASSUME FleetInit PROVE FleetInv
    OBVIOUS
<1>1. FleetTyped
    <2>1. NoRollout \in RolloutRows /\ NoTarget \in TargetRows
        BY DEF NoRollout, NoTarget, RolloutRows, TargetRows
    <2> QED
        BY <2>1 DEF FleetInit, FleetTyped, Phases
<1>2. JobsFit /\ LockedOnce
    BY NoJobIsTyped DEF FleetInit, JobsFit, LockedOnce, ReportTyped
<1>3. RolloutsFit /\ BegunOffered /\ ReportsOffered /\ OutcomeIsKept
    BY TargetPairs DEF FleetInit, RolloutsFit, BegunOffered, ReportsOffered, OutcomeIsKept, NoTarget
<1> QED
    BY <1>1, <1>2, <1>3 DEF FleetInv

LEMMA FleetInvKept == FleetInv /\ [FleetNext]_fleetVars => FleetInv' /\ TargetsMove
<1> SUFFICES ASSUME FleetInv, [FleetNext]_fleetVars PROVE FleetInv' /\ TargetsMove
    OBVIOUS
<1>1. CASE UNCHANGED fleetVars
    BY <1>1, TargetsRest, RolloutsRest, PhasesRest, JobsRest, ReportsRest, FleetMoves DEF fleetVars
<1>2. CASE \E r \in Sequences :
        \/ SetReleaseStatus(r) \/ CancelRollout(r)
        \/ \E p \in Stages : CreateRollout(r, p) \/ SetRolloutPercentage(r, p)
        \/ TransitionRollout(r, "DRAFT", "ACTIVE") \/ TransitionRollout(r, "ACTIVE", "PAUSED")
        \/ TransitionRollout(r, "PAUSED", "ACTIVE")
    BY <1>2, SetReleaseStatusKeeps, CancelRolloutKeeps, CreateRolloutKeeps,
       SetRolloutPercentageKeeps, TransitionRolloutKeeps
<1>3. CASE \E d \in Fleet, capable \in BOOLEAN : RecordStatus(d, capable)
    BY <1>3, RecordStatusKeeps
<1>4. CASE \E t \in Targets : RetailGoesOn(t) \/ RetailReports(t) \/ BackoffPasses(t)
    BY <1>4, RetailGoesOnKeeps, RetailReportsKeeps, BackoffPassesKeeps
<1>5. CASE \E x \in Jobs :
        \/ \E d \in Fleet : ClaimCommand(x, d)
        \/ MarkTargetDelivered(x) \/ CommitReport(x) \/ JobFails(x)
        \/ \E m \in reports : LockDeviceTarget(x, m)
    BY <1>5, ClaimCommandKeeps, MarkTargetDeliveredKeeps, CommitReportKeeps, JobFailsKeeps,
       LockDeviceTargetKeeps
<1> QED
    BY <1>1, <1>2, <1>3, <1>4, <1>5 DEF FleetNext

LEMMA FleetInvAlways == FleetSafe => []FleetInv
BY FleetInvInit, FleetInvKept, PTL DEF FleetSafe

\* Once Retail's end of an installation was answered, Cloud keeps an end
\* that is not a cancellation (ApplyReport, CancelOpenTargets).
THEOREM OutcomeKept == FleetSafe => []OutcomeIsKept
<1>1. FleetInv => OutcomeIsKept
    BY DEF FleetInv
<1> QED
    BY <1>1, FleetInvAlways, PTL

\* A pause or a cancellation and a concurrent claim serialize: nothing is
\* delivered of a rollout that is not active (ClaimDeviceUpdateTarget).
THEOREM DeliveryNeedsActive == FleetSafe => DeliveredWhileActive
<1>1. FleetInv /\ [FleetNext]_fleetVars =>
        [\A t \in Targets :
            target'[t].st = "DELIVERED" /\ target[t].st # "DELIVERED" => rollout[t[1]].st = "ACTIVE"]_fleetVars
    BY FleetInvKept DEF TargetsMove
<1> QED
    BY <1>1, FleetInvAlways, PTL DEF FleetSafe, DeliveredWhileActive

\* An end of a target other than a cancellation is never changed, by a late
\* or repeated report, a cancellation, a status or a claim.
SettledStays ==
    [][\A t \in Targets : target[t].st \in Settled => target'[t].st = target[t].st]_fleetVars

\* Nothing Retail or the operator does reopens it (ApplyReport, Settle).
THEOREM SettledTargetsStay == FleetSafe => SettledStays
<1>1. FleetInv /\ [FleetNext]_fleetVars =>
        [\A t \in Targets : target[t].st \in Settled => target'[t].st = target[t].st]_fleetVars
    BY FleetInvKept DEF TargetsMove
<1> QED
    BY <1>1, FleetInvAlways, PTL DEF FleetSafe, SettledStays
-----------------------------------------------------------------------------
(* CatalogAdmin.  A command that was received has a target that says so,    *)
(* and only one that no workstation in use has received is cancelled.       *)

DeskRows == [active : BOOLEAN, capable : BOOLEAN, rev : Nat, value : Values]
Shots == [rev : Nat, value : Values]
CommandRows == [st : {"PENDING", "CANCELLED"}, want : Values, expected : Nat, result : Nat]
Received == {"DELIVERED", "APPLIED", "CONFLICT", "SKIPPED_REVOKED"}
AimRows == [st : {"none", "PENDING", "CANCELLED"} \cup Received, post : Nat]
RanRows == [st : {"no", "APPLIED", "CONFLICT"}, post : Nat]
PollRows == [due : SUBSET Commands, taken : SUBSET Commands, by : Desks \cup {0}]

PollTyped(r) == r \in PollRows /\ (r.by = 0 => r.due = {} /\ r.taken = {})

AdminTyped ==
    /\ desk \in [Desks -> DeskRows] /\ command \in [Commands -> CommandRows \cup {NoCommand}]
    /\ aim \in [Commands -> [Desks -> AimRows]] /\ inbox \in [Desks -> SUBSET Commands]
    /\ ran \in [Commands -> [Desks -> RanRows]]
    /\ snapshots \subseteq Shots /\ projected \in Shots
    /\ poll \in [Polls -> PollRows] /\ \A x \in Polls : PollTyped(poll[x])

AimFits(c, d) ==
    /\ command[c] = NoCommand => aim[c][d].st = "none"
    /\ c \in inbox[d] => aim[c][d].st \in Received
    /\ c \notin inbox[d] \/ ran[c][d].st = "no" => ran[c][d] = NotRun
    /\ aim[c][d].st \in {"APPLIED", "CONFLICT"} => aim[c][d] = ran[c][d]
    /\ aim[c][d].st = "SKIPPED_REVOKED" => ~desk[d].active
    /\ c \in Creating /\ d # Lowest(Desks) => aim[c][d].st = "none"
    /\ command[c].st = "CANCELLED" =>
        /\ aim[c][d].st \notin {"APPLIED", "DELIVERED"}
        /\ desk[d].active => ran[c][d].st # "APPLIED" /\ (c \in inbox[d] => ran[c][d] # NotRun)

AimsFit == \A c \in Commands : \A d \in Desks : AimFits(c, d)
PollsFit == \A x \in Polls : \A c \in poll[x].taken : aim[c][poll[x].by].st \in Received

\* Revisions are made at a workstation, and a revision after the one a
\* command expected is the command's, or of a workstation that conflicts.
Revisions == snapshots \cup {projected}
Reached == \A m \in Revisions : \E d \in Desks : m.rev <= desk[d].rev
Moved(c, d) == ran[c][d].st = "APPLIED" /\ ran[c][d].post = command[c].expected + 1

RanFits ==
    \A c \in Commands \ Creating : \A d \in Desks :
        ran[c][d].st = "APPLIED" =>
            /\ ran[c][d].post <= desk[d].rev
            /\ ran[c][d].post \in {command[c].expected, command[c].expected + 1}

Explains(c, m) ==
    m.rev = command[c].expected + 1 =>
        \/ m.value = command[c].want
        \/ \E d \in Desks : desk[d].rev > command[c].expected /\ ~Moved(c, d)

Explained ==
    \A c \in Commands \ Creating : command[c] # NoCommand => \A m \in Revisions : Explains(c, m)

ValuesFit == Reached /\ RanFits /\ Explained

AdminInv == AdminTyped /\ AimsFit /\ PollsFit /\ ValuesFit

LEMMA AdminTypes ==
    ASSUME AdminInv
    PROVE  /\ \A d \in Desks : /\ desk[d] \in DeskRows /\ desk[d].active \in BOOLEAN
                               /\ desk[d].rev \in Nat /\ desk[d].value \in Values
           /\ \A c \in Commands : /\ command[c] \in CommandRows \cup {NoCommand}
                                  /\ command[c] # NoCommand => command[c] \in CommandRows
           /\ \A c \in Commands : \A d \in Desks :
                /\ aim[c][d] \in AimRows /\ ran[c][d] \in RanRows /\ AimFits(c, d)
           /\ \A m \in Revisions : m \in Shots /\ m.rev \in Nat /\ m.value \in Values
           /\ \A x \in Polls : PollTyped(poll[x])
BY DEF AdminInv, AdminTyped, DeskRows, Shots, AimsFit, Revisions

LEMMA CommandAt ==
    ASSUME NEW r \in CommandRows
    PROVE  /\ r.st \in {"PENDING", "CANCELLED"} /\ r.want \in Values /\ r.expected \in Nat
           /\ r.result \in Nat /\ r # NoCommand
BY DEF CommandRows, NoCommand

LEMMA NothingYet ==
    /\ NoCommand.st = "none" /\ NoAim.st = "none" /\ NoAim \in AimRows
    /\ NotRun.st = "no" /\ NotRun \in RanRows
    /\ NoPoll \in PollRows /\ NoPoll.taken = {} /\ PollTyped(NoPoll)
BY DEF NoCommand, NoAim, AimRows, NotRun, RanRows, NoPoll, PollRows, PollTyped

\* A step that makes no revision and asks for nothing new.
LEMMA ValuesRest ==
    ASSUME AdminInv, Revisions' \subseteq Revisions,
           \A d \in Desks : desk'[d].rev = desk[d].rev,
           \A c \in Commands :
              /\ command'[c] # NoCommand => command[c] # NoCommand
              /\ command'[c].expected = command[c].expected /\ command'[c].want = command[c].want,
           \A c \in Commands \ Creating : \A d \in Desks :
              \/ ran'[c][d] = ran[c][d] \/ ran'[c][d].st # "APPLIED"
              \/ /\ ran'[c][d].post = desk[d].rev /\ command[c].expected = desk[d].rev
    PROVE  ValuesFit'
<1>1. Reached'
    BY DEF AdminInv, ValuesFit, Reached
<1>2. RanFits'
    BY AdminTypes DEF AdminInv, ValuesFit, RanFits
<1>3. ASSUME NEW c \in Commands \ Creating, NEW d \in Desks, ~Moved(c, d) PROVE ~Moved(c, d)'
    <2>1. CASE ran'[c][d] = ran[c][d] \/ ran'[c][d].st # "APPLIED"
        BY <1>3, <2>1 DEF Moved
    <2>2. CASE ran'[c][d].post = desk[d].rev /\ command[c].expected = desk[d].rev
        BY <2>2, AdminTypes DEF Moved
    <2> QED
        BY <2>1, <2>2
<1>4. \A c \in Commands \ Creating : \A m \in Revisions : Explains(c, m) => Explains(c, m)'
    BY <1>3 DEF Explains
<1>5. Explained'
    <2> SUFFICES ASSUME NEW c \in Commands \ Creating, command'[c] # NoCommand, NEW m \in Revisions'
                 PROVE  Explains(c, m)'
        BY DEF Explained
    <2>1. Explains(c, m)
        BY DEF AdminInv, ValuesFit, Explained
    <2> QED
        BY <1>4, <2>1
<1> QED
    BY <1>1, <1>2, <1>5 DEF ValuesFit

\* A workstation makes revision n, of value v.
LEMMA ValuesMove ==
    ASSUME AdminInv, NEW w \in Desks, NEW v \in Values, command' = command, projected' = projected,
           desk'[w].rev = desk[w].rev + 1,
           \A d \in Desks \ {w} : desk'[d] = desk[d],
           snapshots' = snapshots \cup {[rev |-> desk[w].rev + 1, value |-> v]},
           \A c \in Commands \ Creating : \A d \in Desks :
              ran'[c][d] = ran[c][d] \/
                 /\ d = w /\ ran[c][w] = NotRun /\ command[c].expected = desk[w].rev
                 /\ v = command[c].want
                 /\ ran'[c][w].post = desk[w].rev + 1
    PROVE  ValuesFit'
<1> DEFINE new == [rev |-> desk[w].rev + 1, value |-> v]
<1>1. Revisions' = Revisions \cup {new} /\ new.rev = desk[w].rev + 1 /\ new.value = v
    BY DEF Revisions
<1>2. \A d \in Desks : desk[d].rev \in Nat /\ desk[d].rev <= desk'[d].rev
    BY AdminTypes
<1> HIDE DEF new
<1>3. Reached'
    <2> SUFFICES ASSUME NEW m \in Revisions' PROVE \E d \in Desks : m.rev <= desk'[d].rev
        BY DEF Reached
    <2>1. CASE m = new
        BY <1>1, <1>2, <2>1
    <2>2. CASE m \in Revisions
        <3>1. PICK d \in Desks : m.rev <= desk[d].rev
            BY <2>2 DEF AdminInv, ValuesFit, Reached
        <3>2. m.rev \in Nat /\ desk'[d].rev \in Nat
            BY <2>2, <1>2, AdminTypes
        <3> QED
            BY <3>1, <3>2, <1>2
    <2> QED
        BY <2>1, <2>2, <1>1
<1>4. RanFits'
    <2> SUFFICES ASSUME NEW c \in Commands \ Creating, NEW d \in Desks, ran'[c][d].st = "APPLIED"
                 PROVE  /\ ran'[c][d].post <= desk'[d].rev
                        /\ ran'[c][d].post \in {command[c].expected, command[c].expected + 1}
        BY DEF RanFits
    <2>1. CASE ran'[c][d] = ran[c][d]
        <3>1. ran[c][d].post <= desk[d].rev /\ ran[c][d].post \in {command[c].expected, command[c].expected + 1}
            BY <2>1 DEF AdminInv, ValuesFit, RanFits
        <3>2. ran[c][d].post \in Nat /\ desk'[d].rev \in Nat
            BY <1>2, AdminTypes DEF RanRows
        <3> QED
            BY <2>1, <3>1, <3>2, <1>2
    <2>2. CASE ran'[c][d] # ran[c][d]
        BY <2>2, <1>2
    <2> QED
        BY <2>1, <2>2
<1>5. Explained'
    <2> SUFFICES ASSUME NEW c \in Commands \ Creating, command[c] # NoCommand, NEW m \in Revisions'
                 PROVE  Explains(c, m)'
        BY DEF Explained
    <2> SUFFICES ASSUME m.rev = command[c].expected + 1, m.value # command[c].want
                 PROVE  \E d \in Desks : desk'[d].rev > command[c].expected /\ ~Moved(c, d)'
        BY DEF Explains
    <2>1. command[c].expected \in Nat
        BY AdminTypes, CommandAt
    <2>2. CASE m = new
        <3>1. desk[w].rev = command[c].expected /\ desk'[w].rev > command[c].expected
            BY <1>1, <1>2, <2>1, <2>2
        <3>2. ran'[c][w] = ran[c][w]
            BY <1>1, <2>2
        <3>3. ~Moved(c, w)
            <4>1. ran[c][w].st = "APPLIED" => ran[c][w].post <= desk[w].rev
                BY DEF AdminInv, ValuesFit, RanFits
            <4> QED
                BY <4>1, <3>1, <2>1 DEF Moved
        <3> QED
            BY <3>1, <3>2, <3>3 DEF Moved
    <2>3. CASE m \in Revisions
        <3>1. PICK d \in Desks : desk[d].rev > command[c].expected /\ ~Moved(c, d)
            BY <2>3 DEF AdminInv, ValuesFit, Explained, Explains
        <3>2. ran'[c][d] = ran[c][d]
            BY <3>1, <1>2, <2>1
        <3>3. desk'[d].rev > command[c].expected
            BY <3>1, <1>2, <2>1
        <3> QED
            BY <3>1, <3>2, <3>3 DEF Moved
    <2> QED
        BY <2>2, <2>3, <1>1
<1> QED
    BY <1>3, <1>4, <1>5 DEF ValuesFit
-----------------------------------------------------------------------------
LEMMA EditKeeps ==
    ASSUME AdminInv, NEW w \in Desks, NEW v \in Values, Edit(w, v) PROVE AdminInv'
<1>1. /\ desk' = [desk EXCEPT ![w].rev = @ + 1, ![w].value = v]
      /\ snapshots' = snapshots \cup {[rev |-> desk[w].rev + 1, value |-> v]}
      /\ UNCHANGED <<command, aim, inbox, ran, projected, poll>>
    BY DEF Edit
<1>2. /\ desk'[w] = [desk[w] EXCEPT !.rev = @ + 1, !.value = v]
      /\ \A d \in Desks \ {w} : desk'[d] = desk[d]
    BY <1>1 DEF AdminInv, AdminTyped
<1>3. desk'[w] \in DeskRows /\ desk'[w].rev = desk[w].rev + 1 /\ desk'[w].active = desk[w].active
    <2>1. desk[w] \in DeskRows /\ desk[w].rev \in Nat
        BY AdminTypes
    <2>2. desk[w].rev + 1 \in Nat
        BY <2>1
    <2> DEFINE n == desk[w].rev + 1
    <2>3. desk'[w] = [desk[w] EXCEPT !.rev = n, !.value = v]
        BY <1>2
    <2> HIDE DEF n
    <2>4. n \in Nat
        BY <2>2 DEF n
    <2>5. desk'[w] \in DeskRows /\ desk'[w].rev = n /\ desk'[w].active = desk[w].active
        BY <2>1, <2>3, <2>4 DEF DeskRows
    <2> QED
        BY <2>5 DEF n
<1>4. AdminTyped'
    <2>1. desk' \in [Desks -> DeskRows]
        BY <1>1, <1>3 DEF AdminInv, AdminTyped
    <2>2. [rev |-> desk[w].rev + 1, value |-> v] \in Shots
        BY AdminTypes DEF Shots
    <2> QED
        BY <1>1, <2>1, <2>2 DEF AdminInv, AdminTyped
<1>5. AimsFit' /\ PollsFit'
    <2>1. ASSUME NEW d \in Desks PROVE desk'[d].active = desk[d].active
        <3>1. CASE d = w
            BY <1>3, <3>1
        <3>2. CASE d # w
            <4>1. desk'[d] = desk[d]
                BY <1>2, <3>2
            <4> QED
                BY <4>1
        <3> QED
            BY <3>1, <3>2
    <2>2. AimsFit'
        <3> SUFFICES ASSUME NEW c \in Commands, NEW d \in Desks PROVE AimFits(c, d)'
            BY DEF AimsFit
        <3> QED
            BY <1>1, <2>1 DEF AdminInv, AimsFit, AimFits
    <2>3. PollsFit'
        BY <1>1 DEF AdminInv, PollsFit
    <2> QED
        BY <2>2, <2>3
<1>6. ValuesFit'
    BY <1>1, <1>2, <1>3, ValuesMove
<1> QED
    BY <1>4, <1>5, <1>6 DEF AdminInv

LEMMA DeskKeeps ==
    ASSUME AdminInv, NEW w \in Desks, NEW b \in BOOLEAN,
           desk' = [desk EXCEPT ![w].capable = b] \/ desk' = [desk EXCEPT ![w].active = FALSE],
           UNCHANGED <<command, aim, inbox, ran, snapshots, projected, poll>>
    PROVE  AdminInv'
<1>2. /\ desk'[w] = [desk[w] EXCEPT !.capable = b] \/ desk'[w] = [desk[w] EXCEPT !.active = FALSE]
      /\ \A d \in Desks \ {w} : desk'[d] = desk[d]
    BY DEF AdminInv, AdminTyped
<1>3. desk'[w] \in DeskRows /\ desk'[w].rev = desk[w].rev /\ (desk'[w].active => desk[w].active)
    BY <1>2, AdminTypes DEF DeskRows
<1>4. AdminTyped'
    <2>1. desk' \in [Desks -> DeskRows]
        BY <1>3 DEF AdminInv, AdminTyped
    <2> QED
        BY <2>1 DEF AdminInv, AdminTyped
<1>5. AimsFit' /\ PollsFit'
    BY <1>2, <1>3 DEF AdminInv, AimsFit, AimFits, PollsFit
<1>6. ValuesFit'
    BY <1>2, <1>3, ValuesRest DEF Revisions
<1> QED
    BY <1>4, <1>5, <1>6 DEF AdminInv

LEMMA ProjectKeeps ==
    ASSUME AdminInv, NEW m \in snapshots, Project(m) PROVE AdminInv'
<1>1. /\ snapshots' = snapshots \ {m} /\ projected' \in {projected, m}
      /\ UNCHANGED <<desk, command, aim, inbox, ran, poll>>
    BY DEF Project
<1>2. AdminTyped'
    BY <1>1 DEF AdminInv, AdminTyped
<1>3. AimsFit' /\ PollsFit'
    BY <1>1 DEF AdminInv, AimsFit, AimFits, PollsFit
<1>4. ValuesFit'
    BY <1>1, ValuesRest DEF Revisions
<1> QED
    BY <1>2, <1>3, <1>4 DEF AdminInv

LEMMA CreateKeeps ==
    ASSUME AdminInv, NEW k \in Commands, NEW v \in Values, Create(k, v) PROVE AdminInv'
<1> DEFINE row == [st |-> "PENDING", want |-> v, expected |-> projected.rev, result |-> 0]
           aims == [d \in Desks |-> IF d \in AimedAt(k) THEN [NoAim EXCEPT !.st = "PENDING"] ELSE NoAim]
<1>1. /\ command[k] = NoCommand /\ command' = [command EXCEPT ![k] = row]
      /\ aim' = [aim EXCEPT ![k] = aims]
      /\ UNCHANGED <<desk, inbox, ran, snapshots, projected, poll>>
    BY DEF Create
<1>2. /\ row \in CommandRows /\ row.st = "PENDING" /\ row.want = v /\ row.expected = projected.rev
    BY DEF CommandRows, AdminInv, AdminTyped, Shots
<1>3. \A d \in Desks : /\ aims[d] \in AimRows /\ aims[d].st \in {"PENDING", "none"}
                       /\ k \in Creating /\ d # Lowest(Desks) => aims[d].st = "none"
    BY DEF AimRows, NoAim, AimedAt
<1>4. aims \in [Desks -> AimRows]
    BY <1>3
<1> HIDE DEF row, aims
<1>5. \A c \in Commands : /\ command'[c] = IF c = k THEN row ELSE command[c]
                          /\ aim'[c] = IF c = k THEN aims ELSE aim[c]
    BY <1>1 DEF AdminInv, AdminTyped
<1>6. AdminTyped'
    <2>1. command' \in [Commands -> CommandRows \cup {NoCommand}] /\ aim' \in [Commands -> [Desks -> AimRows]]
        BY <1>1, <1>2, <1>4 DEF AdminInv, AdminTyped
    <2> QED
        BY <1>1, <2>1 DEF AdminInv, AdminTyped
<1>7. \A d \in Desks : k \notin inbox[d] /\ aim[k][d].st = "none" /\ ran[k][d] = NotRun
    <2>1. \A d \in Desks : AimFits(k, d)
        BY DEF AdminInv, AimsFit
    <2> QED
        BY <1>1, <2>1 DEF AimFits, Received
<1>8. AimsFit'
    <2> SUFFICES ASSUME NEW c \in Commands, NEW d \in Desks PROVE AimFits(c, d)'
        BY DEF AimsFit
    <2>1. AimFits(c, d)
        BY DEF AdminInv, AimsFit
    <2>2. CASE c # k
        BY <1>1, <1>5, <2>1, <2>2 DEF AimFits
    <2>3. CASE c = k
        BY <1>1, <1>2, <1>3, <1>5, <1>7, <2>3, CommandAt DEF AimFits
    <2> QED
        BY <2>2, <2>3
<1>9. PollsFit'
    <2> SUFFICES ASSUME NEW x \in Polls, NEW c \in poll[x].taken PROVE aim'[c][poll[x].by].st \in Received
        BY <1>1 DEF PollsFit
    <2>1. aim[c][poll[x].by].st \in Received /\ poll[x].by \in Desks /\ c \in Commands
        BY AdminTypes DEF AdminInv, PollsFit, PollTyped, PollRows
    <2>2. c # k
        BY <1>7, <2>1 DEF Received
    <2> QED
        BY <1>5, <2>1, <2>2
<1>10. ValuesFit'
    <2>1. Reached'
        BY <1>1 DEF AdminInv, ValuesFit, Reached, Revisions
    <2>2. RanFits'
        BY <1>1, <1>5, <1>7, NothingYet DEF AdminInv, ValuesFit, RanFits
    <2>3. Explained'
        <3> SUFFICES ASSUME NEW c \in Commands \ Creating, command'[c] # NoCommand, NEW m \in Revisions
                     PROVE  Explains(c, m)'
            BY <1>1 DEF Explained, Revisions
        <3>1. CASE c # k
            BY <1>1, <1>5, <3>1 DEF AdminInv, ValuesFit, Explained, Explains, Moved
        <3>2. CASE c = k
            <4>1. PICK d \in Desks : m.rev <= desk[d].rev
                BY DEF AdminInv, ValuesFit, Reached
            <4>2. ~Moved(c, d)'
                BY <1>1, <1>7, <3>2, NothingYet DEF Moved
            <4>3. m.rev \in Nat /\ projected.rev \in Nat /\ desk[d].rev \in Nat /\ command'[c].expected = projected.rev
                BY <1>2, <1>5, <3>2, AdminTypes DEF Revisions
            <4>4. m.rev = command'[c].expected + 1 => desk[d].rev > command'[c].expected
                BY <4>1, <4>3
            <4> QED
                BY <1>1, <4>2, <4>4 DEF Explains
        <3> QED
            BY <3>1, <3>2
    <2> QED
        BY <2>1, <2>2, <2>3 DEF ValuesFit
<1> QED
    BY <1>6, <1>8, <1>9, <1>10 DEF AdminInv

LEMMA CancelKeeps ==
    ASSUME AdminInv, NEW k \in Commands, Cancel(k) PROVE AdminInv'
<1> DEFINE aims == [d \in Desks |-> IF aim[k][d].st = "PENDING" THEN [aim[k][d] EXCEPT !.st = "CANCELLED"]
                                    ELSE aim[k][d]]
<1>1. /\ command[k].st = "PENDING" /\ Cancellable(k)
      /\ command' = [command EXCEPT ![k].st = "CANCELLED"] /\ aim' = [aim EXCEPT ![k] = aims]
      /\ UNCHANGED <<desk, inbox, ran, snapshots, projected, poll>>
    BY DEF Cancel
<1>2. command[k] \in CommandRows
    BY <1>1, AdminTypes, NothingYet
<1>3. \A d \in Desks :
        /\ aims[d] \in AimRows
        /\ \/ aims[d] = aim[k][d] /\ aim[k][d].st \notin {"PENDING", "APPLIED", "DELIVERED"}
           \/ aim[k][d].st = "PENDING" /\ aims[d].st = "CANCELLED"
    BY <1>1, AdminTypes DEF AimRows, Cancellable
<1>4. aims \in [Desks -> AimRows]
    BY <1>3
<1> HIDE DEF aims
<1>5. /\ \A c \in Commands : /\ command'[c] = IF c = k THEN [command[k] EXCEPT !.st = "CANCELLED"] ELSE command[c]
                             /\ aim'[c] = IF c = k THEN aims ELSE aim[c]
      /\ command'[k] \in CommandRows /\ command'[k].st = "CANCELLED"
      /\ command'[k].expected = command[k].expected /\ command'[k].want = command[k].want
    BY <1>1, <1>2 DEF AdminInv, AdminTyped, CommandRows
<1>6. AdminTyped'
    <2>1. command' \in [Commands -> CommandRows \cup {NoCommand}] /\ aim' \in [Commands -> [Desks -> AimRows]]
        BY <1>1, <1>4, <1>5 DEF AdminInv, AdminTyped
    <2> QED
        BY <1>1, <2>1 DEF AdminInv, AdminTyped
<1>7. AimsFit'
    <2> SUFFICES ASSUME NEW c \in Commands, NEW d \in Desks PROVE AimFits(c, d)'
        BY DEF AimsFit
    <2>1. AimFits(c, d)
        BY DEF AdminInv, AimsFit
    <2>2. CASE c # k
        BY <1>1, <1>5, <2>1, <2>2 DEF AimFits
    <2>3. CASE c = k
        <3>1. \/ aim'[k][d] = aim[k][d] /\ aim[k][d].st \notin {"PENDING", "APPLIED", "DELIVERED"}
              \/ aim[k][d].st = "PENDING" /\ aim'[k][d].st = "CANCELLED"
            BY <1>3, <1>5
        <3>2. k \in inbox[d] /\ desk[d].active => ran[k][d].st = "CONFLICT"
            BY <2>1, <2>3, <3>1 DEF AimFits, Received
        <3>3. k \notin inbox[d] => ran[k][d] = NotRun
            BY <2>1, <2>3 DEF AimFits
        <3>4. desk[d].active => ran[k][d].st # "APPLIED" /\ (k \in inbox[d] => ran[k][d] # NotRun)
            BY <3>2, <3>3, NothingYet
        <3> QED
            BY <1>1, <1>2, <1>5, <2>1, <2>3, <3>1, <3>4, CommandAt DEF AimFits, Received
    <2> QED
        BY <2>2, <2>3
<1>8. PollsFit'
    <2> SUFFICES ASSUME NEW x \in Polls, NEW c \in poll[x].taken PROVE aim'[c][poll[x].by].st \in Received
        BY <1>1 DEF PollsFit
    <2>1. aim[c][poll[x].by].st \in Received /\ poll[x].by \in Desks /\ c \in Commands
        BY AdminTypes DEF AdminInv, PollsFit, PollTyped, PollRows
    <2> QED
        BY <1>3, <1>5, <2>1 DEF Received
<1>9. ValuesFit'
    BY <1>1, <1>2, <1>5, CommandAt, ValuesRest DEF Revisions
<1> QED
    BY <1>6, <1>7, <1>8, <1>9 DEF AdminInv
-----------------------------------------------------------------------------
\* One target, or one run, is written over; named so that the lemmas are cited by
\* the name of the write.
SetsAim(k, w, row) == aim' = [aim EXCEPT ![k][w] = row]

MovesAim(k, w, st) == aim' = [aim EXCEPT ![k][w].st = st]

SetsRan(k, w, row) == ran' = [ran EXCEPT ![k][w] = row]

LEMMA AimChanges ==
    ASSUME AdminInv, NEW k \in Commands, NEW w \in Desks, NEW row \in AimRows, SetsAim(k, w, row)
    PROVE  /\ aim' \in [Commands -> [Desks -> AimRows]]
           /\ aim'[k][w] = row
           /\ \A c \in Commands : \A d \in Desks : (c # k \/ d # w) => aim'[c][d] = aim[c][d]
<1>1. aim \in [Commands -> [Desks -> AimRows]]
    BY DEF AdminInv, AdminTyped
<1>2. aim[k] \in [Desks -> AimRows]
    BY <1>1
<1>3. aim'[k] = [aim[k] EXCEPT ![w] = row] /\ \A c \in Commands \ {k} : aim'[c] = aim[c]
    BY <1>1 DEF SetsAim
<1>4. aim' = [c \in Commands |-> aim'[c]]
    BY <1>1 DEF SetsAim
<1>5. aim'[k] \in [Desks -> AimRows] /\ aim'[k][w] = row
    BY <1>2, <1>3
<1>6. aim' \in [Commands -> [Desks -> AimRows]]
    BY <1>1, <1>3, <1>4, <1>5
<1>7. \A c \in Commands : \A d \in Desks : (c # k \/ d # w) => aim'[c][d] = aim[c][d]
    BY <1>2, <1>3
<1> QED
    BY <1>5, <1>6, <1>7

LEMMA AimSets ==
    ASSUME AdminInv, NEW k \in Commands, NEW w \in Desks, NEW st \in {"CANCELLED"} \cup Received,
           MovesAim(k, w, st)
    PROVE  /\ aim' \in [Commands -> [Desks -> AimRows]]
           /\ aim'[k][w].st = st
           /\ \A c \in Commands : \A d \in Desks : (c # k \/ d # w) => aim'[c][d] = aim[c][d]
<1>1. aim \in [Commands -> [Desks -> AimRows]]
    BY DEF AdminInv, AdminTyped
<1>2. aim[k] \in [Desks -> AimRows]
    BY <1>1
<1>3. aim'[k] = [aim[k] EXCEPT ![w] = [aim[k][w] EXCEPT !.st = st]] /\ \A c \in Commands \ {k} : aim'[c] = aim[c]
    BY <1>1 DEF MovesAim
<1>4. /\ [aim[k][w] EXCEPT !.st = st] \in AimRows /\ [aim[k][w] EXCEPT !.st = st].st = st
    BY AdminTypes DEF AimRows
<1>5. aim'[k] \in [Desks -> AimRows] /\ aim'[k][w].st = st
    <2> DEFINE row == [aim[k][w] EXCEPT !.st = st]
    <2>1. aim'[k] = [aim[k] EXCEPT ![w] = row] /\ row \in AimRows /\ row.st = st
        BY <1>3, <1>4
    <2> HIDE DEF row
    <2>2. aim'[k] \in [Desks -> AimRows] /\ aim'[k][w] = row
        BY <1>2, <2>1
    <2> QED
        BY <2>1, <2>2
<1>6. aim' = [c \in Commands |-> aim'[c]]
    BY <1>1 DEF MovesAim
<1>7. aim' \in [Commands -> [Desks -> AimRows]]
    BY <1>1, <1>3, <1>5, <1>6
<1>8. \A c \in Commands : \A d \in Desks : (c # k \/ d # w) => aim'[c][d] = aim[c][d]
    BY <1>2, <1>3
<1> QED
    BY <1>5, <1>7, <1>8

\* A target that was received stays so: nothing of a poll is lost.
LEMMA PollsRest ==
    ASSUME AdminInv, poll' = poll,
           \A c \in Commands : \A d \in Desks :
              aim[c][d].st \in Received => aim'[c][d].st \in Received
    PROVE  PollsFit'
<1> SUFFICES ASSUME NEW x \in Polls, NEW c \in poll[x].taken PROVE aim'[c][poll[x].by].st \in Received
    BY DEF PollsFit
<1>1. aim[c][poll[x].by].st \in Received /\ poll[x].by \in Desks /\ c \in Commands
    BY AdminTypes DEF AdminInv, PollsFit, PollTyped, PollRows
<1> QED
    BY <1>1

LEMMA AnnotateKeeps ==
    ASSUME AdminInv, NEW k \in Commands, NEW w \in Desks, Annotate(k, w) PROVE AdminInv'
<1>1. /\ command[k].st = "PENDING" /\ aim[k][w].st \in {"PENDING", "DELIVERED"} /\ ~desk[w].active
      /\ aim' = [aim EXCEPT ![k][w].st = "SKIPPED_REVOKED"]
      /\ UNCHANGED <<desk, command, inbox, ran, snapshots, projected, poll>>
    BY DEF Annotate, Waits
<1>0. MovesAim(k, w, "SKIPPED_REVOKED")
    BY <1>1 DEF MovesAim
<1>2. /\ aim' \in [Commands -> [Desks -> AimRows]] /\ aim'[k][w].st = "SKIPPED_REVOKED"
      /\ \A c \in Commands : \A d \in Desks : (c # k \/ d # w) => aim'[c][d] = aim[c][d]
    BY <1>0, AimSets DEF Received
<1>3. AdminTyped'
    BY <1>1, <1>2 DEF AdminInv, AdminTyped
<1>4. AimsFit'
    <2> SUFFICES ASSUME NEW c \in Commands, NEW d \in Desks PROVE AimFits(c, d)'
        BY DEF AimsFit
    <2>1. AimFits(c, d)
        BY DEF AdminInv, AimsFit
    <2>2. CASE c # k \/ d # w
        BY <1>1, <1>2, <2>1, <2>2 DEF AimFits
    <2>3. CASE c = k /\ d = w
        BY <1>1, <1>2, <2>1, <2>3, NothingYet DEF AimFits, Received
    <2> QED
        BY <2>2, <2>3
<1>5. PollsFit'
    BY <1>1, <1>2, PollsRest DEF Received
<1>6. ValuesFit'
    BY <1>1, ValuesRest DEF Revisions
<1> QED
    BY <1>3, <1>4, <1>5, <1>6 DEF AdminInv

LEMMA PollReadsKeeps ==
    ASSUME AdminInv, NEW x \in Polls, NEW w \in Desks, PollReads(x, w) PROVE AdminInv'
<1>1. UNCHANGED <<desk, command, aim, inbox, ran, snapshots, projected>>
    BY DEF PollReads
<1>2. PICK due \in SUBSET Commands : poll' = [poll EXCEPT ![x] = [due |-> due, taken |-> {}, by |-> w]]
    BY DEF PollReads
<1> DEFINE row == [due |-> due, taken |-> {}, by |-> w]
<1>3. row \in PollRows /\ PollTyped(row) /\ row.taken = {}
    BY AdminAssumption DEF PollRows, PollTyped
<1> HIDE DEF row
<1>4. \A y \in Polls : poll'[y] = IF y = x THEN row ELSE poll[y]
    BY <1>2 DEF AdminInv, AdminTyped, row
<1>5. AdminTyped'
    <2>1. poll' \in [Polls -> PollRows]
        BY <1>2, <1>3 DEF AdminInv, AdminTyped, row
    <2> QED
        BY <1>1, <1>3, <1>4, <2>1 DEF AdminInv, AdminTyped
<1>6. AimsFit' /\ PollsFit'
    BY <1>1, <1>3, <1>4 DEF AdminInv, AimsFit, AimFits, PollsFit
<1>7. ValuesFit'
    BY <1>1, ValuesRest DEF Revisions
<1> QED
    BY <1>5, <1>6, <1>7 DEF AdminInv

LEMMA MarkDeliveredKeeps ==
    ASSUME AdminInv, NEW x \in Polls, NEW k \in Commands, MarkDelivered(x, k) PROVE AdminInv'
<1> DEFINE w == poll[x].by
<1>1. k \in poll[x].due /\ UNCHANGED <<desk, command, inbox, ran, snapshots, projected>>
    BY DEF MarkDelivered
<1>2. w \in Desks /\ poll[x] \in PollRows
    BY <1>1, AdminTypes DEF PollTyped, PollRows
<1>3. ValuesFit'
    BY <1>1, ValuesRest DEF Revisions
<1>4. CASE poll' = [poll EXCEPT ![x] = NoPoll] /\ aim' = aim
    <2>1. \A y \in Polls : poll'[y] = IF y = x THEN NoPoll ELSE poll[y]
        BY <1>4 DEF AdminInv, AdminTyped
    <2>2. AdminTyped'
        BY <1>1, <1>4, <2>1, NothingYet DEF AdminInv, AdminTyped
    <2>3. AimsFit' /\ PollsFit'
        BY <1>1, <1>4, <2>1, NothingYet DEF AdminInv, AimsFit, AimFits, PollsFit
    <2> QED
        BY <1>3, <2>2, <2>3 DEF AdminInv
<1>5. CASE /\ Deliverable(k, w) /\ aim' = [aim EXCEPT ![k][w].st = "DELIVERED"]
           /\ poll' = [poll EXCEPT ![x].due = @ \ {k}, ![x].taken = @ \cup {k}]
    <2>1. command[k].st = "PENDING" /\ aim[k][w].st \in {"PENDING", "DELIVERED"}
        BY <1>5 DEF Deliverable, Waits
    <2>2. /\ aim' \in [Commands -> [Desks -> AimRows]] /\ aim'[k][w].st = "DELIVERED"
          /\ \A c \in Commands : \A d \in Desks : (c # k \/ d # w) => aim'[c][d] = aim[c][d]
        <3>1. MovesAim(k, w, "DELIVERED")
            BY <1>5 DEF MovesAim
        <3> QED
            BY <1>2, <3>1, AimSets DEF Received
    <2>3. /\ poll'[x] \in PollRows /\ PollTyped(poll'[x]) /\ poll'[x].by = w
          /\ poll'[x].taken = poll[x].taken \cup {k}
        <3>1. poll'[x] = [poll[x] EXCEPT !.due = @ \ {k}, !.taken = @ \cup {k}]
            BY <1>5 DEF AdminInv, AdminTyped
        <3>2. w # 0
            BY <1>2, AdminAssumption
        <3> DEFINE due == poll[x].due \ {k}
                   taken == poll[x].taken \cup {k}
        <3>3. due \in SUBSET Commands /\ taken \in SUBSET Commands
            BY <1>2 DEF PollRows
        <3>4. poll'[x] = [poll[x] EXCEPT !.due = due, !.taken = taken]
            BY <3>1
        <3> HIDE DEF due, taken
        <3>5. poll'[x] \in PollRows /\ poll'[x].by = w /\ poll'[x].taken = taken
            BY <1>2, <3>3, <3>4 DEF PollRows
        <3> QED
            BY <3>2, <3>5 DEF PollTyped, taken
    <2>4. \A y \in Polls \ {x} : poll'[y] = poll[y]
        BY <1>5 DEF AdminInv, AdminTyped
    <2>5. AdminTyped'
        <3>1. poll' \in [Polls -> PollRows]
            BY <1>5, <2>3 DEF AdminInv, AdminTyped
        <3> QED
            BY <1>1, <2>2, <2>3, <2>4, <3>1 DEF AdminInv, AdminTyped
    <2>6. AimsFit'
        <3> SUFFICES ASSUME NEW c \in Commands, NEW d \in Desks PROVE AimFits(c, d)'
            BY DEF AimsFit
        <3>1. AimFits(c, d)
            BY DEF AdminInv, AimsFit
        <3>2. CASE c # k \/ d # w
            BY <1>1, <2>2, <3>1, <3>2 DEF AimFits
        <3>3. CASE c = k /\ d = w
            BY <1>1, <2>1, <2>2, <3>1, <3>3, NothingYet DEF AimFits, Received
        <3> QED
            BY <3>2, <3>3
    <2>7. PollsFit'
        <3> SUFFICES ASSUME NEW y \in Polls, NEW c \in poll'[y].taken
                     PROVE  aim'[c][poll'[y].by].st \in Received
            BY DEF PollsFit
        <3>1. CASE y = x /\ c = k
            BY <2>2, <2>3, <3>1 DEF Received
        <3>2. CASE y # x \/ c # k
            <4>1. c \in poll[y].taken /\ poll'[y].by = poll[y].by
                BY <2>3, <2>4, <3>2
            <4>2. aim[c][poll[y].by].st \in Received /\ poll[y].by \in Desks /\ c \in Commands
                BY <4>1, AdminTypes DEF AdminInv, PollsFit, PollTyped, PollRows
            <4> QED
                BY <2>2, <4>1, <4>2 DEF Received
        <3> QED
            BY <3>1, <3>2
    <2> QED
        BY <1>3, <2>5, <2>6, <2>7 DEF AdminInv
<1> QED
    BY <1>4, <1>5 DEF MarkDelivered

LEMMA PollAnswersKeeps ==
    ASSUME AdminInv, NEW x \in Polls, PollAnswers(x) PROVE AdminInv'
<1> DEFINE w == poll[x].by
           taken == poll[x].taken
<1>1. /\ w # 0 /\ poll' = [poll EXCEPT ![x] = NoPoll]
      /\ inbox' \in {inbox, [inbox EXCEPT ![w] = @ \cup taken]}
      /\ UNCHANGED <<desk, command, aim, ran, snapshots, projected>>
    BY DEF PollAnswers
<1>2. w \in Desks /\ taken \in SUBSET Commands
    BY <1>1, AdminTypes DEF PollTyped, PollRows
<1>3. \A y \in Polls : poll'[y] = IF y = x THEN NoPoll ELSE poll[y]
    BY <1>1 DEF AdminInv, AdminTyped
<1>4. \A d \in Desks : inbox'[d] = inbox[d] \/ (d = w /\ inbox'[d] = inbox[d] \cup taken)
    <2>1. CASE inbox' = inbox
        BY <2>1
    <2>2. CASE inbox' = [inbox EXCEPT ![w] = @ \cup taken]
        BY <1>2, <2>2 DEF AdminInv, AdminTyped
    <2> QED
        BY <1>1, <2>1, <2>2
<1>5. AdminTyped'
    <2>1. inbox' \in [Desks -> SUBSET Commands]
        BY <1>1, <1>2 DEF AdminInv, AdminTyped
    <2> QED
        BY <1>1, <1>3, <2>1, NothingYet DEF AdminInv, AdminTyped
<1>6. AimsFit'
    <2> SUFFICES ASSUME NEW c \in Commands, NEW d \in Desks PROVE AimFits(c, d)'
        BY DEF AimsFit
    <2>1. AimFits(c, d)
        BY DEF AdminInv, AimsFit
    <2>2. CASE (c \in inbox'[d]) = (c \in inbox[d])
        BY <1>1, <2>1, <2>2 DEF AimFits
    <2>3. CASE (c \in inbox'[d]) # (c \in inbox[d])
        <3>1. d = w /\ c \in taken /\ c \in inbox'[d] /\ c \notin inbox[d]
            BY <1>4, <2>3
        <3>2. aim[c][d].st \in Received
            BY <3>1 DEF AdminInv, PollsFit
        <3>3. ran[c][d] = NotRun /\ aim[c][d].st \notin {"APPLIED", "CONFLICT"}
            BY <2>1, <3>1, NothingYet DEF AimFits
        <3>4. command[c].st = "CANCELLED" => ~desk[d].active
            BY <2>1, <3>2, <3>3 DEF AimFits, Received
        <3> QED
            BY <1>1, <2>1, <3>1, <3>2, <3>3, <3>4 DEF AimFits
    <2> QED
        BY <2>2, <2>3
<1>7. PollsFit'
    BY <1>1, <1>3, NothingYet DEF AdminInv, PollsFit
<1>8. ValuesFit'
    BY <1>1, ValuesRest DEF Revisions
<1> QED
    BY <1>5, <1>6, <1>7, <1>8 DEF AdminInv
-----------------------------------------------------------------------------
\* One run is entered.
LEMMA RanChanges ==
    ASSUME AdminInv, NEW k \in Commands, NEW w \in Desks, NEW row \in RanRows, SetsRan(k, w, row)
    PROVE  /\ ran' \in [Commands -> [Desks -> RanRows]]
           /\ ran'[k][w] = row
           /\ \A c \in Commands : \A d \in Desks : (c # k \/ d # w) => ran'[c][d] = ran[c][d]
<1>1. ran \in [Commands -> [Desks -> RanRows]]
    BY DEF AdminInv, AdminTyped
<1>2. ran[k] \in [Desks -> RanRows]
    BY <1>1
<1>3. ran'[k] = [ran[k] EXCEPT ![w] = row] /\ \A c \in Commands \ {k} : ran'[c] = ran[c]
    BY <1>1 DEF SetsRan
<1>4. ran' = [c \in Commands |-> ran'[c]]
    BY <1>1 DEF SetsRan
<1>5. ran'[k] \in [Desks -> RanRows] /\ ran'[k][w] = row
    BY <1>2, <1>3
<1>6. ran' \in [Commands -> [Desks -> RanRows]]
    BY <1>1, <1>3, <1>4, <1>5
<1>7. \A c \in Commands : \A d \in Desks : (c # k \/ d # w) => ran'[c][d] = ran[c][d]
    BY <1>2, <1>3
<1> QED
    BY <1>5, <1>6, <1>7

\* The first run of a command that was received.
LEMMA AimsOfRun ==
    ASSUME AdminInv, NEW k \in Commands, NEW w \in Desks, NEW row \in RanRows,
           k \in inbox[w], ran[k][w] = NotRun, row.st # "no", SetsRan(k, w, row),
           \A d \in Desks : desk'[d].active = desk[d].active,
           UNCHANGED <<command, aim, inbox, poll>>
    PROVE  AimsFit' /\ PollsFit'
<1>1. /\ ran'[k][w] = row
      /\ \A c \in Commands : \A d \in Desks : (c # k \/ d # w) => ran'[c][d] = ran[c][d]
    BY RanChanges
<1>2. AimsFit'
    <2> SUFFICES ASSUME NEW c \in Commands, NEW d \in Desks PROVE AimFits(c, d)'
        BY DEF AimsFit
    <2>1. AimFits(c, d)
        BY DEF AdminInv, AimsFit
    <2>2. CASE c # k \/ d # w
        BY <1>1, <2>1, <2>2 DEF AimFits
    <2>3. CASE c = k /\ d = w
        <3>1. aim[k][w].st \notin {"APPLIED", "CONFLICT"}
            BY <2>1, <2>3, NothingYet DEF AimFits
        <3>2. command[k].st = "CANCELLED" => ~desk[w].active
            BY <2>1, <2>3 DEF AimFits
        <3> QED
            BY <1>1, <2>1, <2>3, <3>1, <3>2 DEF AimFits
    <2> QED
        BY <2>2, <2>3
<1>3. PollsFit'
    BY DEF AdminInv, PollsFit
<1> QED
    BY <1>2, <1>3

LEMMA RunKeeps ==
    ASSUME AdminInv, NEW k \in Commands, NEW w \in Desks, Run(w, k) PROVE AdminInv'
<1>1. /\ k \in inbox[w] /\ ran[k][w] = NotRun /\ UNCHANGED <<command, aim, inbox, projected, poll>>
    BY DEF Run
<1>2. command[k] \in CommandRows
    <2>1. AimFits(k, w)
        BY DEF AdminInv, AimsFit
    <2>2. command[k] # NoCommand
        BY <1>1, <2>1 DEF AimFits, Received
    <2> QED
        BY <2>2, AdminTypes
<1>3. command[k].expected \in Nat /\ command[k].want \in Values /\ desk[w].rev \in Nat
    BY <1>2, CommandAt, AdminTypes
<1>4. ASSUME NEW row \in RanRows, row.st # "no", SetsRan(k, w, row),
             UNCHANGED <<desk, snapshots>>,
             k \in Creating \/ row.st # "APPLIED" \/ (row.post = desk[w].rev /\ command[k].expected = desk[w].rev)
      PROVE  AdminInv'
    <2>1. /\ ran' \in [Commands -> [Desks -> RanRows]] /\ ran'[k][w] = row
          /\ \A c \in Commands : \A d \in Desks : (c # k \/ d # w) => ran'[c][d] = ran[c][d]
        BY <1>4, RanChanges
    <2>2. AdminTyped'
        BY <1>1, <1>4, <2>1 DEF AdminInv, AdminTyped
    <2>3. AimsFit' /\ PollsFit'
        BY <1>1, <1>4, AimsOfRun
    <2>4. \A c \in Commands \ Creating : \A d \in Desks :
              \/ ran'[c][d] = ran[c][d] \/ ran'[c][d].st # "APPLIED"
              \/ ran'[c][d].post = desk[d].rev /\ command[c].expected = desk[d].rev
        BY <1>4, <2>1
    <2>5. ValuesFit'
        BY <1>1, <1>4, <2>4, ValuesRest DEF Revisions
    <2> QED
        BY <2>2, <2>3, <2>5 DEF AdminInv
<1>5. CASE k \in Creating
    <2> DEFINE row == [st |-> "APPLIED", post |-> command[k].expected]
    <2>1. SetsRan(k, w, row) /\ UNCHANGED <<desk, snapshots>>
        BY <1>5 DEF Run, SetsRan
    <2>2. row \in RanRows /\ row.st # "no"
        BY <1>3 DEF RanRows
    <2> HIDE DEF row
    <2> QED
        BY <1>4, <1>5, <2>1, <2>2
<1>6. CASE k \notin Creating /\ desk[w].rev # command[k].expected
    <2> DEFINE row == [ran[k][w] EXCEPT !.st = "CONFLICT"]
    <2>1. SetsRan(k, w, row) /\ UNCHANGED <<desk, snapshots>>
        BY <1>6 DEF Run, SetsRan
    <2>2. row \in RanRows /\ row.st = "CONFLICT"
        BY AdminTypes DEF RanRows
    <2> HIDE DEF row
    <2>3. row.st # "no" /\ row.st # "APPLIED"
        BY <2>2
    <2> QED
        BY <1>4, <2>1, <2>2, <2>3
<1>7. CASE k \notin Creating /\ desk[w].rev = command[k].expected
    <2> DEFINE v == command[k].want
               rev == desk[w].rev + (IF desk[w].value = v THEN 0 ELSE 1)
               row == [st |-> "APPLIED", post |-> rev]
    <2>1. /\ SetsRan(k, w, row) /\ desk' = [desk EXCEPT ![w].rev = rev, ![w].value = v]
          /\ snapshots' = snapshots \cup (IF rev = desk[w].rev THEN {} ELSE {[rev |-> rev, value |-> v]})
        BY <1>7 DEF Run, SetsRan
    <2>2. rev \in Nat /\ rev = (IF desk[w].value = v THEN desk[w].rev ELSE desk[w].rev + 1)
        BY <1>3
    <2> HIDE DEF rev
    <2>3. row \in RanRows /\ row.post = rev /\ row.st = "APPLIED" /\ row.st # "no"
        BY <2>2 DEF RanRows
    <2> HIDE DEF row
    <2>4. CASE desk[w].value = v
        <3>1. rev = desk[w].rev /\ snapshots' = snapshots
            BY <2>1, <2>2, <2>4
        <3>2. desk' = desk
            <4>1. desk \in [Desks -> DeskRows] /\ desk[w] \in DeskRows
                BY DEF AdminInv, AdminTyped
            <4>2. [desk[w] EXCEPT !.rev = rev, !.value = v] = desk[w]
                BY <4>1, <3>1, <2>4 DEF DeskRows
            <4>3. desk' = [desk EXCEPT ![w] = [desk[w] EXCEPT !.rev = rev, !.value = v]]
                BY <2>1
            <4> QED
                BY <4>1, <4>2, <4>3
        <3> QED
            BY <1>4, <1>7, <2>1, <2>3, <3>1, <3>2
    <2>5. CASE desk[w].value # v
        <3>1. /\ rev = desk[w].rev + 1
              /\ snapshots' = snapshots \cup {[rev |-> desk[w].rev + 1, value |-> v]}
            BY <1>3, <2>1, <2>2, <2>5
        <3>2. /\ desk'[w] = [desk[w] EXCEPT !.rev = rev, !.value = v]
              /\ \A d \in Desks \ {w} : desk'[d] = desk[d]
            BY <2>1 DEF AdminInv, AdminTyped
        <3>3. desk'[w] \in DeskRows /\ desk'[w].rev = rev /\ desk'[w].active = desk[w].active
            BY <1>3, <2>2, <3>2, AdminTypes DEF DeskRows
        <3>4. /\ ran' \in [Commands -> [Desks -> RanRows]] /\ ran'[k][w] = row
              /\ \A c \in Commands : \A d \in Desks : (c # k \/ d # w) => ran'[c][d] = ran[c][d]
            BY <2>1, <2>3, RanChanges
        <3>5. AdminTyped'
            <4>1. desk' \in [Desks -> DeskRows]
                BY <2>1, <3>3 DEF AdminInv, AdminTyped
            <4>2. [rev |-> desk[w].rev + 1, value |-> v] \in Shots
                BY <1>3 DEF Shots
            <4> QED
                BY <1>1, <3>1, <3>4, <4>1, <4>2 DEF AdminInv, AdminTyped
        <3>6. AimsFit' /\ PollsFit'
            <4>1. \A d \in Desks : desk'[d].active = desk[d].active
                BY <3>2, <3>3
            <4> QED
                BY <1>1, <2>1, <2>3, <4>1, AimsOfRun
        <3>7. \A c \in Commands \ Creating : \A d \in Desks :
                ran'[c][d] = ran[c][d] \/
                 /\ d = w /\ ran[c][w] = NotRun /\ command[c].expected = desk[w].rev
                 /\ v = command[c].want
                 /\ ran'[c][w].post = desk[w].rev + 1
            BY <1>1, <1>7, <2>3, <3>1, <3>4
        <3>8. ValuesFit'
            <4>1. desk'[w].rev = desk[w].rev + 1 /\ v \in Values
                BY <1>3, <3>1, <3>3
            <4> HIDE DEF v
            <4> QED
                BY <1>1, <3>1, <3>2, <3>7, <4>1, ValuesMove
        <3> QED
            BY <3>5, <3>6, <3>8 DEF AdminInv
    <2> QED
        BY <2>4, <2>5
<1> QED
    BY <1>5, <1>6, <1>7

LEMMA FinishTargetKeeps ==
    ASSUME AdminInv, NEW k \in Commands, NEW w \in Desks, FinishTarget(w, k) PROVE AdminInv'
<1> DEFINE r == ran[k][w]
<1>1. /\ r # NotRun /\ desk[w].active /\ command[k].st = "PENDING"
      /\ aim' = [aim EXCEPT ![k][w] = r]
      /\ UNCHANGED <<desk, inbox, ran, snapshots, projected, poll>>
    BY DEF FinishTarget
<1>2. command' \in {command, [command EXCEPT ![k].result = Entity(k, w)]}
    BY DEF FinishTarget
<1>3. /\ AimFits(k, w) /\ k \in inbox[w] /\ aim[k][w].st \in Received
      /\ r \in RanRows
    BY <1>1, AdminTypes DEF AimFits
<1>4. r.st \in {"APPLIED", "CONFLICT"}
    BY <1>1, <1>3 DEF RanRows, AimFits
<1>5. k \in Creating => w = Lowest(Desks)
    BY <1>3 DEF AimFits, Received
<1>6. r \in AimRows /\ command[k] \in CommandRows
    BY <1>1, <1>3, <1>4, AdminTypes, NothingYet DEF AimRows, RanRows, Received
<1> HIDE DEF r
<1>7. /\ aim' \in [Commands -> [Desks -> AimRows]] /\ aim'[k][w] = r
      /\ \A c \in Commands : \A d \in Desks : (c # k \/ d # w) => aim'[c][d] = aim[c][d]
    <2>1. SetsAim(k, w, r)
        BY <1>1 DEF SetsAim
    <2> QED
        BY <1>6, <2>1, AimChanges
<1>8. /\ \A c \in Commands \ {k} : command'[c] = command[c]
      /\ command'[k] \in CommandRows /\ command'[k].st = command[k].st
      /\ command'[k].expected = command[k].expected /\ command'[k].want = command[k].want
    <2>1. CASE command' = command
        BY <1>6, <2>1
    <2>2. CASE command' = [command EXCEPT ![k].result = Entity(k, w)]
        <3>1. Entity(k, w) \in Nat
            BY AdminAssumption DEF Entity
        <3> DEFINE e == Entity(k, w)
        <3>2. /\ command'[k] = [command[k] EXCEPT !.result = e]
              /\ \A c \in Commands \ {k} : command'[c] = command[c]
            BY <2>2 DEF AdminInv, AdminTyped
        <3> HIDE DEF e
        <3>3. e \in Nat
            BY <3>1 DEF e
        <3> QED
            BY <1>6, <3>2, <3>3 DEF CommandRows
    <2> QED
        BY <1>2, <2>1, <2>2
<1>9. AdminTyped'
    <2>1. command' \in [Commands -> CommandRows \cup {NoCommand}]
        BY <1>2, <1>8 DEF AdminInv, AdminTyped
    <2> QED
        BY <1>1, <1>7, <2>1 DEF AdminInv, AdminTyped
<1>10. AimsFit'
    <2> SUFFICES ASSUME NEW c \in Commands, NEW d \in Desks PROVE AimFits(c, d)'
        BY DEF AimsFit
    <2>1. AimFits(c, d)
        BY DEF AdminInv, AimsFit
    <2>2. command'[c].st = command[c].st /\ (command'[c] = NoCommand => command[c] = NoCommand)
        BY <1>8, CommandAt
    <2>3. CASE c # k \/ d # w
        BY <1>1, <1>7, <2>1, <2>2, <2>3 DEF AimFits
    <2>4. CASE c = k /\ d = w
        BY <1>1, <1>3, <1>4, <1>5, <1>7, <1>8, <2>4, CommandAt DEF AimFits, Received, r
    <2> QED
        BY <2>3, <2>4
<1>11. PollsFit'
    BY <1>1, <1>4, <1>7, PollsRest DEF Received
<1>12. ValuesFit'
    <2>1. \A c \in Commands :
              /\ command'[c] # NoCommand => command[c] # NoCommand
              /\ command'[c].expected = command[c].expected /\ command'[c].want = command[c].want
        BY <1>6, <1>8, CommandAt
    <2> QED
        BY <1>1, <2>1, ValuesRest DEF Revisions
<1> QED
    BY <1>9, <1>10, <1>11, <1>12 DEF AdminInv
-----------------------------------------------------------------------------
LEMMA AdminInvInit == AdminInit => AdminInv
<1> SUFFICES ASSUME AdminInit PROVE AdminInv
    OBVIOUS
<1> DEFINE AtFirst == [active : {TRUE}, capable : {FALSE}, rev : {1}, value : Values]
<1>1. \A d \in Desks : desk[d].rev = 1 /\ desk[d].value \in Values /\ desk[d] \in DeskRows
    <2>1. ASSUME NEW r \in AtFirst PROVE r.rev = 1 /\ r.value \in Values /\ r \in DeskRows
        <3>1. r = [active |-> r.active, capable |-> r.capable, rev |-> r.rev, value |-> r.value]
            BY <2>1
        <3>2. r.active = TRUE /\ r.capable = FALSE /\ r.rev = 1 /\ r.value \in Values
            BY <2>1
        <3>3. r.active \in BOOLEAN /\ r.capable \in BOOLEAN /\ r.rev \in Nat
            <4>1. r.active \in BOOLEAN /\ r.capable \in BOOLEAN
                BY <3>2, Zenon
            <4> QED
                BY <3>2, <4>1
        <3> QED
            BY <3>1, <3>2, <3>3 DEF DeskRows
    <2>2. desk \in [Desks -> AtFirst]
        BY DEF AdminInit
    <2> HIDE DEF AtFirst
    <2> QED
        BY <2>1, <2>2
<1>2. PICK d \in Desks : projected = [rev |-> 1, value |-> desk[d].value]
    BY DEF AdminInit
<1>3. AdminTyped
    <2>1. desk \in [Desks -> DeskRows]
        BY <1>1 DEF AdminInit
    <2>2. projected \in Shots
        BY <1>1, <1>2 DEF Shots
    <2> QED
        BY <2>1, <2>2, NothingYet DEF AdminInit, AdminTyped
<1>4. AimsFit /\ PollsFit
    BY NothingYet DEF AdminInit, AimsFit, AimFits, PollsFit
<1>5. ValuesFit
    <2>1. Reached
        BY <1>1, <1>2 DEF AdminInit, Reached, Revisions
    <2> QED
        BY <2>1, NothingYet DEF AdminInit, ValuesFit, RanFits, Explained
<1> QED
    BY <1>3, <1>4, <1>5 DEF AdminInv

LEMMA AdminInvKept == AdminInv /\ [AdminNext]_adminVars => AdminInv'
<1> SUFFICES ASSUME AdminInv, [AdminNext]_adminVars PROVE AdminInv'
    OBVIOUS
<1>1. CASE UNCHANGED adminVars
    <2>1. AdminTyped' /\ AimsFit' /\ PollsFit'
        BY <1>1 DEF adminVars, AdminInv, AdminTyped, AimsFit, AimFits, PollsFit
    <2>2. ValuesFit'
        BY <1>1, ValuesRest DEF adminVars, Revisions
    <2> QED
        BY <2>1, <2>2 DEF AdminInv
<1>2. CASE \E d \in Desks : \E v \in Values : Edit(d, v)
    BY <1>2, EditKeeps
<1>3. CASE \E d \in Desks : Revoke(d) \/ \E capable \in BOOLEAN : ReportCapabilities(d, capable)
    BY <1>3, DeskKeeps DEF Revoke, ReportCapabilities
<1>4. CASE \E m \in snapshots : Project(m)
    BY <1>4, ProjectKeeps
<1>5. CASE \E c \in Commands :
        \/ \E v \in Values : Create(c, v)
        \/ Cancel(c)
        \/ \E d \in Desks : Annotate(c, d) \/ Run(d, c) \/ FinishTarget(d, c)
    BY <1>5, CreateKeeps, CancelKeeps, AnnotateKeeps, RunKeeps, FinishTargetKeeps
<1>6. CASE \E x \in Polls :
        \/ \E d \in Desks : PollReads(x, d)
        \/ \E c \in Commands : MarkDelivered(x, c)
        \/ PollAnswers(x)
    BY <1>6, PollReadsKeeps, MarkDeliveredKeeps, PollAnswersKeeps
<1> QED
    BY <1>1, <1>2, <1>3, <1>4, <1>5, <1>6 DEF AdminNext

LEMMA AdminInvAlways == AdminSpec => []AdminInv
BY AdminInvInit, AdminInvKept, PTL DEF AdminSpec

LEMMA AdminInvIsSound == AdminInv => AdminIsSound
<1> SUFFICES ASSUME AdminInv PROVE AdminIsSound
    OBVIOUS
<1>1. \A c \in Commands : \A d \in Desks : AimFits(c, d)
    BY DEF AdminInv, AimsFit
<1>2. CancelledRanNowhere
    BY <1>1 DEF AimFits, CancelledRanNowhere
<1>3. CreatedOnce
    <2>1. \A c \in Creating : c \in Commands
        BY AdminAssumption
    <2>2. ASSUME NEW c \in Creating, NEW d \in Desks, ran[c][d].st = "APPLIED" PROVE d = Lowest(Desks)
        BY <1>1, <2>1, <2>2, NothingYet DEF AimFits, Received
    <2> QED
        BY <2>2 DEF CreatedOnce
<1> QED
    BY <1>2, <1>3 DEF AdminIsSound

\* No workstation that is still there has done, or will do, what was
\* cancelled, and a creation mints one entity, whatever polls were under way
\* (CancelCatalogAdminCommand, CreateCatalogAdminCommandWithTargets).
THEOREM AdminSound == AdminSpec => []AdminIsSound
BY AdminInvAlways, AdminInvIsSound, PTL

LEMMA AdminInvIsShown == AdminInv => ConvergedIsShown
<1> SUFFICES ASSUME AdminInv, NEW c \in Commands \ Creating, Converged(c),
                    projected.rev <= command[c].expected + 1
             PROVE  projected.value = command[c].want
    BY DEF ConvergedIsShown
<1>1. /\ command[c].st = "PENDING" /\ command[c] \in CommandRows /\ command[c].expected \in Nat
    BY AdminTypes, NothingYet, CommandAt DEF Converged
<1>2. \A d \in Desks : /\ aim[c][d] = ran[c][d] /\ ran[c][d].st = "APPLIED"
                       /\ ran[c][d].post <= projected.rev
                       /\ ran[c][d].post \in {command[c].expected, command[c].expected + 1}
    <2>1. \A d \in Desks : aim[c][d] = ran[c][d] /\ aim[c][d].st = "APPLIED"
        BY AdminTypes DEF AimFits, Converged
    <2> QED
        BY <2>1 DEF Converged, AdminInv, ValuesFit, RanFits
<1>3. CASE \E d \in Desks : ran[c][d].post = command[c].expected
    BY <1>2, <1>3 DEF Converged, NoopProjected
<1>4. CASE \A d \in Desks : ran[c][d].post = command[c].expected + 1
    <2>1. PICK d \in Desks : TRUE
        BY AdminAssumption
    <2>2. projected \in Revisions /\ projected.rev \in Nat
        BY AdminTypes DEF Revisions
    <2>3. projected.rev = command[c].expected + 1
        BY <1>1, <1>2, <1>4, <2>1, <2>2
    <2>4. Explains(c, projected)
        BY <1>1, <2>2, CommandAt DEF AdminInv, ValuesFit, Explained
    <2> QED
        BY <1>2, <1>4, <2>3, <2>4 DEF Explains, Moved
<1> QED
    BY <1>2, <1>3, <1>4

\* A command that is said to have converged is shown, though workstations had
\* changed the entity apart, some had nothing to do and snapshots overtook
\* each other (aggregate, noopProjected).
THEOREM ConvergedShown == AdminSpec => []ConvergedIsShown
BY AdminInvAlways, AdminInvIsShown, PTL
-----------------------------------------------------------------------------
(* Reports.                                                                *)

\* What is left to do of a breakdown, in the order of its statements.
ToFresh == <<"fresh", "freshReturns", "sales", "refunds">>
ToReturns == <<"freshReturns", "sales", "refunds">>
ToSales == <<"sales", "refunds">>
ToRefunds == <<"refunds">>
SalesAhead == {ToFresh, ToReturns, ToSales}
RefundsAhead == SalesAhead \cup {ToRefunds}

ReportRecords ==
    [kind : {"summary", "breakdown"}, shop : Shops \cup {NoShop}, period : Periods,
     todo : Seq({"sales", "refunds", "fresh", "freshReturns"}), sales : SUBSET Receipts,
     refunds : SUBSET Refunds, complete : BOOLEAN, returnsComplete : BOOLEAN,
     before : SUBSET Facts]

SalesBefore(r) ==
    {s \in (r.before \cap Watched) \ refused : Within(r, Sold[s].shop, Sold[s].day)}
RefundsBefore(r) ==
    {g \in (r.before \cap Refunds) \ refused : Within(r, Given[g].shop, Given[g].day)}

\* A breakdown that was told that all is projected, and has yet to read the
\* rows, will find those of every fact that was there and is not blocked.
BreakdownOK(r) ==
    /\ r.todo \in RefundsAhead \cup {<<>>}
    /\ r.todo = ToFresh => ~r.complete
    /\ r.todo \in {ToFresh, ToReturns} => ~r.returnsComplete
    /\ r.complete =>
        /\ r.before \cap Watched \subseteq booked \cup refused
        /\ r.todo \in SalesAhead \/ SalesBefore(r) \subseteq r.sales
    /\ r.returnsComplete =>
        /\ r.before \cap Refunds \subseteq booked \cup refused
        /\ r.todo \in RefundsAhead \/ RefundsBefore(r) \subseteq r.refunds

ReportOK(r) ==
    /\ r \in {NoReport} \cup ReportRecords
    /\ r.kind = "breakdown" => r.before \subseteq inboxed /\ BreakdownOK(r)

ReportsInv ==
    /\ inboxed \subseteq Facts
    /\ report \in [Readers -> {NoReport} \cup ReportRecords]
    /\ \A x \in Readers : ReportOK(report[x])

LEMMA OrderOfStatements ==
  /\ Head(ToFresh) = "fresh" /\ Tail(ToFresh) = ToReturns
  /\ Head(ToReturns) = "freshReturns" /\ Tail(ToReturns) = ToSales
  /\ Head(ToSales) = "sales" /\ Tail(ToSales) = ToRefunds
  /\ Head(ToRefunds) = "refunds" /\ Tail(ToRefunds) = <<>>
  /\ ToSales \notin {ToFresh, ToReturns} /\ ToReturns # ToFresh
  /\ ToRefunds \notin SalesAhead /\ <<>> \notin RefundsAhead
  /\ ToFresh \in Seq({"sales", "refunds", "fresh", "freshReturns"})
  BY DEF ToFresh, ToReturns, ToSales, ToRefunds, SalesAhead, RefundsAhead

LEMMA FreshMeansSettled ==
  ASSUME inboxed \subseteq Facts, NEW B \in SUBSET inboxed
  PROVE  /\ SalesComplete => B \cap Watched \subseteq booked \cup refused
         /\ ReturnsComplete => B \cap Refunds \subseteq booked \cup refused
  BY DEF SalesComplete, ReturnsComplete

\* One more statement of one report.
LEMMA StatementFits ==
  ASSUME ReportsInv, NEW x \in Readers, RunStatement(x)
  PROVE  ReportsInv'
<1> DEFINE Words == {"sales", "refunds", "fresh", "freshReturns"}
<1>1. PICK r \in ReportRecords : r = report[x] /\ r.todo # <<>> /\ ReportOK(r)
  BY DEF ReportsInv, RunStatement
<1>2. UNCHANGED <<inboxed, booked, refused>>
  BY DEF RunStatement
<1>3. r.todo \in Seq(Words) /\ r.before \in SUBSET Facts
  BY DEF ReportRecords
<1>4. PICK w \in Words : w = Head(r.todo)
  BY <1>1, <1>3
<1>5. PICK rest \in Seq(Words) : rest = Tail(r.todo)
  <2> HIDE DEF Words
  <2>1. QED BY <1>1, <1>3, HeadTailProperties
<1>6. PICK S \in SUBSET Receipts : S = SalesFound(r)
  BY DEF SalesFound
<1>7. PICK R \in SUBSET Refunds : R = RefundsFound(r)
  BY DEF RefundsFound
<1>8. PICK yes \in BOOLEAN : yes = SalesComplete
  BY DEF SalesComplete
<1>9. PICK also \in BOOLEAN : also = ReturnsComplete
  BY DEF ReturnsComplete
<1>10. PICK n \in ReportRecords :
          /\ report' = [report EXCEPT ![x] = n]
          /\ n.kind = r.kind /\ n.before = r.before /\ n.shop = r.shop /\ n.period = r.period
          /\ n.todo = rest
          /\ n.sales = (IF w = "sales" THEN S ELSE r.sales)
          /\ n.refunds = (IF w = "refunds" THEN R ELSE r.refunds)
          /\ n.complete = (IF w = "fresh" THEN yes ELSE r.complete)
          /\ n.returnsComplete = (IF w = "freshReturns" THEN also ELSE r.returnsComplete)
  <2>1. CASE w = "sales"
    <3>1. PICK m : m = [r EXCEPT !.sales = S]
      OBVIOUS
    <3>2. m \in ReportRecords
      BY <3>1 DEF ReportRecords
    <3>3. m.todo = r.todo
      BY <3>1 DEF ReportRecords
    <3>4. PICK n : n = [m EXCEPT !.todo = rest]
      OBVIOUS
    <3>5. report' = [report EXCEPT ![x] = [m EXCEPT !.todo = Tail(m.todo)]]
      BY <1>1, <1>4, <1>6, <2>1, <3>1 DEF RunStatement
    <3>6. report' = [report EXCEPT ![x] = n]
      BY <1>5, <3>3, <3>4, <3>5
    <3>7. n \in ReportRecords
      BY <3>2, <3>4 DEF ReportRecords
    <3>8. QED BY <2>1, <3>1, <3>2, <3>3, <3>4, <3>6, <3>7 DEF ReportRecords
  <2>2. CASE w = "refunds"
    <3>1. PICK m : m = [r EXCEPT !.refunds = R]
      OBVIOUS
    <3>2. m \in ReportRecords
      BY <3>1 DEF ReportRecords
    <3>3. m.todo = r.todo
      BY <3>1 DEF ReportRecords
    <3>4. PICK n : n = [m EXCEPT !.todo = rest]
      OBVIOUS
    <3>5. report' = [report EXCEPT ![x] = [m EXCEPT !.todo = Tail(m.todo)]]
      BY <1>1, <1>4, <1>7, <2>2, <3>1 DEF RunStatement
    <3>6. report' = [report EXCEPT ![x] = n]
      BY <1>5, <3>3, <3>4, <3>5
    <3>7. n \in ReportRecords
      BY <3>2, <3>4 DEF ReportRecords
    <3>8. QED BY <2>2, <3>1, <3>2, <3>3, <3>4, <3>6, <3>7 DEF ReportRecords
  <2>3. CASE w = "fresh"
    <3>1. PICK m : m = [r EXCEPT !.complete = yes]
      OBVIOUS
    <3>2. m \in ReportRecords
      BY <3>1 DEF ReportRecords
    <3>3. m.todo = r.todo
      BY <3>1 DEF ReportRecords
    <3>4. PICK n : n = [m EXCEPT !.todo = rest]
      OBVIOUS
    <3>5. report' = [report EXCEPT ![x] = [m EXCEPT !.todo = Tail(m.todo)]]
      BY <1>1, <1>4, <1>8, <2>3, <3>1 DEF RunStatement
    <3>6. report' = [report EXCEPT ![x] = n]
      BY <1>5, <3>3, <3>4, <3>5
    <3>7. n \in ReportRecords
      BY <3>2, <3>4 DEF ReportRecords
    <3>8. QED BY <2>3, <3>1, <3>2, <3>3, <3>4, <3>6, <3>7 DEF ReportRecords
  <2>4. CASE w = "freshReturns"
    <3>1. PICK m : m = [r EXCEPT !.returnsComplete = also]
      OBVIOUS
    <3>2. m \in ReportRecords
      BY <3>1 DEF ReportRecords
    <3>3. m.todo = r.todo
      BY <3>1 DEF ReportRecords
    <3>4. PICK n : n = [m EXCEPT !.todo = rest]
      OBVIOUS
    <3>5. report' = [report EXCEPT ![x] = [m EXCEPT !.todo = Tail(m.todo)]]
      BY <1>1, <1>4, <1>9, <2>4, <3>1 DEF RunStatement
    <3>6. report' = [report EXCEPT ![x] = n]
      BY <1>5, <3>3, <3>4, <3>5
    <3>7. n \in ReportRecords
      BY <3>2, <3>4 DEF ReportRecords
    <3>8. QED BY <2>4, <3>1, <3>2, <3>3, <3>4, <3>6, <3>7 DEF ReportRecords
  <2>5. QED BY <2>1, <2>2, <2>3, <2>4
<1>11. n.kind = "breakdown" => BreakdownOK(n)
  <2> SUFFICES ASSUME r.kind = "breakdown" PROVE BreakdownOK(n)
    BY <1>10
  <2>1. BreakdownOK(r) /\ r.before \subseteq inboxed /\ inboxed \subseteq Facts
    BY <1>1 DEF ReportOK, ReportsInv
  <2>2. r.todo \in {ToFresh, ToReturns, ToSales, ToRefunds}
    BY <1>1, <2>1 DEF BreakdownOK, RefundsAhead, SalesAhead
  <2>3. /\ yes => r.before \cap Watched \subseteq booked \cup refused
        /\ also => r.before \cap Refunds \subseteq booked \cup refused
    BY <1>8, <1>9, <2>1, FreshMeansSettled
  <2>4. /\ SalesBefore(n) = SalesBefore(r)
        /\ r.before \cap Watched \subseteq booked \cup refused => SalesBefore(r) \subseteq S
    BY <1>6, <1>10, <2>1 DEF SalesBefore, SalesFound, Watched, Within
  <2>5. /\ RefundsBefore(n) = RefundsBefore(r)
        /\ r.before \cap Refunds \subseteq booked \cup refused => RefundsBefore(r) \subseteq R
    BY <1>7, <1>10, <2>1 DEF RefundsBefore, RefundsFound, Within
  <2>6. CASE r.todo = ToFresh
    <3>1. w = "fresh" /\ rest = ToReturns
      BY <1>4, <1>5, <2>6, OrderOfStatements
    <3>2. QED BY <1>10, <2>1, <2>3, <2>6, <3>1, OrderOfStatements DEF BreakdownOK, SalesAhead, RefundsAhead
  <2>7. CASE r.todo = ToReturns
    <3>1. w = "freshReturns" /\ rest = ToSales
      BY <1>4, <1>5, <2>7, OrderOfStatements
    <3>2. QED BY <1>10, <2>1, <2>3, <2>7, <3>1, OrderOfStatements DEF BreakdownOK, SalesAhead, RefundsAhead
  <2>8. CASE r.todo = ToSales
    <3>1. w = "sales" /\ rest = ToRefunds
      BY <1>4, <1>5, <2>8, OrderOfStatements
    <3>2. QED BY <1>10, <2>1, <2>4, <2>8, <3>1, OrderOfStatements DEF BreakdownOK, SalesAhead, RefundsAhead
  <2>9. CASE r.todo = ToRefunds
    <3>1. w = "refunds" /\ rest = <<>>
      BY <1>4, <1>5, <2>9, OrderOfStatements
    <3>2. QED BY <1>10, <2>1, <2>4, <2>5, <2>9, <3>1, OrderOfStatements DEF BreakdownOK, SalesAhead, RefundsAhead
  <2>10. QED BY <2>2, <2>6, <2>7, <2>8, <2>9
<1>12. ReportOK(n) /\ ReportOK(n)'
  BY <1>1, <1>2, <1>10, <1>11 DEF ReportOK, BreakdownOK, SalesBefore, RefundsBefore
<1>13. \A y \in Readers : y # x => report'[y] = report[y]
  BY <1>10 DEF ReportsInv
<1>14. ASSUME NEW y \in Readers PROVE ReportOK(report[y])'
  <2>1. CASE y = x
    BY <1>10, <1>12, <2>1 DEF ReportsInv
  <2>2. CASE y # x
    BY <1>2, <1>13, <2>2 DEF ReportsInv, ReportOK, BreakdownOK, SalesBefore, RefundsBefore
  <2>3. QED BY <2>1, <2>2
<1>15. QED BY <1>2, <1>10, <1>14 DEF ReportsInv

\* What a breakdown has found stays enough, whatever is accepted, booked or
\* blocked meanwhile.
LEMMA FactsFit ==
  ASSUME ReportsInv, NEW f \in Facts, Accept(f) \/ Book(f) \/ BlockFact(f)
  PROVE  ReportsInv'
<1>1. /\ inboxed \subseteq inboxed' /\ booked \subseteq booked' /\ refused \subseteq refused'
      /\ report' = report /\ inboxed' \subseteq Facts
  BY DEF ReportsInv, Accept, Book, BlockFact
<1>2. ASSUME NEW x \in Readers PROVE ReportOK(report[x])'
  <2>1. PICK r : r = report[x] /\ ReportOK(r)
    BY DEF ReportsInv
  <2>2. SalesBefore(r)' \subseteq SalesBefore(r) /\ RefundsBefore(r)' \subseteq RefundsBefore(r)
    BY <1>1 DEF SalesBefore, RefundsBefore, Within
  <2>3. ReportOK(r)'
    BY <1>1, <2>1, <2>2 DEF ReportOK, BreakdownOK
  <2>4. QED BY <1>1, <2>1, <2>3
<1>3. QED BY <1>1, <1>2 DEF ReportsInv

LEMMA ReportsTurnOver ==
  ASSUME ReportsInv, NEW x \in Readers,
         \/ \E kind \in {"summary", "breakdown"}, shop \in Shops \cup {NoShop}, p \in Periods :
                Asks(x, kind, shop, p)
         \/ Answers(x)
  PROVE  ReportsInv'
<1>1. UNCHANGED <<inboxed, booked, refused>>
  BY DEF Asks, Answers
<1>2. PICK n : /\ report' = [report EXCEPT ![x] = n] /\ n \in {NoReport} \cup ReportRecords
               /\ ReportOK(n)
  <2>1. CASE Answers(x)
    <3>1. NoReport.kind = "none" /\ report' = [report EXCEPT ![x] = NoReport]
      BY <2>1 DEF NoReport, Answers
    <3>2. ReportOK(NoReport)
      BY <3>1 DEF ReportOK
    <3>3. QED BY <3>1, <3>2
  <2>2. ASSUME NEW kind \in {"summary", "breakdown"}, NEW shop \in Shops \cup {NoShop},
               NEW p \in Periods, Asks(x, kind, shop, p)
        PROVE  \E n : /\ report' = [report EXCEPT ![x] = n]
                      /\ n \in {NoReport} \cup ReportRecords /\ ReportOK(n)
    <3>1. PICK todo : todo = Statements(kind)
      OBVIOUS
    <3>2. todo \in Seq({"sales", "refunds", "fresh", "freshReturns"})
      <4>1. CASE kind = "breakdown"
        BY <3>1, <4>1 DEF Statements
      <4>2. CASE kind # "breakdown"
        BY <3>1, <4>2 DEF Statements
      <4>3. QED BY <4>1, <4>2
    <3>3. kind = "breakdown" => todo = ToFresh
      BY <3>1 DEF Statements, ToFresh
    <3>4. PICK n : n = [kind |-> kind, shop |-> shop, period |-> p, todo |-> todo,
             sales |-> {}, refunds |-> {}, complete |-> FALSE, returnsComplete |-> FALSE,
             before |-> inboxed]
      OBVIOUS
    <3>5. n \in ReportRecords
      BY <3>2, <3>4 DEF ReportsInv, ReportRecords
    <3>6. n.kind = kind /\ n.todo = todo /\ ~n.complete /\ ~n.returnsComplete
          /\ n.before = inboxed
      BY <3>4
    <3>7. ReportOK(n)
      BY <3>3, <3>5, <3>6, OrderOfStatements
      DEF ReportOK, BreakdownOK, SalesAhead, RefundsAhead
    <3>8. report' = [report EXCEPT ![x] = n]
      BY <2>2, <3>1, <3>4 DEF Asks
    <3>9. QED BY <3>5, <3>7, <3>8
  <2>3. QED BY <2>1, <2>2
<1>3. ASSUME NEW y \in Readers PROVE ReportOK(report[y])'
  <2>1. CASE y = x
    <3>1. ReportOK(n)'
      BY <1>1, <1>2 DEF ReportOK, BreakdownOK, SalesBefore, RefundsBefore
    <3>2. QED BY <1>2, <2>1, <3>1 DEF ReportsInv
  <2>2. CASE y # x
    <3>1. report'[y] = report[y]
      BY <1>2, <2>2 DEF ReportsInv
    <3>2. QED BY <1>1, <3>1 DEF ReportsInv, ReportOK, BreakdownOK, SalesBefore, RefundsBefore
  <2>3. QED BY <2>1, <2>2
<1>4. QED BY <1>1, <1>2, <1>3 DEF ReportsInv

LEMMA ReportsInvInit == ReportsInit => ReportsInv
<1> SUFFICES ASSUME ReportsInit PROVE ReportsInv
  OBVIOUS
<1>1. NoReport.kind = "none"
  BY DEF NoReport
<1>2. QED BY <1>1 DEF ReportsInit, ReportsInv, ReportOK

LEMMA ReportsInvKept == ReportsInv /\ [ReportsNext]_reportVars => ReportsInv'
<1> SUFFICES ASSUME ReportsInv, [ReportsNext]_reportVars PROVE ReportsInv'
  OBVIOUS
<1>1. CASE \E f \in Facts : Accept(f) \/ Book(f) \/ BlockFact(f)
  BY <1>1, FactsFit
<1>2. ASSUME NEW x \in Readers, RunStatement(x) PROVE ReportsInv'
  BY <1>2, StatementFits
<1>3. ASSUME NEW x \in Readers,
             \/ \E kind \in {"summary", "breakdown"}, shop \in Shops \cup {NoShop},
                   p \in Periods : Asks(x, kind, shop, p)
             \/ Answers(x)
      PROVE  ReportsInv'
  BY <1>3, ReportsTurnOver
<1>4. CASE UNCHANGED reportVars
  BY <1>4 DEF reportVars, ReportsInv, ReportOK, BreakdownOK, SalesBefore, RefundsBefore
<1>5. QED BY <1>1, <1>2, <1>3, <1>4 DEF ReportsNext

\* For any sales, returns, Stores, periods and readers: a breakdown that says
\* complete has every accepted and unblocked sale that is watched, and return,
\* whatever is accepted, booked or blocked while its statements run.
THEOREM CompleteReportsAreWhole == ReportsSafe => []CompleteIsWhole
<1>1. ReportsInv => CompleteIsWhole
  <2> SUFFICES ASSUME ReportsInv PROVE CompleteIsWhole
    OBVIOUS
  <2>1. ASSUME NEW x \in Readers, report[x].kind = "breakdown", report[x].todo = <<>>
        PROVE  /\ report[x].complete => SalesBefore(report[x]) \subseteq report[x].sales
               /\ report[x].returnsComplete =>
                    RefundsBefore(report[x]) \subseteq report[x].refunds
    BY <2>1, OrderOfStatements DEF ReportsInv, ReportOK, BreakdownOK, RefundsAhead
  <2>2. QED BY <2>1 DEF CompleteIsWhole, Answered, SalesBefore, RefundsBefore
<1>2. QED BY <1>1, ReportsInvInit, ReportsInvKept, PTL DEF ReportsSafe

\* What the reports see of the projections is what these let them see.
LEMMA FactsAreBooked == ReportsSafe => ReadsTheTables
<1>1. ReportsInit => Tables!Init
  BY DEF ReportsInit, Tables!Init
<1>2. [ReportsNext]_reportVars => [Tables!Projects]_Tables!vars
  <2> SUFFICES ASSUME [ReportsNext]_reportVars
               PROVE  Tables!Projects \/ UNCHANGED <<inboxed, booked, refused>>
    BY DEF Tables!vars
  <2>1. ASSUME NEW f \in Facts, Accept(f) \/ Book(f) \/ BlockFact(f) PROVE Tables!Projects
    BY <2>1
    DEF Accept, Book, BlockFact, Tables!Projects, Tables!Accept, Tables!Book, Tables!Block
  <2>2. QED BY <2>1 DEF ReportsNext, reportVars, Asks, RunStatement, Answers
<1>3. QED BY <1>1, <1>2, PTL DEF ReportsSafe, ReadsTheTables
-----------------------------------------------------------------------------
(* Sums over finite sets.                                                  *)

Pick(T) == CHOOSE x \in T : TRUE

\* One unfolding of the sum over the parts of a domain.
Unfolded(f, g) ==
    [T \in SUBSET DOMAIN f |-> IF T = {} THEN 0 ELSE f[Pick(T)] + g[T \ {Pick(T)}]]

LEMMA SumUnfolds ==
  ASSUME NEW f
  PROVE  SumOf(f) = (CHOOSE g : g = Unfolded(f, g))[DOMAIN f]
  BY DEF SumOf, MapThenSumSet, MapThenFoldSet, Unfolded, Pick

LEMMA CountingInduction ==
  ASSUME NEW P, 0 \in P, \A n \in Nat : n \in P => n + 1 \in P
  PROVE  Nat \subseteq P
<1> DEFINE R == OpToRel(<, Nat)
           bad == Nat \ P
<1> SUFFICES ASSUME bad # {} PROVE FALSE
  OBVIOUS
<1>1. PICK n \in bad : \A m \in bad : <<m, n>> \notin R
  <2>1. IsWellFoundedOn(R, Nat)
    BY NatLessThanWellFounded
  <2> HIDE DEF R
  <2>2. QED BY <2>1, WFMin
<1> HIDE DEF R
<1>2. n \in Nat /\ n \notin P /\ n # 0
  BY <1>1
<1>3. n - 1 \in Nat /\ n - 1 + 1 = n /\ n - 1 < n
  BY <1>2
<1>4. <<n - 1, n>> \in R
  BY <1>2, <1>3 DEF OpToRel, R
<1>5. n - 1 \in P
  BY <1>1, <1>3, <1>4
<1>6. QED BY <1>2, <1>3, <1>5

LEMMA FiniteInduction ==
  ASSUME NEW S, IsFiniteSet(S), NEW P, {} \in P,
         \A T \in SUBSET S : \A x \in S \ T : T \in P => T \cup {x} \in P
  PROVE  S \in P
<1> DEFINE N == {n \in Nat : \A T \in SUBSET S : Cardinality(T) = n => T \in P}
<1>1. \A T \in SUBSET S : IsFiniteSet(T) /\ Cardinality(T) \in Nat
  BY FS_Subset, FS_CardinalityType
<1>2. 0 \in N
  BY <1>1, FS_EmptySet
<1>3. ASSUME NEW n \in Nat, n \in N PROVE n + 1 \in N
  <2> SUFFICES ASSUME NEW T \in SUBSET S, Cardinality(T) = n + 1 PROVE T \in P
    OBVIOUS
  <2>1. PICK x \in T : TRUE
    BY <1>1, FS_EmptySet
  <2>2. Cardinality(T \ {x}) = n
    <3>1. Cardinality(T \ {x}) = IF x \in T THEN Cardinality(T) - 1 ELSE Cardinality(T)
      BY <1>1, FS_RemoveElement
    <3>2. QED BY <2>1, <3>1
  <2>3. T \ {x} \in P
    BY <1>3, <2>2
  <2>4. (T \ {x}) \cup {x} \in P
    BY <2>1, <2>3
  <2>5. QED BY <2>1, <2>4
<1>4. Nat \subseteq N
  <2> HIDE DEF N
  <2>1. QED BY <1>2, <1>3, CountingInduction
<1>5. Cardinality(S) \in N
  BY <1>1, <1>4
<1>6. QED BY <1>5

\* The units of the values of f over T, and those its values lack to 0.
Above(f, T) == UNION {{x} \X (1 .. f[x]) : x \in T}
Below(f, T) == UNION {{x} \X (1 .. (0 - f[x])) : x \in T}
Weight(f, T) == Cardinality(Above(f, T)) - Cardinality(Below(f, T))

LEMMA PileOf ==
  ASSUME NEW x, NEW n \in Int
  PROVE  /\ IsFiniteSet({x} \X (1 .. n))
         /\ Cardinality({x} \X (1 .. n)) = IF n > 0 THEN n ELSE 0
<1>1. IsFiniteSet({x}) /\ Cardinality({x}) = 1
  BY FS_Singleton
<1>2. IsFiniteSet(1 .. n) /\ Cardinality(1 .. n) = IF 1 > n THEN 0 ELSE n - 1 + 1
  BY FS_Interval
<1>3. /\ IsFiniteSet({x} \X (1 .. n))
      /\ Cardinality({x} \X (1 .. n)) = 1 * Cardinality(1 .. n)
  BY <1>1, <1>2, FS_Product
<1>4. QED BY <1>2, <1>3

LEMMA PilesAdd ==
  ASSUME NEW A, NEW B, IsFiniteSet(A), IsFiniteSet(B), A \cap B = {}
  PROVE  /\ IsFiniteSet(A \cup B) /\ Cardinality(A \cup B) \in Nat
         /\ Cardinality(A) \in Nat
         /\ Cardinality(A \cup B) = Cardinality(A) + Cardinality(B)
<1>1. /\ IsFiniteSet(A \cup B)
      /\ Cardinality(A \cup B) = Cardinality(A) + Cardinality(B) - Cardinality(A \cap B)
  BY FS_Union
<1>2. Cardinality(A \cap B) = 0
  BY FS_EmptySet
<1>3. Cardinality(A) \in Nat /\ Cardinality(B) \in Nat
  BY FS_CardinalityType
<1>4. QED BY <1>1, <1>2, <1>3

LEMMA WeighOne ==
  ASSUME NEW f, NEW T, NEW x, x \notin T, f[x] \in Int,
         IsFiniteSet(Above(f, T)), IsFiniteSet(Below(f, T))
  PROVE  /\ IsFiniteSet(Above(f, T \cup {x})) /\ IsFiniteSet(Below(f, T \cup {x}))
         /\ Weight(f, T) \in Int
         /\ Weight(f, T \cup {x}) = Weight(f, T) + f[x]
<1> DEFINE up == {x} \X (1 .. f[x])
           down == {x} \X (1 .. (0 - f[x]))
<1>1. /\ IsFiniteSet(up) /\ IsFiniteSet(down)
      /\ Cardinality(up) \in Nat /\ Cardinality(down) \in Nat
      /\ Cardinality(up) - Cardinality(down) = f[x]
  <2>1. IsFiniteSet(up) /\ Cardinality(up) = IF f[x] > 0 THEN f[x] ELSE 0
    BY PileOf
  <2>2. 0 - f[x] \in Int
    OBVIOUS
  <2>3. IsFiniteSet(down) /\ Cardinality(down) = IF 0 - f[x] > 0 THEN 0 - f[x] ELSE 0
    BY <2>2, PileOf
  <2> HIDE DEF up, down
  <2>4. QED BY <2>1, <2>3
<1>2. /\ Above(f, T \cup {x}) = Above(f, T) \cup up /\ Above(f, T) \cap up = {}
      /\ Below(f, T \cup {x}) = Below(f, T) \cup down /\ Below(f, T) \cap down = {}
  BY DEF Above, Below
<1> HIDE DEF up, down
<1>3. /\ IsFiniteSet(Above(f, T) \cup up) /\ Cardinality(Above(f, T)) \in Nat
      /\ Cardinality(Above(f, T) \cup up) = Cardinality(Above(f, T)) + Cardinality(up)
  BY <1>1, <1>2, PilesAdd
<1>4. /\ IsFiniteSet(Below(f, T) \cup down) /\ Cardinality(Below(f, T)) \in Nat
      /\ Cardinality(Below(f, T) \cup down) = Cardinality(Below(f, T)) + Cardinality(down)
  BY <1>1, <1>2, PilesAdd
<1>5. /\ Weight(f, T) = Cardinality(Above(f, T)) - Cardinality(Below(f, T))
      /\ Weight(f, T \cup {x})
            = Cardinality(Above(f, T) \cup up) - Cardinality(Below(f, T) \cup down)
  BY <1>2, Zenon DEF Weight
<1>6. Weight(f, T) \in Int /\ Weight(f, T \cup {x}) = Weight(f, T) + f[x]
  BY <1>1, <1>3, <1>4, <1>5
<1>7. QED BY <1>2, <1>3, <1>4, <1>6, Zenon

LEMMA WeightFacts ==
  ASSUME NEW D, IsFiniteSet(D), NEW f \in [D -> Int]
  PROVE  /\ Weight(f, {}) = 0
         /\ \A T \in SUBSET D : Weight(f, T) \in Int
         /\ \A T \in SUBSET D : \A x \in D \ T : Weight(f, T \cup {x}) = Weight(f, T) + f[x]
<1> DEFINE P == {T \in SUBSET D : IsFiniteSet(Above(f, T)) /\ IsFiniteSet(Below(f, T))}
<1>1. {} \in P /\ Weight(f, {}) = 0
  <2>1. Above(f, {}) = {} /\ Below(f, {}) = {}
    BY DEF Above, Below
  <2>2. QED BY <2>1, FS_EmptySet DEF Weight
<1>2. ASSUME NEW T \in SUBSET D, NEW x \in D \ T, T \in P
      PROVE  /\ T \cup {x} \in P
             /\ Weight(f, T) \in Int /\ Weight(f, T \cup {x}) = Weight(f, T) + f[x]
  <2>1. f[x] \in Int /\ x \notin T
    OBVIOUS
  <2>2. QED BY <1>2, <2>1, WeighOne
<1>3. ASSUME NEW T \in SUBSET D PROVE T \in P
  <2>1. IsFiniteSet(T)
    BY FS_Subset
  <2>2. \A U \in SUBSET T : \A x \in T \ U : U \in P => U \cup {x} \in P
    BY <1>2
  <2> HIDE DEF P
  <2>3. QED BY <1>1, <2>1, <2>2, FiniteInduction
<1>4. ASSUME NEW T \in SUBSET D PROVE Weight(f, T) \in Int
  <2>1. IsFiniteSet(Above(f, T)) /\ IsFiniteSet(Below(f, T))
    BY <1>3
  <2>2. QED BY <2>1, FS_CardinalityType DEF Weight
<1>5. ASSUME NEW T \in SUBSET D, NEW x \in D \ T
      PROVE  Weight(f, T \cup {x}) = Weight(f, T) + f[x]
  BY <1>2, <1>3
<1>6. QED BY <1>1, <1>4, <1>5

\* The sum is the weight, whatever element each step picks.
LEMMA SumIsWeight ==
  ASSUME NEW D, IsFiniteSet(D), NEW f \in [D -> Int]
  PROVE  SumOf(f) = Weight(f, D)
<1> DEFINE h == [T \in SUBSET D |-> Weight(f, T)]
           g == CHOOSE e : e = Unfolded(f, e)
<1>1. \A T \in SUBSET D : T # {} => Pick(T) \in T
  BY DEF Pick
<1>2. ASSUME NEW T \in SUBSET D, T # {}
      PROVE  Weight(f, T) = f[Pick(T)] + Weight(f, T \ {Pick(T)})
  <2> DEFINE x == Pick(T)
             U == T \ {x}
  <2>1. U \in SUBSET D /\ x \in D \ U /\ U \cup {x} = T
    BY <1>1, <1>2
  <2>2. f[x] \in Int
    BY <2>1
  <2> HIDE DEF x, U, h, g
  <2>3. Weight(f, U) \in Int /\ Weight(f, U \cup {x}) = Weight(f, U) + f[x]
    BY <2>1, WeightFacts
  <2>4. Weight(f, T) = Weight(f, U) + f[x]
    BY <2>1, <2>3, Zenon
  <2>5. Weight(f, T) = f[x] + Weight(f, U)
    BY <2>2, <2>3, <2>4
  <2>6. QED BY <2>5 DEF x, U
<1>3. h = Unfolded(f, h)
  <2>1. \A T \in SUBSET D : T # {} => h[T] = f[Pick(T)] + h[T \ {Pick(T)}]
    BY <1>2
  <2>2. h[{}] = 0
    BY WeightFacts
  <2> HIDE DEF h
  <2>3. h = [T \in SUBSET D |-> h[T]]
    BY DEF h
  <2>4. QED BY <2>1, <2>2, <2>3 DEF Unfolded
<1>4. g = Unfolded(f, g)
  BY <1>3
<1> HIDE DEF h, g
<1>5. ASSUME NEW T \in SUBSET D
      PROVE  g[T] = IF T = {} THEN 0 ELSE f[Pick(T)] + g[T \ {Pick(T)}]
  <2>1. Unfolded(f, g)[T] = IF T = {} THEN 0 ELSE f[Pick(T)] + g[T \ {Pick(T)}]
    BY DEF Unfolded
  <2>2. QED BY <1>4, <2>1
<1> DEFINE N == {n \in Nat : \A T \in SUBSET D : Cardinality(T) = n => g[T] = Weight(f, T)}
<1>6. \A T \in SUBSET D : IsFiniteSet(T) /\ Cardinality(T) \in Nat
  BY FS_Subset, FS_CardinalityType
<1>7. 0 \in N
  BY <1>5, <1>6, FS_EmptySet, WeightFacts
<1>8. ASSUME NEW n \in Nat, n \in N PROVE n + 1 \in N
  <2> SUFFICES ASSUME NEW T \in SUBSET D, Cardinality(T) = n + 1 PROVE g[T] = Weight(f, T)
    OBVIOUS
  <2>1. T # {}
    BY FS_EmptySet
  <2>2. Pick(T) \in T
    BY <1>1, <2>1
  <2>3. Cardinality(T \ {Pick(T)}) = n
    <3>1. Cardinality(T \ {Pick(T)})
            = IF Pick(T) \in T THEN Cardinality(T) - 1 ELSE Cardinality(T)
      BY <1>6, FS_RemoveElement
    <3>2. QED BY <2>2, <3>1
  <2>4. g[T \ {Pick(T)}] = Weight(f, T \ {Pick(T)})
    BY <1>8, <2>3
  <2>5. QED BY <1>2, <1>5, <2>1, <2>4
<1>9. Nat \subseteq N
  <2> HIDE DEF N
  <2>1. QED BY <1>7, <1>8, CountingInduction
<1>10. Cardinality(D) \in N
  BY <1>6, <1>9
<1>11. g[D] = Weight(f, D)
  BY <1>10
<1>12. SumOf(f) = g[D]
  <2>1. DOMAIN f = D
    OBVIOUS
  <2>2. SumOf(f) = (CHOOSE e : e = Unfolded(f, e))[DOMAIN f]
    BY SumUnfolds
  <2>3. QED BY <2>1, <2>2 DEF g
<1>13. QED BY <1>11, <1>12

\* The sum over a part of the domain.
Part(f, T) == SumOf(Restrict(f, T))

LEMMA PartIsWeight ==
  ASSUME NEW D, IsFiniteSet(D), NEW f \in [D -> Int], NEW T \in SUBSET D
  PROVE  Part(f, T) = Weight(f, T)
<1> DEFINE g == Restrict(f, T)
<1>1. g \in [T -> Int] /\ \A x \in T : g[x] = f[x]
  BY DEF Restrict
<1>2. IsFiniteSet(T)
  BY FS_Subset
<1>3. Above(g, T) = Above(f, T) /\ Below(g, T) = Below(f, T)
  <2> HIDE DEF g
  <2>1. QED BY <1>1 DEF Above, Below
<1> HIDE DEF g
<1>4. SumOf(g) = Weight(g, T)
  BY <1>1, <1>2, SumIsWeight
<1>5. QED BY <1>3, <1>4, Zenon DEF Part, Weight, g

LEMMA PartFacts ==
  ASSUME NEW D, IsFiniteSet(D), NEW f \in [D -> Int]
  PROVE  /\ SumOf(f) = Part(f, D) /\ Part(f, {}) = 0
         /\ \A T \in SUBSET D : Part(f, T) \in Int
         /\ \A T \in SUBSET D : \A x \in D \ T : Part(f, T \cup {x}) = Part(f, T) + f[x]
<1>1. Restrict(f, D) = f
  BY DEF Restrict
<1>2. {} \in SUBSET D /\ \A T \in SUBSET D : \A x \in D \ T : T \cup {x} \in SUBSET D
  OBVIOUS
<1>3. \A T \in SUBSET D : Part(f, T) = Weight(f, T)
  BY PartIsWeight
<1>4. /\ Weight(f, {}) = 0 /\ \A T \in SUBSET D : Weight(f, T) \in Int
      /\ \A T \in SUBSET D : \A x \in D \ T : Weight(f, T \cup {x}) = Weight(f, T) + f[x]
  BY WeightFacts
<1>5. SumOf(f) = Part(f, D)
  BY <1>1 DEF Part
<1>6. Part(f, {}) = 0
  BY <1>2, <1>3, <1>4
<1>7. ASSUME NEW T \in SUBSET D, NEW x \in D \ T
      PROVE  Part(f, T \cup {x}) = Part(f, T) + f[x]
  <2>1. Weight(f, T \cup {x}) = Weight(f, T) + f[x]
    BY <1>4
  <2>2. Part(f, T) = Weight(f, T) /\ Part(f, T \cup {x}) = Weight(f, T \cup {x})
    BY <1>2, <1>3
  <2>3. QED BY <2>1, <2>2, Zenon
<1>8. \A T \in SUBSET D : Part(f, T) \in Int
  BY <1>3, <1>4
<1>9. QED BY <1>5, <1>6, <1>7, <1>8

\* f is at most g, give or take u for each element.
LEMMA SumNear ==
  ASSUME NEW D, IsFiniteSet(D), NEW f \in [D -> Int], NEW g \in [D -> Int], NEW u \in Int,
         \A x \in D : f[x] <= g[x] + u
  PROVE  SumOf(f) <= SumOf(g) + u * Cardinality(D)
<1> DEFINE P == {T \in SUBSET D : Part(f, T) <= Part(g, T) + u * Cardinality(T)}
<1>1. {} \in P
  <2>1. Part(f, {}) = 0 /\ Part(g, {}) = 0 /\ Cardinality({}) = 0
    BY PartFacts, FS_EmptySet
  <2>2. QED BY <2>1
<1>2. ASSUME NEW T \in SUBSET D, NEW x \in D \ T, T \in P PROVE T \cup {x} \in P
  <2>1. /\ Part(f, T) \in Int /\ Part(f, T \cup {x}) = Part(f, T) + f[x]
        /\ Part(g, T) \in Int /\ Part(g, T \cup {x}) = Part(g, T) + g[x]
    BY PartFacts
  <2>2. Cardinality(T) \in Nat /\ Cardinality(T \cup {x}) = Cardinality(T) + 1
    <3>1. IsFiniteSet(T)
      BY FS_Subset
    <3>2. Cardinality(T \cup {x}) = IF x \in T THEN Cardinality(T) ELSE Cardinality(T) + 1
      BY <3>1, FS_AddElement
    <3>3. QED BY <3>1, <3>2, FS_CardinalityType
  <2>3. u * (Cardinality(T) + 1) = u * Cardinality(T) + u /\ u * Cardinality(T) \in Int
    <3>1. \A n \in Nat : u * (n + 1) = u * n + u /\ u * n \in Int
      OBVIOUS
    <3>2. QED BY <2>2, <3>1
  <2>4. f[x] \in Int /\ g[x] \in Int /\ f[x] <= g[x] + u
    OBVIOUS
  <2>5. Part(f, T) <= Part(g, T) + u * Cardinality(T)
    BY <1>2
  <2>6. Part(f, T \cup {x}) <= Part(g, T \cup {x}) + u * (Cardinality(T) + 1)
    BY <2>1, <2>3, <2>4, <2>5
  <2>7. QED BY <2>2, <2>6
<1>3. D \in P
  <2> HIDE DEF P
  <2>1. QED BY <1>1, <1>2, FiniteInduction
<1>4. QED BY <1>3, PartFacts

LEMMA SumOfDifference ==
  ASSUME NEW D, IsFiniteSet(D), NEW f \in [D -> Int], NEW g \in [D -> Int]
  PROVE  /\ SumOf(f) \in Int /\ SumOf(g) \in Int
         /\ SumOf([x \in D |-> f[x] - g[x]]) = SumOf(f) - SumOf(g)
<1> DEFINE h == [x \in D |-> f[x] - g[x]]
           P == {T \in SUBSET D : Part(h, T) = Part(f, T) - Part(g, T)}
<1>1. h \in [D -> Int] /\ \A x \in D : h[x] = f[x] - g[x]
  OBVIOUS
<1> HIDE DEF h
<1>2. {} \in P
  <2>1. Part(f, {}) = 0 /\ Part(g, {}) = 0 /\ Part(h, {}) = 0
    BY <1>1, PartFacts
  <2>2. QED BY <2>1
<1>3. ASSUME NEW T \in SUBSET D, NEW x \in D \ T, T \in P PROVE T \cup {x} \in P
  <2>1. /\ Part(f, T) \in Int /\ Part(f, T \cup {x}) = Part(f, T) + f[x]
        /\ Part(g, T) \in Int /\ Part(g, T \cup {x}) = Part(g, T) + g[x]
        /\ Part(h, T) \in Int /\ Part(h, T \cup {x}) = Part(h, T) + h[x]
    BY <1>1, PartFacts
  <2>2. f[x] \in Int /\ g[x] \in Int /\ h[x] = f[x] - g[x]
    BY <1>1
  <2>3. Part(h, T) = Part(f, T) - Part(g, T)
    BY <1>3
  <2>4. Part(h, T \cup {x}) = Part(f, T \cup {x}) - Part(g, T \cup {x})
    BY <2>1, <2>2, <2>3
  <2>5. QED BY <2>4
<1>4. D \in P
  <2> HIDE DEF P
  <2>1. QED BY <1>2, <1>3, FiniteInduction
<1>5. SumOf(f) \in Int /\ SumOf(g) \in Int /\ SumOf(h) = SumOf(f) - SumOf(g)
  BY <1>1, <1>4, PartFacts
<1>6. QED BY <1>5 DEF h

LEMMA SumOfNone ==
  ASSUME NEW D, IsFiniteSet(D), NEW f \in [D -> Int], \A x \in D : f[x] = 0
  PROVE  SumOf(f) = 0
<1> DEFINE P == {T \in SUBSET D : Part(f, T) = 0}
<1>1. {} \in P
  BY PartFacts
<1>2. ASSUME NEW T \in SUBSET D, NEW x \in D \ T, T \in P PROVE T \cup {x} \in P
  <2>1. Part(f, T \cup {x}) = Part(f, T) + f[x]
    BY PartFacts
  <2>2. QED BY <1>2, <2>1
<1>3. D \in P
  <2> HIDE DEF P
  <2>1. QED BY <1>1, <1>2, FiniteInduction
<1>4. QED BY <1>3, PartFacts

LEMMA SumOfApart ==
  ASSUME NEW D, IsFiniteSet(D), NEW f \in [D -> Int], NEW A \in SUBSET D, NEW B \in SUBSET D,
         A \cap B = {}
  PROVE  Part(f, A \cup B) = Part(f, A) + Part(f, B)
<1> DEFINE P == {T \in SUBSET B : Part(f, A \cup T) = Part(f, A) + Part(f, T)}
<1>1. {} \in P
  <2>1. Part(f, {}) = 0 /\ Part(f, A) \in Int /\ A \cup {} = A
    BY PartFacts
  <2>2. Part(f, A \cup {}) = Part(f, A)
    BY <2>1, Zenon
  <2>3. Part(f, A \cup {}) = Part(f, A) + Part(f, {})
    BY <2>1, <2>2
  <2>4. QED BY <2>3
<1>2. ASSUME NEW T \in SUBSET B, NEW x \in B \ T, T \in P PROVE T \cup {x} \in P
  <2> DEFINE U == A \cup T
  <2>1. U \in SUBSET D /\ x \in D \ U /\ T \in SUBSET D /\ x \in D \ T
        /\ A \cup (T \cup {x}) = U \cup {x}
    OBVIOUS
  <2>2. Part(f, U) = Part(f, A) + Part(f, T)
    BY <1>2
  <2> HIDE DEF U
  <2>3. /\ Part(f, U \cup {x}) = Part(f, U) + f[x] /\ Part(f, T \cup {x}) = Part(f, T) + f[x]
        /\ Part(f, A) \in Int /\ Part(f, T) \in Int /\ f[x] \in Int
    BY <2>1, PartFacts
  <2>4. Part(f, U \cup {x}) = Part(f, A) + Part(f, T \cup {x})
    BY <2>2, <2>3
  <2>5. Part(f, A \cup (T \cup {x})) = Part(f, A) + Part(f, T \cup {x})
    BY <2>1, <2>4, Zenon
  <2>6. QED BY <2>5
<1>3. B \in P
  <2>1. IsFiniteSet(B)
    BY FS_Subset
  <2> HIDE DEF P
  <2>2. QED BY <1>1, <1>2, <2>1, FiniteInduction
<1>4. QED BY <1>3

\* The sum of a value of one element alone.
LEMMA SumOfPoint ==
  ASSUME NEW D, IsFiniteSet(D), NEW a \in D, NEW v \in Int
  PROVE  SumOf([x \in D |-> IF x = a THEN v ELSE 0]) = v
<1> DEFINE f == [x \in D |-> IF x = a THEN v ELSE 0]
           A == D \ {a}
           g == Restrict(f, A)
<1>1. f \in [D -> Int] /\ f[a] = v
  OBVIOUS
<1>2. g \in [A -> Int] /\ \A x \in A : g[x] = 0
  BY DEF Restrict
<1>3. IsFiniteSet(A)
  BY FS_Subset
<1>4. A \in SUBSET D /\ a \in D \ A /\ A \cup {a} = D
  OBVIOUS
<1> HIDE DEF f, A
<1>5. SumOf(g) = 0
  <2> HIDE DEF g
  <2>1. QED BY <1>2, <1>3, SumOfNone
<1>6. Part(f, A) = 0
  BY <1>5 DEF Part
<1>7. Part(f, A \cup {a}) = Part(f, A) + f[a] /\ SumOf(f) = Part(f, D)
  BY <1>1, <1>4, PartFacts
<1>8. SumOf(f) = Part(f, A) + f[a]
  BY <1>4, <1>7, Zenon
<1>9. SumOf(f) = v
  BY <1>1, <1>6, <1>8
<1>10. QED BY <1>9 DEF f

LEMMA RangeIsFinite ==
  ASSUME NEW D, IsFiniteSet(D), NEW f, DOMAIN f = D
  PROVE  IsFiniteSet(Range(f))
<1>1. [x \in D |-> f[x]] \in Surjection(D, Range(f))
  BY DEF Surjection, Range
<1>2. QED BY <1>1, FS_Surjection

\* The rows of a query add up to the facts they are made of.
LEMMA RowsAdd ==
  ASSUME NEW D, IsFiniteSet(D), NEW f \in [D -> Int], NEW key, DOMAIN key = D
  PROVE  /\ IsFiniteSet(Range(key)) /\ Totals(key, f) \in [Range(key) -> Int]
         /\ SumOf(Totals(key, f)) = SumOf(f)
<1> DEFINE K == Range(key)
           Row(T) == [k \in K |-> Part(f, {x \in T : key[x] = k})]
           P == {T \in SUBSET D : SumOf(Row(T)) = Part(f, T)}
<1>1. IsFiniteSet(K) /\ \A x \in D : key[x] \in K
  BY RangeIsFinite DEF Range
<1> HIDE DEF K
<1>2. ASSUME NEW T \in SUBSET D PROVE Row(T) \in [K -> Int]
  <2>1. \A k \in K : {x \in T : key[x] = k} \in SUBSET D
    OBVIOUS
  <2>2. \A k \in K : Part(f, {x \in T : key[x] = k}) \in Int
    BY <2>1, PartFacts
  <2>3. QED BY <2>2
<1>3. {} \in P
  <2>1. Part(f, {}) = 0
    BY PartFacts
  <2>2. \A k \in K : {x \in {} : key[x] = k} = {}
    OBVIOUS
  <2>3. \A k \in K : Row({})[k] = 0
    BY <2>1, <2>2, Zenon
  <2>4. Row({}) \in [K -> Int]
    BY <1>2
  <2> HIDE DEF Row
  <2>5. SumOf(Row({})) = 0
    BY <1>1, <2>3, <2>4, SumOfNone
  <2>6. QED BY <2>1, <2>5
<1>4. ASSUME NEW T \in SUBSET D, NEW x \in D \ T, T \in P PROVE T \cup {x} \in P
  <2> DEFINE U == T \cup {x}
             one == [k \in K |-> IF k = key[x] THEN f[x] ELSE 0]
  <2>1. U \in SUBSET D /\ f[x] \in Int /\ one \in [K -> Int]
    OBVIOUS
  <2>2. SumOf(one) = f[x]
    BY <1>1, <2>1, SumOfPoint
  <2>3. Part(f, U) = Part(f, T) + f[x] /\ Part(f, T) \in Int
    BY PartFacts
  <2>4. ASSUME NEW k \in K PROVE Row(T)[k] = Row(U)[k] - one[k]
    <3> DEFINE A == {y \in T : key[y] = k}
               B == {y \in U : key[y] = k}
    <3>1. A \in SUBSET D /\ Part(f, A) \in Int
      BY PartFacts
    <3>2. CASE k = key[x]
      <4>1. x \in D \ A /\ B = A \cup {x}
        BY <3>2
      <4> HIDE DEF A, B
      <4>2. Part(f, A \cup {x}) = Part(f, A) + f[x]
        BY <3>1, <4>1, PartFacts
      <4>3. Part(f, B) = Part(f, A) + f[x]
        BY <4>1, <4>2, Zenon
      <4>4. Part(f, A) = Part(f, B) - f[x]
        BY <2>1, <3>1, <4>3
      <4>5. QED BY <3>2, <4>4 DEF A, B
    <3>3. CASE k # key[x]
      <4>1. B = A
        BY <3>3
      <4> HIDE DEF A, B
      <4>2. Part(f, B) = Part(f, A)
        BY <4>1, Zenon
      <4>3. Part(f, A) = Part(f, B) - 0
        BY <3>1, <4>2
      <4>4. QED BY <3>3, <4>3 DEF A, B
    <3>4. QED BY <3>2, <3>3
  <2>5. Row(T) = [k \in K |-> Row(U)[k] - one[k]]
    BY <2>4
  <2>6. Row(U) \in [K -> Int]
    BY <1>2, <2>1
  <2> HIDE DEF one, Row, U
  <2>7. SumOf(Row(U)) \in Int /\ SumOf(Row(T)) = SumOf(Row(U)) - SumOf(one)
    BY <1>1, <2>1, <2>5, <2>6, SumOfDifference
  <2>8. SumOf(Row(T)) = Part(f, T)
    BY <1>4
  <2>9. SumOf(Row(U)) = Part(f, U)
    BY <2>1, <2>2, <2>3, <2>7, <2>8
  <2>10. QED BY <2>1, <2>9 DEF U
<1>5. D \in P
  <2> HIDE DEF P
  <2>1. QED BY <1>3, <1>4, FiniteInduction
<1>6. Totals(key, f) = Row(D)
  BY DEF Totals, Part, K
<1>7. SumOf(Totals(key, f)) = SumOf(f)
  <2>1. SumOf(Row(D)) = Part(f, D)
    BY <1>5
  <2>2. SumOf(f) = Part(f, D)
    BY PartFacts
  <2>3. QED BY <1>6, <2>1, <2>2, Zenon
<1>8. Row(D) \in [K -> Int]
  BY <1>2
<1>9. QED BY <1>1, <1>6, <1>7, <1>8 DEF K

LEMMA RowValue ==
  ASSUME NEW f, NEW key, NEW k \in Range(key)
  PROVE  Totals(key, f)[k] = Part(f, {x \in DOMAIN key : key[x] = k})
  BY DEF Totals, Part

\* and so do those of some keys.
LEMMA SomeRowsAdd ==
  ASSUME NEW D, IsFiniteSet(D), NEW f \in [D -> Int], NEW key, DOMAIN key = D,
         NEW Q \in SUBSET Range(key)
  PROVE  SumOf(Restrict(Totals(key, f), Q)) = Part(f, {x \in D : key[x] \in Q})
<1> DEFINE E == {x \in D : key[x] \in Q}
           h == Restrict(key, E)
           g == Restrict(f, E)
<1>1. DOMAIN h = E /\ g \in [E -> Int] /\ \A x \in E : h[x] = key[x] /\ g[x] = f[x]
  BY DEF Restrict
<1>2. IsFiniteSet(E)
  BY FS_Subset
<1>3. Range(h) = Q
  <2>1. \A k \in Q : \E x \in E : key[x] = k
    BY DEF Range
  <2>2. \A x \in E : key[x] \in Q
    OBVIOUS
  <2> HIDE DEF h, E
  <2>3. QED BY <1>1, <2>1, <2>2 DEF Range
<1>4. ASSUME NEW k \in Q
      PROVE  Restrict(g, {x \in E : h[x] = k}) = Restrict(f, {x \in D : key[x] = k})
  <2>1. {x \in E : h[x] = k} = {x \in D : key[x] = k}
    BY <1>1
  <2>2. \A x \in {y \in D : key[y] = k} : g[x] = f[x]
    BY <1>1
  <2> HIDE DEF g, h
  <2>3. QED BY <2>1, <2>2 DEF Restrict
<1>5. Totals(h, g) = Restrict(Totals(key, f), Q)
  <2>1. ASSUME NEW k \in Q
        PROVE  SumOf(Restrict(g, {x \in DOMAIN h : h[x] = k}))
                 = SumOf(Restrict(f, {x \in DOMAIN key : key[x] = k}))
    BY <1>1, <1>4, Zenon
  <2> HIDE DEF g, h
  <2>2. QED BY <1>3, <2>1 DEF Totals, Restrict
<1> HIDE DEF E, g, h
<1>6. SumOf(Totals(h, g)) = SumOf(g)
  BY <1>1, <1>2, RowsAdd
<1>7. QED BY <1>5, <1>6, Zenon DEF Part, E, g

\* Keys without a row count nothing.
LEMMA SumExtends ==
  ASSUME NEW A, NEW B, IsFiniteSet(B), A \subseteq B, NEW a \in [A -> Int]
  PROVE  /\ [k \in B |-> At(a, k)] \in [B -> Int]
         /\ SumOf([k \in B |-> At(a, k)]) = SumOf(a)
<1> DEFINE e == [k \in B |-> At(a, k)]
           C == B \ A
           g == Restrict(e, C)
<1>1. e \in [B -> Int] /\ Restrict(e, A) = a
  BY DEF At, Restrict
<1>2. g \in [C -> Int] /\ \A x \in C : g[x] = 0
  BY DEF At, Restrict
<1>3. IsFiniteSet(C)
  BY FS_Subset
<1>4. A \cup C = B /\ A \cap C = {} /\ A \in SUBSET B /\ C \in SUBSET B
  OBVIOUS
<1> HIDE DEF e, C
<1>5. Part(e, C) = 0
  <2> HIDE DEF g
  <2>1. SumOf(g) = 0
    BY <1>2, <1>3, SumOfNone
  <2>2. QED BY <2>1 DEF Part, g
<1>6. Part(e, A) = SumOf(a) /\ Part(e, A) \in Int
  <2>1. Part(e, A) \in Int
    BY <1>1, <1>4, PartFacts
  <2>2. QED BY <1>1, <2>1, Zenon DEF Part
<1>7. Part(e, A \cup C) = Part(e, A) + Part(e, C) /\ SumOf(e) = Part(e, B)
  BY <1>1, <1>4, SumOfApart, PartFacts
<1>8. SumOf(e) = Part(e, A) + Part(e, C)
  BY <1>4, <1>7, Zenon
<1>9. SumOf(e) = Part(e, A)
  BY <1>5, <1>6, <1>8
<1>10. QED BY <1>1, <1>6, <1>9, Zenon DEF e

\* What two queries are merged into adds up to their difference.
LEMMA MergedAdds ==
  ASSUME NEW A, NEW B, IsFiniteSet(A), IsFiniteSet(B), NEW a \in [A -> Int], NEW b \in [B -> Int]
  PROVE  SumOf(Merged(a, b)) = SumOf(a) - SumOf(b)
<1> DEFINE C == A \cup B
           f == [k \in C |-> At(a, k)]
           g == [k \in C |-> At(b, k)]
<1>1. IsFiniteSet(C) /\ A \subseteq C /\ B \subseteq C
  BY FS_Union
<1>2. Merged(a, b) = [k \in C |-> f[k] - g[k]]
  BY DEF Merged
<1> HIDE DEF C
<1>3. f \in [C -> Int] /\ SumOf(f) = SumOf(a) /\ g \in [C -> Int] /\ SumOf(g) = SumOf(b)
  BY <1>1, SumExtends
<1> HIDE DEF f, g
<1>4. SumOf([k \in C |-> f[k] - g[k]]) = SumOf(f) - SumOf(g)
  BY <1>1, <1>3, SumOfDifference
<1>5. QED BY <1>2, <1>3, <1>4, Zenon

\* The names of what is summed do not matter.
LEMMA SumRenamed ==
  ASSUME NEW D, NEW E, IsFiniteSet(E), NEW f \in [D -> Int], NEW h \in Bijection(E, D)
  PROVE  SumOf([x \in E |-> f[h[x]]]) = SumOf(f)
<1> DEFINE g == [x \in E |-> f[h[x]]]
           Img(T) == {h[x] : x \in T}
           P == {T \in SUBSET E : Part(g, T) = Part(f, Img(T))}
<1>1. /\ h \in [E -> D] /\ \A x, y \in E : h[x] = h[y] => x = y
      /\ \A d \in D : \E x \in E : h[x] = d
  BY DEF Bijection, Injection, Surjection, IsInjective
<1>2. IsFiniteSet(D)
  <2>1. h \in Surjection(E, D)
    BY DEF Bijection
  <2>2. QED BY <2>1, FS_Surjection
<1>3. g \in [E -> Int] /\ \A x \in E : g[x] = f[h[x]]
  BY <1>1
<1> HIDE DEF g
<1>4. {} \in P
  <2>1. Img({}) = {}
    OBVIOUS
  <2>2. Part(g, {}) = 0 /\ Part(f, {}) = 0
    BY <1>2, <1>3, PartFacts
  <2>3. Part(g, {}) = Part(f, Img({}))
    BY <2>1, <2>2, Zenon
  <2>4. QED BY <2>3
<1>5. ASSUME NEW T \in SUBSET E, NEW x \in E \ T, T \in P PROVE T \cup {x} \in P
  <2>1. /\ Img(T) \in SUBSET D /\ h[x] \in D \ Img(T) /\ Img(T \cup {x}) = Img(T) \cup {h[x]}
    BY <1>1
  <2>2. Part(g, T) = Part(f, Img(T))
    BY <1>5
  <2> HIDE DEF Img
  <2>3. /\ Part(g, T \cup {x}) = Part(g, T) + g[x]
        /\ Part(f, Img(T) \cup {h[x]}) = Part(f, Img(T)) + f[h[x]]
    BY <1>2, <1>3, <2>1, PartFacts
  <2>4. Part(g, T \cup {x}) = Part(f, Img(T \cup {x}))
    <3>1. g[x] = f[h[x]]
      BY <1>3
    <3>2. QED BY <2>1, <2>2, <2>3, <3>1, Zenon
  <2>5. QED BY <2>4
<1>6. E \in P
  <2> HIDE DEF P
  <2>1. QED BY <1>4, <1>5, FiniteInduction
<1>7. Img(E) = D
  BY <1>1
<1> HIDE DEF Img
<1>8. SumOf(g) = Part(g, E) /\ SumOf(f) = Part(f, D)
  BY <1>2, <1>3, PartFacts
<1>9. SumOf(g) = SumOf(f)
  BY <1>6, <1>7, <1>8, Zenon
<1>10. QED BY <1>9 DEF g

LEMMA FamilyIsFinite ==
  ASSUME NEW S, IsFiniteSet(S), NEW h, DOMAIN h = S, \A s \in S : IsFiniteSet(h[s])
  PROVE  IsFiniteSet(UNION {h[s] : s \in S})
<1>1. IsFiniteSet(Range(h)) /\ \A T \in Range(h) : IsFiniteSet(T)
  BY RangeIsFinite DEF Range
<1>2. IsFiniteSet(UNION Range(h))
  BY <1>1, FS_UNION
<1>3. UNION Range(h) = UNION {h[s] : s \in S}
  BY DEF Range
<1>4. QED BY <1>2, <1>3, Zenon

LEMMA MergedRowsAdd ==
  ASSUME NEW D, IsFiniteSet(D), NEW f \in [D -> Int], NEW key, DOMAIN key = D,
         NEW E, IsFiniteSet(E), NEW g \in [E -> Int], NEW other, DOMAIN other = E
  PROVE  SumOf(Merged(Totals(key, f), Totals(other, g))) = SumOf(f) - SumOf(g)
<1>1. /\ IsFiniteSet(Range(key)) /\ Totals(key, f) \in [Range(key) -> Int]
      /\ SumOf(Totals(key, f)) = SumOf(f)
  BY RowsAdd
<1>2. /\ IsFiniteSet(Range(other)) /\ Totals(other, g) \in [Range(other) -> Int]
      /\ SumOf(Totals(other, g)) = SumOf(g)
  BY RowsAdd
<1>3. SumOf(Merged(Totals(key, f), Totals(other, g)))
        = SumOf(Totals(key, f)) - SumOf(Totals(other, g))
  BY <1>1, <1>2, MergedAdds
<1>4. QED BY <1>1, <1>2, <1>3, Zenon

LEMMA SumOfNats ==
  ASSUME NEW D, IsFiniteSet(D), NEW f \in [D -> Nat]
  PROVE  SumOf(f) \in Nat
<1> DEFINE z == [x \in D |-> 0]
<1>1. z \in [D -> Int] /\ f \in [D -> Int] /\ \A x \in D : z[x] = 0 /\ z[x] <= f[x] + 0
  OBVIOUS
<1> HIDE DEF z
<1>2. SumOf(z) = 0 /\ SumOf(z) <= SumOf(f) + 0 * Cardinality(D)
  BY <1>1, SumOfNone, SumNear
<1>3. SumOf(f) \in Int
  BY <1>1, PartFacts
<1>4. Cardinality(D) \in Nat
  BY FS_CardinalityType
<1>5. QED BY <1>2, <1>3, <1>4

LEMMA WhatIsSold ==
  ASSUME NEW s \in Receipts
  PROVE  /\ Sold[s].total \in Nat /\ Sold[s].rate \in Nat
         /\ IsFiniteSet(Sold[s].lines) /\ \A l \in Sold[s].lines : l.total \in Nat
         /\ IsFiniteSet(Sold[s].pays) /\ \A p \in Sold[s].pays : p.amount \in Nat
  BY ReportAssumption, Zenon

LEMMA WhatIsPaid ==
  ASSUME NEW s \in Receipts
  PROVE  SumOf([p \in Sold[s].pays |-> p.amount]) - Sold[s].total \in -1..1
  BY ReportAssumption, Zenon

LEMMA WhatIsGiven ==
  ASSUME NEW r \in Refunds
  PROVE  /\ Given[r].sale \in Receipts /\ Given[r].rate \in Nat
         /\ IsFiniteSet(Given[r].lines)
         /\ \A g \in Given[r].lines : g.line \in Sold[Given[r].sale].lines /\ g.refund \in Nat
  BY ReportAssumption, Zenon

LEMMA RefundTotalsAreNats ==
  ASSUME NEW r \in Refunds
  PROVE  RefundTotal(r) \in Nat
<1> DEFINE f == [g \in Given[r].lines |-> g.refund]
<1>1. IsFiniteSet(Given[r].lines) /\ f \in [Given[r].lines -> Nat]
  BY WhatIsGiven
<1> HIDE DEF f
<1>2. SumOf(f) \in Nat
  BY <1>1, SumOfNats
<1>3. QED BY <1>2 DEF RefundTotal, f

LEMMA MadeOfIsFinite ==
  ASSUME NEW X, IsFiniteSet(X), NEW h, DOMAIN h = X
  PROVE  IsFiniteSet({h[x] : x \in X})
  BY RangeIsFinite DEF Range

LEMMA SalesAreFinite ==
  ASSUME NEW S \in SUBSET Receipts
  PROVE  /\ IsFiniteSet(S) /\ IsFiniteSet(SoldLines(S)) /\ IsFiniteSet(Payments(S))
         /\ SaleTotals(S) \in [S -> Int] /\ LineTotals(S) \in [SoldLines(S) -> Int]
         /\ [f \in Payments(S) |-> f.pay.amount] \in [Payments(S) -> Int]
<1>1. IsFiniteSet(S)
  BY ReportAssumption, FS_Subset
<1>2. IsFiniteSet(SoldLines(S))
  <2> DEFINE h == [s \in S |-> {[id |-> s, line |-> l] : l \in Sold[s].lines}]
  <2>1. ASSUME NEW s \in S PROVE IsFiniteSet(h[s])
    <3> DEFINE one == [l \in Sold[s].lines |-> [id |-> s, line |-> l]]
    <3>1. IsFiniteSet(Sold[s].lines)
      BY WhatIsSold
    <3>2. IsFiniteSet({one[l] : l \in Sold[s].lines})
      <4>1. DOMAIN one = Sold[s].lines
        OBVIOUS
      <4> HIDE DEF one
      <4>2. QED BY <3>1, <4>1, MadeOfIsFinite
    <3>3. {one[l] : l \in Sold[s].lines} = h[s]
      OBVIOUS
    <3> HIDE DEF one, h
    <3>4. QED BY <3>2, <3>3, Zenon
  <2>2. SoldLines(S) = UNION {h[s] : s \in S} /\ DOMAIN h = S
    BY DEF SoldLines
  <2> HIDE DEF h
  <2>3. IsFiniteSet(UNION {h[s] : s \in S})
    BY <1>1, <2>1, <2>2, FamilyIsFinite
  <2>4. QED BY <2>2, <2>3, Zenon
<1>3. IsFiniteSet(Payments(S))
  <2> DEFINE h == [s \in S |-> {[id |-> s, pay |-> p] : p \in Sold[s].pays}]
  <2>1. ASSUME NEW s \in S PROVE IsFiniteSet(h[s])
    <3> DEFINE one == [p \in Sold[s].pays |-> [id |-> s, pay |-> p]]
    <3>1. IsFiniteSet(Sold[s].pays)
      BY WhatIsSold
    <3>2. IsFiniteSet({one[p] : p \in Sold[s].pays})
      <4>1. DOMAIN one = Sold[s].pays
        OBVIOUS
      <4> HIDE DEF one
      <4>2. QED BY <3>1, <4>1, MadeOfIsFinite
    <3>3. {one[p] : p \in Sold[s].pays} = h[s]
      OBVIOUS
    <3> HIDE DEF one, h
    <3>4. QED BY <3>2, <3>3, Zenon
  <2>2. Payments(S) = UNION {h[s] : s \in S} /\ DOMAIN h = S
    BY DEF Payments
  <2> HIDE DEF h
  <2>3. IsFiniteSet(UNION {h[s] : s \in S})
    BY <1>1, <2>1, <2>2, FamilyIsFinite
  <2>4. QED BY <2>2, <2>3, Zenon
<1>4. /\ \A s \in S : Sold[s].total \in Int
      /\ \A f \in SoldLines(S) : f.line.total \in Int
      /\ \A f \in Payments(S) : f.pay.amount \in Int
  <2>1. \A s \in S : Sold[s].total \in Int
    BY WhatIsSold
  <2>2. \A s \in S : \A l \in Sold[s].lines : l.total \in Int
    BY WhatIsSold
  <2>3. \A s \in S : \A p \in Sold[s].pays : p.amount \in Int
    BY WhatIsSold
  <2>4. \A f \in SoldLines(S) : f.line.total \in Int
    BY <2>2 DEF SoldLines
  <2>5. \A f \in Payments(S) : f.pay.amount \in Int
    BY <2>3 DEF Payments
  <2>6. QED BY <2>1, <2>4, <2>5
<1>5. QED BY <1>1, <1>2, <1>3, <1>4 DEF SaleTotals, LineTotals

LEMMA ReturnsAreFinite ==
  ASSUME NEW R \in SUBSET Refunds
  PROVE  /\ IsFiniteSet(R) /\ IsFiniteSet(GivenLines(R))
         /\ RefundTotals(R) \in [R -> Int] /\ LineRefunds(R) \in [GivenLines(R) -> Int]
<1>1. IsFiniteSet(R)
  BY ReportAssumption, FS_Subset
<1>2. IsFiniteSet(GivenLines(R))
  <2> DEFINE h == [r \in R |->
                {[id |-> r, line |-> g.line, refund |-> g.refund] : g \in Given[r].lines}]
  <2>1. ASSUME NEW r \in R PROVE IsFiniteSet(h[r])
    <3> DEFINE one == [g \in Given[r].lines |-> [id |-> r, line |-> g.line, refund |-> g.refund]]
    <3>1. IsFiniteSet(Given[r].lines)
      BY WhatIsGiven
    <3>2. IsFiniteSet({one[g] : g \in Given[r].lines})
      <4>1. DOMAIN one = Given[r].lines
        OBVIOUS
      <4> HIDE DEF one
      <4>2. QED BY <3>1, <4>1, MadeOfIsFinite
    <3>3. {one[g] : g \in Given[r].lines} = h[r]
      OBVIOUS
    <3> HIDE DEF one, h
    <3>4. QED BY <3>2, <3>3, Zenon
  <2>2. GivenLines(R) = UNION {h[r] : r \in R} /\ DOMAIN h = R
    BY DEF GivenLines
  <2> HIDE DEF h
  <2>3. IsFiniteSet(UNION {h[r] : r \in R})
    BY <1>1, <2>1, <2>2, FamilyIsFinite
  <2>4. QED BY <2>2, <2>3, Zenon
<1>3. \A r \in R : RefundTotal(r) \in Int
  BY RefundTotalsAreNats
<1>4. \A f \in GivenLines(R) : f.refund \in Int
  BY WhatIsGiven DEF GivenLines
<1>5. QED BY <1>1, <1>2, <1>3, <1>4 DEF RefundTotals, LineRefunds

LEMMA RowsOfReportAdd ==
  ASSUME NEW r, r.sales \in SUBSET Receipts, r.refunds \in SUBSET Refunds
  PROVE  RowsAddUp(r)
<1> DEFINE S == r.sales
           R == r.refunds
<1>1. /\ IsFiniteSet(S) /\ IsFiniteSet(SoldLines(S))
      /\ SaleTotals(S) \in [S -> Int] /\ LineTotals(S) \in [SoldLines(S) -> Int]
  BY SalesAreFinite
<1>2. /\ IsFiniteSet(R) /\ IsFiniteSet(GivenLines(R))
      /\ RefundTotals(R) \in [R -> Int] /\ LineRefunds(R) \in [GivenLines(R) -> Int]
  BY ReturnsAreFinite
<1> DEFINE totals == SumOf(SaleTotals(S)) - SumOf(RefundTotals(R))
           lines == SumOf(LineTotals(S)) - SumOf(LineRefunds(R))
<1> HIDE DEF S, R
<1>3. ASSUME NEW key, DOMAIN key = S, NEW other, DOMAIN other = R
      PROVE  SumOf(Merged(Totals(key, SaleTotals(S)), Totals(other, RefundTotals(R)))) = totals
  BY <1>1, <1>2, <1>3, MergedRowsAdd
<1>4. ASSUME NEW key, DOMAIN key = SoldLines(S), NEW other, DOMAIN other = GivenLines(R)
      PROVE  SumOf(Merged(Totals(key, LineTotals(S)), Totals(other, LineRefunds(R)))) = lines
  BY <1>1, <1>2, <1>4, MergedRowsAdd
<1> HIDE DEF totals, lines
<1>5. SumOf(Merged(SalesSummary(S), RefundsSummary(R))) = totals
  BY <1>3 DEF SalesSummary, RefundsSummary
<1>6. SumOf(Merged(Branches(S), ReturnBranches(R))) = totals
  BY <1>3 DEF Branches, ReturnBranches
<1>7. /\ SumOf(Merged(SalesDaily(S), RefundsDaily(R))) = totals
      /\ SumOf(Merged(SalesByCashier(S), RefundsByCashier(R))) = totals
      /\ SumOf(Merged(SalesByChannel(S), RefundsByChannel(R))) = totals
  BY <1>3 DEF SalesDaily, RefundsDaily, SalesByCashier, RefundsByCashier, SalesByChannel,
     RefundsByChannel
<1>8. /\ SumOf(Merged(SalesByProduct(S), RefundsByProduct(R))) = lines
      /\ SumOf(Merged(SalesByProductType(S), RefundsByProductType(R))) = lines
      /\ SumOf(Merged(SalesByCategory(S), RefundsByCategory(R))) = lines
  BY <1>4 DEF SalesByProduct, RefundsByProduct, SalesByProductType, RefundsByProductType,
     SalesByCategory, RefundsByCategory
<1>9. ASSUME NEW k \in DOMAIN SalesByProduct(S)
      PROVE  SalesByProduct(S)[k]
               = SumOf(Restrict(SalesByVariant(S),
                       {v \in DOMAIN SalesByVariant(S) : <<v[2], v[3]>> = k}))
  <2> DEFINE key == [f \in SoldLines(S) |->
                        <<f.line.variant, f.line.product, Sold[f.id].currency>>]
             product == [f \in SoldLines(S) |-> <<f.line.product, Sold[f.id].currency>>]
             Q == {v \in Range(key) : <<v[2], v[3]>> = k}
  <2>1. \A f \in SoldLines(S) : key[f] \in Q <=> product[f] = k
    BY DEF Range
  <2>2. DOMAIN key = SoldLines(S) /\ DOMAIN product = SoldLines(S)
    OBVIOUS
  <2>3. /\ SalesByVariant(S) = Totals(key, LineTotals(S))
        /\ SalesByProduct(S) = Totals(product, LineTotals(S))
    BY DEF SalesByVariant, SalesByProduct
  <2> HIDE DEF key, product
  <2>4. k \in Range(product) /\ DOMAIN SalesByVariant(S) = Range(key)
    BY <2>3 DEF Totals
  <2>5. SumOf(Restrict(Totals(key, LineTotals(S)), Q))
          = Part(LineTotals(S), {f \in SoldLines(S) : key[f] \in Q})
    BY <1>1, <2>2, SomeRowsAdd
  <2>6. Totals(product, LineTotals(S))[k]
          = Part(LineTotals(S), {f \in SoldLines(S) : product[f] = k})
    BY <2>2, <2>4, RowValue
  <2>7. {f \in SoldLines(S) : key[f] \in Q} = {f \in SoldLines(S) : product[f] = k}
    BY <2>1
  <2>8. {v \in DOMAIN SalesByVariant(S) : <<v[2], v[3]>> = k} = Q
    BY <2>4
  <2> HIDE DEF Q
  <2>9. QED BY <2>3, <2>5, <2>6, <2>7, <2>8, Zenon
<1>10. ASSUME NEW d \in Dimensions \ {"tag"}
       PROVE  SumOf(Breakdown(d, r))
                = IF d \in {"day", "cashier", "channel"} THEN totals ELSE lines
  BY <1>7, <1>8 DEF Dimensions, Breakdown, SalesBy, RefundsBy, S, R
<1>11. SumOf(BranchRows(r)) = totals
  BY <1>6 DEF BranchRows, S, R
<1>12. QED BY <1>5, <1>9, <1>10, <1>11 DEF RowsAddUp, S, R, lines

LEMMA PartGrows ==
  ASSUME NEW D, IsFiniteSet(D), NEW f \in [D -> Nat], NEW B \in SUBSET D, NEW A \in SUBSET B
  PROVE  Part(f, A) <= Part(f, B)
<1> DEFINE C == B \ A
           g == Restrict(f, C)
<1>1. A \cap C = {} /\ A \cup C = B /\ A \in SUBSET D /\ C \in SUBSET D /\ f \in [D -> Int]
  OBVIOUS
<1>2. g \in [C -> Nat] /\ IsFiniteSet(C)
  BY FS_Subset DEF Restrict
<1> HIDE DEF C, g
<1>3. Part(f, C) \in Nat
  <2>1. SumOf(g) \in Nat
    BY <1>2, SumOfNats
  <2>2. QED BY <2>1 DEF Part, g
<1>4. Part(f, A \cup C) = Part(f, A) + Part(f, C) /\ Part(f, A) \in Int
  <2>1. Part(f, A \cup C) = Part(f, A) + Part(f, C)
    BY <1>1, SumOfApart
  <2>2. QED BY <1>1, <2>1, PartFacts
<1>5. Part(f, B) = Part(f, A) + Part(f, C)
  BY <1>1, <1>4, Zenon
<1>6. QED BY <1>3, <1>4, <1>5

Back == RefundTotals(Refunds)
BackFor(R, s) == Part(Back, {g \in R : Given[g].sale = s})

\* What is given back for each sale is within its total.
WithinTotals(R) == \A s \in Receipts : BackFor(R, s) <= Sold[s].total

LEMMA BackFacts ==
  /\ IsFiniteSet(Refunds) /\ Back \in [Refunds -> Nat] /\ Back \in [Refunds -> Int]
  /\ \A r \in Refunds : Back[r] = RefundTotal(r)
  /\ \A R \in SUBSET Refunds : RefundTotals(R) = Restrict(Back, R)
  BY ReportAssumption, RefundTotalsAreNats DEF Back, RefundTotals, Restrict

LEMMA FewerFit ==
  ASSUME NEW R \in SUBSET Refunds, WithinTotals(R), NEW Q \in SUBSET R
  PROVE  WithinTotals(Q)
<1> SUFFICES ASSUME NEW s \in Receipts PROVE BackFor(Q, s) <= Sold[s].total
  BY DEF WithinTotals
<1> DEFINE A == {g \in Q : Given[g].sale = s}
           B == {g \in R : Given[g].sale = s}
<1>1. A \in SUBSET B /\ B \in SUBSET Refunds /\ A \in SUBSET Refunds
  OBVIOUS
<1>2. Part(Back, B) <= Sold[s].total
  BY DEF WithinTotals, BackFor
<1> HIDE DEF A, B
<1>3. Part(Back, A) <= Part(Back, B)
  BY <1>1, BackFacts, PartGrows
<1>4. Part(Back, A) \in Int /\ Part(Back, B) \in Int /\ Sold[s].total \in Int
  <2>1. \A T \in SUBSET Refunds : Part(Back, T) \in Int
    BY BackFacts, PartFacts
  <2>2. QED BY <1>1, <2>1, WhatIsSold
<1>5. QED BY <1>2, <1>3, <1>4 DEF BackFor, A

\* One more that fits.
LEMMA OneMoreFits ==
  ASSUME booked \subseteq Facts, WithinTotals(booked \cap Refunds),
         NEW r \in Refunds, r \notin booked, Fits(r)
  PROVE  WithinTotals((booked \cup {r}) \cap Refunds)
<1> SUFFICES ASSUME NEW s \in Receipts
             PROVE  BackFor((booked \cup {r}) \cap Refunds, s) <= Sold[s].total
  BY DEF WithinTotals
<1> DEFINE A == {g \in booked \cap Refunds : Given[g].sale = s}
           B == {g \in (booked \cup {r}) \cap Refunds : Given[g].sale = s}
<1>1. A \in SUBSET Refunds /\ r \in Refunds \ A
  OBVIOUS
<1>2. CASE Given[r].sale = s
  <2>1. SumOf(RefundTotals(A)) + RefundTotal(r) <= Sold[s].total
    BY <1>2 DEF Fits, SaleOf
  <2>2. B = A \cup {r}
    BY <1>2
  <2> HIDE DEF A, B
  <2>3. Part(Back, A \cup {r}) = Part(Back, A) + Back[r]
    BY <1>1, BackFacts, PartFacts
  <2>4. SumOf(RefundTotals(A)) = Part(Back, A) /\ Back[r] = RefundTotal(r)
    BY <1>1, BackFacts, Zenon DEF Part
  <2>5. Part(Back, A \cup {r}) <= Sold[s].total
    BY <2>1, <2>3, <2>4
  <2>6. Part(Back, B) <= Sold[s].total
    BY <2>2, <2>5, Zenon
  <2>7. QED BY <2>6 DEF BackFor, B
<1>3. CASE Given[r].sale # s
  <2>1. B = A
    BY <1>3
  <2>2. Part(Back, A) <= Sold[s].total
    BY DEF WithinTotals, BackFor
  <2> HIDE DEF A, B
  <2>3. QED BY <2>1, <2>2, Zenon DEF BackFor, B
<1>4. QED BY <1>2, <1>3

\* No row counts more given back than sold.
LEMMA RowsFollow ==
  ASSUME NEW S \in SUBSET Receipts, NEW R \in SUBSET Refunds, WithinTotals(R),
         {Given[g].sale : g \in R} \subseteq S, NEW key, DOMAIN key = S,
         NEW other, other = [g \in R |-> key[Given[g].sale]],
         NEW k \in DOMAIN Merged(Totals(key, SaleTotals(S)), Totals(other, RefundTotals(R)))
  PROVE  Merged(Totals(key, SaleTotals(S)), Totals(other, RefundTotals(R)))[k] >= 0
<1> DEFINE sold == SaleTotals(S)
           back == RefundTotals(R)
           A == {s \in S : key[s] = k}
           B == {g \in R : other[g] = k}
           f == Restrict(sold, A)
           h == Restrict(back, B)
           sale == [g \in B |-> Given[g].sale]
           rows == Totals(sale, h)
           e == [s \in A |-> At(rows, s)]
<1>1. /\ IsFiniteSet(S) /\ sold \in [S -> Int] /\ IsFiniteSet(R) /\ back \in [R -> Int]
  BY SalesAreFinite, ReturnsAreFinite
<1>2. \A g \in R : Given[g].sale \in S /\ other[g] = key[Given[g].sale]
  OBVIOUS
<1>3. DOMAIN other = R
  OBVIOUS
<1>4. k \in Range(key)
  BY <1>2 DEF Merged, Totals, Range
<1>5. Merged(Totals(key, sold), Totals(other, back))[k] = Part(sold, A) - Part(back, B)
  <2>1. At(Totals(key, sold), k) = Part(sold, A)
    BY <1>4, RowValue DEF At, Totals
  <2>2. At(Totals(other, back), k) = Part(back, B)
    <3>1. CASE k \in Range(other)
      BY <1>3, <3>1, RowValue DEF At, Totals
    <3>2. CASE k \notin Range(other)
      <4>1. B = {}
        BY <1>3, <3>2 DEF Range
      <4>2. Part(back, {}) = 0
        BY <1>1, PartFacts
      <4>3. k \notin DOMAIN Totals(other, back)
        BY <3>2 DEF Totals
      <4> HIDE DEF back, B
      <4>4. Part(back, B) = 0
        BY <4>1, <4>2, Zenon
      <4>5. QED BY <4>3, <4>4 DEF At
    <3>3. QED BY <3>1, <3>2
  <2>3. QED BY <2>1, <2>2 DEF Merged
<1>6. IsFiniteSet(A) /\ IsFiniteSet(B) /\ f \in [A -> Int] /\ h \in [B -> Int]
  <2>1. IsFiniteSet(A) /\ IsFiniteSet(B)
    BY <1>1, FS_Subset
  <2> HIDE DEF sold, back
  <2>2. QED BY <1>1, <2>1 DEF Restrict
<1>7. Range(sale) \subseteq A /\ DOMAIN sale = B
  BY <1>2 DEF Range
<1>8. rows \in [Range(sale) -> Int] /\ SumOf(rows) = SumOf(h)
  <2> HIDE DEF sale, h
  <2>1. QED BY <1>6, <1>7, RowsAdd
<1>9. e \in [A -> Int] /\ SumOf(e) = SumOf(rows)
  <2> DEFINE K == Range(sale)
  <2>1. IsFiniteSet(A) /\ K \subseteq A /\ rows \in [K -> Int]
    BY <1>6, <1>7, <1>8
  <2> HIDE DEF rows, A, K
  <2>2. QED BY <2>1, SumExtends
<1>10. ASSUME NEW s \in A PROVE e[s] <= f[s] + 0
  <2>1. f[s] = Sold[s].total /\ Sold[s].total \in Nat
    BY WhatIsSold DEF Restrict, SaleTotals
  <2>2. CASE s \in Range(sale)
    <3> DEFINE C == {g \in R : Given[g].sale = s}
    <3>1. {g \in B : sale[g] = s} = C
      BY <1>2
    <3>2. Restrict(h, C) = Restrict(Back, C)
      <4>1. \A g \in C : g \in B /\ back[g] = Back[g]
        BY <1>2 DEF Back, RefundTotals
      <4> HIDE DEF C, back, B
      <4>2. QED BY <4>1 DEF Restrict
    <3>3. rows[s] = Part(h, {g \in B : sale[g] = s})
      <4> HIDE DEF h, sale
      <4>1. Totals(sale, h)[s] = Part(h, {g \in DOMAIN sale : sale[g] = s})
        BY <2>2 DEF Totals, Part
      <4>2. QED BY <1>7, <4>1, Zenon
    <3>4. Part(Back, C) <= Sold[s].total
      BY DEF WithinTotals, BackFor
    <3>5. e[s] = rows[s]
      <4> HIDE DEF rows
      <4>1. QED BY <1>8, <2>2 DEF At
    <3>6. rows[s] \in Int
      <4> HIDE DEF rows
      <4>1. QED BY <1>8, <2>2
    <3> HIDE DEF C, h, B, sale, rows, e
    <3>7. rows[s] = Part(Back, C)
      BY <3>1, <3>2, <3>3, Zenon DEF Part
    <3>8. QED BY <2>1, <3>4, <3>5, <3>6, <3>7
  <2>3. CASE s \notin Range(sale)
    <3>1. e[s] = 0
      <4> HIDE DEF rows
      <4>1. QED BY <1>8, <2>3 DEF At
    <3>2. QED BY <2>1, <3>1
  <2>4. QED BY <2>2, <2>3
<1> HIDE DEF e, f, rows, h, A, B, sold, back
<1>11. SumOf(e) <= SumOf(f) + 0 * Cardinality(A)
  BY <1>6, <1>9, <1>10, SumNear
<1>12. SumOf(f) \in Int /\ SumOf(h) \in Int /\ Cardinality(A) \in Nat
  BY <1>6, PartFacts, FS_CardinalityType
<1>13. Part(sold, A) = SumOf(f) /\ Part(back, B) = SumOf(h)
  BY DEF Part, f, h
<1>14. Part(sold, A) - Part(back, B) >= 0
  BY <1>8, <1>9, <1>11, <1>12, <1>13
<1>15. QED BY <1>5, <1>14 DEF sold, back

\* What is paid for one sale, by whatever methods.
LEMMA PaidForOne ==
  ASSUME NEW S \in SUBSET Receipts, NEW s \in S
  PROVE  Part([f \in Payments(S) |-> f.pay.amount], {f \in Payments(S) : f.id = s})
           = SumOf([p \in Sold[s].pays |-> p.amount])
<1> DEFINE paid == [f \in Payments(S) |-> f.pay.amount]
           D == Sold[s].pays
           E == {f \in Payments(S) : f.id = s}
           v == [p \in D |-> p.amount]
           h == [f \in E |-> f.pay]
<1>1. IsFiniteSet(E)
  BY SalesAreFinite, FS_Subset
<1>2. v \in [D -> Int]
  BY WhatIsSold
<1>3. E = {[id |-> s, pay |-> p] : p \in D}
  BY DEF Payments
<1>4. h \in Bijection(E, D)
  <2>0. \A d \in D : [id |-> s, pay |-> d] \in E /\ h[[id |-> s, pay |-> d]] = d
    BY <1>3
  <2>1. h \in [E -> D] /\ \A d \in D : \E f \in E : h[f] = d
    <3>1. \A f \in E : f.pay \in D
      BY <1>3
    <3>2. h \in [E -> D]
      BY <3>1
    <3> HIDE DEF h, E, D
    <3>3. QED BY <2>0, <3>2
  <2>2. \A f, g \in E : h[f] = h[g] => f = g
    BY <1>3
  <2> HIDE DEF h, E, D
  <2>3. QED BY <2>1, <2>2 DEF Bijection, Injection, Surjection, IsInjective
<1>5. Restrict(paid, E) = [f \in E |-> v[h[f]]]
  <2>1. \A f \in E : f \in Payments(S) /\ f.pay \in D
    BY <1>3
  <2>2. QED BY <2>1 DEF Restrict
<1> HIDE DEF paid, D, E, v, h
<1>6. SumOf([f \in E |-> v[h[f]]]) = SumOf(v)
  BY <1>1, <1>2, <1>4, SumRenamed
<1>7. Part(paid, E) = SumOf(v)
  BY <1>5, <1>6, Zenon DEF Part
<1>8. QED BY <1>7, Zenon DEF paid, E, v, D

LEMMA PaymentsOfReportMatch ==
  ASSUME NEW r, r.sales \in SUBSET Receipts
  PROVE  PaymentsMatch(r)
<1> DEFINE S == r.sales
           totals == SalesSummary(S)
           paid == SalesPayments(S)
<1> SUFFICES ASSUME NEW c \in DOMAIN totals
             PROVE  LET n == Cardinality({s \in S : Sold[s].currency = c}) IN
                    SumOf(Restrict(paid, {k \in DOMAIN paid : k[2] = c})) - totals[c] \in -n..n
  BY DEF PaymentsMatch
<1> HIDE DEF S
<1>0. S \in SUBSET Receipts
  BY DEF S
<1> DEFINE A == {s \in S : Sold[s].currency = c}
           B == {f \in Payments(S) : Sold[f.id].currency = c}
           what == [f \in Payments(S) |-> f.pay.amount]
           key == [f \in Payments(S) |-> <<f.pay.method, Sold[f.id].currency>>]
           Q == {k \in Range(key) : k[2] = c}
           g == Restrict(what, B)
           id == [f \in B |-> f.id]
           rows == Totals(id, g)
           e == [s \in A |-> At(rows, s)]
           t == Restrict(SaleTotals(S), A)
<1>1. /\ IsFiniteSet(S) /\ SaleTotals(S) \in [S -> Int]
      /\ IsFiniteSet(Payments(S)) /\ what \in [Payments(S) -> Int]
  BY <1>0, SalesAreFinite
<1>2. totals[c] = SumOf(t)
  <2> DEFINE currency == [s \in S |-> Sold[s].currency]
  <2>1. totals = Totals(currency, SaleTotals(S)) /\ DOMAIN currency = S
    BY DEF SalesSummary
  <2>2. {s \in DOMAIN currency : currency[s] = c} = A
    OBVIOUS
  <2>3. c \in Range(currency)
    BY <2>1 DEF Totals
  <2> HIDE DEF currency, totals, A
  <2>4. Totals(currency, SaleTotals(S))[c]
          = Part(SaleTotals(S), {s \in DOMAIN currency : currency[s] = c})
    BY <2>3 DEF Totals, Part
  <2>5. QED BY <2>1, <2>2, <2>4, Zenon DEF Part, t
<1>3. SumOf(Restrict(paid, {k \in DOMAIN paid : k[2] = c})) = SumOf(g)
  <2>1. paid = Totals(key, what) /\ DOMAIN paid = Range(key) /\ DOMAIN key = Payments(S)
    BY DEF SalesPayments, Totals
  <2>2. \A f \in Payments(S) : key[f] \in Q <=> Sold[f.id].currency = c
    BY DEF Range
  <2>3. {k \in DOMAIN paid : k[2] = c} = Q
    BY <2>1
  <2> HIDE DEF key, what, paid
  <2>4. SumOf(Restrict(Totals(key, what), Q)) = Part(what, {f \in Payments(S) : key[f] \in Q})
    BY <1>1, <2>1, SomeRowsAdd
  <2> HIDE DEF Q
  <2>5. {f \in Payments(S) : key[f] \in Q} = B
    BY <2>2
  <2> HIDE DEF B
  <2>6. QED BY <2>1, <2>3, <2>4, <2>5, Zenon DEF Part, g
<1>4. IsFiniteSet(A) /\ IsFiniteSet(B) /\ t \in [A -> Int] /\ g \in [B -> Int]
  <2>1. IsFiniteSet(A) /\ IsFiniteSet(B)
    BY <1>1, FS_Subset
  <2> HIDE DEF what
  <2>2. QED BY <1>1, <2>1 DEF Restrict
<1>5. DOMAIN id = B /\ Range(id) \subseteq A
  <2>1. \A f \in Payments(S) : f.id \in S
    BY DEF Payments
  <2>2. \A f \in B : id[f] \in A
    BY <2>1
  <2>3. DOMAIN id = B
    OBVIOUS
  <2> HIDE DEF id
  <2>4. QED BY <2>2, <2>3 DEF Range
<1>6. rows \in [Range(id) -> Int] /\ SumOf(rows) = SumOf(g)
  <2> HIDE DEF id, g
  <2>1. QED BY <1>4, <1>5, RowsAdd
<1>7. e \in [A -> Int] /\ SumOf(e) = SumOf(rows)
  <2> DEFINE K == Range(id)
  <2>1. IsFiniteSet(A) /\ K \subseteq A /\ rows \in [K -> Int]
    BY <1>4, <1>5, <1>6
  <2> HIDE DEF rows, A, K
  <2>2. QED BY <2>1, SumExtends
<1>8. ASSUME NEW s \in A PROVE e[s] <= t[s] + 1 /\ t[s] <= e[s] + 1
  <2> DEFINE C == {f \in Payments(S) : f.id = s}
             mine == SumOf([p \in Sold[s].pays |-> p.amount])
  <2>1. t[s] = Sold[s].total /\ t[s] \in Int
    <3>1. t[s] = Sold[s].total
      BY DEF Restrict, SaleTotals
    <3>2. Sold[s].total \in Int
      BY <1>0, WhatIsSold
    <3>3. QED BY <3>1, <3>2
  <2>2. mine - Sold[s].total \in -1..1
    BY <1>0, WhatIsPaid
  <2>3. Part(what, C) = mine
    BY <1>0, PaidForOne
  <2>4. {f \in B : id[f] = s} = C
    OBVIOUS
  <2>5. Restrict(g, C) = Restrict(what, C)
    <3>1. \A f \in C : f \in B
      OBVIOUS
    <3> HIDE DEF what, C, B
    <3>2. QED BY <3>1 DEF Restrict
  <2>6. Part(g, C) = mine
    <3> HIDE DEF g, what, C, mine
    <3>1. QED BY <2>3, <2>5, Zenon DEF Part
  <2>7. e[s] = mine
    <3>1. CASE s \in Range(id)
      <4>1. Totals(id, g)[s] = Part(g, {f \in DOMAIN id : id[f] = s})
        <5> HIDE DEF g, id
        <5>1. QED BY <3>1, RowValue
      <4>2. e[s] = rows[s]
        <5> HIDE DEF rows
        <5>1. QED BY <1>6, <3>1 DEF At
      <4> HIDE DEF e, mine, C, id, g
      <4>3. QED BY <1>5, <2>4, <2>6, <4>1, <4>2, Zenon
    <3>2. CASE s \notin Range(id)
      <4>1. C = {}
        <5>1. \A f \in B : id[f] # s
          BY <3>2 DEF Range
        <5> HIDE DEF id, C
        <5>2. QED BY <2>4, <5>1
      <4>2. Part(g, {}) = 0
        <5> HIDE DEF g
        <5>1. QED BY <1>4, PartFacts
      <4>3. e[s] = 0
        <5> HIDE DEF rows
        <5>1. QED BY <1>6, <3>2 DEF At
      <4> HIDE DEF e, mine, C, g
      <4>4. QED BY <2>6, <4>1, <4>2, <4>3, Zenon
    <3>3. QED BY <3>1, <3>2
  <2>8. e[s] \in Int
    BY <1>7
  <2> HIDE DEF e, t, mine
  <2>9. QED BY <2>1, <2>2, <2>7, <2>8
<1> DEFINE n == Cardinality(A)
<1> HIDE DEF e, t, rows, g, A, paid, totals
<1>9. SumOf(e) <= SumOf(t) + 1 * n /\ SumOf(t) <= SumOf(e) + 1 * n
  BY <1>4, <1>7, <1>8, SumNear
<1>10. SumOf(e) \in Int /\ SumOf(t) \in Int /\ n \in Nat
  BY <1>4, <1>7, PartFacts, FS_CardinalityType
<1>11. SumOf(e) - SumOf(t) \in -n..n
  BY <1>9, <1>10
<1>12. SumOf(Restrict(paid, {k \in DOMAIN paid : k[2] = c})) - totals[c] \in -n..n
  BY <1>2, <1>3, <1>6, <1>7, <1>11, Zenon
<1>13. QED BY <1>12 DEF A

LEMMA NormalIsInt ==
  ASSUME NEW amount \in Nat, NEW rate \in Nat, NEW currency
  PROVE  Normal(amount, currency, rate) \in Int
<1>1. RateUnit \in Nat \ {0}
  BY ReportAssumption, Zenon
<1>2. 2 * amount * rate + RateUnit \in Int /\ 2 * RateUnit \in Nat \ {0}
  <2>1. \A a, b \in Nat : 2 * a * b \in Int
    OBVIOUS
  <2>2. QED BY <1>1, <2>1
<1>3. (2 * amount * rate + RateUnit) \div (2 * RateUnit) \in Int
  BY <1>2
<1>4. QED BY <1>3 DEF Normal

\* Rounding moves an amount by half a unit at most.
LEMMA NormalIsNear ==
  ASSUME NEW amount \in Nat, NEW rate \in Nat
  PROVE  LET n == Normal(amount, "USD", rate) IN
         /\ (2 * RateUnit) * n <= 2 * amount * rate + RateUnit
         /\ 2 * amount * rate <= (2 * RateUnit) * n + RateUnit
<1> DEFINE p == 2 * amount * rate
           q == 2 * RateUnit
<1>1. RateUnit \in Nat \ {0} /\ q \in Nat \ {0}
  <2>1. RateUnit \in Nat \ {0}
    BY ReportAssumption, Zenon
  <2>2. QED BY <2>1
<1>2. p \in Int
  <2>1. \A a, b \in Nat : 2 * a * b \in Int
    OBVIOUS
  <2>2. QED BY <2>1
<1>3. Normal(amount, "USD", rate) = (p + RateUnit) \div q
  BY DEF Normal
<1> HIDE DEF p
<1>4. \A x \in Int, y \in Nat \ {0} : y * (x \div y) <= x /\ x < y * (x \div y) + y
  OBVIOUS
<1> DEFINE m == (p + RateUnit) \div q
<1>5. p + RateUnit \in Int
  BY <1>1, <1>2
<1>6. q * m <= p + RateUnit /\ p + RateUnit < q * m + q /\ q * m \in Int
  <2> HIDE DEF q
  <2>1. QED BY <1>1, <1>4, <1>5
<1>7. p <= q * m + RateUnit
  BY <1>1, <1>2, <1>6
<1>8. QED BY <1>3, <1>6, <1>7 DEF p

LEMMA SumScales ==
  ASSUME NEW D, IsFiniteSet(D), NEW f \in [D -> Int], NEW c \in Int
  PROVE  /\ [x \in D |-> c * f[x]] \in [D -> Int]
         /\ SumOf([x \in D |-> c * f[x]]) = c * SumOf(f)
<1> DEFINE g == [x \in D |-> c * f[x]]
           P == {T \in SUBSET D : Part(g, T) = c * Part(f, T)}
<1>0. \A a, b \in Int : c * a \in Int /\ c * (a + b) = c * a + c * b
  OBVIOUS
<1>1. g \in [D -> Int] /\ \A x \in D : g[x] = c * f[x]
  <2>1. \A x \in D : f[x] \in Int
    OBVIOUS
  <2>2. \A x \in D : c * f[x] \in Int
    BY <1>0, <2>1
  <2>3. QED BY <2>2
<1> HIDE DEF g
<1>2. {} \in P
  <2>1. Part(f, {}) = 0 /\ Part(g, {}) = 0
    BY <1>1, PartFacts
  <2>2. QED BY <2>1
<1>3. ASSUME NEW T \in SUBSET D, NEW x \in D \ T, T \in P PROVE T \cup {x} \in P
  <2>1. /\ Part(f, T) \in Int /\ Part(f, T \cup {x}) = Part(f, T) + f[x]
        /\ Part(g, T \cup {x}) = Part(g, T) + g[x] /\ f[x] \in Int
    BY <1>1, PartFacts
  <2>2. Part(g, T) = c * Part(f, T)
    BY <1>3
  <2>3. c * (Part(f, T) + f[x]) = c * Part(f, T) + c * f[x]
    BY <1>0, <2>1
  <2>4. g[x] = c * f[x]
    BY <1>1
  <2>5. Part(g, T \cup {x}) = c * Part(f, T \cup {x})
    BY <2>1, <2>2, <2>3, <2>4, Zenon
  <2>6. QED BY <2>5
<1>4. D \in P
  <2> HIDE DEF P
  <2>1. QED BY <1>2, <1>3, FiniteInduction
<1>5. SumOf(g) = Part(g, D) /\ SumOf(f) = Part(f, D)
  BY <1>1, PartFacts
<1>6. SumOf(g) = c * SumOf(f)
  BY <1>4, <1>5
<1>7. QED BY <1>1, <1>6 DEF g

LEMMA LeastAndGreatest ==
  ASSUME NEW T, IsFiniteSet(T), T # {}, T \subseteq Int
  PROVE  /\ Min(T) \in T /\ Max(T) \in T
         /\ \A x \in T : Min(T) <= x /\ x <= Max(T)
<1> DEFINE P == {U \in SUBSET T :
                    U # {} => \E lo, hi \in U : \A x \in U : lo <= x /\ x <= hi}
<1>1. {} \in P
  OBVIOUS
<1>2. ASSUME NEW U \in SUBSET T, NEW x \in T \ U, U \in P PROVE U \cup {x} \in P
  <2>1. CASE U = {}
    BY <2>1
  <2>2. CASE U # {}
    <3>1. PICK lo, hi \in U : \A y \in U : lo <= y /\ y <= hi
      BY <1>2, <2>2
    <3>2. lo \in Int /\ hi \in Int /\ x \in Int /\ U \subseteq Int
      OBVIOUS
    <3> DEFINE low == IF x <= lo THEN x ELSE lo
               high == IF hi <= x THEN x ELSE hi
    <3>3. low \in U \cup {x} /\ high \in U \cup {x}
      OBVIOUS
    <3>4. \A y \in U \cup {x} : low <= y /\ y <= high
      BY <3>1, <3>2
    <3> HIDE DEF low, high
    <3>5. QED BY <3>3, <3>4
  <2>3. QED BY <2>1, <2>2
<1>3. T \in P
  <2> HIDE DEF P
  <2>1. QED BY <1>1, <1>2, FiniteInduction
<1>4. PICK lo, hi \in T : \A x \in T : lo <= x /\ x <= hi
  BY <1>3
<1>5. Min(T) \in T /\ \A x \in T : Min(T) <= x
  BY <1>4 DEF Min
<1>6. Max(T) \in T /\ \A x \in T : x <= Max(T)
  BY <1>4 DEF Max
<1>7. QED BY <1>5, <1>6

LEMMA NormalTyped ==
  ASSUME NEW S \in SUBSET Receipts, NEW R \in SUBSET Refunds
  PROVE  /\ NormalSales(S) \in [S -> Int] /\ NormalGiven(R) \in [R -> Int]
         /\ NormalLines(S) \in [SoldLines(S) -> Int]
         /\ NormalLinesGiven(R) \in [GivenLines(R) -> Int]
<1>1. \A s \in S : Normal(Sold[s].total, Sold[s].currency, Sold[s].rate) \in Int
  BY WhatIsSold, NormalIsInt
<1>2. \A r \in R : Normal(RefundTotal(r), SaleOf(r).currency, Given[r].rate) \in Int
  BY WhatIsGiven, RefundTotalsAreNats, NormalIsInt
<1>3. ASSUME NEW f \in SoldLines(S)
      PROVE  Normal(f.line.total, Sold[f.id].currency, Sold[f.id].rate) \in Int
  <2>1. PICK s \in S : \E l \in Sold[s].lines : f = [id |-> s, line |-> l]
    BY DEF SoldLines
  <2>2. f.line.total \in Nat /\ Sold[f.id].rate \in Nat
    BY <2>1, WhatIsSold
  <2>3. QED BY <2>2, NormalIsInt
<1>4. ASSUME NEW f \in GivenLines(R)
      PROVE  Normal(f.refund, SaleOf(f.id).currency, Given[f.id].rate) \in Int
  <2>1. PICK r \in R : \E g \in Given[r].lines :
                          f = [id |-> r, line |-> g.line, refund |-> g.refund]
    BY DEF GivenLines
  <2>2. f.refund \in Nat /\ Given[f.id].rate \in Nat
    BY <2>1, WhatIsGiven
  <2>3. QED BY <2>2, NormalIsInt
<1>5. NormalSales(S) \in [S -> Int]
  BY <1>1 DEF NormalSales
<1>6. NormalGiven(R) \in [R -> Int]
  BY <1>2 DEF NormalGiven
<1>7. NormalLines(S) \in [SoldLines(S) -> Int]
  BY <1>3 DEF NormalLines
<1>8. NormalLinesGiven(R) \in [GivenLines(R) -> Int]
  BY <1>4 DEF NormalLinesGiven
<1>9. QED BY <1>5, <1>6, <1>7, <1>8

\* A total in EGP lies between those at the least and at the greatest rate.
LEMMA DollarsBetween ==
  ASSUME NEW S \in SUBSET Receipts, S # {}, \A s \in S : Sold[s].currency = "USD"
  PROVE  LET dollars == SumOf(SaleTotals(S))
             pounds == 2 * RateUnit * NormalizedSummary(S) IN
         /\ pounds >= 2 * dollars * Min(Rates(S)) - RateUnit * Cardinality(S)
         /\ pounds <= 2 * dollars * Max(Rates(S)) + RateUnit * Cardinality(S)
<1> DEFINE lo == Min(Rates(S))
           hi == Max(Rates(S))
           q == 2 * RateUnit
           t == SaleTotals(S)
           n == NormalSales(S)
           low == [s \in S |-> (2 * lo) * t[s]]
           high == [s \in S |-> (2 * hi) * t[s]]
           mid == [s \in S |-> q * n[s]]
<1>1. IsFiniteSet(S) /\ t \in [S -> Int] /\ n \in [S -> Int]
  BY SalesAreFinite, NormalTyped
<1>2. RateUnit \in Nat /\ q \in Int
  <2>1. RateUnit \in Nat
    BY ReportAssumption, Zenon
  <2>2. QED BY <2>1
<1>3. /\ lo \in Nat /\ hi \in Nat
      /\ \A s \in S : lo <= Sold[s].rate /\ Sold[s].rate <= hi
  <2> DEFINE rate == [s \in S |-> Sold[s].rate]
             T == {rate[s] : s \in S}
  <2>1. Rates(S) = T
    BY DEF Rates
  <2>2. T \subseteq Nat /\ T # {}
    BY WhatIsSold
  <2>3. IsFiniteSet(T)
    <3>1. DOMAIN rate = S
      OBVIOUS
    <3> HIDE DEF rate
    <3>2. QED BY <1>1, <3>1, MadeOfIsFinite
  <2>4. \A s \in S : Sold[s].rate \in T
    OBVIOUS
  <2> HIDE DEF T
  <2>5. T \subseteq Int
    BY <2>2
  <2>6. Min(T) \in T /\ Max(T) \in T /\ \A x \in T : Min(T) <= x /\ x <= Max(T)
    BY <2>2, <2>3, <2>5, LeastAndGreatest, Zenon
  <2>7. QED BY <2>1, <2>2, <2>4, <2>6
<1>4. ASSUME NEW s \in S
      PROVE  low[s] <= mid[s] + RateUnit /\ mid[s] <= high[s] + RateUnit
  <2> DEFINE a == Sold[s].total
             b == Sold[s].rate
  <2>1. a \in Nat /\ b \in Nat /\ t[s] = a
    BY WhatIsSold DEF SaleTotals
  <2>2. n[s] = Normal(a, "USD", b)
    BY DEF NormalSales
  <2>3. lo <= b /\ b <= hi
    BY <1>3
  <2> HIDE DEF lo, hi, t, n, a, b, q
  <2>4. (2 * lo) * a <= 2 * a * b /\ 2 * a * b <= (2 * hi) * a /\ 2 * a * b \in Int
    <3>1. \A x, y, z \in Nat : x <= y => (2 * x) * z <= 2 * z * y /\ 2 * z * x <= (2 * y) * z
      OBVIOUS
    <3>2. \A x, y \in Nat : 2 * x * y \in Int /\ (2 * x) * y \in Int
      OBVIOUS
    <3>3. QED BY <1>3, <2>1, <2>3, <3>1, <3>2
  <2>5. /\ q * n[s] <= 2 * a * b + RateUnit /\ 2 * a * b <= q * n[s] + RateUnit
    BY <2>1, <2>2, NormalIsNear DEF q
  <2>6. q * n[s] \in Int /\ (2 * lo) * a \in Int /\ (2 * hi) * a \in Int
    <3>1. \A x, y \in Int : x * y \in Int /\ (2 * x) * y \in Int
      OBVIOUS
    <3>2. n[s] \in Int
      BY <1>1
    <3>3. QED BY <1>2, <1>3, <2>1, <3>1, <3>2
  <2>7. low[s] = (2 * lo) * a /\ high[s] = (2 * hi) * a /\ mid[s] = q * n[s]
    BY <2>1
  <2> HIDE DEF low, high, mid
  <2>8. QED BY <1>2, <2>4, <2>5, <2>6, <2>7
<1>5. 2 * lo \in Int /\ 2 * hi \in Int
  <2> HIDE DEF lo, hi
  <2>1. QED BY <1>3
<1> HIDE DEF lo, hi, q, t, n
<1>6. /\ low \in [S -> Int] /\ SumOf(low) = (2 * lo) * SumOf(t)
      /\ high \in [S -> Int] /\ SumOf(high) = (2 * hi) * SumOf(t)
      /\ mid \in [S -> Int] /\ SumOf(mid) = q * SumOf(n)
  BY <1>1, <1>2, <1>5, SumScales
<1> HIDE DEF low, high, mid
<1> DEFINE c == Cardinality(S)
<1>7. /\ SumOf(low) <= SumOf(mid) + RateUnit * c /\ SumOf(mid) <= SumOf(high) + RateUnit * c
  BY <1>1, <1>2, <1>4, <1>6, SumNear
<1>8. /\ SumOf(low) \in Int /\ SumOf(high) \in Int /\ SumOf(mid) \in Int /\ SumOf(t) \in Int
      /\ c \in Nat
  <2>1. ASSUME NEW f \in [S -> Int] PROVE SumOf(f) \in Int
    <3>1. SumOf(f) = Part(f, S) /\ Part(f, S) \in Int
      BY <1>1, PartFacts
    <3>2. QED BY <3>1
  <2>2. c \in Nat
    BY <1>1, FS_CardinalityType
  <2>3. QED BY <1>1, <1>6, <2>1, <2>2
<1> HIDE DEF c
<1>9. RateUnit * c \in Int
  BY <1>2, <1>8
<1>10. 2 * SumOf(t) * lo = (2 * lo) * SumOf(t) /\ 2 * SumOf(t) * hi = (2 * hi) * SumOf(t)
  <2>1. \A x, y \in Int : 2 * x * y = (2 * y) * x
    OBVIOUS
  <2>2. QED BY <1>3, <1>8, <2>1
<1>11. SumOf(mid) >= SumOf(low) - RateUnit * c /\ SumOf(mid) <= SumOf(high) + RateUnit * c
  <2> DEFINE m == RateUnit * c
  <2> HIDE DEF m
  <2>1. SumOf(low) <= SumOf(mid) + m /\ SumOf(mid) <= SumOf(high) + m /\ m \in Int
    BY <1>7, <1>9 DEF m
  <2>2. SumOf(mid) >= SumOf(low) - m /\ SumOf(mid) <= SumOf(high) + m
    BY <1>8, <2>1
  <2>3. QED BY <2>2 DEF m
<1>12. QED BY <1>6, <1>10, <1>11, Zenon DEF NormalizedSummary, lo, hi, q, t, n, c

\* Days, products and categories only group what is converted before.
LEMMA GroupingKeepsReport ==
  ASSUME NEW r, r.sales \in SUBSET Receipts, r.refunds \in SUBSET Refunds
  PROVE  GroupingKeepsTotals(r)
<1> DEFINE A == r.sales
           B == r.refunds
           U == {s \in A : Sold[s].currency = "USD"}
<1>1. /\ IsFiniteSet(A) /\ IsFiniteSet(SoldLines(A)) /\ SaleTotals(A) \in [A -> Int]
      /\ IsFiniteSet(B) /\ IsFiniteSet(GivenLines(B))
  BY SalesAreFinite, ReturnsAreFinite
<1>2. /\ NormalSales(A) \in [A -> Int] /\ NormalGiven(B) \in [B -> Int]
      /\ NormalLines(A) \in [SoldLines(A) -> Int]
      /\ NormalLinesGiven(B) \in [GivenLines(B) -> Int]
  BY NormalTyped
<1>3. U \in SUBSET A /\ U \in SUBSET Receipts
  OBVIOUS
<1>4. U # {} => At(SalesSummary(A), "USD") = SumOf(SaleTotals(U))
  <2> SUFFICES ASSUME U # {} PROVE At(SalesSummary(A), "USD") = SumOf(SaleTotals(U))
    OBVIOUS
  <2> DEFINE key == [s \in A |-> Sold[s].currency]
  <2>1. "USD" \in Range(key) /\ DOMAIN key = A /\ {s \in A : key[s] = "USD"} = U
    BY DEF Range
  <2>2. Restrict(SaleTotals(A), U) = SaleTotals(U)
    BY DEF Restrict, SaleTotals
  <2>3. SalesSummary(A) = Totals(key, SaleTotals(A))
    BY DEF SalesSummary
  <2> HIDE DEF key, U
  <2>4. Totals(key, SaleTotals(A))["USD"] = Part(SaleTotals(A), {s \in A : key[s] = "USD"})
    BY <2>1, RowValue
  <2>5. At(SalesSummary(A), "USD") = Totals(key, SaleTotals(A))["USD"]
    BY <2>1, <2>3 DEF At, Totals
  <2>6. QED BY <2>1, <2>2, <2>4, <2>5, Zenon DEF Part
<1>5. \A s \in U : Sold[s].currency = "USD"
  OBVIOUS
<1> HIDE DEF A, B, U
<1>6. SumOf(NormalDays(r)) = NormalizedSummary(A) - NormalizedRefundsSummary(B)
  <2> DEFINE key == [s \in A |-> Sold[s].day]
             other == [g \in B |-> Given[g].day]
  <2>1. /\ NormalDays(r) = Merged(Totals(key, NormalSales(A)), Totals(other, NormalGiven(B)))
        /\ DOMAIN key = A /\ DOMAIN other = B
    BY DEF NormalDays, NormalizedDaily, NormalizedRefundsDaily, A, B
  <2> HIDE DEF key, other
  <2>2. SumOf(Merged(Totals(key, NormalSales(A)), Totals(other, NormalGiven(B))))
          = SumOf(NormalSales(A)) - SumOf(NormalGiven(B))
    BY <1>1, <1>2, <2>1, MergedRowsAdd
  <2>3. QED BY <2>1, <2>2, Zenon DEF NormalizedSummary, NormalizedRefundsSummary
<1> DEFINE lines == SumOf(NormalLines(A)) - SumOf(NormalLinesGiven(B))
<1>7. SumOf(NormalProducts(r)) = lines
  <2> DEFINE key == [f \in SoldLines(A) |-> f.line.product]
             other == [f \in GivenLines(B) |-> f.line.product]
  <2>1. /\ NormalProducts(r)
              = Merged(Totals(key, NormalLines(A)), Totals(other, NormalLinesGiven(B)))
        /\ DOMAIN key = SoldLines(A) /\ DOMAIN other = GivenLines(B)
    BY DEF NormalProducts, ProductsNormalized, ProductsNormalizedRefunds, A, B
  <2> HIDE DEF key, other
  <2>2. SumOf(Merged(Totals(key, NormalLines(A)), Totals(other, NormalLinesGiven(B)))) = lines
    BY <1>1, <1>2, <2>1, MergedRowsAdd
  <2>3. QED BY <2>1, <2>2, Zenon
<1>8. SumOf(NormalCategories(r)) = lines
  <2> DEFINE key == [f \in SoldLines(A) |-> f.line.root]
             other == [f \in GivenLines(B) |-> f.line.root]
  <2>1. /\ NormalCategories(r)
              = Merged(Totals(key, NormalLines(A)), Totals(other, NormalLinesGiven(B)))
        /\ DOMAIN key = SoldLines(A) /\ DOMAIN other = GivenLines(B)
    BY DEF NormalCategories, CategoriesNormalized, CategoriesNormalizedRefunds, A, B
  <2> HIDE DEF key, other
  <2>2. SumOf(Merged(Totals(key, NormalLines(A)), Totals(other, NormalLinesGiven(B)))) = lines
    BY <1>1, <1>2, <2>1, MergedRowsAdd
  <2>3. QED BY <2>1, <2>2, Zenon
<1> HIDE DEF lines
<1>9. ASSUME U # {}
       PROVE  LET dollars == At(SalesSummary(A), "USD")
                  pounds == 2 * RateUnit * NormalizedSummary(U) IN
              /\ pounds >= 2 * dollars * Min(Rates(U)) - RateUnit * Cardinality(U)
              /\ pounds <= 2 * dollars * Max(Rates(U)) + RateUnit * Cardinality(U)
  <2> DEFINE d == SumOf(SaleTotals(U))
             p == 2 * RateUnit * NormalizedSummary(U)
  <2>1. /\ p >= 2 * d * Min(Rates(U)) - RateUnit * Cardinality(U)
        /\ p <= 2 * d * Max(Rates(U)) + RateUnit * Cardinality(U)
    BY <1>3, <1>5, <1>9, DollarsBetween
  <2>2. At(SalesSummary(A), "USD") = d
    BY <1>4, <1>9
  <2> HIDE DEF d
  <2>3. QED BY <2>1, <2>2, Zenon
<1>10. SumOf(NormalProducts(r)) = SumOf(NormalCategories(r))
  BY <1>7, <1>8, Zenon
<1>11. QED BY <1>6, <1>9, <1>10, Zenon DEF GroupingKeepsTotals, A, B, U

LEMMA RefundsOfReportFollow ==
  ASSUME NEW r, r.sales \in SUBSET Receipts, r.refunds \in SUBSET Refunds,
         WithinTotals(r.refunds)
  PROVE  RefundsFollowSales(r)
<1> DEFINE S == r.sales
           R == r.refunds
<1> SUFFICES ASSUME {Given[g].sale : g \in R} \subseteq S
             PROVE  /\ \A d \in {"cashier", "channel"} :
                         \A k \in DOMAIN Breakdown(d, r) : Breakdown(d, r)[k] >= 0
                    /\ \A k \in DOMAIN BranchRows(r) : BranchRows(r)[k] >= 0
  BY DEF RefundsFollowSales
<1> DEFINE Falls(rows) == \A k \in DOMAIN rows : rows[k] >= 0
<1>1. \A g \in R : Given[g].sale \in S
  OBVIOUS
<1>2. S \in SUBSET Receipts /\ R \in SUBSET Refunds /\ WithinTotals(R)
  OBVIOUS
<1> HIDE DEF S, R
<1>3. ASSUME NEW key, DOMAIN key = S, NEW other, other = [g \in R |-> key[Given[g].sale]]
      PROVE  Falls(Merged(Totals(key, SaleTotals(S)), Totals(other, RefundTotals(R))))
  BY <1>1, <1>2, <1>3, RowsFollow
<1>4. Falls(Merged(SalesByCashier(S), RefundsByCashier(R)))
  <2> DEFINE key == [s \in S |-> <<Sold[s].cashier, Sold[s].currency>>]
             other == [g \in R |-> <<SaleOf(g).cashier, SaleOf(g).currency>>]
  <2>1. DOMAIN key = S /\ other = [g \in R |-> key[Given[g].sale]]
    BY <1>1 DEF SaleOf
  <2>2. /\ SalesByCashier(S) = Totals(key, SaleTotals(S))
        /\ RefundsByCashier(R) = Totals(other, RefundTotals(R))
    BY DEF SalesByCashier, RefundsByCashier
  <2> HIDE DEF key, other, Falls
  <2>3. QED BY <1>3, <2>1, <2>2
<1>5. Falls(Merged(SalesByChannel(S), RefundsByChannel(R)))
  <2> DEFINE key == [s \in S |-> <<Sold[s].channel, Sold[s].currency>>]
             other == [g \in R |-> <<SaleOf(g).channel, SaleOf(g).currency>>]
  <2>1. DOMAIN key = S /\ other = [g \in R |-> key[Given[g].sale]]
    BY <1>1 DEF SaleOf
  <2>2. /\ SalesByChannel(S) = Totals(key, SaleTotals(S))
        /\ RefundsByChannel(R) = Totals(other, RefundTotals(R))
    BY DEF SalesByChannel, RefundsByChannel
  <2> HIDE DEF key, other, Falls
  <2>3. QED BY <1>3, <2>1, <2>2
<1>6. Falls(Merged(Branches(S), ReturnBranches(R)))
  <2> DEFINE key == [s \in S |-> Branch(s)]
             other == [g \in R |-> Branch(Given[g].sale)]
  <2>1. DOMAIN key = S /\ other = [g \in R |-> key[Given[g].sale]]
    BY <1>1
  <2>2. /\ Branches(S) = Totals(key, SaleTotals(S))
        /\ ReturnBranches(R) = Totals(other, RefundTotals(R))
    BY DEF Branches, ReturnBranches
  <2> HIDE DEF key, other, Falls
  <2>3. QED BY <1>3, <2>1, <2>2
<1>7. ASSUME NEW d \in {"cashier", "channel"} PROVE Falls(Breakdown(d, r))
  <2>1. Breakdown("cashier", r) = Merged(SalesByCashier(S), RefundsByCashier(R))
    BY DEF Breakdown, SalesBy, RefundsBy, S, R
  <2>2. Breakdown("channel", r) = Merged(SalesByChannel(S), RefundsByChannel(R))
    BY DEF Breakdown, SalesBy, RefundsBy, S, R
  <2> HIDE DEF Falls
  <2>3. CASE d = "cashier"
    BY <1>4, <2>1, <2>3
  <2>4. CASE d = "channel"
    BY <1>5, <2>2, <2>4
  <2>5. QED BY <2>3, <2>4
<1>8. Falls(BranchRows(r))
  BY <1>6 DEF BranchRows, S, R
<1>9. QED BY <1>7, <1>8

-----------------------------------------------------------------------------
(* The figures of a report, whatever its statements found.                 *)

\* What is booked was let through one at a time, and what a report has found
\* was booked.
FiguresInv ==
  /\ ReportsInv /\ booked \subseteq Facts /\ WithinTotals(booked \cap Refunds)
  /\ \A x \in Readers : report[x] # NoReport => report[x].refunds \subseteq booked

LEMMA FiguresInvInit == ReportsInit => FiguresInv
<1> SUFFICES ASSUME ReportsInit PROVE FiguresInv
  OBVIOUS
<1>1. booked = {} /\ \A x \in Readers : report[x] = NoReport
  BY DEF ReportsInit
<1>2. ASSUME NEW s \in Receipts PROVE BackFor(booked \cap Refunds, s) <= Sold[s].total
  <2>1. {g \in booked \cap Refunds : Given[g].sale = s} = {} /\ Part(Back, {}) = 0
    BY <1>1, BackFacts, PartFacts
  <2>2. BackFor(booked \cap Refunds, s) = 0
    BY <2>1, Zenon DEF BackFor
  <2>3. QED BY <2>2, WhatIsSold
<1>3. QED BY <1>1, <1>2, ReportsInvInit DEF FiguresInv, WithinTotals

LEMMA BookKeepsFigures ==
  ASSUME FiguresInv, NEW f \in Facts, Book(f)
  PROVE  /\ booked' \subseteq Facts /\ WithinTotals(booked' \cap Refunds)
         /\ \A x \in Readers : report'[x] # NoReport => report'[x].refunds \subseteq booked'
<1>1. f \notin booked /\ booked' = booked \cup {f} /\ report' = report
  BY DEF Book
<1>2. booked \subseteq Facts /\ WithinTotals(booked \cap Refunds)
  BY DEF FiguresInv
<1>3. WithinTotals(booked' \cap Refunds)
  <2>1. CASE f \in Refunds
    <3>1. Fits(f)
      BY <2>1 DEF Book
    <3>2. WithinTotals((booked \cup {f}) \cap Refunds)
      BY <1>1, <1>2, <2>1, <3>1, OneMoreFits
    <3>3. QED BY <1>1, <3>2, Zenon
  <2>2. CASE f \notin Refunds
    <3>1. booked' \cap Refunds = booked \cap Refunds
      BY <1>1, <2>2
    <3>2. QED BY <1>2, <3>1, Zenon
  <2>3. QED BY <2>1, <2>2
<1>4. QED BY <1>1, <1>2, <1>3 DEF FiguresInv

LEMMA StatementFindsBooked ==
  ASSUME FiguresInv, NEW x \in Readers, RunStatement(x), NEW y \in Readers,
         report'[y] # NoReport
  PROVE  report'[y].refunds \subseteq booked
<1> DEFINE r == report[x]
           w == Head(r.todo)
<1>1. r \in ReportRecords /\ report \in [Readers -> {NoReport} \cup ReportRecords]
  BY DEF FiguresInv, ReportsInv, RunStatement
<1>2. r.refunds \subseteq booked
  BY DEF FiguresInv, RunStatement
<1>3. RefundsFound(r) \subseteq booked
  BY DEF RefundsFound
<1>4. CASE y # x
  <2>1. report'[y] = report[y]
    BY <1>1, <1>4 DEF RunStatement
  <2>2. QED BY <2>1 DEF FiguresInv
<1>5. CASE y = x
  <2>1. w \in {"sales", "refunds", "fresh", "freshReturns"}
    <3>1. r.todo # <<>>
      BY DEF RunStatement
    <3>2. QED BY <1>1, <3>1 DEF ReportRecords
  <2>2. PICK m \in ReportRecords :
           /\ report'[x] = [m EXCEPT !.todo = Tail(@)]
           /\ m.refunds = (IF w = "refunds" THEN RefundsFound(r) ELSE r.refunds)
    <3>1. CASE w = "sales"
      <4>1. [r EXCEPT !.sales = SalesFound(r)] \in ReportRecords
        BY <1>1 DEF ReportRecords, SalesFound
      <4>2. QED BY <1>1, <3>1, <4>1 DEF RunStatement, ReportRecords
    <3>2. CASE w = "refunds"
      <4>1. [r EXCEPT !.refunds = RefundsFound(r)] \in ReportRecords
        BY <1>1 DEF ReportRecords, RefundsFound
      <4>2. QED BY <1>1, <3>2, <4>1 DEF RunStatement, ReportRecords
    <3>3. CASE w = "fresh"
      <4>1. [r EXCEPT !.complete = SalesComplete] \in ReportRecords
        BY <1>1 DEF ReportRecords, SalesComplete
      <4>2. QED BY <1>1, <3>3, <4>1 DEF RunStatement, ReportRecords
    <3>4. CASE w = "freshReturns"
      <4>1. [r EXCEPT !.returnsComplete = ReturnsComplete] \in ReportRecords
        BY <1>1 DEF ReportRecords, ReturnsComplete
      <4>2. QED BY <1>1, <3>4, <4>1 DEF RunStatement, ReportRecords
    <3>5. QED BY <2>1, <3>1, <3>2, <3>3, <3>4
  <2>3. report'[x].refunds = m.refunds
    BY <2>2 DEF ReportRecords
  <2>4. QED BY <1>2, <1>3, <1>5, <2>2, <2>3
<1>6. QED BY <1>4, <1>5

LEMMA FiguresInvKept == FiguresInv /\ [ReportsNext]_reportVars => FiguresInv'
<1> SUFFICES ASSUME FiguresInv, [ReportsNext]_reportVars PROVE FiguresInv'
  OBVIOUS
<1>1. ReportsInv'
  BY ReportsInvKept DEF FiguresInv
<1>2. ASSUME booked' = booked,
             \A y \in Readers : report'[y] # NoReport => report'[y].refunds \subseteq booked
      PROVE  FiguresInv'
  <2>1. WithinTotals(booked' \cap Refunds)
    BY <1>2, Zenon DEF FiguresInv
  <2>2. WithinTotals(booked \cap Refunds)'
    BY <2>1
  <2>3. QED BY <1>1, <1>2, <2>2 DEF FiguresInv
<1>3. CASE \E f \in Facts : Accept(f) \/ BlockFact(f)
  BY <1>2, <1>3 DEF Accept, BlockFact, FiguresInv
<1>4. ASSUME NEW f \in Facts, Book(f) PROVE FiguresInv'
  <2>1. WithinTotals(booked \cap Refunds)'
    BY <1>4, BookKeepsFigures
  <2>2. QED BY <1>1, <1>4, <2>1, BookKeepsFigures DEF FiguresInv
<1>5. ASSUME NEW x \in Readers, RunStatement(x) PROVE FiguresInv'
  BY <1>2, <1>5, StatementFindsBooked DEF RunStatement
<1>6. ASSUME NEW x \in Readers, NEW n, report' = [report EXCEPT ![x] = n], booked' = booked,
             n # NoReport => n.refunds = {}
      PROVE  FiguresInv'
  <2>1. \A y \in Readers : report'[y] = report[y] \/ report'[y] = n
    BY <1>6 DEF FiguresInv, ReportsInv
  <2>2. QED BY <1>2, <1>6, <2>1 DEF FiguresInv
<1>7. ASSUME NEW x \in Readers, Answers(x) PROVE FiguresInv'
  BY <1>6, <1>7 DEF Answers
<1>8. ASSUME NEW x \in Readers, NEW kind \in {"summary", "breakdown"},
             NEW shop \in Shops \cup {NoShop}, NEW p \in Periods, Asks(x, kind, shop, p)
      PROVE  FiguresInv'
  <2> DEFINE n == [kind |-> kind, shop |-> shop, period |-> p, todo |-> Statements(kind),
             sales |-> {}, refunds |-> {}, complete |-> FALSE, returnsComplete |-> FALSE,
             before |-> inboxed]
  <2>1. report' = [report EXCEPT ![x] = n] /\ booked' = booked
    BY <1>8 DEF Asks
  <2>2. n.refunds = {}
    OBVIOUS
  <2> HIDE DEF n
  <2>3. QED BY <1>6, <2>1, <2>2
<1>9. CASE UNCHANGED reportVars
  BY <1>2, <1>9 DEF reportVars, FiguresInv
<1>10. QED BY <1>3, <1>4, <1>5, <1>7, <1>8, <1>9 DEF ReportsNext

\* For any sales, returns, Stores, periods and readers, and whatever facts the
\* statements of a report found while others were projected: the rows of its
\* dimensions and shops add up to the lines or totals they are made of, no
\* cashier, channel or shop gives back more than it sold once the sales of
\* the returns are found, the payments are the sales within 1 each, and the
\* totals in EGP do not depend on how they are grouped and lie between the
\* rates shown with them.
THEOREM ReportsAlwaysAddUp == ReportsSafe => []ReportsAddUp
<1>1. FiguresInv => ReportsAddUp
  <2> SUFFICES ASSUME FiguresInv, NEW r \in Answered
               PROVE  /\ RowsAddUp(r) /\ RefundsFollowSales(r)
                      /\ PaymentsMatch(r) /\ GroupingKeepsTotals(r)
    BY DEF ReportsAddUp
  <2>1. PICK x \in Readers : r = report[x] /\ r # NoReport
    BY DEF Answered
  <2>2. r \in ReportRecords /\ r.refunds \subseteq booked
    BY <2>1 DEF FiguresInv, ReportsInv
  <2>3. r.sales \in SUBSET Receipts /\ r.refunds \in SUBSET Refunds
    BY <2>2 DEF ReportRecords
  <2>4. WithinTotals(r.refunds)
    BY <2>2, <2>3, FewerFit DEF FiguresInv
  <2>5. QED BY <2>3, <2>4, RowsOfReportAdd, RefundsOfReportFollow, PaymentsOfReportMatch,
            GroupingKeepsReport
<1>2. QED BY <1>1, FiguresInvInit, FiguresInvKept, PTL DEF ReportsSafe
=============================================================================
