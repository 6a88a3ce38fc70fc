----------------------------- MODULE ReportRuns -----------------------------
(***************************************************************************)
(* Business reports (internal/businessreports/planner.go and runner.go,    *)
(* internal/adapter/postgres/business_reports.go) over the notification    *)
(* outbox: the planner makes a run of each due slot and the command line   *)
(* makes manual runs, each with a delivery per recipient; a runner of any  *)
(* instance claims a run under a lease, takes one snapshot of the figures  *)
(* for all its deliveries, enqueues a message for each and ends the run.   *)
(*                                                                         *)
(* The key of a delivery's message is the delivery, and the content is its *)
(* snapshot with the template mapping of the moment.  Every label of a     *)
(* runner is a transaction of the code.                                    *)
(***************************************************************************)
EXTENDS Notifications, FiniteSets

CONSTANTS
    MaxSlots,       \* bound: slots of the schedule that come due
    ManualKeys,     \* idempotency keys of manual runs
    MaxRuns,        \* bound: runs there are, of either kind
    Recipients,
    Runners,        \* instances
    MaxFigures,     \* bound: versions of the figures
    MaxTemplate     \* bound: versions of the template mapping

Slots == 1 .. MaxSlots
Runs == Slots \cup ManualKeys

ASSUME ReportAssumption ==
    /\ MaxSlots \in Nat \ {0} /\ MaxRuns \in Nat /\ MaxFigures \in Nat \ {0} /\ MaxTemplate \in Nat
    /\ Runs \X Recipients \subseteq Keys
    /\ (1 .. MaxFigures) \X (1 .. MaxTemplate) \subseteq Contents
    /\ Nobody \notin Runners /\ Slots \cap ManualKeys = {}

VARIABLES
    nextSlot,   \* next_run_local_date of the schedule, as a number of the slot
    run,        \* business_report_runs
    delivery,   \* business_report_deliveries
    runner,     \* what each runner is doing
    figures,    \* version of what the report service would say now
    mapping     \* version of the template mapping, 0 while there is none

reportOnlyVars == <<nextSlot, run, delivery, runner, figures, mapping>>
reportVars == <<noteVars, reportOnlyVars>>
-----------------------------------------------------------------------------
RunRows == [st : {"none", "pending", "retry", "completed", "blocked"},
            owner : Runners \cup {Nobody}, gen : Nat, live : BOOLEAN,
            due : BOOLEAN]
NoRun == [st |-> "none", owner |-> Nobody, gen |-> 0, live |-> FALSE, due |-> FALSE]

\* body: the version of the figures it was rendered from, 0 for none.
DeliveryRows == [st : {"none", "pending", "enqueued", "blocked"}, body : 0 .. MaxFigures]
NoDelivery == [st |-> "none", body |-> 0]

Off == [at |-> "idle"]
Of(r) == {p \in Recipients : delivery[<<r, p>>].st # "none"}
Pending(r) == {p \in Of(r) : delivery[<<r, p>>].st = "pending"}
Bodies(r) == {p \in Of(r) : delivery[<<r, p>>].body # 0}

NewRun == [NoRun EXCEPT !.st = "pending", !.due = TRUE]

\* A run of an earlier version may be there, with deliveries for some
\* recipients and snapshots for some of those only.
LegacyDeliveries(who, bodies) ==
    [d \in Runs \X Recipients |->
        IF d[1] = 1 /\ d[2] \in who
        THEN [st |-> "pending", body |-> IF d[2] \in bodies THEN 1 ELSE 0]
        ELSE NoDelivery]

ReportInit ==
    /\ NoteInit
    /\ \E who \in SUBSET Recipients : \E bodies \in SUBSET who :
        /\ run = [r \in Runs |-> IF r = 1 /\ who # {} THEN NewRun ELSE NoRun]
        /\ delivery = LegacyDeliveries(who, bodies)
        /\ nextSlot = IF who = {} THEN 1 ELSE 2
    /\ runner = [w \in Runners |-> Off]
    /\ figures = 1
    /\ mapping \in {0, 1} \cap 0 .. MaxTemplate
-----------------------------------------------------------------------------
\* A run and a delivery for each recipient that is enabled then.
Create(r, recipients) ==
    /\ run[r].st = "none"
    /\ Cardinality({q \in Runs : run[q].st # "none"}) < MaxRuns
    /\ run' = [run EXCEPT ![r] = NewRun]
    /\ delivery' = [d \in Runs \X Recipients |->
        IF d[1] = r /\ d[2] \in recipients THEN [st |-> "pending", body |-> 0]
        ELSE delivery[d]]
    /\ UNCHANGED <<noteVars, runner, figures, mapping>>

\* MaterializeNextSlot, one transaction under the schedule's lock: the run,
\* its deliveries and the next slot.
MaterializeNextSlot(recipients) ==
    /\ nextSlot \in Slots
    /\ Create(nextSlot, recipients)
    /\ nextSlot' = nextSlot + 1

CreateManualRun(k, recipients) ==
    /\ Create(k, recipients)
    /\ UNCHANGED nextSlot

\* Sales and returns go on being projected.
FiguresMove ==
    /\ figures < MaxFigures
    /\ figures' = figures + 1
    /\ UNCHANGED <<noteVars, nextSlot, run, delivery, runner, mapping>>

\* The operator replaces the template mapping.
MappingChanges ==
    /\ mapping < MaxTemplate
    /\ mapping' = mapping + 1
    /\ UNCHANGED <<noteVars, nextSlot, run, delivery, runner, figures>>
-----------------------------------------------------------------------------
Goes(w, label) == runner' = [runner EXCEPT ![w].at = label]
Ends(w, verdict) == runner' = [runner EXCEPT ![w].at = "finish", ![w].verdict = verdict]
MyRun(w) == runner[w].run

\* A failure that takes one of the bounded faults.
Faulty ==
    /\ lapses < MaxLapses
    /\ lapses' = lapses + 1
    /\ UNCHANGED <<outbox, history, courier, reached, postponed>>

\* The row is still that of this claim.
HoldsRun(w) ==
    LET row == run[MyRun(w)] IN
    row.owner = w /\ row.gen = runner[w].gen /\ row.st \in Waiting

RunClaimable(r) == run[r].st \in Waiting /\ run[r].due /\ ~run[r].live

ClaimRun(w, r) ==
    /\ runner[w].at = "idle"
    /\ RunClaimable(r)
    /\ run' = [run EXCEPT ![r].owner = w, ![r].gen = @ + 1, ![r].live = TRUE]
    /\ runner' = [runner EXCEPT ![w] =
        [at |-> "claimed", run |-> r, gen |-> run[r].gen + 1, todo |-> {},
         current |-> Nothing, basis |-> 0, remain |-> FALSE, verdict |-> "none"]]
    /\ UNCHANGED <<noteVars, nextSlot, delivery, figures, mapping>>

\* Mutant: snapshots are completed whatever the others were made from.
BarrierFillsIn(w, missing) == FALSE

\* Some delivery has a snapshot already, and its basis is gone.
BarrierBlocks(w, missing) == missing # {} /\ Bodies(MyRun(w)) # {}

\* reportKind and the first list of the deliveries: what the barrier makes
\* of them.
ReadRun(w) ==
    LET missing == Pending(MyRun(w)) \ Bodies(MyRun(w)) IN
    /\ runner[w].at = "claimed"
    /\ \/ /\ Of(MyRun(w)) = {} \/ BarrierBlocks(w, missing)
          /\ Ends(w, "blocked")
       \/ /\ Of(MyRun(w)) # {} /\ missing = {}
          /\ Goes(w, "relist")
       \/ /\ missing # {} /\ ~BarrierBlocks(w, missing)
          /\ runner' = [runner EXCEPT ![w].at = "compose", ![w].todo = missing]
    /\ UNCHANGED <<noteVars, nextSlot, run, delivery, figures, mapping>>

\* Any error while the schedule is read blocks the run.
ReadKindFails(w) ==
    /\ runner[w].at = "claimed"
    /\ Faulty
    /\ Ends(w, "blocked")
    /\ UNCHANGED <<nextSlot, run, delivery, figures, mapping>>

\* snapshotSummary, once for all locales.
Compose(w) ==
    /\ runner[w].at = "compose"
    /\ \/ runner' = [runner EXCEPT ![w].at = "persist", ![w].basis = figures]
       \/ Ends(w, "blocked")        \* the body is too large
    /\ UNCHANGED <<noteVars, nextSlot, run, delivery, figures, mapping>>

ComposeFails(w) ==
    /\ runner[w].at = "compose"
    /\ Faulty
    /\ Ends(w, "retry")
    /\ UNCHANGED <<nextSlot, run, delivery, figures, mapping>>

MayPersist(w) ==
    /\ HoldsRun(w) /\ run[MyRun(w)].live
    /\ \A p \in runner[w].todo : delivery[<<MyRun(w), p>>].body = 0

WithBodies(r, todo, basis) ==
    [d \in Runs \X Recipients |->
        IF d[1] = r /\ d[2] \in todo THEN [delivery[d] EXCEPT !.body = basis] ELSE delivery[d]]

\* PersistRunDeliverySnapshots, all or nothing under the run's lock.
Persist(w) ==
    /\ runner[w].at = "persist"
    /\ \/ /\ MayPersist(w)
          /\ delivery' = WithBodies(MyRun(w), runner[w].todo, runner[w].basis)
          /\ Goes(w, "relist")
       \/ /\ ~MayPersist(w)
          /\ Ends(w, "retry")
          /\ UNCHANGED delivery
    /\ UNCHANGED <<noteVars, nextSlot, run, figures, mapping>>

\* It fails, before its COMMIT or by losing the answer of it.
PersistFails(w) ==
    /\ runner[w].at = "persist"
    /\ Faulty
    /\ \/ UNCHANGED delivery
       \/ MayPersist(w) /\ delivery' = WithBodies(MyRun(w), runner[w].todo, runner[w].basis)
    /\ Ends(w, "retry")
    /\ UNCHANGED <<nextSlot, run, figures, mapping>>

\* pendingDeliveries: a list that fails is an empty one.
Relist(w) ==
    /\ runner[w].at = "relist"
    /\ runner' = [runner EXCEPT ![w].at = "enqueue", ![w].todo = Pending(MyRun(w))]
    /\ UNCHANGED <<noteVars, nextSlot, run, delivery, figures, mapping>>

RelistFails(w) ==
    /\ runner[w].at = "relist"
    /\ Faulty
    /\ runner' = [runner EXCEPT ![w].at = "enqueue", ![w].todo = {}]
    /\ UNCHANGED <<nextSlot, run, delivery, figures, mapping>>

\* EnqueueTemplate under the delivery's key: without a mapping it is refused,
\* and so is a key that holds another content.
EnqueueDelivery(w, p) ==
    LET key == <<MyRun(w), p>>
        content == <<delivery[key].body, mapping>>
    IN
    /\ runner[w].at = "enqueue" /\ p \in runner[w].todo
    /\ \/ /\ mapping # 0 /\ EnqueueOutcome(key, content) # "conflict"
          /\ outbox' = AfterEnqueue(key, content)
          /\ runner' = [runner EXCEPT ![w].at = "record", ![w].current = p]
       \/ /\ mapping = 0 \/ EnqueueOutcome(key, content) = "conflict"
          /\ runner' = [runner EXCEPT ![w].at = "refuse", ![w].current = p]
          /\ UNCHANGED outbox
    /\ UNCHANGED <<history, courier, reached, lapses, postponed, nextSlot, run, delivery,
                   figures, mapping>>

\* The outbox cannot be reached: the delivery is left for another attempt.
EnqueueFails(w, p) ==
    /\ runner[w].at = "enqueue" /\ p \in runner[w].todo
    /\ Faulty
    /\ runner' = [runner EXCEPT ![w].todo = @ \ {p}, ![w].remain = TRUE]
    /\ UNCHANGED <<nextSlot, run, delivery, figures, mapping>>

\* FinishDeliveryEnqueued and FinishDeliveryBlocked, under the run's lock.
RecordDelivery(w) ==
    LET p == runner[w].current
        key == <<MyRun(w), p>>
        applies == HoldsRun(w) /\ run[MyRun(w)].live /\ delivery[key].st = "pending"
    IN
    /\ runner[w].at \in {"record", "refuse"}
    /\ delivery' = IF applies
                   THEN [delivery EXCEPT ![key].st =
                            IF runner[w].at = "record" THEN "enqueued" ELSE "blocked"]
                   ELSE delivery
    /\ runner' = [runner EXCEPT ![w].at = "enqueue", ![w].todo = @ \ {p},
                                ![w].current = Nothing, ![w].remain = @ \/ ~applies]
    /\ UNCHANGED <<noteVars, nextSlot, run, figures, mapping>>

Verdict(w) ==
    IF runner[w].remain \/ Pending(MyRun(w)) # {} THEN "retry"
    ELSE IF \E p \in Of(MyRun(w)) : delivery[<<MyRun(w), p>>].st = "blocked" THEN "blocked"
    ELSE "completed"

\* finishAggregate reads the deliveries again.
FinishAggregate(w) ==
    /\ runner[w].at = "enqueue" /\ runner[w].todo = {}
    /\ Ends(w, Verdict(w))
    /\ UNCHANGED <<noteVars, nextSlot, run, delivery, figures, mapping>>

FinishedRun(row, verdict) ==
    [row EXCEPT !.st = verdict, !.owner = Nobody, !.live = FALSE, !.due = FALSE]

\* FinishRunCompleted, FinishRunRetry, FinishRunBlocked.
FinishRun(w) ==
    /\ runner[w].at = "finish"
    /\ run' = IF HoldsRun(w)
              THEN [run EXCEPT ![MyRun(w)] = FinishedRun(@, runner[w].verdict)]
              ELSE run
    /\ runner' = [runner EXCEPT ![w] = Off]
    /\ UNCHANGED <<noteVars, nextSlot, delivery, figures, mapping>>

\* The process dies, or a statement fails whose error ends the pass.
RunnerFails(w) ==
    /\ runner[w].at # "idle"
    /\ Faulty
    /\ runner' = [runner EXCEPT ![w] = Off]
    /\ UNCHANGED <<nextSlot, run, delivery, figures, mapping>>

RunUnderWay(r) ==
    \E w \in Runners :
        runner[w].at # "idle" /\ runner[w].run = r /\ runner[w].gen = run[r].gen

RunLeaseExpires(r) ==
    /\ run[r].live
    /\ IF RunUnderWay(r) THEN Faulty ELSE UNCHANGED noteVars
    /\ run' = [run EXCEPT ![r].live = FALSE]
    /\ UNCHANGED <<nextSlot, delivery, runner, figures, mapping>>

RunComesDue(r) ==
    /\ run[r].st = "retry" /\ ~run[r].due
    /\ run' = [run EXCEPT ![r].due = TRUE]
    /\ UNCHANGED <<noteVars, nextSlot, delivery, runner, figures, mapping>>
-----------------------------------------------------------------------------
RunnerStep(w) ==
    \/ \E r \in Runs : ClaimRun(w, r)
    \/ ReadRun(w) \/ Compose(w) \/ Persist(w) \/ Relist(w)
    \/ \E p \in Recipients : EnqueueDelivery(w, p)
    \/ RecordDelivery(w) \/ FinishAggregate(w) \/ FinishRun(w)

RunnerFault(w) ==
    \/ ReadKindFails(w) \/ ComposeFails(w) \/ PersistFails(w) \/ RelistFails(w)
    \/ \E p \in Recipients : EnqueueFails(w, p)
    \/ RunnerFails(w)

\* Leases and backoffs pass.
RunTimePasses == \E r \in Runs : RunLeaseExpires(r) \/ RunComesDue(r)

\* Everything but the dispatchers.
RunsNext ==
    \/ \E R \in SUBSET Recipients :
        \/ MaterializeNextSlot(R)
        \/ \E k \in ManualKeys : CreateManualRun(k, R)
    \/ FiguresMove \/ MappingChanges
    \/ \E w \in Runners : RunnerStep(w) \/ RunnerFault(w)
    \/ RunTimePasses

ReportNext == RunsNext \/ (DispatchNext /\ UNCHANGED reportOnlyVars)

ReportSafe == ReportInit /\ [][ReportNext]_reportVars
-----------------------------------------------------------------------------
Works ==
    [at : {"claimed", "compose", "persist", "relist", "enqueue", "record", "refuse", "finish"},
     run : Runs, gen : Nat, todo : SUBSET Recipients,
     current : Recipients \cup {Nothing}, basis : 0 .. MaxFigures, remain : BOOLEAN,
     verdict : {"none", "completed", "retry", "blocked"}]
RunnerStates == {Off} \cup Works

\* Every variable has its type, slots are taken in their order, and only a
\* delivery with a snapshot has a verdict.
ReportTypeOK ==
    /\ nextSlot \in 1 .. MaxSlots + 1
    /\ run \in [Runs -> RunRows]
    /\ delivery \in [Runs \X Recipients -> DeliveryRows]
    /\ runner \in [Runners -> RunnerStates]
    /\ figures \in 1 .. MaxFigures /\ mapping \in 0 .. MaxTemplate
    /\ \A s \in Slots : run[s].st # "none" <=> s < nextSlot
    /\ \A d \in Runs \X Recipients :
        delivery[d].st \in {"enqueued", "blocked"} => delivery[d].body # 0

\* All recipients of a run see the figures of one moment, although several
\* runners may have worked on it while the figures moved, and the messages
\* show what the snapshots say.
OneBasis ==
    \A r \in Runs : \A p, q \in Recipients :
        /\ delivery[<<r, p>>].body # 0 /\ delivery[<<r, q>>].body # 0 =>
            delivery[<<r, p>>].body = delivery[<<r, q>>].body
        /\ outbox[<<r, p>>].st # "none" => outbox[<<r, p>>].content[1] = delivery[<<r, p>>].body

\* A completed run has handed over a message for each of its deliveries, and
\* a delivery said to be enqueued has one.
CompletedMeansQueued ==
    \A r \in Runs :
        /\ run[r].st = "completed" =>
            Of(r) # {} /\ \A p \in Of(r) : delivery[<<r, p>>].st = "enqueued"
        /\ \A p \in Recipients :
            delivery[<<r, p>>].st = "enqueued" => outbox[<<r, p>>].st # "none"

\* What a run promises its readers.
RunsAreSound == ReportTypeOK /\ OneBasis /\ CompletedMeansQueued

\* A run's outcome, a delivery's and a snapshot are final: no runner that
\* lost its lease changes them.
ReportVerdictsStay ==
    [][\A r \in Runs :
        /\ run[r].st \in {"completed", "blocked"} => run'[r].st = run[r].st
        /\ \A p \in Recipients :
            /\ delivery[<<r, p>>].st \in {"enqueued", "blocked"} =>
                delivery'[<<r, p>>].st = delivery[<<r, p>>].st
            /\ delivery[<<r, p>>].body # 0 => delivery'[<<r, p>>].body = delivery[<<r, p>>].body]_reportVars

\* Again and again every run there is has ended.
EveryRunSettles == []<>(\A r \in Runs : run[r].st \in {"none", "completed", "blocked"})
=============================================================================
