---------------------------- MODULE CatalogAdmin ----------------------------
(***************************************************************************)
(* What an operator asks of the catalog of one Store (internal/catalogadmin, *)
(* internal/adapter/postgres/catalog_admin.go): Cloud keeps a command and   *)
(* a target for every workstation, each polls for its target, runs the     *)
(* command on the catalog it keeps itself and reports, and the snapshots   *)
(* it sends of what it changed come back to Cloud as for any change made   *)
(* at the till.                                                            *)
(*                                                                         *)
(* Every transaction locks its command first and is one step.  A poll reads *)
(* the due targets and then takes each in a transaction of its own; its    *)
(* answer may be lost.  Retail runs a command once and reports what became *)
(* of it until it is kept.  Snapshots overtake each other.                 *)
(*                                                                         *)
(* A command either sets a value of the one entity, which the workstations *)
(* may have changed apart, or creates an entity.  Types, payloads and the  *)
(* lists for the dashboard are left out.                                   *)
(***************************************************************************)
EXTENDS Naturals, FiniteSets, TLC

CONSTANTS
    Desks,          \* the workstations bound to the Store, numbered by their ids
    Commands,
    Creating,       \* the commands that create
    Values,
    MaxRevision,    \* bound: changes at the till
    Polls           \* polls at work

ASSUME AdminAssumption ==
    /\ Desks \subseteq Nat \ {0} /\ Desks # {} /\ Creating \subseteq Commands
    /\ MaxRevision \in Nat

VARIABLES
    desk,       \* the workstations: whether active and capable, and their catalog
    command,    \* catalog_admin_commands
    aim,        \* catalog_admin_command_targets
    inbox,      \* the commands a workstation has received
    ran,        \* what became of them there
    snapshots,  \* the revisions on their way to Cloud
    projected,  \* catalog_products: the entity as Cloud shows it
    poll        \* polls at work

adminVars == <<desk, command, aim, inbox, ran, snapshots, projected, poll>>
-----------------------------------------------------------------------------
NoCommand == [st |-> "none"]
NoAim == [st |-> "none", post |-> 0]
NotRun == [st |-> "no", post |-> 0]
NoPoll == [due |-> {}, taken |-> {}, by |-> 0]

\* The workstations have changed the entity apart; Cloud has seen one of them.
AdminInit ==
    /\ desk \in [Desks -> [active : {TRUE}, capable : {FALSE}, rev : {1}, value : Values]]
    /\ command = [c \in Commands |-> NoCommand]
    /\ aim = [c \in Commands |-> [d \in Desks |-> NoAim]]
    /\ inbox = [d \in Desks |-> {}] /\ ran = [c \in Commands |-> [d \in Desks |-> NotRun]]
    /\ snapshots = {} /\ poll = [x \in Polls |-> NoPoll]
    /\ \E d \in Desks : projected = [rev |-> 1, value |-> desk[d].value]

Lowest(S) == CHOOSE d \in S : \A o \in S : d <= o
Waits(row) == row.st \in {"PENDING", "DELIVERED"}
-----------------------------------------------------------------------------
\* At the till: the entity is changed, the workstation says what it can do,
\* or is revoked for good.
Edit(d, v) ==
    /\ desk[d].rev < MaxRevision /\ desk[d].value # v
    /\ desk' = [desk EXCEPT ![d].rev = @ + 1, ![d].value = v]
    /\ snapshots' = snapshots \cup {[rev |-> desk[d].rev + 1, value |-> v]}
    /\ UNCHANGED <<command, aim, inbox, ran, projected, poll>>

ReportCapabilities(d, capable) ==
    /\ desk[d].active /\ desk' = [desk EXCEPT ![d].capable = capable]
    /\ UNCHANGED <<command, aim, inbox, ran, snapshots, projected, poll>>

Revoke(d) ==
    /\ desk[d].active /\ desk' = [desk EXCEPT ![d].active = FALSE]
    /\ UNCHANGED <<command, aim, inbox, ran, snapshots, projected, poll>>

\* The catalog projection: only a newer revision replaces what is shown.
Project(m) ==
    /\ m \in snapshots /\ snapshots' = snapshots \ {m}
    /\ projected' = IF projected.rev < m.rev THEN m ELSE projected
    /\ UNCHANGED <<desk, command, aim, inbox, ran, poll>>
-----------------------------------------------------------------------------
\* A change goes to every workstation bound to the Store, a creation to one.
AimedAt(c) == IF c \in Creating THEN {Lowest(Desks)} ELSE Desks

\* Create, CreateCatalogAdminCommandWithTargets.
Create(c, v) ==
    /\ command[c] = NoCommand
    /\ command' = [command EXCEPT ![c] =
            [st |-> "PENDING", want |-> v, expected |-> projected.rev, result |-> 0]]
    /\ aim' = [aim EXCEPT ![c] =
            [d \in Desks |-> IF d \in AimedAt(c) THEN [NoAim EXCEPT !.st = "PENDING"] ELSE NoAim]]
    /\ UNCHANGED <<desk, inbox, ran, snapshots, projected, poll>>

Cancellable(c) == \A d \in Desks : aim[c][d].st \notin {"APPLIED", "DELIVERED"}

\* CancelCatalogAdminCommand.
Cancel(c) ==
    /\ command[c].st = "PENDING" /\ Cancellable(c)
    /\ command' = [command EXCEPT ![c].st = "CANCELLED"]
    /\ aim' = [aim EXCEPT ![c] =
            [d \in Desks |-> IF aim[c][d].st = "PENDING" THEN [aim[c][d] EXCEPT !.st = "CANCELLED"]
                              ELSE aim[c][d]]]
    /\ UNCHANGED <<desk, inbox, ran, snapshots, projected, poll>>

\* annotateCapabilities: a dashboard that shows a command settles the targets
\* of workstations that are no longer there.
Annotate(c, d) ==
    /\ command[c].st = "PENDING" /\ Waits(aim[c][d]) /\ ~desk[d].active
    /\ aim' = [aim EXCEPT ![c][d].st = "SKIPPED_REVOKED"]
    /\ UNCHANGED <<desk, command, inbox, ran, snapshots, projected, poll>>
-----------------------------------------------------------------------------
\* Poll: an active and capable workstation; the due targets are read,
PollReads(x, d) ==
    /\ poll[x] = NoPoll /\ desk[d].active /\ desk[d].capable
    /\ LET due == {c \in Commands : command[c].st = "PENDING" /\ Waits(aim[c][d])} IN
        /\ due # {}
        /\ poll' = [poll EXCEPT ![x] = [due |-> due, taken |-> {}, by |-> d]]
    /\ UNCHANGED <<desk, command, aim, inbox, ran, snapshots, projected>>

\* Mutant: what was due is delivered.
DeliverableAsRead(c, d) == Waits(aim[c][d]) \/ aim[c][d].st = "CANCELLED"

Deliverable(c, d) == command[c].st = "PENDING" /\ desk[d].active /\ Waits(aim[c][d])

\* then each is taken if it still may be, or the whole poll fails;
MarkDelivered(x, c) ==
    LET d == poll[x].by IN
    /\ c \in poll[x].due
    /\ IF Deliverable(c, d)
       THEN /\ aim' = [aim EXCEPT ![c][d].st = "DELIVERED"]
            /\ poll' = [poll EXCEPT ![x].due = @ \ {c}, ![x].taken = @ \cup {c}]
       ELSE poll' = [poll EXCEPT ![x] = NoPoll] /\ UNCHANGED aim
    /\ UNCHANGED <<desk, command, inbox, ran, snapshots, projected>>

\* and the workstation hears of them, or not.
PollAnswers(x) ==
    /\ poll[x].by # 0 /\ poll[x].due = {}
    /\ poll' = [poll EXCEPT ![x] = NoPoll]
    /\ inbox' \in {inbox, [inbox EXCEPT ![poll[x].by] = @ \cup poll[x].taken]}
    /\ UNCHANGED <<desk, command, aim, ran, snapshots, projected>>

\* Retail runs a command once: on the revision it was meant for it sets the
\* value, and keeps the revision if it has that value already; a creation
\* mints an entity, known by its workstation.
Run(d, c) ==
    /\ c \in inbox[d] /\ ran[c][d] = NotRun
    /\ IF c \in Creating
       THEN /\ ran' = [ran EXCEPT ![c][d] = [st |-> "APPLIED", post |-> command[c].expected]]
            /\ UNCHANGED <<desk, snapshots>>
       ELSE IF desk[d].rev # command[c].expected
       THEN ran' = [ran EXCEPT ![c][d].st = "CONFLICT"] /\ UNCHANGED <<desk, snapshots>>
       ELSE LET v == command[c].want
                rev == desk[d].rev + (IF desk[d].value = v THEN 0 ELSE 1) IN
            /\ ran' = [ran EXCEPT ![c][d] = [st |-> "APPLIED", post |-> rev]]
            /\ desk' = [desk EXCEPT ![d].rev = rev, ![d].value = v]
            /\ snapshots' = snapshots \cup
                    (IF rev = desk[d].rev THEN {} ELSE {[rev |-> rev, value |-> v]})
    /\ UNCHANGED <<command, aim, inbox, projected, poll>>

\* The entity a report names: the one created, or the command's own.
Entity(c, d) == IF c \in Creating THEN d ELSE 0

\* ReportOutcome, FinishCatalogAdminTarget: an end is kept once, of a command
\* that is pending, and with it what was created.
FinishTarget(d, c) ==
    LET r == ran[c][d] IN
    /\ r # NotRun /\ desk[d].active /\ command[c].st = "PENDING" /\ Waits(aim[c][d])
    /\ r.st = "APPLIED" => command[c].result \in {0, Entity(c, d)}
    /\ aim' = [aim EXCEPT ![c][d] = r]
    /\ command' = IF r.st = "APPLIED" THEN [command EXCEPT ![c].result = Entity(c, d)] ELSE command
    /\ UNCHANGED <<desk, inbox, ran, snapshots, projected, poll>>

AdminNext ==
    \/ \E d \in Desks : \E v \in Values : Edit(d, v)
    \/ \E d \in Desks : Revoke(d) \/ \E capable \in BOOLEAN : ReportCapabilities(d, capable)
    \/ \E m \in snapshots : Project(m)
    \/ \E c \in Commands :
        \/ \E v \in Values : Create(c, v)
        \/ Cancel(c)
        \/ \E d \in Desks : Annotate(c, d) \/ Run(d, c) \/ FinishTarget(d, c)
    \/ \E x \in Polls :
        \/ \E d \in Desks : PollReads(x, d)
        \/ \E c \in Commands : MarkDelivered(x, c)
        \/ PollAnswers(x)

AdminSpec == AdminInit /\ [][AdminNext]_adminVars
-----------------------------------------------------------------------------
\* Mutant: a reported revision is proof enough.
NoopProjectedAlways(c) == TRUE

\* noopProjected.
NoopProjected(c) == projected.value = command[c].want

\* aggregate: every target applied, and the projection as far as each of them.
Converged(c) ==
    /\ command[c].st = "PENDING" /\ c \notin Creating
    /\ \A d \in Desks :
        /\ aim[c][d].st = "APPLIED" /\ aim[c][d].post <= projected.rev
        /\ aim[c][d].post = command[c].expected => NoopProjected(c)

\* What is said to have converged is shown, unless the entity was changed
\* again since: at the revision the command made, Cloud shows the value it
\* asked for, though the workstations had changed the entity apart, some had
\* nothing to do, and snapshots arrive in any order (aggregate, noopProjected).
ConvergedIsShown ==
    \A c \in Commands \ Creating :
        Converged(c) /\ projected.rev <= command[c].expected + 1
            => projected.value = command[c].want

\* "A delivered command may already be executing: cancellation cannot retract
\* it safely" (CancelCatalogAdminCommand): no workstation that is still there
\* has done, or will do, what was cancelled, whatever polls were under way.
CancelledRanNowhere ==
    \A c \in Commands, d \in Desks :
        command[c].st = "CANCELLED" /\ desk[d].active
            => ran[c][d].st # "APPLIED" /\ (c \in inbox[d] => ran[c][d] # NotRun)

\* "duplicate delivery of one intent can never create multiple authoritative
\* entities in a Store" (CreateCatalogAdminCommandWithTargets).
CreatedOnce ==
    \A c \in Creating : \A d, o \in Desks :
        ran[c][d].st = "APPLIED" /\ ran[c][o].st = "APPLIED" => d = o

AdminIsSound == CancelledRanNowhere /\ CreatedOnce
=============================================================================
