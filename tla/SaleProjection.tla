--------------------------- MODULE SaleProjection ---------------------------
(***************************************************************************)
(* The asynchronous projection of finalized sales: the drain loop of the   *)
(* in-process worker (internal/sale/projector.go), and the transactions    *)
(* ProjectSale, ProjectSaleV2 and ProjectSaleV3 run against PostgreSQL.    *)
(* The three versions are one algorithm over three processor names and     *)
(* share sale_event_ownership and sales_projection, so a version is a      *)
(* parameter here.  The code keeps a copy of the transaction per version;  *)
(* the three are mapped to the parts of the one attempt below.             *)
(*                                                                         *)
(* One attempt at an event is up to three transactions, each a step:       *)
(* arbitration, then either the projection transaction (locked, then       *)
(* committed or rolled back) or markBlocked, and persistRetry after a      *)
(* failure.  Between steps other instances, the operator, time and crashes *)
(* interleave.  A transaction that fails may have committed all the same   *)
(* (the answer to COMMIT was lost).                                        *)
(*                                                                         *)
(* Events are numbered by received_at, the order of discovery.             *)
(***************************************************************************)
EXTENDS Naturals, FiniteSets

CONSTANTS
    Events,         \* event ids, a set of naturals
    Sales,
    Workers,        \* one projector per running instance
    SaleOf,         \* the sale_id in each event's payload
    Version,        \* the processor of each event's type
    Invalid,        \* the events Decode or Validate refuses
    NoEvent,        \* no row
    BatchSize,      \* the LIMIT of the discovery queries
    AppClockLags,   \* may the application clock be behind the database's?
    MaxFaults,      \* bound: failing statements, lost answers and crashes
    MaxResets,      \* bound: operator retries of one event
    MaxRebuilds     \* bound: rebuilds of the derived tables

Processors == {"v1", "v2", "v3"}

ASSUME ConstantsAssumption ==
    /\ Events \subseteq Nat
    /\ NoEvent \notin Events
    /\ SaleOf \in [Events -> Sales]
    /\ Version \in [Events -> Processors]
    /\ Invalid \subseteq Events
    /\ BatchSize \in Nat \ {0}
    /\ AppClockLags \in BOOLEAN
    /\ MaxFaults \in Nat /\ MaxResets \in Nat /\ MaxRebuilds \in Nat

VARIABLES
    inbox,      \* sync_events: the accepted sale events
    owner,      \* sale_event_ownership: sale -> winning event
    header,     \* sales_projection and its children: sale -> source event
    proc,       \* sync_event_processing: event -> processor -> row
    pc,         \* what each worker does next
    todo,       \* the discovered events a worker has not tried yet
    cur,        \* the event a worker is trying
    claim,      \* the row the open projection transaction locked
    retryUnder, \* the processor the pending persistRetry names
    rebuild,    \* "idle", or "cleared" between the two steps of a rebuild
    faults, resets, rebuilds

tables  == <<inbox, owner, header, proc>>
worker  == <<pc, todo, cur, claim, retryUnder>>
bounds  == <<faults, resets, rebuilds>>
vars    == <<tables, worker, rebuild, bounds>>
-----------------------------------------------------------------------------
(* Processing rows.  Of next_attempt_at only the two comparisons the code  *)
(* makes are kept: with the database's now() when it discovers events, and *)
(* with the application's clock when it claims one.                        *)

Statuses == {"none", "pending", "retry", "processed", "blocked"}
Rows == [st : Statuses, dbDue : BOOLEAN, appDue : BOOLEAN]

Row(st) == [st |-> st, dbDue |-> FALSE, appDue |-> FALSE]
NoRow == Row("none")
Waiting == Row("retry")

Settled(row) == row.st \in {"processed", "blocked"}

\* ClaimProcessing inserts a pending row unless there is one.
Claimed(row) == IF row.st = "none" THEN Row("pending") ELSE row

\* markBlocked keeps a processed row and overrides every other.
BlockedRow(row) == IF row.st = "processed" THEN row ELSE Row("blocked")

\* persistRetry leaves a settled row alone.
RetryRow(row) == IF Settled(row) THEN row ELSE Waiting

SetRow(e, p, row) == proc' = [proc EXCEPT ![e][p] = row]

\* A row is locked from LockProcessing to the end of that transaction.
RowLocked(e, p) ==
    \E w \in Workers : pc[w] = "locked" /\ cur[w] = e /\ Version[e] = p

\* Mutant: discovery that forgets due retries.
DiscoverableOnce(e) == proc[e][Version[e]].st \in {"none", "pending"}

Discoverable(e) ==
    LET row == proc[e][Version[e]] IN
    \/ row.st \in {"none", "pending"}
    \/ row.st = "retry" /\ row.dbDue

Pending(p) == {e \in inbox : Version[e] = p /\ Discoverable(e)}

Oldest(S, n) == {e \in S : Cardinality({f \in S : f < e}) < n}

Discovered == UNION {Oldest(Pending(p), BatchSize) : p \in Processors}

VersionRank == [v1 |-> 1, v2 |-> 2, v3 |-> 3]

\* The drain appends the v2 and then the v3 events to the v1 events.
Precedes(e, f) ==
    \/ VersionRank[Version[e]] < VersionRank[Version[f]]
    \/ Version[e] = Version[f] /\ e < f

IsFirst(e, S) == e \in S /\ \A f \in S \ {e} : Precedes(e, f)

\* The event is valid and another one owns its sale.
Lost(e) == owner[SaleOf[e]] \notin {e, NoEvent}
-----------------------------------------------------------------------------
Init ==
    /\ inbox = {}
    /\ owner = [s \in Sales |-> NoEvent]
    /\ header = [s \in Sales |-> NoEvent]
    /\ proc = [e \in Events |-> [p \in Processors |-> NoRow]]
    /\ pc = [w \in Workers |-> "scan"]
    /\ todo = [w \in Workers |-> {}]
    /\ cur = [w \in Workers |-> NoEvent]
    /\ claim = [w \in Workers |-> NoRow]
    /\ retryUnder = [w \in Workers |-> "v1"]
    /\ rebuild = "idle"
    /\ faults = 0 /\ resets = 0 /\ rebuilds = 0

Goto(w, label) == pc' = [pc EXCEPT ![w] = label]

\* The attempt is over: the local state of the worker is forgotten.
NextEvent(w) ==
    /\ Goto(w, "take")
    /\ cur' = [cur EXCEPT ![w] = NoEvent]
    /\ claim' = [claim EXCEPT ![w] = NoRow]

Fault == faults < MaxFaults /\ faults' = faults + 1 /\ UNCHANGED <<resets, rebuilds>>

\* Mutant: a failure taken for a verdict.
RetryNextBlocks(w, p) ==
    /\ Goto(w, "block")
    /\ retryUnder' = [retryUnder EXCEPT ![w] = p]
    /\ claim' = [claim EXCEPT ![w] = NoRow]
    /\ UNCHANGED <<todo, cur, rebuild>>

\* A failed transaction is rolled back and persistRetry comes next.
RetryNext(w, p) ==
    /\ Goto(w, "retry")
    /\ retryUnder' = [retryUnder EXCEPT ![w] = p]
    /\ claim' = [claim EXCEPT ![w] = NoRow]
    /\ UNCHANGED <<todo, cur, rebuild>>
-----------------------------------------------------------------------------
(* The drain loop.                                                         *)

Ingest(e) ==
    /\ e \notin inbox
    /\ inbox' = inbox \cup {e}
    /\ UNCHANGED <<owner, header, proc, worker, rebuild, bounds>>

\* A local wake after an ingestion, the 30 s ticker, or a restart.
Wake(w) ==
    /\ pc[w] = "asleep"
    /\ Goto(w, "scan")
    /\ UNCHANGED <<tables, todo, cur, claim, retryUnder, rebuild, bounds>>

Scan(w) ==
    /\ pc[w] = "scan"
    /\ Discovered # {}
    /\ todo' = [todo EXCEPT ![w] = Discovered]
    /\ Goto(w, "take")
    /\ UNCHANGED <<tables, cur, claim, retryUnder, rebuild, bounds>>

DrainDone(w) ==
    /\ pc[w] = "scan"
    /\ Discovered = {}
    /\ Goto(w, "asleep")
    /\ UNCHANGED <<tables, todo, cur, claim, retryUnder, rebuild, bounds>>

\* Mutant: arbitration before validation.
TakeUnvalidated(w) ==
    /\ pc[w] = "take"
    /\ \E e \in todo[w] :
        /\ IsFirst(e, todo[w])
        /\ cur' = [cur EXCEPT ![w] = e]
        /\ todo' = [todo EXCEPT ![w] = @ \ {e}]
        /\ Goto(w, "arbitrate")
    /\ UNCHANGED <<tables, claim, retryUnder, rebuild, bounds>>

\* projectOnce loads the event and validates it, without a transaction.
Take(w) ==
    /\ pc[w] = "take"
    /\ \E e \in todo[w] :
        /\ IsFirst(e, todo[w])
        /\ cur' = [cur EXCEPT ![w] = e]
        /\ todo' = [todo EXCEPT ![w] = @ \ {e}]
        /\ Goto(w, IF e \in Invalid THEN "block" ELSE "arbitrate")
    /\ UNCHANGED <<tables, claim, retryUnder, rebuild, bounds>>

DrainAgain(w) ==
    /\ pc[w] = "take"
    /\ todo[w] = {}
    /\ Goto(w, "scan")
    /\ UNCHANGED <<tables, todo, cur, claim, retryUnder, rebuild, bounds>>
-----------------------------------------------------------------------------
(* The transactions of one attempt.                                        *)

\* Mutant: ON CONFLICT DO UPDATE, the last claimant owns.
OwnLast(s, e) == [owner EXCEPT ![s] = e]

Own(s, e) == IF owner[s] = NoEvent THEN [owner EXCEPT ![s] = e] ELSE owner

\* arbitrate: INSERT ... ON CONFLICT DO NOTHING decides for ever.
Arbitrate(w) ==
    LET e == cur[w]
        s == SaleOf[e] IN
    /\ pc[w] = "arbitrate"
    /\ owner' = Own(s, e)
    /\ Goto(w, IF owner[s] \in {NoEvent, e} THEN "project" ELSE "block")
    /\ UNCHANGED <<inbox, header, proc, todo, cur, claim, retryUnder,
                   rebuild, bounds>>

ArbitrateFails(w) ==
    LET e == cur[w] IN
    /\ pc[w] = "arbitrate"
    /\ Fault
    /\ owner' \in {owner, Own(SaleOf[e], e)}
    /\ RetryNext(w, Version[e])
    /\ UNCHANGED <<inbox, header, proc>>

\* ClaimProcessing and LockProcessing: the row stays locked from here on.
LockRow(w) ==
    LET e == cur[w] IN
    /\ pc[w] = "project"
    /\ ~RowLocked(e, Version[e])
    /\ claim' = [claim EXCEPT ![w] = Claimed(proc[e][Version[e]])]
    /\ Goto(w, "locked")
    /\ UNCHANGED <<tables, todo, cur, retryUnder, rebuild, bounds>>

LockFails(w) ==
    /\ pc[w] = "project"
    /\ Fault
    /\ RetryNext(w, Version[cur[w]])
    /\ UNCHANGED tables

\* The locked row says the attempt has nothing to do.
NotDue(row) == row.st = "retry" /\ ~row.appDue

SkipClaimed(w) ==
    /\ pc[w] = "locked"
    /\ Settled(claim[w]) \/ NotDue(claim[w])
    /\ NextEvent(w)
    /\ UNCHANGED <<tables, todo, retryUnder, rebuild, bounds>>

\* Header, children and the processed row, in one transaction.
WriteSale(e) ==
    /\ header[SaleOf[e]] \in {NoEvent, e}
    /\ header' = [header EXCEPT ![SaleOf[e]] = e]
    /\ SetRow(e, Version[e], Row("processed"))

Project(w) ==
    /\ pc[w] = "locked"
    /\ ~Settled(claim[w]) /\ ~NotDue(claim[w])
    /\ WriteSale(cur[w])
    /\ NextEvent(w)
    /\ UNCHANGED <<inbox, owner, todo, retryUnder, rebuild, bounds>>

ProjectFails(w) ==
    /\ pc[w] = "locked"
    /\ claim[w].st # "blocked" /\ ~NotDue(claim[w])
    /\ Fault
    /\ \/ UNCHANGED <<header, proc>>
       \/ ~Settled(claim[w]) /\ WriteSale(cur[w])
    /\ RetryNext(w, Version[cur[w]])
    /\ UNCHANGED <<inbox, owner>>

\* markBlocked, under the processor of the event's version.
Block(w) ==
    LET e == cur[w]
        p == Version[e] IN
    /\ pc[w] = "block"
    /\ ~RowLocked(e, p)
    /\ SetRow(e, p, BlockedRow(proc[e][p]))
    /\ NextEvent(w)
    /\ UNCHANGED <<inbox, owner, header, todo, retryUnder, rebuild, bounds>>

\* Its failure paths name the v1 processor whatever the version.
BlockFails(w) ==
    LET e == cur[w]
        p == Version[e] IN
    /\ pc[w] = "block"
    /\ Fault
    /\ \/ UNCHANGED proc
       \/ ~RowLocked(e, p) /\ SetRow(e, p, BlockedRow(proc[e][p]))
    /\ RetryNext(w, "v1")
    /\ UNCHANGED <<inbox, owner, header>>

\* persistRetry, in a transaction of its own.
PersistRetry(w) ==
    LET e == cur[w]
        p == retryUnder[w] IN
    /\ pc[w] = "retry"
    /\ ~RowLocked(e, p)
    /\ SetRow(e, p, RetryRow(proc[e][p]))
    /\ NextEvent(w)
    /\ UNCHANGED <<inbox, owner, header, todo, retryUnder, rebuild, bounds>>

\* Nothing is persisted when the event cannot be loaded, when a transaction
\* cannot begin, and when persistRetry itself fails.
AttemptLost(w) ==
    /\ pc[w] \in {"arbitrate", "project", "block", "retry"}
    /\ Fault
    /\ NextEvent(w)
    /\ UNCHANGED <<tables, todo, retryUnder, rebuild>>

\* The process dies: its transaction rolls back and its locks are released.
\* A discovery query that fails ends the drain in the same way.
Crash(w) ==
    /\ pc[w] # "asleep"
    /\ Fault
    /\ Goto(w, "asleep")
    /\ todo' = [todo EXCEPT ![w] = {}]
    /\ cur' = [cur EXCEPT ![w] = NoEvent]
    /\ claim' = [claim EXCEPT ![w] = NoRow]
    /\ UNCHANGED <<tables, retryUnder, rebuild>>
-----------------------------------------------------------------------------
(* Time and the operator.                                                  *)

\* next_attempt_at passes on the database's clock, and at that moment or
\* later on the application's.  Time does not wait for locks.
DbDue(e, p) ==
    /\ proc[e][p].st = "retry" /\ ~proc[e][p].dbDue
    /\ SetRow(e, p, [proc[e][p] EXCEPT !.dbDue = TRUE, !.appDue = ~AppClockLags])
    /\ UNCHANGED <<inbox, owner, header, worker, rebuild, bounds>>

AppDue(e, p) ==
    /\ proc[e][p].st = "retry" /\ proc[e][p].dbDue /\ ~proc[e][p].appDue
    /\ SetRow(e, p, [proc[e][p] EXCEPT !.appDue = TRUE])
    /\ UNCHANGED <<inbox, owner, header, worker, rebuild, bounds>>

\* moonlight-cloud projection retry <event> <processor>.
ResetProcessing(e, p) ==
    /\ resets < MaxResets
    /\ proc[e][p].st \in {"retry", "blocked"}
    /\ ~RowLocked(e, p)
    /\ SetRow(e, p, Row("pending"))
    /\ resets' = resets + 1
    /\ UNCHANGED <<inbox, owner, header, worker, rebuild, faults, rebuilds>>

\* The documented rebuild: delete the derived rows, keep the ownership, and
\* then reset the processing rows.  The projectors keep running.
RebuildClear ==
    /\ rebuild = "idle"
    /\ rebuilds < MaxRebuilds
    /\ rebuild' = "cleared"
    /\ rebuilds' = rebuilds + 1
    /\ header' = [s \in Sales |-> NoEvent]
    /\ UNCHANGED <<inbox, owner, proc, worker, faults, resets>>

\* Mutant: a reset of retry and blocked rows only, as ResetProcessing does.
RebuildResetPartial ==
    /\ rebuild = "cleared"
    /\ \A e \in Events, p \in Processors : proc[e][p].st # "none" => ~RowLocked(e, p)
    /\ proc' = [e \in Events |-> [p \in Processors |->
                   IF proc[e][p].st \in {"retry", "blocked"} THEN Row("pending")
                   ELSE proc[e][p]]]
    /\ rebuild' = "idle"
    /\ UNCHANGED <<inbox, owner, header, worker, bounds>>

\* The UPDATE waits for locked rows; it does not see an uncommitted one.
RebuildReset ==
    /\ rebuild = "cleared"
    /\ \A e \in Events, p \in Processors : proc[e][p].st # "none" => ~RowLocked(e, p)
    /\ proc' = [e \in Events |-> [p \in Processors |->
                   IF proc[e][p].st = "none" THEN NoRow ELSE Row("pending")]]
    /\ rebuild' = "idle"
    /\ UNCHANGED <<inbox, owner, header, worker, bounds>>
-----------------------------------------------------------------------------
\* What a worker does by itself, when nothing fails.
WorkerStep(w) ==
    \/ Wake(w) \/ Scan(w) \/ DrainDone(w) \/ Take(w) \/ DrainAgain(w)
    \/ Arbitrate(w) \/ LockRow(w) \/ SkipClaimed(w) \/ Project(w)
    \/ Block(w) \/ PersistRetry(w)

WorkerFault(w) ==
    \/ ArbitrateFails(w) \/ LockFails(w) \/ ProjectFails(w) \/ BlockFails(w)
    \/ AttemptLost(w) \/ Crash(w)

Passing(e, p) == DbDue(e, p) \/ AppDue(e, p)

Next ==
    \/ \E e \in Events : Ingest(e)
    \/ \E w \in Workers : WorkerStep(w) \/ WorkerFault(w)
    \/ \E e \in Events, p \in Processors : Passing(e, p) \/ ResetProcessing(e, p)
    \/ RebuildClear
    \/ RebuildReset

Safe == Init /\ [][Next]_vars

\* The goroutine of a worker is scheduled, time passes, and an operator who
\* began a rebuild finishes it.  Nothing makes an event arrive, an operator
\* act, or a statement fail.
Fairness ==
    /\ \A w \in Workers : WF_vars(WorkerStep(w))
    /\ \A e \in Events, p \in Processors : WF_vars(Passing(e, p))
    /\ WF_vars(RebuildReset)

Spec == Safe /\ Fairness
-----------------------------------------------------------------------------
(* Properties.                                                             *)

Labels == {"asleep", "scan", "take", "arbitrate", "project", "locked", "block",
           "retry"}

Attempting == Labels \ {"asleep", "scan", "take"}

\* Every variable has its type; a worker holds an event exactly while it
\* attempts it.
TypeOK ==
    /\ inbox \subseteq Events
    /\ owner \in [Sales -> Events \cup {NoEvent}]
    /\ header \in [Sales -> Events \cup {NoEvent}]
    /\ proc \in [Events -> [Processors -> Rows]]
    /\ pc \in [Workers -> Labels]
    /\ todo \in [Workers -> SUBSET Events]
    /\ cur \in [Workers -> Events \cup {NoEvent}]
    /\ claim \in [Workers -> Rows]
    /\ retryUnder \in [Workers -> Processors]
    /\ rebuild \in {"idle", "cleared"}
    /\ faults \in 0 .. MaxFaults
    /\ resets \in 0 .. MaxResets
    /\ rebuilds \in 0 .. MaxRebuilds
    /\ \A w \in Workers : cur[w] # NoEvent <=> pc[w] \in Attempting

\* A projected sale shows the event that durably owns it, whichever
\* instance wrote it and whatever was retried, reset or rebuilt: the query
\* OwnershipIntegrityMismatches returns no row.
ProjectedByWinner ==
    \A s \in Sales : header[s] # NoEvent => header[s] = owner[s]

\* A processed row means the complete projection is committed, by the very
\* event: projection and status commit together, and no failure path and
\* no second instance separates them.  Between the two steps of a rebuild
\* the derived rows are missing on purpose.
ProcessedIsProjected ==
    \A e \in Events, p \in Processors :
        proc[e][p].st = "processed" /\ rebuild = "idle" => header[SaleOf[e]] = e

\* What the rows of the sales say.
RowsAreSound == ProjectedByWinner /\ ProcessedIsProjected

\* Only a deterministic verdict blocks an event: the payload is invalid or
\* another event owns the sale.  A failure on the way of the rightful owner
\* never parks it in blocked, which no scan would ever revisit.
BlockedForCause ==
    \A e \in Events, p \in Processors :
        proc[e][p].st = "blocked" => e \in Invalid \/ Lost(e)

\* The first winner of a sale is permanent, through failed projections,
\* crashes, operator resets and rebuilds.
WinnerPermanent ==
    [][\A s \in Sales : owner[s] # NoEvent => owner'[s] = owner[s]]_vars

\* A worker never takes a settled row back: only the operator reopens a
\* processed or a blocked row, whatever stale list or stale attempt a
\* second instance still works on.
SettledIsFinal ==
    [][\A e \in Events, p \in Processors :
          Settled(proc[e][p]) /\ proc'[e][p].st # proc[e][p].st =>
              resets' > resets \/ (rebuild = "cleared" /\ rebuild' = "idle")]_vars

\* Every accepted event is settled in the end, and stays so: no lost wake,
\* crash, failed retry write or full discovery batch strands it.
EverySaleSettles ==
    <>[](\A e \in inbox : Settled(proc[e][Version[e]]))

\* The ledger this implements: the workers, rows and retries only decide
\* when the winners are chosen and posted.
Ledger == INSTANCE SaleLedger WITH winner <- owner, book <- header

ImplementsLedger == Ledger!Spec

\* The safety part of it alone.
ImplementsLedgerSteps == Ledger!Safe

\* What the returns wait for and lock: the sales that were sent, those whose
\* winner is processed, and those that have a header.
SentSales == {s \in Sales : \E e \in inbox \ Invalid : SaleOf[e] = s}
ProcessedSales ==
    {s \in Sales : \E e \in Events : owner[s] = e /\ proc[e][Version[e]].st = "processed"}
ShownSales == {s \in Sales : header[s] # NoEvent}

Seen == INSTANCE ProjectedSales WITH
    saleIn <- SentSales, saleDone <- ProcessedSales, saleUp <- ShownSales

\* The projectors do to the sales what ReturnProjection takes them to do.
IsSeenByReturns == Seen!Safe

\* What the reports read: the events whose rows are there, and those that are
\* blocked.
ShownEvents == {e \in Events : header[SaleOf[e]] = e}
BlockedEvents == {e \in Events : proc[e][Version[e]].st = "blocked"}

Tables == INSTANCE BookedFacts WITH
    Facts <- Events, inboxed <- inbox, booked <- ShownEvents, refused <- BlockedEvents,
    rebuilt <- (rebuilds > 0)

\* If no accepted event is unsettled, each has its rows or is blocked, but for
\* the time between the two steps of a rebuild; and as long as nothing is
\* rebuilt that is all it takes.
FreshIsWhole ==
    LET settled == \A e \in inbox : Settled(proc[e][Version[e]])
        shown == inbox \subseteq ShownEvents \cup BlockedEvents IN
    /\ settled /\ rebuild = "idle" => shown
    /\ shown /\ rebuilds = 0 => settled

\* They do to the rows what Reports takes them to do, and the freshness that it
\* reads off the rows is the one the code reads off the processing rows.
IsReported == Tables!Safe /\ []FreshIsWhole

\* The steps of the ledger, towards the returns and towards the reports, on
\* every interleaving of instances, failures, resets and rebuilds.
KeepsItsContracts == ImplementsLedgerSteps /\ IsSeenByReturns /\ IsReported
=============================================================================
