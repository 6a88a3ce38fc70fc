-------------------------- MODULE ReturnProjection --------------------------
(***************************************************************************)
(* The projection of returns and refunds (internal/returnrefund/           *)
(* projector.go, internal/adapter/postgres/returns.go).  It repeats the    *)
(* sale flow (arbitration, projection, markReturnBlocked,                  *)
(* persistReturnRetry, each a transaction) and adds what this module is    *)
(* about: a return waits for the projection of its sale, and under the     *)
(* lock of the sale's row it is checked against all the returns committed  *)
(* for that sale.                                                          *)
(*                                                                         *)
(* The projection of the sale is the other projector's work and appears    *)
(* here as one step.  A sale has one line; a return gives back a quantity  *)
(* of it and refunds an amount.                                            *)
(***************************************************************************)
EXTENDS Naturals, FiniteSets

CONSTANTS
    Events,         \* return events, numbered in the order of received_at; it is
                    \* read before the transaction, so they may appear out of order
    Returns,        \* return_refund_ids
    Sales,
    Workers,        \* one projector per running instance
    ReturnOf, SaleOf,
    Qty, Refund,    \* what an event gives back, and refunds
    Sold, Total,    \* the sale's quantity, and its amount
    Invalid,        \* the events Decode or Validate refuses
    Mismatched,     \* wrong store, currency, FX snapshot or line for the sale
    NoEvent,
    BatchSize,
    MaxFaults,      \* bound: failing statements, lost answers and crashes
    MaxRebuilds     \* bound: rebuilds of the derived tables

ASSUME ConstantsAssumption ==
    /\ Events \subseteq Nat /\ NoEvent \notin Events
    /\ ReturnOf \in [Events -> Returns] /\ SaleOf \in [Events -> Sales]
    /\ Qty \in [Events -> Nat \ {0}] /\ Refund \in [Events -> Nat]
    /\ Sold \in [Sales -> Nat] /\ Total \in [Sales -> Nat]
    /\ Invalid \subseteq Events /\ Mismatched \subseteq Events
    /\ BatchSize \in Nat \ {0}
    /\ MaxFaults \in Nat /\ MaxRebuilds \in Nat

VARIABLES
    inbox,      \* the accepted return events
    saleIn,     \* the sales whose event is accepted
    saleDone,   \* the sales whose processing row is processed
    saleUp,     \* the sales that have a row in sales_projection
    owner,      \* return_refund_ownership: return -> winning event
    book,       \* the events whose return, lines and payments are committed
    proc,       \* event -> status of its processing row, and whether it is due
    pc, todo, cur,
    claim,      \* the status the open projection transaction locked
    rebuild,    \* "idle", or "cleared" between the two steps of a rebuild
    faults, rebuilds

sales  == <<saleIn, saleDone, saleUp>>
tables == <<inbox, owner, book, proc>>
worker == <<pc, todo, cur, claim>>
admin  == <<rebuild, rebuilds>>
vars   == <<sales, tables, worker, admin, faults>>
-----------------------------------------------------------------------------
Statuses == {"none", "pending", "retry", "processed", "blocked"}
Rows == [st : Statuses, due : BOOLEAN]
Row(st) == [st |-> st, due |-> FALSE]

Settled(row) == row.st \in {"processed", "blocked"}
NotDue(row) == row.st = "retry" /\ ~row.due

\* markReturnBlocked keeps a processed row, persistReturnRetry a settled one.
BlockedRow(row) == IF row.st = "processed" THEN row ELSE Row("blocked")
RetryRow(row) == IF Settled(row) THEN row ELSE Row("retry")

SetRow(e, row) == proc' = [proc EXCEPT ![e] = row]

\* The processing row and, once the guards have passed, the sale's row are
\* locked until the projection transaction ends.
Locking == {"locked", "guarded"}
RowLocked(e) == \E w \in Workers : pc[w] \in Locking /\ cur[w] = e
\* Mutant: the sale is read without FOR UPDATE.
SaleNotLocked(s) == FALSE
SaleLocked(s) == \E w \in Workers : pc[w] = "guarded" /\ SaleOf[cur[w]] = s

\* Mutant: a retry is never discovered again.
DiscoverableOnce(e) == proc[e].st \in {"none", "pending"}

Discoverable(e) ==
    proc[e].st \in {"none", "pending"} \/ (proc[e].st = "retry" /\ proc[e].due)

Discovered ==
    LET pending == {e \in inbox : Discoverable(e)} IN
    {e \in pending : Cardinality({f \in pending : f < e}) < BatchSize}

\* CumulativeReturnedQty and CumulativeRefundedForSale: every committed
\* return of the sale counts, the event's own included.  A SUM is the number
\* of the units it adds up.
OfSale(s) == {e \in book : SaleOf[e] = s}
Units(f, S) == UNION {{e} \X (1 .. f[e]) : e \in S}
Returned(s) == Cardinality(Units(Qty, OfSale(s)))
Refunded(s) == Cardinality(Units(Refund, OfSale(s)))

Fits(e) ==
    /\ Returned(SaleOf[e]) + Qty[e] <= Sold[SaleOf[e]]
    /\ Refunded(SaleOf[e]) + Refund[e] <= Total[SaleOf[e]]

Lost(e) == owner[ReturnOf[e]] \notin {e, NoEvent}
-----------------------------------------------------------------------------
Init ==
    /\ inbox = {} /\ saleIn = {} /\ saleDone = {} /\ saleUp = {}
    /\ owner = [r \in Returns |-> NoEvent]
    /\ book = {}
    /\ proc = [e \in Events |-> Row("none")]
    /\ pc = [w \in Workers |-> "scan"]
    /\ todo = [w \in Workers |-> {}]
    /\ cur = [w \in Workers |-> NoEvent]
    /\ claim = [w \in Workers |-> Row("none")]
    /\ rebuild = "idle"
    /\ faults = 0 /\ rebuilds = 0

Goto(w, label) == pc' = [pc EXCEPT ![w] = label]

NextEvent(w) ==
    /\ Goto(w, "take")
    /\ cur' = [cur EXCEPT ![w] = NoEvent]
    /\ claim' = [claim EXCEPT ![w] = Row("none")]
    /\ UNCHANGED todo

\* The projection transaction is rolled back; another transaction comes next.
RolledBack(w, label) ==
    /\ Goto(w, label)
    /\ claim' = [claim EXCEPT ![w] = Row("none")]
    /\ UNCHANGED <<todo, cur>>

Fault == faults < MaxFaults /\ faults' = faults + 1
-----------------------------------------------------------------------------
IngestReturn(e) ==
    /\ e \notin inbox
    /\ inbox' = inbox \cup {e}
    /\ UNCHANGED <<sales, owner, book, proc, worker, admin, faults>>

IngestSale(s) ==
    /\ s \notin saleIn
    /\ saleIn' = saleIn \cup {s}
    /\ UNCHANGED <<saleDone, saleUp, tables, worker, admin, faults>>

\* The sale projector writes the sale and marks its event, in one step.
ProjectSale(s) ==
    /\ s \in saleIn \ saleDone
    /\ saleDone' = saleDone \cup {s}
    /\ saleUp' = saleUp \cup {s}
    /\ UNCHANGED <<saleIn, tables, worker, admin, faults>>

Wake(w) ==
    /\ pc[w] = "asleep"
    /\ Goto(w, "scan")
    /\ UNCHANGED <<sales, tables, todo, cur, claim, admin, faults>>

Scan(w) ==
    /\ pc[w] = "scan"
    /\ todo' = [todo EXCEPT ![w] = Discovered]
    /\ Goto(w, IF Discovered = {} THEN "asleep" ELSE "take")
    /\ UNCHANGED <<sales, tables, cur, claim, admin, faults>>

\* The event is loaded and validated without a transaction.
Take(w) ==
    /\ pc[w] = "take"
    /\ \E e \in todo[w] :
        /\ \A f \in todo[w] : e <= f
        /\ cur' = [cur EXCEPT ![w] = e]
        /\ todo' = [todo EXCEPT ![w] = @ \ {e}]
        /\ Goto(w, IF e \in Invalid THEN "block" ELSE "arbitrate")
    /\ UNCHANGED <<sales, tables, claim, admin, faults>>

DrainAgain(w) ==
    /\ pc[w] = "take"
    /\ todo[w] = {}
    /\ Goto(w, "scan")
    /\ UNCHANGED <<sales, tables, todo, cur, claim, admin, faults>>
-----------------------------------------------------------------------------
\* Mutant: the claim of a return overwrites an earlier one.
OwnLast(r, e) == [owner EXCEPT ![r] = e]

Own(r, e) == IF owner[r] = NoEvent THEN [owner EXCEPT ![r] = e] ELSE owner

Arbitrate(w) ==
    LET e == cur[w]
        r == ReturnOf[e] IN
    /\ pc[w] = "arbitrate"
    /\ owner' = Own(r, e)
    /\ Goto(w, IF owner[r] \in {NoEvent, e} THEN "project" ELSE "block")
    /\ UNCHANGED <<sales, inbox, book, proc, todo, cur, claim, admin, faults>>

ArbitrateFails(w) ==
    /\ pc[w] = "arbitrate"
    /\ Fault
    /\ owner' \in {owner, Own(ReturnOf[cur[w]], cur[w])}
    /\ RolledBack(w, "retry")
    /\ UNCHANGED <<sales, inbox, book, proc, admin>>

\* ClaimProcessing and LockProcessing.
LockRow(w) ==
    LET row == proc[cur[w]] IN
    /\ pc[w] = "project"
    /\ ~RowLocked(cur[w])
    /\ claim' = [claim EXCEPT ![w] = IF row.st = "none" THEN Row("pending") ELSE row]
    /\ Goto(w, "locked")
    /\ UNCHANGED <<sales, tables, todo, cur, admin, faults>>

SkipClaimed(w) ==
    /\ pc[w] = "locked"
    /\ Settled(claim[w]) \/ NotDue(claim[w])
    /\ NextEvent(w)
    /\ UNCHANGED <<sales, tables, admin, faults>>

Attempts(w) == pc[w] = "locked" /\ ~Settled(claim[w]) /\ ~NotDue(claim[w])

\* Mutant: a missing sale is a verdict.
AwaitSaleBlocks(w) ==
    /\ Attempts(w)
    /\ SaleOf[cur[w]] \notin saleUp
    /\ RolledBack(w, "block")
    /\ UNCHANGED <<sales, tables, admin, faults>>

\* LockSaleProjectionForReturn finds no row: a wait, never a verdict.
AwaitSale(w) ==
    /\ Attempts(w)
    /\ SaleOf[cur[w]] \notin saleUp
    /\ RolledBack(w, "retry")
    /\ UNCHANGED <<sales, tables, admin, faults>>

\* The sale's row is locked and the return is compared with the sale and
\* with everything committed for it.  A refusal rolls the locks back, and
\* is recorded by the transaction of markReturnBlocked.
GuardSale(w) ==
    LET e == cur[w] IN
    /\ Attempts(w)
    /\ SaleOf[e] \in saleUp
    /\ ~SaleLocked(SaleOf[e])
    /\ \/ /\ e \notin Mismatched /\ Fits(e)
          /\ Goto(w, "guarded")
          /\ UNCHANGED <<todo, cur, claim>>
       \/ /\ e \in Mismatched \/ ~Fits(e)
          /\ RolledBack(w, "block")
    /\ UNCHANGED <<sales, tables, admin, faults>>

\* Header, lines, payments and the processed row, in one transaction.
WriteReturn(e) ==
    /\ book' = book \cup {e}
    /\ SetRow(e, Row("processed"))

Project(w) ==
    /\ pc[w] = "guarded"
    /\ WriteReturn(cur[w])
    /\ NextEvent(w)
    /\ UNCHANGED <<sales, inbox, owner, admin, faults>>

\* Some statement of the projection transaction fails, or its COMMIT does
\* and may have happened.
ProjectFails(w) ==
    /\ Fault
    /\ \/ /\ pc[w] \in {"project", "locked"}
          /\ UNCHANGED <<book, proc>>
       \/ /\ pc[w] = "guarded"
          /\ UNCHANGED <<book, proc>> \/ WriteReturn(cur[w])
    /\ RolledBack(w, "retry")
    /\ UNCHANGED <<sales, inbox, owner, admin>>

Block(w) ==
    /\ pc[w] = "block"
    /\ ~RowLocked(cur[w])
    /\ SetRow(cur[w], BlockedRow(proc[cur[w]]))
    /\ NextEvent(w)
    /\ UNCHANGED <<sales, inbox, owner, book, admin, faults>>

BlockFails(w) ==
    /\ pc[w] = "block"
    /\ Fault
    /\ \/ UNCHANGED proc
       \/ ~RowLocked(cur[w]) /\ SetRow(cur[w], BlockedRow(proc[cur[w]]))
    /\ RolledBack(w, "retry")
    /\ UNCHANGED <<sales, inbox, owner, book, admin>>

PersistReturnRetry(w) ==
    /\ pc[w] = "retry"
    /\ ~RowLocked(cur[w])
    /\ SetRow(cur[w], RetryRow(proc[cur[w]]))
    /\ NextEvent(w)
    /\ UNCHANGED <<sales, inbox, owner, book, admin, faults>>

\* The event cannot be loaded, a transaction cannot begin, or
\* persistReturnRetry itself fails: nothing is persisted.
AttemptLost(w) ==
    /\ pc[w] \in {"arbitrate", "project", "block", "retry"}
    /\ Fault
    /\ NextEvent(w)
    /\ UNCHANGED <<sales, tables, admin>>

Crash(w) ==
    /\ pc[w] # "asleep"
    /\ Fault
    /\ Goto(w, "asleep")
    /\ todo' = [todo EXCEPT ![w] = {}]
    /\ cur' = [cur EXCEPT ![w] = NoEvent]
    /\ claim' = [claim EXCEPT ![w] = Row("none")]
    /\ UNCHANGED <<sales, tables, admin>>
-----------------------------------------------------------------------------
\* next_attempt_at passes.
Due(e) ==
    /\ NotDue(proc[e])
    /\ SetRow(e, [proc[e] EXCEPT !.due = TRUE])
    /\ UNCHANGED <<sales, inbox, owner, book, worker, admin, faults>>

\* The rebuild deletes the derived sales, and the returns with them; the
\* DELETE waits for the sale rows that are locked.
RebuildClear ==
    /\ rebuild = "idle"
    /\ rebuilds < MaxRebuilds
    /\ \A s \in saleUp : ~SaleLocked(s)
    /\ rebuild' = "cleared"
    /\ rebuilds' = rebuilds + 1
    /\ saleUp' = {} /\ book' = {}
    /\ UNCHANGED <<saleIn, saleDone, inbox, owner, proc, worker, faults>>

\* Then it resets the processing rows of both processors.
RebuildReset ==
    /\ rebuild = "cleared"
    /\ \A e \in Events : proc[e].st # "none" => ~RowLocked(e)
    /\ proc' = [e \in Events |-> IF proc[e].st = "none" THEN proc[e] ELSE Row("pending")]
    /\ saleDone' = {}
    /\ rebuild' = "idle"
    /\ UNCHANGED <<saleIn, saleUp, inbox, owner, book, worker, rebuilds, faults>>
-----------------------------------------------------------------------------
WorkerStep(w) ==
    \/ Wake(w) \/ Scan(w) \/ Take(w) \/ DrainAgain(w)
    \/ Arbitrate(w) \/ LockRow(w) \/ SkipClaimed(w) \/ AwaitSale(w) \/ GuardSale(w)
    \/ Project(w) \/ Block(w) \/ PersistReturnRetry(w)

WorkerFault(w) ==
    ArbitrateFails(w) \/ ProjectFails(w) \/ BlockFails(w) \/ AttemptLost(w) \/ Crash(w)

Next ==
    \/ \E e \in Events : IngestReturn(e) \/ Due(e)
    \/ \E s \in Sales : IngestSale(s) \/ ProjectSale(s)
    \/ \E w \in Workers : WorkerStep(w) \/ WorkerFault(w)
    \/ RebuildClear \/ RebuildReset

Safe == Init /\ [][Next]_vars
-----------------------------------------------------------------------------
Labels == {"asleep", "scan", "take", "arbitrate", "project", "locked", "guarded",
           "block", "retry"}

\* Every variable has its type, and a worker holds an event exactly while
\* it attempts one.
TypeOK ==
    /\ inbox \subseteq Events /\ book \subseteq Events
    /\ saleIn \subseteq Sales /\ saleDone \subseteq Sales /\ saleUp \subseteq Sales
    /\ owner \in [Returns -> Events \cup {NoEvent}]
    /\ proc \in [Events -> Rows]
    /\ pc \in [Workers -> Labels]
    /\ todo \in [Workers -> SUBSET Events]
    /\ cur \in [Workers -> Events \cup {NoEvent}]
    /\ claim \in [Workers -> Rows]
    /\ rebuild \in {"idle", "cleared"}
    /\ faults \in 0 .. MaxFaults /\ rebuilds \in 0 .. MaxRebuilds
    /\ \A w \in Workers : cur[w] # NoEvent <=> pc[w] \notin {"asleep", "scan", "take"}

\* The committed returns of a sale never exceed what was sold, in quantity
\* or in money, although each instance compares before it writes: the lock
\* of the sale's row leaves no room for write skew.
NeverOverReturned ==
    \A s \in Sales : Returned(s) <= Sold[s] /\ Refunded(s) <= Total[s]

\* Only the durable winner of a return_refund_id reaches the book, and only
\* over a projected sale it agrees with.
BookIsLegitimate ==
    \A e \in book :
        /\ owner[ReturnOf[e]] = e
        /\ e \notin Invalid \cup Mismatched
        /\ SaleOf[e] \in saleUp

\* A processed row means the return is committed, except between the two
\* steps of a rebuild.
ProcessedIsProjected ==
    \A e \in Events : proc[e].st = "processed" /\ rebuild = "idle" => e \in book

\* What the book says of returns.
BookIsSound == TypeOK /\ BookIsLegitimate /\ ProcessedIsProjected

\* As long as nothing is rebuilt a verdict, taken in one transaction and
\* recorded by the next, still stands when it is recorded: a blocked return
\* is invalid, lost its id, contradicts the sale or no longer fits.  A
\* missing sale never blocks.
BlockedForCause ==
    \A e \in Events : rebuilds = 0 /\ proc[e].st = "blocked" =>
        \/ e \in Invalid \cup Mismatched
        \/ Lost(e)
        \/ e \notin book /\ ~Fits(e)

\* The ledger that the sales keep, kept for the returns as well: a return id
\* has one winner for ever, and is shown as the winner wrote it or not at all.
Shown == [r \in Returns |-> IF owner[r] \in book THEN owner[r] ELSE NoEvent]
Ledger == INSTANCE SaleLedger WITH
    Sales <- Returns, SaleOf <- ReturnOf, winner <- owner, book <- Shown

ImplementsLedgerSteps == Ledger!Safe

\* The sales appear here as ProjectedSales lets them, which is what the sale
\* projectors do (SaleProjection.IsSeenByReturns).
Side == INSTANCE ProjectedSales
SeesProjectedSales == Side!Safe

\* What the reports read: the returns in the book, and those that are blocked.
BlockedEvents == {e \in Events : proc[e].st = "blocked"}

Tables == INSTANCE BookedFacts WITH
    Facts <- Events, inboxed <- inbox, booked <- book, refused <- BlockedEvents,
    rebuilt <- (rebuilds > 0)

\* If no accepted return is unsettled, each is in the book or blocked, but for
\* the time between the two steps of a rebuild; and as long as nothing is
\* rebuilt that is all it takes.
FreshIsWhole ==
    LET settled == \A e \in inbox : Settled(proc[e])
        shown == inbox \subseteq book \cup BlockedEvents IN
    /\ settled /\ rebuild = "idle" => shown
    /\ shown /\ rebuilds = 0 => settled

\* A return reaches the book when its sale is there and it fits, as both are
\* when it does.
BookedAsItFits ==
    [][\A e \in book' \ book : SaleOf[e] \in saleUp /\ Fits(e)]_vars

\* The projectors do to the returns what Reports takes them to do, and the
\* freshness that it reads off the book is the one the code reads off the
\* processing rows.
IsReported == Tables!Safe /\ []FreshIsWhole /\ BookedAsItFits

\* The steps of the ledger, of the sales it waits for and of the rows that are
\* reported, on every interleaving of instances, failures and rebuilds.
KeepsItsContracts == ImplementsLedgerSteps /\ SeesProjectedSales /\ IsReported

\* Every accepted return whose sale is accepted is settled in the end,
\* in whatever order the two arrived and whatever failed meanwhile.
EveryReturnSettles ==
    <>[](\A e \in inbox : SaleOf[e] \in saleIn => Settled(proc[e]))
=============================================================================
