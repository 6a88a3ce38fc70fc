------------------------ MODULE SaleProjectionProofs ------------------------
(***************************************************************************)
(* What SaleProjection guarantees for every number of events, sales and    *)
(* instances, every batch size, and every number of failures, resets and   *)
(* rebuilds.                                                               *)
(***************************************************************************)
EXTENDS SaleProjection, TLAPS

(* The facts that make the safety properties inductive.                    *)

\* Work is only ever done on accepted events.
WorkIsAccepted ==
    \A w \in Workers : todo[w] \subseteq inbox /\ cur[w] \in inbox \cup {NoEvent}

\* A sale is owned by a valid accepted event that claims it.
OwnersClaimTheirSale ==
    \A s \in Sales :
        owner[s] # NoEvent => owner[s] \in inbox \ Invalid /\ SaleOf[owner[s]] = s

\* The stage of an attempt tells what has been established about its event.
StageIsEarned ==
    \A w \in Workers :
        /\ pc[w] = "arbitrate" => cur[w] \notin Invalid
        /\ pc[w] \in {"project", "locked"} => owner[SaleOf[cur[w]]] = cur[w]
        /\ pc[w] = "block" => cur[w] \in Invalid \/ Lost(cur[w])

\* Only the owner of a sale is processed, and under its own processor.
ProcessedByOwner ==
    \A e \in Events, p \in Processors :
        proc[e][p].st = "processed" => owner[SaleOf[e]] = e

\* The row a transaction has locked is the row it read.
LockedRowIsStable ==
    \A w \in Workers : pc[w] = "locked" =>
        claim[w].st = Claimed(proc[cur[w]][Version[cur[w]]]).st

\* No two transactions hold the same row.
LocksExclude ==
    \A v, w \in Workers :
        pc[v] = "locked" /\ pc[w] = "locked" /\ cur[v] = cur[w] => v = w

IInv ==
    /\ TypeOK
    /\ WorkIsAccepted
    /\ OwnersClaimTheirSale
    /\ StageIsEarned
    /\ ProcessedByOwner
    /\ LockedRowIsStable
    /\ LocksExclude
    /\ ProjectedByWinner
    /\ ProcessedIsProjected
    /\ BlockedForCause
-----------------------------------------------------------------------------
(* The operators on processing rows.                                       *)

\* The rows the code writes from nothing are rows.
LEMMA FreshRows ==
    /\ NoRow \in Rows /\ Waiting \in Rows
    /\ Row("pending") \in Rows /\ Row("processed") \in Rows /\ Row("blocked") \in Rows
BY DEF NoRow, Waiting, Row, Rows, Statuses

\* The three ways a transaction rewrites a row yield a row.
LEMMA RewrittenRows ==
    ASSUME NEW row \in Rows
    PROVE  Claimed(row) \in Rows /\ BlockedRow(row) \in Rows /\ RetryRow(row) \in Rows
BY FreshRows DEF Claimed, BlockedRow, RetryRow

\* Time yields a row, and leaves its status alone.
LEMMA AgedRows ==
    ASSUME NEW row \in Rows
    PROVE  /\ [row EXCEPT !.dbDue = TRUE, !.appDue = ~AppClockLags] \in Rows
           /\ [row EXCEPT !.dbDue = TRUE, !.appDue = ~AppClockLags].st = row.st
           /\ [row EXCEPT !.appDue = TRUE] \in Rows
           /\ [row EXCEPT !.appDue = TRUE].st = row.st
<1>1. CASE AppClockLags = TRUE
  BY <1>1 DEF Rows
<1>2. CASE AppClockLags = FALSE
  BY <1>2 DEF Rows
<1> QED BY <1>1, <1>2, ConstantsAssumption

\* Writing one row changes that row and no other.
LEMMA SetRowEffect ==
    ASSUME proc \in [Events -> [Processors -> Rows]],
           NEW e \in Events, NEW p \in Processors, NEW row \in Rows,
           SetRow(e, p, row)
    PROVE  /\ proc' \in [Events -> [Processors -> Rows]]
           /\ proc'[e][p] = row
           /\ \A f \in Events, q \in Processors :
                 f # e \/ q # p => proc'[f][q] = proc[f][q]
BY DEF SetRow

\* A sale without an owner takes the claimant, any other keeps its owner.
LEMMA OwnEffect ==
    ASSUME owner \in [Sales -> Events \cup {NoEvent}],
           NEW s \in Sales, NEW e \in Events
    PROVE  /\ Own(s, e) \in [Sales -> Events \cup {NoEvent}]
           /\ owner[s] = NoEvent => Own(s, e)[s] = e
           /\ \A t \in Sales :
                 (t # s \/ owner[t] # NoEvent) => Own(s, e)[t] = owner[t]
BY DEF Own

\* A worker holds an accepted event while it attempts one.
LEMMA CurrentEvent ==
    ASSUME TypeOK, NEW w \in Workers, pc[w] \in Attempting
    PROVE  /\ cur[w] \in Events
           /\ Version[cur[w]] \in Processors
           /\ SaleOf[cur[w]] \in Sales
BY ConstantsAssumption DEF TypeOK
-----------------------------------------------------------------------------
(* Type correctness.                                                       *)

LEMMA TypeInit == Init => TypeOK
BY ConstantsAssumption
DEF Init, TypeOK, NoRow, Row, Rows, Statuses, Processors, Labels, Attempting

LEMMA TypeNext == TypeOK /\ [Next]_vars => TypeOK'
<1> SUFFICES ASSUME TypeOK, [Next]_vars PROVE TypeOK'
  OBVIOUS
<1> USE DEF tables, worker, bounds, Goto, Labels, Attempting
<1>0. \A e \in Events, p \in Processors : proc[e][p] \in Rows
  BY DEF TypeOK
<1>1. CASE \E e \in Events : Ingest(e)
  BY <1>1 DEF TypeOK, Ingest
<1>2. ASSUME NEW w \in Workers, WorkerStep(w) PROVE TypeOK'
  <2> DEFINE e == cur[w]
  <2>a. pc[w] \in Attempting => /\ e \in Events /\ Version[e] \in Processors
                                 /\ SaleOf[e] \in Sales /\ e # NoEvent
    BY CurrentEvent, ConstantsAssumption
  <2> HIDE DEF e
  <2>1. CASE Wake(w)
    BY <2>1 DEF TypeOK, Wake
  <2>2. CASE Scan(w)
    <3>1. Discovered \subseteq Events
      BY DEF TypeOK, Discovered, Oldest, Pending
    <3> QED BY <2>2, <3>1 DEF TypeOK, Scan
  <2>3. CASE DrainDone(w)
    BY <2>3 DEF TypeOK, DrainDone
  <2>4. CASE Take(w)
    BY <2>4, ConstantsAssumption DEF TypeOK, Take
  <2>5. CASE DrainAgain(w)
    BY <2>5 DEF TypeOK, DrainAgain
  <2>6. CASE Arbitrate(w)
    <3>1. Own(SaleOf[e], e) \in [Sales -> Events \cup {NoEvent}]
      BY <2>6, <2>a, OwnEffect DEF TypeOK, Arbitrate
    <3> QED BY <2>6, <2>a, <3>1 DEF TypeOK, Arbitrate, e
  <2>7. CASE LockRow(w)
    <3>1. Claimed(proc[e][Version[e]]) \in Rows
      BY <2>7, <2>a, <1>0, RewrittenRows DEF LockRow
    <3> QED BY <2>7, <2>a, <3>1 DEF TypeOK, LockRow, e
  <2>8. CASE SkipClaimed(w)
    BY <2>8, <2>a, FreshRows DEF TypeOK, SkipClaimed, NextEvent, e
  <2>9. CASE Project(w)
    <3>1. proc' \in [Events -> [Processors -> Rows]]
      BY <2>9, <2>a, FreshRows, SetRowEffect DEF TypeOK, Project, WriteSale, e
    <3> QED BY <2>9, <2>a, <3>1, FreshRows
            DEF TypeOK, Project, WriteSale, NextEvent, e
  <2>10. CASE Block(w)
    <3>1. BlockedRow(proc[e][Version[e]]) \in Rows
      BY <2>10, <2>a, <1>0, RewrittenRows DEF Block
    <3>2. proc' \in [Events -> [Processors -> Rows]]
      BY <2>10, <2>a, <3>1, SetRowEffect DEF TypeOK, Block, e
    <3> QED BY <2>10, <3>2, FreshRows DEF TypeOK, Block, NextEvent
  <2>11. CASE PersistRetry(w)
    <3>1. retryUnder[w] \in Processors
      BY DEF TypeOK
    <3>2. RetryRow(proc[e][retryUnder[w]]) \in Rows
      BY <2>11, <2>a, <3>1, <1>0, RewrittenRows DEF PersistRetry
    <3>3. proc' \in [Events -> [Processors -> Rows]]
      BY <2>11, <2>a, <3>1, <3>2, SetRowEffect DEF TypeOK, PersistRetry, e
    <3> QED BY <2>11, <3>3, FreshRows DEF TypeOK, PersistRetry, NextEvent
  <2> QED
    BY <1>2, <2>1, <2>2, <2>3, <2>4, <2>5, <2>6, <2>7, <2>8, <2>9, <2>10, <2>11
    DEF WorkerStep
<1>3. ASSUME NEW w \in Workers, WorkerFault(w) PROVE TypeOK'
  <2> DEFINE e == cur[w]
  <2>a. pc[w] \in Attempting => /\ e \in Events /\ Version[e] \in Processors
                                 /\ SaleOf[e] \in Sales /\ e # NoEvent
    BY CurrentEvent, ConstantsAssumption
  <2>b. ASSUME Fault
        PROVE  faults' \in 0 .. MaxFaults /\ resets' = resets /\ rebuilds' = rebuilds
    BY <2>b, ConstantsAssumption DEF TypeOK, Fault
  <2> HIDE DEF e
  <2>1. CASE ArbitrateFails(w)
    <3>1. Own(SaleOf[e], e) \in [Sales -> Events \cup {NoEvent}]
      BY <2>1, <2>a, OwnEffect DEF TypeOK, ArbitrateFails
    <3> QED BY <2>1, <2>a, <2>b, <3>1, FreshRows DEF TypeOK, ArbitrateFails, RetryNext, e
  <2>2. CASE LockFails(w)
    BY <2>2, <2>a, <2>b, FreshRows DEF TypeOK, LockFails, RetryNext, e
  <2>3. CASE ProjectFails(w)
    <3>1. proc' \in [Events -> [Processors -> Rows]]
      BY <2>3, <2>a, FreshRows, SetRowEffect DEF TypeOK, ProjectFails, WriteSale, e
    <3>2. header' \in [Sales -> Events \cup {NoEvent}]
      BY <2>3, <2>a DEF TypeOK, ProjectFails, WriteSale, e
    <3> QED BY <2>3, <2>a, <2>b, <3>1, <3>2, FreshRows
            DEF TypeOK, ProjectFails, RetryNext, e
  <2>4. CASE BlockFails(w)
    <3>1. BlockedRow(proc[e][Version[e]]) \in Rows
      BY <2>4, <2>a, <1>0, RewrittenRows DEF BlockFails
    <3>2. proc' \in [Events -> [Processors -> Rows]]
      BY <2>4, <2>a, <3>1, SetRowEffect DEF TypeOK, BlockFails, e
    <3> QED BY <2>4, <2>a, <2>b, <3>2, FreshRows
            DEF TypeOK, BlockFails, RetryNext, Processors
  <2>5. CASE AttemptLost(w)
    BY <2>5, <2>b, FreshRows DEF TypeOK, AttemptLost, NextEvent
  <2>6. CASE Crash(w)
    BY <2>6, <2>b, FreshRows DEF TypeOK, Crash
  <2> QED
    BY <1>3, <2>1, <2>2, <2>3, <2>4, <2>5, <2>6 DEF WorkerFault
<1>4. ASSUME NEW e \in Events, NEW p \in Processors,
             Passing(e, p) \/ ResetProcessing(e, p)
      PROVE  TypeOK'
  <2>1. CASE DbDue(e, p)
    <3>1. proc' \in [Events -> [Processors -> Rows]]
      BY <2>1, <1>0, AgedRows, SetRowEffect DEF TypeOK, DbDue
    <3> QED BY <2>1, <3>1 DEF TypeOK, DbDue
  <2>2. CASE AppDue(e, p)
    <3>1. proc' \in [Events -> [Processors -> Rows]]
      BY <2>2, <1>0, AgedRows, SetRowEffect DEF TypeOK, AppDue
    <3> QED BY <2>2, <3>1 DEF TypeOK, AppDue
  <2>3. CASE ResetProcessing(e, p)
    <3>1. proc' \in [Events -> [Processors -> Rows]]
      BY <2>3, FreshRows, SetRowEffect DEF TypeOK, ResetProcessing
    <3> QED BY <2>3, <3>1, ConstantsAssumption DEF TypeOK, ResetProcessing
  <2> QED BY <1>4, <2>1, <2>2, <2>3 DEF Passing
<1>5. CASE RebuildClear
  BY <1>5, ConstantsAssumption DEF TypeOK, RebuildClear
<1>6. CASE RebuildReset
  BY <1>6, FreshRows DEF TypeOK, RebuildReset
<1>7. CASE UNCHANGED vars
  BY <1>7 DEF TypeOK, vars
<1> QED BY <1>1, <1>2, <1>3, <1>4, <1>5, <1>6, <1>7 DEF Next

\* Every reachable state is well typed, and a worker holds an event exactly
\* while it attempts one.
THEOREM TypeCorrect == Safe => []TypeOK
BY TypeInit, TypeNext, PTL DEF Safe
-----------------------------------------------------------------------------
(* How a step changes the tables and the workers.                          *)

\* Ownership changes in one way only: the arbitration of an attempt.
LEMMA OwnerSteps ==
    ASSUME TypeOK, [Next]_vars
    PROVE  \/ owner' = owner
           \/ \E w \in Workers : /\ pc[w] = "arbitrate"
                                 /\ owner' = Own(SaleOf[cur[w]], cur[w])
BY DEF Next, vars, tables, WorkerStep, WorkerFault, Passing, Ingest, Wake, Scan,
       DrainDone, Take, DrainAgain, Arbitrate, LockRow, SkipClaimed, Project, Block,
       PersistRetry, ArbitrateFails, LockFails, ProjectFails, BlockFails, AttemptLost,
       Crash, DbDue, AppDue, ResetProcessing, RebuildClear, RebuildReset

\* A header is written by an attempt that holds its row; a rebuild deletes all.
LEMMA HeaderSteps ==
    ASSUME TypeOK, [Next]_vars
    PROVE  \/ header' = header
           \/ /\ header' = [s \in Sales |-> NoEvent]
              /\ rebuild' = "cleared"
           \/ \E w \in Workers :
                 /\ pc[w] = "locked" /\ ~Settled(claim[w])
                 /\ WriteSale(cur[w])
                 /\ rebuild' = rebuild
BY DEF Next, vars, tables, WorkerStep, WorkerFault, Passing, Ingest, Wake, Scan,
       DrainDone, Take, DrainAgain, Arbitrate, LockRow, SkipClaimed, Project, Block,
       PersistRetry, ArbitrateFails, LockFails, ProjectFails, BlockFails, AttemptLost,
       Crash, DbDue, AppDue, ResetProcessing, RebuildClear, RebuildReset, RetryNext

\* The status of a processing row changes in four ways.
RowMarkedProcessed(e, p) ==
    /\ \E w \in Workers : pc[w] = "locked" /\ cur[w] = e /\ ~Settled(claim[w])
                        /\ WriteSale(e) /\ rebuild' = rebuild /\ pc'[w] # "locked"
    /\ p = Version[e]
    /\ proc'[e][p].st = "processed"

RowMarkedBlocked(e, p) ==
    /\ \E w \in Workers : pc[w] = "block" /\ cur[w] = e
    /\ p = Version[e] /\ ~RowLocked(e, p)
    /\ proc[e][p].st # "processed"
    /\ proc'[e][p].st = "blocked"

RowMarkedRetry(e, p) ==
    /\ ~RowLocked(e, p)
    /\ ~Settled(proc[e][p])
    /\ proc'[e][p].st = "retry"

RowReopened(e, p) ==
    /\ ~RowLocked(e, p)
    /\ proc'[e][p].st = "pending"
    /\ resets' > resets \/ (rebuild = "cleared" /\ rebuild' = "idle")

LEMMA RowSteps ==
    ASSUME TypeOK, [Next]_vars, NEW e \in Events, NEW p \in Processors
    PROVE  \/ proc'[e][p].st = proc[e][p].st
           \/ RowMarkedProcessed(e, p)
           \/ RowMarkedBlocked(e, p)
           \/ RowMarkedRetry(e, p)
           \/ RowReopened(e, p)
<1> DEFINE Goal == \/ proc'[e][p].st = proc[e][p].st
                   \/ RowMarkedProcessed(e, p)
                   \/ RowMarkedBlocked(e, p)
                   \/ RowMarkedRetry(e, p)
                   \/ RowReopened(e, p)
<1>0. /\ proc \in [Events -> [Processors -> Rows]]
      /\ \A f \in Events, q \in Processors : proc[f][q] \in Rows
  BY DEF TypeOK
<1>1. CASE UNCHANGED proc
  BY <1>1
<1>2. ASSUME NEW w \in Workers, Project(w) \/ ProjectFails(w) PROVE Goal
  <2>1. cur[w] \in Events /\ Version[cur[w]] \in Processors
    BY <1>2, CurrentEvent DEF Project, ProjectFails, Attempting, Labels
  <2>2. CASE UNCHANGED proc
    BY <2>2
  <2>3. CASE ~Settled(claim[w]) /\ WriteSale(cur[w])
    <3>1. /\ pc[w] = "locked" /\ rebuild' = rebuild
          /\ pc'[w] # "locked"
      BY <1>2 DEF Project, ProjectFails, NextEvent, RetryNext, Goto, TypeOK
    <3>2. SetRow(cur[w], Version[cur[w]], Row("processed"))
      BY <2>3 DEF WriteSale
    <3>3. /\ proc'[cur[w]][Version[cur[w]]] = Row("processed")
          /\ e # cur[w] \/ p # Version[cur[w]] => proc'[e][p] = proc[e][p]
      BY <1>0, <2>1, <3>2, FreshRows, SetRowEffect
    <3> QED BY <3>1, <3>3, <2>3 DEF RowMarkedProcessed, Row
  <2> QED BY <1>2, <2>2, <2>3 DEF Project, ProjectFails
<1>3. ASSUME NEW w \in Workers, Block(w) \/ BlockFails(w) PROVE Goal
  <2>1. cur[w] \in Events /\ Version[cur[w]] \in Processors
    BY <1>3, CurrentEvent DEF Block, BlockFails, Attempting, Labels
  <2>2. CASE UNCHANGED proc
    BY <2>2
  <2> DEFINE f == cur[w]
             q == Version[cur[w]]
  <2>3. CASE /\ pc[w] = "block" /\ ~RowLocked(f, q)
             /\ SetRow(f, q, BlockedRow(proc[f][q]))
    <3>1. /\ proc'[f][q] = BlockedRow(proc[f][q])
          /\ e # f \/ p # q => proc'[e][p] = proc[e][p]
      BY <1>0, <2>1, <2>3, RewrittenRows, SetRowEffect
    <3> QED BY <3>1, <2>3 DEF RowMarkedBlocked, BlockedRow, Row
  <2> QED BY <1>3, <2>2, <2>3 DEF Block, BlockFails
<1>4. ASSUME NEW w \in Workers, PersistRetry(w) PROVE Goal
  <2> DEFINE f == cur[w]
             q == retryUnder[w]
  <2>1. f \in Events /\ q \in Processors
    BY <1>4, CurrentEvent DEF PersistRetry, Attempting, Labels, TypeOK
  <2>2. /\ proc'[f][q] = RetryRow(proc[f][q])
        /\ e # f \/ p # q => proc'[e][p] = proc[e][p]
    BY <1>0, <1>4, <2>1, RewrittenRows, SetRowEffect DEF PersistRetry
  <2> QED BY <1>4, <2>2 DEF RowMarkedRetry, RetryRow, Waiting, Row, PersistRetry
<1>5. ASSUME NEW f \in Events, NEW q \in Processors, Passing(f, q) PROVE Goal
  <2>1. CASE DbDue(f, q)
    <3> DEFINE aged == [proc[f][q] EXCEPT !.dbDue = TRUE, !.appDue = ~AppClockLags]
    <3>1. SetRow(f, q, aged)
      BY <2>1 DEF DbDue
    <3>2. aged \in Rows /\ aged.st = proc[f][q].st
      BY <1>0, AgedRows
    <3>3. /\ proc'[f][q] = aged
          /\ e # f \/ p # q => proc'[e][p] = proc[e][p]
      <4> HIDE DEF aged
      <4> QED BY <1>0, <3>1, <3>2, SetRowEffect
    <3> QED BY <3>2, <3>3
  <2>2. CASE AppDue(f, q)
    <3> DEFINE aged == [proc[f][q] EXCEPT !.appDue = TRUE]
    <3>1. SetRow(f, q, aged)
      BY <2>2 DEF AppDue
    <3>2. aged \in Rows /\ aged.st = proc[f][q].st
      BY <1>0, AgedRows
    <3>3. /\ proc'[f][q] = aged
          /\ e # f \/ p # q => proc'[e][p] = proc[e][p]
      <4> HIDE DEF aged
      <4> QED BY <1>0, <3>1, <3>2, SetRowEffect
    <3> QED BY <3>2, <3>3
  <2> QED BY <1>5, <2>1, <2>2 DEF Passing
<1>6. ASSUME NEW f \in Events, NEW q \in Processors, ResetProcessing(f, q) PROVE Goal
  <2>1. resets' > resets
    BY <1>6, ConstantsAssumption DEF TypeOK, ResetProcessing
  <2>2. /\ proc'[f][q] = Row("pending")
        /\ e # f \/ p # q => proc'[e][p] = proc[e][p]
    BY <1>0, <1>6, FreshRows, SetRowEffect DEF ResetProcessing
  <2> QED BY <1>6, <2>1, <2>2 DEF RowReopened, ResetProcessing, Row
<1>7. CASE RebuildReset
  <2>1. proc'[e][p] = IF proc[e][p].st = "none" THEN NoRow ELSE Row("pending")
    BY <1>7 DEF RebuildReset
  <2>2. proc[e][p].st # "none" => ~RowLocked(e, p)
    BY <1>7 DEF RebuildReset
  <2>3. rebuild = "cleared" /\ rebuild' = "idle"
    BY <1>7 DEF RebuildReset
  <2> QED BY <2>1, <2>2, <2>3 DEF RowReopened, Row, NoRow
<1>8. ASSUME NEW w \in Workers, WorkerStep(w) PROVE Goal
  BY <1>1, <1>2, <1>3, <1>4, <1>8
  DEF WorkerStep, tables, Wake, Scan, DrainDone, Take, DrainAgain, Arbitrate, LockRow,
      SkipClaimed
<1>9. ASSUME NEW w \in Workers, WorkerFault(w) PROVE Goal
  BY <1>1, <1>2, <1>3, <1>9
  DEF WorkerFault, tables, ArbitrateFails, LockFails, AttemptLost, Crash
<1>10. CASE (\E f \in Events : Ingest(f)) \/ RebuildClear \/ UNCHANGED vars
  BY <1>1, <1>10 DEF Ingest, RebuildClear, vars, tables
<1> QED
  BY <1>5, <1>6, <1>7, <1>8, <1>9, <1>10 DEF Next

\* What one worker is left with after a step of anybody.
WorkerIdles(w) ==
    /\ pc'[w] \notin Attempting
    /\ cur'[w] = NoEvent
    /\ todo'[w] \subseteq todo[w] \cup Discovered

WorkerStays(w) ==
    /\ pc'[w] = pc[w] /\ cur'[w] = cur[w] /\ claim'[w] = claim[w]
    /\ todo'[w] = todo[w]

WorkerTakes(w) ==
    /\ cur'[w] \in todo[w] /\ todo'[w] \subseteq todo[w]
    /\ pc'[w] = IF cur'[w] \in Invalid THEN "block" ELSE "arbitrate"
    /\ UNCHANGED tables

WorkerArbitrates(w) ==
    /\ pc[w] = "arbitrate"
    /\ cur'[w] = cur[w] /\ todo'[w] = todo[w]
    /\ owner' = Own(SaleOf[cur[w]], cur[w])
    /\ pc'[w] = IF owner[SaleOf[cur[w]]] \in {NoEvent, cur[w]} THEN "project" ELSE "block"

WorkerLocks(w) ==
    /\ pc[w] = "project" /\ pc'[w] = "locked"
    /\ cur'[w] = cur[w] /\ todo'[w] = todo[w]
    /\ ~RowLocked(cur[w], Version[cur[w]])
    /\ claim'[w] = Claimed(proc[cur[w]][Version[cur[w]]])
    /\ \A v \in Workers \ {w} : pc'[v] = pc[v] /\ cur'[v] = cur[v]
    /\ UNCHANGED tables

WorkerWillRetry(w) ==
    pc'[w] = "retry" /\ cur'[w] = cur[w] /\ todo'[w] = todo[w]

LEMMA WorkerSteps ==
    ASSUME TypeOK, [Next]_vars, NEW w \in Workers
    PROVE  \/ WorkerStays(w) \/ WorkerIdles(w) \/ WorkerTakes(w)
           \/ WorkerArbitrates(w) \/ WorkerLocks(w) \/ WorkerWillRetry(w)
<1> DEFINE Goal == \/ WorkerStays(w) \/ WorkerIdles(w) \/ WorkerTakes(w)
                   \/ WorkerArbitrates(w) \/ WorkerLocks(w) \/ WorkerWillRetry(w)
<1> USE DEF worker, Goto
<1>0. /\ pc \in [Workers -> Labels] /\ cur \in [Workers -> Events \cup {NoEvent}]
      /\ todo \in [Workers -> SUBSET Events] /\ claim \in [Workers -> Rows]
      /\ pc[w] \notin Attempting => cur[w] = NoEvent
  BY DEF TypeOK
<1>1. CASE UNCHANGED <<pc, cur, claim, todo>>
  BY <1>1 DEF WorkerStays
<1>2. ASSUME NEW v \in Workers, v # w, WorkerStep(v) PROVE Goal
  BY <1>0, <1>2
  DEF WorkerStays, WorkerStep, NextEvent, Wake, Scan, DrainDone, Take, DrainAgain,
      Arbitrate, LockRow, SkipClaimed, Project, Block, PersistRetry
<1>3. ASSUME NEW v \in Workers, v # w, WorkerFault(v) PROVE Goal
  BY <1>0, <1>3
  DEF WorkerStays, WorkerFault, RetryNext, NextEvent, ArbitrateFails, LockFails,
      ProjectFails, BlockFails, AttemptLost, Crash
<1>4. CASE Wake(w) \/ Scan(w) \/ DrainDone(w) \/ DrainAgain(w)
  BY <1>0, <1>4 DEF WorkerIdles, Attempting, Labels, Wake, Scan, DrainDone, DrainAgain
<1>5. CASE Take(w)
  BY <1>0, <1>5 DEF WorkerTakes, Take
<1>6. CASE Arbitrate(w)
  BY <1>0, <1>6 DEF WorkerArbitrates, Arbitrate
<1>7. CASE LockRow(w)
  BY <1>0, <1>7 DEF WorkerLocks, LockRow
<1>8. CASE \/ SkipClaimed(w) \/ Project(w) \/ Block(w) \/ PersistRetry(w)
           \/ AttemptLost(w) \/ Crash(w)
  BY <1>0, <1>8
  DEF WorkerIdles, Attempting, Labels, NextEvent, SkipClaimed, Project, Block,
      PersistRetry, AttemptLost, Crash
<1>9. CASE ArbitrateFails(w) \/ LockFails(w) \/ ProjectFails(w) \/ BlockFails(w)
  BY <1>0, <1>9
  DEF WorkerWillRetry, RetryNext, ArbitrateFails, LockFails, ProjectFails, BlockFails
<1>10. ASSUME WorkerStep(w) \/ WorkerFault(w) PROVE Goal
  BY <1>4, <1>5, <1>6, <1>7, <1>8, <1>9, <1>10 DEF WorkerStep, WorkerFault
<1> QED
  BY <1>1, <1>2, <1>3, <1>10
  DEF Next, vars, Passing, Ingest, DbDue, AppDue, ResetProcessing, RebuildClear,
      RebuildReset

\* Events are never removed from the inbox.
LEMMA InboxGrows == ASSUME [Next]_vars PROVE inbox \subseteq inbox'
BY DEF Next, vars, tables, WorkerStep, WorkerFault, Passing, Ingest, Wake, Scan,
       DrainDone, Take, DrainAgain, Arbitrate, LockRow, SkipClaimed, Project, Block,
       PersistRetry, ArbitrateFails, LockFails, ProjectFails, BlockFails, AttemptLost,
       Crash, DbDue, AppDue, ResetProcessing, RebuildClear, RebuildReset

\* A rebuild ends with every row reopened.
LEMMA RebuildSteps ==
    ASSUME TypeOK, [Next]_vars
    PROVE  \/ rebuild' = rebuild
           \/ rebuild' = "cleared"
           \/ \A e \in Events, p \in Processors : proc'[e][p].st \in {"none", "pending"}
<1>1. CASE RebuildReset
  BY <1>1 DEF RebuildReset, NoRow, Row
<1> QED
  BY <1>1
  DEF Next, vars, tables, WorkerStep, WorkerFault, Passing, Ingest, Wake, Scan,
      DrainDone, Take, DrainAgain, Arbitrate, LockRow, SkipClaimed, Project, Block,
      PersistRetry, ArbitrateFails, LockFails, ProjectFails, BlockFails, AttemptLost,
      Crash, DbDue, AppDue, ResetProcessing, RebuildClear, RetryNext

\* Ownership is never taken away.
LEMMA OwnerStays ==
    ASSUME TypeOK, [Next]_vars, NEW s \in Sales, owner[s] # NoEvent
    PROVE  owner'[s] = owner[s]
<1>1. CASE owner' = owner
  BY <1>1
<1>2. ASSUME NEW w \in Workers, pc[w] = "arbitrate",
             owner' = Own(SaleOf[cur[w]], cur[w])
      PROVE  owner'[s] = owner[s]
  <2>1. cur[w] \in Events /\ SaleOf[cur[w]] \in Sales
    BY <1>2, CurrentEvent DEF Attempting, Labels
  <2>2. owner \in [Sales -> Events \cup {NoEvent}]
    BY DEF TypeOK
  <2> QED BY <1>2, <2>1, <2>2, OwnEffect
<1> QED BY <1>1, <1>2, OwnerSteps
-----------------------------------------------------------------------------
(* The inductive invariant.                                                *)

LEMMA IInvInit == Init => IInv
<1> SUFFICES ASSUME Init PROVE IInv
  OBVIOUS
<1>1. TypeOK
  BY TypeInit
<1> QED
  BY <1>1, ConstantsAssumption
  DEF Init, IInv, WorkIsAccepted, OwnersClaimTheirSale, StageIsEarned, ProcessedByOwner,
      LockedRowIsStable, LocksExclude, ProjectedByWinner, ProcessedIsProjected,
      BlockedForCause, NoRow, Row

LEMMA WorkIsAcceptedNext ==
    ASSUME TypeOK, [Next]_vars, WorkIsAccepted
    PROVE  WorkIsAccepted'
<1> SUFFICES ASSUME NEW w \in Workers
             PROVE  todo'[w] \subseteq inbox' /\ cur'[w] \in inbox' \cup {NoEvent}
  BY DEF WorkIsAccepted
<1>1. inbox \subseteq inbox' /\ todo[w] \subseteq inbox /\ cur[w] \in inbox \cup {NoEvent}
  BY InboxGrows DEF WorkIsAccepted
<1>2. Discovered \subseteq inbox
  BY DEF Discovered, Oldest, Pending
<1> QED
  BY <1>1, <1>2, WorkerSteps
  DEF WorkerStays, WorkerIdles, WorkerTakes, WorkerArbitrates, WorkerLocks,
      WorkerWillRetry

LEMMA OwnersClaimTheirSaleNext ==
    ASSUME TypeOK, [Next]_vars, WorkIsAccepted, StageIsEarned, OwnersClaimTheirSale
    PROVE  OwnersClaimTheirSale'
<1> SUFFICES ASSUME NEW s \in Sales, owner'[s] # NoEvent
             PROVE  owner'[s] \in inbox' \ Invalid /\ SaleOf[owner'[s]] = s
  BY DEF OwnersClaimTheirSale
<1>1. inbox \subseteq inbox'
  BY InboxGrows
<1>2. CASE owner'[s] = owner[s]
  BY <1>1, <1>2 DEF OwnersClaimTheirSale
<1>3. ASSUME NEW w \in Workers, pc[w] = "arbitrate",
             owner' = Own(SaleOf[cur[w]], cur[w]), owner'[s] # owner[s]
      PROVE  owner'[s] \in inbox' \ Invalid /\ SaleOf[owner'[s]] = s
  <2>1. cur[w] \in Events /\ SaleOf[cur[w]] \in Sales
    BY <1>3, CurrentEvent DEF Attempting, Labels
  <2>2. owner \in [Sales -> Events \cup {NoEvent}]
    BY DEF TypeOK
  <2>3. s = SaleOf[cur[w]] /\ owner'[s] = cur[w]
    BY <1>3, <2>1, <2>2, OwnEffect
  <2>4. cur[w] \in inbox /\ cur[w] \notin Invalid
    BY <1>3, <2>1, ConstantsAssumption DEF WorkIsAccepted, StageIsEarned
  <2> QED BY <1>1, <2>3, <2>4
<1> QED BY <1>2, <1>3, OwnerSteps

LEMMA StageIsEarnedNext ==
    ASSUME TypeOK, [Next]_vars, StageIsEarned, WorkIsAccepted
    PROVE  StageIsEarned'
<1> DEFINE Earned(w) == /\ pc'[w] = "arbitrate" => cur'[w] \notin Invalid
                        /\ pc'[w] \in {"project", "locked"} =>
                             owner'[SaleOf[cur'[w]]] = cur'[w]
                        /\ pc'[w] = "block" =>
                             \/ cur'[w] \in Invalid
                             \/ owner'[SaleOf[cur'[w]]] \notin {cur'[w], NoEvent}
<1> SUFFICES ASSUME NEW w \in Workers PROVE Earned(w)
  BY DEF StageIsEarned, Lost
<1>1. pc[w] \in Attempting =>
          cur[w] \in Events /\ cur[w] # NoEvent /\ SaleOf[cur[w]] \in Sales
  BY CurrentEvent, ConstantsAssumption
<1>2. /\ pc[w] = "arbitrate" => cur[w] \notin Invalid
      /\ pc[w] \in {"project", "locked"} => owner[SaleOf[cur[w]]] = cur[w]
      /\ pc[w] = "block" =>
           cur[w] \in Invalid \/ owner[SaleOf[cur[w]]] \notin {cur[w], NoEvent}
  BY DEF StageIsEarned, Lost
<1>3. \A s \in Sales : owner[s] # NoEvent => owner'[s] = owner[s]
  BY OwnerStays
<1>4. CASE WorkerStays(w)
  BY <1>1, <1>2, <1>3, <1>4 DEF WorkerStays, Attempting, Labels
<1>5. CASE WorkerIdles(w)
  BY <1>5 DEF WorkerIdles, Attempting, Labels
<1>6. CASE WorkerTakes(w)
  BY <1>6 DEF WorkerTakes
<1>7. CASE WorkerArbitrates(w)
  <2>1. owner \in [Sales -> Events \cup {NoEvent}]
    BY DEF TypeOK
  <2>2. cur[w] \in Events /\ cur[w] # NoEvent /\ SaleOf[cur[w]] \in Sales
    BY <1>1, <1>7 DEF WorkerArbitrates, Attempting, Labels
  <2>3. owner[SaleOf[cur[w]]] = NoEvent => owner'[SaleOf[cur[w]]] = cur[w]
    BY <1>7, <2>1, <2>2, OwnEffect DEF WorkerArbitrates
  <2> QED BY <1>3, <1>7, <2>2, <2>3 DEF WorkerArbitrates
<1>8. CASE WorkerLocks(w)
  BY <1>2, <1>8 DEF WorkerLocks, tables
<1>9. CASE WorkerWillRetry(w)
  BY <1>9 DEF WorkerWillRetry
<1> QED BY <1>4, <1>5, <1>6, <1>7, <1>8, <1>9, WorkerSteps

LEMMA ProcessedByOwnerNext ==
    ASSUME TypeOK, [Next]_vars, StageIsEarned, ProcessedByOwner
    PROVE  ProcessedByOwner'
<1> SUFFICES ASSUME NEW e \in Events, NEW p \in Processors,
                    proc'[e][p].st = "processed"
             PROVE  owner'[SaleOf[e]] = e
  BY DEF ProcessedByOwner
<1>1. SaleOf[e] \in Sales /\ e # NoEvent
  BY ConstantsAssumption
<1>2. owner[SaleOf[e]] = e
  BY RowSteps
  DEF ProcessedByOwner, StageIsEarned, RowMarkedProcessed, RowMarkedBlocked,
      RowMarkedRetry, RowReopened
<1> QED BY <1>1, <1>2, OwnerStays

LEMMA LocksExcludeNext ==
    ASSUME TypeOK, [Next]_vars, LocksExclude
    PROVE  LocksExclude'
<1> SUFFICES ASSUME NEW v \in Workers, NEW w \in Workers, v # w,
                    pc'[v] = "locked", pc'[w] = "locked", cur'[v] = cur'[w]
             PROVE  FALSE
  BY DEF LocksExclude
<1>1. \A u \in {v, w} : WorkerStays(u) \/ WorkerLocks(u)
  BY WorkerSteps
  DEF WorkerStays, WorkerIdles, WorkerTakes, WorkerArbitrates, WorkerLocks,
      WorkerWillRetry, Attempting, Labels
<1>2. CASE WorkerStays(v) /\ WorkerStays(w)
  BY <1>2 DEF WorkerStays, LocksExclude
<1>3. ASSUME NEW x \in {v, w}, NEW y \in {v, w} \ {x}, WorkerLocks(x) PROVE FALSE
  <2>1. pc[y] = "locked" /\ cur[y] = cur[x]
    BY <1>3 DEF WorkerLocks
  <2> QED BY <1>3, <2>1 DEF WorkerLocks, RowLocked
<1> QED BY <1>1, <1>2, <1>3

LEMMA LockedRowIsStableNext ==
    ASSUME TypeOK, [Next]_vars, LocksExclude, LockedRowIsStable
    PROVE  LockedRowIsStable'
<1> SUFFICES ASSUME NEW w \in Workers, pc'[w] = "locked"
             PROVE  claim'[w].st = Claimed(proc'[cur'[w]][Version[cur'[w]]]).st
  BY DEF LockedRowIsStable, Claimed
<1>1. CASE WorkerLocks(w)
  BY <1>1 DEF WorkerLocks, tables
<1>2. CASE WorkerStays(w)
  <2> DEFINE e == cur[w]
             p == Version[cur[w]]
  <2>1. pc[w] = "locked" /\ cur'[w] = e /\ claim'[w] = claim[w]
    BY <1>2 DEF WorkerStays
  <2>2. e \in Events /\ p \in Processors
    BY <2>1, CurrentEvent DEF Attempting, Labels
  <2>3. RowLocked(e, p)
    BY <2>1 DEF RowLocked
  <2>4. ~RowMarkedProcessed(e, p)
    BY <2>1 DEF RowMarkedProcessed, LocksExclude
  <2>5. proc'[e][p].st = proc[e][p].st
    BY <2>2, <2>3, <2>4, RowSteps DEF RowMarkedBlocked, RowMarkedRetry, RowReopened
  <2>6. claim[w].st = Claimed(proc[e][p]).st
    BY <2>1 DEF LockedRowIsStable
  <2> QED BY <2>1, <2>5, <2>6 DEF Claimed, Row
<1> QED
  BY <1>1, <1>2, WorkerSteps
  DEF WorkerIdles, WorkerTakes, WorkerArbitrates, WorkerWillRetry, Attempting, Labels

LEMMA ProjectedByWinnerNext ==
    ASSUME TypeOK, [Next]_vars, StageIsEarned, ProjectedByWinner
    PROVE  ProjectedByWinner'
<1> SUFFICES ASSUME NEW s \in Sales, header'[s] # NoEvent
             PROVE  header'[s] = owner'[s]
  BY DEF ProjectedByWinner
<1>1. CASE header' = header
  BY <1>1, OwnerStays DEF ProjectedByWinner
<1>2. CASE header' = [t \in Sales |-> NoEvent]
  BY <1>2
<1>3. ASSUME NEW w \in Workers, pc[w] = "locked", WriteSale(cur[w])
      PROVE  header'[s] = owner'[s]
  <2>1. cur[w] \in Events /\ SaleOf[cur[w]] \in Sales /\ cur[w] # NoEvent
    BY <1>3, CurrentEvent, ConstantsAssumption DEF Attempting, Labels
  <2>2. owner[SaleOf[cur[w]]] = cur[w]
    BY <1>3 DEF StageIsEarned
  <2>3. CASE s = SaleOf[cur[w]]
    BY <1>3, <2>1, <2>2, <2>3, OwnerStays DEF TypeOK, WriteSale
  <2>4. CASE s # SaleOf[cur[w]]
    BY <1>3, <2>1, <2>4, OwnerStays DEF TypeOK, WriteSale, ProjectedByWinner
  <2> QED BY <2>3, <2>4
<1> QED BY <1>1, <1>2, <1>3, HeaderSteps

LEMMA ProcessedIsProjectedNext ==
    ASSUME TypeOK, [Next]_vars, StageIsEarned, ProcessedByOwner, ProcessedIsProjected
    PROVE  ProcessedIsProjected'
<1> SUFFICES ASSUME NEW e \in Events, NEW p \in Processors,
                    proc'[e][p].st = "processed", rebuild' = "idle"
             PROVE  header'[SaleOf[e]] = e
  BY DEF ProcessedIsProjected
<1>1. rebuild' = rebuild
  BY RebuildSteps
<1>2. SaleOf[e] \in Sales
  BY ConstantsAssumption
<1>3. CASE RowMarkedProcessed(e, p)
  BY <1>2, <1>3 DEF RowMarkedProcessed, WriteSale, TypeOK
<1>4. CASE proc'[e][p].st = proc[e][p].st
  <2>1. header[SaleOf[e]] = e /\ owner[SaleOf[e]] = e
    BY <1>1, <1>4 DEF ProcessedIsProjected, ProcessedByOwner
  <2>2. CASE header' = header
    BY <2>1, <2>2
  <2>3. ASSUME NEW w \in Workers, pc[w] = "locked", WriteSale(cur[w])
        PROVE  header'[SaleOf[e]] = e
    <3>1. cur[w] \in Events /\ SaleOf[cur[w]] \in Sales
      BY <2>3, CurrentEvent DEF Attempting, Labels
    <3>2. SaleOf[cur[w]] = SaleOf[e] => cur[w] = e
      BY <2>1, <2>3 DEF StageIsEarned
    <3> QED BY <1>2, <2>1, <2>3, <3>1, <3>2 DEF TypeOK, WriteSale
  <2> QED BY <2>2, <2>3, HeaderSteps
<1> QED
  BY <1>3, <1>4, RowSteps DEF RowMarkedBlocked, RowMarkedRetry, RowReopened

LEMMA BlockedForCauseNext ==
    ASSUME TypeOK, [Next]_vars, StageIsEarned, BlockedForCause
    PROVE  BlockedForCause'
<1> SUFFICES ASSUME NEW e \in Events, NEW p \in Processors,
                    proc'[e][p].st = "blocked"
             PROVE  e \in Invalid \/ owner'[SaleOf[e]] \notin {e, NoEvent}
  BY DEF BlockedForCause, Lost
<1>1. e \in Invalid \/ owner[SaleOf[e]] \notin {e, NoEvent}
  BY RowSteps
  DEF BlockedForCause, Lost, StageIsEarned, RowMarkedProcessed, RowMarkedBlocked,
      RowMarkedRetry, RowReopened
<1>2. SaleOf[e] \in Sales
  BY ConstantsAssumption
<1> QED BY <1>1, <1>2, OwnerStays

LEMMA IInvNext == IInv /\ [Next]_vars => IInv'
BY TypeNext, WorkIsAcceptedNext, OwnersClaimTheirSaleNext, StageIsEarnedNext,
   ProcessedByOwnerNext, LocksExcludeNext, LockedRowIsStableNext, ProjectedByWinnerNext,
   ProcessedIsProjectedNext, BlockedForCauseNext
DEF IInv

LEMMA Invariance == Safe => []IInv
BY IInvInit, IInvNext, PTL DEF Safe
-----------------------------------------------------------------------------
(* The theorems.                                                           *)

\* A projected sale always shows the event that owns it (ProjectSale and
\* arbitrate, on every interleaving of instances, failures and rebuilds).
THEOREM WinnerIsProjected == Safe => []ProjectedByWinner
BY Invariance, PTL DEF IInv

\* A processed row means that the projection is committed: markProcessed
\* and the projection are one transaction.
THEOREM ProcessedMeansProjected == Safe => []ProcessedIsProjected
BY Invariance, PTL DEF IInv

\* No failure path parks a rightful owner in blocked.
THEOREM OnlyVerdictsBlock == Safe => []BlockedForCause
BY Invariance, PTL DEF IInv

\* The winner of a sale is permanent.
THEOREM WinnersStay == Safe => WinnerPermanent
<1>1. TypeOK /\ [Next]_vars =>
        [\A s \in Sales : owner[s] # NoEvent => owner'[s] = owner[s]]_vars
  BY OwnerStays
<1> QED BY <1>1, TypeCorrect, PTL DEF Safe, WinnerPermanent

\* Only the operator reopens a settled row: no stale list and no stale
\* attempt of a second instance does.
THEOREM SettledRowsStay == Safe => SettledIsFinal
<1>1. IInv /\ [Next]_vars =>
        [\A e \in Events, p \in Processors :
            Settled(proc[e][p]) /\ proc'[e][p].st # proc[e][p].st =>
                resets' > resets \/ (rebuild = "cleared" /\ rebuild' = "idle")]_vars
  <2> SUFFICES ASSUME IInv, [Next]_vars, NEW e \in Events, NEW p \in Processors,
                      Settled(proc[e][p]), proc'[e][p].st # proc[e][p].st
               PROVE  resets' > resets \/ (rebuild = "cleared" /\ rebuild' = "idle")
    OBVIOUS
  <2>1. TypeOK /\ StageIsEarned /\ LockedRowIsStable /\ BlockedForCause /\ ProcessedByOwner
    BY DEF IInv
  <2>2. CASE RowMarkedProcessed(e, p)
    <3>1. PICK w \in Workers : pc[w] = "locked" /\ cur[w] = e /\ ~Settled(claim[w])
      BY <2>2 DEF RowMarkedProcessed
    <3>2. claim[w].st = Claimed(proc[e][p]).st
      BY <2>1, <2>2, <3>1 DEF LockedRowIsStable, RowMarkedProcessed
    <3> QED BY <3>1, <3>2 DEF Settled, Claimed
  <2>3. CASE RowMarkedBlocked(e, p)
    BY <2>3 DEF RowMarkedBlocked, Settled
  <2>4. CASE RowMarkedRetry(e, p)
    BY <2>4 DEF RowMarkedRetry
  <2>5. CASE RowReopened(e, p)
    BY <2>5 DEF RowReopened
  <2> QED BY <2>1, <2>2, <2>3, <2>4, <2>5, RowSteps
<1> QED BY <1>1, Invariance, PTL DEF Safe, SettledIsFinal

\* The projectors, whatever fails, only ever do what the ledger may do.
THEOREM LedgerImplemented == Safe => ImplementsLedgerSteps
<1>1. Init => Ledger!Init
  BY DEF Init, Ledger!Init
<1>2. IInv /\ [Next]_vars => [Ledger!Next]_Ledger!vars
  <2> SUFFICES ASSUME IInv, [Next]_vars
               PROVE  Ledger!Next \/ UNCHANGED <<inbox, owner, header>>
    BY DEF Ledger!vars
  <2>0. TypeOK /\ StageIsEarned /\ WorkIsAccepted
    BY DEF IInv
  <2>1. ASSUME NEW e \in Events, Ingest(e) PROVE Ledger!Next
    BY <2>1 DEF Ingest, Ledger!Next, Ledger!Accept
  <2>2. ASSUME NEW w \in Workers, Arbitrate(w) \/ ArbitrateFails(w)
        PROVE  Ledger!Next \/ UNCHANGED <<inbox, owner, header>>
    <3>1. pc[w] = "arbitrate" /\ inbox' = inbox /\ header' = header
      BY <2>2 DEF Arbitrate, ArbitrateFails
    <3>2. owner' = owner \/ owner' = Own(SaleOf[cur[w]], cur[w])
      BY <2>2 DEF Arbitrate, ArbitrateFails
    <3>3. cur[w] \in Events /\ SaleOf[cur[w]] \in Sales /\ cur[w] \in inbox \ Invalid
      BY <2>0, <3>1, CurrentEvent, ConstantsAssumption
      DEF Attempting, Labels, WorkIsAccepted, StageIsEarned
    <3>4. CASE owner' # owner
      BY <3>1, <3>2, <3>3, <3>4 DEF Own, Ledger!Next, Ledger!Decide
    <3> QED BY <3>1, <3>4
  <2>3. ASSUME NEW w \in Workers, Project(w) \/ ProjectFails(w)
        PROVE  Ledger!Next \/ UNCHANGED <<inbox, owner, header>>
    <3>1. pc[w] = "locked" /\ inbox' = inbox /\ owner' = owner
      BY <2>3 DEF Project, ProjectFails
    <3>2. header' = header \/ header' = [header EXCEPT ![SaleOf[cur[w]]] = cur[w]]
      BY <2>3 DEF Project, ProjectFails, WriteSale
    <3>3. /\ SaleOf[cur[w]] \in Sales /\ cur[w] # NoEvent
          /\ owner[SaleOf[cur[w]]] = cur[w]
      BY <2>0, <3>1, CurrentEvent, ConstantsAssumption
      DEF Attempting, Labels, StageIsEarned
    <3> QED BY <3>1, <3>2, <3>3 DEF Ledger!Next, Ledger!Post
  <2>4. CASE RebuildClear
    BY <2>4 DEF RebuildClear, Ledger!Next, Ledger!Discard
  <2>5. ASSUME NEW w \in Workers, WorkerStep(w) \/ WorkerFault(w)
        PROVE  Ledger!Next \/ UNCHANGED <<inbox, owner, header>>
    BY <2>2, <2>3, <2>5
    DEF WorkerStep, WorkerFault, tables, Wake, Scan, DrainDone, Take, DrainAgain, LockRow,
        SkipClaimed, Block, PersistRetry, LockFails, BlockFails, AttemptLost, Crash
  <2> QED
    BY <2>1, <2>4, <2>5
    DEF Next, vars, tables, Passing, DbDue, AppDue, ResetProcessing, RebuildReset
<1> QED BY <1>1, <1>2, Invariance, PTL DEF Safe, Ledger!Safe, ImplementsLedgerSteps
-----------------------------------------------------------------------------
(* What the returns see of the sales.                                      *)

\* A step either writes one sale with its processed row, or clears the
\* headers, or reopens every row, or touches neither.
LEMMA SaleSteps ==
    ASSUME [Next]_vars
    PROVE  \/ \E w \in Workers :
                 /\ pc[w] = "locked" /\ ~Settled(claim[w])
                 /\ WriteSale(cur[w])
                 /\ UNCHANGED rebuild
           \/ RebuildClear
           \/ RebuildReset
           \/ UNCHANGED <<header, rebuild>>
BY DEF Next, vars, tables, WorkerStep, WorkerFault, Passing, Ingest, Wake, Scan,
       DrainDone, Take, DrainAgain, Arbitrate, LockRow, SkipClaimed, Project, Block,
       PersistRetry, ArbitrateFails, LockFails, ProjectFails, BlockFails, AttemptLost,
       Crash, DbDue, AppDue, ResetProcessing, RetryNext

\* What is added to the inbox, and to the owners, is added alone.
LEMMA GrowthSteps ==
    ASSUME [Next]_vars
    PROVE  \/ UNCHANGED <<inbox, owner>>
           \/ \E e \in Events : Ingest(e)
           \/ UNCHANGED <<inbox, proc>>
BY DEF Next, vars, tables, WorkerStep, WorkerFault, Passing, Wake, Scan,
       DrainDone, Take, DrainAgain, Arbitrate, LockRow, SkipClaimed, Project, Block,
       PersistRetry, ArbitrateFails, LockFails, ProjectFails, BlockFails, AttemptLost,
       Crash, DbDue, AppDue, ResetProcessing, RebuildClear, RebuildReset

\* Only the operator counts a reset.
LEMMA ResetSteps ==
    ASSUME TypeOK, [Next]_vars, resets' > resets
    PROVE  \E e \in Events, p \in Processors : ResetProcessing(e, p)
<1>1. resets' # resets
  BY ConstantsAssumption DEF TypeOK
<1>2. ASSUME NEW w \in Workers, WorkerStep(w) \/ WorkerFault(w) PROVE UNCHANGED resets
  <2>1. CASE WorkerStep(w)
    BY <2>1
    DEF bounds, WorkerStep, Wake, Scan, DrainDone, Take, DrainAgain, Arbitrate, LockRow,
        SkipClaimed, Project, Block, PersistRetry
  <2>2. CASE WorkerFault(w)
    BY <2>2
    DEF WorkerFault, Fault, ArbitrateFails, LockFails, ProjectFails, BlockFails, AttemptLost, Crash
  <2> QED BY <1>2, <2>1, <2>2
<1> QED
  BY <1>1, <1>2
  DEF Next, vars, bounds, Passing, Ingest, DbDue, AppDue, RebuildClear, RebuildReset

\* A processed row stays so until the second step of a rebuild, and a row
\* becomes processed only together with its sale.
LEMMA ProcessedStays ==
    ASSUME TypeOK, [Next]_vars, NEW e \in Events, NEW p \in Processors,
           proc[e][p].st = "processed", proc'[e][p].st # "processed"
    PROVE  rebuild = "cleared" /\ rebuild' = "idle"
<1>1. CASE RowReopened(e, p) /\ resets' > resets
  <2>1. PICK f \in Events, q \in Processors : ResetProcessing(f, q)
    BY <1>1, ResetSteps
  <2>2. proc[f][q].st # "processed" /\ proc' = [proc EXCEPT ![f][q] = Row("pending")]
    BY <2>1 DEF ResetProcessing, SetRow
  <2> QED BY <2>2 DEF TypeOK
<1> QED
  BY <1>1, RowSteps
  DEF RowMarkedProcessed, RowMarkedBlocked, RowMarkedRetry, RowReopened, Settled

\* With no sale written and no rebuild ended, the same sales are processed.
LEMMA ProcessedSalesStay ==
    ASSUME IInv, [Next]_vars, UNCHANGED <<header, rebuild>>,
           ~ \E w \in Workers : /\ pc[w] = "locked" /\ ~Settled(claim[w])
                                /\ WriteSale(cur[w])
    PROVE  ProcessedSales' = ProcessedSales
<1>1. TypeOK /\ ProcessedByOwner /\ StageIsEarned
  BY DEF IInv
<1>2. ASSUME NEW e \in Events
      PROVE  /\ proc'[e][Version[e]].st = "processed" <=> proc[e][Version[e]].st = "processed"
  <2>1. Version[e] \in Processors
    BY ConstantsAssumption
  <2>2. ~RowMarkedProcessed(e, Version[e])
    BY DEF RowMarkedProcessed
  <2> QED
    BY <1>1, <2>1, <2>2, RowSteps, ProcessedStays
    DEF RowMarkedBlocked, RowMarkedRetry, RowReopened
<1>3. ASSUME NEW s \in Sales, NEW e \in Events, proc[e][Version[e]].st = "processed"
      PROVE  owner'[s] = e <=> owner[s] = e
  <2>1. e # NoEvent /\ Version[e] \in Processors /\ owner[SaleOf[e]] = e
    BY <1>1, <1>3, ConstantsAssumption DEF ProcessedByOwner
  <2>2. ASSUME NEW w \in Workers, pc[w] = "arbitrate", owner' = Own(SaleOf[cur[w]], cur[w])
        PROVE  owner'[s] = e <=> owner[s] = e
    <3>1. cur[w] \in Events /\ SaleOf[cur[w]] \in Sales
      BY <1>1, <2>2, CurrentEvent DEF Attempting, Labels
    <3>2. owner'[s] = owner[s] \/ (s = SaleOf[cur[w]] /\ owner[s] = NoEvent /\ owner'[s] = cur[w])
      BY <1>1, <2>2, <3>1 DEF Own, TypeOK
    <3> QED BY <2>1, <3>2
  <2> QED BY <1>1, <2>2, OwnerSteps
<1> QED BY <1>2, <1>3 DEF ProcessedSales

\* The sale projectors, whatever they retry, lose, reset or rebuild, do to the
\* sales only what the return projection takes them to do: what is proved of
\* the returns holds beside these projectors.
THEOREM ReturnsSeeTheSales == Safe => IsSeenByReturns
<1>1. Init => Seen!Init
  <2> SUFFICES ASSUME Init PROVE Seen!Init
    OBVIOUS
  <2>1. \A e \in Events : Version[e] \in Processors /\ e # NoEvent
    BY ConstantsAssumption
  <2>2. SentSales = {} /\ ProcessedSales = {} /\ ShownSales = {}
    BY <2>1 DEF Init, SentSales, ProcessedSales, ShownSales, NoRow, Row
  <2> QED BY <2>2 DEF Init, Seen!Init
<1>2. IInv /\ [Next]_vars => [Seen!Next]_Seen!vars
  <2> SUFFICES ASSUME IInv, [Next]_vars
               PROVE  Seen!Next \/ UNCHANGED <<SentSales, ProcessedSales, ShownSales, rebuild>>
    BY DEF Seen!vars
  <2>1. /\ TypeOK /\ StageIsEarned /\ OwnersClaimTheirSale /\ LockedRowIsStable
        /\ NoEvent \notin Events
    BY ConstantsAssumption DEF IInv
  <2>2. UNCHANGED inbox => UNCHANGED SentSales
    BY DEF SentSales
  <2>3. UNCHANGED header => UNCHANGED ShownSales
    BY DEF ShownSales
  <2>4. ASSUME NEW w \in Workers, pc[w] = "locked", ~Settled(claim[w]), WriteSale(cur[w]),
               UNCHANGED rebuild
        PROVE  Seen!Next
    <3> DEFINE e == cur[w]  s == SaleOf[e]  p == Version[e]
    <3>1. e \in Events /\ s \in Sales /\ p \in Processors /\ e # NoEvent
      BY <2>1, <2>4, CurrentEvent, ConstantsAssumption DEF Attempting, Labels
    <3>2. owner[s] = e /\ e \in inbox \ Invalid
      BY <2>1, <2>4, <3>1 DEF StageIsEarned, OwnersClaimTheirSale
    <3>3. proc[e][p].st # "processed"
      BY <2>1, <2>4 DEF LockedRowIsStable, Settled, Claimed
    <3>4. UNCHANGED <<inbox, owner>>
      <4>1. proc' = [proc EXCEPT ![e][p] = Row("processed")] /\ Row("processed").st = "processed"
        BY <2>4 DEF WriteSale, SetRow, Row
      <4>2. proc'[e][p].st = "processed"
        BY <2>1, <3>1, <4>1 DEF TypeOK
      <4> QED BY <3>3, <4>2, GrowthSteps DEF Ingest
    <3>5. s \in SentSales \ ProcessedSales
      BY <3>1, <3>2, <3>3 DEF SentSales, ProcessedSales
    <3>6. ShownSales' = ShownSales \cup {s}
      BY <2>1, <2>4, <3>1 DEF WriteSale, ShownSales, TypeOK
    <3>7. \A f \in Events : proc'[f][Version[f]].st = "processed" <=>
                                f = e \/ proc[f][Version[f]].st = "processed"
      <4> SUFFICES ASSUME NEW f \in Events
                   PROVE  proc'[f][Version[f]].st = "processed" <=>
                              f = e \/ proc[f][Version[f]].st = "processed"
        OBVIOUS
      <4>1. proc' = [proc EXCEPT ![e][p] = Row("processed")] /\ Row("processed").st = "processed"
        BY <2>4 DEF WriteSale, SetRow, Row
      <4>2. Version[f] \in Processors
        BY ConstantsAssumption
      <4> QED BY <2>1, <3>1, <4>1, <4>2 DEF TypeOK
    <3>8. ProcessedSales' = ProcessedSales \cup {s}
      <4>1. \A r \in Sales : owner[r] = e => r = s
        BY <2>1, <3>1 DEF OwnersClaimTheirSale
      <4> QED BY <3>4, <3>1, <3>2, <3>7, <4>1 DEF ProcessedSales
    <3> QED BY <2>2, <2>4, <3>4, <3>1, <3>5, <3>6, <3>8 DEF Seen!Next, Seen!Appear
  <2>5. CASE RebuildClear
    <3>1. ShownSales' = {} /\ ProcessedSales' = ProcessedSales
      BY <2>5 DEF RebuildClear, ShownSales, ProcessedSales
    <3> QED BY <2>2, <2>5, <3>1 DEF RebuildClear, Seen!Next, Seen!Clear
  <2>6. CASE RebuildReset
    <3>1. \A e \in Events, p \in Processors : proc'[e][p].st # "processed"
      BY <2>6 DEF RebuildReset, NoRow, Row
    <3>2. ProcessedSales' = {}
      BY <3>1, ConstantsAssumption DEF ProcessedSales
    <3> QED BY <2>2, <2>3, <2>6, <3>2 DEF RebuildReset, Seen!Next, Seen!Reset
  <2>7. CASE /\ UNCHANGED <<header, rebuild>>
             /\ ~ \E w \in Workers : /\ pc[w] = "locked" /\ ~Settled(claim[w])
                                     /\ WriteSale(cur[w])
    <3>1. UNCHANGED <<ProcessedSales, ShownSales, rebuild>>
      BY <2>3, <2>7, ProcessedSalesStay
    <3>2. CASE UNCHANGED inbox
      BY <2>2, <3>1, <3>2
    <3>3. ASSUME NEW e \in Events, Ingest(e)
          PROVE  Seen!Next \/ UNCHANGED SentSales
      <4>1. SentSales' = IF e \in Invalid THEN SentSales ELSE SentSales \cup {SaleOf[e]}
        BY <3>3, ConstantsAssumption DEF Ingest, SentSales
      <4> QED BY <3>1, <4>1, ConstantsAssumption DEF Seen!Next, Seen!Accept
    <3> QED BY <3>1, <3>2, <3>3, GrowthSteps
  <2> QED BY <2>4, <2>5, <2>6, <2>7, SaleSteps
<1> QED BY <1>1, <1>2, Invariance, PTL DEF Safe, Seen!Safe, IsSeenByReturns
-----------------------------------------------------------------------------
(* What the reports see of the sales.                                      *)

\* Of a rebuild the counter tells; and until there is one, what is shown is
\* processed.
ShownIsProcessed ==
    /\ rebuild = "cleared" => rebuilds > 0
    /\ rebuilds = 0 =>
        \A e \in Events : header[SaleOf[e]] = e => proc[e][Version[e]].st = "processed"

ReportInv == IInv /\ ShownIsProcessed

\* Only the first step of a rebuild counts one, and begins it.
LEMMA RebuildCounted ==
    ASSUME [Next]_vars
    PROVE  \/ UNCHANGED rebuilds /\ rebuild' \in {rebuild, "idle"}
           \/ RebuildClear
<1>1. ASSUME NEW w \in Workers, WorkerStep(w) \/ WorkerFault(w) PROVE UNCHANGED <<rebuild, rebuilds>>
  <2>1. CASE WorkerStep(w)
    BY <2>1
    DEF bounds, WorkerStep, Wake, Scan, DrainDone, Take, DrainAgain, Arbitrate, LockRow,
        SkipClaimed, Project, Block, PersistRetry
  <2>2. CASE WorkerFault(w)
    BY <2>2
    DEF WorkerFault, Fault, RetryNext, ArbitrateFails, LockFails, ProjectFails, BlockFails,
        AttemptLost, Crash
  <2> QED BY <1>1, <2>1, <2>2
<1> QED
  BY <1>1
  DEF Next, vars, bounds, Passing, Ingest, DbDue, AppDue, ResetProcessing, RebuildReset

LEMMA ShownIsProcessedNext ==
    ASSUME ReportInv, [Next]_vars
    PROVE  ShownIsProcessed'
<1>1. TypeOK /\ rebuilds \in Nat
  BY ConstantsAssumption DEF ReportInv, IInv, TypeOK
<1>2. CASE RebuildClear
  BY <1>1, <1>2 DEF RebuildClear, ShownIsProcessed
<1>3. CASE UNCHANGED rebuilds /\ rebuild' \in {rebuild, "idle"}
  <2> SUFFICES ASSUME NEW e \in Events, rebuilds = 0, header'[SaleOf[e]] = e
               PROVE  proc'[e][Version[e]].st = "processed"
    BY <1>3 DEF ReportInv, ShownIsProcessed
  <2>1. Version[e] \in Processors /\ SaleOf[e] \in Sales /\ e # NoEvent
    BY ConstantsAssumption
  <2>2. CASE header[SaleOf[e]] = e
    <3>1. proc[e][Version[e]].st = "processed" /\ rebuild # "cleared"
      BY <2>2 DEF ReportInv, ShownIsProcessed
    <3> QED BY <1>1, <2>1, <3>1, ProcessedStays
  <2>3. ASSUME NEW w \in Workers, pc[w] = "locked", WriteSale(cur[w]), header[SaleOf[e]] # e
        PROVE  proc'[e][Version[e]].st = "processed"
    <3>1. cur[w] \in Events /\ SaleOf[cur[w]] \in Sales
      BY <1>1, <2>3, CurrentEvent, ConstantsAssumption DEF Attempting, Labels
    <3>2. cur[w] = e
      BY <1>1, <2>1, <2>3, <3>1 DEF WriteSale, TypeOK
    <3> QED BY <1>1, <2>1, <2>3, <3>2 DEF WriteSale, SetRow, Row, TypeOK
  <2> QED BY <1>1, <2>1, <2>2, <2>3, HeaderSteps
<1> QED BY <1>2, <1>3, RebuildCounted

LEMMA ReportInvAlways == Safe => []ReportInv
<1>1. Init => ReportInv
  <2> SUFFICES ASSUME Init PROVE ShownIsProcessed
    BY IInvInit DEF ReportInv
  <2> QED BY ConstantsAssumption DEF Init, ShownIsProcessed
<1>2. ReportInv /\ [Next]_vars => ReportInv'
  BY IInvNext, ShownIsProcessedNext DEF ReportInv
<1> QED BY <1>1, <1>2, PTL DEF Safe

LEMMA FreshIsShown == ReportInv => FreshIsWhole
<1> SUFFICES ASSUME ReportInv PROVE FreshIsWhole
  OBVIOUS
<1>1. \A e \in Events : Version[e] \in Processors
  BY ConstantsAssumption
<1>2. inbox \subseteq Events /\ ProcessedIsProjected /\ ShownIsProcessed
  BY DEF ReportInv, IInv, TypeOK
<1> QED
  BY <1>1, <1>2
  DEF FreshIsWhole, ShownEvents, BlockedEvents, Settled, ProcessedIsProjected, ShownIsProcessed

\* One step writes one row at most, but for the reset of a rebuild.
LEMMA OneRowSteps ==
    ASSUME TypeOK, [Next]_vars
    PROVE  \/ UNCHANGED proc
           \/ RebuildReset
           \/ \E e \in Events, p \in Processors :
                 \A f \in Events, q \in Processors :
                    f # e \/ q # p => proc'[f][q] = proc[f][q]
<1>1. ASSUME NEW e \in Events, NEW p \in Processors, NEW row, SetRow(e, p, row)
      PROVE  \A f \in Events, q \in Processors : f # e \/ q # p => proc'[f][q] = proc[f][q]
  BY <1>1 DEF SetRow, TypeOK
<1>2. ASSUME NEW w \in Workers, WorkerStep(w) \/ WorkerFault(w), proc' # proc
      PROVE  \E e \in Events, p \in Processors : \E row : SetRow(e, p, row)
  <2>1. CASE Project(w) \/ ProjectFails(w)
    <3>1. pc[w] = "locked" /\ WriteSale(cur[w])
      BY <1>2, <2>1 DEF Project, ProjectFails
    <3>2. cur[w] \in Events /\ Version[cur[w]] \in Processors
      BY <3>1, CurrentEvent, ConstantsAssumption DEF Attempting, Labels
    <3> QED BY <3>1, <3>2 DEF WriteSale
  <2>2. CASE Block(w) \/ BlockFails(w)
    <3>1. pc[w] = "block" /\ SetRow(cur[w], Version[cur[w]], BlockedRow(proc[cur[w]][Version[cur[w]]]))
      BY <1>2, <2>2 DEF Block, BlockFails
    <3>2. cur[w] \in Events /\ Version[cur[w]] \in Processors
      BY <3>1, CurrentEvent, ConstantsAssumption DEF Attempting, Labels
    <3> QED BY <3>1, <3>2
  <2>3. CASE PersistRetry(w)
    <3>1. pc[w] = "retry" /\ SetRow(cur[w], retryUnder[w], RetryRow(proc[cur[w]][retryUnder[w]]))
      BY <2>3 DEF PersistRetry
    <3>2. cur[w] \in Events /\ retryUnder[w] \in Processors
      BY <3>1, CurrentEvent DEF Attempting, Labels, TypeOK
    <3> QED BY <3>1, <3>2
  <2>4. CASE WorkerStep(w)
    BY <1>2, <2>1, <2>2, <2>3, <2>4
    DEF tables, WorkerStep, Wake, Scan, DrainDone, Take, DrainAgain, Arbitrate, LockRow, SkipClaimed
  <2>5. CASE WorkerFault(w)
    BY <1>2, <2>1, <2>2, <2>5
    DEF tables, WorkerFault, ArbitrateFails, LockFails, AttemptLost, Crash
  <2> QED BY <1>2, <2>4, <2>5
<1>3. ASSUME NEW e \in Events, NEW p \in Processors, Passing(e, p) \/ ResetProcessing(e, p)
      PROVE  \E row : SetRow(e, p, row)
  BY <1>3 DEF Passing, DbDue, AppDue, ResetProcessing
<1> QED
  BY <1>1, <1>2, <1>3 DEF Next, vars, tables, Ingest, RebuildClear

\* What a step does to the rows as the reports see them, if it neither writes a
\* sale nor belongs to a rebuild.
LEMMA BlockedEventsStep ==
    ASSUME ReportInv, [Next]_vars, UNCHANGED <<header, rebuild>>,
           ~ \E w \in Workers : /\ pc[w] = "locked" /\ ~Settled(claim[w])
                                /\ WriteSale(cur[w])
    PROVE  \/ UNCHANGED BlockedEvents
           \/ /\ UNCHANGED inbox
              /\ \E e \in Events :
                    \/ /\ e \in inbox \ (ShownEvents \cup BlockedEvents)
                       /\ BlockedEvents' = BlockedEvents \cup {e}
                    \/ e \in BlockedEvents /\ BlockedEvents' = BlockedEvents \ {e}
<1>1. /\ TypeOK /\ WorkIsAccepted /\ OwnersClaimTheirSale /\ StageIsEarned /\ ProjectedByWinner
      /\ NoEvent \notin Events
  BY ConstantsAssumption DEF ReportInv, IInv
<1>2. \A e \in Events : Version[e] \in Processors /\ SaleOf[e] \in Sales
  BY ConstantsAssumption
<1>3. ~RebuildReset
  BY DEF RebuildReset
<1>4. CASE UNCHANGED proc
  BY <1>4 DEF BlockedEvents
<1>5. ASSUME NEW e \in Events, NEW p \in Processors, proc' # proc,
             \A f \in Events, q \in Processors : f # e \/ q # p => proc'[f][q] = proc[f][q]
      PROVE  \/ UNCHANGED BlockedEvents
             \/ /\ UNCHANGED inbox
                /\ \/ /\ e \in inbox \ (ShownEvents \cup BlockedEvents)
                      /\ BlockedEvents' = BlockedEvents \cup {e}
                   \/ e \in BlockedEvents /\ BlockedEvents' = BlockedEvents \ {e}
  <2>1. UNCHANGED inbox
    BY <1>5, GrowthSteps DEF Ingest
  <2>2. \A f \in Events \ {e} : f \in BlockedEvents' <=> f \in BlockedEvents
    BY <1>2, <1>5 DEF BlockedEvents
  <2>3. BlockedEvents \subseteq Events /\ BlockedEvents' \subseteq Events
    BY DEF BlockedEvents
  <2>4. CASE e \in BlockedEvents' <=> e \in BlockedEvents
    BY <2>2, <2>3, <2>4
  <2>5. CASE e \in BlockedEvents /\ e \notin BlockedEvents'
    BY <2>1, <2>2, <2>3, <2>5
  <2>6. CASE e \notin BlockedEvents /\ e \in BlockedEvents'
    <3>1. proc[e][Version[e]].st # "blocked" /\ proc'[e][Version[e]].st = "blocked"
      BY <2>6 DEF BlockedEvents
    <3>2. RowMarkedBlocked(e, Version[e])
      BY <1>1, <1>2, <3>1, RowSteps DEF RowMarkedProcessed, RowMarkedRetry, RowReopened
    <3>3. e \in inbox /\ (e \in Invalid \/ Lost(e))
      BY <1>1, <3>2 DEF RowMarkedBlocked, WorkIsAccepted, StageIsEarned
    <3>4. header[SaleOf[e]] # e
      BY <1>1, <1>2, <3>3 DEF ProjectedByWinner, OwnersClaimTheirSale, Lost
    <3> QED BY <2>1, <2>2, <2>3, <2>6, <3>3, <3>4 DEF ShownEvents
  <2> QED BY <2>4, <2>5, <2>6
<1> QED BY <1>1, <1>3, <1>4, <1>5, OneRowSteps

\* The projectors, whatever they retry, lose, reset or rebuild, do to the rows
\* only what the reports take them to do, and no accepted event unsettled means
\* none whose rows are missing: what is proved of the reports holds beside
\* these projectors.
THEOREM SalesAreReported == Safe => IsReported
<1>1. Init => Tables!Init
  <2> SUFFICES ASSUME Init PROVE Tables!Init
    OBVIOUS
  <2>1. \A e \in Events : Version[e] \in Processors /\ SaleOf[e] \in Sales /\ e # NoEvent
    BY ConstantsAssumption
  <2>2. ShownEvents = {} /\ BlockedEvents = {} /\ ~(rebuilds > 0)
    BY <2>1 DEF Init, ShownEvents, BlockedEvents, NoRow, Row
  <2> QED BY <2>2 DEF Init, Tables!Init
<1>2. ReportInv /\ [Next]_vars => [Tables!Projects \/ Tables!Operates]_Tables!vars
  <2> SUFFICES ASSUME ReportInv, [Next]_vars
               PROVE  Tables!Projects \/ Tables!Operates \/ UNCHANGED Tables!vars
    OBVIOUS
  <2>1. /\ TypeOK /\ StageIsEarned /\ OwnersClaimTheirSale /\ LockedRowIsStable
        /\ NoEvent \notin Events /\ rebuilds \in Nat
    BY ConstantsAssumption DEF ReportInv, IInv, TypeOK
  <2>2. UNCHANGED header => UNCHANGED ShownEvents
    BY DEF ShownEvents
  <2>3. UNCHANGED rebuild => UNCHANGED (rebuilds > 0)
    BY RebuildCounted DEF RebuildClear
  <2>4. ASSUME NEW w \in Workers, pc[w] = "locked", ~Settled(claim[w]), WriteSale(cur[w]),
               UNCHANGED rebuild
        PROVE  Tables!Projects \/ UNCHANGED Tables!vars
    <3> DEFINE e == cur[w]  s == SaleOf[e]  p == Version[e]
    <3>1. e \in Events /\ s \in Sales /\ p \in Processors /\ e # NoEvent
      BY <2>1, <2>4, CurrentEvent, ConstantsAssumption DEF Attempting, Labels
    <3>2. e \in inbox
      BY <2>1, <2>4, <3>1 DEF StageIsEarned, OwnersClaimTheirSale
    <3>3. ~Settled(proc[e][p])
      BY <2>1, <2>4 DEF LockedRowIsStable, Settled, Claimed
    <3>4. proc' = [proc EXCEPT ![e][p] = Row("processed")] /\ Row("processed").st = "processed"
      BY <2>4 DEF WriteSale, SetRow, Row
    <3>5. UNCHANGED inbox
      BY <2>1, <3>1, <3>3, <3>4, GrowthSteps DEF Ingest, Settled, TypeOK
    <3>6. UNCHANGED BlockedEvents
      <4> SUFFICES ASSUME NEW f \in Events
                   PROVE  proc'[f][Version[f]].st = "blocked" <=> proc[f][Version[f]].st = "blocked"
        BY DEF BlockedEvents
      <4>1. Version[f] \in Processors
        BY ConstantsAssumption
      <4> QED BY <2>1, <3>1, <3>3, <3>4, <4>1 DEF TypeOK, Settled
    <3>7. ShownEvents' = ShownEvents \cup {e}
      <4> SUFFICES ASSUME NEW f \in Events
                   PROVE  header'[SaleOf[f]] = f <=> header[SaleOf[f]] = f \/ f = e
        BY <3>1 DEF ShownEvents
      <4>1. SaleOf[f] \in Sales /\ f # NoEvent
        BY ConstantsAssumption
      <4> QED BY <2>1, <2>4, <3>1, <4>1 DEF WriteSale, TypeOK
    <3>8. e \notin BlockedEvents
      BY <3>3 DEF BlockedEvents, Settled
    <3> QED
      BY <2>3, <2>4, <3>1, <3>2, <3>5, <3>6, <3>7, <3>8
      DEF Tables!Projects, Tables!Book, Tables!vars
  <2>5. CASE RebuildClear
    <3>1. ShownEvents' = {}
      BY <2>5, ConstantsAssumption DEF RebuildClear, ShownEvents
    <3>2. UNCHANGED <<inbox, BlockedEvents>> /\ (rebuilds > 0)' = TRUE
      BY <2>1, <2>5 DEF RebuildClear, BlockedEvents
    <3> QED BY <3>1, <3>2 DEF Tables!Operates, Tables!Clear
  <2>6. CASE RebuildReset
    <3>1. \A e \in Events, p \in Processors : proc'[e][p].st # "blocked"
      BY <2>6 DEF RebuildReset, NoRow, Row
    <3>2. BlockedEvents' = {}
      BY <3>1, ConstantsAssumption DEF BlockedEvents
    <3>3. rebuilds > 0 /\ UNCHANGED <<inbox, header, rebuilds>>
      BY <2>6 DEF RebuildReset, ReportInv, ShownIsProcessed, bounds
    <3> QED BY <2>2, <3>2, <3>3 DEF Tables!Operates, Tables!Reset
  <2>7. CASE /\ UNCHANGED <<header, rebuild>>
             /\ ~ \E w \in Workers : /\ pc[w] = "locked" /\ ~Settled(claim[w])
                                     /\ WriteSale(cur[w])
    <3>1. UNCHANGED <<ShownEvents, (rebuilds > 0)>>
      BY <2>2, <2>3, <2>7
    <3>2. ASSUME NEW e \in Events, Ingest(e) PROVE Tables!Projects
      <4>1. UNCHANGED BlockedEvents
        BY <3>2 DEF Ingest, BlockedEvents
      <4> QED BY <3>1, <3>2, <4>1 DEF Ingest, Tables!Projects, Tables!Accept
    <3>3. CASE UNCHANGED <<inbox, BlockedEvents>>
      BY <3>1, <3>3 DEF Tables!vars
    <3>4. ASSUME NEW e \in inbox \ (ShownEvents \cup BlockedEvents), e \in Events,
                 UNCHANGED inbox, BlockedEvents' = BlockedEvents \cup {e}
          PROVE  Tables!Projects
      BY <3>1, <3>4 DEF Tables!Projects, Tables!Block
    <3>5. ASSUME NEW e \in BlockedEvents, e \in Events,
                 UNCHANGED inbox, BlockedEvents' = BlockedEvents \ {e}
          PROVE  Tables!Operates
      BY <3>1, <3>5 DEF Tables!Operates, Tables!Reopen
    <3> QED BY <2>7, <3>2, <3>3, <3>4, <3>5, GrowthSteps, BlockedEventsStep
  <2> QED BY <2>4, <2>5, <2>6, <2>7, SaleSteps
<1> QED BY <1>1, <1>2, ReportInvAlways, FreshIsShown, PTL DEF Safe, Tables!Safe, IsReported

\* The projectors keep all that they promise: towards the ledger, towards the
\* returns and towards the reports.
THEOREM SaleContractsKept == Safe => KeepsItsContracts
BY LedgerImplemented, ReturnsSeeTheSales, SalesAreReported DEF KeepsItsContracts

\* A shown sale is the winner's, and a processed row means it is shown.
THEOREM SaleRowsSound == Safe => []RowsAreSound
BY Invariance, PTL DEF IInv, RowsAreSound
=============================================================================
