---------------------------- MODULE SyncRecovery ----------------------------
(***************************************************************************)
(* Recovery of one Store after the Cloud database was restored from a      *)
(* backup (internal/syncrecovery/syncrecovery.go,                          *)
(* internal/adapter/postgres/sync_recovery.go): the restore marks every    *)
(* device, each device walks the history it retains in pages, resends what *)
(* Cloud lacks, and clears its mark when a walk has found nothing missing. *)
(*                                                                         *)
(* A call reads the ledger, reads the events and writes the ledger in      *)
(* statements of their own, so a later pass, a mark or another call may    *)
(* come in between.  Retail keeps to the protocol: it opens a pass, takes  *)
(* a snapshot, declares its size with the first page and sends every page  *)
(* with the generation it was given; it may give up on a call that goes on *)
(* at the server.  Requests without a generation, those of older clients,  *)
(* are left out.                                                           *)
(***************************************************************************)
EXTENDS Naturals, FiniteSets

CONSTANTS
    Tills,        \* the devices bound to the Store
    MaxSales,
    SoldAt,         \* the device an event is created on
    Works,          \* requests at work at once; 0 is none of them
    WalksSurvive,   \* whether Retail goes on with its walk after a restore
    NoDevice,
    MaxRestores,    \* bound: restores and marks by hand
    MaxLost         \* bound: answers lost and calls given up

Sales == 1 .. MaxSales

ASSUME RecoveryAssumption ==
    /\ MaxSales \in Nat /\ MaxRestores \in Nat /\ MaxLost \in Nat
    /\ SoldAt \in [Sales -> Tills] /\ NoDevice \notin Tills
    /\ WalksSurvive \in BOOLEAN /\ 0 \notin Works

VARIABLES
    held,       \* sync_events: the device each event Cloud holds came from
    ledger,     \* sync_recovery_state
    backup,     \* what a restore brings back
    row,        \* Retail's outbox: each event there, and where it stands
    walk,       \* the pass as each Retail knows it
    task,       \* the calls at work
    restores, lost

recVars == <<held, ledger, backup, row, walk, task, restores, lost>>
database == <<held, ledger>>
-----------------------------------------------------------------------------
NoLedger == [required |-> FALSE, gen |-> 0, last |-> 0, pages |-> 0, events |-> 0,
             declared |-> 0, complete |-> FALSE, missing |-> 0]

\* Of the pages of a walk only matters whether there is one: pages is 0 or 1.

\* UpsertRecoveryState: a new generation, and nothing of the old walk.
Marked(l) == [NoLedger EXCEPT !.required = TRUE, !.gen = l.gen + 1]

NotWalking == [gen |-> 0, left |-> {}, declared |-> 0, on |-> 0, clean |-> TRUE]
NoTask == [op |-> "none"]

Held == {e \in Sales : held[e] # NoDevice}
HeldFrom(d) == {e \in Sales : held[e] = d}
Retained(d) == {e \in Sales : row[e] # "none" /\ SoldAt[e] = d}
Smallest(S) == CHOOSE e \in S : \A o \in S : e <= o

\* Pages are the slices of a walk in the order of the event ids.
Slices(S) ==
    {T \in SUBSET S : T # {} /\ \A e \in T, o \in S \ T : e < o}
Last(S) == CHOOSE e \in S : \A o \in S : o <= e

RecInit ==
    /\ held = [e \in Sales |-> NoDevice]
    /\ ledger = [d \in Tills |-> NoLedger]
    /\ backup = [held |-> held, ledger |-> ledger]
    /\ row = [e \in Sales |-> "none"]
    /\ walk = [d \in Tills |-> NotWalking]
    /\ task = [x \in Works |-> NoTask]
    /\ restores = 0 /\ lost = 0
-----------------------------------------------------------------------------
\* A sale is finalized on a device, which goes on during a recovery.
Sell(e) ==
    /\ row[e] = "none"
    /\ row' = [row EXCEPT ![e] = "pending"]
    /\ UNCHANGED <<database, backup, walk, task, restores, lost>>

\* The sync worker sends a pending event; one Cloud holds is a duplicate.
Deliver(e) ==
    /\ row[e] = "pending"
    /\ row' = [row EXCEPT ![e] = "delivered"]
    /\ held' = IF e \in Held THEN held ELSE [held EXCEPT ![e] = SoldAt[e]]
    /\ UNCHANGED <<ledger, backup, walk, task, restores, lost>>

Backup ==
    /\ backup' = [held |-> held, ledger |-> ledger]
    /\ backup # backup'
    /\ UNCHANGED <<database, row, walk, task, restores, lost>>

\* pg-restore.sh: the content of the backup, every device marked.  Works at
\* work do not survive the database they run on.
Restore ==
    /\ restores < MaxRestores /\ restores' = restores + 1
    /\ held' = backup.held
    /\ ledger' = [d \in Tills |-> Marked(backup.ledger[d])]
    /\ task' = [x \in Works |-> NoTask]
    /\ walk' = [d \in Tills |->
                    IF WalksSurvive /\ walk[d].on = 0 THEN walk[d] ELSE NotWalking]
    /\ UNCHANGED <<backup, row, lost>>

\* Marked by hand while Cloud serves.
MarkRestoreRequired(d) ==
    /\ restores < MaxRestores /\ restores' = restores + 1
    /\ ledger' = [ledger EXCEPT ![d] = Marked(@)]
    /\ UNCHANGED <<held, backup, row, walk, task, lost>>

-----------------------------------------------------------------------------
\* Retail sends a request and waits for its answer.
Send(d, x, ask, w) ==
    /\ walk[d].on = 0 /\ task[x] = NoTask
    /\ task' = [task EXCEPT ![x] = ask]
    /\ walk' = [walk EXCEPT ![d] = [w EXCEPT !.on = x]]
    /\ UNCHANGED <<database, backup, row, restores, lost>>

AskBegin(d, x) ==
    /\ ledger[d].required /\ walk[d].gen = 0 /\ Retained(d) # {}
    /\ Send(d, x, [op |-> "begin", dev |-> d], NotWalking)

AskVerify(d, x) ==
    /\ walk[d].gen # 0
    /\ \E page \in Slices(walk[d].left) :
        Send(d, x, [op |-> "verify", dev |-> d, gen |-> walk[d].gen, page |-> page,
                    declared |-> walk[d].declared, end |-> page = walk[d].left,
                    missing |-> {}],
             [walk[d] EXCEPT !.left = @ \ page, !.declared = 0])

AskComplete(d, x) ==
    /\ walk[d].gen # 0 /\ walk[d].left = {} /\ walk[d].clean
    /\ Send(d, x, [op |-> "complete", dev |-> d], walk[d])

\* Something was missing: another pass, once it is resent.
WalkEnds(d) ==
    /\ walk[d].gen # 0 /\ walk[d].on = 0 /\ walk[d].left = {} /\ ~walk[d].clean
    /\ \A e \in Retained(d) : row[e] = "delivered"
    /\ walk' = [walk EXCEPT ![d] = NotWalking]
    /\ UNCHANGED <<database, backup, row, task, restores, lost>>

\* Retail waits no longer; the request goes on at the server.
GiveUp(d) ==
    /\ walk[d].on # 0 /\ lost < MaxLost /\ lost' = lost + 1
    /\ walk' = [walk EXCEPT ![d] = NotWalking]
    /\ UNCHANGED <<database, backup, row, task, restores>>

\* The call ends.  If its device still waits for it, the answer makes w of
\* the walk and requeues the delivered rows said to be missing, or is lost;
\* then Retail gives the pass up, or goes on without it.
Reply(x, w, missing) ==
    LET d == task[x].dev IN
    /\ task' = [task EXCEPT ![x] = NoTask]
    /\ \/ /\ walk[d].on = x
          /\ walk' = [walk EXCEPT ![d] = [w EXCEPT !.on = 0]]
          /\ row' = [e \in Sales |-> IF e \in missing /\ row[e] = "delivered"
                                      THEN "pending" ELSE row[e]]
          /\ UNCHANGED lost
       \/ /\ walk[d].on = x /\ lost < MaxLost
          /\ \E v \in {NotWalking, [walk[d] EXCEPT !.on = 0]} : walk' = [walk EXCEPT ![d] = v]
          /\ lost' = lost + 1 /\ UNCHANGED row
       \/ walk[d].on # x /\ UNCHANGED <<walk, row, lost>>

TurnAway(x) == Reply(x, NotWalking, {}) /\ UNCHANGED ledger

GoOn(x, next) ==
    /\ task' = [task EXCEPT ![x] = next]
    /\ UNCHANGED <<ledger, walk, row, lost>>
-----------------------------------------------------------------------------
\* Mutant: a pass that was left halfway is in the way of the next.
BeginnableOnce(l) == l.required /\ l.pages = 0

\* The condition of SyncRecoveryBeginVerify.
Beginnable(l) == l.required

\* BeginVerifyPass: a new generation, whose floor is what Cloud has of the
\* device.  Retail hears the generation before it takes its snapshot.
BeginVerifyPass(x) ==
    LET d == task[x].dev IN
    /\ task[x].op = "begin"
    /\ \/ /\ Beginnable(ledger[d])
          /\ ledger' = [ledger EXCEPT
                ![d] = [Marked(@) EXCEPT !.declared = Cardinality(HeldFrom(d))]]
          /\ Reply(x, [NotWalking EXCEPT !.gen = ledger[d].gen + 1, !.left = Retained(d),
                        !.declared = Cardinality(Retained(d))], {})
       \/ ~Beginnable(ledger[d]) /\ TurnAway(x)

\* Verify: the generation and the declaration must fit the ledger,
VerifyReadsLedger(x) ==
    LET l == ledger[task[x].dev] IN
    /\ task[x].op = "verify"
    /\ IF l.gen = task[x].gen /\ (l.pages = 0 <=> task[x].declared > 0)
       THEN GoOn(x, [task[x] EXCEPT !.op = "hashes"])
       ELSE TurnAway(x)

\* then the events are looked up,
VerifyReadsEvents(x) ==
    /\ task[x].op = "hashes"
    /\ GoOn(x, [task[x] EXCEPT !.op = "record", !.missing = task[x].page \ Held])

\* The condition of SyncRecoveryRecordVerifyPage.
Recordable(l, t) ==
    /\ l.gen = t.gen
    /\ l.pages = 0 <=> t.declared > 0
    /\ l.last < Smallest(t.page)

\* and the page is recorded if the ledger is still the one it fits.
RecordVerifyPage(x) ==
    LET t == task[x]  d == t.dev  l == ledger[d] IN
    /\ t.op = "record"
    /\ \/ /\ Recordable(l, t)
          /\ ledger' = [ledger EXCEPT ![d] =
                [l EXCEPT !.last = Last(t.page), !.pages = 1,
                          !.events = @ + Cardinality(t.page),
                          !.missing = @ + Cardinality(t.missing),
                          !.declared = IF @ > t.declared THEN @ ELSE t.declared,
                          !.complete = @ \/ t.end]]
          /\ Reply(x, [walk[d] EXCEPT !.clean = @ /\ t.missing = {}], t.missing)
       \/ ~Recordable(l, t) /\ TurnAway(x)

\* Mutant: a walk may end although something was missing.
CoversMissing(l) ==
    /\ l.pages > 0 /\ l.complete
    /\ l.declared > 0 /\ l.events >= l.declared

\* What Complete and the UPDATE that clears both ask of the ledger.
Covers(l) ==
    /\ l.pages > 0 /\ l.complete
    /\ l.declared > 0 /\ l.events >= l.declared
    /\ l.missing = 0

CompleteReadsLedger(x) ==
    LET l == ledger[task[x].dev] IN
    /\ task[x].op = "complete"
    /\ IF Covers(l)
       THEN GoOn(x, [op |-> "clear", dev |-> task[x].dev, gen |-> l.gen, events |-> l.events])
       ELSE TurnAway(x)

\* ClearRecoveryState.
Clearable(l, t) == l.gen = t.gen /\ Covers(l) /\ l.events = t.events

ClearRecoveryState(x) ==
    LET t == task[x] IN
    /\ t.op = "clear"
    /\ \/ /\ Clearable(ledger[t.dev], t)
          /\ ledger' = [ledger EXCEPT ![t.dev].required = FALSE]
          /\ Reply(x, NotWalking, {})
       \/ ~Clearable(ledger[t.dev], t) /\ TurnAway(x)
-----------------------------------------------------------------------------
Serve(x) ==
    /\ \/ BeginVerifyPass(x)
       \/ VerifyReadsLedger(x) \/ VerifyReadsEvents(x) \/ RecordVerifyPage(x)
       \/ CompleteReadsLedger(x) \/ ClearRecoveryState(x)
    /\ UNCHANGED <<held, backup, restores>>

Walks(d) ==
    \/ \E x \in Works : AskBegin(d, x) \/ AskVerify(d, x) \/ AskComplete(d, x)
    \/ WalkEnds(d)

RecoveryNext ==
    \/ \E e \in Sales : Sell(e) \/ Deliver(e)
    \/ Backup \/ Restore
    \/ \E d \in Tills : MarkRestoreRequired(d) \/ Walks(d) \/ GiveUp(d)
    \/ \E x \in Works : Serve(x)

RecoverySafe == RecInit /\ [][RecoveryNext]_recVars
-----------------------------------------------------------------------------
\* A cleared mark is earned: whatever a device was told is accepted, and
\* retains, Cloud has, although sales go on during its walk, answers are
\* lost and calls of an abandoned walk arrive late (Complete, Verify).
RecoveredIsWhole ==
    \A e \in Sales : row[e] = "delivered" /\ ~ledger[SoldAt[e]].required => e \in Held

\* Again and again every marked device that has a history is cleared: its walk
\* ends, however often its passes are given up.
EveryDeviceReconciles ==
    []<>(\A d \in Tills : ledger[d].required => Retained(d) = {})
=============================================================================
