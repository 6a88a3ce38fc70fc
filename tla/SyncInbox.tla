------------------------------ MODULE SyncInbox ------------------------------
(***************************************************************************)
(* The ingestion of sync batches (internal/sync/sync.go,                   *)
(* internal/adapter/postgres/sync.go): a device sends a batch from its     *)
(* outbox, a handler inserts the events one by one in a transaction,       *)
(* recognises the ones it has, refuses the batch that reuses an id, and    *)
(* answers after the commit.                                               *)
(*                                                                         *)
(* The handlers run concurrently over PostgreSQL at READ COMMITTED: an     *)
(* INSERT of a key another open transaction has inserted waits for its     *)
(* end, so does an UPDATE of a row it has updated, and a circle of waits   *)
(* is broken by failing one of them.  Validation comes before the          *)
(* transaction and leaves nothing behind, so the batches here are valid.   *)
(***************************************************************************)
EXTENDS Naturals, Sequences, FiniteSets

CONSTANTS
    Events,         \* what the devices have to send
    Ids, Devices, Bodies, Stores,
    Handlers,       \* concurrent requests
    IdOf, DeviceOf,
    BodyOf,         \* type, instant and canonical payload of an event
    LegacyHash,     \* body -> its v1 hash, which may collide
    Legacy,         \* the events accepted before exact hashes
    NoStore, NoRow,
    MaxBatch,       \* bound: events of a batch
    MaxFaults       \* bound: failing statements, lost answers and crashes

ASSUME ConstantsAssumption ==
    /\ IdOf \in [Events -> Ids] /\ DeviceOf \in [Events -> Devices]
    /\ BodyOf \in [Events -> Bodies] /\ LegacyHash \in [Bodies -> Nat]
    /\ Legacy \subseteq Events
    /\ \A e, f \in Legacy : IdOf[e] = IdOf[f] => e = f
    /\ NoStore \notin Stores
    /\ MaxBatch \in Nat \ {0} /\ MaxFaults \in Nat

VARIABLES
    inbox,      \* sync_events: id -> committed row
    binding,    \* device_store_bindings
    outbox,     \* the events a device has not been answered for
    acked, refused, \* history: the answers the devices have received
    pc,
    batch,      \* the events of the request
    pos,        \* the next one to insert
    store,      \* the binding read when the transaction began
    wrote,      \* the events inserted and not committed
    raised,     \* the ids whose hash is upgraded and not committed
    answer,
    faults

device  == <<outbox, acked, refused>>
request == <<pc, batch, pos, store, wrote, raised, answer>>
vars    == <<inbox, binding, device, request, faults>>
-----------------------------------------------------------------------------
Rows == [dev : Devices, body : Bodies, store : Stores \cup {NoStore}, exact : BOOLEAN]
ASSUME RowAssumption == NoRow \notin Rows

Row(e, s, exact) == [dev |-> DeviceOf[e], body |-> BodyOf[e], store |-> s, exact |-> exact]

Kinds == {"none", "ok", "reuse", "unavailable"}

\* Mutant: equal v1 hashes are taken for equal events.
SameByHash(row, e) == LegacyHash[row.body] = LegacyHash[BodyOf[e]]

\* sameImmutableIdentity: for v1 rows too it is the stored payload that is
\* compared, never the hash alone.
Same(row, e) == row.dev = DeviceOf[e] /\ row.body = BodyOf[e]

Batches(S) ==
    {b \in UNION {[1 .. n -> S] : n \in 1 .. MaxBatch} :
        \A i, j \in DOMAIN b : i # j => IdOf[b[i]] # IdOf[b[j]]}

EventsOf(h) == {batch[h][i] : i \in DOMAIN batch[h]}
Event(h) == batch[h][pos[h]]
AtEvent(h) == pc[h] = "insert" /\ pos[h] <= Len(batch[h])
Known(h) == inbox[IdOf[Event(h)]]

\* The event is already accepted and its row still has a v1 hash.
Upgrades(h) == Known(h) # NoRow /\ Same(Known(h), Event(h)) /\ ~Known(h).exact

\* The transactions the next statement of h has to wait for.
WaitsFor(h) ==
    {g \in Handlers \ {h} :
        /\ AtEvent(h)
        /\ \/ \E e \in wrote[g] : IdOf[e] = IdOf[Event(h)]
           \/ Upgrades(h) /\ IdOf[Event(h)] \in raised[g]}

Deadlocked(h) ==
    \E S \in SUBSET Handlers : h \in S /\ S = UNION {WaitsFor(g) : g \in S}
-----------------------------------------------------------------------------
Init ==
    /\ binding = [d \in Devices |-> NoStore]
    /\ inbox = [i \in Ids |->
                  IF \E e \in Legacy : IdOf[e] = i
                  THEN Row(CHOOSE e \in Legacy : IdOf[e] = i, NoStore, FALSE)
                  ELSE NoRow]
    /\ outbox = [d \in Devices |-> {e \in Events : DeviceOf[e] = d}]
    /\ acked = {} /\ refused = {}
    /\ pc = [h \in Handlers |-> "idle"]
    /\ batch = [h \in Handlers |-> <<>>]
    /\ pos = [h \in Handlers |-> 1]
    /\ store = [h \in Handlers |-> NoStore]
    /\ wrote = [h \in Handlers |-> {}]
    /\ raised = [h \in Handlers |-> {}]
    /\ answer = [h \in Handlers |-> "none"]
    /\ faults = 0

Fault == faults < MaxFaults /\ faults' = faults + 1

\* The transaction ends with the answer a; what it wrote is gone or visible.
EndTransaction(h, a) ==
    /\ pc' = [pc EXCEPT ![h] = "answer"]
    /\ answer' = [answer EXCEPT ![h] = a]
    /\ wrote' = [wrote EXCEPT ![h] = {}]
    /\ raised' = [raised EXCEPT ![h] = {}]
    /\ UNCHANGED <<batch, pos, store>>

EndRequest(h) ==
    /\ pc' = [pc EXCEPT ![h] = "idle"]
    /\ batch' = [batch EXCEPT ![h] = <<>>]
    /\ pos' = [pos EXCEPT ![h] = 1]
    /\ store' = [store EXCEPT ![h] = NoStore]
    /\ wrote' = [wrote EXCEPT ![h] = {}]
    /\ raised' = [raised EXCEPT ![h] = {}]
    /\ answer' = [answer EXCEPT ![h] = "none"]

Advance(h) == pos' = [pos EXCEPT ![h] = @ + 1]
-----------------------------------------------------------------------------
\* Mutant: the store is the one the batch names.
ReceiveClaimed(h, d, b) ==
    /\ pc[h] = "idle"
    /\ b \in Batches(outbox[d])
    /\ pc' = [pc EXCEPT ![h] = "insert"]
    /\ batch' = [batch EXCEPT ![h] = b]
    /\ \E s \in Stores : store' = [store EXCEPT ![h] = s]
    /\ UNCHANGED <<inbox, binding, device, pos, wrote, raised, answer, faults>>

\* A device sends a batch, again if it has not been answered for it and even
\* while an earlier request still runs.  The transaction begins by reading
\* the device's binding.
Receive(h, d, b) ==
    /\ pc[h] = "idle"
    /\ b \in Batches(outbox[d])
    /\ pc' = [pc EXCEPT ![h] = "insert"]
    /\ batch' = [batch EXCEPT ![h] = b]
    /\ store' = [store EXCEPT ![h] = binding[d]]
    /\ UNCHANGED <<inbox, binding, device, pos, wrote, raised, answer, faults>>

\* Some device registers, or is enrolled: bindings are never replaced.
Bind(d, s) ==
    /\ binding[d] = NoStore
    /\ binding' = [binding EXCEPT ![d] = s]
    /\ UNCHANGED <<inbox, device, request, faults>>

InsertEvent(h) ==
    /\ AtEvent(h)
    /\ Known(h) = NoRow
    /\ WaitsFor(h) = {}
    /\ wrote' = [wrote EXCEPT ![h] = @ \cup {Event(h)}]
    /\ Advance(h)
    /\ UNCHANGED <<inbox, binding, device, pc, batch, store, raised, answer, faults>>

\* The event is already accepted; a v1 row is upgraded on the way.
Recognise(h) ==
    /\ AtEvent(h)
    /\ Known(h) # NoRow /\ Same(Known(h), Event(h))
    /\ WaitsFor(h) = {}
    /\ raised' = [raised EXCEPT ![h] = IF Upgrades(h) THEN @ \cup {IdOf[Event(h)]} ELSE @]
    /\ Advance(h)
    /\ UNCHANGED <<inbox, binding, device, pc, batch, store, wrote, answer, faults>>

\* Mutant: a reuse is answered as a transient failure.
RefuseForNow(h) ==
    /\ AtEvent(h)
    /\ Known(h) # NoRow /\ ~Same(Known(h), Event(h))
    /\ EndTransaction(h, "unavailable")
    /\ UNCHANGED <<inbox, binding, device, faults>>

\* EVENT_ID_REUSE: the whole batch is rolled back.  pos stays at the culprit.
Refuse(h) ==
    /\ AtEvent(h)
    /\ Known(h) # NoRow /\ ~Same(Known(h), Event(h))
    /\ EndTransaction(h, "reuse")
    /\ UNCHANGED <<inbox, binding, device, faults>>

StatementFails(h) ==
    /\ AtEvent(h)
    /\ Fault
    /\ EndTransaction(h, "unavailable")
    /\ UNCHANGED <<inbox, binding, device>>

\* The error of UpgradeSyncEventHash is dropped; the transaction is aborted.
AbortedByUpgrade(h) ==
    /\ pc' = [pc EXCEPT ![h] = "aborted"]
    /\ wrote' = [wrote EXCEPT ![h] = {}]
    /\ raised' = [raised EXCEPT ![h] = {}]
    /\ UNCHANGED <<inbox, binding, device, batch, pos, store, answer>>

UpgradeFails(h) ==
    /\ AtEvent(h) /\ Upgrades(h)
    /\ Fault
    /\ AbortedByUpgrade(h)

\* PostgreSQL breaks a circle of waits by failing a statement of it.
DeadlockVictim(h) ==
    /\ Deadlocked(h)
    /\ \/ Upgrades(h) /\ AbortedByUpgrade(h)
       \/ /\ ~Upgrades(h)
          /\ EndTransaction(h, "unavailable")
          /\ UNCHANGED <<inbox, binding, device>>
    /\ UNCHANGED faults

\* The next statement of an aborted transaction, or its COMMIT, fails.
Aborted(h) ==
    /\ pc[h] = "aborted"
    /\ EndTransaction(h, "unavailable")
    /\ UNCHANGED <<inbox, binding, device, faults>>

Committed(h) ==
    [i \in Ids |->
        IF \E e \in wrote[h] : IdOf[e] = i
        THEN Row(CHOOSE e \in wrote[h] : IdOf[e] = i, store[h], TRUE)
        ELSE IF i \in raised[h] THEN [inbox[i] EXCEPT !.exact = TRUE]
        ELSE inbox[i]]

Inserted(h) == pc[h] = "insert" /\ pos[h] > Len(batch[h])

Commit(h) ==
    /\ Inserted(h)
    /\ inbox' = Committed(h)
    /\ EndTransaction(h, "ok")
    /\ UNCHANGED <<binding, device, faults>>

\* COMMIT fails at the client and may have happened.
CommitFails(h) ==
    /\ Inserted(h)
    /\ Fault
    /\ inbox' \in {inbox, Committed(h)}
    /\ EndTransaction(h, "unavailable")
    /\ UNCHANGED <<binding, device>>
-----------------------------------------------------------------------------
\* A device drops what is acknowledged, sets aside an event whose id is
\* reused, and keeps the rest for a later batch.
Answered(h) ==
    /\ pc[h] = "answer"
    /\ acked' = IF answer[h] = "ok" THEN acked \cup EventsOf(h) ELSE acked
    /\ refused' = IF answer[h] = "reuse" THEN refused \cup {Event(h)} ELSE refused
    /\ outbox' = [d \in Devices |-> outbox[d] \ (acked' \cup refused')]
    /\ EndRequest(h)
    /\ UNCHANGED <<inbox, binding, faults>>

\* The answer is lost, or the process dies and its transaction with it.
Unanswered(h) ==
    /\ pc[h] # "idle"
    /\ Fault
    /\ EndRequest(h)
    /\ UNCHANGED <<inbox, binding, device>>
\* All the devices have their answers.
Quiet ==
    /\ \A h \in Handlers : pc[h] = "idle"
    /\ \A d \in Devices : outbox[d] = {}
    /\ UNCHANGED vars
-----------------------------------------------------------------------------
HandlerStep(h) ==
    \/ InsertEvent(h) \/ Recognise(h) \/ Refuse(h) \/ DeadlockVictim(h)
    \/ Aborted(h) \/ Commit(h) \/ Answered(h)

HandlerFault(h) ==
    StatementFails(h) \/ UpgradeFails(h) \/ CommitFails(h) \/ Unanswered(h)

Next ==
    \/ \E h \in Handlers :
        \/ \E d \in Devices : \E b \in Batches(outbox[d]) : Receive(h, d, b)
        \/ HandlerStep(h) \/ HandlerFault(h)
    \/ \E d \in Devices, s \in Stores : Bind(d, s)
    \/ Quiet

Safe == Init /\ [][Next]_vars

\* A handler is scheduled, and a device keeps sending what is in its outbox.
Sends(e) ==
    \E h \in Handlers, b \in Batches(outbox[DeviceOf[e]]) :
        e \in {b[i] : i \in DOMAIN b} /\ Receive(h, DeviceOf[e], b)
-----------------------------------------------------------------------------
\* Every variable has its type, and only a request under way holds state.
TypeOK ==
    /\ inbox \in [Ids -> Rows \cup {NoRow}]
    /\ binding \in [Devices -> Stores \cup {NoStore}]
    /\ outbox \in [Devices -> SUBSET Events]
    /\ acked \subseteq Events /\ refused \subseteq Events
    /\ pc \in [Handlers -> {"idle", "insert", "aborted", "answer"}]
    /\ batch \in [Handlers -> Seq(Events)] /\ pos \in [Handlers -> Nat]
    /\ \A h \in Handlers : pos[h] \in 1 .. Len(batch[h]) + 1
    /\ store \in [Handlers -> Stores \cup {NoStore}]
    /\ wrote \in [Handlers -> SUBSET Events]
    /\ raised \in [Handlers -> SUBSET Ids]
    /\ answer \in [Handlers -> Kinds]
    /\ faults \in 0 .. MaxFaults
    /\ \A h \in Handlers : pc[h] = "idle" <=> batch[h] = <<>>

Holds(e) ==
    LET row == inbox[IdOf[e]] IN
    row # NoRow /\ <<row.dev, row.body>> = <<DeviceOf[e], BodyOf[e]>>

\* ACK means committed: whatever failed, was lost or ran beside it, an event
\* a device was answered ok for is in the inbox with its own identity.
AckedIsDurable ==
    \A e \in acked : Holds(e)

\* EVENT_ID_REUSE is final for the device, so it is only said of an id that
\* a committed row of another identity holds, never of a rival that may
\* still roll back.
RefusedForCause ==
    \A e \in refused : inbox[IdOf[e]] # NoRow /\ ~Holds(e)

\* What a device is told of its events is so, and remains so.
AnswersAreTrue == AckedIsDurable /\ RefusedForCause

\* All or nothing: what an open transaction inserted is not visible, and no
\* two of them have inserted the same id.
InvisibleUntilCommit ==
    \A h \in Handlers : \A e \in wrote[h] :
        /\ inbox[IdOf[e]] = NoRow
        /\ \A g \in Handlers \ {h} : \A f \in wrote[g] : IdOf[f] # IdOf[e]

\* The store of a row is the one its device is bound to, or none; a batch
\* that read the binding before it was made never names another store.
StoreIsTrusted ==
    \A i \in Ids : inbox[i] # NoRow =>
        inbox[i].store \in {NoStore, binding[inbox[i].dev]}

\* What the projections rely on.
InboxIsSound == TypeOK /\ InvisibleUntilCommit /\ StoreIsTrusted

\* Accepted events are immutable: a row is never removed or rewritten, and
\* its hash version only rises.
NeverRewritten ==
    [][\A i \in Ids : inbox[i] # NoRow =>
        /\ inbox'[i] # NoRow
        /\ inbox'[i] = [inbox[i] EXCEPT !.exact = inbox'[i].exact]
        /\ inbox[i].exact => inbox'[i].exact]_vars

\* What the code says of the upgrade: when it fails the recognition of the
\* duplicate does not, so the batch is not answered as a failure for it.
UpgradeFailureIsHarmless ==
    [][\A h \in Handlers : pc[h] = "aborted" => answer'[h] # "unavailable"]_vars
=============================================================================
