---------------------------- MODULE CommerceSync ----------------------------
(***************************************************************************)
(* Products kept in step with the online shops (internal/commerce,         *)
(* internal/adapter/postgres).  A change of what a product should be       *)
(* online is queued with the change itself; a worker of each instance      *)
(* leases the queue and sends, shop after shop, the product and then its   *)
(* stock.  An advisory lock held by a database session orders the senders  *)
(* of a product; since the session may be lost while a request is on its   *)
(* way, the shops that cannot recognise a repeated request have a barrier  *)
(* row besides, written before each request and deleted on its answer.     *)
(*                                                                         *)
(* A version of the intent stands for all a product should be; variants    *)
(* and frames are further requests of the same kinds, and a shop is        *)
(* external: it applies a request, refuses it, or answers nothing.         *)
(***************************************************************************)
EXTENDS Naturals, FiniteSets

CONSTANTS
    Products,
    Shops,              \* provider keys
    Barred,             \* the shops with barriers (Shopify; WooCommerce has none)
    Hidden,             \* versions of the intent that are not published
    Syncers,            \* instances
    MaxIntent,          \* bound: versions of the intent of a product
    MaxMishaps          \* bound: crashes, lost sessions and answers, failures

Nobody == "nobody"

ASSUME CommerceAssumption ==
    /\ Barred \subseteq Shops /\ Nobody \notin Syncers
    /\ MaxIntent \in Nat \ {0} /\ MaxMishaps \in Nat
    /\ Hidden \subseteq 1 .. MaxIntent
    /\ IsFiniteSet(Syncers) /\ IsFiniteSet(Shops) /\ IsFiniteSet(Products)

VARIABLES
    registry,       \* the shops that are configured
    intent,         \* what each product should be online
    queue,          \* commerce_product_reevaluations
    syncer,         \* where each worker is
    syncLock,       \* the session that holds the advisory lock
    barrier,        \* commerce_product_mutation_barriers, the active row
    mapped,         \* commerce_product_mappings
    wire,           \* requests on their way
    remote,         \* what the shops hold
    resolver,       \* the operator
    mishaps

commerceVars == <<registry, intent, queue, syncer, syncLock, barrier, mapped, wire,
                  remote, resolver, mishaps>>
-----------------------------------------------------------------------------
Tokens == 1 .. Cardinality(Syncers) + Cardinality(Products) + 1
Requests == 1 .. 2 * Cardinality(Syncers) + Cardinality(Shops \X Products) + MaxMishaps + 1
Kinds == {"create", "update", "stock"}

NotQueued == [st |-> "none", requested |-> 0, claimed |-> 0, token |-> 0,
              live |-> FALSE, due |-> FALSE]
NoBarrier == [st |-> "none", op |-> 0]
NothingThere == [product |-> 0, stock |-> 0, copies |-> 0]
AtRest == [at |-> "idle", token |-> 0, batch |-> {}, row |-> {}, left |-> {},
           failed |-> FALSE, shop |-> Nobody, v |-> 0, kind |-> "update", op |-> 0,
           reply |-> "none"]
NoResolution == [at |-> "idle", spot |-> <<>>, op |-> 0]

IsPublished(v) == v \notin Hidden
\* The claim in hand: a product and the generation of its claim.
Product(w) == CHOOSE p \in Products : \E c \in syncer[w].row : c[1] = p
Claimed(w) == CHOOSE g \in 1 .. MaxIntent : \E c \in syncer[w].row : c[2] = g
Spot(w) == <<syncer[w].shop, Product(w)>>

\* A new identity: none that a row, a worker, a request or the operator holds.
FreshToken == CHOOSE t \in Tokens :
    t \notin {syncer[w].token : w \in Syncers} \cup {queue[p].token : p \in Products}
FreshRequest == CHOOSE r \in Requests :
    /\ r \notin {q.op : q \in wire} \cup {syncer[w].op : w \in Syncers}
    /\ r \notin {barrier[s].op : s \in Shops \X Products} \cup {resolver.op}

\* A product is new, or it has been kept hidden and no shop has seen it.
CommerceInit ==
    /\ registry \in SUBSET Shops
    /\ intent \in [Products -> 1 .. MaxIntent]
    /\ \E hidden \in SUBSET {p \in Products : ~IsPublished(intent[p])} :
        queue = [p \in Products |->
            IF p \in hidden THEN NotQueued
            ELSE [NotQueued EXCEPT !.st = "row", !.requested = 1, !.due = TRUE]]
    /\ syncer = [w \in Syncers |-> AtRest]
    /\ syncLock = [s \in Shops \X Products |-> Nobody]
    /\ barrier = [s \in Shops \X Products |-> NoBarrier]
    /\ mapped = [s \in Shops \X Products |-> FALSE]
    /\ wire = {}
    /\ remote = [s \in Shops \X Products |-> NothingThere]
    /\ resolver = NoResolution
    /\ mishaps \in 0 .. MaxMishaps
-----------------------------------------------------------------------------
(* The queue.                                                              *)

\* A request for a product that is queued leaves its lease alone.
Enqueued(p) ==
    IF queue[p].st = "none"
    THEN [NotQueued EXCEPT !.st = "row", !.requested = 1, !.due = TRUE]
    ELSE [queue[p] EXCEPT !.requested = @ + 1, !.due = TRUE]

\* A change of some products, with their requests, in one transaction.
IntentChanges(changed) ==
    /\ \A p \in changed : intent[p] < MaxIntent
    /\ intent' = [p \in Products |-> IF p \in changed THEN intent[p] + 1 ELSE intent[p]]
    /\ queue' = [p \in Products |-> IF p \in changed THEN Enqueued(p) ELSE queue[p]]
    /\ UNCHANGED <<registry, syncer, syncLock, barrier, mapped, wire, remote, resolver, mishaps>>

DueProducts == {p \in Products : queue[p].st = "row" /\ queue[p].due /\ ~queue[p].live}

\* SKIP LOCKED: some of the rows that are due.
ClaimProductReevaluations(w) ==
    /\ syncer[w].at = "idle"
    /\ \E batch \in SUBSET DueProducts \ {{}} :
        /\ queue' = [p \in Products |->
                IF p \in batch
                THEN [queue[p] EXCEPT !.token = FreshToken, !.live = TRUE,
                                      !.claimed = queue[p].requested]
                ELSE queue[p]]
        /\ syncer' = [syncer EXCEPT ![w] =
                [AtRest EXCEPT !.at = "batch", !.token = FreshToken,
                               !.batch = {<<p, queue[p].requested>> : p \in batch}]]
    /\ UNCHANGED <<registry, intent, syncLock, barrier, mapped, wire, remote, resolver, mishaps>>

\* The claim is the one of the row, and its lease has not passed.
HoldsLease(w) ==
    LET row == queue[Product(w)] IN
    row.st = "row" /\ row.token = syncer[w].token /\ row.live /\ row.claimed = Claimed(w)

GoesTo(w, next) == syncer' = [syncer EXCEPT ![w] = next]
BatchGoesOn(w) ==
    GoesTo(w, IF syncer[w].batch = {} THEN AtRest
              ELSE [AtRest EXCEPT !.at = "batch", !.token = syncer[w].token,
                                  !.batch = syncer[w].batch])

TakeProduct(w) ==
    /\ syncer[w].at = "batch"
    /\ \E c \in syncer[w].batch :
        GoesTo(w, [syncer[w] EXCEPT !.at = "next", !.batch = @ \ {c}, !.row = {c},
                                    !.left = registry])
    /\ UNCHANGED <<registry, intent, queue, syncLock, barrier, mapped, wire, remote,
                   resolver, mishaps>>

\* A member of the batch whose lease has passed is given up.
NextShop(w) ==
    /\ syncer[w].at = "next" /\ syncer[w].left # {}
    /\ \/ ~HoldsLease(w) /\ BatchGoesOn(w)
       \/ HoldsLease(w) /\ \E s \in syncer[w].left :
            GoesTo(w, [syncer[w] EXCEPT !.at = "wait", !.shop = s])
    /\ UNCHANGED <<registry, intent, queue, syncLock, barrier, mapped, wire, remote,
                   resolver, mishaps>>

\* Mutant: a newer request is deleted with the one that was served.
AfterCompleteAll(p) == NotQueued

AfterComplete(p) ==
    IF queue[p].requested = queue[p].claimed THEN NotQueued
    ELSE [queue[p] EXCEPT !.token = 0, !.live = FALSE, !.claimed = 0, !.due = TRUE]

\* The schedule of a newer request stands.
AfterRetry(p) ==
    [queue[p] EXCEPT !.token = 0, !.live = FALSE, !.claimed = 0,
                     !.due = queue[p].requested > queue[p].claimed]

\* CompleteProductReevaluation and RetryProductReevaluation; a claim that is
\* no longer the row's changes nothing.
FinishProduct(w) ==
    LET p == Product(w) IN
    /\ syncer[w].at = "next" /\ syncer[w].left = {}
    /\ queue' = IF ~HoldsLease(w) THEN queue
                ELSE [queue EXCEPT ![p] = IF syncer[w].failed THEN AfterRetry(p)
                                          ELSE AfterComplete(p)]
    /\ BatchGoesOn(w)
    /\ UNCHANGED <<registry, intent, syncLock, barrier, mapped, wire, remote, resolver, mishaps>>
-----------------------------------------------------------------------------
(* One shop (WithProductSync and SyncProduct).                             *)

\* The session's transaction ends and the next shop is tried.
ShopEnds(w, failed) ==
    GoesTo(w, [syncer[w] EXCEPT !.at = "next", !.left = @ \ {syncer[w].shop},
                                !.failed = @ \/ failed, !.shop = Nobody, !.v = 0,
                                !.kind = "update", !.op = 0, !.reply = "none"])

Unlocked(w) == [s \in Shops \X Products |-> IF syncLock[s] = w THEN Nobody ELSE syncLock[s]]

MayStart(s) == barrier[s].st = "none"

LockProduct(w) ==
    LET s == Spot(w) IN
    /\ syncer[w].at = "wait" /\ syncLock[s] = Nobody
    /\ \/ /\ MayStart(s)
          /\ syncLock' = [syncLock EXCEPT ![s] = w]
          /\ GoesTo(w, [syncer[w] EXCEPT !.at = "read"])
       \/ ~MayStart(s) /\ ShopEnds(w, TRUE) /\ UNCHANGED syncLock
    /\ UNCHANGED <<registry, intent, queue, barrier, mapped, wire, remote, resolver, mishaps>>

\* The state is read under the lock, and the shop searched for the product
\* when no mapping tells it.
ReadDesired(w) ==
    LET s == Spot(w)
        v == intent[Product(w)]
    IN
    /\ syncer[w].at = "read"
    /\ \/ /\ ~IsPublished(v) /\ ~mapped[s]
          /\ GoesTo(w, [syncer[w] EXCEPT !.at = "done"])
       \/ /\ IsPublished(v) \/ mapped[s]
          /\ GoesTo(w, [syncer[w] EXCEPT !.at = "ready", !.v = v,
                !.kind = IF mapped[s] \/ remote[s].product # 0 THEN "update" ELSE "create"])
    /\ UNCHANGED <<registry, intent, queue, syncLock, barrier, mapped, wire, remote,
                   resolver, mishaps>>

SessionLives(w) == syncLock[Spot(w)] = w

\* BeginProductMutation: the barrier is written on a connection of its own.
BeginMutation(w) ==
    LET s == Spot(w) IN
    /\ syncer[w].at = "ready" /\ syncer[w].shop \in Barred
    /\ SessionLives(w) /\ barrier[s].st = "none"
    /\ barrier' = [barrier EXCEPT ![s] = [st |-> "in_flight", op |-> FreshRequest]]
    /\ GoesTo(w, [syncer[w] EXCEPT !.at = "begun", !.op = FreshRequest])
    /\ UNCHANGED <<registry, intent, queue, syncLock, mapped, wire, remote, resolver, mishaps>>

\* The session is looked at once more.
ClearToSend(w) ==
    /\ syncer[w].at = "begun" /\ SessionLives(w)
    /\ GoesTo(w, [syncer[w] EXCEPT !.at = "cleared"])
    /\ UNCHANGED <<registry, intent, queue, syncLock, barrier, mapped, wire, remote,
                   resolver, mishaps>>

Send(w) ==
    LET op == IF syncer[w].shop \in Barred THEN syncer[w].op ELSE FreshRequest IN
    /\ \/ syncer[w].at = "cleared"
       \/ syncer[w].at = "ready" /\ syncer[w].shop \notin Barred
    /\ wire' = wire \cup {[op |-> op, at |-> Spot(w), kind |-> syncer[w].kind,
                           v |-> syncer[w].v]}
    /\ GoesTo(w, [syncer[w] EXCEPT !.at = "sent", !.op = op])
    /\ UNCHANGED <<registry, intent, queue, syncLock, barrier, mapped, remote, resolver, mishaps>>

\* Only this request's row.
Cleared(s, op) == IF barrier[s] = [st |-> "in_flight", op |-> op] THEN NoBarrier ELSE barrier[s]

\* A definite answer: the barrier goes, then the answer is believed.
CompleteMutation(w) ==
    LET s == Spot(w)
        known == syncer[w].shop \notin Barred \/ barrier[s] = [st |-> "in_flight",
                                                               op |-> syncer[w].op]
    IN
    /\ syncer[w].at = "sent" /\ syncer[w].reply # "none" /\ known
    /\ barrier' = [barrier EXCEPT ![s] = Cleared(s, syncer[w].op)]
    /\ GoesTo(w, [syncer[w] EXCEPT !.op = 0, !.reply = "none",
            !.at = CASE syncer[w].reply = "refused" -> "refused"
                     [] syncer[w].reply = "applied" /\ syncer[w].kind = "stock" -> "done"
                     [] OTHER -> "map"])
    /\ UNCHANGED <<registry, intent, queue, syncLock, mapped, wire, remote, resolver, mishaps>>

Maps(s) == [mapped EXCEPT ![s] = TRUE]

\* CreateProductMapping, before the stock.
SaveMapping(w) ==
    /\ syncer[w].at = "map"
    /\ mapped' = Maps(Spot(w))
    /\ GoesTo(w, [syncer[w] EXCEPT !.at = "ready", !.kind = "stock"])
    /\ UNCHANGED <<registry, intent, queue, syncLock, barrier, wire, remote, resolver, mishaps>>

\* A commit that fails is a failure.
ShopDone(w) ==
    /\ syncer[w].at = "done"
    /\ ShopEnds(w, syncLock[Spot(w)] # w)
    /\ syncLock' = Unlocked(w)
    /\ UNCHANGED <<registry, intent, queue, barrier, mapped, wire, remote, resolver, mishaps>>

\* Why the work may fail without a mishap.
FailsByItself(w) ==
    \/ syncer[w].at = "refused"
    \/ syncer[w].at = "ready" /\ syncer[w].shop \in Barred
        /\ (~SessionLives(w) \/ barrier[Spot(w)].st # "none")
    \/ syncer[w].at = "begun" /\ ~SessionLives(w)
    \/ syncer[w].at = "sent" /\ syncer[w].reply # "none" /\ syncer[w].shop \in Barred
        /\ barrier[Spot(w)] # [st |-> "in_flight", op |-> syncer[w].op]

\* retain: the barrier of a request whose end is unknown stays, marked if
\* that succeeds.
Retained(w) ==
    LET s == Spot(w)
        mine == syncer[w].op # 0 /\ barrier[s] = [st |-> "in_flight", op |-> syncer[w].op]
    IN
    {barrier} \cup (IF mine THEN {[barrier EXCEPT ![s].st = "uncertain"]} ELSE {})

ShopFails(w) ==
    /\ barrier' \in Retained(w)
    /\ ShopEnds(w, TRUE)
    /\ syncLock' = Unlocked(w)
    /\ UNCHANGED <<registry, intent, queue, mapped, wire, remote, resolver>>

\* No answer, a database error, or the two minutes are over.
WorkFails(w) ==
    /\ syncer[w].at \in {"wait", "read", "ready", "begun", "cleared", "sent", "map"}
    /\ mishaps < MaxMishaps /\ mishaps' = mishaps + 1
    /\ ShopFails(w)
-----------------------------------------------------------------------------
(* The shops, the operator and what goes wrong.                            *)

\* A shop without barriers refuses a second product with the same SKU.
Refuses(r) == r.kind = "create" /\ r.at[1] \notin Barred /\ remote[r.at].product # 0

\* The product is written with no stock; the stock comes after.
Applied(r) ==
    LET there == remote[r.at] IN
    [remote EXCEPT ![r.at] =
        CASE r.kind = "create" -> [product |-> r.v, stock |-> 0, copies |-> there.copies + 1]
          [] r.kind = "update" -> [there EXCEPT !.product = r.v, !.stock = 0]
          [] OTHER -> [there EXCEPT !.stock = r.v]]

Replied(r, reply) ==
    [w \in Syncers |-> IF syncer[w].at = "sent" /\ syncer[w].op = r.op
                       THEN [syncer[w] EXCEPT !.reply = reply] ELSE syncer[w]]

ShopApplies(r) ==
    /\ ~Refuses(r)
    /\ remote' = Applied(r)
    /\ syncer' = Replied(r, "applied")
    /\ wire' = wire \ {r}
    /\ UNCHANGED <<registry, intent, queue, syncLock, barrier, mapped, resolver, mishaps>>

ShopRefuses(r) ==
    /\ \/ Refuses(r) /\ UNCHANGED mishaps
       \/ mishaps < MaxMishaps /\ mishaps' = mishaps + 1
    /\ syncer' = Replied(r, "refused")
    /\ wire' = wire \ {r}
    /\ UNCHANGED <<registry, intent, queue, syncLock, barrier, mapped, remote, resolver>>

\* The operator has seen that the request is over, at its sender and the shop.
OperatorLooks(s) ==
    LET op == barrier[s].op IN
    /\ resolver.at = "idle" /\ barrier[s].st # "none"
    /\ \A r \in wire : r.op # op
    /\ \A w \in Syncers : syncer[w].at \in {"begun", "cleared"} => syncer[w].op # op
    /\ resolver' = [at |-> "sure", spot |-> s, op |-> op]
    /\ UNCHANGED <<registry, intent, queue, syncer, syncLock, barrier, mapped, wire, remote,
                   mishaps>>

\* ResolveProductMutationBarrier, of that request only and under the lock.
OperatorResolves ==
    /\ resolver.at = "sure"
    /\ syncLock[resolver.spot] = Nobody
    /\ barrier' = [barrier EXCEPT ![resolver.spot] =
                        IF @.op = resolver.op THEN NoBarrier ELSE @]
    /\ resolver' = NoResolution
    /\ UNCHANGED <<registry, intent, queue, syncer, syncLock, mapped, wire, remote, mishaps>>

\* The lock goes with the session; its owner does not know.
SessionLost(s) ==
    /\ syncLock[s] # Nobody
    /\ mishaps < MaxMishaps /\ mishaps' = mishaps + 1
    /\ syncLock' = [syncLock EXCEPT ![s] = Nobody]
    /\ UNCHANGED <<registry, intent, queue, syncer, barrier, mapped, wire, remote, resolver>>

SyncerCrashes(w) ==
    /\ syncer[w].at # "idle"
    /\ mishaps < MaxMishaps /\ mishaps' = mishaps + 1
    /\ GoesTo(w, AtRest)
    /\ syncLock' = Unlocked(w)
    /\ UNCHANGED <<registry, intent, queue, barrier, mapped, wire, remote, resolver>>

LeasePasses(p) ==
    /\ queue[p].live
    /\ mishaps < MaxMishaps \/ \A w \in Syncers : syncer[w].token # queue[p].token
    /\ mishaps' = IF \A w \in Syncers : syncer[w].token # queue[p].token
                  THEN mishaps ELSE mishaps + 1
    /\ queue' = [queue EXCEPT ![p].live = FALSE]
    /\ UNCHANGED <<registry, intent, syncer, syncLock, barrier, mapped, wire, remote, resolver>>

RequestComesDue(p) ==
    /\ queue[p].st = "row" /\ ~queue[p].due
    /\ queue' = [queue EXCEPT ![p].due = TRUE]
    /\ UNCHANGED <<registry, intent, syncer, syncLock, barrier, mapped, wire, remote,
                   resolver, mishaps>>
-----------------------------------------------------------------------------
SyncerStep(w) ==
    \/ ClaimProductReevaluations(w) \/ TakeProduct(w) \/ NextShop(w) \/ FinishProduct(w)
    \/ LockProduct(w) \/ ReadDesired(w) \/ BeginMutation(w) \/ ClearToSend(w) \/ Send(w)
    \/ CompleteMutation(w) \/ SaveMapping(w) \/ ShopDone(w)
    \/ FailsByItself(w) /\ ShopFails(w) /\ UNCHANGED mishaps

SyncerFault(w) == WorkFails(w) \/ SyncerCrashes(w)

CommerceTimePasses == \E p \in Products : LeasePasses(p) \/ RequestComesDue(p)

CommerceNext ==
    \/ \E changed \in SUBSET Products \ {{}} : IntentChanges(changed)
    \/ \E w \in Syncers : SyncerStep(w) \/ SyncerFault(w)
    \/ \E r \in wire : ShopApplies(r) \/ ShopRefuses(r)
    \/ \E s \in Shops \X Products : OperatorLooks(s) \/ SessionLost(s)
    \/ OperatorResolves \/ CommerceTimePasses

CommerceSafe == CommerceInit /\ [][CommerceNext]_commerceVars
-----------------------------------------------------------------------------
\* Every variable has its type; a lock is held by the one who works there.
CommerceTypeOK ==
    /\ registry \subseteq Shops
    /\ intent \in [Products -> 1 .. MaxIntent]
    /\ \A p \in Products :
        /\ queue[p].st \in {"none", "row"} /\ queue[p].requested \in 0 .. MaxIntent
        /\ queue[p].token \in {0} \cup Tokens /\ queue[p].claimed <= queue[p].requested
        /\ queue[p].live => queue[p].token # 0 /\ queue[p].claimed # 0
    /\ \A w \in Syncers :
        /\ syncer[w].at \in {"idle", "batch", "next", "wait", "read", "ready", "begun",
                             "cleared", "sent", "refused", "map", "done"}
        /\ syncer[w].kind \in Kinds /\ syncer[w].reply \in {"none", "applied", "refused"}
        /\ syncer[w].at = "idle" => syncer[w] = AtRest
    /\ \A s \in Shops \X Products :
        /\ barrier[s].st \in {"none", "in_flight", "uncertain"}
        /\ barrier[s].op \in {0} \cup Requests
        /\ remote[s].product \in 0 .. MaxIntent /\ remote[s].stock \in 0 .. MaxIntent
        /\ syncLock[s] # Nobody => Spot(syncLock[s]) = s
    /\ mishaps \in 0 .. MaxMishaps

\* A shop with barriers never has two requests for a product at once, and
\* no second product is made there: what has no known outcome is never sent
\* again, although the lock goes with its session and processes die between
\* a request and its record (commerce_mutation_barriers.go).
NeverSentBlindly ==
    \A s \in Barred \X Products :
        /\ \A q, r \in wire : q.at = s /\ r.at = s => q = r
        /\ remote[s].copies <= 1

\* A published product that has no request queued is, in such a shop, what it
\* should be: no newer request is lost with an older one, and no older work
\* lands after newer (reevaluation.go, above ProductReevaluation).  The
\* stock may be left at zero: a worker that waited for the lock past its
\* lease starts over, and may die before it sends the stock again.
QuietMeansConverged ==
    \A p \in Products, s \in registry \cap Barred :
        queue[p].st = "none" /\ IsPublished(intent[p]) =>
            /\ remote[<<s, p>>].product = intent[p]
            /\ remote[<<s, p>>].stock \in {0, intent[p]}

\* Stock is offered only for a product that Cloud can find again.
StockIsAddressable ==
    \A s \in Shops \X Products : remote[s].stock # 0 => mapped[s]

\* What the shops are promised.
ShopsAreSound == CommerceTypeOK /\ NeverSentBlindly /\ QuietMeansConverged /\ StockIsAddressable
=============================================================================
