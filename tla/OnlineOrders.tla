----------------------------- MODULE OnlineOrders -----------------------------
(***************************************************************************)
(* One order of a shop and its projection (internal/commerce/orders,       *)
(* internal/adapter/postgres/commerce_orders.go).  The shop sends          *)
(* webhooks, which are only a hint: a clerk (a processor of some instance, *)
(* or the sync-order command of an operator) takes a reconciliation        *)
(* generation from the order's fence, reads what the shop says now, and    *)
(* projects it if no later reconciliation has started.  Deliveries are     *)
(* claimed under a lease with a generation of its own.                     *)
(*                                                                         *)
(* The database and the shop are separate, each statement or transaction   *)
(* is one step, and a clerk may die or lose its lease between any two.     *)
(* Left out: the text of an order (money, addresses, customer), of which   *)
(* the version at the shop stands for all; other orders, whose rows are    *)
(* others; which of the due deliveries is claimed first.                   *)
(***************************************************************************)
EXTENDS Naturals, Sequences, FiniteSets

CONSTANTS
    Articles,           \* products of the shop that a line may name
    Owners,             \* stores
    Deliveries,         \* webhook deliveries
    Processors,         \* instances with an order processor
    Commands,           \* sync-order commands of operators
    MaxVersion,         \* bound: changes of the order at the shop
    MaxMischances       \* bound: crashes, lapsed leases, failed calls

ASSUME OrderAssumption ==
    /\ IsFiniteSet(Articles) /\ IsFiniteSet(Deliveries)
    /\ Processors \cap Commands = {} /\ "none" \notin Processors \cup Deliveries
    /\ MaxVersion \in Nat /\ MaxMischances \in Nat
    /\ Owners \cap {"unmapped", "legacy"} = {}

VARIABLES
    sold,           \* the order at the shop
    inbox,          \* commerce_online_order_webhook_events
    fence,          \* commerce_online_order_reconcile_fences
    order,          \* commerce_online_orders and its lines
    statuses,       \* commerce_online_order_status_history
    clerk,          \* where each clerk is
    known,          \* commerce_product_mappings: the store of each article
    picked,         \* articles with a configuration mapping
    latest,         \* history: the newest generation that committed
    mischances

orderVars == <<sold, inbox, fence, order, statuses, clerk, known, picked, latest, mischances>>
-----------------------------------------------------------------------------
Clerks == Processors \cup Commands
Ownerless == "none"
OpenStates == {"pending", "retry"}
ClosedStates == {"processed", "blocked"}

\* What the shop says of the order: version, status and lines.
AtTheShop == [v : 0 .. MaxVersion, st : {"absent", "open", "done"}, lines : SUBSET Articles]

NoDelivery == [st |-> "none", deletion |-> FALSE, v |-> 0, owner |-> Ownerless, gen |-> 0,
               live |-> FALSE, due |-> FALSE]
NoOrder == [rev |-> 0]
Unoccupied == [at |-> "idle"]

OrderInit ==
    /\ sold = [v |-> 0, st |-> "absent", lines |-> {}]
    /\ inbox = [d \in Deliveries |-> NoDelivery]
    /\ fence = 0
    /\ order = NoOrder
    /\ statuses = <<>>
    /\ clerk = [c \in Clerks |-> Unoccupied]
    /\ known \in [Articles -> {"unmapped", "legacy"} \cup Owners]
    /\ picked = {}
    /\ latest = [gen |-> 0, v |-> 0]
    /\ mischances \in 0 .. MaxMischances

Goes(c, state) == clerk' = [clerk EXCEPT ![c] = state]
Mischance == mischances < MaxMischances /\ mischances' = mischances + 1
-----------------------------------------------------------------------------
\* The shop and the mappings change by themselves.
ShopChanges ==
    /\ sold.v < MaxVersion
    /\ \E st \in {"absent", "open", "done"}, lines \in SUBSET Articles :
        sold' = [v |-> sold.v + 1, st |-> st, lines |-> IF st = "absent" THEN {} ELSE lines]
    /\ UNCHANGED <<inbox, fence, order, statuses, clerk, known, picked, latest, mischances>>

\* A product is mapped, or a mapping of old is given its store.
MappingChanges ==
    /\ \E a \in Articles :
        \/ /\ known[a] = "unmapped"
           /\ \E to \in Owners \cup {"legacy"} : known' = [known EXCEPT ![a] = to]
           /\ UNCHANGED picked
        \/ /\ known[a] = "legacy"
           /\ \E to \in Owners : known' = [known EXCEPT ![a] = to]
           /\ UNCHANGED picked
        \/ picked' = picked \cup {a} /\ picked' # picked /\ UNCHANGED known
    /\ UNCHANGED <<sold, inbox, fence, order, statuses, clerk, latest, mischances>>

\* InsertOrderWebhookEvent: a delivery is stored once; the same again is
\* accepted and one that contradicts it refused, both without effect.
InsertOrderWebhookEvent(d) ==
    /\ sold.v > 0
    /\ inbox[d].st = "none"
    /\ inbox' = [inbox EXCEPT ![d] =
        [NoDelivery EXCEPT !.st = "pending", !.deletion = (sold.st = "absent"), !.v = sold.v,
                           !.due = TRUE]]
    /\ UNCHANGED <<sold, fence, order, statuses, clerk, known, picked, latest, mischances>>
-----------------------------------------------------------------------------
\* Mutant: an event put off is not looked at again.
ClaimablePending(d) == inbox[d].st = "pending" /\ inbox[d].due /\ ~inbox[d].live

ClaimableDelivery(d) == inbox[d].st \in OpenStates /\ inbox[d].due /\ ~inbox[d].live

ClaimOrderWebhookEvent(c) ==
    /\ c \in Processors /\ clerk[c] = Unoccupied
    /\ \E d \in Deliveries :
        /\ ClaimableDelivery(d)
        /\ inbox' = [inbox EXCEPT ![d].owner = c, ![d].gen = @ + 1, ![d].live = TRUE]
        /\ Goes(c, [at |-> "starting", for |-> d, gen |-> inbox[d].gen + 1])
    /\ UNCHANGED <<sold, fence, order, statuses, known, picked, latest, mischances>>

\* sync-order reconciles without a delivery, once.
OperatorStarts(c) ==
    /\ c \in Commands /\ clerk[c] = Unoccupied
    /\ Goes(c, [at |-> "starting", for |-> Ownerless, gen |-> 0])
    /\ UNCHANGED <<sold, inbox, fence, order, statuses, known, picked, latest, mischances>>

\* Mutant: the first starter makes the fence, the later ones share it.
NextGenerationShared == 1
NextGeneration == fence + 1

BeginOrderReconcile(c) ==
    /\ clerk[c].at = "starting"
    /\ fence' = NextGeneration
    /\ Goes(c, [at |-> "asking", for |-> clerk[c].for, gen |-> clerk[c].gen, token |-> NextGeneration])
    /\ UNCHANGED <<sold, inbox, order, statuses, known, picked, latest, mischances>>

Deletes(c) == clerk[c].for # Ownerless /\ inbox[clerk[c].for].deletion

\* verdict: what becomes of the delivery.
Ending(c, verdict) ==
    IF clerk[c].for = Ownerless THEN [at |-> "over"]
    ELSE [at |-> "ending", for |-> clerk[c].for, gen |-> clerk[c].gen, verdict |-> verdict]

\* sight: the content to project; gone: as a tombstone; seen: the version at
\* the shop when it was asked.
Projecting(c, sight, gone, seen) ==
    [at |-> "projecting", for |-> clerk[c].for, gen |-> clerk[c].gen, token |-> clerk[c].token,
     sight |-> sight, gone |-> gone, seen |-> seen]

\* GetOrder: what the shop says now.  That there is no order makes a
\* tombstone only for a deletion; for anything else it blocks.
GetOrder(c) ==
    /\ clerk[c].at = "asking"
    /\ Goes(c, CASE sold.st # "absent" -> Projecting(c, sold, FALSE, sold.v)
                 [] sold.st = "absent" /\ Deletes(c) ->
                        [at |-> "loading", for |-> clerk[c].for, gen |-> clerk[c].gen,
                         token |-> clerk[c].token, seen |-> sold.v]
                 [] OTHER -> Ending(c, "blocked"))
    /\ UNCHANGED <<sold, inbox, fence, order, statuses, known, picked, latest, mischances>>

\* A temporary failure of the shop or the database is retried, any other
\* answer of the shop blocks.
ReconcileFails(c) ==
    /\ clerk[c].at \in {"starting", "asking", "loading", "projecting"}
    /\ \/ Goes(c, Ending(c, "retry"))
       \/ clerk[c].at = "asking" /\ Goes(c, Ending(c, "blocked"))
    /\ Mischance
    /\ UNCHANGED <<sold, inbox, fence, order, statuses, known, picked, latest>>

\* projectDeleted: a tombstone keeps the last known content, if any.
LoadProjectedOrder(c) ==
    /\ clerk[c].at = "loading"
    /\ LET last == IF order = NoOrder THEN [v |-> 0, st |-> "absent", lines |-> {}]
                   ELSE [v |-> order.v, st |-> order.st, lines |-> DOMAIN order.lines]
       IN  Goes(c, Projecting(c, last, TRUE, clerk[c].seen))
    /\ UNCHANGED <<sold, inbox, fence, order, statuses, known, picked, latest, mischances>>
-----------------------------------------------------------------------------
\* deriveOrderStore: unanimous mapped lines prove a store; a line whose own
\* mapping is of old leaves it open; two stores are mixed.
ProvenBy(lines) == {known[a] : a \in {b \in lines : known[b] \in Owners}}
Mixed(lines) == Cardinality(ProvenBy(lines)) > 1
Derived(lines) ==
    IF Cardinality(ProvenBy(lines)) = 1 /\ \A a \in lines : known[a] # "legacy"
    THEN CHOOSE o \in Owners : o \in ProvenBy(lines)
    ELSE Ownerless

\* decideOrderStore, decideNewOrderStore: a tombstone keeps the store; a live
\* order is refused when its lines are mixed or contradict the store it has.
StoreRefused(lines, gone) ==
    /\ ~gone
    /\ \/ Mixed(lines)
       \/ order # NoOrder /\ order.store # Ownerless
          /\ Derived(lines) \notin {Ownerless, order.store}

StoreToWrite(lines) ==
    IF order # NoOrder /\ order.store # Ownerless THEN order.store ELSE Derived(lines)

\* resolveOrderLines and the upsert of the lines: the mapping is today's; what
\* was selected is what the line captured when it was first written.
MappedLines(lines) == [a \in lines |-> known[a] # "unmapped"]
WrittenLines(lines) ==
    [a \in lines |->
        [mapped |-> known[a] # "unmapped",
         resolved |-> IF order # NoOrder /\ a \in DOMAIN order.lines THEN order.lines[a].resolved
                      ELSE a \in picked]]

\* RefreshCommerceOrderMappingCompleteness: the verdict of the stored lines.
MappingComplete(lines) ==
    \A a \in lines : WrittenLines(lines)[a].mapped /\ WrittenLines(lines)[a].resolved

\* Fingerprint: content and mapping, not the selection nor the store.
SameFingerprint(sight, gone) ==
    /\ order.v = sight.v /\ order.st = sight.st /\ order.gone = gone
    /\ [a \in DOMAIN order.lines |-> order.lines[a].mapped] = MappedLines(sight.lines)

\* Mutant: a token is only compared with the projections before it.
SupersededByResult(c) == clerk[c].token < latest.gen
SupersededToken(c) == clerk[c].token # fence

\* writeProjectedOrder.
WrittenOrder(sight, gone) ==
    [rev |-> order.rev + 1, v |-> sight.v, st |-> sight.st, gone |-> gone,
     lines |-> WrittenLines(sight.lines), complete |-> MappingComplete(sight.lines),
     store |-> StoreToWrite(sight.lines)]

StatusChanges(sight, gone) == order = NoOrder \/ order.st # sight.st \/ order.gone # gone

ReconcileProjectedOrder(c) ==
    LET sight == clerk[c].sight
        gone == clerk[c].gone
        adopts == ~gone /\ order # NoOrder /\ order.store = Ownerless
                  /\ Derived(sight.lines) # Ownerless
    IN
    /\ clerk[c].at = "projecting"
    /\ CASE SupersededToken(c) ->
            /\ Goes(c, Ending(c, "processed"))
            /\ UNCHANGED <<order, statuses, latest>>
         [] ~SupersededToken(c) /\ StoreRefused(sight.lines, gone) ->
            /\ Goes(c, Ending(c, "blocked"))
            /\ UNCHANGED <<order, statuses, latest>>
         [] OTHER ->
            /\ Goes(c, Ending(c, "processed"))
            /\ latest' = [gen |-> clerk[c].token, v |-> clerk[c].seen]
            /\ IF order # NoOrder /\ SameFingerprint(sight, gone) /\ ~adopts
               THEN UNCHANGED <<order, statuses>>
               ELSE /\ order' = WrittenOrder(sight, gone)
                    /\ statuses' = IF StatusChanges(sight, gone)
                                   THEN Append(statuses, [rev |-> order.rev + 1, st |-> sight.st, gone |-> gone])
                                   ELSE statuses
    /\ UNCHANGED <<sold, inbox, fence, known, picked, mischances>>
-----------------------------------------------------------------------------
StillOwns(c) ==
    LET e == inbox[clerk[c].for] IN e.owner = c /\ e.gen = clerk[c].gen /\ e.st \in OpenStates

Released(e, verdict) ==
    [e EXCEPT !.st = verdict, !.due = FALSE, !.owner = Ownerless, !.live = FALSE]

FinishOrderWebhookEvent(c) ==
    /\ clerk[c].at = "ending"
    /\ IF StillOwns(c)
       THEN inbox' = [inbox EXCEPT ![clerk[c].for] = Released(@, clerk[c].verdict)]
       ELSE UNCHANGED inbox
    /\ Goes(c, Unoccupied)
    /\ UNCHANGED <<sold, fence, order, statuses, known, picked, latest, mischances>>

\* The process dies, or the result cannot be recorded.
ClerkStops(c) ==
    /\ clerk[c].at \notin {"idle", "over"}
    /\ Goes(c, IF c \in Commands THEN [at |-> "over"] ELSE Unoccupied)
    /\ Mischance
    /\ UNCHANGED <<sold, inbox, fence, order, statuses, known, picked, latest>>

\* Whose lease passes while it works is a mischance.
WorkingOn(d) == {c \in Processors : clerk[c].at \notin {"idle", "over"} /\ clerk[c].for = d
                             /\ clerk[c].gen = inbox[d].gen}
DeliveryLeasePasses(d) ==
    /\ inbox[d].live
    /\ IF WorkingOn(d) # {} THEN Mischance ELSE UNCHANGED mischances
    /\ inbox' = [inbox EXCEPT ![d].live = FALSE]
    /\ UNCHANGED <<sold, fence, order, statuses, clerk, known, picked, latest>>

DeliveryComesDue(d) ==
    /\ inbox[d].st = "retry" /\ ~inbox[d].due
    /\ inbox' = [inbox EXCEPT ![d].due = TRUE]
    /\ UNCHANGED <<sold, fence, order, statuses, clerk, known, picked, latest, mischances>>

ClerkStep(c) ==
    \/ ClaimOrderWebhookEvent(c) \/ BeginOrderReconcile(c) \/ GetOrder(c)
    \/ LoadProjectedOrder(c) \/ ReconcileProjectedOrder(c) \/ FinishOrderWebhookEvent(c)

OrderTimePasses == \E d \in Deliveries : DeliveryLeasePasses(d) \/ DeliveryComesDue(d)

OrderNext ==
    \/ ShopChanges \/ MappingChanges
    \/ \E d \in Deliveries : InsertOrderWebhookEvent(d)
    \/ \E c \in Clerks : OperatorStarts(c) \/ ClerkStep(c) \/ ReconcileFails(c) \/ ClerkStops(c)
    \/ OrderTimePasses

OrderSafe == OrderInit /\ [][OrderNext]_orderVars
-----------------------------------------------------------------------------
\* Every variable has its type, a finished delivery is nobody's, and a lease
\* has an owner.
OrderTypeOK ==
    /\ sold \in AtTheShop
    /\ \A d \in Deliveries :
        /\ inbox[d].st \in OpenStates \cup ClosedStates \cup {"none"}
        /\ inbox[d].owner \in Processors \cup {Ownerless}
        /\ inbox[d].st \in ClosedStates => inbox[d].owner = Ownerless /\ ~inbox[d].live
        /\ inbox[d].live => inbox[d].owner # Ownerless
    /\ fence \in Nat /\ latest.gen \in 0 .. fence
    /\ order # NoOrder =>
        /\ order.rev \in Nat \ {0} /\ order.v \in 0 .. MaxVersion
        /\ order.store \in Owners \cup {Ownerless}
    /\ known \in [Articles -> {"unmapped", "legacy"} \cup Owners]

\* An answer of the shop that is older never overwrites a newer one, however
\* the reconciliations of one order interleave: nor does a tombstone written
\* from content that was loaded before it (the fence, commerce_orders.go:180).
NeverBackInTime ==
    [][/\ latest'.v >= latest.v
       /\ order # NoOrder => order' # NoOrder /\ order'.v >= order.v]_orderVars

\* When the newest reconciliation has committed, the projection is at least
\* as new as every delivery that was finished as processed, its own superseded
\* attempt included (service.go: a superseded result finishes the delivery).
ProcessedIsAccountedFor ==
    latest.gen = fence =>
        \A d \in Deliveries : inbox[d].st = "processed" => latest.v >= inbox[d].v

\* An order that belongs to a store never changes to another and never loses
\* it, whatever its lines prove later (decideOrderStore).
AttributionStays ==
    [][order # NoOrder /\ order.store # Ownerless => order'.store = order.store]_orderVars

\* The last row of the history is the status of the order, one row per change
\* and none without: tombstones and their resurrection included.
HistoryEndsWithNow ==
    order # NoOrder =>
        /\ statuses # <<>>
        /\ LET now == statuses[Len(statuses)]
           IN  now.st = order.st /\ now.gone = order.gone /\ now.rev <= order.rev
        /\ \A i \in 1 .. Len(statuses) - 1 :
            /\ statuses[i].rev < statuses[i + 1].rev
            /\ <<statuses[i].st, statuses[i].gone>> # <<statuses[i + 1].st, statuses[i + 1].gone>>

\* An order is never called fully mapped over a line that captured an
\* unresolved selection, even when the mapping is found later
\* (RefreshCommerceOrderMappingCompleteness).
CompleteMeansCaptured ==
    order # NoOrder /\ order.complete =>
        \A a \in DOMAIN order.lines : order.lines[a].mapped /\ order.lines[a].resolved

\* What an order's readers rely on.
OrdersAreSound == OrderTypeOK /\ ProcessedIsAccountedFor /\ HistoryEndsWithNow /\ CompleteMeansCaptured

\* A finished delivery is never opened again, and its outcome never changed,
\* by a clerk that lost its claim (FinishOrderWebhookEvent).
FinishedStays ==
    [][\A d \in Deliveries :
        inbox[d].st \in ClosedStates => inbox'[d] = inbox[d]]_orderVars

\* Nothing about an order is undone.
OrdersOnlyMoveOn == NeverBackInTime /\ AttributionStays /\ FinishedStays
=============================================================================
