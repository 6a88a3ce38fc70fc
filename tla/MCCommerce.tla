------------------------------ MODULE MCCommerce ------------------------------
(***************************************************************************)
(* The catalog, the shops that show it and their orders, for TLC.  Each    *)
(* behaviour plays one scene; the parts share no rows that the modules     *)
(* follow, so what a scene leaves at rest does not matter to it:           *)
(*   shop, reshown, plain, shops, batch                                    *)
(*                                products on their way to the shops;      *)
(*   graph, cycle, scopes, policy, stock, options, fault                   *)
(*                                histories of the catalog, below;         *)
(*   orders, lapses, ownership    an order, its mappings fixed or not.     *)
(***************************************************************************)
EXTENDS CommerceSync, CatalogProjection, OnlineOrders

CONSTANTS Scenes    \* those a run plays

VARIABLE scene

mcVars == <<scene, commerceVars, catalogVars, orderVars>>

Play(names, next, others) == scene \in names /\ next /\ UNCHANGED <<others, scene>>
-----------------------------------------------------------------------------
(* Histories of the catalog: what the devices may have sent.               *)

Sent(id, kind, entity, rev) ==
    [id |-> id, kind |-> kind, entity |-> entity, rev |-> rev, store |-> NoStore, top |-> "",
     refs |-> {}, tags |-> {}, owner |-> "", body |-> "online"]
Category(id, c, rev, parents) == [Sent(id, "category", c, rev) EXCEPT !.refs = parents]
ProductOf(id, p, rev, top, subs) ==
    [Sent(id, "product", p, rev) EXCEPT !.top = top, !.refs = subs]
Leaf(id, kind, entity, rev, owner) == [Sent(id, kind, entity, rev) EXCEPT !.owner = owner]
From(store, e) == [e EXCEPT !.store = store]
Saying(body, e) == [e EXCEPT !.body = body]

Top == Category("t1", "t", 1, {})
Middle == Category("m1", "m", 1, {"t"})
Sub == Category("s1", "s", 1, {"m"})
Filed == ProductOf("p1", "p", 1, "t", {"s"})
Plain == ProductOf("p0", "p", 1, "t", {})

History(name) ==
    CASE name = "graph" ->
            {Top, Middle, Category("m2", "m", 2, {}), Sub, Filed,
             ProductOf("p2", "p", 2, "m", {"s"})}
      [] name = "cycle" ->
            {Top, Middle, Category("t2", "t", 2, {"m"}), Sub, Category("x1", "x", 1, {"s"})}
      [] name = "scopes" ->
            {Top, From("A", Category("t3", "t", 2, {})), Sent("g1", "tag", "g", 1),
             From("B", Sent("g2", "tag", "g", 2)),
             From("B", [Plain EXCEPT !.id = "p3", !.tags = {<<"tag", "g">>}]),
             From("A", Leaf("o1", "policy", "p", 1, "p"))}
      [] name = "policy" ->
            {Top, Middle, Saying("off", Category("m3", "m", 2, {"t"})), Sub, Filed}
      [] name = "stock" ->
            {Top, Plain, Leaf("k1", "stock", "p", 1, "p"), Leaf("k2", "stock", "p", 2, "p"),
             Sent("y1", "type", "y", 1), Saying("other", [Plain EXCEPT !.id = "p4"])}
      [] name = "options" ->
            {Top, Plain, Leaf("f1", "options", "p", 1, "p"),
             Saying("other", Leaf("f2", "options", "p", 1, "p")),
             Leaf("v1", "variant", "v", 1, "p"), Leaf("w1", "variantStock", "v", 1, "v")}
      [] OTHER -> {Top, Middle, Plain}

CatalogScenes == {"graph", "cycle", "scopes", "policy", "stock", "options", "fault"}
MCSnapshots == UNION {History(name) : name \in CatalogScenes \cap Scenes}

\* Those that were accepted before the workers of a scene started.
Accepted(name) ==
    CASE name = "stock" -> {Top, Plain}
      [] name = "options" -> {e \in History(name) : e.id \in {"t1", "p0", "f1", "v1"}}
      [] OTHER -> {}
-----------------------------------------------------------------------------
ShopScenes == {"shop", "reshown", "plain", "shops"}
OrderScenes == {"orders", "lapses", "ownership"}
OneProduct == CHOOSE p \in Products : TRUE

MCInit ==
    /\ scene \in Scenes
    /\ registry = CASE scene \in {"shop", "reshown", "batch"} -> Barred
                    [] scene = "plain" -> Shops \ Barred
                    [] scene = "shops" -> Shops
                    [] OTHER -> {}
    /\ mishaps = CASE scene = "shop" -> 0 [] scene \in {"plain", "reshown", "batch"} -> MaxMishaps - 1 [] OTHER -> MaxMishaps
    /\ CommerceInit
    /\ \A p \in Products :
        /\ intent[p] = IF scene = "batch" \/ (p = OneProduct /\ scene # "reshown") THEN 1 ELSE 2
        /\ queue[p].st = "row" <=> scene = "batch" \/ p = OneProduct
    /\ snapshots = IF scene \in CatalogScenes THEN Accepted(scene) ELSE {}
    /\ projectorFaults = IF scene = "fault" THEN 0 ELSE MaxProjectorFaults
    /\ CatalogInit
    /\ known = [a \in Articles |-> IF scene = "ownership" THEN "unmapped" ELSE "legacy"]
    /\ mischances = IF scene = "lapses" THEN 0 ELSE MaxMischances
    /\ OrderInit

\* In a batch nothing changes: two instances and the time work on it.
BatchNext ==
    \/ \E w \in Syncers : SyncerStep(w) \/ SyncerFault(w)
    \/ \E r \in wire : ShopApplies(r)
    \/ CommerceTimePasses

\* The order of one basket, and any number of clerks; or one clerk, while
\* mappings and baskets change.
FirstOne == CHOOSE d \in Deliveries : TRUE
Delivered(d) == (d = FirstOne \/ inbox[FirstOne].st # "none") /\ InsertOrderWebhookEvent(d)

OrdersNext ==
    \/ ShopChanges /\ sold'.st # "done" /\ sold'.lines \in {{}, Articles}
    \/ \E d \in Deliveries : Delivered(d) /\ (scene = "lapses" => d = FirstOne)
    \/ \E c \in Clerks : OperatorStarts(c) \/ ClerkStep(c) \/ ReconcileFails(c) \/ ClerkStops(c)
    \/ OrderTimePasses

OwnershipNext ==
    \/ ShopChanges /\ (sold'.st = "open" <=> sold'.v = 1) /\ (sold'.st = "done" => sold'.lines = Articles)
    \/ MappingChanges /\ picked' # Articles
    \/ \E d \in Deliveries : Delivered(d)
    \/ ClerkStep(CHOOSE c \in Processors : TRUE)
    \/ OrderTimePasses

\* A product is hidden once it was shown, or shown again; the other rests.
IntentIsPlayed ==
    /\ intent'[OneProduct] <= IF scene = "reshown" THEN 3 ELSE 2
    /\ \A p \in Products \ {OneProduct} : intent'[p] = intent[p]

MCNext ==
    \/ Play(ShopScenes, CommerceNext /\ IntentIsPlayed, <<catalogVars, orderVars>>)
    \/ Play({"batch"}, BatchNext, <<catalogVars, orderVars>>)
    \/ Play(CatalogScenes, CatalogNext /\ snapshots' \subseteq History(scene),
            <<commerceVars, orderVars>>)
    \/ Play({"orders", "lapses"}, OrdersNext, <<commerceVars, catalogVars>>)
    \/ Play({"ownership"}, OwnershipNext, <<commerceVars, catalogVars>>)

MCSafe == MCInit /\ [][MCNext]_mcVars

\* Every instance goes on with what it has to do and what is on its way
\* arrives; of a backlog no event is passed over for ever.  Shops, operators
\* and devices may stop.
MCSpec ==
    /\ MCSafe
    /\ \A w \in Syncers : WF_mcVars(Play(ShopScenes, SyncerStep(w), <<catalogVars, orderVars>>))
    /\ WF_mcVars(Play(ShopScenes, \E r \in wire : ShopApplies(r) \/ ShopRefuses(r),
                      <<catalogVars, orderVars>>))
    /\ WF_mcVars(Play(ShopScenes, CommerceTimePasses, <<catalogVars, orderVars>>))
    /\ \A w \in Projectors :
        WF_mcVars(Play({"fault"}, RecordVerdict(w) \/ WakeProducts(w), <<commerceVars, orderVars>>))
    /\ \A e \in History("fault") \cap Snapshots :
        /\ SF_mcVars(Play({"fault"}, \E w \in Projectors : Project(w, e), <<commerceVars, orderVars>>))
        /\ WF_mcVars(Play({"fault"}, SnapshotComesDue(e), <<commerceVars, orderVars>>))
    /\ \A c \in Processors : WF_mcVars(Play(OrderScenes, ClerkStep(c), <<commerceVars, catalogVars>>))
    /\ WF_mcVars(Play(OrderScenes, OrderTimePasses, <<commerceVars, catalogVars>>))
-----------------------------------------------------------------------------
\* Again and again every request has been served, unless a barrier of its
\* product is left to the operator (reevaluation.go, drain and processOne, and
\* the leases of its claims).
EveryRequestServed ==
    []<>(scene \in ShopScenes =>
            \A p \in Products :
                \/ queue[p].st = "none"
                \/ \E s \in Shops : barrier[<<s, p>>].st # "none")

\* Again and again every event of the catalog has its verdict, or lacks what it
\* refers to, however transactions fail and in whatever order events arrive
\* (projector.go, the retries of projectOnce and drain).
EverySnapshotSettles ==
    []<>(scene = "fault" =>
            \A e \in snapshots : progress[e.id].st \in {"processed", "blocked"} \/ Lacking(e))

\* Again and again every webhook is settled, though clerks die and calls fail
\* (processor.go, drain and processOne, and the leases of its claims).
EveryDeliverySettles ==
    []<>(\A d \in Deliveries : inbox[d].st \in ClosedStates \cup {"none"})

\* No queue of the shops, of the catalog or of the orders waits for ever.
EveryQueueIsServed == EveryRequestServed /\ EverySnapshotSettles /\ EveryDeliverySettles
=============================================================================
