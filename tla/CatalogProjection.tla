------------------------- MODULE CatalogProjection -------------------------
(***************************************************************************)
(* The catalog in Cloud, projected from the snapshots the shops' devices   *)
(* send (internal/adapter/postgres/catalog.go, internal/catalog).  Every   *)
(* entity has a revision of its own and its events arrive in any order,    *)
(* before or after those of the entities they refer to.  A projection is   *)
(* one serializable transaction, and so one step here; a verdict that      *)
(* writes nothing is rolled back and recorded in a second transaction, and *)
(* the products that wait for a category are woken in a third.             *)
(*                                                                         *)
(* Categories form a graph of at most three levels; a product is filed     *)
(* under a root and under categories below that root.  The identities of   *)
(* the default catalog, the same in every shop, are left out: an entity    *)
(* stands for its canonical row.                                           *)
(***************************************************************************)
EXTENDS Naturals, FiniteSets

CONSTANTS
    Snapshots,          \* the events that may be accepted
    Projectors,         \* workers of all processors and instances
    NoStore,            \* the scope of what an unbound device sent
    MaxProjectorFaults  \* bound: crashes and failed transactions

\* One per entity table; policy, stock and options are a product's, and
\* variantStock is a variant's.
SnapshotKinds == {"category", "tag", "type", "product", "policy", "stock", "options",
                  "variant", "variantStock"}

(* A snapshot has: id, kind, entity, rev, store, top (a product's root),   *)
(* refs (a category's parents; a product's other categories, below the     *)
(* root), tags (a product's tags and type, as <<kind, name>>), owner (the  *)
(* product, or variant, it belongs to) and body, the rest.                 *)
ASSUME CatalogAssumption ==
    /\ IsFiniteSet(Snapshots) /\ MaxProjectorFaults \in Nat
    /\ \A e \in Snapshots :
        /\ e.kind \in SnapshotKinds /\ e.rev \in Nat \ {0}
        /\ \A t \in e.tags : t = <<t[1], t[2]>> /\ t[1] \in {"tag", "type"}
        /\ \A f \in Snapshots : e.id = f.id => e = f

VARIABLES
    snapshots,          \* sync_events: those accepted
    progress,           \* sync_event_processing
    projected,          \* the rows of the catalog
    projector,          \* where each worker is
    reasked,            \* products the last step asked Commerce to look at
    projectorFaults

catalogVars == <<snapshots, progress, projected, projector, reasked, projectorFaults>>
-----------------------------------------------------------------------------
Ids == {e.id : e \in Snapshots}
Event(id) == CHOOSE e \in Snapshots : e.id = id
Key(e) == <<e.kind, e.entity>>
Referred(e) ==
    {<<"category", c>> : c \in e.refs} \cup e.tags \cup
    (IF e.kind = "product" THEN {<<"category", e.top>>} ELSE {}) \cup
    (CASE e.kind \in {"policy", "stock", "options", "variant"} -> {<<"product", e.owner>>}
       [] e.kind = "variantStock" -> {<<"variant", e.owner>>}
       [] OTHER -> {})
EntityKeys == UNION {{Key(e)} \cup Referred(e) : e \in Snapshots}
Categories == {k[2] : k \in {k \in EntityKeys : k[1] = "category"}}

NoRow == [rev |-> 0, store |-> NoStore, top |-> "", refs |-> {}, tags |-> {}, owner |-> "",
          body |-> "", by |-> ""]
Exists(k) == projected[k].rev # 0
Rows(kind) == {k \in EntityKeys : k[1] = kind /\ Exists(k)}

Missing == [st |-> "missing", code |-> "", due |-> TRUE, advanced |-> FALSE]
AtEase == [at |-> "idle", e |-> "", to |-> "", code |-> "", woken |-> {}]

\* Some events may have been accepted while no worker ran.
CatalogInit ==
    /\ snapshots \subseteq Snapshots
    /\ progress = [id \in Ids |-> Missing]
    /\ projected = [k \in EntityKeys |-> NoRow]
    /\ projector = [w \in Projectors |-> AtEase]
    /\ reasked = {}
    /\ projectorFaults \in 0 .. MaxProjectorFaults
-----------------------------------------------------------------------------
(* Scopes.  What no shop is known to own agrees with every shop.           *)

\* resolveProjectionScope, and the COALESCE of the upserts.
Foreign(existing, incoming) == NoStore \notin {existing, incoming} /\ existing # incoming
Scope(e) == IF e.store # NoStore THEN e.store ELSE projected[Key(e)].store
Compatible(owner, ref) == NoStore \in {owner, ref} \/ owner = ref

Adopting(e) == e.store # NoStore /\ projected[Key(e)].store # e.store

\* Row j refers to row k.
Refers(k, j) ==
    \/ k[1] = "category" /\ j[1] = "category" /\ k[2] \in projected[j].refs
    \/ k[1] = "category" /\ j[1] = "product" /\ k[2] \in projected[j].refs \cup {projected[j].top}
    \/ k[1] = "tag" /\ j[1] = "product" /\ k \in projected[j].tags
    \/ k[1] = "product" /\ j[1] \in {"policy", "stock", "variant"} /\ projected[j].owner = k[2]
    \/ k[1] = "variant" /\ j[1] = "variantStock" /\ projected[j].owner = k[2]

\* The stock of a product's variants hangs on the product too.
StockOfVariant(k, j) ==
    LET v == <<"variant", projected[j].owner>> IN
    k[1] = "product" /\ j[1] = "variantStock" /\ v \in EntityKeys /\ projected[v].owner = k[2]

Dependents(k) == {j \in EntityKeys : Exists(j) /\ (Refers(k, j) \/ StockOfVariant(k, j))}

\* storeDependentsCompatible.
DependentsCompatible(e) == \A j \in Dependents(Key(e)) : Compatible(e.store, projected[j].store)
-----------------------------------------------------------------------------
(* Events of one entity.                                                   *)

\* An accepted event that may still advance the graph.
Repairable(e) ==
    \/ progress[e.id].st \in {"missing", "pending", "retry"}
    \/ progress[e.id].st = "blocked" /\ progress[e.id].code \in {"wait", "relation"}

EventsOf(k, scope) == {f \in snapshots : Key(f) = k /\ Compatible(scope, f.store)}
NewerRepairable(k, rev, scope) == \E f \in EventsOf(k, scope) : f.rev > rev /\ Repairable(f)

\* entitySuperseded, in the scope that each stream asks for.
Superseded(e) ==
    NewerRepairable(Key(e), e.rev,
        IF e.kind \in {"policy", "stock", "variantStock"} THEN e.store ELSE Scope(e))

SameContent(e, row) ==
    e.top = row.top /\ e.refs = row.refs /\ e.tags = row.tags /\ e.owner = row.owner
    /\ e.body = row.body

\* The ownership gate, then revisionGate: lower is stale; equal must say the
\* same; and what a newer event may still replace is not worth a verdict.
RevisionGate(e) ==
    LET row == projected[Key(e)] IN
    IF Foreign(row.store, e.store) THEN "foreign"
    ELSE IF e.rev < row.rev \/ Superseded(e) THEN "noop"
    ELSE IF e.rev = row.rev THEN (IF SameContent(e, row) THEN "same" ELSE "conflict")
    ELSE "proceed"
-----------------------------------------------------------------------------
(* The graph of categories.                                                *)

\* A parent and its child.
Edges == {x \in Categories \X Categories : x[1] \in projected[<<"category", x[2]>>].refs}
Proposed(e) == {x \in Edges : x[2] # e.entity} \cup {<<p, e.entity>> : p \in e.refs}
ParentsChanged(e) == e.refs # projected[Key(e)].refs
Children(E, n) == {x[2] : x \in {x \in E : x[1] = n}}

\* reachableFromTop; three levels are all there can be.
Below(E, n) ==
    LET one == Children(E, n)
        two == UNION {Children(E, c) : c \in one}
    IN  one \cup two \cup UNION {Children(E, c) : c \in two}

\* Mutant: only a child of itself is a cycle.
GraphHoldsLoosely(E) == \A x \in E : x[1] # x[2]

\* checkCategoryGraph.  A cycle is an endless walk, and a walk of three steps
\* is a path of four levels: neither may be.
GraphHolds(E) == \A x, y, z \in E : ~(x[2] = y[1] /\ y[2] = z[1])

\* productOrphanedByGraph, checkProductStructure.
FiledRightly(E, top, subs) ==
    /\ \A x \in E : x[2] # top
    /\ subs \subseteq Below(E, top)

CategoryDescendants(c) == {c} \cup Below(Edges, c)
ProductsUnder(cs) ==
    {k \in Rows("product") : ({projected[k].top} \cup projected[k].refs) \cap cs # {}}

\* categoryChangeRepairable: each product that the change would orphan has a
\* newer event on its way.
ChangeRepairable(e) ==
    \A k \in ProductsUnder({e.entity} \cup Below(Proposed(e), e.entity)) :
        \/ FiledRightly(Proposed(e), projected[k].top, projected[k].refs)
        \/ NewerRepairable(k, projected[k].rev, projected[k].store)

\* graphSettledForProduct: no accepted event of the categories it names can
\* change the graph any more.
GraphSettled(e) ==
    \A c \in {e.top} \cup e.refs :
        LET k == <<"category", c>> IN ~NewerRepairable(k, projected[k].rev, projected[k].store)
-----------------------------------------------------------------------------
(* Verdicts.                                                               *)

Writes == [to |-> "processed", code |-> "", write |-> TRUE]
Noop == [to |-> "processed", code |-> "", write |-> FALSE]
Waits == [to |-> "retry", code |-> "wait", write |-> FALSE]
BlockedAs(code) == [to |-> "blocked", code |-> code, write |-> FALSE]

GateVerdict(g) ==
    CASE g = "foreign" -> BlockedAs("scope") [] g = "conflict" -> BlockedAs("conflict")
      [] OTHER -> Noop

RefersAbroad(e) == \E k \in Referred(e) : ~Compatible(Scope(e), projected[k].store)

\* What every stream asks of the rows it refers to (the type apart, whose
\* owner is compared too, but which is adopted unchecked).
Unresolved(e) == \E k \in Referred(e) : ~Exists(k)

\* ProjectCategory.
CategoryVerdict(e) ==
    LET g == RevisionGate(e) IN
    IF g # "proceed" THEN GateVerdict(g)
    ELSE IF Unresolved(e) THEN Waits
    ELSE IF RefersAbroad(e) \/ (Adopting(e) /\ ~DependentsCompatible(e)) THEN BlockedAs("scope")
    ELSE IF ~GraphHolds(Proposed(e)) THEN BlockedAs("graph")
    ELSE IF ParentsChanged(e) /\ ~ChangeRepairable(e) THEN BlockedAs("orphans")
    ELSE Writes

StructureVerdict(e, then) ==
    IF FiledRightly(Edges, e.top, e.refs) THEN then
    ELSE IF GraphSettled(e) THEN BlockedAs("relation") ELSE Waits

\* ProjectProduct; what is there already is checked against the graph again.
ProductVerdict(e) ==
    LET g == RevisionGate(e) IN
    IF g = "same" THEN StructureVerdict(e, Noop)
    ELSE IF g # "proceed" THEN GateVerdict(g)
    ELSE IF Unresolved(e) THEN Waits
    ELSE IF RefersAbroad(e) \/ (Adopting(e) /\ ~DependentsCompatible(e)) THEN BlockedAs("scope")
    ELSE StructureVerdict(e, Writes)

\* ProjectProductVariant.
VariantVerdict(e) ==
    LET g == RevisionGate(e) IN
    IF g # "proceed" THEN GateVerdict(g)
    ELSE IF Unresolved(e) THEN Waits
    ELSE IF RefersAbroad(e) \/ (Adopting(e) /\ ~DependentsCompatible(e)) THEN BlockedAs("scope")
    ELSE Writes

\* ProjectTag, which refers to nothing.
TagVerdict(e) ==
    LET g == RevisionGate(e) IN
    IF g # "proceed" THEN GateVerdict(g)
    ELSE IF Adopting(e) /\ ~DependentsCompatible(e) THEN BlockedAs("scope")
    ELSE Writes

\* ProjectProductType: no dependent is asked when a shop takes it over.
TypeVerdict(e) ==
    LET g == RevisionGate(e) IN IF g # "proceed" THEN GateVerdict(g) ELSE Writes

\* Rows that nothing refers to and that hang on one other.
LeafVerdict(e, parent) ==
    LET g == RevisionGate(e) IN
    IF g # "proceed" THEN GateVerdict(g)
    ELSE IF ~Exists(parent) THEN Waits
    ELSE IF ~Compatible(Scope(e), projected[parent].store) THEN BlockedAs("scope")
    ELSE Writes

\* ProjectProductSalesPolicy, ProjectProductInventory,
\* ProjectProductVariantInventory.
PolicyVerdict(e) == LeafVerdict(e, <<"product", e.owner>>)
StockVerdict(e) == LeafVerdict(e, <<"product", e.owner>>)
VariantStockVerdict(e) == LeafVerdict(e, <<"variant", e.owner>>)

\* ProjectProductConfigurations: kept with the product, whose owner decides,
\* and never superseded by what has not been projected.
OptionsVerdict(e) ==
    LET row == projected[Key(e)]
        product == projected[<<"product", e.owner>>]
    IN
    IF product.rev = 0 THEN Waits
    ELSE IF Foreign(product.store, e.store) THEN BlockedAs("scope")
    ELSE IF e.rev < row.rev THEN Noop
    ELSE IF e.rev = row.rev THEN (IF SameContent(e, row) THEN Noop ELSE BlockedAs("conflict"))
    ELSE Writes

Verdict(e) ==
    CASE e.kind = "category" -> CategoryVerdict(e)
      [] e.kind = "product" -> ProductVerdict(e)
      [] e.kind = "tag" -> TagVerdict(e)
      [] e.kind = "variant" -> VariantVerdict(e)
      [] e.kind = "type" -> TypeVerdict(e)
      [] e.kind = "policy" -> PolicyVerdict(e)
      [] e.kind = "stock" -> StockVerdict(e)
      [] e.kind = "variantStock" -> VariantStockVerdict(e)
      [] e.kind = "options" -> OptionsVerdict(e)
-----------------------------------------------------------------------------
(* Commerce is asked in the same transaction.                              *)

\* Mutant: only the products filed under the category itself.
AffectedDirectly(e) ==
    {k \in ProductsUnder({e.entity}) : projected[k].store = e.store}

\* EnqueueCategoryAffectedReevaluations: filed under it as their root, or
\* under it or below; of the shop that sent the event only.
Affected(e) ==
    {k \in Rows("product") :
        /\ projected[k].store = e.store
        /\ \/ projected[k].top = e.entity
           \/ projected[k].refs \cap ({e.entity} \cup Below(Proposed(e), e.entity)) # {}}

\* categoryPolicyChanged, productClassificationChanged.  What is online is
\* the body of a category.
Asks(e) ==
    LET row == projected[Key(e)] IN
    CASE e.kind = "category" ->
            IF row.rev = 0 \/ row.body # e.body \/ ParentsChanged(e)
            THEN Affected(e) ELSE {}
      [] e.kind = "product" ->
            IF row.rev = 0 \/ row.top # e.top \/ row.refs # e.refs THEN {Key(e)} ELSE {}
      [] e.kind = "options" -> {<<"product", e.owner>>}
      [] OTHER -> {}
-----------------------------------------------------------------------------
(* Steps.                                                                  *)

AcceptSnapshot(e) ==
    /\ e \notin snapshots
    /\ snapshots' = snapshots \cup {e}
    /\ reasked' = {}
    /\ UNCHANGED <<progress, projected, projector, projectorFaults>>

\* PendingCatalogEvents.
Due(e) ==
    /\ e \in snapshots
    /\ \/ progress[e.id].st \in {"missing", "pending"}
       \/ progress[e.id].st = "retry" /\ progress[e.id].due

\* The row and its relations; the owner a row has is kept.
Upserted(e) ==
    [projected EXCEPT ![Key(e)] =
        [rev |-> e.rev, store |-> Scope(e), top |-> e.top, refs |-> e.refs, tags |-> e.tags,
         owner |-> e.owner, body |-> e.body, by |-> e.id]]

Names(f, c) == f.kind = "product" /\ c \in {f.top} \cup f.refs

\* A product event's block remembers whether a category it names was written
\* since (projected_at > updated_at).
AfterProjection(e, write) ==
    [id \in Ids |-> LET f == Event(id) IN
        IF f = e THEN [Missing EXCEPT !.st = "processed"]
        ELSE IF /\ write /\ e.kind = "category" /\ Names(f, e.entity)
                /\ Compatible(f.store, Scope(e)) /\ progress[f.id].st = "blocked"
        THEN [progress[id] EXCEPT !.advanced = TRUE]
        ELSE progress[id]]

\* One attempt.  What is processed commits; any other verdict rolls back.
Project(w, e) ==
    LET v == Verdict(e) IN
    /\ projector[w].at = "idle" /\ Due(e)
    /\ \/ /\ v.to = "processed"
          /\ progress' = AfterProjection(e, v.write)
          /\ projected' = IF v.write THEN Upserted(e) ELSE projected
          /\ reasked' = IF v.write THEN Asks(e) ELSE {}
          /\ projector' = IF v.write /\ e.kind = "category"
                          THEN [projector EXCEPT ![w] =
                                    [AtEase EXCEPT !.at = "wake",
                                                   !.woken = CategoryDescendants(e.entity)]]
                          ELSE projector
       \/ /\ v.to # "processed"
          /\ projector' = [projector EXCEPT ![w] =
                [AtEase EXCEPT !.at = "record", !.e = e.id, !.to = v.to, !.code = v.code]]
          /\ reasked' = {}
          /\ UNCHANGED <<progress, projected>>
    /\ UNCHANGED <<snapshots, projectorFaults>>

\* A serialization failure, or any error of the database.
ProjectFails(w, e) ==
    /\ projector[w].at = "idle" /\ Due(e)
    /\ projectorFaults < MaxProjectorFaults /\ projectorFaults' = projectorFaults + 1
    /\ projector' = [projector EXCEPT ![w] =
            [AtEase EXCEPT !.at = "record", !.e = e.id, !.to = "retry", !.code = "error"]]
    /\ reasked' = {}
    /\ UNCHANGED <<snapshots, progress, projected>>

\* claimCatalogRow, once more.
StillOpen(e) ==
    \/ progress[e.id].st \in {"missing", "pending"}
    \/ progress[e.id].st = "retry" /\ progress[e.id].due

\* markCatalogBlocked, persistCatalogRetry: a transaction of its own.
RecordVerdict(w) ==
    /\ projector[w].at = "record"
    /\ \E e \in Snapshots :
        /\ e.id = projector[w].e
        /\ progress' = IF StillOpen(e)
                       THEN [progress EXCEPT ![e.id] =
                                [st |-> projector[w].to, code |-> projector[w].code,
                                 due |-> FALSE, advanced |-> FALSE]]
                       ELSE progress
    /\ projector' = [projector EXCEPT ![w] = AtEase]
    /\ reasked' = {}
    /\ UNCHANGED <<snapshots, projected, projectorFaults>>

Rearmed(S) ==
    [id \in Ids |-> IF Event(id) \in S THEN [Missing EXCEPT !.st = "pending"] ELSE progress[id]]

\* resetCatalogProductsForGraph.
WakeProducts(w) ==
    /\ projector[w].at = "wake"
    /\ progress' = Rearmed({e \in snapshots :
            /\ progress[e.id].st \in {"retry", "blocked"} /\ progress[e.id].code \in {"wait", "relation"}
            /\ \E c \in projector[w].woken :
                Names(e, c) /\ Compatible(e.store, projected[<<"category", c>>].store)})
    /\ projector' = [projector EXCEPT ![w] = AtEase]
    /\ reasked' = {}
    /\ UNCHANGED <<snapshots, projected, projectorFaults>>

Rearmable(e) ==
    /\ e \in snapshots /\ progress[e.id].st = "blocked" /\ progress[e.id].code = "relation"
    /\ progress[e.id].advanced
    /\ \A f \in EventsOf(Key(e), e.store) : f.rev <= e.rev

\* RearmBlockedProducts, before each discovery of the product projector.
RearmBlockedProducts ==
    /\ \E e \in Snapshots : Rearmable(e)
    /\ progress' = Rearmed({e \in Snapshots : Rearmable(e)})
    /\ reasked' = {}
    /\ UNCHANGED <<snapshots, projected, projector, projectorFaults>>

\* The process dies, or the transaction of the record or of the wake-up fails.
ProjectorStops(w) ==
    /\ projector[w].at # "idle"
    /\ projectorFaults < MaxProjectorFaults /\ projectorFaults' = projectorFaults + 1
    /\ projector' = [projector EXCEPT ![w] = AtEase]
    /\ reasked' = {}
    /\ UNCHANGED <<snapshots, progress, projected>>

SnapshotComesDue(e) ==
    /\ progress[e.id].st = "retry" /\ ~progress[e.id].due
    /\ progress' = [progress EXCEPT ![e.id].due = TRUE]
    /\ reasked' = {}
    /\ UNCHANGED <<snapshots, projected, projector, projectorFaults>>

ProjectorStep(w) ==
    (\E e \in Snapshots : Project(w, e)) \/ RecordVerdict(w) \/ WakeProducts(w)

CatalogNext ==
    \/ \E e \in Snapshots : AcceptSnapshot(e) \/ SnapshotComesDue(e)
    \/ \E w \in Projectors :
        ProjectorStep(w) \/ ProjectorStops(w) \/ \E e \in Snapshots : ProjectFails(w, e)
    \/ RearmBlockedProducts

CatalogSafe == CatalogInit /\ [][CatalogNext]_catalogVars
-----------------------------------------------------------------------------
\* Every variable has its type, and an attempt that is over left its mark.
CatalogTypeOK ==
    /\ snapshots \subseteq Snapshots
    /\ \A e \in Snapshots :
        /\ progress[e.id].st \in {"missing", "pending", "retry", "blocked", "processed"}
        /\ e \notin snapshots => progress[e.id] = Missing
        /\ progress[e.id].advanced => progress[e.id].st = "blocked"
    /\ \A k \in EntityKeys : Exists(k) => \E e \in snapshots :
            e.id = projected[k].by /\ Key(e) = k /\ e.rev = projected[k].rev /\ SameContent(e, projected[k])
    /\ \A w \in Projectors : projector[w].at \in {"idle", "record", "wake"}
    /\ projectorFaults \in 0 .. MaxProjectorFaults

\* The graph has no cycle and three levels at most, and each product hangs
\* rightly in it or has a newer event that may repair it, in whatever order
\* the events of categories and products land (catalog.go, the orphan guard).
GraphStaysSound ==
    /\ \A c \in Categories : c \notin Below(Edges, c)
    /\ \A a, b, c, d \in Categories : ~({<<a, b>>, <<b, c>>, <<c, d>>} \subseteq Edges)

\* Only a conflict of shops may take that newer event away again.
RefusedForScope(e) == progress[e.id].st = "blocked" /\ progress[e.id].code = "scope"

OrphansAreRepairable ==
    \A k \in Rows("product") :
        \/ FiledRightly(Edges, projected[k].top, projected[k].refs)
        \/ \E f \in EventsOf(k, projected[k].store) :
            f.rev > projected[k].rev /\ (Repairable(f) \/ RefusedForScope(f))

\* No row of a shop refers to a row of another, although rows without an
\* owner are taken over after the relation was made (adoptingStore).  Types
\* are left out: nothing is asked when a shop takes one over; and so is the
\* stock of a variant without a shop, which is not compared with its product.
NoRelationAcrossStores ==
    \A k, j \in EntityKeys :
        Exists(k) /\ Exists(j) /\ Refers(k, j) => Compatible(projected[k].store, projected[j].store)

\* What is processed is in the catalog, or something newer of its entity was
\* accepted (revisionGate, entitySuperseded).
ProcessedIsCurrent ==
    \A e \in snapshots :
        progress[e.id].st = "processed" =>
            \/ projected[Key(e)].rev >= e.rev
            \/ \E f \in snapshots : Key(f) = Key(e) /\ f.rev > e.rev

\* What a reader of the catalog relies on.
CatalogIsSound ==
    CatalogTypeOK /\ GraphStaysSound /\ OrphansAreRepairable /\ NoRelationAcrossStores /\ ProcessedIsCurrent

\* No row ever goes back to an older revision, or says something else of the
\* same one (revisionGate).
RevisionsOnlyRise ==
    [][\A k \in EntityKeys :
        LET row == projected[k] IN
        projected'[k].rev >= row.rev
        /\ (projected'[k].rev = row.rev => SameContent(projected'[k], row))]_catalogVars

\* What is processed stays so, and a block is lifted only for another try,
\* whoever decided the same event at the same time (claimCatalogRow).
SnapshotVerdictsStay ==
    [][\A e \in Snapshots :
        /\ progress[e.id].st = "processed" => progress'[e.id] = progress[e.id]
        /\ progress[e.id].st = "blocked" =>
            progress'[e.id].st \in {"blocked", "pending"} /\ progress'[e.id].code \in {"", progress[e.id].code}
       ]_catalogVars

\* May a product be online, as far as its categories go?
Above(k) ==
    LET filed == {projected[k].top} \cup projected[k].refs IN
    filed \cup {c \in Categories : Below(Edges, c) \cap filed # {}}
AllowsOnline(k) == \A c \in Above(k) : projected[<<"category", c>>].body = "online"

\* Whenever a product in its right place may no longer, or may again, be
\* online, Commerce is asked to look at it with the same commit; an event
\* without a shop asks nothing for the products of shops.
NoSilentPolicyChange ==
    [][\A k \in Rows("product") :
        (/\ FiledRightly(Edges, projected[k].top, projected[k].refs)
         /\ AllowsOnline(k) # AllowsOnline(k)') =>
            \/ k \in reasked'
            \/ \E e \in snapshots :
                progress[e.id].st # "processed" /\ progress'[e.id].st = "processed"
                /\ e.store # projected[k].store]_catalogVars

\* Nothing of the catalog is undone, or changed unseen by Commerce.
CatalogMovesOn == RevisionsOnlyRise /\ SnapshotVerdictsStay /\ NoSilentPolicyChange

\* Something an event needs has not been projected: what it refers to, or
\* what an open event of a category it names refers to.
Lacking(e) ==
    \/ Unresolved(e)
    \/ e.kind = "product" /\ \E c \in {e.top} \cup e.refs : \E f \in snapshots :
        Key(f) = <<"category", c>> /\ Repairable(f) /\ Unresolved(f)

\* A product's newest event is not left blocked for a relation the graph now
\* has, when nothing is under way ("no operator retry and no Retail resend
\* are ever needed for convergence").
NoProductLeftBehind ==
    \A e \in snapshots :
        \/ e.kind # "product" \/ progress[e.id].st # "blocked" \/ progress[e.id].code # "relation"
        \/ \E f \in snapshots : Key(f) = Key(e) /\ f.rev > e.rev
        \/ \E w \in Projectors : projector[w].at # "idle"
        \/ Rearmable(e)
        \/ ~FiledRightly(Edges, e.top, e.refs)
=============================================================================
