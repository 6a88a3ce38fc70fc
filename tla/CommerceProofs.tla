--------------------------- MODULE CommerceProofs ---------------------------
(***************************************************************************)
(* What OnlineOrders, CatalogProjection and CommerceSync guarantee for any *)
(* order, products, shops, clerks, snapshots and workers, and any number   *)
(* of crashes, lapsed leases and lost sessions: nothing older overwrites   *)
(* what is newer, a finished delivery is accounted for, the catalog stays  *)
(* in one piece in whatever order its events land, and no shop with        *)
(* barriers is sent a product blindly or left with an older one.           *)
(***************************************************************************)
EXTENDS OnlineOrders, CatalogProjection, CommerceSync, FiniteSetTheorems, TLAPS

-----------------------------------------------------------------------------
(* Orders of the online shops.                                             *)

DeliveryRows ==
    [st : OpenStates \cup ClosedStates \cup {"none"}, deletion : BOOLEAN, v : 0 .. MaxVersion,
     owner : Processors \cup {Ownerless}, gen : Nat, live : BOOLEAN, due : BOOLEAN]

ShopSays == {"absent", "open", "done"}

\* Who holds a token, and who of them knows what the shop said.
Holding == {"asking", "loading", "projecting"}
Seeing == {"loading", "projecting"}
Serving == {"starting", "ending"} \cup Holding

ClerkTyped(c) ==
    /\ clerk[c].at \in {"idle", "over"} \cup Serving
    /\ clerk[c].at \in Serving =>
        /\ clerk[c].gen \in Nat
        /\ clerk[c].for \in Deliveries \cup {Ownerless}
        /\ clerk[c].for # Ownerless => inbox[clerk[c].for].st # "none"
    /\ clerk[c].at \in Holding => clerk[c].token \in 1 .. fence /\ clerk[c].token # latest.gen
    /\ clerk[c].at \in Seeing => clerk[c].seen \in 0 .. sold.v
    /\ clerk[c].at = "projecting" => /\ clerk[c].sight.v \in 0 .. MaxVersion
                                     /\ clerk[c].sight.st \in ShopSays
                                     /\ clerk[c].gone \in BOOLEAN
    /\ clerk[c].at = "ending" => /\ clerk[c].verdict \in {"retry", "processed", "blocked"}
                                 /\ clerk[c].for # Ownerless

DeliveryTyped(d) ==
    /\ inbox[d].v <= sold.v
    /\ inbox[d].st \in ClosedStates => inbox[d].owner = Ownerless /\ ~inbox[d].live
    /\ inbox[d].live => inbox[d].owner # Ownerless

OrderTyped ==
    \/ order = NoOrder
    \/ /\ order.rev \in Nat \ {0} /\ order.v \in 0 .. MaxVersion
       /\ order.st \in ShopSays /\ order.gone \in BOOLEAN
       /\ order.store \in Owners \cup {Ownerless}

\* The version the projection shows, and what the shop is known to have said.
Shown == IF order = NoOrder THEN 0 ELSE order.v

WorldTyped ==
    /\ sold \in AtTheShop /\ fence \in Nat
    /\ latest.gen \in 0 .. fence /\ latest.v \in 0 .. sold.v /\ Shown <= latest.v
    /\ known \in [Articles -> {"unmapped", "legacy"} \cup Owners]
    /\ inbox \in [Deliveries -> DeliveryRows] /\ \A d \in Deliveries : DeliveryTyped(d)
    /\ clerk = [c \in Clerks |-> clerk[c]]

\* A token is given once.
TokensDiffer ==
    \A b, c \in Clerks :
        clerk[b].at \in Holding /\ clerk[c].at \in Holding /\ clerk[b].token = clerk[c].token => b = c

\* The holder of the last token has seen what is projected.
Fresh(c) ==
    /\ clerk[c].at \in Seeing /\ clerk[c].token = fence => latest.v <= clerk[c].seen
    /\ clerk[c].at = "projecting" /\ clerk[c].token = fence =>
        clerk[c].sight.v = IF clerk[c].gone THEN Shown ELSE clerk[c].seen

\* Whoever took a token from the k-th on has seen, or will see, at least what
\* the delivery spoke of.
SeenSince(d, k) ==
    /\ latest.gen >= k => inbox[d].v <= latest.v
    /\ \A c \in Clerks : clerk[c].at \in Seeing /\ clerk[c].token >= k => inbox[d].v <= clerk[c].seen

Counted(c) ==
    \A d \in Deliveries :
        /\ clerk[c].at \in Holding /\ clerk[c].for = d => SeenSince(d, clerk[c].token)
        /\ clerk[c].at = "ending" /\ clerk[c].verdict = "processed" /\ clerk[c].for = d =>
                SeenSince(d, fence)

ClerkFits(c) == ClerkTyped(c) /\ Fresh(c) /\ Counted(c)

ProcessedIsSeen == \A d \in Deliveries : inbox[d].st = "processed" => SeenSince(d, fence)

HistoryFits ==
    /\ statuses \in Seq([rev : Nat, st : ShopSays, gone : BOOLEAN])
    /\ order = NoOrder => statuses = <<>>
    /\ HistoryEndsWithNow

OrdersInv ==
    /\ WorldTyped /\ OrderTyped /\ TokensDiffer /\ ProcessedIsSeen
    /\ HistoryFits /\ CompleteMeansCaptured
    /\ \A c \in Clerks : ClerkFits(c)
-----------------------------------------------------------------------------
(* A step that writes neither the order nor its history.                   *)

DeliveryGoesOn(d) ==
    /\ inbox'[d].v <= sold'.v
    /\ inbox'[d].st \in ClosedStates => inbox'[d].owner = Ownerless /\ ~inbox'[d].live
    /\ inbox'[d].live => inbox'[d].owner # Ownerless
    /\ inbox[d].st # "none" => inbox'[d].st # "none" /\ inbox'[d].v = inbox[d].v
    /\ inbox'[d].st = "processed" => inbox[d].st # "none" /\ SeenSince(d, fence)

WorldGoesOn ==
    /\ UNCHANGED <<order, statuses, latest>>
    /\ sold' \in AtTheShop /\ sold'.v >= sold.v
    /\ fence' \in Nat /\ fence' >= fence
    /\ known' \in [Articles -> {"unmapped", "legacy"} \cup Owners]
    /\ inbox' \in [Deliveries -> DeliveryRows] /\ \A d \in Deliveries : DeliveryGoesOn(d)

\* Nobody forgets what it has seen.
SightGoesOn(c) ==
    clerk'[c].at \in Seeing =>
        \/ /\ clerk[c].at \in Seeing /\ clerk'[c].seen = clerk[c].seen
           /\ clerk'[c].token = clerk[c].token
        \/ clerk'[c].seen = sold.v

Acts(c) == ClerkTyped(c)' /\ Fresh(c)' /\ Counted(c)' /\ SightGoesOn(c)

LEMMA NoneIsNobody == Ownerless \notin Deliveries /\ Ownerless \notin Processors
  BY OrderAssumption DEF Ownerless

LEMMA WorldTypes ==
  ASSUME OrdersInv
  PROVE  /\ sold.v \in 0 .. MaxVersion /\ latest.v \in Nat /\ fence \in Nat /\ latest.gen \in Nat
         /\ \A d \in Deliveries : inbox[d] \in DeliveryRows /\ inbox[d].v \in Nat /\ inbox[d].v <= sold.v
         /\ MaxVersion \in Nat
<1>1. sold.v \in 0 .. MaxVersion
  BY DEF OrdersInv, WorldTyped, AtTheShop
<1>2. \A d \in Deliveries : inbox[d] \in DeliveryRows /\ DeliveryTyped(d)
  BY DEF OrdersInv, WorldTyped
<1>3. QED BY <1>1, <1>2, OrderAssumption DEF OrdersInv, WorldTyped, DeliveryRows, DeliveryTyped

LEMMA SeenStays ==
  ASSUME OrdersInv, WorldGoesOn, \A c \in Clerks : SightGoesOn(c),
         NEW d \in Deliveries, inbox[d].st # "none", NEW k \in Nat, NEW j \in Nat, k <= j,
         \A c \in Clerks : clerk[c].at \in Seeing => clerk[c].token \in Nat,
         \A c \in Clerks : clerk'[c].at \in Seeing => clerk'[c].token \in Nat,
         SeenSince(d, k)
  PROVE  SeenSince(d, j)'
<1>1. inbox'[d].v = inbox[d].v /\ inbox[d].v \in Nat /\ inbox[d].v <= sold.v /\ latest' = latest
      /\ latest.gen \in Nat
  BY WorldTypes DEF WorldGoesOn, DeliveryGoesOn
<1>2. ASSUME NEW c \in Clerks, clerk'[c].at \in Seeing, clerk'[c].token >= j
      PROVE  inbox[d].v <= clerk'[c].seen
  BY <1>1, <1>2 DEF SightGoesOn, SeenSince
<1>3. QED BY <1>1, <1>2 DEF SeenSince

LEMMA ClerkStays ==
  ASSUME OrdersInv, WorldGoesOn, NEW c \in Clerks, clerk'[c] = clerk[c]
  PROVE  ClerkTyped(c)' /\ Fresh(c)' /\ SightGoesOn(c)
<1>1. ClerkTyped(c) /\ Fresh(c) /\ fence \in Nat /\ sold.v \in Nat
  BY WorldTypes DEF OrdersInv, ClerkFits
<1>2. /\ sold'.v \in Nat /\ sold'.v >= sold.v /\ fence' \in Nat /\ fence' >= fence
      /\ order' = order /\ latest' = latest
      /\ \A d \in Deliveries : inbox[d].st # "none" => inbox'[d].st # "none"
  BY OrderAssumption DEF WorldGoesOn, AtTheShop, DeliveryGoesOn
<1>3. ClerkTyped(c)'
  BY <1>1, <1>2 DEF ClerkTyped, Serving, Holding, Seeing
<1>4. Fresh(c)'
  <2>1. clerk[c].at \in Seeing => clerk[c].token \in 1 .. fence
    BY <1>1 DEF ClerkTyped, Seeing, Holding
  <2>2. Shown' = Shown
    BY <1>2 DEF Shown
  <2>3. QED BY <1>1, <1>2, <2>1, <2>2 DEF Fresh, Seeing
<1>5. QED BY <1>3, <1>4 DEF SightGoesOn

LEMMA GoesOn ==
  ASSUME OrdersInv, WorldGoesOn, clerk' = [c \in Clerks |-> clerk'[c]], TokensDiffer',
         \A c \in Clerks : clerk'[c] = clerk[c] \/ Acts(c)
  PROVE  OrdersInv'
<1>1. \A c \in Clerks : ClerkTyped(c)' /\ Fresh(c)' /\ SightGoesOn(c)
  BY ClerkStays DEF Acts
<1>2. \A c \in Clerks : clerk[c].at \in Holding => clerk[c].token \in Nat
  BY DEF OrdersInv, ClerkFits, ClerkTyped
<1>3. \A c \in Clerks : clerk'[c].at \in Holding => clerk'[c].token \in Nat
  BY <1>1 DEF ClerkTyped
<1>4. fence \in Nat /\ fence' \in Nat /\ fence <= fence'
  BY WorldTypes DEF WorldGoesOn
<1>5. \A d \in Deliveries : inbox[d].st # "none" =>
        \A k, j \in Nat : k <= j /\ SeenSince(d, k) => SeenSince(d, j)'
  BY <1>1, <1>2, <1>3, SeenStays DEF Seeing, Holding
<1>6. ProcessedIsSeen'
  BY <1>4, <1>5 DEF ProcessedIsSeen, WorldGoesOn, DeliveryGoesOn
<1>7. \A c \in Clerks : Counted(c)'
  <2> SUFFICES ASSUME NEW c \in Clerks, clerk'[c] = clerk[c] PROVE Counted(c)'
    BY DEF Acts
  <2>1. ClerkTyped(c) /\ Counted(c)
    BY DEF OrdersInv, ClerkFits
  <2>2. ASSUME NEW d \in Deliveries, clerk[c].at \in Holding, clerk[c].for = d
        PROVE  SeenSince(d, clerk[c].token)'
    <3>1. PICK k \in Nat : k = clerk[c].token /\ k = clerk'[c].token
      BY <1>2, <2>2
    <3>2. SeenSince(d, k) /\ inbox[d].st # "none"
      BY <2>1, <2>2, <3>1, NoneIsNobody DEF Counted, ClerkTyped, Serving
    <3>3. SeenSince(d, k)'
      BY <1>5, <3>2
    <3>4. QED BY <3>1, <3>3
  <2>3. ASSUME NEW d \in Deliveries, clerk[c].at = "ending", clerk[c].verdict = "processed",
               clerk[c].for = d
        PROVE  SeenSince(d, fence)'
    <3>1. SeenSince(d, fence) /\ inbox[d].st # "none"
      BY <2>1, <2>3, NoneIsNobody DEF Counted, ClerkTyped, Serving
    <3>2. PICK k \in Nat, j \in Nat : k = fence /\ j = fence'
      BY <1>4
    <3>3. SeenSince(d, k) /\ k <= j
      BY <1>4, <3>1, <3>2
    <3>4. SeenSince(d, j)'
      BY <1>5, <3>1, <3>3
    <3>5. QED BY <3>2, <3>4
  <2>4. QED BY <2>2, <2>3 DEF Counted
<1>8. WorldTyped'
  BY <1>4 DEF OrdersInv, WorldTyped, WorldGoesOn, DeliveryGoesOn, DeliveryTyped, Shown, AtTheShop
<1>9. (OrderTyped /\ HistoryFits /\ CompleteMeansCaptured)'
  BY DEF OrdersInv, WorldGoesOn, OrderTyped, HistoryFits, HistoryEndsWithNow, CompleteMeansCaptured
<1>10. QED BY <1>1, <1>6, <1>7, <1>8, <1>9 DEF OrdersInv, ClerkFits
-----------------------------------------------------------------------------
(* The steps of the world and of time.                                     *)

Still == UNCHANGED <<order, statuses, latest>>

LEMMA TokensKept ==
  ASSUME TokensDiffer,
         \A c \in Clerks : clerk'[c].at \in Holding =>
            clerk[c].at \in Holding /\ clerk'[c].token = clerk[c].token
  PROVE  TokensDiffer'
  BY DEF TokensDiffer

\* The world as it is goes on.
LEMMA WorldRests ==
  ASSUME OrdersInv, Still, UNCHANGED <<sold, known>>, fence' \in {fence, fence + 1},
         UNCHANGED inbox
  PROVE  WorldGoesOn
<1>1. \A d \in Deliveries : DeliveryTyped(d) /\ inbox[d] \in DeliveryRows
  BY DEF OrdersInv, WorldTyped
<1>2. \A d \in Deliveries : DeliveryGoesOn(d)
  BY <1>1 DEF DeliveryGoesOn, DeliveryTyped, OrdersInv, ProcessedIsSeen
<1>3. sold.v \in Nat /\ fence \in Nat
  BY WorldTypes
<1>4. QED BY <1>2, <1>3 DEF WorldGoesOn, Still, OrdersInv, WorldTyped

\* One delivery's row changes.
LEMMA RowChanges ==
  ASSUME OrdersInv, Still, UNCHANGED <<sold, known, fence>>,
         NEW d \in Deliveries, NEW row \in DeliveryRows, inbox' = [inbox EXCEPT ![d] = row],
         row.v <= sold.v, row.st \in ClosedStates => row.owner = Ownerless /\ ~row.live,
         row.live => row.owner # Ownerless,
         inbox[d].st # "none" => row.st # "none" /\ row.v = inbox[d].v,
         row.st = "processed" => inbox[d].st # "none" /\ SeenSince(d, fence)
  PROVE  WorldGoesOn
<1>1. inbox \in [Deliveries -> DeliveryRows]
  BY DEF OrdersInv, WorldTyped
<1>2. inbox'[d] = row /\ inbox' \in [Deliveries -> DeliveryRows]
      /\ \A e \in Deliveries : e # d => inbox'[e] = inbox[e]
  BY <1>1
<1>3. \A e \in Deliveries : DeliveryTyped(e)
  BY DEF OrdersInv, WorldTyped
<1>4. \A e \in Deliveries : DeliveryGoesOn(e)
  BY <1>2, <1>3 DEF DeliveryGoesOn, DeliveryTyped, OrdersInv, ProcessedIsSeen
<1>5. sold.v \in Nat /\ fence \in Nat
  BY WorldTypes
<1>6. QED BY <1>2, <1>4, <1>5 DEF WorldGoesOn, Still, OrdersInv, WorldTyped

LEMMA ClerksRest ==
  ASSUME OrdersInv, WorldGoesOn, UNCHANGED clerk
  PROVE  OrdersInv'
<1>1. clerk' = [c \in Clerks |-> clerk'[c]]
  BY DEF OrdersInv, WorldTyped
<1>2. TokensDiffer'
  BY DEF OrdersInv, TokensDiffer
<1>3. QED BY <1>1, <1>2, GoesOn

LEMMA ShopKeeps ==
  ASSUME OrdersInv, ShopChanges \/ MappingChanges
  PROVE  OrdersInv'
<1>1. sold' \in AtTheShop /\ sold'.v >= sold.v /\ sold.v \in Nat
  <2>1. sold \in AtTheShop /\ sold.v \in 0 .. MaxVersion /\ MaxVersion \in Nat
    BY WorldTypes DEF OrdersInv, WorldTyped
  <2>2. CASE ShopChanges
    BY <2>1, <2>2 DEF ShopChanges, AtTheShop
  <2>3. QED BY <2>1, <2>2 DEF MappingChanges
<1>2. known' \in [Articles -> {"unmapped", "legacy"} \cup Owners]
  BY DEF OrdersInv, WorldTyped, ShopChanges, MappingChanges
<1>3. Still /\ UNCHANGED <<inbox, fence, clerk>>
  BY DEF ShopChanges, MappingChanges, Still
<1>4. \A d \in Deliveries : DeliveryTyped(d) /\ inbox[d] \in DeliveryRows
  BY DEF OrdersInv, WorldTyped
<1>5. \A d \in Deliveries : inbox[d].v \in Nat /\ sold'.v \in Nat
  BY <1>1, WorldTypes DEF AtTheShop
<1>6. \A d \in Deliveries : DeliveryGoesOn(d)
  BY <1>1, <1>3, <1>4, <1>5 DEF DeliveryGoesOn, DeliveryTyped, OrdersInv, ProcessedIsSeen
<1>7. WorldGoesOn
  BY <1>1, <1>2, <1>3, <1>6, WorldTypes DEF WorldGoesOn, Still, OrdersInv, WorldTyped
<1>8. QED BY <1>3, <1>7, ClerksRest

LEMMA DeliveryKeeps ==
  ASSUME OrdersInv, NEW d \in Deliveries,
         InsertOrderWebhookEvent(d) \/ DeliveryLeasePasses(d) \/ DeliveryComesDue(d)
  PROVE  OrdersInv'
<1>1. Still /\ UNCHANGED <<sold, known, fence, clerk>>
  BY DEF InsertOrderWebhookEvent, DeliveryLeasePasses, DeliveryComesDue, Still
<1>2. /\ inbox[d] \in DeliveryRows /\ DeliveryTyped(d) /\ sold.v \in 0 .. MaxVersion
      /\ inbox[d].st = "processed" => SeenSince(d, fence)
  BY WorldTypes DEF OrdersInv, WorldTyped, ProcessedIsSeen
<1>3. CASE InsertOrderWebhookEvent(d)
  <2>0. PICK absent \in BOOLEAN : absent = (sold.st = "absent")
    OBVIOUS
  <2> DEFINE row == [NoDelivery EXCEPT !.st = "pending", !.deletion = absent,
                                       !.v = sold.v, !.due = TRUE]
  <2>1. inbox' = [inbox EXCEPT ![d] = row] /\ inbox[d].st = "none"
    BY <1>3, <2>0 DEF InsertOrderWebhookEvent
  <2>5. NoDelivery \in DeliveryRows /\ NoDelivery.owner = Ownerless /\ ~NoDelivery.live
    BY OrderAssumption DEF NoDelivery, DeliveryRows
  <2>6. row.st = "pending" /\ row.v = sold.v /\ row.owner = Ownerless /\ ~row.live
    BY <2>5 DEF DeliveryRows
  <2>7. row \in DeliveryRows
    BY <1>2, <2>0, <2>5 DEF DeliveryRows, OpenStates
  <2>2. sold.v \in Nat /\ sold.v <= sold.v
    BY WorldTypes
  <2> HIDE DEF row
  <2>3. WorldGoesOn
    BY <1>1, <1>2, <2>1, <2>2, <2>6, <2>7, RowChanges DEF ClosedStates
  <2>4. QED BY <1>1, <2>3, ClerksRest
<1>4. CASE DeliveryLeasePasses(d)
  <2> DEFINE row == [inbox[d] EXCEPT !.live = FALSE]
  <2>1. inbox' = [inbox EXCEPT ![d] = row]
    BY <1>4 DEF DeliveryLeasePasses
  <2>2. /\ row \in DeliveryRows /\ row.st = inbox[d].st /\ row.v = inbox[d].v
        /\ row.owner = inbox[d].owner /\ ~row.live
    BY <1>2 DEF DeliveryRows
  <2> HIDE DEF row
  <2>3. WorldGoesOn
    BY <1>1, <1>2, <2>1, <2>2, RowChanges DEF DeliveryTyped, ClosedStates
  <2>4. QED BY <1>1, <2>3, ClerksRest
<1>5. CASE DeliveryComesDue(d)
  <2> DEFINE row == [inbox[d] EXCEPT !.due = TRUE]
  <2>1. inbox' = [inbox EXCEPT ![d] = row]
    BY <1>5 DEF DeliveryComesDue
  <2>2. /\ row \in DeliveryRows /\ row.st = inbox[d].st /\ row.v = inbox[d].v
        /\ row.owner = inbox[d].owner /\ row.live = inbox[d].live
    BY <1>2 DEF DeliveryRows
  <2> HIDE DEF row
  <2>3. WorldGoesOn
    BY <1>1, <1>2, <2>1, <2>2, RowChanges DEF DeliveryTyped, ClosedStates
  <2>4. QED BY <1>1, <2>3, ClerksRest
<1>6. QED BY <1>3, <1>4, <1>5
-----------------------------------------------------------------------------
(* The steps of a clerk before it writes.                                  *)

\* A clerk that holds no token has little to keep.
LEMMA GoesKeeps ==
  ASSUME OrdersInv, WorldGoesOn, NEW w \in Clerks, NEW state, Goes(w, state), Acts(w),
         state.at \in Holding =>
            \/ clerk[w].at \in Holding /\ state.token = clerk[w].token
            \/ state.token = fence + 1
  PROVE  OrdersInv'
<1>1. clerk = [c \in Clerks |-> clerk[c]] /\ clerk' = [clerk EXCEPT ![w] = state]
  BY DEF OrdersInv, WorldTyped, Goes
<1>2. clerk'[w] = state /\ \A c \in Clerks : c # w => clerk'[c] = clerk[c]
  BY <1>1
<1>3. clerk' = [c \in Clerks |-> clerk'[c]]
  BY <1>1
<1>4. \A c \in Clerks : clerk[c].at \in Holding => clerk[c].token # fence + 1
  BY WorldTypes DEF OrdersInv, ClerkFits, ClerkTyped
<1>5. TokensDiffer'
  BY <1>2, <1>4 DEF OrdersInv, TokensDiffer
<1>6. QED BY <1>2, <1>3, <1>5, GoesOn

LEMMA ClerkParts ==
  ASSUME OrdersInv, NEW w \in Clerks
  PROVE  /\ ClerkTyped(w) /\ Fresh(w) /\ Counted(w)
         /\ \A state : Goes(w, state) => clerk'[w] = state
  BY DEF OrdersInv, ClerkFits, WorldTyped, Goes

\* A clerk that ends, or stops.
LEMMA LeavingActs ==
  ASSUME NEW w \in Clerks, clerk'[w].at \in {"idle", "over"}
  PROVE  Acts(w)
  BY DEF Acts, ClerkTyped, Fresh, Counted, SightGoesOn, Serving, Holding, Seeing

LEMMA ClaimKeeps ==
  ASSUME OrdersInv, NEW w \in Clerks, ClaimOrderWebhookEvent(w)
  PROVE  OrdersInv'
<1>1. PICK d \in Deliveries :
        /\ ClaimableDelivery(d)
        /\ inbox' = [inbox EXCEPT ![d].owner = w, ![d].gen = @ + 1, ![d].live = TRUE]
        /\ Goes(w, [at |-> "starting", for |-> d, gen |-> inbox[d].gen + 1])
  BY DEF ClaimOrderWebhookEvent
<1>2. Still /\ UNCHANGED <<sold, known, fence>> /\ w \in Processors
  BY DEF ClaimOrderWebhookEvent, Still
<1>3. /\ inbox[d] \in DeliveryRows /\ DeliveryTyped(d) /\ inbox \in [Deliveries -> DeliveryRows]
  BY DEF OrdersInv, WorldTyped
<1> DEFINE row == [inbox[d] EXCEPT !.owner = w, !.gen = @ + 1, !.live = TRUE]
<1>4. /\ row \in DeliveryRows /\ row.st = inbox[d].st /\ row.v = inbox[d].v /\ row.owner = w
  <2>1. inbox[d].gen + 1 \in Nat /\ w \in Processors \cup {Ownerless}
    BY <1>2, <1>3 DEF DeliveryRows
  <2>2. QED BY <1>3, <2>1 DEF DeliveryRows
<1>5. inbox' = [inbox EXCEPT ![d] = row]
  BY <1>1, <1>3
<1> HIDE DEF row
<1>6. w # Ownerless /\ inbox[d].st \in OpenStates
  BY <1>1, <1>2, OrderAssumption DEF Ownerless, ClaimableDelivery
<1>7. WorldGoesOn
  BY <1>2, <1>3, <1>4, <1>5, <1>6, RowChanges DEF DeliveryTyped, OpenStates, ClosedStates
<1>8. /\ clerk'[w].at = "starting" /\ clerk'[w].for = d /\ clerk'[w].gen = inbox[d].gen + 1
      /\ inbox'[d].st # "none" /\ inbox[d].gen \in Nat
  BY <1>1, <1>3, <1>4, <1>5, <1>6, ClerkParts DEF OpenStates, DeliveryRows
<1>9. Acts(w)
  BY <1>8 DEF Acts, ClerkTyped, Fresh, Counted, SightGoesOn, Serving, Holding, Seeing
<1>10. QED BY <1>1, <1>7, <1>9, GoesKeeps DEF Holding

LEMMA StartKeeps ==
  ASSUME OrdersInv, NEW w \in Clerks, OperatorStarts(w)
  PROVE  OrdersInv'
<1> DEFINE state == [at |-> "starting", for |-> Ownerless, gen |-> 0]
<1>1. Goes(w, state) /\ Still /\ UNCHANGED <<sold, known, fence, inbox>>
  BY DEF OperatorStarts, Still
<1>2. WorldGoesOn
  BY <1>1, WorldRests
<1>3. clerk'[w].at = "starting" /\ clerk'[w].for = Ownerless /\ clerk'[w].gen = 0
  BY <1>1, ClerkParts
<1>4. Acts(w)
  BY <1>3, OrderAssumption
     DEF Acts, ClerkTyped, Fresh, Counted, SightGoesOn, Serving, Holding, Seeing, Ownerless
<1>5. QED BY <1>1, <1>2, <1>4, GoesKeeps DEF Holding

LEMMA StopsKeeps ==
  ASSUME OrdersInv, NEW w \in Clerks, ClerkStops(w)
  PROVE  OrdersInv'
<1> DEFINE state == IF w \in Commands THEN [at |-> "over"] ELSE Unoccupied
<1>1. Goes(w, state) /\ Still /\ UNCHANGED <<sold, known, fence, inbox>>
  BY DEF ClerkStops, Still
<1>2. state.at \in {"idle", "over"}
  BY DEF Unoccupied
<1> HIDE DEF state
<1>3. clerk'[w].at \in {"idle", "over"}
  BY <1>1, <1>2, ClerkParts
<1>4. QED BY <1>1, <1>2, <1>3, WorldRests, LeavingActs, GoesKeeps DEF Holding

LEMMA BeginKeeps ==
  ASSUME OrdersInv, NEW w \in Clerks, BeginOrderReconcile(w)
  PROVE  OrdersInv'
<1> DEFINE state == [at |-> "asking", for |-> clerk[w].for, gen |-> clerk[w].gen, token |-> NextGeneration]
<1>1. Goes(w, state) /\ Still /\ UNCHANGED <<sold, known, inbox>> /\ fence' = fence + 1
      /\ clerk[w].at = "starting"
  BY DEF BeginOrderReconcile, NextGeneration, Still
<1>2. WorldGoesOn
  BY <1>1, WorldRests
<1>3. /\ clerk'[w].at = "asking" /\ clerk'[w].for = clerk[w].for /\ clerk'[w].gen = clerk[w].gen
      /\ clerk'[w].token = fence + 1
  BY <1>1, ClerkParts DEF NextGeneration
<1>4. \A c \in Clerks : c # w => clerk'[c] = clerk[c]
  BY <1>1 DEF OrdersInv, WorldTyped, Goes
<1>5. fence \in Nat /\ latest' = latest /\ latest.gen \in 0 .. fence
  BY <1>1 DEF OrdersInv, WorldTyped, Still
<1>6. ClerkTyped(w)'
  BY <1>1, <1>3, <1>5, ClerkParts DEF ClerkTyped, Serving, Holding, Seeing
<1>7. ASSUME NEW d \in Deliveries, NEW k \in Nat, k = fence + 1 PROVE SeenSince(d, k)'
  <2>1. \A c \in Clerks : clerk'[c].at \in Seeing => clerk'[c].token \in 1 .. fence
    BY <1>3, <1>4 DEF OrdersInv, ClerkFits, ClerkTyped, Seeing, Holding
  <2>2. QED BY <1>5, <1>7, <2>1 DEF SeenSince
<1>8. Counted(w)'
  <2>1. PICK k \in Nat : k = fence + 1 /\ k = clerk'[w].token
    BY <1>3, <1>5
  <2>2. QED BY <1>3, <1>7, <2>1 DEF Counted
<1>9. Acts(w)
  BY <1>3, <1>6, <1>8 DEF Acts, Fresh, SightGoesOn, Seeing
<1> HIDE DEF state
<1>10. state.at \in Holding => state.token = fence + 1
  BY <1>1, <1>3, ClerkParts
<1>11. QED BY <1>1, <1>2, <1>9, <1>10, GoesKeeps
-----------------------------------------------------------------------------
(* What a clerk knows of its delivery stays known.                         *)

LEMMA SeenHolds ==
  ASSUME OrdersInv, WorldGoesOn, NEW w \in Clerks, NEW state, Goes(w, state), SightGoesOn(w),
         state.at \in Seeing => state.token \in Nat,
         NEW d \in Deliveries, inbox[d].st # "none", NEW k \in Nat, NEW j \in Nat, k <= j,
         SeenSince(d, k)
  PROVE  SeenSince(d, j)'
<1>1. clerk'[w] = state /\ \A c \in Clerks : c # w => clerk'[c] = clerk[c]
  BY DEF OrdersInv, WorldTyped, Goes
<1>2. \A c \in Clerks : SightGoesOn(c)
  BY <1>1, ClerkStays
<1>3. \A c \in Clerks : clerk[c].at \in Seeing => clerk[c].token \in Nat
  BY DEF OrdersInv, ClerkFits, ClerkTyped, Seeing, Holding
<1>4. \A c \in Clerks : clerk'[c].at \in Seeing => clerk'[c].token \in Nat
  BY <1>1, <1>3
<1>5. QED BY <1>2, <1>3, <1>4, SeenStays

\* A clerk that goes on with its token and its delivery.
LEMMA CountedStays ==
  ASSUME OrdersInv, WorldGoesOn, NEW w \in Clerks, NEW state, Goes(w, state), SightGoesOn(w),
         clerk[w].at \in Holding, state.for = clerk[w].for,
         \/ state.at \in Holding /\ state.token = clerk[w].token
         \/ state.at = "ending"
  PROVE  Counted(w)'
<1>1. /\ clerk'[w] = state /\ ClerkTyped(w) /\ Counted(w)
      /\ clerk[w].token \in Nat /\ clerk[w].token <= fence
      /\ fence \in Nat /\ fence' \in Nat /\ fence <= fence'
  BY ClerkParts, WorldTypes DEF ClerkTyped, WorldGoesOn
<1>2. ASSUME NEW d \in Deliveries, clerk[w].for = d, NEW j \in Nat, clerk[w].token <= j
      PROVE  SeenSince(d, j)'
  <2>1. PICK k \in Nat : k = clerk[w].token
    BY <1>1
  <2>2. SeenSince(d, k) /\ inbox[d].st # "none"
    BY <1>1, <1>2, <2>1, NoneIsNobody DEF Counted, ClerkTyped, Serving
  <2>3. state.at \in Seeing => state.token \in Nat
    BY <1>1 DEF Seeing
  <2>4. QED BY <1>2, <2>1, <2>2, <2>3, SeenHolds
<1>3. CASE state.at \in Holding /\ state.token = clerk[w].token
  <2>1. PICK j \in Nat : j = clerk[w].token /\ j = clerk'[w].token
    BY <1>1, <1>3
  <2>2. \A d \in Deliveries : clerk'[w].for = d => SeenSince(d, j)'
    BY <1>1, <1>2, <2>1
  <2>3. QED BY <1>1, <1>3, <2>1, <2>2 DEF Counted, Holding
<1>4. CASE state.at = "ending"
  <2>1. PICK j \in Nat : j = fence' /\ clerk[w].token <= j
    BY <1>1
  <2>2. \A d \in Deliveries : clerk'[w].for = d => SeenSince(d, j)'
    BY <1>1, <1>2, <2>1
  <2>3. QED BY <1>1, <1>4, <2>1, <2>2 DEF Counted, Holding
<1>5. QED BY <1>3, <1>4

\* A clerk is done with the order, and its delivery has a verdict.
LEMMA EndingKeeps ==
  ASSUME OrdersInv, Still, UNCHANGED <<sold, known, fence, inbox>>, NEW w \in Clerks,
         NEW verdict \in {"retry", "processed", "blocked"}, Goes(w, Ending(w, verdict)),
         clerk[w].at \in {"starting"} \cup Holding,
         verdict = "processed" => clerk[w].at \in Holding
  PROVE  OrdersInv'
<1>1. WorldGoesOn
  BY WorldRests
<1>2. ClerkTyped(w) /\ clerk'[w] = Ending(w, verdict)
  BY ClerkParts
<1>3. CASE clerk[w].for = Ownerless
  <2>1. Ending(w, verdict).at = "over"
    BY <1>3 DEF Ending
  <2>2. Acts(w)
    BY <1>2, <2>1, LeavingActs
  <2>3. QED BY <1>1, <2>1, <2>2, GoesKeeps DEF Holding
<1>4. CASE clerk[w].for # Ownerless
  <2> DEFINE state == Ending(w, verdict)
  <2>1. /\ state.at = "ending" /\ state.for = clerk[w].for /\ state.gen = clerk[w].gen
        /\ state.verdict = verdict
    BY <1>4 DEF Ending
  <2> HIDE DEF state
  <2>2. clerk'[w] = state
    BY <1>2 DEF state
  <2>3. ClerkTyped(w)'
    BY <1>2, <1>4, <2>1, <2>2 DEF ClerkTyped, Serving, Holding, Seeing
  <2>4. Fresh(w)' /\ SightGoesOn(w)
    BY <2>1, <2>2 DEF Fresh, SightGoesOn, Seeing
  <2>5. Goes(w, state)
    BY DEF state
  <2>6. Counted(w)'
    <3>1. CASE verdict = "processed"
      BY <1>1, <2>1, <2>4, <2>5, <3>1, CountedStays
    <3>2. CASE verdict # "processed"
      BY <2>1, <2>2, <3>2 DEF Counted, Holding
    <3>3. QED BY <3>1, <3>2
  <2>7. QED BY <1>1, <2>1, <2>3, <2>4, <2>5, <2>6, GoesKeeps DEF Acts, Holding
<1>5. QED BY <1>3, <1>4

LEMMA FailsKeeps ==
  ASSUME OrdersInv, NEW w \in Clerks, ReconcileFails(w)
  PROVE  OrdersInv'
<1>1. Still /\ UNCHANGED <<sold, known, fence, inbox>>
  BY DEF ReconcileFails, Still
<1>2. \E verdict \in {"retry", "blocked"} : Goes(w, Ending(w, verdict))
  BY DEF ReconcileFails
<1>3. clerk[w].at \in {"starting"} \cup Holding
  BY DEF ReconcileFails, Holding
<1>4. QED BY <1>1, <1>2, <1>3, EndingKeeps

LEMMA GetOrderKeeps ==
  ASSUME OrdersInv, NEW w \in Clerks, GetOrder(w)
  PROVE  OrdersInv'
<1>1. /\ Still /\ UNCHANGED <<sold, known, fence, inbox>> /\ WorldGoesOn
      /\ clerk[w].at = "asking" /\ clerk[w].at \in Holding /\ clerk[w].at \in Serving
  BY WorldRests DEF GetOrder, Still, Holding, Serving
<1>2. ClerkTyped(w) /\ sold.v \in 0 .. MaxVersion /\ latest.v <= sold.v /\ latest' = latest
      /\ sold.st \in ShopSays
  BY <1>1, ClerkParts DEF OrdersInv, WorldTyped, AtTheShop, Still, ShopSays
<1>3. ASSUME NEW state, Goes(w, state), state.at \in Seeing, state.for = clerk[w].for,
             state.gen = clerk[w].gen, state.token = clerk[w].token, state.seen = sold.v,
             state.at = "projecting" => state.sight = sold /\ state.gone = FALSE
      PROVE  OrdersInv'
  <2>1. clerk'[w] = state
    BY <1>3, ClerkParts
  <2>2. SightGoesOn(w)
    BY <1>3, <2>1 DEF SightGoesOn
  <2>3. Counted(w)'
    BY <1>1, <1>3, <2>2, CountedStays DEF Seeing, Holding
  <2>4. ClerkTyped(w)'
    <3>1. /\ sold.v \in 0 .. sold.v /\ sold' = sold /\ fence' = fence /\ inbox' = inbox
          /\ latest' = latest /\ clerk'[w].at \in Seeing
      BY <1>1, <1>2, <1>3, <2>1, WorldTypes
    <3>2. clerk'[w].at = "projecting" =>
            /\ clerk'[w].sight.v \in 0 .. MaxVersion /\ clerk'[w].gone \in BOOLEAN
            /\ clerk'[w].sight.st \in ShopSays
      BY <1>2, <1>3, <2>1
    <3>3. QED BY <1>1, <1>2, <1>3, <2>1, <3>1, <3>2 DEF ClerkTyped, Serving, Holding, Seeing
  <2>5. Fresh(w)'
    BY <1>1, <1>2, <1>3, <2>1 DEF Fresh, Seeing
  <2>6. QED BY <1>1, <1>3, <2>2, <2>3, <2>4, <2>5, GoesKeeps DEF Acts
<1>4. CASE Goes(w, Projecting(w, sold, FALSE, sold.v))
  <2> DEFINE state == Projecting(w, sold, FALSE, sold.v)
  <2>1. /\ state.at = "projecting" /\ state.for = clerk[w].for /\ state.gen = clerk[w].gen
        /\ state.token = clerk[w].token /\ state.seen = sold.v /\ state.sight = sold
        /\ state.gone = FALSE
    BY DEF Projecting
  <2>2. Goes(w, state)
    BY <1>4
  <2> HIDE DEF state
  <2>3. QED BY <1>3, <2>1, <2>2 DEF Seeing
<1>5. CASE Goes(w, [at |-> "loading", for |-> clerk[w].for, gen |-> clerk[w].gen,
                    token |-> clerk[w].token, seen |-> sold.v])
  BY <1>3, <1>5 DEF Seeing
<1>6. CASE Goes(w, Ending(w, "blocked"))
  BY <1>1, <1>6, EndingKeeps
<1>7. QED BY <1>4, <1>5, <1>6 DEF GetOrder

LEMMA LoadKeeps ==
  ASSUME OrdersInv, NEW w \in Clerks, LoadProjectedOrder(w)
  PROVE  OrdersInv'
<1>1. /\ Still /\ UNCHANGED <<sold, known, fence, inbox>> /\ WorldGoesOn
      /\ clerk[w].at = "loading" /\ clerk[w].at \in Holding \cap Seeing /\ clerk[w].at \in Serving
  BY WorldRests DEF LoadProjectedOrder, Still, Holding, Serving, Seeing
<1>2. ClerkTyped(w) /\ Fresh(w) /\ latest' = latest /\ order' = order
  BY <1>1, ClerkParts DEF Still
<1> DEFINE last == IF order = NoOrder THEN [v |-> 0, st |-> "absent", lines |-> {}]
                   ELSE [v |-> order.v, st |-> order.st, lines |-> DOMAIN order.lines]
           state == Projecting(w, last, TRUE, clerk[w].seen)
<1>3. Goes(w, state)
  BY DEF LoadProjectedOrder
<1>4. last.v = Shown /\ Shown \in 0 .. MaxVersion /\ Shown' = Shown /\ last.st \in ShopSays
  BY <1>2, OrderAssumption DEF Shown, OrdersInv, OrderTyped, ShopSays
<1> HIDE DEF last
<1>5. /\ state.at = "projecting" /\ state.for = clerk[w].for /\ state.gen = clerk[w].gen
      /\ state.token = clerk[w].token /\ state.seen = clerk[w].seen /\ state.sight = last
      /\ state.gone = TRUE
  BY DEF Projecting
<1> HIDE DEF state
<1>6. clerk'[w] = state
  BY <1>3, ClerkParts
<1>7. SightGoesOn(w)
  BY <1>1, <1>5, <1>6 DEF SightGoesOn
<1>8. Counted(w)'
  BY <1>1, <1>3, <1>5, <1>7, CountedStays DEF Holding
<1>9. ClerkTyped(w)'
  BY <1>1, <1>2, <1>4, <1>5, <1>6 DEF ClerkTyped, Serving, Holding, Seeing
<1>10. Fresh(w)'
  BY <1>1, <1>2, <1>4, <1>5, <1>6 DEF Fresh, Seeing
<1>11. QED BY <1>1, <1>3, <1>5, <1>7, <1>8, <1>9, <1>10, GoesKeeps DEF Acts

LEMMA FinishKeeps ==
  ASSUME OrdersInv, NEW w \in Clerks, FinishOrderWebhookEvent(w)
  PROVE  OrdersInv'
<1>1. /\ Still /\ UNCHANGED <<sold, known, fence>> /\ clerk[w].at = "ending"
      /\ Goes(w, Unoccupied)
  BY DEF FinishOrderWebhookEvent, Still
<1>2. ClerkTyped(w) /\ Counted(w)
  BY ClerkParts
<1>3. PICK d \in Deliveries : d = clerk[w].for
  BY <1>1, <1>2 DEF ClerkTyped, Serving
<1>4. inbox[d] \in DeliveryRows /\ DeliveryTyped(d)
  BY DEF OrdersInv, WorldTyped
<1>5. WorldGoesOn
  <2>1. CASE UNCHANGED inbox
    BY <1>1, <2>1, WorldRests
  <2>2. CASE inbox' = [inbox EXCEPT ![d] = Released(@, clerk[w].verdict)] /\ StillOwns(w)
    <3> DEFINE row == Released(inbox[d], clerk[w].verdict)
    <3>1. inbox' = [inbox EXCEPT ![d] = row]
      BY <2>2 DEF OrdersInv, WorldTyped
    <3>2. clerk[w].verdict \in {"retry", "processed", "blocked"} /\ inbox[d].st \in OpenStates
      BY <1>1, <1>2, <1>3, <2>2 DEF ClerkTyped, StillOwns
    <3>3. /\ row \in DeliveryRows /\ row.st = clerk[w].verdict /\ row.v = inbox[d].v
          /\ row.owner = Ownerless /\ ~row.live
      BY <1>4, <3>2 DEF DeliveryRows, Released, OpenStates, ClosedStates
    <3>4. row.st = "processed" => SeenSince(d, fence)
      BY <1>1, <1>2, <1>3, <3>3 DEF Counted
    <3> HIDE DEF row
    <3>5. inbox[d].st # "none" /\ row.st # "none" /\ row.v <= sold.v
      BY <1>4, <3>2, <3>3 DEF OpenStates, DeliveryTyped
    <3>6. QED BY <1>1, <3>1, <3>3, <3>4, <3>5, RowChanges
  <2>3. QED BY <1>3, <2>1, <2>2 DEF FinishOrderWebhookEvent
<1>6. clerk'[w].at = "idle" /\ Unoccupied.at = "idle"
  BY <1>1, ClerkParts DEF Unoccupied
<1>7. QED BY <1>1, <1>5, <1>6, LeavingActs, GoesKeeps DEF Holding
-----------------------------------------------------------------------------
(* The transaction of a projection.                                        *)

LEMMA StoreWritten ==
  ASSUME OrderTyped, NEW lines
  PROVE  StoreToWrite(lines) \in Owners \cup {Ownerless}
<1>1. Derived(lines) \in Owners \cup {Ownerless}
  <2>1. CASE Cardinality(ProvenBy(lines)) = 1
    <3>1. ProvenBy(lines) # {}
      BY <2>1, FS_EmptySet
    <3>2. \E o \in Owners : o \in ProvenBy(lines)
      BY <3>1 DEF ProvenBy
    <3>3. (CHOOSE o \in Owners : o \in ProvenBy(lines)) \in Owners
      BY <3>2
    <3>4. QED BY <3>3 DEF Derived
  <2>2. QED BY <2>1 DEF Derived
<1>2. QED BY <1>1 DEF StoreToWrite, OrderTyped

Committing(w) ==
    /\ clerk[w].at = "projecting" /\ clerk[w].token = fence
    /\ latest' = [gen |-> clerk[w].token, v |-> clerk[w].seen]
    /\ \/ order # NoOrder /\ UNCHANGED <<order, statuses>>
       \/ /\ order' = WrittenOrder(clerk[w].sight, clerk[w].gone)
          /\ statuses' = IF StatusChanges(clerk[w].sight, clerk[w].gone)
                         THEN Append(statuses, [rev |-> order.rev + 1, st |-> clerk[w].sight.st,
                                                gone |-> clerk[w].gone])
                         ELSE statuses
    /\ Goes(w, Ending(w, "processed"))
    /\ UNCHANGED <<sold, inbox, fence, known>>

LEMMA ReconcileSplits ==
  ASSUME NEW w \in Clerks, ReconcileProjectedOrder(w)
  PROVE  \/ /\ Still /\ UNCHANGED <<sold, known, fence, inbox>>
            /\ clerk[w].at = "projecting"
            /\ \E verdict \in {"processed", "blocked"} : Goes(w, Ending(w, verdict))
         \/ Committing(w)
<1>1. CASE SupersededToken(w)
  BY <1>1 DEF ReconcileProjectedOrder, Still
<1>2. CASE ~SupersededToken(w) /\ StoreRefused(clerk[w].sight.lines, clerk[w].gone)
  BY <1>2 DEF ReconcileProjectedOrder, Still
<1>3. CASE ~SupersededToken(w) /\ ~StoreRefused(clerk[w].sight.lines, clerk[w].gone)
  BY <1>3 DEF ReconcileProjectedOrder, Committing, SupersededToken
<1>4. QED BY <1>1, <1>2, <1>3

\* What a projection is, and that it is no older than what was there.
LEMMA CommitWrites ==
  ASSUME OrdersInv, NEW w \in Clerks, Committing(w)
  PROVE  /\ OrderTyped' /\ order' # NoOrder
         /\ latest'.gen = fence /\ latest'.v = clerk[w].seen
         /\ latest.v <= clerk[w].seen /\ clerk[w].seen \in 0 .. sold.v
         /\ Shown' <= clerk[w].seen /\ Shown <= Shown'
<1>1. ClerkTyped(w) /\ Fresh(w) /\ clerk[w].at = "projecting" /\ clerk[w].token = fence
  BY ClerkParts DEF Committing
<1>2. /\ latest.v <= clerk[w].seen /\ clerk[w].seen \in 0 .. sold.v /\ clerk[w].gone \in BOOLEAN
      /\ clerk[w].sight.v \in 0 .. MaxVersion /\ clerk[w].sight.st \in ShopSays
      /\ clerk[w].sight.v = IF clerk[w].gone THEN Shown ELSE clerk[w].seen
  BY <1>1 DEF ClerkTyped, Fresh, Seeing
<1>3. latest.v \in Nat /\ Shown \in Nat /\ Shown <= latest.v /\ OrderTyped /\ sold.v \in Nat
  BY WorldTypes, OrderAssumption DEF OrdersInv, WorldTyped, Shown, OrderTyped
<1>4. CASE order # NoOrder /\ order' = order
  <2>1. Shown' = Shown /\ OrderTyped'
    BY <1>3, <1>4 DEF Shown, OrderTyped
  <2>2. QED BY <1>1, <1>2, <1>3, <1>4, <2>1 DEF Committing
<1>5. CASE order' = WrittenOrder(clerk[w].sight, clerk[w].gone)
  <2>1. order.rev \in Nat
    BY <1>3 DEF OrderTyped, NoOrder
  <2>2. /\ order'.rev = order.rev + 1 /\ order'.v = clerk[w].sight.v
        /\ order'.st = clerk[w].sight.st /\ order'.gone = clerk[w].gone
        /\ order'.store = StoreToWrite(clerk[w].sight.lines)
    BY <1>5 DEF WrittenOrder
  <2>3. StoreToWrite(clerk[w].sight.lines) \in Owners \cup {Ownerless}
    BY <1>3, StoreWritten
  <2>4. order' # NoOrder
    BY <2>1, <2>2 DEF NoOrder
  <2>5. Shown' = clerk[w].sight.v
    BY <2>2, <2>4 DEF Shown
  <2>6. OrderTyped'
    BY <1>2, <2>1, <2>2, <2>3 DEF OrderTyped
  <2>7. QED BY <1>1, <1>2, <1>3, <2>4, <2>5, <2>6 DEF Committing
<1>6. QED BY <1>4, <1>5 DEF Committing

LEMMA CommitHistory ==
  ASSUME OrdersInv, NEW w \in Clerks, Committing(w)
  PROVE  HistoryFits' /\ CompleteMeansCaptured'
<1> DEFINE st == clerk[w].sight.st
           gone == clerk[w].gone
           lines == clerk[w].sight.lines
<1>1. /\ order' # NoOrder /\ st \in ShopSays /\ gone \in BOOLEAN /\ OrderTyped
      /\ HistoryFits /\ CompleteMeansCaptured
  BY CommitWrites, ClerkParts DEF Committing, ClerkTyped, OrdersInv
<1>2. CASE UNCHANGED <<order, statuses>>
  BY <1>1, <1>2 DEF HistoryFits, HistoryEndsWithNow, CompleteMeansCaptured
<1>3. CASE order' = WrittenOrder(clerk[w].sight, gone) /\ statuses' = statuses
           /\ ~StatusChanges(clerk[w].sight, gone)
  <2>1. order.rev \in Nat /\ order'.rev = order.rev + 1 /\ order # NoOrder
        /\ order'.st = order.st /\ order'.gone = order.gone
    BY <1>1, <1>3 DEF OrderTyped, NoOrder, WrittenOrder, StatusChanges
  <2>2. statuses # <<>> /\ statuses[Len(statuses)].rev \in Nat
    <3> DEFINE Entries == [rev : Nat, st : ShopSays, gone : BOOLEAN]
    <3>1. statuses # <<>> /\ statuses \in Seq(Entries)
      BY <1>1, <2>1 DEF HistoryFits, HistoryEndsWithNow
    <3> HIDE DEF Entries
    <3>2. statuses[Len(statuses)] \in Entries
      BY <3>1
    <3>3. QED BY <3>1, <3>2 DEF Entries
  <2>3. HistoryFits'
    BY <1>1, <1>3, <2>1, <2>2 DEF HistoryFits, HistoryEndsWithNow
  <2>4. QED BY <1>3, <2>3 DEF CompleteMeansCaptured, WrittenOrder, MappingComplete, WrittenLines
<1>4. CASE /\ order' = WrittenOrder(clerk[w].sight, gone)
           /\ statuses' = Append(statuses, [rev |-> order.rev + 1, st |-> st, gone |-> gone])
           /\ StatusChanges(clerk[w].sight, gone)
  <2> DEFINE n == Len(statuses)
             row == [rev |-> order.rev + 1, st |-> st, gone |-> gone]
             Entries == [rev : Nat, st : ShopSays, gone : BOOLEAN]
  <2>1. /\ order.rev \in Nat /\ order'.rev = order.rev + 1 /\ order'.st = st /\ order'.gone = gone
        /\ order = NoOrder \/ order.st # st \/ order.gone # gone
    BY <1>1, <1>4 DEF OrderTyped, NoOrder, WrittenOrder, StatusChanges
  <2>2. row \in Entries /\ row.rev = order.rev + 1 /\ row.st = st /\ row.gone = gone
    BY <1>1, <2>1
  <2>3. statuses \in Seq(Entries) /\ statuses' = Append(statuses, row)
    BY <1>1, <1>4 DEF HistoryFits
  <2> HIDE DEF row, Entries
  <2>4. /\ statuses' \in Seq(Entries) /\ Len(statuses') = n + 1 /\ n \in Nat
        /\ statuses'[n + 1] = row /\ \A i \in 1 .. n : statuses'[i] = statuses[i]
    BY <2>2, <2>3
  <2>5. order = NoOrder => n = 0
    BY <1>1 DEF HistoryFits
  <2>6. order # NoOrder =>
          /\ n \in 1 .. n /\ statuses[n].st = order.st /\ statuses[n].gone = order.gone
          /\ statuses[n].rev <= order.rev
          /\ \A i \in 1 .. n - 1 :
                /\ statuses[i].rev < statuses[i + 1].rev
                /\ <<statuses[i].st, statuses[i].gone>> # <<statuses[i + 1].st, statuses[i + 1].gone>>
    BY <1>1, <2>3, <2>4 DEF HistoryFits, HistoryEndsWithNow
  <2>7. \A i \in 1 .. n : statuses[i].rev \in Nat
    <3>1. \A i \in 1 .. n : statuses[i] \in Entries
      BY <2>3
    <3>2. QED BY <3>1 DEF Entries
  <2>8. ASSUME NEW i \in 1 .. n
        PROVE  /\ statuses'[i].rev < statuses'[i + 1].rev
               /\ <<statuses'[i].st, statuses'[i].gone>> # <<statuses'[i + 1].st, statuses'[i + 1].gone>>
    <3>1. order # NoOrder
      BY <2>4, <2>5, <2>8
    <3>2. CASE i = n
      <4>1. statuses'[i] = statuses[n] /\ statuses'[i + 1] = row
        BY <2>4, <3>2
      <4>2. QED BY <2>1, <2>2, <2>6, <2>7, <3>1, <3>2, <4>1
    <3>3. CASE i \in 1 .. n - 1
      <4>1. i + 1 \in 1 .. n
        BY <2>4, <3>3
      <4>2. statuses'[i] = statuses[i] /\ statuses'[i + 1] = statuses[i + 1]
        BY <2>4, <4>1
      <4>3. QED BY <2>6, <3>1, <3>3, <4>2
    <3>4. QED BY <2>4, <2>8, <3>2, <3>3
  <2>9. statuses' # <<>>
    BY <2>4
  <2>10. HistoryEndsWithNow'
    <3>1. /\ statuses'[Len(statuses')].st = order'.st
          /\ statuses'[Len(statuses')].gone = order'.gone
          /\ statuses'[Len(statuses')].rev <= order'.rev
      BY <2>1, <2>2, <2>4
    <3>2. Len(statuses') - 1 = n
      BY <2>4
    <3>3. QED BY <2>8, <2>9, <3>1, <3>2 DEF HistoryEndsWithNow
  <2>11. HistoryFits'
    BY <1>1, <2>4, <2>10 DEF HistoryFits, Entries
  <2>12. QED
    BY <1>4, <2>11 DEF CompleteMeansCaptured, WrittenOrder, MappingComplete, WrittenLines
<1>5. QED BY <1>2, <1>3, <1>4 DEF Committing

LEMMA CommitKeeps ==
  ASSUME OrdersInv, NEW w \in Clerks, Committing(w)
  PROVE  OrdersInv'
<1>1. /\ OrderTyped' /\ latest'.gen = fence /\ latest'.v = clerk[w].seen
      /\ latest.v <= clerk[w].seen /\ clerk[w].seen \in 0 .. sold.v /\ Shown' <= clerk[w].seen
      /\ HistoryFits' /\ CompleteMeansCaptured'
  BY CommitWrites, CommitHistory
<1>2. /\ ClerkTyped(w) /\ Counted(w) /\ clerk[w].at = "projecting" /\ clerk[w].token = fence
      /\ clerk'[w] = Ending(w, "processed") /\ UNCHANGED <<sold, inbox, fence, known>>
      /\ fence \in Nat /\ sold.v \in Nat /\ latest.v \in Nat
  BY ClerkParts, WorldTypes DEF Committing
<1>3. /\ clerk' = [c \in Clerks |-> clerk'[c]]
      /\ \A c \in Clerks : c # w => clerk'[c] = clerk[c]
  BY DEF OrdersInv, WorldTyped, Committing, Goes
<1>4. clerk'[w].at \in {"over", "ending"}
  BY <1>2 DEF Ending
<1>5. \A c \in Clerks : c # w /\ clerk[c].at \in Holding => clerk[c].token # fence
  BY <1>2 DEF OrdersInv, TokensDiffer, Holding
<1>6. WorldTyped'
  BY <1>1, <1>2, <1>3 DEF OrdersInv, WorldTyped, DeliveryTyped
<1>7. TokensDiffer'
  BY <1>3, <1>4 DEF OrdersInv, TokensDiffer, Holding
<1>8. ASSUME NEW d \in Deliveries, NEW k \in Nat, k <= fence, SeenSince(d, k)
      PROVE  SeenSince(d, k)'
  <2>1. inbox[d].v <= clerk[w].seen /\ inbox'[d].v = inbox[d].v
    BY <1>2, <1>8 DEF SeenSince, Seeing
  <2>2. \A c \in Clerks : clerk'[c].at \in Seeing => clerk'[c] = clerk[c]
    BY <1>3, <1>4 DEF Seeing
  <2>3. QED BY <1>1, <1>8, <2>1, <2>2 DEF SeenSince
<1>9. ASSUME NEW d \in Deliveries, SeenSince(d, fence) PROVE SeenSince(d, fence)'
  <2>1. PICK k \in Nat : k = fence /\ k = fence'
    BY <1>2
  <2>2. SeenSince(d, k)'
    BY <1>2, <1>8, <1>9, <2>1
  <2>3. QED BY <2>1, <2>2
<1>10. ProcessedIsSeen'
  BY <1>2, <1>9 DEF OrdersInv, ProcessedIsSeen
<1>11. ASSUME NEW c \in Clerks, c # w PROVE ClerkFits(c)'
  <2>1. ClerkTyped(c) /\ Fresh(c) /\ Counted(c) /\ clerk'[c] = clerk[c]
    BY <1>3, <1>11 DEF OrdersInv, ClerkFits
  <2>2. ClerkTyped(c)'
    BY <1>1, <1>2, <1>5, <1>11, <2>1 DEF ClerkTyped, Serving, Holding, Seeing
  <2>3. Fresh(c)'
    BY <1>2, <1>5, <1>11, <2>1 DEF Fresh, Holding, Seeing
  <2>4. Counted(c)'
    <3>1. ASSUME NEW d \in Deliveries, clerk[c].at \in Holding, clerk[c].for = d
          PROVE  SeenSince(d, clerk[c].token)'
      <4>1. PICK k \in Nat : k = clerk[c].token /\ k = clerk'[c].token /\ k <= fence
        BY <1>2, <2>1, <3>1 DEF ClerkTyped
      <4>2. SeenSince(d, k)
        BY <2>1, <3>1, <4>1 DEF Counted
      <4>3. SeenSince(d, k)'
        BY <1>8, <4>1, <4>2
      <4>4. QED BY <4>1, <4>3
    <3>2. QED BY <1>9, <2>1, <3>1 DEF Counted
  <2>5. QED BY <2>2, <2>3, <2>4 DEF ClerkFits
<1>12. ClerkFits(w)'
  <2>1. CASE clerk[w].for = Ownerless
    <3>1. clerk'[w].at = "over"
      BY <1>2, <2>1 DEF Ending
    <3>2. QED BY <3>1, LeavingActs DEF Acts, ClerkFits
  <2>2. CASE clerk[w].for # Ownerless
    <3>1. /\ clerk'[w].at = "ending" /\ clerk'[w].for = clerk[w].for
          /\ clerk'[w].gen = clerk[w].gen /\ clerk'[w].verdict = "processed"
      BY <1>2, <2>2 DEF Ending
    <3>2. ClerkTyped(w)' /\ Fresh(w)'
      BY <1>2, <2>2, <3>1 DEF ClerkTyped, Fresh, Serving, Holding, Seeing
    <3>3. \A d \in Deliveries : clerk[w].for = d => SeenSince(d, fence)
      BY <1>2 DEF Counted, Holding
    <3>4. Counted(w)'
      BY <1>9, <3>1, <3>3 DEF Counted, Holding
    <3>5. QED BY <3>2, <3>4 DEF ClerkFits
  <2>3. QED BY <2>1, <2>2
<1>13. QED BY <1>1, <1>6, <1>7, <1>10, <1>11, <1>12 DEF OrdersInv

LEMMA ReconcileKeeps ==
  ASSUME OrdersInv, NEW w \in Clerks, ReconcileProjectedOrder(w)
  PROVE  OrdersInv'
  BY ReconcileSplits, CommitKeeps, EndingKeeps DEF Holding
-----------------------------------------------------------------------------
LEMMA OrdersInvInit == OrderInit => OrdersInv
<1> SUFFICES ASSUME OrderInit PROVE OrdersInv
  OBVIOUS
<1>1. NoDelivery \in DeliveryRows /\ NoDelivery.v = 0 /\ NoDelivery.st = "none" /\ ~NoDelivery.live
  BY OrderAssumption DEF NoDelivery, DeliveryRows
<1>2. \A d \in Deliveries : DeliveryTyped(d) /\ inbox[d].st # "processed"
  BY <1>1 DEF OrderInit, DeliveryTyped, ClosedStates
<1>3. WorldTyped
  BY <1>1, <1>2, OrderAssumption DEF OrderInit, WorldTyped, AtTheShop, Shown
<1>4. \A c \in Clerks : clerk[c].at = "idle"
  BY DEF OrderInit, Unoccupied
<1>5. TokensDiffer /\ ProcessedIsSeen /\ \A c \in Clerks : ClerkFits(c)
  BY <1>2, <1>4 DEF TokensDiffer, ProcessedIsSeen, ClerkFits, ClerkTyped, Fresh, Counted,
                    Serving, Holding, Seeing
<1>6. OrderTyped /\ HistoryFits /\ CompleteMeansCaptured
  BY DEF OrderInit, OrderTyped, HistoryFits, HistoryEndsWithNow, CompleteMeansCaptured
<1>7. QED BY <1>3, <1>5, <1>6 DEF OrdersInv

LEMMA OrdersInvKept == OrdersInv /\ [OrderNext]_orderVars => OrdersInv'
<1> SUFFICES ASSUME OrdersInv, [OrderNext]_orderVars PROVE OrdersInv'
  OBVIOUS
<1>1. CASE UNCHANGED orderVars
  <2>1. Still /\ UNCHANGED <<sold, known, fence, inbox, clerk>>
    BY <1>1 DEF orderVars, Still
  <2>2. QED BY <2>1, WorldRests, ClerksRest
<1>2. ASSUME NEW c \in Clerks, ClerkStep(c) PROVE OrdersInv'
  BY <1>2, ClaimKeeps, BeginKeeps, GetOrderKeeps, LoadKeeps, ReconcileKeeps, FinishKeeps DEF ClerkStep
<1>3. QED
  BY <1>1, <1>2, ShopKeeps, DeliveryKeeps, StartKeeps, FailsKeeps, StopsKeeps
     DEF OrderNext, OrderTimePasses

LEMMA OrdersInvAlways == OrderSafe => []OrdersInv
  BY OrdersInvInit, OrdersInvKept, PTL DEF OrderSafe

LEMMA OrdersInvIsSound == OrdersInv => OrdersAreSound
<1> SUFFICES ASSUME OrdersInv PROVE OrdersAreSound
  OBVIOUS
<1>1. \A d \in Deliveries : inbox[d] \in DeliveryRows /\ DeliveryTyped(d)
  BY DEF OrdersInv, WorldTyped
<1>2. OrderTypeOK
  BY <1>1 DEF OrdersInv, WorldTyped, OrderTyped, OrderTypeOK, DeliveryRows, DeliveryTyped
<1>3. ProcessedIsAccountedFor
  BY WorldTypes DEF OrdersInv, ProcessedIsSeen, SeenSince, ProcessedIsAccountedFor
<1>4. QED BY <1>2, <1>3 DEF OrdersInv, HistoryFits, OrdersAreSound

\* Whatever clerks, webhooks and operators interleave, the projection of an
\* order is at least as new as every delivery that was finished as processed,
\* its history ends with its status, and what is called complete was captured.
THEOREM OrdersSound == OrderSafe => []OrdersAreSound
  BY OrdersInvAlways, OrdersInvIsSound, PTL

\* A step writes the order only in the transaction of the last reconciliation.
LEMMA WhoWrites ==
  ASSUME OrderNext
  PROVE  Still \/ \E w \in Clerks : Committing(w)
<1>1. ASSUME NEW c \in Clerks, ClerkStep(c) PROVE Still \/ Committing(c)
  BY <1>1, ReconcileSplits DEF ClerkStep, ClaimOrderWebhookEvent, BeginOrderReconcile, GetOrder,
     LoadProjectedOrder, FinishOrderWebhookEvent, Still
<1>2. CASE ShopChanges \/ MappingChanges
  BY <1>2 DEF ShopChanges, MappingChanges, Still
<1>3. CASE (\E d \in Deliveries : InsertOrderWebhookEvent(d)) \/ OrderTimePasses
  BY <1>3 DEF InsertOrderWebhookEvent, OrderTimePasses, DeliveryLeasePasses, DeliveryComesDue, Still
<1>4. CASE \E c \in Clerks : OperatorStarts(c) \/ ReconcileFails(c) \/ ClerkStops(c)
  BY <1>4 DEF OperatorStarts, ReconcileFails, ClerkStops, Still
<1>5. QED BY <1>1, <1>2, <1>3, <1>4 DEF OrderNext

LEMMA StepMovesOn ==
  ASSUME OrdersInv, OrderNext
  PROVE  /\ latest'.v >= latest.v
         /\ order # NoOrder => order' # NoOrder /\ order'.v >= order.v
         /\ order # NoOrder /\ order.store # Ownerless => order'.store = order.store
<1>1. CASE Still
  <2>1. latest.v \in Nat /\ (order # NoOrder => order.v \in Nat)
    BY WorldTypes DEF OrdersInv, OrderTyped
  <2>2. QED BY <1>1, <2>1 DEF Still
<1>2. ASSUME NEW w \in Clerks, Committing(w)
      PROVE  /\ latest'.v >= latest.v
             /\ order # NoOrder => order' # NoOrder /\ order'.v >= order.v
             /\ order # NoOrder /\ order.store # Ownerless => order'.store = order.store
  <2>1. latest'.v >= latest.v /\ order' # NoOrder /\ Shown <= Shown'
    BY <1>2, CommitWrites, WorldTypes
  <2>2. Shown' = order'.v /\ (order # NoOrder => Shown = order.v)
    BY <2>1 DEF Shown
  <2>3. order # NoOrder /\ order.store # Ownerless => order'.store = order.store
    BY <1>2 DEF Committing, WrittenOrder, StoreToWrite
  <2>4. QED BY <2>1, <2>2, <2>3
<1>3. QED BY <1>1, <1>2, WhoWrites

LEMMA FinishedRowsStay ==
  ASSUME OrdersInv, OrderNext, NEW d \in Deliveries, inbox[d].st \in ClosedStates
  PROVE  inbox'[d] = inbox[d]
<1>1. inbox \in [Deliveries -> DeliveryRows] /\ DeliveryTyped(d)
  BY DEF OrdersInv, WorldTyped
<1>2. inbox[d].st \notin OpenStates /\ inbox[d].st # "none" /\ ~inbox[d].live
  BY <1>1 DEF DeliveryTyped, ClosedStates, OpenStates
<1>3. ASSUME NEW e \in Deliveries, InsertOrderWebhookEvent(e) \/ DeliveryLeasePasses(e) \/ DeliveryComesDue(e)
      PROVE  inbox'[d] = inbox[d]
  BY <1>1, <1>2, <1>3
     DEF InsertOrderWebhookEvent, DeliveryLeasePasses, DeliveryComesDue, OpenStates
<1>4. ASSUME NEW c \in Clerks, ClaimOrderWebhookEvent(c) \/ FinishOrderWebhookEvent(c)
      PROVE  inbox'[d] = inbox[d]
  <2>1. CASE ClaimOrderWebhookEvent(c)
    BY <1>1, <1>2, <2>1 DEF ClaimOrderWebhookEvent, ClaimableDelivery
  <2>2. CASE FinishOrderWebhookEvent(c)
    BY <1>1, <1>2, <2>2 DEF FinishOrderWebhookEvent, StillOwns
  <2>3. QED BY <1>4, <2>1, <2>2
<1>5. QED
  BY <1>3, <1>4 DEF OrderNext, ClerkStep, OrderTimePasses, ShopChanges, MappingChanges,
     OperatorStarts, BeginOrderReconcile, GetOrder, LoadProjectedOrder, ReconcileProjectedOrder,
     ReconcileFails, ClerkStops

\* No reconciliation, however late, takes an order back in time or to another
\* store, and none opens a finished delivery again.
THEOREM OrdersMoveOn == OrderSafe => OrdersOnlyMoveOn
<1>1. OrdersInv /\ [OrderNext]_orderVars =>
        [/\ latest'.v >= latest.v
         /\ order # NoOrder => order' # NoOrder /\ order'.v >= order.v]_orderVars
  BY StepMovesOn
<1>2. OrdersInv /\ [OrderNext]_orderVars =>
        [order # NoOrder /\ order.store # Ownerless => order'.store = order.store]_orderVars
  BY StepMovesOn
<1>3. OrdersInv /\ [OrderNext]_orderVars =>
        [\A d \in Deliveries : inbox[d].st \in ClosedStates => inbox'[d] = inbox[d]]_orderVars
  BY FinishedRowsStay
<1>4. QED
  BY <1>1, <1>2, <1>3, OrdersInvAlways, PTL
     DEF OrderSafe, OrdersOnlyMoveOn, NeverBackInTime, AttributionStays, FinishedStays
-----------------------------------------------------------------------------
(* The catalog.                                                            *)

Doubt == {"graph", "orphans"}   \* what only categories are blocked for
Codes == {"", "wait", "error", "scope", "conflict", "relation"} \cup Doubt

ProgressRecords ==
    [st : {"missing", "pending", "retry", "blocked", "processed"}, code : Codes,
     due : BOOLEAN, advanced : BOOLEAN]

\* The row says what the event it was projected from says.
Shows(row, k) ==
    \E e \in snapshots :
        e.id = row.by /\ Key(e) = k /\ e.rev = row.rev /\ SameContent(e, row)

\* A worker about to record a verdict has decided an accepted event; what
\* conflicted with the row it found does not exceed the row of now.
Recordable(e, to, code) ==
    /\ to \in {"retry", "blocked"} /\ code \in Codes
    /\ to = "blocked" =>
        \/ code = "scope"
        \/ code = "relation"
        \/ code = "conflict" /\ e.rev <= projected[Key(e)].rev
        \/ code \in Doubt /\ e.kind = "category"

RecordFits(w) ==
    projector[w].at = "record" =>
        \E e \in snapshots :
            e.id = projector[w].e /\ Recordable(e, projector[w].to, projector[w].code)

CatTypeOK ==
    /\ snapshots \subseteq Snapshots
    /\ progress \in [Ids -> ProgressRecords]
    /\ DOMAIN projected = EntityKeys /\ \A k \in EntityKeys : projected[k].rev \in Nat
    /\ DOMAIN projector = Projectors
    /\ \A w \in Projectors : projector[w].at \in {"idle", "record", "wake"}
    /\ projectorFaults \in 0 .. MaxProjectorFaults

ProgressFits(e) ==
    /\ e \notin snapshots => progress[e.id] = Missing
    /\ progress[e.id].advanced => progress[e.id].st = "blocked"

RowsAreShown == \A k \in EntityKeys : Exists(k) => Shows(projected[k], k)

CatInv ==
    /\ CatTypeOK /\ RowsAreShown
    /\ \A k \in EntityKeys : ~Exists(k) => projected[k].store = NoStore
    /\ \A e \in Snapshots : ProgressFits(e)
    /\ \A w \in Projectors : RecordFits(w)
    /\ GraphHolds(Edges)
    /\ OrphansAreRepairable /\ NoRelationAcrossStores /\ ProcessedIsCurrent

-----------------------------------------------------------------------------
LEMMA SnapshotFacts ==
  /\ \A e \in Snapshots : /\ e.kind \in SnapshotKinds /\ e.rev \in Nat \ {0} /\ e.id \in Ids
                          /\ Key(e) \in EntityKeys /\ Referred(e) \subseteq EntityKeys
                          /\ Event(e.id) = e
  /\ \A id \in Ids : Event(id) \in Snapshots /\ Event(id).id = id
<1>1. \A e \in Snapshots : e.kind \in SnapshotKinds /\ e.rev \in Nat \ {0}
  BY CatalogAssumption
<1>2. \A e, f \in Snapshots : e.id = f.id => e = f
  BY CatalogAssumption
<1>3. \A id \in Ids : Event(id) \in Snapshots /\ Event(id).id = id
  BY DEF Ids, Event
<1>4. \A e \in Snapshots : e.id \in Ids
  BY DEF Ids
<1>5. \A e \in Snapshots : Event(e.id) = e
  BY <1>2, <1>3, <1>4
<1>6. \A e \in Snapshots : Key(e) \in EntityKeys /\ Referred(e) \subseteq EntityKeys
  BY DEF EntityKeys
<1>7. QED BY <1>1, <1>3, <1>4, <1>5, <1>6

LEMMA VerdictFields ==
  /\ Writes.to = "processed" /\ Writes.write /\ Noop.to = "processed" /\ ~Noop.write
  /\ Waits.to = "retry" /\ Waits.code = "wait" /\ ~Waits.write
  /\ \A c : BlockedAs(c).to = "blocked" /\ BlockedAs(c).code = c /\ ~BlockedAs(c).write
  BY DEF Writes, Noop, Waits, BlockedAs

\* What the gate lets through is newer than the row.
LEMMA GateParts ==
  ASSUME NEW e \in Snapshots, CatTypeOK
  PROVE  /\ RevisionGate(e) \in {"foreign", "noop", "same", "conflict", "proceed"}
         /\ RevisionGate(e) = "proceed" => e.rev > projected[Key(e)].rev
         /\ RevisionGate(e) = "noop" => e.rev < projected[Key(e)].rev \/ Superseded(e)
         /\ RevisionGate(e) \in {"same", "conflict"} => e.rev = projected[Key(e)].rev
<1>1. e.rev \in Nat /\ projected[Key(e)].rev \in Nat
  BY SnapshotFacts DEF CatTypeOK
<1>2. QED BY <1>1 DEF RevisionGate

\* What a verdict of each kind says.
Right(e) ==
    CASE e.kind = "category" ->
            /\ ~RefersAbroad(e) /\ (Adopting(e) => DependentsCompatible(e))
            /\ GraphHolds(Proposed(e)) /\ (ParentsChanged(e) => ChangeRepairable(e))
      [] e.kind = "product" ->
            /\ ~RefersAbroad(e) /\ (Adopting(e) => DependentsCompatible(e))
            /\ FiledRightly(Edges, e.top, e.refs)
      [] e.kind = "variant" -> ~RefersAbroad(e) /\ (Adopting(e) => DependentsCompatible(e))
      [] e.kind = "tag" -> Adopting(e) => DependentsCompatible(e)
      [] e.kind \in {"policy", "stock"} ->
            Compatible(Scope(e), projected[<<"product", e.owner>>].store)
      [] e.kind = "variantStock" ->
            Compatible(Scope(e), projected[<<"variant", e.owner>>].store)
      [] OTHER -> TRUE

Answered(e, v) ==
    \/ v = Writes /\ e.rev > projected[Key(e)].rev /\ Right(e)
    \/ v = Noop /\ (e.rev <= projected[Key(e)].rev \/ Superseded(e))
    \/ v = Waits
    \/ v = BlockedAs("scope")
    \/ v = BlockedAs("relation")
    \/ v = BlockedAs("conflict") /\ e.rev = projected[Key(e)].rev
    \/ e.kind = "category" /\ v \in {BlockedAs("graph"), BlockedAs("orphans")}

LEMMA GateAnswers ==
  ASSUME NEW e \in Snapshots, CatTypeOK, RevisionGate(e) # "proceed"
  PROVE  Answered(e, GateVerdict(RevisionGate(e)))
<1>1. e.rev \in Nat /\ projected[Key(e)].rev \in Nat
  BY SnapshotFacts DEF CatTypeOK
<1>2. QED BY <1>1, GateParts DEF GateVerdict, Answered

LEMMA StructureAnswers ==
  ASSUME NEW e, NEW then
  PROVE  \/ StructureVerdict(e, then) = then /\ FiledRightly(Edges, e.top, e.refs)
         \/ StructureVerdict(e, then) \in {BlockedAs("relation"), Waits}
  BY DEF StructureVerdict

LEMMA LeafAnswers ==
  ASSUME NEW e \in Snapshots, CatTypeOK, NEW parent, e.kind \notin {"category", "product"},
         Compatible(Scope(e), projected[parent].store) => Right(e)
  PROVE  Answered(e, LeafVerdict(e, parent))
<1>1. CASE RevisionGate(e) # "proceed"
  BY <1>1, GateAnswers DEF LeafVerdict
<1>2. CASE RevisionGate(e) = "proceed"
  BY <1>2, GateParts DEF LeafVerdict, Answered
<1>3. QED BY <1>1, <1>2

LEMMA VerdictAnswers ==
  ASSUME NEW e \in Snapshots, CatTypeOK
  PROVE  Answered(e, Verdict(e))
<1>1. e.rev \in Nat /\ projected[Key(e)].rev \in Nat /\ e.kind \in SnapshotKinds
  BY SnapshotFacts DEF CatTypeOK
<1>2. CASE e.kind = "category"
  <2>1. Verdict(e) = CategoryVerdict(e)
    BY <1>2 DEF Verdict
  <2>2. CASE RevisionGate(e) # "proceed"
    BY <2>1, <2>2, GateAnswers DEF CategoryVerdict
  <2>3. CASE RevisionGate(e) = "proceed"
    BY <1>2, <2>1, <2>3, GateParts DEF CategoryVerdict, Answered, Right
  <2>4. QED BY <2>2, <2>3
<1>3. CASE e.kind = "product"
  <2>1. Verdict(e) = ProductVerdict(e)
    BY <1>3 DEF Verdict
  <2>2. CASE RevisionGate(e) = "same"
    BY <1>1, <2>1, <2>2, GateParts, StructureAnswers DEF ProductVerdict, Answered
  <2>3. CASE RevisionGate(e) \notin {"same", "proceed"}
    BY <2>1, <2>3, GateAnswers DEF ProductVerdict
  <2>4. CASE RevisionGate(e) = "proceed"
    BY <1>3, <2>1, <2>4, GateParts, StructureAnswers DEF ProductVerdict, Answered, Right
  <2>5. QED BY <2>2, <2>3, <2>4
<1>4. CASE e.kind = "variant"
  <2>1. Verdict(e) = VariantVerdict(e)
    BY <1>4 DEF Verdict
  <2>2. CASE RevisionGate(e) # "proceed"
    BY <2>1, <2>2, GateAnswers DEF VariantVerdict
  <2>3. CASE RevisionGate(e) = "proceed"
    BY <1>4, <2>1, <2>3, GateParts DEF VariantVerdict, Answered, Right
  <2>4. QED BY <2>2, <2>3
<1>5. CASE e.kind = "tag"
  <2>1. Verdict(e) = TagVerdict(e)
    BY <1>5 DEF Verdict
  <2>2. CASE RevisionGate(e) # "proceed"
    BY <2>1, <2>2, GateAnswers DEF TagVerdict
  <2>3. CASE RevisionGate(e) = "proceed"
    BY <1>5, <2>1, <2>3, GateParts DEF TagVerdict, Answered, Right
  <2>4. QED BY <2>2, <2>3
<1>6. CASE e.kind = "type"
  <2>1. Verdict(e) = TypeVerdict(e)
    BY <1>6 DEF Verdict
  <2>2. CASE RevisionGate(e) # "proceed"
    BY <2>1, <2>2, GateAnswers DEF TypeVerdict
  <2>3. CASE RevisionGate(e) = "proceed"
    BY <1>6, <2>1, <2>3, GateParts DEF TypeVerdict, Answered, Right
  <2>4. QED BY <2>2, <2>3
<1>7. CASE e.kind \in {"policy", "stock"}
  <2>1. Verdict(e) = LeafVerdict(e, <<"product", e.owner>>)
    BY <1>7 DEF Verdict, PolicyVerdict, StockVerdict
  <2>2. QED BY <1>7, <2>1, LeafAnswers DEF Right
<1>8. CASE e.kind = "variantStock"
  <2>1. Verdict(e) = LeafVerdict(e, <<"variant", e.owner>>)
    BY <1>8 DEF Verdict, VariantStockVerdict
  <2>2. QED BY <1>8, <2>1, LeafAnswers DEF Right
<1>9. CASE e.kind = "options"
  <2>1. Verdict(e) = OptionsVerdict(e)
    BY <1>9 DEF Verdict
  <2>2. QED BY <1>1, <1>9, <2>1 DEF OptionsVerdict, Answered, Right
<1>10. QED
  BY <1>1, <1>2, <1>3, <1>4, <1>5, <1>6, <1>7, <1>8, <1>9 DEF SnapshotKinds

-----------------------------------------------------------------------------
(* What a step writes.                                                     *)

LEMMA UpsertParts ==
  ASSUME NEW e \in Snapshots, CatTypeOK, projected' = Upserted(e)
  PROVE  LET row == projected'[Key(e)] IN
         /\ DOMAIN projected' = EntityKeys
         /\ row.rev = e.rev /\ row.store = Scope(e) /\ row.top = e.top /\ row.refs = e.refs
         /\ row.tags = e.tags /\ row.owner = e.owner /\ row.body = e.body /\ row.by = e.id
         /\ \A k \in EntityKeys : k # Key(e) => projected'[k] = projected[k]
<1>1. PICK n : n = [rev |-> e.rev, store |-> Scope(e), top |-> e.top, refs |-> e.refs,
                    tags |-> e.tags, owner |-> e.owner, body |-> e.body, by |-> e.id]
  OBVIOUS
<1>2. projected' = [projected EXCEPT ![Key(e)] = n]
  BY <1>1 DEF Upserted
<1>3. Key(e) \in EntityKeys /\ DOMAIN projected = EntityKeys
  BY SnapshotFacts DEF CatTypeOK
<1>4. projected'[Key(e)] = n
  BY <1>2, <1>3
<1>5. QED BY <1>1, <1>2, <1>3, <1>4

-----------------------------------------------------------------------------
(* Graphs of categories.                                                   *)

Graphs == SUBSET (Categories \X Categories)

\* n leads to s by one, two or three edges.
Leads(E, n, s) ==
    \/ <<n, s>> \in E
    \/ \E a \in Categories : <<n, a>> \in E /\ <<a, s>> \in E
    \/ \E a, b \in Categories : <<n, a>> \in E /\ <<a, b>> \in E /\ <<b, s>> \in E

LEMMA BelowLeads ==
  ASSUME NEW E \in Graphs, NEW n, NEW s
  PROVE  s \in Below(E, n) <=> Leads(E, n, s)
<1>1. \A m, c : c \in Children(E, m) <=> <<m, c>> \in E
  <2> SUFFICES ASSUME NEW m, NEW c PROVE c \in Children(E, m) <=> <<m, c>> \in E
    OBVIOUS
  <2>1. ASSUME c \in Children(E, m) PROVE <<m, c>> \in E
    <3>1. PICK x \in E : x[1] = m /\ c = x[2]
      BY <2>1 DEF Children
    <3>2. x \in Categories \X Categories
      BY DEF Graphs
    <3>3. x = <<x[1], x[2]>>
      BY <3>2
    <3>4. QED BY <3>1, <3>3
  <2>2. ASSUME <<m, c>> \in E PROVE c \in Children(E, m)
    <3>1. <<m, c>>[1] = m /\ <<m, c>>[2] = c
      OBVIOUS
    <3>2. QED BY <2>2, <3>1 DEF Children
  <2>3. QED BY <2>1, <2>2
<1>2. \A m, c : <<m, c>> \in E => m \in Categories /\ c \in Categories
  BY DEF Graphs
<1>3. s \in Below(E, n) <=> \/ s \in Children(E, n)
                            \/ \E a \in Children(E, n) : s \in Children(E, a)
                            \/ \E a \in Children(E, n) : \E b \in Children(E, a) : s \in Children(E, b)
  BY DEF Below
<1>4. QED BY <1>1, <1>2, <1>3 DEF Leads

\* In a graph that holds no walk has three steps.
LEMMA NoLongWalk ==
  ASSUME NEW E \in Graphs, GraphHolds(E), NEW a, NEW b, NEW c, NEW d,
         <<a, b>> \in E, <<b, c>> \in E
  PROVE  <<c, d>> \notin E
<1>1. <<a, b>>[2] = b /\ <<b, c>>[1] = b /\ <<b, c>>[2] = c /\ <<c, d>>[1] = c
  OBVIOUS
<1>2. QED BY <1>1 DEF GraphHolds

LEMMA HoldsMeansSound ==
  ASSUME NEW E \in Graphs, GraphHolds(E)
  PROVE  /\ \A c \in Categories : c \notin Below(E, c)
         /\ \A a, b, c, d \in Categories : ~({<<a, b>>, <<b, c>>, <<c, d>>} \subseteq E)
<1>1. ASSUME NEW c \in Categories, c \in Below(E, c) PROVE FALSE
  <2>1. Leads(E, c, c)
    BY <1>1, BelowLeads
  <2>2. CASE <<c, c>> \in E
    BY <2>2, NoLongWalk
  <2>3. ASSUME NEW a \in Categories, <<c, a>> \in E, <<a, c>> \in E PROVE FALSE
    BY <2>3, NoLongWalk
  <2>4. ASSUME NEW a \in Categories, NEW b \in Categories,
               <<c, a>> \in E, <<a, b>> \in E, <<b, c>> \in E
        PROVE  FALSE
    BY <2>4, NoLongWalk
  <2>5. QED BY <2>1, <2>2, <2>3, <2>4 DEF Leads
<1>2. QED BY <1>1, NoLongWalk

\* The graph with other parents for one category.
Reparented(E, c, P) == {x \in E : x[2] # c} \cup {<<p, c>> : p \in P}

LEMMA ReparentedEdges ==
  ASSUME NEW E \in Graphs, NEW c \in Categories, NEW P \in SUBSET Categories
  PROVE  /\ Reparented(E, c, P) \in Graphs
         /\ \A a, b : b # c => (<<a, b>> \in Reparented(E, c, P) <=> <<a, b>> \in E)
<1>1. \A p \in P : <<p, c>> \in Categories \X Categories
  OBVIOUS
<1>2. Reparented(E, c, P) \in Graphs
  BY <1>1 DEF Reparented, Graphs
<1>3. \A a, b : <<a, b>>[2] = b
  OBVIOUS
<1>4. \A a, b : b # c => <<a, b>> \notin {<<p, c>> : p \in P}
  OBVIOUS
<1>5. QED BY <1>2, <1>3, <1>4 DEF Reparented

\* What is neither that category nor below it is where it was.
LEMMA OthersStayBelow ==
  ASSUME NEW E \in Graphs, NEW c \in Categories, NEW P \in SUBSET Categories,
         GraphHolds(E), GraphHolds(Reparented(E, c, P)),
         NEW n, NEW s, s # c, s \notin Below(Reparented(E, c, P), c)
  PROVE  s \in Below(E, n) <=> s \in Below(Reparented(E, c, P), n)
<1>1. PICK F \in Graphs : F = Reparented(E, c, P)
  BY ReparentedEdges
<1>2. \A a, b : b # c => (<<a, b>> \in F <=> <<a, b>> \in E)
  BY <1>1, ReparentedEdges
<1>3. ~Leads(F, c, s)
  BY <1>1, BelowLeads
<1>4. <<c, c>> \notin E /\ <<c, c>> \notin F
  BY <1>1, NoLongWalk
<1>5. ASSUME Leads(E, n, s) PROVE Leads(F, n, s)
  <2>1. CASE <<n, s>> \in E
    BY <1>2, <2>1 DEF Leads
  <2>2. ASSUME NEW a \in Categories, <<n, a>> \in E, <<a, s>> \in E PROVE Leads(F, n, s)
    BY <1>2, <1>3, <2>2 DEF Leads
  <2>3. ASSUME NEW a \in Categories, NEW b \in Categories,
               <<n, a>> \in E, <<a, b>> \in E, <<b, s>> \in E
        PROVE  Leads(F, n, s)
    <3>1. <<b, s>> \in F /\ b # c
      BY <1>2, <1>3, <2>3 DEF Leads
    <3>2. <<a, b>> \in F /\ a # c
      BY <1>2, <1>3, <2>3, <3>1 DEF Leads
    <3>3. QED BY <1>2, <2>3, <3>1, <3>2 DEF Leads
  <2>4. QED BY <1>5, <2>1, <2>2, <2>3 DEF Leads
<1>6. ASSUME Leads(F, n, s) PROVE Leads(E, n, s)
  <2>1. CASE <<n, s>> \in F
    BY <1>2, <2>1 DEF Leads
  <2>2. ASSUME NEW a \in Categories, <<n, a>> \in F, <<a, s>> \in F PROVE Leads(E, n, s)
    BY <1>2, <1>3, <2>2 DEF Leads
  <2>3. ASSUME NEW a \in Categories, NEW b \in Categories,
               <<n, a>> \in F, <<a, b>> \in F, <<b, s>> \in F
        PROVE  Leads(E, n, s)
    <3>1. a # c /\ b # c
      BY <1>3, <2>3 DEF Leads
    <3>2. QED BY <1>2, <2>3, <3>1 DEF Leads
  <2>4. QED BY <1>6, <2>1, <2>2, <2>3 DEF Leads
<1>7. QED BY <1>1, <1>5, <1>6, BelowLeads

\* A product with no category there is filed as before.
LEMMA OthersStayFiled ==
  ASSUME NEW E \in Graphs, NEW c \in Categories, NEW P \in SUBSET Categories,
         GraphHolds(E), GraphHolds(Reparented(E, c, P)),
         NEW top, NEW subs, FiledRightly(E, top, subs),
         ({top} \cup subs) \cap ({c} \cup Below(Reparented(E, c, P), c)) = {}
  PROVE  FiledRightly(Reparented(E, c, P), top, subs)
<1>1. \A x \in Reparented(E, c, P) : x[2] # top
  <2>1. \A p \in P : <<p, c>>[2] = c
    OBVIOUS
  <2>2. QED BY <2>1 DEF Reparented, FiledRightly
<1>2. subs \subseteq Below(Reparented(E, c, P), top)
  BY OthersStayBelow DEF FiledRightly
<1>3. QED BY <1>1, <1>2 DEF FiledRightly

\* A product whose root is at the top is below a category by no root.
LEMMA RootsAreNotBelow ==
  ASSUME NEW E \in Graphs, NEW n, NEW top, \A x \in E : x[2] # top
  PROVE  top \notin Below(E, n)
<1>1. \A a : <<a, top>> \notin E
  <2>1. \A a : <<a, top>>[2] = top
    OBVIOUS
  <2>2. QED BY <2>1
<1>2. QED BY <1>1, BelowLeads DEF Leads

\* The key of a row is a pair.
LEMMA KeysArePairs ==
  ASSUME NEW k \in EntityKeys
  PROVE  k = <<k[1], k[2]>>
<1>1. PICK e \in Snapshots : k \in {Key(e)} \cup Referred(e)
  BY DEF EntityKeys
<1>2. CASE k \in e.tags
  BY <1>2, CatalogAssumption
<1>3. CASE k \notin e.tags
  BY <1>1, <1>3 DEF Key, Referred
<1>4. QED BY <1>2, <1>3

\* Each category is a key of its own.
LEMMA CategoryKeys == \A c : c \in Categories <=> <<"category", c>> \in EntityKeys
<1>1. \A c \in Categories : <<"category", c>> \in EntityKeys
  <2> SUFFICES ASSUME NEW c \in Categories PROVE <<"category", c>> \in EntityKeys
    OBVIOUS
  <2>1. PICK k \in EntityKeys : k[1] = "category" /\ c = k[2]
    BY DEF Categories
  <2>2. k = <<k[1], k[2]>>
    BY KeysArePairs
  <2>3. QED BY <2>1, <2>2
<1>2. \A c : <<"category", c>> \in EntityKeys => c \in Categories
  <2> SUFFICES ASSUME NEW c, <<"category", c>> \in EntityKeys PROVE c \in Categories
    OBVIOUS
  <2>1. <<"category", c>>[1] = "category" /\ <<"category", c>>[2] = c
    OBVIOUS
  <2>2. QED BY <2>1 DEF Categories
<1>3. QED BY <1>1, <1>2

\* The graph after a row is written.
LEMMA EdgesAfter ==
  ASSUME NEW e \in Snapshots, CatTypeOK, projected' = Upserted(e)
  PROVE  /\ e.kind = "category" => /\ e.entity \in Categories /\ e.refs \in SUBSET Categories
                                   /\ Edges' = Proposed(e)
                                   /\ Proposed(e) = Reparented(Edges, e.entity, e.refs)
         /\ e.kind = "category" /\ ~ParentsChanged(e) => Edges' = Edges
         /\ e.kind # "category" => Edges' = Edges
<1>1. \A c \in Categories : <<"category", c>> \in EntityKeys
  BY CategoryKeys
<1>2. \A c : <<"category", c>> \in EntityKeys => c \in Categories
  BY CategoryKeys
<1>3. Key(e) = <<e.kind, e.entity>>
  BY DEF Key
<1>4. CASE e.kind # "category"
  <2>1. \A c \in Categories : projected'[<<"category", c>>] = projected[<<"category", c>>]
    <3>1. \A c \in Categories : <<"category", c>> # Key(e)
      BY <1>3, <1>4
    <3>2. QED BY <1>1, <3>1, UpsertParts
  <2>2. \A x \in Categories \X Categories : x[2] \in Categories
    OBVIOUS
  <2>3. QED BY <1>4, <2>1, <2>2 DEF Edges
<1>5. CASE e.kind = "category"
  <2>1. Key(e) \in EntityKeys /\ Referred(e) \subseteq EntityKeys
    BY SnapshotFacts
  <2>2. e.entity \in Categories
    BY <1>2, <1>3, <1>5, <2>1
  <2>3. \A p \in e.refs : <<"category", p>> \in Referred(e)
    BY DEF Referred
  <2>4. e.refs \in SUBSET Categories
    BY <1>2, <2>1, <2>3
  <2>5. /\ projected'[<<"category", e.entity>>].refs = e.refs
        /\ \A c \in Categories : c # e.entity =>
            projected'[<<"category", c>>] = projected[<<"category", c>>]
    BY <1>1, <1>3, <1>5, UpsertParts
  <2>6. Proposed(e) = Reparented(Edges, e.entity, e.refs)
    BY DEF Proposed, Reparented
  <2>7. ASSUME NEW x \in Categories \X Categories PROVE x \in Edges' <=> x \in Proposed(e)
    <3>1. PICK a \in Categories, b \in Categories : x = <<a, b>> /\ x[1] = a /\ x[2] = b
      OBVIOUS
    <3>2. x \in Edges' <=> a \in projected'[<<"category", b>>].refs
      BY <3>1 DEF Edges
    <3>3. x \in Edges <=> a \in projected[<<"category", b>>].refs
      BY <3>1 DEF Edges
    <3>4. x \in Proposed(e) <=> (x \in Edges /\ b # e.entity) \/ (b = e.entity /\ a \in e.refs)
      BY <3>1 DEF Proposed
    <3>5. QED BY <2>5, <3>2, <3>3, <3>4
  <2>8. Edges \in Graphs /\ Edges' \subseteq Categories \X Categories
    BY DEF Edges, Graphs
  <2>9. Proposed(e) \subseteq Categories \X Categories
    BY <2>2, <2>4, <2>6, <2>8, ReparentedEdges DEF Graphs
  <2>10. Edges' = Proposed(e)
    BY <2>7, <2>8, <2>9
  <2>11. ASSUME ~ParentsChanged(e) PROVE Edges' = Edges
    <3>1. e.refs = projected[<<"category", e.entity>>].refs
      BY <1>3, <1>5, <2>11 DEF ParentsChanged
    <3>2. \A c \in Categories :
            projected'[<<"category", c>>].refs = projected[<<"category", c>>].refs
      BY <2>5, <3>1
    <3>3. \A x \in Categories \X Categories : x[2] \in Categories
      OBVIOUS
    <3>4. QED BY <3>2, <3>3 DEF Edges
  <2>12. QED BY <1>5, <2>2, <2>4, <2>6, <2>10, <2>11
<1>6. QED BY <1>4, <1>5

LEMMA EdgesAreGraph == Edges \in Graphs
  BY DEF Edges, Graphs

-----------------------------------------------------------------------------
(* The progress of events.                                                 *)

\* What a step does to an event it decides nothing about: nothing, a remark
\* on its block, another try, or that its time has come.
Moves(f) ==
    LET p == progress[f.id]
        q == progress'[f.id]
    IN
    \/ q = p
    \/ p.st = "blocked" /\ q.st = "blocked" /\ q.code = p.code
    \/ /\ p.st \in {"retry", "blocked"} /\ p.code \in {"wait", "relation"}
       /\ q.st = "pending" /\ q.code = "" /\ ~q.advanced
    \/ p.st = "retry" /\ q.st = "retry" /\ ~q.advanced

\* An event is as good as before, or is no repair.
Kept(f) ==
    /\ ProgressFits(f)'
    /\ progress'[f.id].st = "processed" <=> progress[f.id].st = "processed"
    /\ Repairable(f) =>
        \/ (Repairable(f) \/ RefusedForScope(f))'
        \/ f.rev <= projected[Key(f)].rev \/ f.kind = "category"
    /\ RefusedForScope(f) => RefusedForScope(f)'

VerdictStays(f) ==
    /\ progress[f.id].st = "processed" => progress'[f.id] = progress[f.id]
    /\ progress[f.id].st = "blocked" =>
        progress'[f.id].st \in {"blocked", "pending"}
        /\ progress'[f.id].code \in {"", progress[f.id].code}

LEMMA ProgressParts ==
  ASSUME NEW p \in [Ids -> ProgressRecords], NEW e \in Snapshots
  PROVE  /\ p[e.id] \in ProgressRecords
         /\ p[e.id].st \in {"missing", "pending", "retry", "blocked", "processed"}
         /\ p[e.id].code \in Codes
  BY SnapshotFacts DEF ProgressRecords

LEMMA MovesAreKept ==
  ASSUME NEW f \in Snapshots, CatTypeOK, ProgressFits(f), Moves(f), snapshots \subseteq snapshots'
  PROVE  Kept(f) /\ VerdictStays(f)
<1>1. f \notin snapshots' => progress[f.id] = Missing
  BY DEF ProgressFits
<1>2. Missing.st = "missing" /\ ~Missing.advanced
  BY DEF Missing
<1>3. CASE progress'[f.id] = progress[f.id]
  BY <1>1, <1>3 DEF Kept, VerdictStays, ProgressFits, Repairable, RefusedForScope
<1>4. CASE progress'[f.id] # progress[f.id]
  <2>1. progress[f.id].st \in {"retry", "blocked"}
    BY <1>4 DEF Moves
  <2>2. f \in snapshots'
    BY <1>1, <1>2, <2>1
  <2>3. QED
    BY <1>4, <2>1, <2>2 DEF Moves, Kept, VerdictStays, ProgressFits, Repairable, RefusedForScope
<1>5. QED BY <1>3, <1>4

\* Projection.
LEMMA AfterParts ==
  ASSUME NEW e \in Snapshots, CatTypeOK, NEW write \in BOOLEAN, Due(e),
         progress' = AfterProjection(e, write)
  PROVE  /\ progress' \in [Ids -> ProgressRecords]
         /\ progress'[e.id].st = "processed" /\ ~progress'[e.id].advanced
         /\ \A f \in Snapshots : f # e => Moves(f)
         /\ VerdictStays(e) /\ e \in snapshots
<1> DEFINE Done == [Missing EXCEPT !.st = "processed"]
           After(id) == IF Event(id) = e THEN Done
                        ELSE IF /\ write /\ e.kind = "category" /\ Names(Event(id), e.entity)
                                /\ Compatible(Event(id).store, Scope(e))
                                /\ progress[Event(id).id].st = "blocked"
                        THEN [progress[id] EXCEPT !.advanced = TRUE]
                        ELSE progress[id]
<1>1. progress' = [id \in Ids |-> After(id)]
  BY DEF AfterProjection
<1>2. Done \in ProgressRecords /\ Done.st = "processed" /\ ~Done.advanced
  BY DEF Missing, ProgressRecords, Codes
<1>3. ASSUME NEW id \in Ids
      PROVE  /\ After(id) \in ProgressRecords
             /\ Event(id) # e =>
                    \/ After(id) = progress[id]
                    \/ /\ progress[id].st = "blocked" /\ After(id).st = "blocked"
                       /\ After(id).code = progress[id].code
  <2>1. PICK p \in ProgressRecords : p = progress[id]
    BY DEF CatTypeOK
  <2>2. PICK q : q = [p EXCEPT !.advanced = TRUE]
    OBVIOUS
  <2>3. q \in ProgressRecords /\ q.st = p.st /\ q.code = p.code
    BY <2>2 DEF ProgressRecords
  <2>4. Event(id).id = id
    BY SnapshotFacts
  <2>5. After(id) \in {Done, q, p} /\ (Event(id) # e => After(id) = p \/ (After(id) = q /\ p.st = "blocked"))
    BY <2>1, <2>2, <2>4
  <2>6. QED BY <1>2, <2>1, <2>3, <2>5
<1>4. progress' \in [Ids -> ProgressRecords]
  BY <1>1, <1>3
<1>5. progress'[e.id] = Done
  BY <1>1, SnapshotFacts
<1>6. ASSUME NEW f \in Snapshots, f # e PROVE Moves(f)
  <2>1. f.id \in Ids /\ Event(f.id) = f
    BY SnapshotFacts
  <2>2. progress'[f.id] = After(f.id)
    BY <1>1, <2>1
  <2> HIDE DEF After
  <2>3. QED BY <1>3, <1>6, <2>1, <2>2 DEF Moves
<1>7. VerdictStays(e) /\ e \in snapshots
  BY DEF Due, VerdictStays
<1>8. QED BY <1>2, <1>4, <1>5, <1>6, <1>7

\* Another try for those that wait or are blocked for a relation.
LEMMA RearmedParts ==
  ASSUME CatTypeOK, NEW S \in SUBSET Snapshots, progress' = Rearmed(S),
         \A f \in S : /\ progress[f.id].st \in {"retry", "blocked"}
                      /\ progress[f.id].code \in {"wait", "relation"}
  PROVE  progress' \in [Ids -> ProgressRecords] /\ \A f \in Snapshots : Moves(f)
<1>1. PICK again : again = [Missing EXCEPT !.st = "pending"]
  OBVIOUS
<1>2. again \in ProgressRecords /\ again.st = "pending" /\ again.code = "" /\ ~again.advanced
  BY <1>1 DEF Missing, ProgressRecords, Codes
<1>3. progress' = [id \in Ids |-> IF Event(id) \in S THEN again ELSE progress[id]]
  BY <1>1 DEF Rearmed
<1>4. progress' \in [Ids -> ProgressRecords]
  BY <1>2, <1>3 DEF CatTypeOK
<1>5. ASSUME NEW f \in Snapshots PROVE Moves(f)
  <2>1. progress'[f.id] = IF f \in S THEN again ELSE progress[f.id]
    BY <1>3, SnapshotFacts
  <2>2. QED BY <1>2, <2>1 DEF Moves
<1>6. QED BY <1>4, <1>5

\* A verdict is recorded.
LEMMA RecordParts ==
  ASSUME CatInv, NEW w \in Projectors, RecordVerdict(w)
  PROVE  /\ progress' \in [Ids -> ProgressRecords]
         /\ \A f \in Snapshots : Kept(f) /\ VerdictStays(f)
<1>1. PICK e \in snapshots :
        e.id = projector[w].e /\ Recordable(e, projector[w].to, projector[w].code)
  BY DEF CatInv, RecordFits, RecordVerdict
<1>2. PICK to \in {"retry", "blocked"} : to = projector[w].to
  BY <1>1 DEF Recordable
<1>3. PICK code \in Codes : code = projector[w].code
  BY <1>1 DEF Recordable
<1>4. PICK n : n = [st |-> to, code |-> code, due |-> FALSE, advanced |-> FALSE]
  OBVIOUS
<1>5. n \in ProgressRecords /\ n.st = to /\ n.code = code /\ ~n.advanced
  BY <1>4 DEF ProgressRecords
<1>6. e \in Snapshots /\ CatTypeOK
  BY <1>1 DEF CatInv, CatTypeOK
<1>7. progress' = IF StillOpen(e) THEN [progress EXCEPT ![e.id] = n] ELSE progress
  <2>1. PICK g \in Snapshots :
          /\ g.id = projector[w].e
          /\ progress' = IF StillOpen(g)
                         THEN [progress EXCEPT ![g.id] =
                                  [st |-> projector[w].to, code |-> projector[w].code,
                                   due |-> FALSE, advanced |-> FALSE]]
                         ELSE progress
    BY DEF RecordVerdict
  <2>2. g = e
    BY <1>1, <1>6, <2>1, CatalogAssumption
  <2>3. QED BY <1>2, <1>3, <1>4, <2>1, <2>2
<1>8. progress' \in [Ids -> ProgressRecords]
  BY <1>5, <1>6, <1>7, SnapshotFacts DEF CatTypeOK
<1>9. snapshots' = snapshots
  BY DEF RecordVerdict
<1>10. ASSUME NEW f \in Snapshots, f # e \/ ~StillOpen(e) PROVE Kept(f) /\ VerdictStays(f)
  <2>1. progress'[f.id] = progress[f.id]
    <3>1. f # e => f.id # e.id
      BY <1>6, CatalogAssumption
    <3>2. QED BY <1>6, <1>7, <1>10, <3>1, SnapshotFacts DEF CatTypeOK
  <2>2. Moves(f)
    BY <2>1 DEF Moves
  <2>3. QED BY <1>6, <1>9, <2>2, MovesAreKept DEF CatInv
<1>11. CASE StillOpen(e)
  <2>1. progress'[e.id] = n
    BY <1>6, <1>7, <1>11, SnapshotFacts DEF CatTypeOK
  <2>2. VerdictStays(e)
    BY <1>11 DEF StillOpen, VerdictStays
  <2>3. ProgressFits(e)'
    BY <1>1, <1>5, <1>9, <2>1 DEF ProgressFits
  <2>4. progress'[e.id].st # "processed" /\ progress[e.id].st # "processed" /\ ~RefusedForScope(e)
    BY <1>2, <1>5, <1>11, <2>1 DEF StillOpen, RefusedForScope
  <2>5. \/ (Repairable(e) \/ RefusedForScope(e))'
        \/ e.rev <= projected[Key(e)].rev \/ e.kind = "category"
    BY <1>1, <1>2, <1>3, <1>5, <2>1 DEF Recordable, Repairable, RefusedForScope
  <2>6. Kept(e)
    BY <2>3, <2>4, <2>5 DEF Kept
  <2>7. QED BY <1>8, <1>10, <2>2, <2>6
<1>12. CASE ~StillOpen(e)
  BY <1>8, <1>10, <1>12
<1>13. QED BY <1>11, <1>12

-----------------------------------------------------------------------------
(* The invariant of the catalog.                                           *)

Excused(k, row) ==
    \E f \in EventsOf(k, row.store) : f.rev > row.rev /\ (Repairable(f) \/ RefusedForScope(f))

\* A row that stays, stays excused if its newer events are kept.
LEMMA ExcusesStay ==
  ASSUME CatTypeOK, NEW k \in EntityKeys, k[1] = "product", NEW row, row = projected[k],
         Excused(k, row), snapshots \subseteq snapshots',
         \A f \in snapshots : Key(f) = k => Kept(f)
  PROVE  Excused(k, row)'
<1>1. PICK f \in EventsOf(k, row.store) :
        f.rev > row.rev /\ (Repairable(f) \/ RefusedForScope(f))
  BY DEF Excused
<1>2. f \in Snapshots /\ f \in snapshots /\ Key(f) = k /\ Compatible(row.store, f.store)
  BY <1>1 DEF EventsOf, CatTypeOK
<1>3. f.kind = "product" /\ f.rev \in Nat /\ row.rev \in Nat
  BY <1>2, SnapshotFacts DEF Key, CatTypeOK
<1>4. (Repairable(f) \/ RefusedForScope(f))'
  BY <1>1, <1>2, <1>3 DEF Kept
<1>5. f \in EventsOf(k, row.store)'
  BY <1>2 DEF EventsOf
<1>6. QED BY <1>1, <1>4, <1>5 DEF Excused

LEMMA RecordsStayFit ==
  ASSUME NEW w \in Projectors, CatTypeOK, RecordFits(w), projector'[w] = projector[w],
         snapshots \subseteq snapshots',
         \A k \in EntityKeys : projected'[k].rev \in Nat /\ projected'[k].rev >= projected[k].rev
  PROVE  RecordFits(w)'
<1> SUFFICES ASSUME projector[w].at = "record"
             PROVE  \E e \in snapshots' :
                e.id = projector[w].e /\ Recordable(e, projector[w].to, projector[w].code)'
  BY DEF RecordFits
<1>1. PICK e \in snapshots :
        e.id = projector[w].e /\ Recordable(e, projector[w].to, projector[w].code)
  BY DEF RecordFits
<1>2. e.rev \in Nat /\ Key(e) \in EntityKeys /\ projected[Key(e)].rev \in Nat
  BY SnapshotFacts DEF CatTypeOK
<1>3. Recordable(e, projector[w].to, projector[w].code)'
  BY <1>1, <1>2 DEF Recordable
<1>4. QED BY <1>1, <1>3

\* Steps that write no row.
LEMMA QuietFits ==
  ASSUME CatInv, CatTypeOK', UNCHANGED projected, snapshots \subseteq snapshots',
         \A f \in Snapshots : Kept(f), \A w \in Projectors : RecordFits(w)'
  PROVE  CatInv'
<1>1. CatTypeOK /\ RowsAreShown /\ \A e \in Snapshots : ProgressFits(e)
  BY DEF CatInv
<1>2. RowsAreShown'
  BY <1>1 DEF RowsAreShown, Shows, Exists, SameContent
<1>3. Edges' = Edges /\ GraphHolds(Edges)'
  <2>1. Edges' = Edges
    BY DEF Edges
  <2>2. GraphHolds(Edges)
    BY DEF CatInv
  <2>3. QED BY <2>1, <2>2 DEF GraphHolds
<1>4. OrphansAreRepairable'
  <2> SUFFICES ASSUME NEW k \in EntityKeys, k[1] = "product", Exists(k)
               PROVE  FiledRightly(Edges, projected[k].top, projected[k].refs) \/ Excused(k, projected[k])'
    BY <1>3 DEF OrphansAreRepairable, Excused, Rows, Exists, FiledRightly
  <2>1. PICK row : row = projected[k]
    OBVIOUS
  <2>2. FiledRightly(Edges, row.top, row.refs) \/ Excused(k, row)
    BY <2>1 DEF CatInv, OrphansAreRepairable, Excused, Rows
  <2>3. Excused(k, row) => Excused(k, row)'
    BY <1>1, <2>1, ExcusesStay DEF CatTypeOK
  <2>4. QED BY <2>1, <2>2, <2>3
<1>5. NoRelationAcrossStores'
  BY DEF CatInv, NoRelationAcrossStores, Exists, Refers
<1>6. ProcessedIsCurrent'
  <2> SUFFICES ASSUME NEW e \in snapshots', progress'[e.id].st = "processed"
               PROVE  \/ projected[Key(e)].rev >= e.rev
                      \/ \E f \in snapshots' : Key(f) = Key(e) /\ f.rev > e.rev
    BY DEF ProcessedIsCurrent
  <2>1. e \in Snapshots /\ progress[e.id].st = "processed"
    BY DEF CatTypeOK, Kept
  <2>2. e \in snapshots
    <3>1. Missing.st = "missing"
      BY DEF Missing
    <3>2. ProgressFits(e)
      BY <1>1, <2>1
    <3>3. QED BY <2>1, <3>1, <3>2 DEF ProgressFits
  <2>3. QED BY <2>1, <2>2 DEF CatInv, ProcessedIsCurrent
<1>7. \A k \in EntityKeys : ~Exists(k)' => projected'[k].store = NoStore
  BY DEF CatInv, Exists
<1>8. \A e \in Snapshots : ProgressFits(e)'
  BY DEF Kept
<1>9. QED BY <1>2, <1>3, <1>4, <1>5, <1>6, <1>7, <1>8 DEF CatInv

\* What is processed without a write is old, or a newer event may take its part.
LEMMA NoopFits ==
  ASSUME CatInv, CatTypeOK', NEW e \in Snapshots, UNCHANGED <<projected, snapshots>>,
         e \in snapshots, progress'[e.id].st = "processed", ~progress'[e.id].advanced,
         e.rev <= projected[Key(e)].rev \/ Superseded(e),
         \A f \in Snapshots : f # e => Kept(f), \A w \in Projectors : RecordFits(w)'
  PROVE  CatInv'
<1>1. CatTypeOK /\ RowsAreShown /\ \A f \in Snapshots : ProgressFits(f)
  BY DEF CatInv
<1>2. RowsAreShown'
  BY <1>1 DEF RowsAreShown, Shows, Exists, SameContent
<1>3. Edges' = Edges /\ GraphHolds(Edges)'
  <2>1. Edges' = Edges
    BY DEF Edges
  <2>2. GraphHolds(Edges)
    BY DEF CatInv
  <2>3. QED BY <2>1, <2>2 DEF GraphHolds
<1>4. e.rev \in Nat /\ projected[Key(e)].rev \in Nat /\ Key(e) \in EntityKeys
  BY <1>1, SnapshotFacts DEF CatTypeOK
<1>5. ASSUME Superseded(e)
      PROVE  \E g \in snapshots : /\ g \in Snapshots /\ g # e /\ Key(g) = Key(e) /\ g.rev > e.rev
                                  /\ Repairable(g)
                                  /\ Compatible(e.store, g.store) \/ Compatible(Scope(e), g.store)
                                  /\ e.kind = "product" => Compatible(Scope(e), g.store)
  BY <1>1, <1>4, <1>5 DEF Superseded, NewerRepairable, EventsOf, CatTypeOK
<1>6. OrphansAreRepairable'
  <2> SUFFICES ASSUME NEW k \in EntityKeys, k[1] = "product", Exists(k)
               PROVE  FiledRightly(Edges, projected[k].top, projected[k].refs) \/ Excused(k, projected[k])'
    BY <1>3 DEF OrphansAreRepairable, Excused, Rows, Exists, FiledRightly
  <2>1. PICK row : row = projected[k]
    OBVIOUS
  <2>2. CASE FiledRightly(Edges, row.top, row.refs)
    BY <2>1, <2>2
  <2>3. ASSUME Excused(k, row) PROVE Excused(k, row)'
    <3>1. PICK f \in snapshots :
            /\ Key(f) = k /\ Compatible(row.store, f.store) /\ f.rev > row.rev
            /\ Repairable(f) \/ RefusedForScope(f)
      BY <2>3 DEF Excused, EventsOf
    <3>2. row.rev \in Nat /\ f.rev \in Nat /\ f \in Snapshots /\ f.kind = "product"
      BY <1>1, <2>1, <3>1, SnapshotFacts DEF CatTypeOK, Key
    <3>3. PICK g \in snapshots :
            /\ g \in Snapshots /\ g # e /\ Key(g) = k /\ Compatible(row.store, g.store)
            /\ g.rev \in Nat /\ g.rev > row.rev
            /\ Repairable(g) \/ RefusedForScope(g)
      <4>1. CASE f # e
        BY <3>1, <3>2, <4>1
      <4>2. CASE f = e
        <5>1. Superseded(e)
          BY <2>1, <3>1, <3>2, <4>2
        <5>2. PICK g \in snapshots :
                /\ g \in Snapshots /\ g # e /\ Key(g) = Key(e) /\ g.rev > e.rev
                /\ Repairable(g) /\ Compatible(Scope(e), g.store)
          BY <1>5, <3>2, <4>2, <5>1
        <5>3. Compatible(row.store, g.store)
          BY <2>1, <3>1, <4>2, <5>2 DEF Compatible, Scope
        <5>4. QED BY <3>1, <3>2, <4>2, <5>2, <5>3, SnapshotFacts
      <4>3. QED BY <4>1, <4>2
    <3>4. g.kind = "product"
      BY <3>3 DEF Key
    <3>5. (Repairable(g) \/ RefusedForScope(g))'
      BY <2>1, <3>2, <3>3, <3>4 DEF Kept
    <3>6. QED BY <3>3, <3>5 DEF Excused, EventsOf
  <2>4. FiledRightly(Edges, row.top, row.refs) \/ Excused(k, row)
    BY <2>1 DEF CatInv, OrphansAreRepairable, Excused, Rows
  <2>5. QED BY <2>1, <2>2, <2>3, <2>4
<1>7. NoRelationAcrossStores'
  BY DEF CatInv, NoRelationAcrossStores, Exists, Refers
<1>8. ProcessedIsCurrent'
  <2> SUFFICES ASSUME NEW f \in snapshots, progress'[f.id].st = "processed"
               PROVE  \/ projected[Key(f)].rev >= f.rev
                      \/ \E g \in snapshots : Key(g) = Key(f) /\ g.rev > f.rev
    BY DEF ProcessedIsCurrent
  <2>1. CASE f = e
    BY <1>4, <1>5, <2>1
  <2>2. CASE f # e
    <3>1. progress[f.id].st = "processed"
      BY <1>1, <2>2 DEF CatTypeOK, Kept
    <3>2. QED BY <3>1 DEF CatInv, ProcessedIsCurrent
  <2>3. QED BY <2>1, <2>2
<1>9. \A k \in EntityKeys : ~Exists(k)' => projected'[k].store = NoStore
  BY DEF CatInv, Exists
<1>10. \A f \in Snapshots : ProgressFits(f)'
  BY DEF Kept, ProgressFits
<1>11. QED BY <1>2, <1>3, <1>6, <1>7, <1>8, <1>9, <1>10 DEF CatInv

\* A row is written.  Rows only rise.
RowsRise ==
    \A k \in EntityKeys :
        /\ projected'[k].rev \in Nat /\ projected'[k].rev >= projected[k].rev
        /\ projected'[k].rev = projected[k].rev => projected'[k] = projected[k]

LEMMA WritesRise ==
  ASSUME CatTypeOK, NEW e \in Snapshots, projected' = Upserted(e),
         e.rev > projected[Key(e)].rev
  PROVE  RowsRise
<1>1. e.rev \in Nat /\ \A k \in EntityKeys : projected[k].rev \in Nat
  BY SnapshotFacts DEF CatTypeOK
<1>2. QED BY <1>1, UpsertParts DEF RowsRise

\* No relation across shops is written.
LEMMA RelationsFit ==
  ASSUME CatInv, NEW e \in Snapshots, projected' = Upserted(e), Right(e)
  PROVE  NoRelationAcrossStores'
<1>1. CatTypeOK /\ NoRelationAcrossStores
  BY DEF CatInv
<1>2. Key(e) \in EntityKeys /\ e.kind \in SnapshotKinds /\ Key(e) = <<e.kind, e.entity>>
      /\ Key(e)[1] = e.kind
  BY SnapshotFacts DEF Key
<1>3. /\ projected'[Key(e)].store = Scope(e) /\ projected'[Key(e)].refs = e.refs
      /\ projected'[Key(e)].top = e.top /\ projected'[Key(e)].tags = e.tags
      /\ projected'[Key(e)].owner = e.owner
      /\ \A k \in EntityKeys : k # Key(e) => projected'[k] = projected[k]
  BY <1>1, UpsertParts
<1> SUFFICES ASSUME NEW k \in EntityKeys, NEW j \in EntityKeys, Exists(k)', Exists(j)',
                    Refers(k, j)'
             PROVE  Compatible(projected'[k].store, projected'[j].store)
  BY DEF NoRelationAcrossStores, Compatible
<1>4. CASE k = j
  BY <1>4 DEF Compatible
<1>5. CASE k # Key(e) /\ j # Key(e)
  BY <1>1, <1>3, <1>5 DEF NoRelationAcrossStores, Exists, Refers
<1>6. CASE k # j /\ j = Key(e)
  <2>1. k = <<k[1], k[2]>> /\ projected'[k] = projected[k]
    BY <1>3, <1>6, KeysArePairs
  <2>2. Compatible(Scope(e), projected[k].store)
    <3>1. CASE e.kind = "category"
      <4>1. k \in Referred(e)
        BY <1>2, <1>3, <1>6, <2>1, <3>1 DEF Refers, Referred
      <4>2. QED BY <3>1, <4>1 DEF Right, RefersAbroad
    <3>2. CASE e.kind = "product"
      <4>1. k \in Referred(e)
        BY <1>2, <1>3, <1>6, <2>1, <3>2 DEF Refers, Referred
      <4>2. QED BY <3>2, <4>1 DEF Right, RefersAbroad
    <3>3. CASE e.kind = "variant"
      <4>1. k \in Referred(e)
        BY <1>2, <1>3, <1>6, <2>1, <3>3 DEF Refers, Referred
      <4>2. QED BY <3>3, <4>1 DEF Right, RefersAbroad
    <3>4. CASE e.kind \in {"policy", "stock"}
      <4>1. k = <<"product", e.owner>>
        BY <1>2, <1>3, <1>6, <2>1, <3>4 DEF Refers
      <4>2. QED BY <3>4, <4>1 DEF Right
    <3>5. CASE e.kind = "variantStock"
      <4>1. k = <<"variant", e.owner>>
        BY <1>2, <1>3, <1>6, <2>1, <3>5 DEF Refers
      <4>2. QED BY <3>5, <4>1 DEF Right
    <3>6. CASE e.kind \in {"tag", "type", "options"}
      BY <1>2, <1>6, <3>6 DEF Refers
    <3>7. QED BY <1>2, <3>1, <3>2, <3>3, <3>4, <3>5, <3>6 DEF SnapshotKinds
  <2>3. QED BY <1>3, <1>6, <2>1, <2>2 DEF Compatible
<1>7. CASE k # j /\ k = Key(e)
  <2>1. projected'[j] = projected[j] /\ Exists(j) /\ Refers(k, j)
    BY <1>3, <1>7 DEF Exists, Refers
  <2>2. CASE Adopting(e)
    <3>1. e.kind \in {"category", "tag", "product", "variant"}
      BY <1>2, <1>7, <2>1 DEF Refers
    <3>2. DependentsCompatible(e)
      BY <2>2, <3>1 DEF Right
    <3>3. Compatible(e.store, projected[j].store)
      BY <1>7, <2>1, <3>2 DEF DependentsCompatible, Dependents
    <3>4. Scope(e) = e.store
      BY <2>2 DEF Adopting, Scope
    <3>5. QED BY <1>3, <1>7, <2>1, <3>3, <3>4
  <2>3. CASE ~Adopting(e)
    <3>1. Scope(e) = projected[k].store
      BY <1>7, <2>3 DEF Adopting, Scope
    <3>2. CASE Exists(k)
      BY <1>1, <1>3, <1>7, <2>1, <3>1, <3>2 DEF NoRelationAcrossStores
    <3>3. CASE ~Exists(k)
      BY <1>3, <1>7, <3>1, <3>3 DEF CatInv, Compatible
    <3>4. QED BY <3>2, <3>3
  <2>4. QED BY <2>2, <2>3
<1>8. QED BY <1>4, <1>5, <1>6, <1>7

\* A product keeps its place, or has an event that may repair it.
LEMMA OrphansFit ==
  ASSUME CatInv, NEW e \in Snapshots, projected' = Upserted(e), Right(e), e \in snapshots,
         UNCHANGED snapshots, \A f \in Snapshots : f # e => Kept(f)
  PROVE  OrphansAreRepairable' /\ GraphHolds(Edges)'
<1>1. CatTypeOK /\ OrphansAreRepairable /\ GraphHolds(Edges)
  BY DEF CatInv
<1>2. Key(e) \in EntityKeys /\ Key(e) = <<e.kind, e.entity>> /\ Key(e)[1] = e.kind
  BY SnapshotFacts DEF Key
<1>3. PICK E \in Graphs : E = Edges
  BY EdgesAreGraph
<1>4. /\ e.kind = "category" => /\ e.entity \in Categories /\ e.refs \in SUBSET Categories
                                /\ Edges' = Proposed(e)
                                /\ Proposed(e) = Reparented(E, e.entity, e.refs)
                                /\ GraphHolds(Proposed(e))
      /\ e.kind # "category" \/ ~ParentsChanged(e) => Edges' = E
  BY <1>1, <1>3, EdgesAfter DEF Right
<1>5. GraphHolds(Edges)'
  <2>1. PICK F \in Graphs : F = Edges' /\ GraphHolds(F)
    BY <1>1, <1>3, <1>4, ReparentedEdges
  <2>2. QED BY <2>1 DEF GraphHolds
<1>6. ASSUME NEW k \in EntityKeys, k[1] = "product", Exists(k)'
      PROVE  \/ FiledRightly(Edges', projected'[k].top, projected'[k].refs)
             \/ Excused(k, projected[k])'
  <2>1. CASE k = Key(e)
    <3>1. e.kind = "product" /\ Edges' = E
      BY <1>2, <1>4, <1>6, <2>1
    <3>2. FiledRightly(Edges, e.top, e.refs)
      BY <3>1 DEF Right
    <3>3. projected'[k].top = e.top /\ projected'[k].refs = e.refs
      BY <1>1, <2>1, UpsertParts
    <3>4. QED BY <1>3, <3>1, <3>2, <3>3
  <2>2. CASE k # Key(e)
    <3>1. PICK row : row = projected[k] /\ row = projected'[k]
      BY <1>1, <2>2, UpsertParts
    <3>2. Exists(k)
      BY <1>6, <3>1 DEF Exists
    <3>3. FiledRightly(E, row.top, row.refs) \/ Excused(k, row)
      BY <1>1, <1>3, <1>6, <3>1, <3>2 DEF OrphansAreRepairable, Excused, Rows
    <3>4. Excused(k, row) => Excused(k, row)'
      <4>1. \A f \in snapshots : Key(f) = k => Kept(f)
        BY <1>1, <2>2 DEF CatTypeOK
      <4>2. QED BY <1>1, <1>6, <3>1, <4>1, ExcusesStay
    <3>5. CASE Edges' = E
      BY <3>1, <3>3, <3>4, <3>5
    <3>6. CASE e.kind = "category" /\ ParentsChanged(e)
      <4>1. ChangeRepairable(e)
        BY <3>6 DEF Right
      <4>2. CASE ({row.top} \cup row.refs) \cap ({e.entity} \cup Below(Proposed(e), e.entity)) # {}
        <5>1. k \in ProductsUnder({e.entity} \cup Below(Proposed(e), e.entity))
          BY <1>6, <3>1, <3>2, <4>2 DEF ProductsUnder, Rows
        <5>2. \/ FiledRightly(Proposed(e), row.top, row.refs)
              \/ NewerRepairable(k, row.rev, row.store)
          BY <3>1, <4>1, <5>1 DEF ChangeRepairable
        <5>3. NewerRepairable(k, row.rev, row.store) => Excused(k, row)
          BY DEF NewerRepairable, Excused
        <5>4. QED BY <1>4, <3>1, <3>4, <3>6, <5>2, <5>3
      <4>3. CASE ({row.top} \cup row.refs) \cap ({e.entity} \cup Below(Proposed(e), e.entity)) = {}
        <5>1. FiledRightly(E, row.top, row.refs) => FiledRightly(Proposed(e), row.top, row.refs)
          BY <1>1, <1>3, <1>4, <3>6, <4>3, OthersStayFiled
        <5>2. QED BY <1>4, <3>1, <3>3, <3>4, <3>6, <5>1
      <4>4. QED BY <4>2, <4>3
    <3>7. QED BY <1>4, <3>5, <3>6
  <2>3. QED BY <2>1, <2>2
<1>7. OrphansAreRepairable'
  BY <1>6 DEF OrphansAreRepairable, Excused, Rows, FiledRightly
<1>8. QED BY <1>5, <1>7

LEMMA WriteFits ==
  ASSUME CatInv, CatTypeOK', NEW e \in Snapshots, projected' = Upserted(e), Right(e),
         e.rev > projected[Key(e)].rev, e \in snapshots, UNCHANGED snapshots,
         progress'[e.id].st = "processed", ~progress'[e.id].advanced,
         \A f \in Snapshots : f # e => Kept(f), \A w \in Projectors : RecordFits(w)'
  PROVE  CatInv'
<1>1. CatTypeOK /\ RowsAreShown /\ \A f \in Snapshots : ProgressFits(f)
  BY DEF CatInv
<1>2. /\ Key(e) \in EntityKeys /\ e.rev \in Nat \ {0}
      /\ \A k \in EntityKeys : projected[k].rev \in Nat
  BY <1>1, SnapshotFacts DEF CatTypeOK
<1>3. PICK row : row = projected'[Key(e)]
  OBVIOUS
<1>4. /\ row.rev = e.rev /\ row.store = Scope(e) /\ row.top = e.top /\ row.refs = e.refs
      /\ row.tags = e.tags /\ row.owner = e.owner /\ row.body = e.body /\ row.by = e.id
      /\ \A k \in EntityKeys : k # Key(e) => projected'[k] = projected[k]
  BY <1>1, <1>3, UpsertParts
<1>5. RowsAreShown'
  <2> SUFFICES ASSUME NEW k \in EntityKeys, Exists(k)' PROVE Shows(projected[k], k)'
    BY DEF RowsAreShown
  <2>1. CASE k = Key(e)
    BY <1>3, <1>4, <2>1 DEF Shows, SameContent
  <2>2. CASE k # Key(e)
    BY <1>1, <1>4, <2>2 DEF RowsAreShown, Shows, SameContent, Exists
  <2>3. QED BY <2>1, <2>2
<1>6. \A k \in EntityKeys : ~Exists(k)' => projected'[k].store = NoStore
  BY <1>2, <1>3, <1>4 DEF CatInv, Exists
<1>7. \A f \in Snapshots : ProgressFits(f)'
  BY DEF Kept, ProgressFits
<1>8. ProcessedIsCurrent'
  <2> SUFFICES ASSUME NEW f \in snapshots, progress'[f.id].st = "processed"
               PROVE  \/ projected'[Key(f)].rev >= f.rev
                      \/ \E g \in snapshots : Key(g) = Key(f) /\ g.rev > f.rev
    BY DEF ProcessedIsCurrent
  <2>1. f \in Snapshots /\ f.rev \in Nat /\ Key(f) \in EntityKeys
    BY <1>1, SnapshotFacts DEF CatTypeOK
  <2>2. CASE f = e
    BY <1>2, <1>3, <1>4, <2>2
  <2>3. CASE f # e
    <3>1. progress[f.id].st = "processed"
      BY <2>1, <2>3 DEF Kept
    <3>2. projected'[Key(f)].rev \in Nat /\ projected'[Key(f)].rev >= projected[Key(f)].rev
      BY <1>1, <2>1, WritesRise DEF RowsRise
    <3>3. \/ projected[Key(f)].rev >= f.rev
          \/ \E g \in snapshots : Key(g) = Key(f) /\ g.rev > f.rev
      BY <3>1 DEF CatInv, ProcessedIsCurrent
    <3>4. QED BY <1>2, <2>1, <3>2, <3>3
  <2>4. QED BY <2>2, <2>3
<1>9. QED BY <1>5, <1>6, <1>7, <1>8, RelationsFit, OrphansFit DEF CatInv

\* One attempt at an event.
LEMMA AttemptFits ==
  ASSUME CatInv, NEW w \in Projectors, NEW e \in Snapshots, Project(w, e)
  PROVE  CatInv' /\ RowsRise /\ \A f \in Snapshots : VerdictStays(f)
<1>1. CatTypeOK /\ (\A f \in Snapshots : ProgressFits(f)) /\ e \in snapshots
      /\ (\A v \in Projectors : RecordFits(v)) /\ UNCHANGED <<snapshots, projectorFaults>>
  BY DEF CatInv, Project, Due
<1>2. PICK v : v = Verdict(e) /\ Answered(e, v)
  BY <1>1, VerdictAnswers
<1>3. \A k \in EntityKeys : projected[k].rev \in Nat
  BY <1>1 DEF CatTypeOK
<1>4. CASE v.to = "processed"
  <2>1. PICK write \in BOOLEAN :
          /\ write = v.write /\ progress' = AfterProjection(e, write)
          /\ projected' = IF write THEN Upserted(e) ELSE projected
          /\ write => Right(e) /\ e.rev > projected[Key(e)].rev
          /\ ~write => e.rev <= projected[Key(e)].rev \/ Superseded(e)
    <3>1. v = Writes \/ v = Noop
      BY <1>2, <1>4, VerdictFields DEF Answered
    <3>2. CASE v = Writes
      <4>1. v.write /\ Right(e) /\ e.rev > projected[Key(e)].rev
        BY <1>2, <3>2, VerdictFields DEF Answered, Writes, Noop, Waits, BlockedAs
      <4>2. progress' = AfterProjection(e, v.write) /\ projected' = Upserted(e)
        BY <1>2, <1>4, <4>1 DEF Project
      <4>3. PICK yes \in BOOLEAN : yes /\ yes = v.write
        BY <3>2 DEF Writes
      <4>4. QED BY <4>1, <4>2, <4>3
    <3>3. CASE v = Noop
      <4>1. ~v.write /\ (e.rev <= projected[Key(e)].rev \/ Superseded(e))
        BY <1>2, <3>3, VerdictFields DEF Answered, Writes, Noop, Waits, BlockedAs
      <4>2. progress' = AfterProjection(e, v.write) /\ projected' = projected
        BY <1>2, <1>4, <4>1 DEF Project
      <4>3. PICK no \in BOOLEAN : ~no /\ no = v.write
        BY <3>3 DEF Noop
      <4>4. QED BY <4>1, <4>2, <4>3
    <3>4. QED BY <3>1, <3>2, <3>3
  <2>2. /\ progress' \in [Ids -> ProgressRecords]
        /\ progress'[e.id].st = "processed" /\ ~progress'[e.id].advanced
        /\ \A f \in Snapshots : f # e => Moves(f)
        /\ VerdictStays(e)
    <3>1. Due(e)
      BY DEF Project
    <3>2. QED BY <1>1, <2>1, <3>1, AfterParts
  <2>3. \A f \in Snapshots : f # e => Kept(f) /\ VerdictStays(f)
    BY <1>1, <2>2, MovesAreKept
  <2>4. RowsRise /\ DOMAIN projected' = EntityKeys
    <3>1. CASE write
      BY <1>1, <2>1, <3>1, WritesRise, UpsertParts
    <3>2. CASE ~write
      BY <1>1, <1>3, <2>1, <3>2 DEF RowsRise, CatTypeOK
    <3>3. QED BY <3>1, <3>2
  <2>5. /\ DOMAIN projector' = Projectors /\ \A y \in Projectors : y # w => projector'[y] = projector[y]
        /\ projector'[w] = projector[w] \/ projector'[w].at = "wake"
    <3>1. PICK n : n.at = "wake" /\ projector' \in {projector, [projector EXCEPT ![w] = n]}
      <4>1. PICK n : n = [AtEase EXCEPT !.at = "wake", !.woken = CategoryDescendants(e.entity)]
        OBVIOUS
      <4>2. n.at = "wake"
        BY <4>1 DEF AtEase
      <4>3. projector' \in {projector, [projector EXCEPT ![w] = n]}
        BY <1>2, <1>4, <4>1 DEF Project
      <4>4. QED BY <4>2, <4>3
    <3>2. QED BY <1>1, <3>1 DEF CatTypeOK
  <2>6. CatTypeOK'
    BY <1>1, <2>2, <2>4, <2>5 DEF CatTypeOK, RowsRise
  <2>7. \A y \in Projectors : RecordFits(y)'
    <3>1. ASSUME NEW y \in Projectors, projector'[y] = projector[y] PROVE RecordFits(y)'
      BY <1>1, <2>4, <3>1, RecordsStayFit DEF RowsRise
    <3>2. projector'[w].at = "wake" => RecordFits(w)'
      BY DEF RecordFits
    <3>3. QED BY <2>5, <3>1, <3>2
  <2>8. CASE write
    <3>1. CatInv'
      BY <1>1, <2>1, <2>2, <2>3, <2>6, <2>7, <2>8, WriteFits
    <3>2. QED BY <2>2, <2>3, <2>4, <3>1
  <2>9. CASE ~write
    <3>1. CatInv'
      BY <1>1, <2>1, <2>2, <2>3, <2>6, <2>7, <2>9, NoopFits
    <3>2. QED BY <2>2, <2>3, <2>4, <3>1
  <2>10. QED BY <2>8, <2>9
<1>5. CASE v.to # "processed"
  <2>1. /\ UNCHANGED <<progress, projected>>
        /\ projector' = [projector EXCEPT ![w] =
                [AtEase EXCEPT !.at = "record", !.e = e.id, !.to = v.to, !.code = v.code]]
    BY <1>2, <1>5 DEF Project
  <2>2. Recordable(e, v.to, v.code)
    <3>1. e.rev \in Nat /\ Key(e) \in EntityKeys
      BY SnapshotFacts
    <3>2. v # Writes /\ v # Noop
      BY <1>5, VerdictFields
    <3>3. \/ v = Waits \/ v = BlockedAs("scope") \/ v = BlockedAs("relation")
          \/ v = BlockedAs("conflict") /\ e.rev = projected[Key(e)].rev
          \/ e.kind = "category" /\ v \in {BlockedAs("graph"), BlockedAs("orphans")}
      BY <1>2, <3>2 DEF Answered
    <3>4. CASE v = Waits
      <4>1. v.to = "retry" /\ v.code = "wait"
        BY <3>4, VerdictFields
      <4>2. QED BY <4>1 DEF Recordable, Codes
    <3>5. CASE v = BlockedAs("scope") \/ v = BlockedAs("relation")
      <4>1. v.to = "blocked" /\ v.code \in {"scope", "relation"}
        BY <3>5, VerdictFields
      <4>2. QED BY <4>1 DEF Recordable, Codes
    <3>6. CASE v = BlockedAs("conflict") /\ e.rev = projected[Key(e)].rev
      <4>1. v.to = "blocked" /\ v.code = "conflict" /\ e.rev <= projected[Key(e)].rev
        BY <1>3, <3>1, <3>6, VerdictFields
      <4>2. QED BY <4>1 DEF Recordable, Codes
    <3>7. CASE e.kind = "category" /\ v \in {BlockedAs("graph"), BlockedAs("orphans")}
      <4>1. v.to = "blocked" /\ v.code \in Doubt
        BY <3>7, VerdictFields DEF Doubt
      <4>2. QED BY <3>7, <4>1 DEF Recordable, Codes
    <3>8. QED BY <3>3, <3>4, <3>5, <3>6, <3>7
  <2>3. PICK n : n = [AtEase EXCEPT !.at = "record", !.e = e.id, !.to = v.to, !.code = v.code]
    OBVIOUS
  <2>4. n.at = "record" /\ n.e = e.id /\ n.to = v.to /\ n.code = v.code
    BY <2>3 DEF AtEase
  <2>5. /\ DOMAIN projector' = Projectors /\ projector'[w] = n
        /\ \A y \in Projectors : y # w => projector'[y] = projector[y]
    BY <1>1, <2>1, <2>3 DEF CatTypeOK
  <2>6. RowsRise
    BY <1>3, <2>1 DEF RowsRise
  <2>7. CatTypeOK'
    BY <1>1, <2>1, <2>4, <2>5 DEF CatTypeOK
  <2>8. \A f \in Snapshots : Kept(f) /\ VerdictStays(f)
    <3>1. \A f \in Snapshots : Moves(f)
      BY <2>1 DEF Moves
    <3>2. QED BY <1>1, <3>1, MovesAreKept
  <2>9. RecordFits(w)'
    <3>1. Recordable(e, v.to, v.code)'
      BY <2>1, <2>2 DEF Recordable
    <3>2. QED BY <1>1, <2>4, <2>5, <3>1 DEF RecordFits
  <2>10. \A y \in Projectors : RecordFits(y)'
    <3>1. ASSUME NEW y \in Projectors, y # w PROVE RecordFits(y)'
      BY <1>1, <2>5, <2>6, <3>1, RecordsStayFit DEF RowsRise
    <3>2. QED BY <2>9, <3>1
  <2>11. QED BY <1>1, <2>1, <2>6, <2>7, <2>8, <2>10, QuietFits
<1>6. QED BY <1>4, <1>5

\* Every step that writes no row and leaves the workers' verdicts alone.
LEMMA QuietStep ==
  ASSUME CatInv, UNCHANGED projected, snapshots \subseteq snapshots', snapshots' \subseteq Snapshots,
         progress' \in [Ids -> ProgressRecords], \A f \in Snapshots : Kept(f) /\ VerdictStays(f),
         DOMAIN projector' = Projectors,
         \A w \in Projectors : projector'[w] \in {projector[w], AtEase},
         projectorFaults' \in 0 .. MaxProjectorFaults
  PROVE  CatInv' /\ RowsRise /\ \A f \in Snapshots : VerdictStays(f)
<1>1. CatTypeOK /\ \A w \in Projectors : RecordFits(w)
  BY DEF CatInv
<1>2. AtEase.at = "idle"
  BY DEF AtEase
<1>3. CatTypeOK' /\ RowsRise
  BY <1>1, <1>2 DEF CatTypeOK, RowsRise
<1>4. ASSUME NEW w \in Projectors PROVE RecordFits(w)'
  <2>1. CASE projector'[w] = projector[w]
    BY <1>1, <1>3, <2>1, RecordsStayFit DEF RowsRise
  <2>2. CASE projector'[w] = AtEase
    BY <1>2, <2>2 DEF RecordFits
  <2>3. QED BY <2>1, <2>2
<1>5. QED BY <1>3, <1>4, QuietFits

LEMMA CatalogStepFits ==
  ASSUME CatInv, [CatalogNext]_catalogVars
  PROVE  CatInv' /\ RowsRise /\ \A f \in Snapshots : VerdictStays(f)
<1>1. CatTypeOK /\ \A f \in Snapshots : ProgressFits(f)
  BY DEF CatInv
<1>2. progress \in [Ids -> ProgressRecords] /\ DOMAIN projector = Projectors
      /\ snapshots \subseteq Snapshots /\ projectorFaults \in 0 .. MaxProjectorFaults
  BY <1>1 DEF CatTypeOK
<1>3. ASSUME snapshots \subseteq snapshots', \A f \in Snapshots : Moves(f)
      PROVE  \A f \in Snapshots : Kept(f) /\ VerdictStays(f)
  BY <1>1, <1>3, MovesAreKept
<1>4. ASSUME NEW e \in Snapshots, AcceptSnapshot(e)
      PROVE  CatInv' /\ RowsRise /\ \A f \in Snapshots : VerdictStays(f)
  <2>1. \A f \in Snapshots : Moves(f)
    BY <1>4 DEF Moves, AcceptSnapshot
  <2>2. /\ snapshots \subseteq snapshots' /\ snapshots' \subseteq Snapshots
        /\ UNCHANGED <<progress, projected, projector, projectorFaults>>
    BY <1>2, <1>4 DEF AcceptSnapshot
  <2>3. QED BY <1>2, <1>3, <2>1, <2>2, QuietStep
<1>5. ASSUME NEW e \in Snapshots, SnapshotComesDue(e)
      PROVE  CatInv' /\ RowsRise /\ \A f \in Snapshots : VerdictStays(f)
  <2>1. PICK p \in ProgressRecords : p = progress[e.id] /\ p.st = "retry"
    BY <1>2, <1>5, SnapshotFacts DEF SnapshotComesDue
  <2>2. ~p.advanced
    BY <1>1, <2>1 DEF ProgressFits
  <2>3. PICK q : q = [p EXCEPT !.due = TRUE]
    OBVIOUS
  <2>4. q \in ProgressRecords /\ q.st = "retry" /\ ~q.advanced
    BY <2>1, <2>2, <2>3 DEF ProgressRecords
  <2>5. progress' = [progress EXCEPT ![e.id] = q] /\ UNCHANGED <<snapshots, projected, projector, projectorFaults>>
    BY <1>5, <2>1, <2>3 DEF SnapshotComesDue
  <2>6. progress' \in [Ids -> ProgressRecords]
    BY <1>2, <2>4, <2>5
  <2>7. \A f \in Snapshots : Moves(f)
    <3>1. \A f \in Snapshots : f.id \in Ids /\ progress'[f.id] = IF f.id = e.id THEN q ELSE progress[f.id]
      BY <1>2, <2>5, SnapshotFacts
    <3>2. QED BY <2>1, <2>4, <3>1 DEF Moves
  <2>8. QED BY <1>2, <1>3, <2>5, <2>6, <2>7, QuietStep
<1>6. ASSUME NEW w \in Projectors, NEW e \in Snapshots, Project(w, e)
      PROVE  CatInv' /\ RowsRise /\ \A f \in Snapshots : VerdictStays(f)
  BY <1>6, AttemptFits
<1>7. ASSUME NEW w \in Projectors, RecordVerdict(w)
      PROVE  CatInv' /\ RowsRise /\ \A f \in Snapshots : VerdictStays(f)
  <2>1. projector' = [projector EXCEPT ![w] = AtEase] /\ UNCHANGED <<snapshots, projected, projectorFaults>>
    BY <1>7 DEF RecordVerdict
  <2>2. DOMAIN projector' = Projectors /\ \A y \in Projectors : projector'[y] \in {projector[y], AtEase}
    BY <1>2, <2>1
  <2>3. QED BY <1>2, <1>7, <2>1, <2>2, RecordParts, QuietStep
<1>8. ASSUME NEW w \in Projectors, WakeProducts(w)
      PROVE  CatInv' /\ RowsRise /\ \A f \in Snapshots : VerdictStays(f)
  <2>1. PICK S : /\ progress' = Rearmed(S)
                 /\ S = {e \in snapshots :
                      /\ progress[e.id].st \in {"retry", "blocked"}
                      /\ progress[e.id].code \in {"wait", "relation"}
                      /\ \E c \in projector[w].woken :
                            Names(e, c) /\ Compatible(e.store, projected[<<"category", c>>].store)}
    BY <1>8 DEF WakeProducts
  <2>2. projector' = [projector EXCEPT ![w] = AtEase] /\ UNCHANGED <<snapshots, projected, projectorFaults>>
    BY <1>8 DEF WakeProducts
  <2>3. progress' \in [Ids -> ProgressRecords] /\ \A f \in Snapshots : Moves(f)
    <3>1. /\ S \in SUBSET Snapshots
          /\ \A f \in S : /\ progress[f.id].st \in {"retry", "blocked"}
                           /\ progress[f.id].code \in {"wait", "relation"}
      BY <1>2, <2>1
    <3>2. progress' = Rearmed(S)
      BY <2>1
    <3>3. QED BY <1>1, <3>1, <3>2, RearmedParts
  <2>4. DOMAIN projector' = Projectors /\ \A y \in Projectors : projector'[y] \in {projector[y], AtEase}
    BY <1>2, <2>2
  <2>5. QED BY <1>2, <1>3, <2>2, <2>3, <2>4, QuietStep
<1>9. ASSUME RearmBlockedProducts
      PROVE  CatInv' /\ RowsRise /\ \A f \in Snapshots : VerdictStays(f)
  <2>1. /\ progress' = Rearmed({e \in Snapshots : Rearmable(e)})
        /\ UNCHANGED <<snapshots, projected, projector, projectorFaults>>
    BY <1>9 DEF RearmBlockedProducts
  <2>2. \A f \in {e \in Snapshots : Rearmable(e)} :
            progress[f.id].st \in {"retry", "blocked"} /\ progress[f.id].code \in {"wait", "relation"}
    BY DEF Rearmable
  <2>3. progress' \in [Ids -> ProgressRecords] /\ \A f \in Snapshots : Moves(f)
    BY <1>1, <2>1, <2>2, RearmedParts
  <2>4. QED BY <1>2, <1>3, <2>1, <2>3, QuietStep
<1>10. ASSUME NEW w \in Projectors, ProjectorStops(w)
       PROVE  CatInv' /\ RowsRise /\ \A f \in Snapshots : VerdictStays(f)
  <2>1. /\ projector' = [projector EXCEPT ![w] = AtEase] /\ UNCHANGED <<snapshots, progress, projected>>
        /\ projectorFaults' \in 0 .. MaxProjectorFaults
    BY <1>2, <1>10, CatalogAssumption DEF ProjectorStops
  <2>2. \A f \in Snapshots : Moves(f)
    BY <2>1 DEF Moves
  <2>3. DOMAIN projector' = Projectors /\ \A y \in Projectors : projector'[y] \in {projector[y], AtEase}
    BY <1>2, <2>1
  <2>4. QED BY <1>2, <1>3, <2>1, <2>2, <2>3, QuietStep
<1>11. ASSUME NEW w \in Projectors, NEW e \in Snapshots, ProjectFails(w, e)
       PROVE  CatInv' /\ RowsRise /\ \A f \in Snapshots : VerdictStays(f)
  <2>1. /\ projector' = [projector EXCEPT ![w] =
                [AtEase EXCEPT !.at = "record", !.e = e.id, !.to = "retry", !.code = "error"]]
        /\ UNCHANGED <<snapshots, progress, projected>>
        /\ projectorFaults' \in 0 .. MaxProjectorFaults /\ e \in snapshots
    BY <1>2, <1>11, CatalogAssumption DEF ProjectFails, Due
  <2>2. PICK n : n = [AtEase EXCEPT !.at = "record", !.e = e.id, !.to = "retry", !.code = "error"]
    OBVIOUS
  <2>3. n.at = "record" /\ n.e = e.id /\ n.to = "retry" /\ n.code = "error"
    BY <2>2 DEF AtEase
  <2>4. /\ DOMAIN projector' = Projectors /\ projector'[w] = n
        /\ \A y \in Projectors : y # w => projector'[y] = projector[y]
    BY <1>2, <2>1, <2>2
  <2>5. RowsRise /\ CatTypeOK'
    BY <1>1, <2>1, <2>3, <2>4 DEF CatTypeOK, RowsRise
  <2>6. \A f \in Snapshots : Moves(f)
    BY <2>1 DEF Moves
  <2>7. RecordFits(w)'
    BY <2>1, <2>3, <2>4 DEF RecordFits, Recordable, Codes
  <2>8. \A y \in Projectors : RecordFits(y)'
    <3>1. ASSUME NEW y \in Projectors, y # w PROVE RecordFits(y)'
      BY <1>1, <2>1, <2>4, <2>5, <3>1, RecordsStayFit DEF RowsRise, CatInv
    <3>2. QED BY <2>7, <3>1
  <2>9. QED BY <1>3, <2>1, <2>5, <2>6, <2>8, QuietFits
<1>12. CASE UNCHANGED catalogVars
  <2>1. UNCHANGED <<snapshots, progress, projected, projector, projectorFaults>>
    BY <1>12 DEF catalogVars
  <2>2. \A f \in Snapshots : Moves(f)
    BY <2>1 DEF Moves
  <2>3. QED BY <1>2, <1>3, <2>1, <2>2, QuietStep
<1>13. QED
  BY <1>4, <1>5, <1>6, <1>7, <1>8, <1>9, <1>10, <1>11, <1>12 DEF CatalogNext, ProjectorStep

-----------------------------------------------------------------------------
(* What Commerce is asked to look at.                                      *)

\* The categories that decide for products filed so.
Deciding(E, filed) == filed \cup {c \in Categories : Below(E, c) \cap filed # {}}

\* They stay when none of a product's categories is reparented or below that.
LEMMA DecidingStay ==
  ASSUME NEW E \in Graphs, NEW c \in Categories, NEW P \in SUBSET Categories,
         GraphHolds(E), GraphHolds(Reparented(E, c, P)), NEW filed,
         filed \cap ({c} \cup Below(Reparented(E, c, P), c)) = {}
  PROVE  /\ Deciding(Reparented(E, c, P), filed) = Deciding(E, filed)
         /\ c \notin Deciding(E, filed)
<1>1. PICK F : F = Reparented(E, c, P)
  OBVIOUS
<1>2. \A n : \A s \in filed : s \in Below(E, n) <=> s \in Below(F, n)
  BY <1>1, OthersStayBelow
<1>3. Deciding(F, filed) = Deciding(E, filed)
  BY <1>2 DEF Deciding
<1>4. c \notin Deciding(F, filed)
  BY <1>1 DEF Deciding
<1>5. QED BY <1>1, <1>3, <1>4

\* A product is filed under categories that have a row's place.
LEMMA FiledUnderCategories ==
  ASSUME CatInv, NEW k \in Rows("product")
  PROVE  projected[k].top \in Categories /\ projected[k].refs \subseteq Categories
<1>1. k \in EntityKeys /\ k[1] = "product" /\ Exists(k)
  BY DEF Rows
<1>2. PICK e \in snapshots : Key(e) = k /\ SameContent(e, projected[k])
  BY <1>1 DEF CatInv, RowsAreShown, Shows
<1>3. e \in Snapshots /\ e.kind = "product"
  BY <1>1, <1>2 DEF CatInv, CatTypeOK, Key
<1>4. \A c \in {e.top} \cup e.refs : <<"category", c>> \in Referred(e)
  BY <1>3 DEF Referred
<1>5. {e.top} \cup e.refs \subseteq Categories
  BY <1>3, <1>4, SnapshotFacts, CategoryKeys
<1>6. QED BY <1>2, <1>5 DEF SameContent

\* A write asks for each product of its shop that it may take off or put on.
LEMMA WritesAsk ==
  ASSUME CatInv, NEW e \in Snapshots, projected' = Upserted(e), Right(e),
         NEW k \in Rows("product"), FiledRightly(Edges, projected[k].top, projected[k].refs),
         e.store = projected[k].store, k \notin Asks(e)
  PROVE  AllowsOnline(k)' <=> AllowsOnline(k)
<1>1. CatTypeOK /\ GraphHolds(Edges) /\ k \in EntityKeys /\ k[1] = "product" /\ Exists(k)
  BY DEF CatInv, Rows
<1>2. PICK row : row = projected[k]
  OBVIOUS
<1>3. PICK filed : filed = {row.top} \cup row.refs
  OBVIOUS
<1>4. PICK E \in Graphs : E = Edges
  BY EdgesAreGraph
<1>5. PICK F : F = Edges'
  OBVIOUS
<1>6. Key(e) = <<e.kind, e.entity>> /\ Key(e)[1] = e.kind /\ Key(e)[2] = e.entity
  BY DEF Key
<1>7. /\ projected'[Key(e)].top = e.top /\ projected'[Key(e)].refs = e.refs
      /\ projected'[Key(e)].body = e.body
      /\ \A j \in EntityKeys : j # Key(e) => projected'[j] = projected[j]
  BY <1>1, UpsertParts
<1>8. projected'[k].top = row.top /\ projected'[k].refs = row.refs
  <2>1. CASE k # Key(e)
    BY <1>1, <1>2, <1>7, <2>1
  <2>2. CASE k = Key(e)
    <3>1. e.kind = "product" /\ row.rev # 0
      BY <1>1, <1>2, <1>6, <2>2 DEF Exists
    <3>2. row.top = e.top /\ row.refs = e.refs
      BY <1>2, <2>2, <3>1 DEF Asks
    <3>3. QED BY <1>7, <2>2, <3>2
  <2>3. QED BY <2>1, <2>2
<1>9. filed \subseteq Categories /\ Deciding(E, filed) \subseteq Categories
  BY <1>2, <1>3, FiledUnderCategories DEF Deciding
<1>10. AllowsOnline(k) <=> \A c \in Deciding(E, filed) : projected[<<"category", c>>].body = "online"
  BY <1>2, <1>3, <1>4 DEF AllowsOnline, Above, Deciding
<1>11. AllowsOnline(k)' <=> \A c \in Deciding(F, filed) : projected'[<<"category", c>>].body = "online"
  BY <1>3, <1>5, <1>8 DEF AllowsOnline, Above, Deciding
<1>12. SUFFICES /\ Deciding(F, filed) = Deciding(E, filed)
                /\ \A c \in Deciding(E, filed) :
                      projected'[<<"category", c>>].body = projected[<<"category", c>>].body
  BY <1>10, <1>11
<1>13. \A c \in Categories : <<"category", c>> \in EntityKeys /\ <<"category", c>>[1] = "category"
  BY CategoryKeys
<1>14. CASE e.kind # "category"
  <2>1. F = E
    BY <1>1, <1>4, <1>5, <1>14, EdgesAfter
  <2>2. QED BY <1>6, <1>7, <1>9, <1>13, <1>14, <2>1
<1>15. CASE e.kind = "category" /\ projected[Key(e)].body = e.body /\ ~ParentsChanged(e)
  <2>1. F = E
    BY <1>1, <1>4, <1>5, <1>15, EdgesAfter
  <2>2. \A c \in Categories :
            projected'[<<"category", c>>].body = projected[<<"category", c>>].body
    BY <1>7, <1>13, <1>15
  <2>3. QED BY <1>9, <2>1, <2>2
<1>16. CASE e.kind = "category" /\ (projected[Key(e)].body # e.body \/ ParentsChanged(e))
  <2>1. k \notin Affected(e)
    BY <1>16 DEF Asks
  <2>2. /\ e.entity \in Categories /\ e.refs \in SUBSET Categories
        /\ F = Reparented(E, e.entity, e.refs) /\ F = Proposed(e) /\ GraphHolds(F)
    BY <1>1, <1>4, <1>5, <1>16, EdgesAfter DEF Right
  <2>3. row.top # e.entity /\ row.refs \cap ({e.entity} \cup Below(F, e.entity)) = {}
    BY <1>2, <2>1, <2>2 DEF Affected
  <2>4. F \in Graphs
    BY <2>2, ReparentedEdges
  <2>5. \A x \in F : x[2] # row.top
    <3>1. \A x \in E : x[2] # row.top
      BY <1>2, <1>4 DEF FiledRightly
    <3>2. \A p \in e.refs : <<p, e.entity>>[2] # row.top
      BY <2>3
    <3>3. QED BY <2>2, <3>1, <3>2 DEF Reparented
  <2>6. row.top \notin Below(F, e.entity)
    BY <2>4, <2>5, RootsAreNotBelow
  <2>7. filed \cap ({e.entity} \cup Below(F, e.entity)) = {}
    BY <1>3, <2>3, <2>6
  <2>8. Deciding(F, filed) = Deciding(E, filed) /\ e.entity \notin Deciding(E, filed)
    <3>1. GraphHolds(E) /\ GraphHolds(Reparented(E, e.entity, e.refs))
      BY <1>1, <1>4, <2>2
    <3>2. filed \cap ({e.entity} \cup Below(Reparented(E, e.entity, e.refs), e.entity)) = {}
      BY <2>2, <2>7
    <3>3. /\ Deciding(Reparented(E, e.entity, e.refs), filed) = Deciding(E, filed)
          /\ e.entity \notin Deciding(E, filed)
      <4>1. e.entity \in Categories /\ e.refs \in SUBSET Categories
        BY <2>2
      <4>2. QED BY <3>1, <3>2, <4>1, DecidingStay
    <3>4. QED BY <2>2, <3>3
  <2>9. \A c \in Categories : c # e.entity =>
            projected'[<<"category", c>>] = projected[<<"category", c>>]
    BY <1>6, <1>7, <1>13
  <2>10. QED BY <1>9, <2>8, <2>9
<1>17. QED BY <1>14, <1>15, <1>16

\* Only an attempt that is right writes a row, and it asks with the same commit.
LEMMA OnlyAttemptsWrite ==
  ASSUME CatInv, [CatalogNext]_catalogVars, projected' # projected
  PROVE  \E e \in snapshots :
            /\ e \in Snapshots /\ projected' = Upserted(e) /\ Right(e) /\ reasked' = Asks(e)
            /\ progress[e.id].st # "processed" /\ progress'[e.id].st = "processed"
<1>1. CatTypeOK
  BY DEF CatInv
<1>2. PICK w \in Projectors, e \in Snapshots : Project(w, e)
  BY DEF CatalogNext, ProjectorStep, AcceptSnapshot, SnapshotComesDue, RecordVerdict,
         WakeProducts, ProjectorStops, ProjectFails, RearmBlockedProducts, catalogVars
<1>3. PICK v : v = Verdict(e) /\ Answered(e, v)
  BY <1>1, VerdictAnswers
<1>4. v.write
  BY <1>2, <1>3 DEF Project
<1>5. v = Writes /\ Right(e)
  BY <1>3, <1>4, VerdictFields DEF Answered
<1>6. PICK write \in BOOLEAN : write = v.write /\ write
  BY <1>5 DEF Writes
<1>7. /\ progress' = AfterProjection(e, write) /\ projected' = Upserted(e) /\ reasked' = Asks(e)
  BY <1>2, <1>3, <1>5, <1>6, VerdictFields DEF Project
<1>8. Due(e)
  BY <1>2 DEF Project
<1>9. progress'[e.id].st = "processed" /\ e \in snapshots
  BY <1>1, <1>7, <1>8, AfterParts
<1>10. progress[e.id].st # "processed"
  BY <1>8 DEF Due
<1>11. QED BY <1>5, <1>7, <1>9, <1>10

LEMMA StepsAsk ==
  ASSUME CatInv, [CatalogNext]_catalogVars, NEW k \in Rows("product"),
         FiledRightly(Edges, projected[k].top, projected[k].refs),
         ~(AllowsOnline(k)' <=> AllowsOnline(k))
  PROVE  \/ k \in reasked'
         \/ \E e \in snapshots :
              /\ progress[e.id].st # "processed" /\ progress'[e.id].st = "processed"
              /\ e.store # projected[k].store
<1>1. projected' # projected
  BY DEF AllowsOnline, Above, Edges
<1>2. PICK e \in snapshots :
        /\ e \in Snapshots /\ projected' = Upserted(e) /\ Right(e) /\ reasked' = Asks(e)
        /\ progress[e.id].st # "processed" /\ progress'[e.id].st = "processed"
  BY <1>1, OnlyAttemptsWrite
<1>3. CASE e.store # projected[k].store
  BY <1>2, <1>3
<1>4. CASE e.store = projected[k].store
  BY <1>2, <1>4, WritesAsk
<1>5. QED BY <1>3, <1>4

-----------------------------------------------------------------------------
LEMMA CatInvInit == CatalogInit => CatInv
<1> SUFFICES ASSUME CatalogInit PROVE CatInv
  OBVIOUS
<1>1. /\ snapshots \subseteq Snapshots /\ projectorFaults \in 0 .. MaxProjectorFaults
      /\ progress = [id \in Ids |-> Missing] /\ projected = [k \in EntityKeys |-> NoRow]
      /\ projector = [w \in Projectors |-> AtEase]
  BY DEF CatalogInit
<1>2. /\ Missing \in ProgressRecords /\ Missing.st = "missing" /\ ~Missing.advanced
      /\ AtEase.at = "idle" /\ NoRow.rev = 0 /\ NoRow.store = NoStore /\ NoRow.refs = {}
  BY DEF Missing, ProgressRecords, Codes, AtEase, NoRow
<1>3. \A e \in Snapshots : progress[e.id] = Missing
  BY <1>1, SnapshotFacts
<1>4. \A k \in EntityKeys : projected[k] = NoRow /\ ~Exists(k)
  BY <1>1, <1>2 DEF Exists
<1>5. CatTypeOK
  BY <1>1, <1>2, <1>4 DEF CatTypeOK
<1>6. RowsAreShown /\ NoRelationAcrossStores /\ OrphansAreRepairable
  BY <1>4 DEF RowsAreShown, NoRelationAcrossStores, OrphansAreRepairable, Rows
<1>7. ProcessedIsCurrent /\ \A e \in Snapshots : ProgressFits(e)
  BY <1>1, <1>2, <1>3 DEF ProcessedIsCurrent, ProgressFits
<1>8. \A w \in Projectors : RecordFits(w)
  BY <1>1, <1>2 DEF RecordFits
<1>9. GraphHolds(Edges)
  <2>1. \A c \in Categories : projected[<<"category", c>>].refs = {}
    BY <1>2, <1>4, CategoryKeys
  <2>2. Edges = {}
    BY <2>1 DEF Edges
  <2>3. QED BY <2>2 DEF GraphHolds
<1>10. QED BY <1>2, <1>4, <1>5, <1>6, <1>7, <1>8, <1>9 DEF CatInv

LEMMA CatInvMeansSound == CatInv => CatalogIsSound
<1> SUFFICES ASSUME CatInv PROVE CatalogIsSound
  OBVIOUS
<1>1. CatTypeOK
  BY DEF CatInv
<1>2. \A e \in Snapshots : /\ progress[e.id].st \in {"missing", "pending", "retry", "blocked", "processed"}
                           /\ e \notin snapshots => progress[e.id] = Missing
                           /\ progress[e.id].advanced => progress[e.id].st = "blocked"
  BY ProgressParts DEF CatInv, CatTypeOK, ProgressFits
<1>3. CatalogTypeOK
  BY <1>1, <1>2 DEF CatInv, CatTypeOK, CatalogTypeOK, RowsAreShown, Shows
<1>4. GraphStaysSound
  <2>1. GraphHolds(Edges)
    BY DEF CatInv
  <2>2. QED BY <2>1, EdgesAreGraph, HoldsMeansSound DEF GraphStaysSound
<1>5. QED BY <1>3, <1>4 DEF CatInv, CatalogIsSound

LEMMA CatInvKept == CatInv /\ [CatalogNext]_catalogVars => CatInv'
  BY CatalogStepFits

\* The graph of categories has no cycle and three levels at most, each product
\* hangs rightly in it or has a newer event that may repair it or was refused
\* for its shop, no row refers to one of another shop, and what is processed is
\* shown or has been overtaken, however many categories, products, shops and
\* workers there are and in whatever order the events land (catalog.go).
THEOREM CatalogSound == CatalogSafe => []CatalogIsSound
<1>1. QED BY CatInvInit, CatInvKept, CatInvMeansSound, PTL DEF CatalogSafe

\* No row goes back or is rewritten at its revision, no verdict is undone but
\* for another try, and no product in its place changes what its categories
\* allow without Commerce being asked in the same transaction, unless the event
\* came from no shop or another (revisionGate, claimCatalogRow,
\* EnqueueCategoryAffectedReevaluations).
THEOREM CatalogOnlyMovesOn == CatalogSafe => CatalogMovesOn
<1>1. CatInv /\ [CatalogNext]_catalogVars =>
        [\A k \in EntityKeys :
            LET row == projected[k] IN
            projected'[k].rev >= row.rev
            /\ (projected'[k].rev = row.rev => SameContent(projected'[k], row))]_catalogVars
  BY CatalogStepFits DEF RowsRise, SameContent
<1>2. CatInv /\ [CatalogNext]_catalogVars =>
        [\A e \in Snapshots :
            /\ progress[e.id].st = "processed" => progress'[e.id] = progress[e.id]
            /\ progress[e.id].st = "blocked" =>
                progress'[e.id].st \in {"blocked", "pending"}
                /\ progress'[e.id].code \in {"", progress[e.id].code}]_catalogVars
  BY CatalogStepFits DEF VerdictStays
<1>3. CatInv /\ [CatalogNext]_catalogVars =>
        [\A k \in Rows("product") :
            (/\ FiledRightly(Edges, projected[k].top, projected[k].refs)
             /\ AllowsOnline(k) # AllowsOnline(k)') =>
                \/ k \in reasked'
                \/ \E e \in snapshots :
                    progress[e.id].st # "processed" /\ progress'[e.id].st = "processed"
                    /\ e.store # projected[k].store]_catalogVars
  <2>1. \A k : AllowsOnline(k) # AllowsOnline(k)' => ~(AllowsOnline(k)' <=> AllowsOnline(k))
    BY DEF AllowsOnline
  <2>2. QED BY <2>1, StepsAsk
<1>4. QED
  BY <1>1, <1>2, <1>3, CatInvInit, CatInvKept, PTL
     DEF CatalogSafe, CatalogMovesOn, RevisionsOnlyRise, SnapshotVerdictsStay, NoSilentPolicyChange
-----------------------------------------------------------------------------
(* Products and the shops.                                                 *)

Spots == Shops \X Products
Working == {"read", "ready", "begun", "cleared", "sent", "refused", "map", "done"}
Flying == {"begun", "cleared", "sent"}      \* a request has its identity
HasRead == {"ready", "refused", "map", "done"} \cup Flying
InFlight(op) == [st |-> "in_flight", op |-> op]
Claims == Products \X (1 .. MaxIntent)

SyncerRecords ==
    [at : {"idle", "batch", "next", "wait"} \cup Working, token : {0} \cup Tokens,
     batch : SUBSET Claims, row : SUBSET Claims, left : SUBSET Shops, failed : BOOLEAN,
     shop : Shops \cup {Nobody}, v : 0 .. MaxIntent, kind : Kinds, op : {0} \cup Requests,
     reply : {"none", "applied", "refused"}]
QueueRecords ==
    [st : {"none", "row"}, requested : 0 .. MaxIntent, claimed : 0 .. MaxIntent,
     token : {0} \cup Tokens, live : BOOLEAN, due : BOOLEAN]
BarrierRecords == [st : {"none", "in_flight", "uncertain"}, op : {0} \cup Requests]
RequestRecords == [op : Requests, at : Spots, kind : Kinds, v : 1 .. MaxIntent]
RemoteRecords == [product : 0 .. MaxIntent, stock : 0 .. MaxIntent, copies : Nat]

ShopsTyped ==
    /\ registry \subseteq Shops
    /\ intent \in [Products -> 1 .. MaxIntent]
    /\ queue \in [Products -> QueueRecords]
    /\ syncer \in [Syncers -> SyncerRecords]
    /\ syncLock \in [Spots -> Syncers \cup {Nobody}]
    /\ barrier \in [Spots -> BarrierRecords]
    /\ mapped \in [Spots -> BOOLEAN]
    /\ wire \subseteq RequestRecords
    /\ remote \in [Spots -> RemoteRecords]
    /\ resolver.at \in {"idle", "sure"} /\ (resolver.at = "sure" => resolver.spot \in Spots)
    /\ resolver.op \in {0} \cup Requests
    /\ mishaps \in 0 .. MaxMishaps

\* What is requested is at most what was changed, and what is leased was claimed.
QueueFits(p) ==
    /\ queue[p].st = "row" => queue[p].requested # 0
    /\ queue[p].requested <= intent[p] /\ queue[p].claimed <= queue[p].requested
    /\ queue[p].live => queue[p].token # 0 /\ queue[p].claimed # 0

SyncerShaped(w) ==
    LET me == syncer[w] IN
    /\ me.at = "idle" => me = AtRest
    /\ me.at \notin {"idle", "batch"} => \E c \in Claims : me.row = {c}
    /\ me.at \in {"wait"} \cup Working => me.shop \in Shops
    /\ me.at \in Flying <=> me.op # 0
    /\ me.at \in {"begun", "cleared"} => me.shop \in Barred
    /\ me.at \notin HasRead => me.v = 0 /\ me.kind = "update"
    /\ me.at \in {"ready", "map"} \cup Flying => me.v # 0
    /\ me.at = "done" => me.v = 0 \/ me.kind = "stock"
    /\ me.at # "sent" => me.reply = "none"

\* Those whose sender is gone; each took a mishap.
Lost == {r \in wire : \A w \in Syncers : syncer[w].op # r.op}
LostAreCounted == IsFiniteSet(wire) /\ Cardinality(Lost) <= mishaps

SendersDiffer ==
    \A w, x \in Syncers : syncer[w].op # 0 /\ syncer[w].op = syncer[x].op => w = x

LocksFit == \A s \in Spots : \A w \in Syncers :
    syncLock[s] = w => syncer[w].at \in Working /\ Spot(w) = s

\* Requests are told apart; in a shop with barriers a request on its way has
\* the barrier, and what it creates is not there.
WireFits ==
    /\ \A q, r \in wire : q.op = r.op => q = r
    /\ \A r \in wire :
        /\ r.at[1] \in Barred =>
            /\ barrier[r.at].st # "none" /\ barrier[r.at].op = r.op
            /\ r.kind = "create" => remote[r.at].product = 0
        /\ r.kind = "stock" => mapped[r.at]
        /\ resolver.at = "sure" => r.op # resolver.op

Owns(w) == syncer[w].at \in Working /\ syncLock[Spot(w)] = w

\* A request may go out without the lock being looked at again.
About(w) == syncer[w].at \in {"begun", "cleared"}

\* Under the lock, the product has been put in its place.
Placed(w) ==
    LET me == syncer[w] IN
    \/ me.at = "map"
    \/ me.at = "sent" /\ me.reply = "applied"
    \/ me.kind = "stock" /\ me.at \in {"ready", "done"} \cup Flying

\* What a worker knows of its request, of the barrier and of the shop.
WorkerFits(w) ==
    LET me == syncer[w] IN
    /\ \A r \in wire : r.op = me.op =>
        /\ me.at = "sent" /\ me.reply = "none"
        /\ r.at = Spot(w) /\ r.kind = me.kind /\ r.v = me.v
    /\ About(w) => /\ barrier[Spot(w)] = InFlight(me.op)
                   /\ resolver.at = "sure" => me.op # resolver.op
    /\ me.kind = "stock" /\ me.at \in {"ready"} \cup Flying => mapped[Spot(w)]
    /\ me.shop \in Barred =>
        /\ Owns(w) => IF me.at \in Flying THEN barrier[Spot(w)] = InFlight(me.op)
                      ELSE barrier[Spot(w)].st = "none"
        /\ me.kind = "create" /\ (About(w) \/ (me.at = "ready" /\ Owns(w))) =>
            remote[Spot(w)].product = 0
        /\ Owns(w) /\ Placed(w) =>
            remote[Spot(w)].product = me.v /\ remote[Spot(w)].stock \in {0, me.v}

RemoteFits(s) ==
    /\ remote[s].copies # 0 => remote[s].product # 0
    /\ remote[s].stock # 0 => mapped[s]
    /\ s[1] \in Barred => remote[s].copies <= 1

\* The claim is still the row's, and nothing was requested since.
Current(w) == HoldsLease(w) /\ queue[Product(w)].requested = Claimed(w)

ReadingFits(w) ==
    syncer[w].at \in HasRead /\ Current(w) =>
        \/ syncer[w].v = intent[Product(w)]
        \/ syncer[w].at = "done" /\ syncer[w].v = 0 /\ ~IsPublished(intent[Product(w)])

\* All that still comes to a shop says the same.
Coming(w) == About(w) \/ (syncer[w].at \in {"ready", "sent", "map"} /\ Owns(w))
Served(s, v) ==
    /\ remote[s].product = v /\ remote[s].stock \in {0, v}
    /\ \A r \in wire : r.at = s => r.v = v
    /\ \A w \in Syncers : Coming(w) /\ Spot(w) = s => syncer[w].v = v

ServesOn(w) == syncer[w].at \notin {"idle", "batch"} /\ Current(w) /\ ~syncer[w].failed
Serves(w) ==
    ServesOn(w) /\ IsPublished(intent[Product(w)]) =>
        \A s \in (registry \cap Barred) \ syncer[w].left :
            Served(<<s, Product(w)>>, intent[Product(w)])
QueueServes(p) ==
    queue[p].st = "none" /\ IsPublished(intent[p]) =>
        \A s \in registry \cap Barred : Served(<<s, p>>, intent[p])

ShopsInv ==
    /\ ShopsTyped /\ (\A w \in Syncers : SyncerShaped(w))
    /\ LostAreCounted /\ SendersDiffer /\ LocksFit /\ WireFits
    /\ (\A w \in Syncers : WorkerFits(w)) /\ (\A s \in Spots : RemoteFits(s))
    /\ (\A p \in Products : QueueFits(p)) /\ (\A w \in Syncers : ReadingFits(w))
    /\ (\A w \in Syncers : Serves(w)) /\ (\A p \in Products : QueueServes(p))

-----------------------------------------------------------------------------
(* The claim in hand.                                                      *)

ProductOf(row) == CHOOSE p \in Products : \E c \in row : c[1] = p
ClaimOf(row) == CHOOSE g \in 1 .. MaxIntent : \E c \in row : c[2] = g

LEMMA InHand ==
  /\ \A w \in Syncers : /\ Product(w) = ProductOf(syncer[w].row)
                        /\ Claimed(w) = ClaimOf(syncer[w].row)
                        /\ Spot(w) = <<syncer[w].shop, ProductOf(syncer[w].row)>>
  /\ \A w \in Syncers : /\ Product(w)' = ProductOf(syncer'[w].row)
                        /\ Claimed(w)' = ClaimOf(syncer'[w].row)
                        /\ Spot(w)' = <<syncer'[w].shop, ProductOf(syncer'[w].row)>>
  BY DEF Product, Claimed, Spot, ProductOf, ClaimOf

LEMMA RowOfOne ==
  ASSUME NEW c \in Claims
  PROVE  ProductOf({c}) = c[1] /\ ClaimOf({c}) = c[2] /\ c[1] \in Products /\ c[2] \in 1 .. MaxIntent
<1>1. c[1] \in Products /\ c[2] \in 1 .. MaxIntent
  BY DEF Claims
<1>2. QED BY <1>1 DEF ProductOf, ClaimOf

LEMMA AtWork ==
  ASSUME ShopsTyped, NEW w \in Syncers, SyncerShaped(w), syncer[w].at \notin {"idle", "batch"}
  PROVE  /\ Product(w) \in Products /\ Claimed(w) \in 1 .. MaxIntent
         /\ syncer[w].at \in {"wait"} \cup Working => Spot(w) \in Spots /\ syncer[w].shop \in Shops
<1>1. PICK c \in Claims : syncer[w].row = {c}
  BY DEF SyncerShaped
<1>2. Product(w) = c[1] /\ Claimed(w) = c[2] /\ Spot(w) = <<syncer[w].shop, c[1]>>
  BY <1>1, RowOfOne, InHand
<1>3. syncer[w].at \in {"wait"} \cup Working => syncer[w].shop \in Shops
  BY DEF SyncerShaped
<1>4. c[1] \in Products /\ c[2] \in 1 .. MaxIntent
  BY RowOfOne
<1>5. QED BY <1>2, <1>3, <1>4 DEF Spots

LEMMA SyncerTyped ==
  ASSUME ShopsTyped, NEW w \in Syncers
  PROVE  LET me == syncer[w] IN
         /\ me \in SyncerRecords
         /\ me.at \in {"idle", "batch", "next", "wait"} \cup Working
         /\ me.token \in {0} \cup Tokens /\ me.batch \in SUBSET Claims /\ me.row \in SUBSET Claims
         /\ me.left \in SUBSET Shops /\ me.failed \in BOOLEAN /\ me.shop \in Shops \cup {Nobody}
         /\ me.v \in 0 .. MaxIntent /\ me.kind \in Kinds /\ me.op \in {0} \cup Requests
         /\ me.reply \in {"none", "applied", "refused"}
  BY DEF ShopsTyped, SyncerRecords

LEMMA SpotTyped ==
  ASSUME ShopsTyped, NEW s \in Spots
  PROVE  /\ syncLock[s] \in Syncers \cup {Nobody}
         /\ barrier[s] \in BarrierRecords
         /\ barrier[s].st \in {"none", "in_flight", "uncertain"} /\ barrier[s].op \in {0} \cup Requests
         /\ remote[s] \in RemoteRecords /\ remote[s].product \in 0 .. MaxIntent
         /\ remote[s].stock \in 0 .. MaxIntent /\ remote[s].copies \in Nat
         /\ mapped[s] \in BOOLEAN
         /\ s = <<s[1], s[2]>> /\ s[1] \in Shops /\ s[2] \in Products
  BY DEF ShopsTyped, BarrierRecords, RemoteRecords, Spots

LEMMA IdentitiesAreNumbers == Requests \subseteq Nat \ {0} /\ Tokens \subseteq Nat \ {0}
<1>1. \A n : 1 .. n \subseteq Nat \ {0}
  OBVIOUS
<1>2. QED BY <1>1 DEF Requests, Tokens

LEMMA RequestTyped ==
  ASSUME ShopsTyped, NEW r \in wire
  PROVE  r \in RequestRecords /\ r.op \in Requests /\ r.op # 0 /\ r.at \in Spots /\ r.kind \in Kinds
         /\ r.v \in 1 .. MaxIntent
<1>1. r \in RequestRecords
  BY DEF ShopsTyped
<1>2. r.op \in Requests /\ r.at \in Spots /\ r.kind \in Kinds /\ r.v \in 1 .. MaxIntent
  BY <1>1 DEF RequestRecords
<1>3. QED BY <1>1, <1>2, IdentitiesAreNumbers

LEMMA InFlightFields == \A op : InFlight(op).st = "in_flight" /\ InFlight(op).op = op
  BY DEF InFlight

\* Who only waits, claims or has gone home has no lock.
LEMMA UnlockedParts ==
  ASSUME ShopsTyped, NEW w \in Syncers
  PROVE  /\ Unlocked(w) \in [Spots -> Syncers \cup {Nobody}]
         /\ \A s \in Spots : Unlocked(w)[s] = IF syncLock[s] = w THEN Nobody ELSE syncLock[s]
         /\ (\A s \in Spots : syncLock[s] # w) => Unlocked(w) = syncLock
  BY DEF ShopsTyped, Unlocked, Spots

-----------------------------------------------------------------------------
(* There always is a new identity.                                         *)

LEMMA ImageIsSmall ==
  ASSUME NEW S, IsFiniteSet(S), NEW f, DOMAIN f = S, f = [x \in S |-> f[x]]
  PROVE  IsFiniteSet({f[x] : x \in S}) /\ Cardinality({f[x] : x \in S}) <= Cardinality(S)
<1>1. PICK T : T = {f[x] : x \in S}
  OBVIOUS
<1>2. f \in [S -> T] /\ \A t \in T : \E x \in S : f[x] = t
  BY <1>1
<1>3. f \in Surjection(S, T)
  BY <1>2 DEF Surjection
<1>4. QED BY <1>1, <1>3, FS_Surjection

LEMMA UnionIsSmall ==
  ASSUME NEW S, IsFiniteSet(S), NEW T, IsFiniteSet(T), NEW m \in Nat, NEW n \in Nat,
         Cardinality(S) <= m, Cardinality(T) <= n
  PROVE  IsFiniteSet(S \cup T) /\ Cardinality(S \cup T) <= m + n
<1>1. IsFiniteSet(S \cap T)
  BY FS_Subset
<1>2. Cardinality(S) \in Nat /\ Cardinality(T) \in Nat /\ Cardinality(S \cap T) \in Nat
      /\ Cardinality(S \cup T) = Cardinality(S) + Cardinality(T) - Cardinality(S \cap T)
  BY <1>1, FS_Union, FS_CardinalityType
<1>3. IsFiniteSet(S \cup T)
  BY FS_Union
<1>4. QED BY <1>2, <1>3

\* A set with fewer members than the first n numbers leaves one of them out.
LEMMA OneIsLeft ==
  ASSUME NEW n \in Nat, NEW T, IsFiniteSet(T), NEW m \in Nat, Cardinality(T) <= m, m < n
  PROVE  \E i \in 1 .. n : i \notin T
<1> SUFFICES ASSUME 1 .. n \subseteq T PROVE FALSE
  OBVIOUS
<1>1. Cardinality(1 .. n) = n
  BY FS_Interval
<1>2. Cardinality(1 .. n) <= Cardinality(T)
  BY FS_Subset
<1>3. Cardinality(T) \in Nat
  BY FS_CardinalityType
<1>4. QED BY <1>1, <1>2, <1>3

LEMMA SizesAreNumbers ==
  /\ Cardinality(Syncers) \in Nat /\ Cardinality(Products) \in Nat /\ Cardinality(Spots) \in Nat
  /\ IsFiniteSet(Spots) /\ (\A w \in Syncers : Cardinality(Syncers) # 0)
<1>1. IsFiniteSet(Syncers) /\ IsFiniteSet(Products) /\ IsFiniteSet(Shops)
  BY CommerceAssumption
<1>2. IsFiniteSet(Spots)
  BY <1>1, FS_Product DEF Spots
<1>3. QED BY <1>1, <1>2, FS_CardinalityType, FS_EmptySet

LEMMA FreshTokenIsNew ==
  ASSUME ShopsTyped
  PROVE  /\ FreshToken \in Tokens /\ FreshToken # 0
         /\ \A w \in Syncers : syncer[w].token # FreshToken
         /\ \A p \in Products : queue[p].token # FreshToken
<1> DEFINE held == [w \in Syncers |-> syncer[w].token]
           kept == [p \in Products |-> queue[p].token]
           H == {held[w] : w \in Syncers}
           K == {kept[p] : p \in Products}
           h == Cardinality(Syncers)
           k == Cardinality(Products)
<1>1. IsFiniteSet(H) /\ Cardinality(H) <= h
  BY ImageIsSmall, CommerceAssumption
<1>2. IsFiniteSet(K) /\ Cardinality(K) <= k
  BY ImageIsSmall, CommerceAssumption
<1>3. h \in Nat /\ k \in Nat
  BY SizesAreNumbers
<1>4. H = {syncer[w].token : w \in Syncers} /\ K = {queue[p].token : p \in Products}
  OBVIOUS
<1>5. Tokens = 1 .. h + k + 1
  BY DEF Tokens
<1> HIDE DEF held, kept, H, K, h, k
<1>6. IsFiniteSet(H \cup K) /\ Cardinality(H \cup K) <= h + k
  BY <1>1, <1>2, <1>3, UnionIsSmall
<1>7. \E t \in Tokens : t \notin H \cup K
  BY <1>3, <1>5, <1>6, OneIsLeft
<1>8. FreshToken \in Tokens /\ FreshToken \notin H \cup K
  BY <1>4, <1>7 DEF FreshToken
<1>9. QED BY <1>4, <1>8, IdentitiesAreNumbers

LEMMA FreshRequestIsNew ==
  ASSUME ShopsTyped, LostAreCounted, NEW me \in Syncers
  PROVE  /\ FreshRequest \in Requests /\ FreshRequest # 0
         /\ \A r \in wire : r.op # FreshRequest
         /\ \A w \in Syncers : syncer[w].op # FreshRequest
         /\ resolver.op # FreshRequest
<1> DEFINE gone == [r \in Lost |-> r.op]
           held == [w \in Syncers |-> syncer[w].op]
           kept == [s \in Spots |-> barrier[s].op]
           G == {gone[r] : r \in Lost}
           H == {held[w] : w \in Syncers}
           K == {kept[s] : s \in Spots}
           R == {resolver.op}
           h == Cardinality(Syncers)
           k == Cardinality(Spots)
<1>1. IsFiniteSet(Lost) /\ Cardinality(Lost) <= mishaps /\ mishaps \in Nat /\ mishaps <= MaxMishaps
  <2>1. Lost \in SUBSET wire
    BY DEF Lost
  <2>2. mishaps \in Nat /\ mishaps <= MaxMishaps
    BY CommerceAssumption DEF ShopsTyped
  <2>3. QED BY <2>1, <2>2, FS_Subset DEF LostAreCounted
<1>2. IsFiniteSet(G) /\ Cardinality(G) <= MaxMishaps
  <2>1. IsFiniteSet(G) /\ Cardinality(G) <= Cardinality(Lost)
    BY <1>1, ImageIsSmall
  <2>2. Cardinality(G) \in Nat /\ Cardinality(Lost) \in Nat
    BY <1>1, <2>1, FS_CardinalityType
  <2>3. QED BY <1>1, <2>1, <2>2, CommerceAssumption
<1>3. IsFiniteSet(H) /\ Cardinality(H) <= h
  BY ImageIsSmall, CommerceAssumption
<1>4. IsFiniteSet(K) /\ Cardinality(K) <= k
  BY ImageIsSmall, SizesAreNumbers
<1>5. IsFiniteSet(R) /\ Cardinality(R) <= 1
  <2>1. \A x : IsFiniteSet({x}) /\ Cardinality({x}) = 1
    BY FS_Singleton
  <2>2. Cardinality(R) = 1 /\ IsFiniteSet(R)
    BY <2>1
  <2> HIDE DEF R
  <2>3. QED BY <2>2
<1>6. h \in Nat /\ k \in Nat /\ h # 0 /\ MaxMishaps \in Nat
  BY SizesAreNumbers, CommerceAssumption
<1>7. /\ H = {syncer[w].op : w \in Syncers} /\ K = {barrier[s].op : s \in Shops \X Products}
      /\ \A r \in wire : r.op \in G \cup H
  <2>1. H = {syncer[w].op : w \in Syncers} /\ K = {barrier[s].op : s \in Shops \X Products}
    BY DEF Spots
  <2>2. ASSUME NEW r \in wire PROVE r.op \in G \cup H
    <3>1. r \in Lost => r.op \in G
      OBVIOUS
    <3>2. r \notin Lost => r.op \in H
      BY <2>1 DEF Lost
    <3>3. QED BY <3>1, <3>2
  <2>3. QED BY <2>1, <2>2
<1>8. Requests = 1 .. 2 * h + k + MaxMishaps + 1
  BY DEF Requests, Spots
<1> HIDE DEF gone, held, kept, G, H, K, R, h, k
<1>9. IsFiniteSet(G \cup H) /\ Cardinality(G \cup H) <= MaxMishaps + h
  BY <1>2, <1>3, <1>6, UnionIsSmall
<1>10. MaxMishaps + h \in Nat /\ MaxMishaps + h + k \in Nat /\ MaxMishaps + h + k + 1 \in Nat
       /\ 2 * h + k + MaxMishaps + 1 \in Nat /\ MaxMishaps + h + k + 1 < 2 * h + k + MaxMishaps + 1
  BY <1>6
<1>11. IsFiniteSet(G \cup H \cup K) /\ Cardinality(G \cup H \cup K) <= MaxMishaps + h + k
  BY <1>4, <1>6, <1>9, <1>10, UnionIsSmall
<1>12. IsFiniteSet(G \cup H \cup K \cup R) /\ Cardinality(G \cup H \cup K \cup R) <= MaxMishaps + h + k + 1
  BY <1>5, <1>10, <1>11, UnionIsSmall
<1>13. \E t \in Requests : t \notin G \cup H \cup K \cup R
  BY <1>8, <1>10, <1>12, OneIsLeft
<1>14. R = {resolver.op}
  BY DEF R
<1>15. \E t \in Requests :
        /\ t \notin {q.op : q \in wire} \cup {syncer[w].op : w \in Syncers}
        /\ t \notin {barrier[s].op : s \in Shops \X Products} \cup {resolver.op}
  BY <1>7, <1>13, <1>14
<1>16. /\ FreshRequest \in Requests
       /\ FreshRequest \notin {q.op : q \in wire} \cup {syncer[w].op : w \in Syncers}
       /\ FreshRequest \notin {resolver.op}
  BY <1>15 DEF FreshRequest
<1>17. QED BY <1>16, IdentitiesAreNumbers

-----------------------------------------------------------------------------
(* One worker moves.                                                       *)

LEMMA OneMoves ==
  ASSUME ShopsTyped, NEW w \in Syncers, NEW n, syncer' = [syncer EXCEPT ![w] = n]
  PROVE  /\ DOMAIN syncer' = Syncers /\ syncer'[w] = n
         /\ \A x \in Syncers : x # w => syncer'[x] = syncer[x]
         /\ n \in SyncerRecords => syncer' \in [Syncers -> SyncerRecords]
  BY DEF ShopsTyped

LEMMA SameHand ==
  ASSUME NEW x \in Syncers, syncer'[x].row = syncer[x].row
  PROVE  /\ Product(x)' = Product(x) /\ Claimed(x)' = Claimed(x)
         /\ syncer'[x].shop = syncer[x].shop => Spot(x)' = Spot(x)
  BY InHand

\* A worker that stands still, and around whom nothing moves, fits.
LEMMA OthersFit ==
  ASSUME ShopsTyped, NEW x \in Syncers, SyncerShaped(x), WorkerFits(x), syncer'[x] = syncer[x],
         \A r \in wire' : r \in wire \/ r.op # syncer[x].op,
         Owns(x)' => Owns(x),
         syncer[x].shop \in Barred /\ (About(x) \/ Owns(x)) =>
            /\ remote'[Spot(x)] = remote[Spot(x)]
            /\ \/ barrier'[Spot(x)] = barrier[Spot(x)]
               \/ barrier[Spot(x)].st = "none" /\ barrier'[Spot(x)].st = "none",
         About(x) /\ resolver'.at = "sure" => syncer[x].op # resolver'.op,
         \A s \in Spots : mapped[s] => mapped'[s]
  PROVE  WorkerFits(x)' /\ SyncerShaped(x)'
<1>1. Spot(x)' = Spot(x) /\ Product(x)' = Product(x)
  BY SameHand
<1>2. SyncerShaped(x)'
  BY DEF SyncerShaped
<1>3. About(x)' = About(x) /\ Placed(x)' = Placed(x)
  BY DEF About, Placed
<1>4. \A r \in wire' : r.op = syncer[x].op =>
        /\ syncer[x].at = "sent" /\ syncer[x].reply = "none"
        /\ r.at = Spot(x) /\ r.kind = syncer[x].kind /\ r.v = syncer[x].v
  BY DEF WorkerFits
<1>5. About(x) => syncer[x].shop \in Barred
  BY DEF SyncerShaped, About
<1>6. About(x) => /\ barrier'[Spot(x)] = InFlight(syncer[x].op)
                  /\ resolver'.at = "sure" => syncer[x].op # resolver'.op
  BY <1>5, InFlightFields DEF WorkerFits
<1>7. syncer[x].kind = "stock" /\ syncer[x].at \in {"ready"} \cup Flying => mapped'[Spot(x)]
  BY AtWork DEF WorkerFits, Working, Flying
<1>8. syncer[x].shop \in Barred =>
        /\ Owns(x)' => IF syncer[x].at \in Flying THEN barrier'[Spot(x)] = InFlight(syncer[x].op)
                       ELSE barrier'[Spot(x)].st = "none"
        /\ syncer[x].kind = "create" /\ (About(x) \/ (syncer[x].at = "ready" /\ Owns(x)')) =>
            remote'[Spot(x)].product = 0
        /\ Owns(x)' /\ Placed(x) =>
            /\ remote'[Spot(x)].product = syncer[x].v
            /\ remote'[Spot(x)].stock \in {0, syncer[x].v}
  <2> SUFFICES ASSUME syncer[x].shop \in Barred
               PROVE  /\ Owns(x)' => IF syncer[x].at \in Flying THEN barrier'[Spot(x)] = InFlight(syncer[x].op)
                                     ELSE barrier'[Spot(x)].st = "none"
                      /\ syncer[x].kind = "create" /\ (About(x) \/ (syncer[x].at = "ready" /\ Owns(x)')) =>
                            remote'[Spot(x)].product = 0
                      /\ Owns(x)' /\ Placed(x) =>
                            /\ remote'[Spot(x)].product = syncer[x].v
                            /\ remote'[Spot(x)].stock \in {0, syncer[x].v}
    OBVIOUS
  <2>1. /\ Owns(x) => IF syncer[x].at \in Flying THEN barrier[Spot(x)] = InFlight(syncer[x].op)
                      ELSE barrier[Spot(x)].st = "none"
        /\ syncer[x].kind = "create" /\ (About(x) \/ (syncer[x].at = "ready" /\ Owns(x))) =>
            remote[Spot(x)].product = 0
        /\ Owns(x) /\ Placed(x) =>
            remote[Spot(x)].product = syncer[x].v /\ remote[Spot(x)].stock \in {0, syncer[x].v}
    BY DEF WorkerFits
  <2>2. Owns(x)' => IF syncer[x].at \in Flying THEN barrier'[Spot(x)] = InFlight(syncer[x].op)
                    ELSE barrier'[Spot(x)].st = "none"
    BY <2>1, InFlightFields
  <2>3. QED BY <2>1, <2>2
<1>9. QED BY <1>1, <1>2, <1>3, <1>4, <1>6, <1>7, <1>8 DEF WorkerFits

\* A barrier that its request leaves behind.
LEMMA RetainedParts ==
  ASSUME ShopsTyped, NEW w \in Syncers, barrier' \in Retained(w)
  PROVE  /\ barrier' \in [Spots -> BarrierRecords]
         /\ \A s \in Spots :
              \/ barrier'[s] = barrier[s]
              \/ /\ s = Spot(w) /\ syncer[w].op # 0 /\ barrier[s] = InFlight(syncer[w].op)
                 /\ barrier'[s].op = barrier[s].op /\ barrier'[s].st = "uncertain"
<1>1. CASE barrier' = barrier
  BY <1>1 DEF ShopsTyped
<1>2. CASE barrier' # barrier
  <2>1. /\ syncer[w].op # 0 /\ barrier[Spot(w)] = InFlight(syncer[w].op)
        /\ barrier' = [barrier EXCEPT ![Spot(w)].st = "uncertain"]
    BY <1>2 DEF Retained, InFlight
  <2>2. CASE Spot(w) \in Spots
    <3>1. PICK b \in BarrierRecords : b = barrier[Spot(w)]
      BY <2>2, SpotTyped
    <3>2. PICK n : n = [b EXCEPT !.st = "uncertain"]
      OBVIOUS
    <3>3. n \in BarrierRecords /\ n.op = b.op /\ n.st = "uncertain"
      BY <3>1, <3>2 DEF BarrierRecords
    <3>4. barrier' = [barrier EXCEPT ![Spot(w)] = n]
      BY <2>1, <3>1, <3>2
    <3>5. QED BY <2>1, <2>2, <3>1, <3>3, <3>4 DEF ShopsTyped
  <2>3. CASE Spot(w) \notin Spots
    BY <2>1, <2>3, <1>2 DEF ShopsTyped
  <2>4. QED BY <2>2, <2>3
<1>3. QED BY <1>1, <1>2

\* Requests whose sender is gone grow by one at most, and with a mishap.
LEMMA LostGrows ==
  ASSUME ShopsTyped, LostAreCounted, NEW w \in Syncers, NEW n, syncer' = [syncer EXCEPT ![w] = n],
         WorkerFits(w), WireFits, UNCHANGED wire, mishaps' \in Nat, mishaps' >= mishaps,
         syncer[w].at = "sent" /\ syncer[w].reply = "none" => mishaps' = mishaps + 1
  PROVE  LostAreCounted'
<1>1. IsFiniteSet(Lost) /\ Cardinality(Lost) \in Nat /\ Cardinality(Lost) <= mishaps
  <2>1. Lost \in SUBSET wire
    BY DEF Lost
  <2>2. QED BY <2>1, FS_Subset, FS_CardinalityType DEF LostAreCounted
<1>2. mishaps \in Nat
  BY CommerceAssumption DEF ShopsTyped
<1>3. \A x \in Syncers : x # w => syncer'[x] = syncer[x]
  BY OneMoves
<1>4. Lost' \subseteq Lost \cup {r \in wire : r.op = syncer[w].op}
  BY <1>3 DEF Lost
<1>5. CASE \E r \in wire : r.op = syncer[w].op
  <2>1. PICK r \in wire : r.op = syncer[w].op
    BY <1>5
  <2>2. \A q \in wire : q.op = syncer[w].op => q = r
    BY <2>1 DEF WireFits
  <2>3. Lost' \subseteq Lost \cup {r}
    BY <1>4, <2>2
  <2>4. mishaps' = mishaps + 1
    BY <2>1 DEF WorkerFits
  <2>5. IsFiniteSet(Lost \cup {r}) /\ Cardinality(Lost \cup {r}) <= mishaps + 1
    <3>1. /\ IsFiniteSet(Lost \cup {r})
          /\ Cardinality(Lost \cup {r}) = Cardinality(Lost) \/ Cardinality(Lost \cup {r}) = Cardinality(Lost) + 1
      BY <1>1, FS_AddElement
    <3>2. QED BY <1>1, <1>2, <3>1
  <2>6. IsFiniteSet(Lost') /\ Cardinality(Lost') <= Cardinality(Lost \cup {r})
    BY <2>3, <2>5, FS_Subset
  <2>7. Cardinality(Lost') \in Nat /\ Cardinality(Lost \cup {r}) \in Nat
    BY <2>5, <2>6, FS_CardinalityType
  <2>8. Cardinality(Lost') <= mishaps'
    BY <1>2, <2>4, <2>5, <2>6, <2>7
  <2>9. QED BY <2>8 DEF LostAreCounted
<1>6. CASE ~\E r \in wire : r.op = syncer[w].op
  <2>1. Lost' \subseteq Lost
    BY <1>4, <1>6
  <2>2. IsFiniteSet(Lost') /\ Cardinality(Lost') <= Cardinality(Lost)
    BY <1>1, <2>1, FS_Subset
  <2>3. Cardinality(Lost') \in Nat
    BY <2>2, FS_CardinalityType
  <2>4. Cardinality(Lost') <= mishaps'
    BY <1>1, <1>2, <2>2, <2>3
  <2>5. QED BY <2>4 DEF LostAreCounted
<1>7. QED BY <1>5, <1>6

\* What everything but the queue and what was served needs of a step.
WorksFit ==
    /\ LostAreCounted /\ SendersDiffer /\ LocksFit /\ WireFits
    /\ (\A w \in Syncers : WorkerFits(w) /\ SyncerShaped(w)) /\ (\A s \in Spots : RemoteFits(s))

\* Nothing more comes to a shop than came before.
NoMoreComes ==
    \A s \in Spots : \A v : s[1] \in Barred /\ v = intent[s[2]] /\ Served(s, v) => Served(s, v)'

\* A worker leaves a shop, or has nothing to do with one.
LEMMA OffFits ==
  ASSUME ShopsInv, NEW w \in Syncers, NEW n \in SyncerRecords, syncer' = [syncer EXCEPT ![w] = n],
         n.at \notin Working, n.op = 0, n.reply = "none", SyncerShaped(w)',
         syncLock' = Unlocked(w), barrier' \in Retained(w), UNCHANGED <<mapped, wire, remote, resolver>>,
         mishaps' \in Nat, mishaps' >= mishaps,
         syncer[w].at = "sent" /\ syncer[w].reply = "none" => mishaps' = mishaps + 1
  PROVE  /\ WorksFit' /\ NoMoreComes
         /\ syncer' \in [Syncers -> SyncerRecords] /\ syncLock' \in [Spots -> Syncers \cup {Nobody}]
         /\ barrier' \in [Spots -> BarrierRecords]
<1>1. /\ ShopsTyped /\ WireFits /\ LostAreCounted /\ SendersDiffer /\ LocksFit
      /\ \A x \in Syncers : WorkerFits(x) /\ SyncerShaped(x)
  BY DEF ShopsInv
<1>2. syncer'[w] = n /\ (\A x \in Syncers : x # w => syncer'[x] = syncer[x])
      /\ syncer' \in [Syncers -> SyncerRecords]
  BY <1>1, OneMoves
<1>3. \A s \in Spots : /\ syncLock'[s] = IF syncLock[s] = w THEN Nobody ELSE syncLock[s]
                       /\ syncLock'[s] # w
  BY <1>1, UnlockedParts, CommerceAssumption
<1>4. syncLock' \in [Spots -> Syncers \cup {Nobody}] /\ Nobody \notin Syncers
  BY <1>1, UnlockedParts, CommerceAssumption
<1>5. /\ barrier' \in [Spots -> BarrierRecords]
      /\ \A s \in Spots :
              \/ barrier'[s] = barrier[s]
              \/ /\ s = Spot(w) /\ syncer[w].op # 0 /\ barrier[s] = InFlight(syncer[w].op)
                 /\ barrier'[s].op = barrier[s].op /\ barrier'[s].st = "uncertain"
  BY <1>1, RetainedParts
<1>6. \A x \in Syncers : x # w => Spot(x)' = Spot(x) /\ (Owns(x)' => Owns(x))
  <2> SUFFICES ASSUME NEW x \in Syncers, x # w PROVE Spot(x)' = Spot(x) /\ (Owns(x)' => Owns(x))
    OBVIOUS
  <2>1. Spot(x)' = Spot(x)
    BY <1>2, SameHand
  <2>2. syncer[x].at \in Working => Spot(x) \in Spots
    BY <1>1, AtWork DEF Working
  <2>3. QED BY <1>2, <1>3, <1>4, <2>1, <2>2 DEF Owns
<1>7. \A x \in Syncers : x # w => WorkerFits(x)' /\ SyncerShaped(x)'
  <2> SUFFICES ASSUME NEW x \in Syncers, x # w PROVE WorkerFits(x)' /\ SyncerShaped(x)'
    OBVIOUS
  <2>1. syncer[x].shop \in Barred /\ (About(x) \/ Owns(x)) => barrier'[Spot(x)] = barrier[Spot(x)]
    <3> SUFFICES ASSUME syncer[x].shop \in Barred, About(x) \/ Owns(x),
                        barrier'[Spot(x)] # barrier[Spot(x)]
                 PROVE  FALSE
      OBVIOUS
    <3>1. Spot(x) \in Spots
      BY <1>1, AtWork DEF About, Owns, Working
    <3>2. barrier[Spot(x)] = InFlight(syncer[w].op) /\ syncer[w].op # 0
      BY <1>5, <3>1
    <3>3. barrier[Spot(x)] = InFlight(syncer[x].op)
      BY <1>1, <3>2, InFlightFields DEF WorkerFits
    <3>4. syncer[x].op = syncer[w].op
      BY <3>2, <3>3, InFlightFields
    <3>5. QED BY <1>1, <3>2, <3>4 DEF SendersDiffer
  <2>2. About(x) /\ resolver'.at = "sure" => syncer[x].op # resolver'.op
    BY <1>1 DEF WorkerFits
  <2>3. QED BY <1>1, <1>2, <1>6, <2>1, <2>2, OthersFit
<1>8. WorkerFits(w)' /\ SyncerShaped(w)'
  <2>1. n.at \notin {"ready", "map", "done"} \cup Flying
    BY DEF Working, Flying
  <2>2. \A r \in wire : r.op # n.op
    BY <1>1, RequestTyped
  <2>3. QED BY <1>2, <2>1, <2>2 DEF WorkerFits, About, Owns, Placed, Flying
<1>9. LostAreCounted'
  BY <1>1, LostGrows
<1>10. SendersDiffer'
  BY <1>1, <1>2 DEF SendersDiffer
<1>11. LocksFit'
  BY <1>1, <1>2, <1>3, <1>4, <1>6 DEF LocksFit
<1>12. WireFits'
  <2>1. \A r \in wire : r.at \in Spots
    BY <1>1, RequestTyped
  <2>2. \A s \in Spots : barrier'[s].op = barrier[s].op /\ (barrier[s].st # "none" => barrier'[s].st # "none")
    BY <1>5
  <2>3. QED BY <1>1, <2>1, <2>2 DEF WireFits
<1>13. \A s \in Spots : RemoteFits(s)'
  BY DEF ShopsInv, RemoteFits
<1>14. NoMoreComes
  <2>1. ~Coming(w)'
    BY <1>2 DEF Coming, About, Owns, Working
  <2>2. \A x \in Syncers : x # w /\ Coming(x)' => Coming(x)
    BY <1>2, <1>6 DEF Coming, About
  <2>3. QED BY <1>2, <1>6, <2>1, <2>2 DEF NoMoreComes, Served
<1>15. WorksFit'
  BY <1>7, <1>8, <1>9, <1>10, <1>11, <1>12, <1>13 DEF WorksFit
<1>16. QED BY <1>2, <1>4, <1>5, <1>14, <1>15

-----------------------------------------------------------------------------
(* A worker at its shop.                                                   *)

LEMMA LostStays ==
  ASSUME ShopsTyped, LostAreCounted, Lost' \subseteq Lost, IsFiniteSet(wire'),
         mishaps' = mishaps \/ mishaps' = mishaps + 1
  PROVE  LostAreCounted'
<1>1. Lost \in SUBSET wire
  BY DEF Lost
<1>2. IsFiniteSet(Lost) /\ mishaps \in Nat
  BY <1>1, FS_Subset, CommerceAssumption DEF LostAreCounted, ShopsTyped
<1>3. IsFiniteSet(Lost') /\ Cardinality(Lost') <= Cardinality(Lost)
  BY <1>2, FS_Subset
<1>4. Cardinality(Lost') \in Nat /\ Cardinality(Lost) \in Nat
  BY <1>2, <1>3, FS_CardinalityType
<1>5. Cardinality(Lost') <= mishaps'
  BY <1>2, <1>3, <1>4 DEF LostAreCounted
<1>6. QED BY <1>5 DEF LostAreCounted

\* The parts of the invariant, one by one.
LEMMA InvParts ==
  ASSUME ShopsInv
  PROVE  /\ ShopsTyped /\ LostAreCounted /\ SendersDiffer /\ LocksFit /\ WireFits
         /\ \A x \in Syncers : WorkerFits(x) /\ SyncerShaped(x)
         /\ \A s \in Spots : RemoteFits(s)
  BY DEF ShopsInv

\* A worker goes on at the spot where it is; it keeps its identity, or takes
\* one that no other has.
LEMMA GoesOnFits ==
  ASSUME ShopsInv, NEW w \in Syncers, NEW n \in SyncerRecords, syncer' = [syncer EXCEPT ![w] = n],
         n.row = syncer[w].row, n.shop = syncer[w].shop, n.at \in Working,
         syncer[w].at \in {"wait"} \cup Working,
         n.op # 0 => \A x \in Syncers : x # w => syncer[x].op # n.op,
         \A s \in Spots : \/ syncLock'[s] = syncLock[s]
                          \/ s = Spot(w) /\ syncLock'[s] = w,
         \A s \in Spots : \/ barrier'[s] = barrier[s]
                          \/ /\ s = Spot(w) /\ (barrier[s].st = "none" \/ syncer[w].op # 0)
                             /\ barrier[s].st = "none" \/ barrier[s] = InFlight(syncer[w].op)
                             /\ barrier'[s].st = "none" \/ Owns(w),
         \A s \in Spots : mapped[s] => mapped'[s],
         UNCHANGED <<remote, resolver>>,
         \A r \in wire' : r \in wire \/ (r.op = n.op /\ n.op # 0)
  PROVE  /\ \A x \in Syncers : x # w => /\ WorkerFits(x)' /\ SyncerShaped(x)'
                                        /\ (Owns(x)' => Owns(x))
         /\ SendersDiffer' /\ LocksFit' /\ syncer' \in [Syncers -> SyncerRecords]
         /\ Spot(w) \in Spots /\ Product(w) \in Products
         /\ syncer'[w] = n /\ (\A x \in Syncers : x # w => syncer'[x] = syncer[x])
         /\ \A x \in Syncers : Spot(x)' = Spot(x) /\ Product(x)' = Product(x) /\ Claimed(x)' = Claimed(x)
<1>1. /\ ShopsTyped /\ LostAreCounted /\ SendersDiffer /\ LocksFit /\ WireFits
      /\ \A x \in Syncers : WorkerFits(x) /\ SyncerShaped(x)
  BY InvParts
<1>2. /\ syncer'[w] = n /\ (\A x \in Syncers : x # w => syncer'[x] = syncer[x])
      /\ syncer' \in [Syncers -> SyncerRecords]
  BY <1>1, OneMoves
<1>3. \A x \in Syncers : syncer'[x].row = syncer[x].row /\ syncer'[x].shop = syncer[x].shop
  BY <1>2
<1>4. \A x \in Syncers : Spot(x)' = Spot(x) /\ Product(x)' = Product(x) /\ Claimed(x)' = Claimed(x)
  BY <1>3, SameHand
<1>5. Spot(w) \in Spots /\ Product(w) \in Products
  BY <1>1, AtWork DEF Working
<1>6. \A x \in Syncers : x # w /\ syncer[x].at \in Working => Spot(x) \in Spots
  BY <1>1, AtWork DEF Working
<1>7. \A x \in Syncers : x # w => (Owns(x)' => Owns(x))
  BY <1>2, <1>4, <1>6 DEF Owns
<1>8. SendersDiffer'
  BY <1>1, <1>2 DEF SendersDiffer
<1>9. LocksFit'
  BY <1>1, <1>2, <1>4 DEF LocksFit
<1>10. ASSUME NEW x \in Syncers, x # w PROVE WorkerFits(x)' /\ SyncerShaped(x)'
  <2>1. \A r \in wire' : r \in wire \/ r.op # syncer[x].op
    BY <1>10
  <2>2. syncer[x].shop \in Barred /\ (About(x) \/ Owns(x)) =>
            \/ barrier'[Spot(x)] = barrier[Spot(x)]
            \/ barrier[Spot(x)].st = "none" /\ barrier'[Spot(x)].st = "none"
    <3> SUFFICES ASSUME syncer[x].shop \in Barred, About(x) \/ Owns(x),
                        barrier'[Spot(x)] # barrier[Spot(x)]
                 PROVE  barrier[Spot(x)].st = "none" /\ barrier'[Spot(x)].st = "none"
      OBVIOUS
    <3>1. Spot(x) \in Spots /\ Spot(x) = Spot(w)
      BY <1>6, <1>10 DEF About, Owns, Working
    <3>2. barrier[Spot(x)].st # "none" => barrier[Spot(x)] = InFlight(syncer[w].op) /\ syncer[w].op # 0
      BY <3>1
    <3>3. barrier[Spot(x)].st # "none" => barrier[Spot(x)] = InFlight(syncer[x].op)
      BY <1>1 DEF WorkerFits
    <3>4. barrier[Spot(x)].st = "none"
      BY <1>1, <1>10, <3>2, <3>3, InFlightFields DEF SendersDiffer
    <3>5. ~About(x)
      BY <1>1, <3>4, InFlightFields DEF WorkerFits
    <3>6. Owns(x) /\ ~Owns(w)
      BY <1>10, <3>1, <3>5 DEF Owns
    <3>7. QED BY <3>1, <3>4, <3>6
  <2>3. About(x) /\ resolver'.at = "sure" => syncer[x].op # resolver'.op
    BY <1>1 DEF WorkerFits
  <2>4. Owns(x)' => Owns(x)
    BY <1>7, <1>10
  <2>5. QED BY <1>1, <1>2, <1>10, <2>1, <2>2, <2>3, <2>4, OthersFit
<1>11. QED BY <1>2, <1>4, <1>5, <1>7, <1>8, <1>9, <1>10

-----------------------------------------------------------------------------
(* What was served stays served.                                           *)

\* What a step keeps of all but the queue.
Keeps == ShopsTyped' /\ WorksFit' /\ NoMoreComes

\* The parts of the invariant that speak of the queue.
QueueParts ==
    /\ (\A p \in Products : QueueFits(p)) /\ (\A w \in Syncers : ReadingFits(w))
    /\ (\A w \in Syncers : Serves(w)) /\ (\A p \in Products : QueueServes(p))

LEMMA InvOfParts ==
  /\ ShopsInv => QueueParts
  /\ Keeps /\ QueueParts' => ShopsInv'
  BY DEF ShopsInv, QueueParts, Keeps, WorksFit

LEMMA CurrentIs ==
  /\ \A x \in Syncers : Current(x) <=>
        LET row == queue[Product(x)] IN
        /\ row.st = "row" /\ row.token = syncer[x].token /\ row.live /\ row.claimed = Claimed(x)
        /\ row.requested = Claimed(x)
  /\ \A x \in Syncers : Current(x)' <=>
        LET row == queue'[Product(x)'] IN
        /\ row.st = "row" /\ row.token = syncer'[x].token /\ row.live /\ row.claimed = Claimed(x)'
        /\ row.requested = Claimed(x)'
  BY DEF Current, HoldsLease

\* A worker whose claim is no more the row's than before, for which as many
\* shops are left.
LEMMA StillServes ==
  ASSUME ShopsInv, NoMoreComes, UNCHANGED registry, NEW x \in Syncers,
         ServesOn(x)' => /\ ServesOn(x) /\ Product(x)' = Product(x)
                         /\ intent'[Product(x)] = intent[Product(x)]
                         /\ syncer'[x].left = syncer[x].left
  PROVE  Serves(x)'
<1> SUFFICES ASSUME ServesOn(x)', IsPublished(intent[Product(x)])',
                    NEW s \in ((registry \cap Barred) \ syncer[x].left)'
             PROVE  Served(<<s, Product(x)>>, intent[Product(x)])'
  BY DEF Serves
<1>1. PICK p \in Products : p = Product(x)
  BY AtWork DEF ShopsInv, ServesOn
<1>2. PICK i : i = intent[p]
  OBVIOUS
<1>3. s \in Shops /\ s \in (registry \cap Barred) \ syncer[x].left
  BY DEF ShopsInv, ShopsTyped
<1>4. Served(<<s, p>>, i)
  BY <1>1, <1>2, <1>3 DEF ShopsInv, Serves, IsPublished
<1>5. Served(<<s, p>>, i)'
  BY <1>2, <1>3, <1>4 DEF NoMoreComes, Spots
<1>6. Product(x)' = p /\ (intent[Product(x)])' = i
  BY <1>1, <1>2
<1>7. QED BY <1>5, <1>6 DEF Served

\* A worker that stands still, and whose claim is no more the row's than before.
LEMMA StillFits ==
  ASSUME ShopsInv, NoMoreComes, UNCHANGED registry, NEW x \in Syncers,
         syncer'[x].at = syncer[x].at, syncer'[x].row = syncer[x].row, syncer'[x].v = syncer[x].v,
         syncer'[x].left = syncer[x].left, syncer'[x].failed = syncer[x].failed,
         syncer[x].at \notin {"idle", "batch"} /\ Current(x)' =>
            Current(x) /\ intent'[Product(x)] = intent[Product(x)]
  PROVE  ReadingFits(x)' /\ Serves(x)'
<1>1. Product(x)' = Product(x)
  BY SameHand
<1>2. Serves(x)'
  <2>1. ServesOn(x)' => ServesOn(x) /\ intent'[Product(x)] = intent[Product(x)]
    BY DEF ServesOn
  <2>2. QED BY <1>1, <2>1, StillServes
<1>3. ReadingFits(x)'
  <2>1. syncer[x].at \in HasRead => syncer[x].at \notin {"idle", "batch"}
    BY DEF HasRead, Flying
  <2>2. ReadingFits(x)
    BY DEF ShopsInv
  <2>3. PICK p : p = Product(x)
    OBVIOUS
  <2>4. QED BY <1>1, <2>1, <2>2, <2>3 DEF ReadingFits, IsPublished
<1>4. QED BY <1>2, <1>3

LEMMA QueueStillServes ==
  ASSUME ShopsInv, NoMoreComes, UNCHANGED registry, NEW p \in Products,
         queue'[p].st = "none" => queue[p].st = "none" /\ intent'[p] = intent[p]
  PROVE  QueueServes(p)'
<1> SUFFICES ASSUME (queue[p].st = "none" /\ IsPublished(intent[p]))', NEW s \in (registry \cap Barred)'
             PROVE  Served(<<s, p>>, intent[p])'
  BY DEF QueueServes
<1>1. PICK i : i = intent[p]
  OBVIOUS
<1>2. s \in Shops /\ s \in registry \cap Barred
  BY DEF ShopsInv, ShopsTyped
<1>3. Served(<<s, p>>, i)
  BY <1>1, <1>2 DEF ShopsInv, QueueServes, IsPublished
<1>4. Served(<<s, p>>, i)'
  BY <1>1, <1>2, <1>3 DEF NoMoreComes, Spots
<1>5. (intent[p])' = i
  BY <1>1
<1>6. QED BY <1>4, <1>5 DEF Served

LEMMA SameClaim ==
  ASSUME UNCHANGED queue, NEW x \in Syncers, syncer'[x].row = syncer[x].row,
         syncer'[x].token = syncer[x].token
  PROVE  Current(x)' <=> Current(x)
<1>1. Product(x)' = Product(x) /\ Claimed(x)' = Claimed(x)
  BY SameHand
<1>2. PICK p : p = Product(x)
  OBVIOUS
<1>3. PICK g : g = Claimed(x)
  OBVIOUS
<1>4. QED BY <1>1, <1>2, <1>3, CurrentIs

\* Where the queue is left alone, all but the one that moves fit.
LEMMA OneMovesOn ==
  ASSUME ShopsInv, Keeps, NEW w \in Syncers, NEW n, syncer' = [syncer EXCEPT ![w] = n],
         UNCHANGED <<registry, intent, queue>>, ReadingFits(w)', Serves(w)'
  PROVE  ShopsInv'
<1>1. ShopsTyped /\ NoMoreComes
  BY DEF ShopsInv, Keeps
<1>2. \A x \in Syncers : x # w => syncer'[x] = syncer[x]
  BY <1>1, OneMoves
<1>3. ASSUME NEW x \in Syncers, x # w PROVE ReadingFits(x)' /\ Serves(x)'
  <2>1. syncer'[x] = syncer[x]
    BY <1>2, <1>3
  <2>2. Current(x)' => Current(x)
    BY <2>1, SameClaim
  <2>3. QED BY <1>1, <2>1, <2>2, StillFits
<1>4. \A p \in Products : QueueServes(p)'
  BY <1>1, QueueStillServes
<1>5. \A p \in Products : QueueFits(p)'
  BY DEF ShopsInv, QueueFits
<1>6. QueueParts'
  BY <1>3, <1>4, <1>5 DEF QueueParts
<1>7. QED BY <1>6, InvOfParts

\* A worker goes on at its shop.
LEMMA AtShopStays ==
  ASSUME ShopsInv, Keeps, NEW w \in Syncers, NEW n, syncer' = [syncer EXCEPT ![w] = n],
         UNCHANGED <<registry, intent, queue>>,
         n.row = syncer[w].row, n.token = syncer[w].token, n.left = syncer[w].left,
         n.failed = syncer[w].failed, syncer[w].at \in {"wait"} \cup Working, n.at \in Working,
         \/ n.at = "read"
         \/ syncer[w].at \in HasRead \ {"done"} /\ n.v = syncer[w].v
         \/ n.v = intent[Product(w)]
         \/ n.at = "done" /\ n.v = 0 /\ ~IsPublished(intent[Product(w)])
  PROVE  ShopsInv'
<1>1. ShopsTyped /\ NoMoreComes
  BY DEF ShopsInv, Keeps
<1>2. syncer'[w] = n
  BY <1>1, OneMoves
<1>3. Product(w)' = Product(w) /\ (Current(w)' <=> Current(w))
  BY <1>2, SameHand, SameClaim
<1>4. Serves(w)'
  <2>1. ServesOn(w)' => ServesOn(w)
    BY <1>2, <1>3 DEF ServesOn, Working
  <2>2. QED BY <1>1, <1>2, <1>3, <2>1, StillServes
<1>5. ReadingFits(w)'
  <2>1. ReadingFits(w)
    BY DEF ShopsInv
  <2>2. PICK i : i = intent[Product(w)]
    OBVIOUS
  <2>3. intent'[Product(w)'] = i
    BY <1>3, <2>2
  <2>4. CASE n.at = "read"
    BY <1>2, <2>4 DEF ReadingFits, HasRead, Flying
  <2>5. CASE syncer[w].at \in HasRead \ {"done"} /\ n.v = syncer[w].v
    BY <1>2, <1>3, <2>1, <2>2, <2>3, <2>5 DEF ReadingFits
  <2>6. CASE n.v = i
    BY <1>2, <2>3, <2>6 DEF ReadingFits
  <2>7. CASE n.at = "done" /\ n.v = 0 /\ ~IsPublished(i)
    BY <1>2, <2>3, <2>7 DEF ReadingFits, IsPublished
  <2>8. QED BY <2>2, <2>4, <2>5, <2>6, <2>7
<1>6. QED BY <1>4, <1>5, OneMovesOn

LEMMA LockKeeps ==
  ASSUME ShopsInv, NEW w \in Syncers, LockProduct(w), MayStart(Spot(w))
  PROVE  ShopsInv'
<1>1. /\ ShopsTyped /\ LostAreCounted /\ SendersDiffer /\ LocksFit /\ WireFits
      /\ (\A x \in Syncers : WorkerFits(x) /\ SyncerShaped(x)) /\ \A s \in Spots : RemoteFits(s)
  BY InvParts
<1>2. PICK m \in SyncerRecords : m = syncer[w]
  BY <1>1, SyncerTyped
<1>3. PICK n : n = [m EXCEPT !.at = "read"]
  OBVIOUS
<1>4. /\ m.at = "wait" /\ syncLock[Spot(w)] = Nobody /\ barrier[Spot(w)].st = "none"
      /\ syncer' = [syncer EXCEPT ![w] = n] /\ syncLock' = [syncLock EXCEPT ![Spot(w)] = w]
      /\ UNCHANGED <<registry, intent, queue, barrier, mapped, wire, remote, resolver, mishaps>>
  BY <1>2, <1>3 DEF LockProduct, GoesTo, MayStart
<1>5. /\ n \in SyncerRecords /\ n.at = "read" /\ n.row = m.row /\ n.shop = m.shop /\ n.op = m.op
      /\ n.v = m.v /\ n.kind = m.kind /\ n.reply = m.reply
      /\ n.token = m.token /\ n.left = m.left /\ n.failed = m.failed
  BY <1>2, <1>3 DEF SyncerRecords, Working
<1>6. m.op = 0 /\ m.reply = "none" /\ n.op = 0
  BY <1>1, <1>2, <1>4, <1>5 DEF SyncerShaped, Flying
<1>7. Spot(w) \in Spots
  BY <1>1, <1>2, <1>4, AtWork
<1>8. /\ syncLock' \in [Spots -> Syncers \cup {Nobody}] /\ syncLock'[Spot(w)] = w
      /\ \A s \in Spots : s # Spot(w) => syncLock'[s] = syncLock[s]
  BY <1>1, <1>4, <1>7 DEF ShopsTyped
<1>9. /\ \A x \in Syncers : x # w => /\ WorkerFits(x)' /\ SyncerShaped(x)' /\ (Owns(x)' => Owns(x))
      /\ SendersDiffer' /\ LocksFit' /\ syncer' \in [Syncers -> SyncerRecords]
      /\ syncer'[w] = n /\ (\A x \in Syncers : x # w => syncer'[x] = syncer[x])
      /\ \A x \in Syncers : Spot(x)' = Spot(x) /\ Product(x)' = Product(x)
  BY <1>2, <1>4, <1>5, <1>6, <1>7, <1>8, GoesOnFits DEF Working
<1>10. SyncerShaped(w)'
  BY <1>1, <1>2, <1>4, <1>5, <1>6, <1>9 DEF SyncerShaped, Working, Flying, HasRead
<1>11. WorkerFits(w)'
  <2>1. \A r \in wire' : r.op # n.op
    BY <1>1, <1>4, <1>6, RequestTyped
  <2>2. n.at \notin {"ready", "map", "done"} \cup Flying
    BY <1>5 DEF Flying
  <2>3. QED BY <1>4, <1>9, <2>1, <2>2 DEF WorkerFits, About, Placed, Flying
<1>12. LostAreCounted'
  <2>1. Lost' \subseteq Lost
    BY <1>2, <1>4, <1>5, <1>9 DEF Lost
  <2>2. QED BY <1>1, <1>4, <2>1, LostStays DEF LostAreCounted
<1>13. WireFits' /\ \A s \in Spots : RemoteFits(s)'
  BY <1>1, <1>4 DEF WireFits, RemoteFits
<1>14. NoMoreComes
  <2>1. ~Coming(w)'
    BY <1>5, <1>9 DEF Coming, About
  <2>2. \A x \in Syncers : x # w /\ Coming(x)' => Coming(x)
    BY <1>9 DEF Coming, About
  <2>3. QED BY <1>4, <1>9, <2>1, <2>2 DEF NoMoreComes, Served
<1>15. ShopsTyped'
  BY <1>1, <1>4, <1>8, <1>9 DEF ShopsTyped
<1>16. WorksFit'
  BY <1>9, <1>10, <1>11, <1>12, <1>13 DEF WorksFit
<1>17. Keeps
  BY <1>14, <1>15, <1>16 DEF Keeps
<1>18. QED BY <1>2, <1>4, <1>5, <1>17, AtShopStays DEF Working, HasRead, Flying

LEMMA ReadKeeps ==
  ASSUME ShopsInv, NEW w \in Syncers, ReadDesired(w)
  PROVE  ShopsInv'
<1>1. /\ ShopsTyped /\ LostAreCounted /\ SendersDiffer /\ LocksFit /\ WireFits
      /\ (\A x \in Syncers : WorkerFits(x) /\ SyncerShaped(x)) /\ \A s \in Spots : RemoteFits(s)
  BY InvParts
<1>2. PICK m \in SyncerRecords : m = syncer[w]
  BY <1>1, SyncerTyped
<1>3. m.at = "read" /\ Spot(w) \in Spots /\ Product(w) \in Products /\ m.op = 0 /\ m.reply = "none"
      /\ m.shop \in Shops
  <2>1. m.at = "read"
    BY <1>2 DEF ReadDesired
  <2>2. QED BY <1>1, <1>2, <2>1, AtWork DEF SyncerShaped, Working, Flying, HasRead
<1>4. PICK v \in 1 .. MaxIntent : v = intent[Product(w)]
  BY <1>1, <1>3 DEF ShopsTyped
<1>5. PICK k \in {"update", "create"} :
        k = IF mapped[Spot(w)] \/ remote[Spot(w)].product # 0 THEN "update" ELSE "create"
  OBVIOUS
<1>6. PICK n : n = IF ~IsPublished(v) /\ ~mapped[Spot(w)] THEN [m EXCEPT !.at = "done"]
                   ELSE [m EXCEPT !.at = "ready", !.v = v, !.kind = k]
  OBVIOUS
<1>7. /\ syncer' = [syncer EXCEPT ![w] = n]
      /\ UNCHANGED <<registry, intent, queue, syncLock, barrier, mapped, wire, remote, resolver, mishaps>>
  BY <1>2, <1>4, <1>5, <1>6 DEF ReadDesired, GoesTo
<1>8. v \in 0 .. MaxIntent /\ k \in Kinds
  BY CommerceAssumption DEF Kinds
<1>9. /\ n.token = m.token /\ n.left = m.left /\ n.failed = m.failed
      /\ n \in SyncerRecords /\ n.row = m.row /\ n.shop = m.shop /\ n.op = 0 /\ n.reply = "none"
      /\ \/ n.at = "done" /\ n.v = m.v /\ n.kind = m.kind /\ ~IsPublished(v)
         \/ n.at = "ready" /\ n.v = v /\ n.kind = k
  <2>1. \A q \in SyncerRecords : LET d == [q EXCEPT !.at = "done"] IN
          /\ d \in SyncerRecords /\ d.token = q.token /\ d.left = q.left /\ d.failed = q.failed
          /\ d.row = q.row /\ d.shop = q.shop /\ d.op = q.op /\ d.reply = q.reply
          /\ d.at = "done" /\ d.v = q.v /\ d.kind = q.kind
    BY DEF SyncerRecords, Working
  <2>2. \A q \in SyncerRecords : LET d == [q EXCEPT !.at = "ready", !.v = v, !.kind = k] IN
          /\ d \in SyncerRecords /\ d.token = q.token /\ d.left = q.left /\ d.failed = q.failed
          /\ d.row = q.row /\ d.shop = q.shop /\ d.op = q.op /\ d.reply = q.reply
          /\ d.at = "ready" /\ d.v = v /\ d.kind = k
    BY <1>8 DEF SyncerRecords, Working
  <2>3. QED BY <1>3, <1>6, <2>1, <2>2
<1>10. /\ \A x \in Syncers : x # w => /\ WorkerFits(x)' /\ SyncerShaped(x)' /\ (Owns(x)' => Owns(x))
       /\ SendersDiffer' /\ LocksFit' /\ syncer' \in [Syncers -> SyncerRecords]
       /\ syncer'[w] = n /\ (\A x \in Syncers : x # w => syncer'[x] = syncer[x])
       /\ \A x \in Syncers : Spot(x)' = Spot(x) /\ Product(x)' = Product(x)
  BY <1>2, <1>3, <1>7, <1>9, GoesOnFits DEF Working
<1>11. syncer[w].v = 0 /\ syncer[w].kind = "update"
  BY <1>1, <1>2, <1>3 DEF SyncerShaped, HasRead, Flying
<1>12. SyncerShaped(w)'
  BY <1>1, <1>2, <1>3, <1>9, <1>10, <1>11 DEF SyncerShaped, Working, Flying, HasRead
<1>13. Owns(w)' => Owns(w)
  BY <1>2, <1>3, <1>7, <1>10 DEF Owns, Working
<1>14. Owns(w) /\ m.shop \in Barred => barrier[Spot(w)].st = "none"
  BY <1>1, <1>2, <1>3 DEF WorkerFits, Flying
<1>15. WorkerFits(w)'
  <2>1. \A r \in wire' : r.op # n.op
    BY <1>1, <1>7, <1>9, RequestTyped
  <2>2. n.at \notin Flying /\ n.kind # "stock" /\ n.at \notin {"map", "sent"}
    BY <1>2, <1>9, <1>11 DEF Flying
  <2>3. ~About(w)' /\ ~Placed(w)'
    BY <1>9, <1>10, <2>2 DEF About, Placed
  <2>4. n.at = "ready" /\ n.kind = "create" => remote[Spot(w)].product = 0
    BY <1>5, <1>9
  <2>5. Spot(w)' = Spot(w) /\ syncer'[w] = n /\ UNCHANGED <<barrier, remote, mapped>>
    BY <1>7, <1>10
  <2>6. QED BY <1>2, <1>9, <1>13, <1>14, <2>1, <2>2, <2>3, <2>4, <2>5 DEF WorkerFits
<1>16. LostAreCounted'
  <2>1. Lost' \subseteq Lost
    BY <1>2, <1>3, <1>7, <1>9, <1>10 DEF Lost
  <2>2. QED BY <1>1, <1>7, <2>1, LostStays DEF LostAreCounted
<1>17. WireFits' /\ \A s \in Spots : RemoteFits(s)'
  BY <1>1, <1>7 DEF WireFits, RemoteFits
<1>18. NoMoreComes
  <2>1. \A x \in Syncers : x # w /\ Coming(x)' => Coming(x)
    BY <1>10 DEF Coming, About
  <2>2. Coming(w)' => n.v = intent[Spot(w)[2]]
    BY <1>4, <1>9, <1>10 DEF Coming, About, Spot
  <2>3. UNCHANGED <<wire, remote, intent>> /\ \A x \in Syncers : Spot(x)' = Spot(x)
    BY <1>7, <1>10
  <2>4. QED BY <1>10, <2>1, <2>2, <2>3 DEF NoMoreComes, Served
<1>19. ShopsTyped'
  BY <1>1, <1>7, <1>10 DEF ShopsTyped
<1>20. WorksFit'
  BY <1>10, <1>12, <1>15, <1>16, <1>17 DEF WorksFit
<1>21. Keeps
  BY <1>18, <1>19, <1>20 DEF Keeps
<1>22. QED BY <1>2, <1>3, <1>4, <1>7, <1>9, <1>11, <1>21, AtShopStays DEF Working, HasRead, Flying

LEMMA BeginMutationKeeps ==
  ASSUME ShopsInv, NEW w \in Syncers, BeginMutation(w)
  PROVE  ShopsInv'
<1>1. /\ ShopsTyped /\ LostAreCounted /\ SendersDiffer /\ LocksFit /\ WireFits
      /\ (\A x \in Syncers : WorkerFits(x) /\ SyncerShaped(x)) /\ \A s \in Spots : RemoteFits(s)
  BY InvParts
<1>2. PICK m \in SyncerRecords : m = syncer[w]
  BY <1>1, SyncerTyped
<1>3. PICK f \in Requests : f = FreshRequest
  BY <1>1, FreshRequestIsNew
<1>4. /\ f # 0 /\ (\A r \in wire : r.op # f) /\ (\A x \in Syncers : syncer[x].op # f) /\ resolver.op # f
  BY <1>1, <1>3, FreshRequestIsNew
<1>5. PICK n : n = [m EXCEPT !.at = "begun", !.op = f]
  OBVIOUS
<1>6. /\ m.at = "ready" /\ m.shop \in Barred /\ syncLock[Spot(w)] = w /\ barrier[Spot(w)].st = "none"
      /\ syncer' = [syncer EXCEPT ![w] = n] /\ barrier' = [barrier EXCEPT ![Spot(w)] = InFlight(f)]
      /\ UNCHANGED <<registry, intent, queue, syncLock, mapped, wire, remote, resolver, mishaps>>
  BY <1>2, <1>3, <1>5 DEF BeginMutation, GoesTo, SessionLives, InFlight
<1>7. /\ n.token = m.token /\ n.left = m.left /\ n.failed = m.failed
      /\ n \in SyncerRecords /\ n.row = m.row /\ n.shop = m.shop /\ n.op = f /\ n.reply = m.reply
      /\ n.at = "begun" /\ n.v = m.v /\ n.kind = m.kind
  BY <1>2, <1>5 DEF SyncerRecords, Working
<1>8. Spot(w) \in Spots /\ Product(w) \in Products /\ m.op = 0 /\ m.reply = "none" /\ Owns(w)
  <2>1. m.op = 0 /\ m.reply = "none"
    BY <1>1, <1>2, <1>6 DEF SyncerShaped, Flying
  <2>2. QED BY <1>1, <1>2, <1>6, <2>1, AtWork DEF Owns, Working
<1>9. /\ barrier' \in [Spots -> BarrierRecords] /\ barrier'[Spot(w)] = InFlight(f)
      /\ \A s \in Spots : s # Spot(w) => barrier'[s] = barrier[s]
  <2>1. InFlight(f) \in BarrierRecords
    BY <1>3 DEF InFlight, BarrierRecords
  <2>2. QED BY <1>1, <1>6, <1>8, <2>1 DEF ShopsTyped
<1>10. /\ \A x \in Syncers : x # w => /\ WorkerFits(x)' /\ SyncerShaped(x)' /\ (Owns(x)' => Owns(x))
       /\ SendersDiffer' /\ LocksFit' /\ syncer' \in [Syncers -> SyncerRecords]
       /\ syncer'[w] = n /\ (\A x \in Syncers : x # w => syncer'[x] = syncer[x])
       /\ \A x \in Syncers : Spot(x)' = Spot(x) /\ Product(x)' = Product(x)
  BY <1>2, <1>4, <1>6, <1>7, <1>8, <1>9, GoesOnFits DEF Working
<1>11. SyncerShaped(w)'
  BY <1>1, <1>2, <1>4, <1>6, <1>7, <1>8, <1>10 DEF SyncerShaped, Working, Flying, HasRead
<1>12. WorkerFits(w)'
  <2>1. \A r \in wire' : r.op # n.op
    BY <1>4, <1>6, <1>7
  <2>2. Placed(w)' => Placed(w)
    BY <1>2, <1>6, <1>7, <1>10 DEF Placed
  <2>3. m.kind = "stock" => mapped[Spot(w)]
    BY <1>1, <1>2, <1>6 DEF WorkerFits
  <2>4. /\ m.kind = "create" => remote[Spot(w)].product = 0
        /\ Placed(w) => remote[Spot(w)].product = m.v /\ remote[Spot(w)].stock \in {0, m.v}
    BY <1>1, <1>2, <1>6, <1>8 DEF WorkerFits
  <2>5. Spot(w)' = Spot(w) /\ syncer'[w] = n /\ UNCHANGED <<remote, mapped, resolver>>
    BY <1>6, <1>10
  <2>6. n.at \in Flying
    BY <1>7 DEF Flying
  <2>7. QED BY <1>4, <1>7, <1>9, <2>1, <2>2, <2>3, <2>4, <2>5, <2>6 DEF WorkerFits
<1>13. LostAreCounted'
  <2>1. Lost' \subseteq Lost
    BY <1>1, <1>2, <1>6, <1>8, <1>10, RequestTyped DEF Lost
  <2>2. QED BY <1>1, <1>6, <2>1, LostStays DEF LostAreCounted
<1>14. WireFits'
  <2>1. \A r \in wire : r.at \in Spots /\ (r.at[1] \in Barred => r.at # Spot(w))
    BY <1>1, <1>6, RequestTyped DEF WireFits
  <2>2. QED BY <1>1, <1>6, <1>9, <2>1 DEF WireFits
<1>15. \A s \in Spots : RemoteFits(s)'
  BY <1>1, <1>6 DEF RemoteFits
<1>16. NoMoreComes
  <2>1. \A x \in Syncers : Coming(x)' => Coming(x) /\ syncer'[x].v = syncer[x].v
    BY <1>2, <1>6, <1>7, <1>8, <1>10 DEF Coming, About
  <2>2. UNCHANGED <<wire, remote>> /\ \A x \in Syncers : Spot(x)' = Spot(x)
    BY <1>6, <1>10
  <2>3. QED BY <2>1, <2>2 DEF NoMoreComes, Served
<1>17. ShopsTyped'
  BY <1>1, <1>6, <1>9, <1>10 DEF ShopsTyped
<1>18. WorksFit'
  BY <1>10, <1>11, <1>12, <1>13, <1>14, <1>15 DEF WorksFit
<1>19. Keeps
  BY <1>16, <1>17, <1>18 DEF Keeps
<1>20. QED BY <1>2, <1>6, <1>7, <1>19, AtShopStays DEF Working, HasRead, Flying

LEMMA ClearKeeps ==
  ASSUME ShopsInv, NEW w \in Syncers, ClearToSend(w)
  PROVE  ShopsInv'
<1>1. /\ ShopsTyped /\ LostAreCounted /\ SendersDiffer /\ LocksFit /\ WireFits
      /\ (\A x \in Syncers : WorkerFits(x) /\ SyncerShaped(x)) /\ \A s \in Spots : RemoteFits(s)
  BY InvParts
<1>2. PICK m \in SyncerRecords : m = syncer[w]
  BY <1>1, SyncerTyped
<1>3. PICK n : n = [m EXCEPT !.at = "cleared"]
  OBVIOUS
<1>4. /\ m.at = "begun" /\ syncLock[Spot(w)] = w /\ syncer' = [syncer EXCEPT ![w] = n]
      /\ UNCHANGED <<registry, intent, queue, syncLock, barrier, mapped, wire, remote, resolver, mishaps>>
  BY <1>2, <1>3 DEF ClearToSend, GoesTo, SessionLives
<1>5. /\ n.token = m.token /\ n.left = m.left /\ n.failed = m.failed
      /\ n \in SyncerRecords /\ n.row = m.row /\ n.shop = m.shop /\ n.op = m.op /\ n.reply = m.reply
      /\ n.at = "cleared" /\ n.v = m.v /\ n.kind = m.kind
  BY <1>2, <1>3 DEF SyncerRecords, Working
<1>6. m.op # 0 /\ m.reply = "none" /\ Owns(w)
  BY <1>1, <1>2, <1>4 DEF SyncerShaped, Flying, Owns, Working
<1>7. /\ \A x \in Syncers : x # w => /\ WorkerFits(x)' /\ SyncerShaped(x)' /\ (Owns(x)' => Owns(x))
      /\ SendersDiffer' /\ LocksFit' /\ syncer' \in [Syncers -> SyncerRecords]
      /\ syncer'[w] = n /\ (\A x \in Syncers : x # w => syncer'[x] = syncer[x])
      /\ \A x \in Syncers : Spot(x)' = Spot(x) /\ Product(x)' = Product(x)
  <2>1. \A x \in Syncers : x # w => syncer[x].op # n.op
    BY <1>1, <1>2, <1>5, <1>6 DEF SendersDiffer
  <2>2. QED BY <1>2, <1>4, <1>5, <2>1, GoesOnFits DEF Working
<1>8. SyncerShaped(w)'
  BY <1>1, <1>2, <1>4, <1>5, <1>6, <1>7 DEF SyncerShaped, Working, Flying, HasRead
<1>9. WorkerFits(w)'
  <2>1. About(w) /\ About(w)' /\ Placed(w)' = Placed(w)
    BY <1>2, <1>4, <1>5, <1>7 DEF About, Placed, Flying
  <2>2. Spot(w)' = Spot(w) /\ syncer'[w] = n /\ UNCHANGED <<barrier, remote, mapped, resolver, wire>>
    BY <1>4, <1>7
  <2>3. n.at \in Flying /\ m.at \in Flying /\ m.at # "sent"
    BY <1>4, <1>5 DEF Flying
  <2>4. QED BY <1>1, <1>2, <1>4, <1>5, <1>6, <2>1, <2>2, <2>3 DEF WorkerFits
<1>10. LostAreCounted'
  <2>1. Lost' \subseteq Lost
    BY <1>2, <1>4, <1>5, <1>7 DEF Lost
  <2>2. QED BY <1>1, <1>4, <2>1, LostStays DEF LostAreCounted
<1>11. WireFits' /\ \A s \in Spots : RemoteFits(s)'
  BY <1>1, <1>4 DEF WireFits, RemoteFits
<1>12. NoMoreComes
  <2>1. \A x \in Syncers : Coming(x)' => Coming(x) /\ syncer'[x].v = syncer[x].v
    BY <1>2, <1>4, <1>5, <1>7 DEF Coming, About
  <2>2. UNCHANGED <<wire, remote>> /\ \A x \in Syncers : Spot(x)' = Spot(x)
    BY <1>4, <1>7
  <2>3. QED BY <2>1, <2>2 DEF NoMoreComes, Served
<1>13. ShopsTyped'
  BY <1>1, <1>4, <1>7 DEF ShopsTyped
<1>14. WorksFit'
  BY <1>7, <1>8, <1>9, <1>10, <1>11 DEF WorksFit
<1>15. Keeps
  BY <1>12, <1>13, <1>14 DEF Keeps
<1>16. QED BY <1>2, <1>4, <1>5, <1>15, AtShopStays DEF Working, HasRead, Flying

LEMMA SendKeeps ==
  ASSUME ShopsInv, NEW w \in Syncers, Send(w)
  PROVE  ShopsInv'
<1>1. /\ ShopsTyped /\ LostAreCounted /\ SendersDiffer /\ LocksFit /\ WireFits
      /\ (\A x \in Syncers : WorkerFits(x) /\ SyncerShaped(x)) /\ \A s \in Spots : RemoteFits(s)
  BY InvParts
<1>2. PICK m \in SyncerRecords : m = syncer[w]
  BY <1>1, SyncerTyped
<1>3. PICK o : o = IF m.shop \in Barred THEN m.op ELSE FreshRequest
  OBVIOUS
<1>4. PICK n : n = [m EXCEPT !.at = "sent", !.op = o]
  OBVIOUS
<1>5. PICK r : r = [op |-> o, at |-> Spot(w), kind |-> m.kind, v |-> m.v]
  OBVIOUS
<1>6. /\ m.at = "cleared" \/ (m.at = "ready" /\ m.shop \notin Barred)
      /\ syncer' = [syncer EXCEPT ![w] = n] /\ wire' = wire \cup {r}
      /\ UNCHANGED <<registry, intent, queue, syncLock, barrier, mapped, remote, resolver, mishaps>>
  BY <1>2, <1>3, <1>4, <1>5 DEF Send, GoesTo
<1>7. /\ m.shop \in Barred => m.at = "cleared" /\ About(w) /\ m.op # 0 /\ o = m.op
      /\ m.shop \notin Barred => m.at = "ready" /\ m.op = 0 /\ o = FreshRequest
      /\ m.reply = "none" /\ m.v # 0 /\ Spot(w) \in Spots /\ Spot(w)[1] = m.shop
  BY <1>1, <1>2, <1>3, <1>6, AtWork DEF SyncerShaped, Working, Flying, About, Spot
<1>8. /\ o \in Requests /\ o # 0 /\ (\A q \in wire : q.op # o)
      /\ (\A x \in Syncers : x # w => syncer[x].op # o)
      /\ resolver.at = "sure" => o # resolver.op
  <2>1. CASE m.shop \in Barred
    <3>1. o \in Requests /\ o # 0
      BY <1>1, <1>2, <1>7, <2>1, SyncerTyped
    <3>2. \A q \in wire : q.op # o
      BY <1>1, <1>2, <1>7, <2>1 DEF WorkerFits
    <3>3. \A x \in Syncers : x # w => syncer[x].op # o
      BY <1>1, <1>2, <1>7, <2>1 DEF SendersDiffer
    <3>4. resolver.at = "sure" => o # resolver.op
      BY <1>1, <1>2, <1>7, <2>1 DEF WorkerFits
    <3>5. QED BY <3>1, <3>2, <3>3, <3>4
  <2>2. CASE m.shop \notin Barred
    BY <1>1, <1>7, <2>2, FreshRequestIsNew
  <2>3. QED BY <2>1, <2>2
<1>9. /\ n.token = m.token /\ n.left = m.left /\ n.failed = m.failed
      /\ n \in SyncerRecords /\ n.row = m.row /\ n.shop = m.shop /\ n.op = o /\ n.reply = m.reply
      /\ n.at = "sent" /\ n.v = m.v /\ n.kind = m.kind
  BY <1>2, <1>4, <1>8 DEF SyncerRecords, Working
<1>10. r \in RequestRecords /\ r.op = o /\ r.at = Spot(w) /\ r.kind = m.kind /\ r.v = m.v
  <2>1. m.v \in 1 .. MaxIntent /\ m.kind \in Kinds
    BY <1>1, <1>2, <1>7, SyncerTyped, CommerceAssumption
  <2>2. QED BY <1>5, <1>7, <1>8, <2>1 DEF RequestRecords
<1>11. /\ \A x \in Syncers : x # w => /\ WorkerFits(x)' /\ SyncerShaped(x)' /\ (Owns(x)' => Owns(x))
       /\ SendersDiffer' /\ LocksFit' /\ syncer' \in [Syncers -> SyncerRecords]
       /\ syncer'[w] = n /\ (\A x \in Syncers : x # w => syncer'[x] = syncer[x])
       /\ \A x \in Syncers : Spot(x)' = Spot(x) /\ Product(x)' = Product(x)
  <2>1. /\ n.row = syncer[w].row /\ n.shop = syncer[w].shop /\ n.op = o
        /\ n.at \in Working /\ syncer[w].at \in {"wait"} \cup Working
    BY <1>2, <1>6, <1>9 DEF Working
  <2>2. \A q \in wire' : q \in wire \/ (q.op = n.op /\ n.op # 0)
    BY <1>6, <1>8, <1>9, <1>10
  <2>3. n.op # 0 => \A x \in Syncers : x # w => syncer[x].op # n.op
    BY <1>8, <1>9
  <2>4. QED BY <1>6, <1>9, <2>1, <2>2, <2>3, GoesOnFits
<1>12. m.kind = "stock" => mapped[Spot(w)]
  BY <1>1, <1>2, <1>6 DEF WorkerFits, Flying
<1>13. m.shop \in Barred => /\ barrier[Spot(w)] = InFlight(o)
                            /\ m.kind = "create" => remote[Spot(w)].product = 0
  BY <1>1, <1>2, <1>7 DEF WorkerFits
<1>14. SyncerShaped(w)'
  BY <1>1, <1>2, <1>7, <1>8, <1>9, <1>11 DEF SyncerShaped, Working, Flying, HasRead
<1>15. WorkerFits(w)'
  <2>1. \A q \in wire' : q.op = o => q = r
    BY <1>6, <1>8
  <2>2. Spot(w)' = Spot(w) /\ syncer'[w] = n /\ UNCHANGED <<barrier, remote, mapped, resolver>>
    BY <1>6, <1>11
  <2>3. ~About(w)'
    BY <1>9, <1>11 DEF About
  <2>4. (Owns(w)' => Owns(w)) /\ (Placed(w)' => Placed(w))
    BY <1>2, <1>6, <1>7, <1>9, <1>11 DEF Owns, Placed, Working, Flying
  <2>5. m.shop \in Barred /\ Owns(w) /\ Placed(w) =>
            remote[Spot(w)].product = m.v /\ remote[Spot(w)].stock \in {0, m.v}
    BY <1>1, <1>2 DEF WorkerFits
  <2>6. n.at \in Flying
    BY <1>9 DEF Flying
  <2>7. QED BY <1>7, <1>9, <1>10, <1>12, <1>13, <2>1, <2>2, <2>3, <2>4, <2>5, <2>6 DEF WorkerFits
<1>16. LostAreCounted'
  <2>1. Lost' \subseteq Lost
    <3>1. r \notin Lost'
      BY <1>9, <1>10, <1>11 DEF Lost
    <3>2. \A q \in wire : q.op = syncer[w].op => q.op = o
      BY <1>1, <1>2, <1>7, RequestTyped
    <3>3. QED BY <1>6, <1>8, <1>11, <3>1, <3>2 DEF Lost
  <2>2. IsFiniteSet(wire')
    BY <1>1, <1>6, FS_AddElement DEF LostAreCounted
  <2>3. QED BY <1>1, <1>6, <2>1, <2>2, LostStays
<1>17. WireFits'
  BY <1>1, <1>6, <1>7, <1>8, <1>10, <1>12, <1>13, InFlightFields DEF WireFits
<1>18. \A s \in Spots : RemoteFits(s)'
  BY <1>1, <1>6 DEF RemoteFits
<1>19. NoMoreComes
  <2>1. \A x \in Syncers : Coming(x)' /\ Spot(x)[1] \in Barred => Coming(x) /\ syncer'[x].v = syncer[x].v
    BY <1>2, <1>6, <1>7, <1>9, <1>11 DEF Coming, About
  <2>2. m.shop \in Barred => Coming(w)
    BY <1>7 DEF Coming
  <2>3. UNCHANGED remote /\ \A x \in Syncers : Spot(x)' = Spot(x)
    BY <1>6, <1>11
  <2>4. QED BY <1>2, <1>6, <1>7, <1>10, <2>1, <2>2, <2>3 DEF NoMoreComes, Served
<1>20. ShopsTyped'
  BY <1>1, <1>6, <1>10, <1>11 DEF ShopsTyped
<1>21. WorksFit'
  BY <1>11, <1>14, <1>15, <1>16, <1>17, <1>18 DEF WorksFit
<1>22. Keeps
  BY <1>19, <1>20, <1>21 DEF Keeps
<1>23. QED BY <1>2, <1>6, <1>9, <1>22, AtShopStays DEF Working, HasRead, Flying

LEMMA CompleteKeeps ==
  ASSUME ShopsInv, NEW w \in Syncers, CompleteMutation(w)
  PROVE  ShopsInv'
<1>1. /\ ShopsTyped /\ LostAreCounted /\ SendersDiffer /\ LocksFit /\ WireFits
      /\ (\A x \in Syncers : WorkerFits(x) /\ SyncerShaped(x)) /\ \A s \in Spots : RemoteFits(s)
  BY InvParts
<1>2. PICK m \in SyncerRecords : m = syncer[w]
  BY <1>1, SyncerTyped
<1>3. PICK a : a = CASE m.reply = "refused" -> "refused"
                     [] m.reply = "applied" /\ m.kind = "stock" -> "done"
                     [] OTHER -> "map"
  OBVIOUS
<1>4. PICK n : n = [m EXCEPT !.op = 0, !.reply = "none", !.at = a]
  OBVIOUS
<1>5. PICK b : b = Cleared(Spot(w), m.op)
  OBVIOUS
<1>6. /\ m.at = "sent" /\ m.reply # "none" /\ syncer' = [syncer EXCEPT ![w] = n]
      /\ m.shop \in Barred => barrier[Spot(w)] = InFlight(m.op)
      /\ barrier' = [barrier EXCEPT ![Spot(w)] = b]
      /\ UNCHANGED <<registry, intent, queue, syncLock, mapped, wire, remote, resolver, mishaps>>
  BY <1>2, <1>3, <1>4, <1>5 DEF CompleteMutation, GoesTo, InFlight
<1>7. /\ m.op # 0 /\ m.v # 0 /\ Spot(w) \in Spots /\ Spot(w)[1] = m.shop
      /\ m.reply \in {"applied", "refused"}
  BY <1>1, <1>2, <1>6, AtWork, SyncerTyped DEF SyncerShaped, Working, Flying, Spot
<1>8. /\ a \in {"refused", "done", "map"} /\ (a = "done" => m.kind = "stock" /\ m.reply = "applied")
      /\ (a = "map" => m.reply = "applied")
  BY <1>3, <1>7
<1>9. /\ n.token = m.token /\ n.left = m.left /\ n.failed = m.failed
      /\ n \in SyncerRecords /\ n.row = m.row /\ n.shop = m.shop /\ n.op = 0 /\ n.reply = "none"
      /\ n.at = a /\ n.v = m.v /\ n.kind = m.kind
  BY <1>2, <1>4, <1>8 DEF SyncerRecords, Working
<1>10. /\ b = barrier[Spot(w)] \/ (barrier[Spot(w)] = InFlight(m.op) /\ b = NoBarrier)
       /\ b \in BarrierRecords /\ NoBarrier.st = "none"
       /\ m.shop \in Barred => b.st = "none"
  BY <1>1, <1>5, <1>6, <1>7, SpotTyped DEF Cleared, InFlight, NoBarrier, BarrierRecords
<1>11. /\ barrier' \in [Spots -> BarrierRecords] /\ barrier'[Spot(w)] = b
       /\ \A s \in Spots : s # Spot(w) => barrier'[s] = barrier[s]
  BY <1>1, <1>6, <1>7, <1>10 DEF ShopsTyped
<1>12. /\ \A x \in Syncers : x # w => /\ WorkerFits(x)' /\ SyncerShaped(x)' /\ (Owns(x)' => Owns(x))
       /\ SendersDiffer' /\ LocksFit' /\ syncer' \in [Syncers -> SyncerRecords]
       /\ syncer'[w] = n /\ (\A x \in Syncers : x # w => syncer'[x] = syncer[x])
       /\ \A x \in Syncers : Spot(x)' = Spot(x) /\ Product(x)' = Product(x)
  <2>1. /\ n.row = syncer[w].row /\ n.shop = syncer[w].shop /\ n.op = 0
        /\ n.at \in Working /\ syncer[w].at \in {"wait"} \cup Working
    BY <1>2, <1>6, <1>8, <1>9 DEF Working
  <2>2. \A s \in Spots : \/ barrier'[s] = barrier[s]
                         \/ /\ s = Spot(w) /\ (barrier[s].st = "none" \/ syncer[w].op # 0)
                            /\ barrier[s].st = "none" \/ barrier[s] = InFlight(syncer[w].op)
                            /\ barrier'[s].st = "none" \/ Owns(w)
    BY <1>2, <1>7, <1>10, <1>11
  <2>3. \A r \in wire' : r \in wire \/ (r.op = n.op /\ n.op # 0)
    BY <1>6
  <2>4. QED BY <1>6, <1>9, <2>1, <2>2, <2>3, GoesOnFits
<1>13. SyncerShaped(w)'
  BY <1>1, <1>2, <1>6, <1>7, <1>8, <1>9, <1>12 DEF SyncerShaped, Working, Flying, HasRead
<1>14. WorkerFits(w)'
  <2>1. \A q \in wire' : q.op # 0
    BY <1>1, <1>6, RequestTyped
  <2>2. Spot(w)' = Spot(w) /\ syncer'[w] = n /\ barrier'[Spot(w)] = b /\ UNCHANGED <<remote, mapped, resolver>>
    BY <1>6, <1>11, <1>12
  <2>3. ~About(w)' /\ n.at \notin {"ready"} \cup Flying
    BY <1>8, <1>9, <1>12 DEF About, Flying
  <2>4. (Owns(w)' => Owns(w)) /\ (Placed(w)' => Placed(w))
    BY <1>2, <1>6, <1>7, <1>8, <1>9, <1>12 DEF Owns, Placed, Working, Flying
  <2>5. m.shop \in Barred /\ Owns(w) /\ Placed(w) =>
            remote[Spot(w)].product = m.v /\ remote[Spot(w)].stock \in {0, m.v}
    BY <1>1, <1>2 DEF WorkerFits
  <2>6. QED BY <1>9, <1>10, <2>1, <2>2, <2>3, <2>4, <2>5 DEF WorkerFits
<1>15. \A q \in wire : q.op # m.op
  BY <1>1, <1>2, <1>6 DEF WorkerFits
<1>16. LostAreCounted'
  <2>1. Lost' \subseteq Lost
    BY <1>2, <1>6, <1>12, <1>15 DEF Lost
  <2>2. QED BY <1>1, <1>6, <2>1, LostStays DEF LostAreCounted
<1>17. WireFits'
  <2>1. \A q \in wire : q.at \in Spots /\ (q.at[1] \in Barred => barrier[q.at] = barrier'[q.at])
    BY <1>1, <1>10, <1>11, <1>15, RequestTyped, InFlightFields DEF WireFits
  <2>2. QED BY <1>1, <1>6, <2>1 DEF WireFits
<1>18. \A s \in Spots : RemoteFits(s)'
  BY <1>1, <1>6 DEF RemoteFits
<1>19. NoMoreComes
  <2>1. \A x \in Syncers : Coming(x)' => Coming(x) /\ syncer'[x].v = syncer[x].v
    BY <1>2, <1>6, <1>8, <1>9, <1>12 DEF Coming, About, Owns, Working
  <2>2. UNCHANGED <<wire, remote>> /\ \A x \in Syncers : Spot(x)' = Spot(x)
    BY <1>6, <1>12
  <2>3. QED BY <2>1, <2>2 DEF NoMoreComes, Served
<1>20. ShopsTyped'
  BY <1>1, <1>6, <1>11, <1>12 DEF ShopsTyped
<1>21. WorksFit'
  BY <1>12, <1>13, <1>14, <1>16, <1>17, <1>18 DEF WorksFit
<1>22. Keeps
  BY <1>19, <1>20, <1>21 DEF Keeps
<1>23. QED BY <1>2, <1>6, <1>8, <1>9, <1>22, AtShopStays DEF Working, HasRead, Flying

LEMMA SaveMappingKeeps ==
  ASSUME ShopsInv, NEW w \in Syncers, SaveMapping(w)
  PROVE  ShopsInv'
<1>1. /\ ShopsTyped /\ LostAreCounted /\ SendersDiffer /\ LocksFit /\ WireFits
      /\ (\A x \in Syncers : WorkerFits(x) /\ SyncerShaped(x)) /\ \A s \in Spots : RemoteFits(s)
  BY InvParts
<1>2. PICK m \in SyncerRecords : m = syncer[w]
  BY <1>1, SyncerTyped
<1>3. PICK n : n = [m EXCEPT !.at = "ready", !.kind = "stock"]
  OBVIOUS
<1>4. /\ m.at = "map" /\ syncer' = [syncer EXCEPT ![w] = n] /\ mapped' = [mapped EXCEPT ![Spot(w)] = TRUE]
      /\ UNCHANGED <<registry, intent, queue, syncLock, barrier, wire, remote, resolver, mishaps>>
  BY <1>2, <1>3 DEF SaveMapping, GoesTo, Maps
<1>5. /\ n.token = m.token /\ n.left = m.left /\ n.failed = m.failed
      /\ n \in SyncerRecords /\ n.row = m.row /\ n.shop = m.shop /\ n.op = m.op /\ n.reply = m.reply
      /\ n.at = "ready" /\ n.v = m.v /\ n.kind = "stock"
  BY <1>2, <1>3 DEF SyncerRecords, Working, Kinds
<1>6. m.op = 0 /\ m.reply = "none" /\ Spot(w) \in Spots
  BY <1>1, <1>2, <1>4, AtWork DEF SyncerShaped, Flying, Working
<1>7. /\ mapped' \in [Spots -> BOOLEAN] /\ mapped'[Spot(w)] /\ \A s \in Spots : mapped[s] => mapped'[s]
  <2>1. \A s \in Spots : mapped'[s] = IF s = Spot(w) THEN TRUE ELSE mapped[s]
    BY <1>1, <1>4 DEF ShopsTyped
  <2>2. mapped' \in [Spots -> BOOLEAN]
    BY <1>1, <1>4 DEF ShopsTyped
  <2>3. QED BY <1>6, <2>1, <2>2
<1>8. /\ \A x \in Syncers : x # w => /\ WorkerFits(x)' /\ SyncerShaped(x)' /\ (Owns(x)' => Owns(x))
      /\ SendersDiffer' /\ LocksFit' /\ syncer' \in [Syncers -> SyncerRecords]
      /\ syncer'[w] = n /\ (\A x \in Syncers : x # w => syncer'[x] = syncer[x])
      /\ \A x \in Syncers : Spot(x)' = Spot(x) /\ Product(x)' = Product(x)
  BY <1>2, <1>4, <1>5, <1>6, <1>7, GoesOnFits DEF Working
<1>9. SyncerShaped(w)'
  BY <1>1, <1>2, <1>4, <1>5, <1>6, <1>8 DEF SyncerShaped, Working, Flying, HasRead
<1>10. WorkerFits(w)'
  <2>1. \A q \in wire' : q.op # n.op
    BY <1>1, <1>4, <1>5, <1>6, RequestTyped
  <2>2. Spot(w)' = Spot(w) /\ syncer'[w] = n /\ UNCHANGED <<barrier, remote, resolver>>
    BY <1>4, <1>8
  <2>3. ~About(w)' /\ n.at \notin Flying /\ Placed(w) /\ m.at \notin Flying
    BY <1>2, <1>4, <1>5, <1>8 DEF About, Flying, Placed
  <2>4. Owns(w)' => Owns(w)
    BY <1>2, <1>4, <1>5, <1>8 DEF Owns, Working
  <2>5. m.shop \in Barred /\ Owns(w) =>
            /\ remote[Spot(w)].product = m.v /\ remote[Spot(w)].stock \in {0, m.v}
            /\ barrier[Spot(w)].st = "none"
    BY <1>1, <1>2, <2>3 DEF WorkerFits
  <2>6. QED BY <1>5, <1>7, <2>1, <2>2, <2>3, <2>4, <2>5 DEF WorkerFits
<1>11. LostAreCounted'
  <2>1. Lost' \subseteq Lost
    BY <1>2, <1>4, <1>5, <1>8 DEF Lost
  <2>2. QED BY <1>1, <1>4, <2>1, LostStays DEF LostAreCounted
<1>12. WireFits'
  <2>1. \A q \in wire : q.at \in Spots
    BY <1>1, RequestTyped
  <2>2. QED BY <1>1, <1>4, <1>7, <2>1 DEF WireFits
<1>13. \A s \in Spots : RemoteFits(s)'
  BY <1>1, <1>4, <1>7 DEF RemoteFits
<1>14. NoMoreComes
  <2>1. \A x \in Syncers : Coming(x)' => Coming(x) /\ syncer'[x].v = syncer[x].v
    BY <1>2, <1>4, <1>5, <1>8 DEF Coming, About, Owns, Working
  <2>2. UNCHANGED <<wire, remote>> /\ \A x \in Syncers : Spot(x)' = Spot(x)
    BY <1>4, <1>8
  <2>3. QED BY <2>1, <2>2 DEF NoMoreComes, Served
<1>15. ShopsTyped'
  BY <1>1, <1>4, <1>7, <1>8 DEF ShopsTyped
<1>16. WorksFit'
  BY <1>8, <1>9, <1>10, <1>11, <1>12, <1>13 DEF WorksFit
<1>17. Keeps
  BY <1>14, <1>15, <1>16 DEF Keeps
<1>18. QED BY <1>2, <1>4, <1>5, <1>17, AtShopStays DEF Working, HasRead, Flying

-----------------------------------------------------------------------------
(* The shops and the operator.                                             *)

LEMMA AppliedParts ==
  ASSUME ShopsTyped, NEW r \in wire
  PROVE  /\ Applied(r) \in [Spots -> RemoteRecords]
         /\ \A s \in Spots : s # r.at => Applied(r)[s] = remote[s]
         /\ Applied(r)[r.at].product = IF r.kind = "stock" THEN remote[r.at].product ELSE r.v
         /\ Applied(r)[r.at].stock = IF r.kind = "stock" THEN r.v ELSE 0
         /\ Applied(r)[r.at].copies = IF r.kind = "create" THEN remote[r.at].copies + 1
                                      ELSE remote[r.at].copies
<1>1. r.at \in Spots /\ r.kind \in {"create", "update", "stock"} /\ r.v \in 1 .. MaxIntent
  BY RequestTyped DEF Kinds
<1>2. PICK m \in RemoteRecords : m = remote[r.at]
  BY <1>1, SpotTyped
<1>3. PICK n : n = CASE r.kind = "create" -> [product |-> r.v, stock |-> 0, copies |-> m.copies + 1]
                     [] r.kind = "update" -> [m EXCEPT !.product = r.v, !.stock = 0]
                     [] OTHER -> [m EXCEPT !.stock = r.v]
  OBVIOUS
<1>4. /\ n \in RemoteRecords
      /\ n.product = IF r.kind = "stock" THEN m.product ELSE r.v
      /\ n.stock = IF r.kind = "stock" THEN r.v ELSE 0
      /\ n.copies = IF r.kind = "create" THEN m.copies + 1 ELSE m.copies
  <2>1. r.v \in 0 .. MaxIntent /\ 0 \in 0 .. MaxIntent
    BY <1>1, CommerceAssumption
  <2>2. CASE r.kind = "create"
    BY <1>2, <1>3, <2>1, <2>2 DEF RemoteRecords
  <2>3. CASE r.kind = "update"
    BY <1>2, <1>3, <2>1, <2>3 DEF RemoteRecords
  <2>4. CASE r.kind = "stock"
    BY <1>2, <1>3, <2>1, <2>4 DEF RemoteRecords
  <2>5. QED BY <1>1, <2>2, <2>3, <2>4
<1>5. Applied(r) = [remote EXCEPT ![r.at] = n]
  BY <1>2, <1>3 DEF Applied
<1>6. QED BY <1>1, <1>2, <1>4, <1>5 DEF ShopsTyped

\* A shop answers: one request is over, and its sender, if it waits, knows.
LEMMA ReplyKeeps ==
  ASSUME ShopsInv, NEW r \in wire, NEW reply \in {"applied", "refused"}, syncer' = Replied(r, reply),
         remote' = IF reply = "applied" THEN Applied(r) ELSE remote, wire' = wire \ {r},
         mishaps' \in 0 .. MaxMishaps, mishaps' = mishaps \/ mishaps' = mishaps + 1,
         UNCHANGED <<registry, intent, queue, syncLock, barrier, mapped, resolver>>
  PROVE  /\ Keeps
         /\ \A x \in Syncers :
              /\ syncer'[x].at = syncer[x].at /\ syncer'[x].row = syncer[x].row
              /\ syncer'[x].left = syncer[x].left /\ syncer'[x].failed = syncer[x].failed
              /\ syncer'[x].token = syncer[x].token /\ syncer'[x].v = syncer[x].v
<1>1. /\ ShopsTyped /\ LostAreCounted /\ SendersDiffer /\ LocksFit /\ WireFits
      /\ (\A x \in Syncers : WorkerFits(x) /\ SyncerShaped(x)) /\ \A s \in Spots : RemoteFits(s)
  BY InvParts
<1>2. r.op \in Requests /\ r.op # 0 /\ r.at \in Spots /\ r.kind \in Kinds /\ r.v \in 1 .. MaxIntent
  BY <1>1, RequestTyped
<1>3. \A x \in Syncers : syncer[x].op # r.op => syncer'[x] = syncer[x]
  BY DEF Replied
<1>4. ASSUME NEW x \in Syncers, syncer[x].op = r.op
      PROVE  /\ syncer[x].at = "sent" /\ syncer[x].reply = "none" /\ r.at = Spot(x)
             /\ r.kind = syncer[x].kind /\ r.v = syncer[x].v
             /\ syncer'[x] = [syncer[x] EXCEPT !.reply = reply]
  <2>1. syncer[x].at = "sent" /\ syncer[x].reply = "none" /\ r.at = Spot(x)
        /\ r.kind = syncer[x].kind /\ r.v = syncer[x].v
    BY <1>1, <1>4 DEF WorkerFits
  <2>2. QED BY <1>4, <2>1 DEF Replied
<1>5. ASSUME NEW x \in Syncers
      PROVE  /\ syncer'[x] \in SyncerRecords
             /\ syncer'[x].at = syncer[x].at /\ syncer'[x].row = syncer[x].row
             /\ syncer'[x].shop = syncer[x].shop /\ syncer'[x].op = syncer[x].op
             /\ syncer'[x].kind = syncer[x].kind
             /\ syncer'[x].left = syncer[x].left /\ syncer'[x].failed = syncer[x].failed
             /\ syncer'[x].token = syncer[x].token /\ syncer'[x].v = syncer[x].v
             /\ syncer[x].op = r.op => syncer'[x].reply = reply
  <2>1. PICK m \in SyncerRecords : m = syncer[x]
    BY <1>1, SyncerTyped
  <2>2. CASE m.op = r.op
    <3>1. PICK n : n = [m EXCEPT !.reply = reply]
      OBVIOUS
    <3>2. syncer'[x] = n
      BY <1>4, <2>1, <2>2, <3>1
    <3>3. /\ n \in SyncerRecords /\ n.reply = reply
          /\ n.at = m.at /\ n.row = m.row /\ n.shop = m.shop /\ n.op = m.op /\ n.kind = m.kind
          /\ n.left = m.left /\ n.failed = m.failed /\ n.token = m.token /\ n.v = m.v
      BY <2>1, <3>1 DEF SyncerRecords
    <3>4. QED BY <2>1, <3>2, <3>3
  <2>3. CASE m.op # r.op
    BY <1>3, <2>1, <2>3
  <2>4. QED BY <2>2, <2>3
<1>6. syncer' \in [Syncers -> SyncerRecords]
  BY <1>5 DEF Replied
<1>7. \A x \in Syncers : Spot(x)' = Spot(x) /\ Product(x)' = Product(x) /\ Owns(x)' = Owns(x)
                         /\ Coming(x)' = Coming(x) /\ About(x)' = About(x)
  <2>1. \A x \in Syncers : Spot(x)' = Spot(x) /\ Product(x)' = Product(x)
    BY <1>5, SameHand
  <2>2. \A x \in Syncers : Owns(x)' = Owns(x)
    BY <1>5, <2>1 DEF Owns
  <2>3. QED BY <1>5, <2>1, <2>2 DEF Coming, About
<1>8. /\ remote' \in [Spots -> RemoteRecords] /\ (\A s \in Spots : s # r.at => remote'[s] = remote[s])
      /\ \/ remote' = remote /\ reply = "refused"
         \/ /\ reply = "applied"
            /\ remote'[r.at].product = IF r.kind = "stock" THEN remote[r.at].product ELSE r.v
            /\ remote'[r.at].stock = IF r.kind = "stock" THEN r.v ELSE 0
            /\ remote'[r.at].copies = IF r.kind = "create" THEN remote[r.at].copies + 1
                                      ELSE remote[r.at].copies
  BY <1>1, AppliedParts DEF ShopsTyped
<1>9. r.at[1] \in Barred => barrier[r.at].st # "none" /\ barrier[r.at].op = r.op
  BY <1>1 DEF WireFits
<1>10. \A q \in wire : q.op = r.op => q = r
  BY <1>1 DEF WireFits
<1>11. ASSUME NEW x \in Syncers, syncer[x].op # r.op PROVE WorkerFits(x)' /\ SyncerShaped(x)'
  <2>1. syncer[x].shop \in Barred /\ (About(x) \/ Owns(x)) => remote'[Spot(x)] = remote[Spot(x)]
    <3> SUFFICES ASSUME syncer[x].shop \in Barred, About(x) \/ Owns(x) PROVE Spot(x) \in Spots /\ Spot(x) # r.at
      BY <1>8
    <3>1. Spot(x) \in Spots /\ Spot(x)[1] = syncer[x].shop
      BY <1>1, AtWork DEF About, Owns, Working, Spot
    <3>2. barrier[Spot(x)].st = "none" \/ barrier[Spot(x)] = InFlight(syncer[x].op)
      BY <1>1 DEF WorkerFits
    <3>3. QED BY <1>9, <1>11, <3>1, <3>2, InFlightFields
  <2>2. About(x) /\ resolver'.at = "sure" => syncer[x].op # resolver'.op
    BY <1>1 DEF WorkerFits
  <2>3. QED BY <1>1, <1>3, <1>7, <1>11, <2>1, <2>2, OthersFit
<1>12. ASSUME NEW x \in Syncers, syncer[x].op = r.op PROVE WorkerFits(x)' /\ SyncerShaped(x)'
  <2>1. SyncerShaped(x)'
    <3>1. syncer'[x].at = "sent" /\ syncer'[x].op # 0 /\ syncer[x].at = "sent"
      BY <1>2, <1>4, <1>5, <1>12
    <3>2. QED BY <1>1, <1>5, <3>1 DEF SyncerShaped, Working, Flying, HasRead
  <2>2. \A q \in wire' : q.op # syncer'[x].op
    BY <1>5, <1>10, <1>12
  <2>3. ~About(x)' /\ syncer'[x].at \in Flying /\ syncer[x].at \in Flying /\ syncer'[x].at = "sent"
    BY <1>4, <1>5, <1>12 DEF About, Flying
  <2>4. syncer[x].kind = "stock" => mapped[Spot(x)] /\ Placed(x)
    BY <1>1, <1>4, <1>12, <2>3 DEF WorkerFits, Placed
  <2>5. syncer[x].shop \in Barred /\ Owns(x) =>
            /\ barrier[Spot(x)] = InFlight(syncer[x].op)
            /\ Placed(x) => /\ remote[Spot(x)].product = syncer[x].v
                            /\ remote[Spot(x)].stock \in {0, syncer[x].v}
    BY <1>1, <2>3 DEF WorkerFits
  <2>6. Placed(x)' => reply = "applied" \/ syncer[x].kind = "stock"
    BY <1>5, <1>12, <2>3 DEF Placed
  <2>7. syncer[x].shop \in Barred /\ Owns(x) /\ Placed(x)' =>
            /\ remote'[Spot(x)].product = syncer[x].v
            /\ remote'[Spot(x)].stock \in {0, syncer[x].v}
    BY <1>4, <1>8, <1>12, <2>4, <2>5, <2>6
  <2>8. QED BY <1>5, <1>7, <2>1, <2>2, <2>3, <2>4, <2>5, <2>7 DEF WorkerFits
<1>13. LostAreCounted'
  <2>1. Lost' \subseteq Lost
    BY <1>5 DEF Lost
  <2>2. IsFiniteSet(wire')
    BY <1>1, FS_Subset DEF LostAreCounted
  <2>3. QED BY <1>1, <2>1, <2>2, LostStays
<1>14. SendersDiffer' /\ LocksFit'
  <2>1. LocksFit'
    BY <1>1, <1>5, <1>7 DEF LocksFit
  <2>2. QED BY <1>1, <1>5, <2>1 DEF SendersDiffer
<1>15. WireFits'
  <2>1. \A q \in wire' : q.at[1] \in Barred => q.at # r.at
    BY <1>1, <1>9, <1>10 DEF WireFits
  <2>2. \A q \in wire' : q.at \in Spots /\ (q.at[1] \in Barred => remote'[q.at] = remote[q.at])
    BY <1>1, <1>8, <2>1, RequestTyped
  <2>3. QED BY <1>1, <2>2 DEF WireFits
<1>16. ASSUME NEW s \in Spots PROVE RemoteFits(s)'
  <2>1. RemoteFits(s) /\ remote[s].copies \in Nat /\ remote[s].product \in 0 .. MaxIntent
    BY <1>1, SpotTyped
  <2>2. CASE s # r.at
    BY <1>8, <2>1, <2>2 DEF RemoteFits
  <2>3. CASE s = r.at
    <3>1. (r.kind = "stock" => mapped[s]) /\ (r.kind = "create" /\ s[1] \in Barred => remote[s].product = 0)
      BY <1>1, <2>3 DEF WireFits
    <3>2. r.v # 0
      BY <1>2
    <3>3. QED BY <1>2, <1>8, <2>1, <2>3, <3>1, <3>2 DEF RemoteFits, Kinds
  <2>4. QED BY <2>2, <2>3
<1>17. NoMoreComes
  <2> SUFFICES ASSUME NEW s \in Spots, NEW v, s[1] \in Barred, Served(s, v) PROVE Served(s, v)'
    BY DEF NoMoreComes
  <2>1. r.at = s => r.v = v
    BY DEF Served
  <2>2. remote'[s].product = v /\ remote'[s].stock \in {0, v}
    BY <1>8, <2>1 DEF Served
  <2>3. QED BY <1>5, <1>7, <2>2 DEF Served
<1>18. ShopsTyped'
  BY <1>1, <1>6, <1>8 DEF ShopsTyped
<1>19. WorksFit'
  BY <1>11, <1>12, <1>13, <1>14, <1>15, <1>16 DEF WorksFit
<1>20. QED BY <1>5, <1>17, <1>18, <1>19 DEF Keeps

\* Where the workers stand still, and the queue is left alone.
LEMMA AllStandStill ==
  ASSUME ShopsInv, Keeps, UNCHANGED <<registry, intent, queue>>,
         \A x \in Syncers :
            /\ syncer'[x].at = syncer[x].at /\ syncer'[x].row = syncer[x].row
            /\ syncer'[x].left = syncer[x].left /\ syncer'[x].failed = syncer[x].failed
            /\ syncer'[x].token = syncer[x].token /\ syncer'[x].v = syncer[x].v
  PROVE  ShopsInv'
<1>1. ShopsTyped /\ NoMoreComes
  BY DEF ShopsInv, Keeps
<1>2. ASSUME NEW x \in Syncers PROVE ReadingFits(x)' /\ Serves(x)'
  <2>1. Current(x)' => Current(x)
    BY SameClaim
  <2>2. QED BY <1>1, <2>1, StillFits
<1>3. \A p \in Products : QueueServes(p)'
  BY <1>1, QueueStillServes
<1>4. \A p \in Products : QueueFits(p)'
  BY DEF ShopsInv, QueueFits
<1>5. QueueParts'
  BY <1>2, <1>3, <1>4 DEF QueueParts
<1>6. QED BY <1>5, InvOfParts

LEMMA ShopsAnswer ==
  ASSUME ShopsInv, NEW r \in wire, ShopApplies(r) \/ ShopRefuses(r)
  PROVE  ShopsInv'
<1>1. mishaps \in 0 .. MaxMishaps /\ MaxMishaps \in Nat
  BY CommerceAssumption DEF ShopsInv, ShopsTyped
<1>2. CASE ShopApplies(r)
  <2>1. /\ Keeps
        /\ \A x \in Syncers :
              /\ syncer'[x].at = syncer[x].at /\ syncer'[x].row = syncer[x].row
              /\ syncer'[x].left = syncer[x].left /\ syncer'[x].failed = syncer[x].failed
              /\ syncer'[x].token = syncer[x].token /\ syncer'[x].v = syncer[x].v
    BY <1>1, <1>2, ReplyKeeps DEF ShopApplies
  <2>2. QED BY <1>2, <2>1, AllStandStill DEF ShopApplies
<1>3. CASE ShopRefuses(r)
  <2>1. mishaps' \in 0 .. MaxMishaps /\ (mishaps' = mishaps \/ mishaps' = mishaps + 1)
    BY <1>1, <1>3 DEF ShopRefuses
  <2>2. /\ Keeps
        /\ \A x \in Syncers :
              /\ syncer'[x].at = syncer[x].at /\ syncer'[x].row = syncer[x].row
              /\ syncer'[x].left = syncer[x].left /\ syncer'[x].failed = syncer[x].failed
              /\ syncer'[x].token = syncer[x].token /\ syncer'[x].v = syncer[x].v
    BY <1>3, <2>1, ReplyKeeps DEF ShopRefuses
  <2>3. QED BY <1>3, <2>2, AllStandStill DEF ShopRefuses
<1>4. QED BY <1>2, <1>3

\* Where the workers, the wire and the shops stand still.
LEMMA QuietKeeps ==
  ASSUME ShopsInv, UNCHANGED <<registry, syncer, mapped, wire, remote>>,
         intent' \in [Products -> 1 .. MaxIntent], queue' \in [Products -> QueueRecords],
         syncLock' \in [Spots -> Syncers \cup {Nobody}],
         \A s \in Spots : syncLock'[s] \in {syncLock[s], Nobody},
         barrier' \in [Spots -> BarrierRecords],
         \A s \in Spots : \/ barrier'[s] = barrier[s]
                          \/ /\ resolver.at = "sure" /\ barrier[s].op = resolver.op
                             /\ syncLock[s] = Nobody,
         resolver'.at \in {"idle", "sure"} /\ (resolver'.at = "sure" => resolver'.spot \in Spots),
         resolver'.op \in {0} \cup Requests,
         \/ resolver' = resolver \/ resolver'.at = "idle"
         \/ /\ \A r \in wire : r.op # resolver'.op
            /\ \A w \in Syncers : About(w) => syncer[w].op # resolver'.op,
         mishaps' \in 0 .. MaxMishaps, mishaps' = mishaps \/ mishaps' = mishaps + 1
  PROVE  Keeps
<1>1. /\ ShopsTyped /\ LostAreCounted /\ SendersDiffer /\ LocksFit /\ WireFits
      /\ (\A x \in Syncers : WorkerFits(x) /\ SyncerShaped(x)) /\ \A s \in Spots : RemoteFits(s)
  BY InvParts
<1>2. Nobody \notin Syncers
  BY CommerceAssumption
<1>3. \A x \in Syncers : Spot(x)' = Spot(x) /\ syncer'[x] = syncer[x]
  BY SameHand
<1>4. \A x \in Syncers : (syncer[x].at \in Working => Spot(x) \in Spots) /\ (Owns(x)' => Owns(x))
  <2>1. \A x \in Syncers : syncer[x].at \in Working => Spot(x) \in Spots
    BY <1>1, AtWork DEF Working
  <2>2. QED BY <1>2, <1>3, <2>1 DEF Owns
<1>5. ASSUME NEW x \in Syncers PROVE WorkerFits(x)' /\ SyncerShaped(x)'
  <2>1. About(x) \/ Owns(x)' => barrier'[Spot(x)] = barrier[Spot(x)]
    <3>1. About(x) \/ Owns(x) => Spot(x) \in Spots
      BY <1>4 DEF About, Owns, Working
    <3>2. About(x) => barrier[Spot(x)] = InFlight(syncer[x].op)
                      /\ (resolver.at = "sure" => syncer[x].op # resolver.op)
      BY <1>1 DEF WorkerFits
    <3>3. Owns(x) => syncLock[Spot(x)] # Nobody
      BY <1>2 DEF Owns
    <3>4. QED BY <1>4, <3>1, <3>2, <3>3, InFlightFields
  <2>2. About(x) /\ resolver'.at = "sure" => syncer[x].op # resolver'.op
    BY <1>1 DEF WorkerFits
  <2>3. About(x) => About(x) /\ syncer[x].op = syncer'[x].op
    BY <1>3
  <2>4. Owns(x)' => Owns(x)
    BY <1>4
  <2>5. SyncerShaped(x)'
    BY <1>1, <1>3 DEF SyncerShaped
  <2>6. About(x)' = About(x) /\ Placed(x)' = Placed(x)
    BY <1>3 DEF About, Placed
  <2>7. WorkerFits(x)'
    BY <1>1, <1>3, <2>1, <2>2, <2>4, <2>6, <1>4 DEF WorkerFits
  <2>8. QED BY <2>5, <2>7
<1>6. LostAreCounted'
  <2>1. Lost' \subseteq Lost
    BY DEF Lost
  <2>2. QED BY <1>1, <2>1, LostStays DEF LostAreCounted
<1>7. SendersDiffer' /\ LocksFit'
  <2>1. LocksFit'
    BY <1>1, <1>2, <1>3 DEF LocksFit
  <2>2. QED BY <1>1, <1>3, <2>1 DEF SendersDiffer
<1>8. WireFits'
  <2>1. \A r \in wire : r.at \in Spots /\ (r.at[1] \in Barred => barrier'[r.at] = barrier[r.at])
    BY <1>1, RequestTyped DEF WireFits
  <2>2. \A r \in wire : resolver'.at = "sure" => r.op # resolver'.op
    BY <1>1 DEF WireFits
  <2>3. QED BY <1>1, <2>1, <2>2 DEF WireFits
<1>9. \A s \in Spots : RemoteFits(s)'
  BY <1>1 DEF RemoteFits
<1>10. NoMoreComes
  <2>1. \A x \in Syncers : Coming(x)' => Coming(x)
    BY <1>3, <1>4 DEF Coming, About
  <2>2. QED BY <1>3, <2>1 DEF NoMoreComes, Served
<1>11. ShopsTyped'
  BY <1>1 DEF ShopsTyped
<1>12. WorksFit'
  BY <1>5, <1>6, <1>7, <1>8, <1>9 DEF WorksFit
<1>13. QED BY <1>10, <1>11, <1>12 DEF Keeps

LEMMA OperatorsKeep ==
  ASSUME ShopsInv, NEW s \in Spots, OperatorLooks(s) \/ OperatorResolves \/ SessionLost(s)
  PROVE  ShopsInv'
<1>1. ShopsTyped
  BY DEF ShopsInv
<1>2. mishaps \in 0 .. MaxMishaps /\ MaxMishaps \in Nat
  BY <1>1, CommerceAssumption DEF ShopsTyped
<1>3. \A t \in Spots : barrier[t] \in BarrierRecords /\ barrier[t].op \in {0} \cup Requests
                       /\ syncLock[t] \in Syncers \cup {Nobody}
  BY <1>1, SpotTyped
<1>4. /\ intent \in [Products -> 1 .. MaxIntent] /\ queue \in [Products -> QueueRecords]
      /\ syncLock \in [Spots -> Syncers \cup {Nobody}] /\ barrier \in [Spots -> BarrierRecords]
      /\ resolver.at \in {"idle", "sure"} /\ (resolver.at = "sure" => resolver.spot \in Spots)
      /\ resolver.op \in {0} \cup Requests
  BY <1>1 DEF ShopsTyped
<1>5. CASE OperatorLooks(s)
  <2>1. PICK n : n = [at |-> "sure", spot |-> s, op |-> barrier[s].op]
    OBVIOUS
  <2>2. n.at = "sure" /\ n.spot = s /\ n.op = barrier[s].op
    BY <2>1
  <2>3. /\ resolver' = n /\ (\A r \in wire : r.op # n.op)
        /\ \A w \in Syncers : About(w) => syncer[w].op # n.op
    BY <1>5, <2>1, <2>2 DEF OperatorLooks, About
  <2>4. UNCHANGED <<registry, intent, queue, syncer, syncLock, barrier, mapped, wire, remote, mishaps>>
    BY <1>5 DEF OperatorLooks
  <2>5. Keeps
    BY <1>2, <1>3, <1>4, <2>2, <2>3, <2>4, QuietKeeps
  <2>6. QED BY <2>4, <2>5, AllStandStill
<1>6. CASE OperatorResolves
  <2>1. PICK b : b = IF barrier[resolver.spot].op = resolver.op THEN NoBarrier
                     ELSE barrier[resolver.spot]
    OBVIOUS
  <2>2. /\ resolver.at = "sure" /\ syncLock[resolver.spot] = Nobody
        /\ barrier' = [barrier EXCEPT ![resolver.spot] = b] /\ resolver' = NoResolution
        /\ UNCHANGED <<registry, intent, queue, syncer, syncLock, mapped, wire, remote, mishaps>>
    BY <1>6, <2>1 DEF OperatorResolves
  <2>3. NoBarrier \in BarrierRecords /\ NoResolution.at = "idle" /\ NoResolution.op = 0
    BY DEF NoBarrier, BarrierRecords, NoResolution
  <2>4. b \in BarrierRecords
    BY <1>3, <1>4, <2>1, <2>2, <2>3
  <2>5. /\ barrier' \in [Spots -> BarrierRecords]
        /\ \A t \in Spots : \/ barrier'[t] = barrier[t]
                            \/ /\ resolver.at = "sure" /\ barrier[t].op = resolver.op
                               /\ syncLock[t] = Nobody
    BY <1>4, <2>1, <2>2, <2>4
  <2>6. Keeps
    BY <1>2, <1>4, <2>2, <2>3, <2>5, QuietKeeps
  <2>7. QED BY <2>2, <2>6, AllStandStill
<1>7. CASE SessionLost(s)
  <2>1. /\ syncLock' = [syncLock EXCEPT ![s] = Nobody] /\ mishaps' = mishaps + 1
        /\ mishaps' \in 0 .. MaxMishaps
        /\ UNCHANGED <<registry, intent, queue, syncer, barrier, mapped, wire, remote, resolver>>
    BY <1>2, <1>7 DEF SessionLost
  <2>2. /\ syncLock' \in [Spots -> Syncers \cup {Nobody}]
        /\ \A t \in Spots : syncLock'[t] \in {syncLock[t], Nobody}
    BY <1>4, <2>1
  <2>3. Keeps
    BY <1>4, <2>1, <2>2, QuietKeeps
  <2>4. QED BY <2>1, <2>3, AllStandStill
<1>8. QED BY <1>5, <1>6, <1>7

LEMMA QueueTyped ==
  ASSUME ShopsTyped, NEW p \in Products
  PROVE  /\ queue[p] \in QueueRecords
         /\ queue[p].st \in {"none", "row"} /\ queue[p].requested \in 0 .. MaxIntent
         /\ queue[p].claimed \in 0 .. MaxIntent /\ queue[p].token \in {0} \cup Tokens
         /\ queue[p].live \in BOOLEAN /\ queue[p].due \in BOOLEAN
         /\ intent[p] \in 1 .. MaxIntent
  BY DEF ShopsTyped, QueueRecords

\* The queue moves and the workers stand still.
LEMMA QueueMoves ==
  ASSUME ShopsInv, UNCHANGED <<registry, syncer, syncLock, barrier, mapped, wire, remote, resolver>>,
         intent' \in [Products -> 1 .. MaxIntent], queue' \in [Products -> QueueRecords],
         mishaps' \in 0 .. MaxMishaps, mishaps' = mishaps \/ mishaps' = mishaps + 1,
         \A p \in Products : QueueFits(p)',
         \A p \in Products : queue'[p].st = "none" => queue[p].st = "none" /\ intent'[p] = intent[p],
         \A x \in Syncers : syncer[x].at \notin {"idle", "batch"} /\ Current(x)' =>
            Current(x) /\ intent'[Product(x)] = intent[Product(x)]
  PROVE  ShopsInv'
<1>1. /\ syncLock \in [Spots -> Syncers \cup {Nobody}] /\ barrier \in [Spots -> BarrierRecords]
      /\ resolver.at \in {"idle", "sure"} /\ (resolver.at = "sure" => resolver.spot \in Spots)
      /\ resolver.op \in {0} \cup Requests
  BY DEF ShopsInv, ShopsTyped
<1>2. Keeps
  BY <1>1, QuietKeeps
<1>3. NoMoreComes
  BY <1>2 DEF Keeps
<1>4. \A x \in Syncers : ReadingFits(x)' /\ Serves(x)'
  BY <1>3, StillFits
<1>5. \A p \in Products : QueueServes(p)'
  BY <1>3, QueueStillServes
<1>6. QueueParts'
  BY <1>4, <1>5 DEF QueueParts
<1>7. QED BY <1>2, <1>6, InvOfParts

LEMMA IntentKeeps ==
  ASSUME ShopsInv, NEW changed \in SUBSET Products, IntentChanges(changed)
  PROVE  ShopsInv'
<1>1. ShopsTyped /\ (\A p \in Products : QueueFits(p)) /\ (\A w \in Syncers : SyncerShaped(w))
  BY DEF ShopsInv
<1>2. MaxIntent \in Nat \ {0} /\ mishaps \in 0 .. MaxMishaps
  BY <1>1, CommerceAssumption DEF ShopsTyped
<1>3. /\ \A p \in changed : intent[p] < MaxIntent
      /\ intent' = [p \in Products |-> IF p \in changed THEN intent[p] + 1 ELSE intent[p]]
      /\ queue' = [p \in Products |-> IF p \in changed THEN Enqueued(p) ELSE queue[p]]
      /\ UNCHANGED <<registry, syncer, syncLock, barrier, mapped, wire, remote, resolver, mishaps>>
  BY DEF IntentChanges
<1>4. ASSUME NEW p \in Products
      PROVE  /\ queue'[p] \in QueueRecords /\ intent'[p] \in 1 .. MaxIntent
             /\ QueueFits(p)'
             /\ p \notin changed => queue'[p] = queue[p] /\ intent'[p] = intent[p]
             /\ p \in changed =>
                  /\ queue'[p].st = "row"
                  /\ \/ ~queue'[p].live
                     \/ /\ queue'[p].claimed = queue[p].claimed
                        /\ queue'[p].requested = queue[p].requested + 1
  <2>1. PICK m \in QueueRecords : m = queue[p]
    BY <1>1, QueueTyped
  <2>2. /\ m.st \in {"none", "row"} /\ m.requested \in 0 .. MaxIntent /\ m.claimed \in 0 .. MaxIntent
        /\ m.token \in {0} \cup Tokens /\ m.live \in BOOLEAN /\ m.due \in BOOLEAN
        /\ intent[p] \in 1 .. MaxIntent
    BY <1>1, <2>1, QueueTyped
  <2>3. /\ m.st = "row" => m.requested # 0
        /\ m.requested <= intent[p] /\ m.claimed <= m.requested
        /\ m.live => m.token # 0 /\ m.claimed # 0
    BY <1>1, <2>1 DEF QueueFits
  <2>4. CASE p \notin changed
    <3>1. queue'[p] = m /\ intent'[p] = intent[p]
      BY <1>3, <2>1, <2>4
    <3>2. QED BY <2>1, <2>2, <2>3, <2>4, <3>1 DEF QueueFits
  <2>5. CASE p \in changed /\ m.st = "none"
    <3>1. PICK n : n = [st |-> "row", requested |-> 1, claimed |-> 0, token |-> 0, live |-> FALSE,
                        due |-> TRUE]
      OBVIOUS
    <3>2. queue'[p] = n /\ intent'[p] = intent[p] + 1
      BY <1>3, <2>1, <2>5, <3>1 DEF Enqueued, NotQueued
    <3>3. /\ n \in QueueRecords /\ n.st = "row" /\ n.requested = 1 /\ n.claimed = 0 /\ n.live = FALSE
      <4>1. 1 \in 0 .. MaxIntent /\ 0 \in 0 .. MaxIntent
        BY <1>2
      <4>2. QED BY <3>1, <4>1 DEF QueueRecords
    <3>4. intent[p] + 1 \in 1 .. MaxIntent /\ 1 <= intent[p] + 1
      BY <1>2, <1>3, <2>2, <2>5
    <3>5. QED BY <2>5, <3>2, <3>3, <3>4 DEF QueueFits
  <2>6. CASE p \in changed /\ m.st = "row"
    <3>1. PICK k : k = m.requested + 1
      OBVIOUS
    <3>2. PICK n : n = [m EXCEPT !.requested = k, !.due = TRUE]
      OBVIOUS
    <3>3. queue'[p] = n /\ intent'[p] = intent[p] + 1
      BY <1>3, <2>1, <2>6, <3>1, <3>2 DEF Enqueued
    <3>4. k \in 0 .. MaxIntent /\ intent[p] + 1 \in 1 .. MaxIntent /\ k <= intent[p] + 1
          /\ m.claimed <= k /\ k # 0
      BY <1>2, <1>3, <2>2, <2>3, <2>6, <3>1
    <3>5. /\ n \in QueueRecords /\ n.st = "row" /\ n.requested = k /\ n.claimed = m.claimed
          /\ n.live = m.live /\ n.token = m.token
      BY <2>1, <2>6, <3>2, <3>4 DEF QueueRecords
    <3>6. QED BY <2>1, <2>3, <2>6, <3>1, <3>3, <3>4, <3>5 DEF QueueFits
  <2>7. QED BY <2>2, <2>4, <2>5, <2>6
<1>5. intent' \in [Products -> 1 .. MaxIntent] /\ queue' \in [Products -> QueueRecords]
  BY <1>3, <1>4
<1>6. ASSUME NEW x \in Syncers, syncer[x].at \notin {"idle", "batch"}, Current(x)'
      PROVE  Current(x) /\ intent'[Product(x)] = intent[Product(x)]
  <2>1. PICK p \in Products : p = Product(x)
    BY <1>1, <1>6, AtWork
  <2>2. PICK g : g = Claimed(x)
    OBVIOUS
  <2>3. Product(x)' = p /\ Claimed(x)' = g /\ syncer'[x] = syncer[x]
    BY <1>3, <2>1, <2>2, SameHand
  <2>4. /\ queue'[p].st = "row" /\ queue'[p].token = syncer[x].token /\ queue'[p].live
        /\ queue'[p].claimed = g /\ queue'[p].requested = g
    BY <1>6, <2>3, CurrentIs
  <2>5. queue[p].claimed <= queue[p].requested /\ queue[p].claimed \in Nat /\ queue[p].requested \in Nat
    BY <1>1, <1>2, QueueTyped DEF QueueFits
  <2>6. p \notin changed
    BY <1>4, <2>4, <2>5
  <2>7. queue'[p] = queue[p] /\ intent'[p] = intent[p]
    BY <1>4, <2>6
  <2>8. QED BY <2>1, <2>2, <2>4, <2>7, CurrentIs
<1>7. QED BY <1>2, <1>3, <1>4, <1>5, <1>6, QueueMoves

LEMMA TimeKeeps ==
  ASSUME ShopsInv, NEW p \in Products, LeasePasses(p) \/ RequestComesDue(p)
  PROVE  ShopsInv'
<1>1. ShopsTyped /\ (\A q \in Products : QueueFits(q)) /\ (\A w \in Syncers : SyncerShaped(w))
  BY DEF ShopsInv
<1>2. MaxIntent \in Nat \ {0} /\ mishaps \in 0 .. MaxMishaps /\ MaxMishaps \in Nat
  BY <1>1, CommerceAssumption DEF ShopsTyped
<1>3. PICK m \in QueueRecords : m = queue[p]
  BY <1>1, QueueTyped
<1>4. PICK n : n = IF LeasePasses(p) THEN [m EXCEPT !.live = FALSE] ELSE [m EXCEPT !.due = TRUE]
  OBVIOUS
<1>5. mishaps' \in 0 .. MaxMishaps /\ (mishaps' = mishaps \/ mishaps' = mishaps + 1)
  <2>1. CASE LeasePasses(p)
    BY <1>2, <2>1 DEF LeasePasses
  <2>2. CASE RequestComesDue(p)
    BY <1>2, <2>2 DEF RequestComesDue
  <2>3. QED BY <2>1, <2>2
<1>6. /\ queue' = [queue EXCEPT ![p] = n]
      /\ UNCHANGED <<registry, intent, syncer, syncLock, barrier, mapped, wire, remote, resolver>>
  BY <1>3, <1>4 DEF LeasePasses, RequestComesDue
<1>7. /\ n \in QueueRecords /\ n.st = m.st /\ n.requested = m.requested /\ n.claimed = m.claimed
      /\ n.token = m.token /\ (n.live => m.live)
  BY <1>3, <1>4 DEF QueueRecords
<1>8. /\ queue' \in [Products -> QueueRecords] /\ intent' \in [Products -> 1 .. MaxIntent]
      /\ queue'[p] = n /\ (\A q \in Products : q # p => queue'[q] = queue[q])
  BY <1>1, <1>6, <1>7 DEF ShopsTyped
<1>9. \A q \in Products : QueueFits(q)'
  BY <1>1, <1>3, <1>6, <1>7, <1>8 DEF QueueFits
<1>10. \A q \in Products : queue'[q].st = "none" => queue[q].st = "none" /\ intent'[q] = intent[q]
  BY <1>3, <1>6, <1>7, <1>8
<1>11. ASSUME NEW x \in Syncers, syncer[x].at \notin {"idle", "batch"}, Current(x)'
       PROVE  Current(x) /\ intent'[Product(x)] = intent[Product(x)]
  <2>1. PICK q \in Products : q = Product(x)
    BY <1>1, <1>11, AtWork
  <2>2. PICK g : g = Claimed(x)
    OBVIOUS
  <2>3. Product(x)' = q /\ Claimed(x)' = g /\ syncer'[x] = syncer[x]
    BY <1>6, <2>1, <2>2, SameHand
  <2>4. /\ queue'[q].st = "row" /\ queue'[q].token = syncer[x].token /\ queue'[q].live
        /\ queue'[q].claimed = g /\ queue'[q].requested = g
    BY <1>11, <2>3, CurrentIs
  <2>5. /\ queue[q].st = "row" /\ queue[q].token = syncer[x].token /\ queue[q].live
        /\ queue[q].claimed = g /\ queue[q].requested = g
    BY <1>3, <1>7, <1>8, <2>4
  <2>6. QED BY <1>6, <2>1, <2>2, <2>5, CurrentIs
<1>12. QED BY <1>5, <1>6, <1>8, <1>9, <1>10, <1>11, QueueMoves

-----------------------------------------------------------------------------
(* A worker takes a claim, and leaves a shop.                              *)

LEMMA RestTyped ==
  /\ AtRest \in SyncerRecords /\ AtRest.at = "idle" /\ AtRest.op = 0 /\ AtRest.reply = "none"
  /\ AtRest.v = 0 /\ AtRest.kind = "update" /\ AtRest.row = {} /\ AtRest.failed = FALSE
<1>1. 0 \in 0 .. MaxIntent
  BY CommerceAssumption
<1>2. QED BY <1>1 DEF AtRest, SyncerRecords, Kinds

LEMMA AwayShaped ==
  ASSUME NEW w \in Syncers, syncer'[w].at \in {"idle", "batch"},
         syncer'[w].at = "idle" => syncer'[w] = AtRest,
         syncer'[w].op = 0, syncer'[w].reply = "none", syncer'[w].v = 0, syncer'[w].kind = "update"
  PROVE  SyncerShaped(w)' /\ Serves(w)' /\ ReadingFits(w)'
<1>1. SyncerShaped(w)'
  BY DEF SyncerShaped, Working, Flying, HasRead
<1>2. ~ServesOn(w)'
  BY DEF ServesOn
<1>3. QED BY <1>1, <1>2 DEF Serves, ReadingFits, HasRead, Flying

LEMMA AwayHasNoLock ==
  ASSUME ShopsInv, NEW w \in Syncers, syncer[w].at \notin Working
  PROVE  Unlocked(w) = syncLock
<1>1. \A s \in Spots : syncLock[s] # w
  BY DEF ShopsInv, LocksFit
<1>2. QED BY <1>1, UnlockedParts DEF ShopsInv

LEMMA OffKeeps ==
  ASSUME ShopsInv, NEW w \in Syncers, NEW n \in SyncerRecords, syncer' = [syncer EXCEPT ![w] = n],
         n.at \notin Working, n.op = 0, n.reply = "none", SyncerShaped(w)',
         syncLock' = Unlocked(w), barrier' \in Retained(w),
         UNCHANGED <<registry, intent, mapped, wire, remote, resolver>>,
         queue' \in [Products -> QueueRecords],
         mishaps' \in 0 .. MaxMishaps, mishaps' = mishaps \/ mishaps' = mishaps + 1,
         syncer[w].at = "sent" /\ syncer[w].reply = "none" => mishaps' = mishaps + 1
  PROVE  Keeps
<1>1. mishaps' \in Nat /\ mishaps' >= mishaps
  BY CommerceAssumption DEF ShopsInv, ShopsTyped
<1>2. /\ WorksFit' /\ NoMoreComes
      /\ syncer' \in [Syncers -> SyncerRecords] /\ syncLock' \in [Spots -> Syncers \cup {Nobody}]
      /\ barrier' \in [Spots -> BarrierRecords]
  BY <1>1, OffFits
<1>3. ShopsTyped'
  BY <1>2 DEF ShopsInv, ShopsTyped
<1>4. QED BY <1>2, <1>3 DEF Keeps

LEMMA LeavesKeeps ==
  ASSUME ShopsInv, NEW w \in Syncers, NEW n \in SyncerRecords, syncer' = [syncer EXCEPT ![w] = n],
         n.at \notin Working, n.op = 0, n.reply = "none", SyncerShaped(w)',
         syncLock' = Unlocked(w), barrier' \in Retained(w),
         UNCHANGED <<registry, intent, queue, mapped, wire, remote, resolver>>,
         mishaps' \in 0 .. MaxMishaps, mishaps' = mishaps \/ mishaps' = mishaps + 1,
         syncer[w].at = "sent" /\ syncer[w].reply = "none" => mishaps' = mishaps + 1,
         NoMoreComes => Serves(w)'
  PROVE  ShopsInv'
<1>1. queue' \in [Products -> QueueRecords] /\ ShopsTyped
  BY DEF ShopsInv, ShopsTyped
<1>2. Keeps
  BY <1>1, OffKeeps
<1>3. ReadingFits(w)'
  <2>1. syncer'[w] = n
    BY <1>1, OneMoves
  <2>2. QED BY <2>1 DEF ReadingFits, HasRead, Flying, Working
<1>4. Serves(w)'
  BY <1>2 DEF Keeps
<1>5. QED BY <1>2, <1>3, <1>4, OneMovesOn

\* BatchGoesOn, and a crash.
LEMMA GoesAway ==
  ASSUME ShopsInv, NEW w \in Syncers, GoesTo(w, AtRest) \/ BatchGoesOn(w)
  PROVE  \E n \in SyncerRecords :
            /\ syncer' = [syncer EXCEPT ![w] = n] /\ syncer'[w] = n
            /\ n.at \in {"idle", "batch"} /\ n.at \notin Working /\ n.op = 0 /\ n.reply = "none"
            /\ SyncerShaped(w)' /\ Serves(w)' /\ ReadingFits(w)'
            /\ \A x \in Syncers : x # w => syncer'[x] = syncer[x]
<1>1. ShopsTyped
  BY DEF ShopsInv
<1>2. PICK m \in SyncerRecords : m = syncer[w]
  BY <1>1, SyncerTyped
<1>3. m.token \in {0} \cup Tokens /\ m.batch \in SUBSET Claims
  BY <1>1, <1>2, SyncerTyped
<1>4. PICK b : b = [AtRest EXCEPT !.at = "batch", !.token = m.token, !.batch = m.batch]
  OBVIOUS
<1>5. PICK n \in {AtRest, b} : syncer' = [syncer EXCEPT ![w] = n]
  BY <1>2, <1>4 DEF GoesTo, BatchGoesOn
<1>6. /\ n \in SyncerRecords /\ n.at \in {"idle", "batch"} /\ n.op = 0 /\ n.reply = "none"
      /\ n.v = 0 /\ n.kind = "update" /\ (n.at = "idle" => n = AtRest)
  <2>1. CASE n = AtRest
    BY <2>1, RestTyped
  <2>2. CASE n = b
    <3>1. PICK t \in {0} \cup Tokens : t = m.token
      BY <1>3
    <3>2. PICK c \in SUBSET Claims : c = m.batch
      BY <1>3
    <3>3. b = [AtRest EXCEPT !.at = "batch", !.token = t, !.batch = c]
      BY <1>4, <3>1, <3>2
    <3>4. /\ b \in SyncerRecords /\ b.at = "batch" /\ b.op = 0 /\ b.reply = "none"
          /\ b.v = 0 /\ b.kind = "update"
      BY <3>3, RestTyped DEF SyncerRecords, AtRest
    <3>5. QED BY <2>2, <3>4
  <2>3. QED BY <2>1, <2>2
<1>7. syncer'[w] = n /\ \A x \in Syncers : x # w => syncer'[x] = syncer[x]
  BY <1>1, <1>5, OneMoves
<1>8. n.at \notin Working
  BY <1>6 DEF Working
<1>9. SyncerShaped(w)' /\ Serves(w)' /\ ReadingFits(w)'
  BY <1>6, <1>7, AwayShaped
<1>10. QED BY <1>5, <1>6, <1>7, <1>8, <1>9

LEMMA CrashKeeps ==
  ASSUME ShopsInv, NEW w \in Syncers, SyncerCrashes(w)
  PROVE  ShopsInv'
<1>1. mishaps' \in 0 .. MaxMishaps /\ mishaps' = mishaps + 1
  BY CommerceAssumption DEF ShopsInv, ShopsTyped, SyncerCrashes
<1>2. /\ GoesTo(w, AtRest) /\ syncLock' = Unlocked(w) /\ barrier' = barrier
      /\ UNCHANGED <<registry, intent, queue, mapped, wire, remote, resolver>>
  BY DEF SyncerCrashes
<1>3. barrier' \in Retained(w)
  BY <1>2 DEF Retained
<1>4. PICK n \in SyncerRecords :
            /\ syncer' = [syncer EXCEPT ![w] = n] /\ syncer'[w] = n
            /\ n.at \in {"idle", "batch"} /\ n.at \notin Working /\ n.op = 0 /\ n.reply = "none"
            /\ SyncerShaped(w)' /\ Serves(w)' /\ ReadingFits(w)'
  BY <1>2, GoesAway
<1>5. QED BY <1>1, <1>2, <1>3, <1>4, LeavesKeeps

LEMMA TakeKeeps ==
  ASSUME ShopsInv, NEW w \in Syncers, TakeProduct(w)
  PROVE  ShopsInv'
<1>1. ShopsTyped /\ SyncerShaped(w)
  BY DEF ShopsInv
<1>2. PICK m \in SyncerRecords : m = syncer[w]
  BY <1>1, SyncerTyped
<1>3. PICK c \in m.batch : syncer' = [syncer EXCEPT ![w] = [m EXCEPT !.at = "next", !.batch = @ \ {c},
                                                            !.row = {c}, !.left = registry]]
  BY <1>2 DEF TakeProduct, GoesTo
<1>4. PICK b : b = m.batch \ {c}
  OBVIOUS
<1>5. PICK n : n = [m EXCEPT !.at = "next", !.batch = b, !.row = {c}, !.left = registry]
  OBVIOUS
<1>6. m.batch \in SUBSET Claims /\ registry \in SUBSET Shops
  BY <1>1, <1>2, SyncerTyped DEF ShopsTyped
<1>7. b \in SUBSET Claims /\ {c} \in SUBSET Claims /\ c \in Claims
  BY <1>4, <1>6
<1>8. /\ n \in SyncerRecords /\ n.at = "next" /\ n.row = {c} /\ n.left = registry /\ n.op = m.op
      /\ n.reply = m.reply /\ n.v = m.v /\ n.kind = m.kind
  BY <1>2, <1>5, <1>6, <1>7 DEF SyncerRecords
<1>9. /\ m.at = "batch" /\ syncer' = [syncer EXCEPT ![w] = n]
      /\ UNCHANGED <<registry, intent, queue, syncLock, barrier, mapped, wire, remote, resolver, mishaps>>
  BY <1>2, <1>3, <1>4, <1>5 DEF TakeProduct
<1>10. m.op = 0 /\ m.reply = "none" /\ m.v = 0 /\ m.kind = "update"
  BY <1>1, <1>2, <1>9 DEF SyncerShaped, Flying, HasRead
<1>11. syncer'[w] = n
  BY <1>1, <1>9, OneMoves
<1>12. SyncerShaped(w)'
  BY <1>7, <1>8, <1>10, <1>11 DEF SyncerShaped, Working, Flying, HasRead
<1>13. Serves(w)'
  <2>1. ((registry \cap Barred) \ syncer[w].left)' = {}
    BY <1>8, <1>9, <1>11
  <2>2. QED BY <2>1 DEF Serves
<1>14. syncLock' = Unlocked(w) /\ barrier' \in Retained(w) /\ n.at \notin Working
  BY <1>2, <1>8, <1>9, AwayHasNoLock DEF Working, Retained
<1>15. mishaps' \in 0 .. MaxMishaps
  BY <1>1, <1>9 DEF ShopsTyped
<1>16. QED BY <1>2, <1>8, <1>9, <1>10, <1>12, <1>13, <1>14, <1>15, LeavesKeeps

LEMMA NextKeeps ==
  ASSUME ShopsInv, NEW w \in Syncers, NextShop(w)
  PROVE  ShopsInv'
<1>1. ShopsTyped /\ SyncerShaped(w)
  BY DEF ShopsInv
<1>2. PICK m \in SyncerRecords : m = syncer[w]
  BY <1>1, SyncerTyped
<1>3. /\ m.at = "next"
      /\ UNCHANGED <<registry, intent, queue, syncLock, barrier, mapped, wire, remote, resolver, mishaps>>
  BY <1>2 DEF NextShop
<1>4. syncLock' = Unlocked(w) /\ barrier' \in Retained(w) /\ mishaps' \in 0 .. MaxMishaps
  BY <1>1, <1>2, <1>3, AwayHasNoLock DEF Working, Retained, ShopsTyped
<1>5. CASE BatchGoesOn(w)
  <2>1. PICK n \in SyncerRecords :
            /\ syncer' = [syncer EXCEPT ![w] = n] /\ syncer'[w] = n
            /\ n.at \in {"idle", "batch"} /\ n.at \notin Working /\ n.op = 0 /\ n.reply = "none"
            /\ SyncerShaped(w)' /\ Serves(w)' /\ ReadingFits(w)'
    BY <1>5, GoesAway
  <2>2. QED BY <1>2, <1>3, <1>4, <2>1, LeavesKeeps
<1>6. CASE ~BatchGoesOn(w)
  <2>1. PICK s \in m.left : syncer' = [syncer EXCEPT ![w] = [m EXCEPT !.at = "wait", !.shop = s]]
    BY <1>2, <1>6 DEF NextShop, GoesTo
  <2>2. PICK n : n = [m EXCEPT !.at = "wait", !.shop = s]
    OBVIOUS
  <2>3. s \in Shops
    BY <1>1, <1>2, SyncerTyped
  <2>4. /\ n \in SyncerRecords /\ n.at = "wait" /\ n.shop = s /\ n.row = m.row /\ n.left = m.left
        /\ n.op = m.op /\ n.reply = m.reply /\ n.v = m.v /\ n.kind = m.kind /\ n.token = m.token
        /\ n.failed = m.failed
    BY <1>2, <2>2, <2>3 DEF SyncerRecords
  <2>5. m.op = 0 /\ m.reply = "none" /\ m.v = 0 /\ m.kind = "update" /\ \E c \in Claims : m.row = {c}
    BY <1>1, <1>2, <1>3 DEF SyncerShaped, Flying, HasRead
  <2>6. syncer' = [syncer EXCEPT ![w] = n] /\ syncer'[w] = n
    BY <1>1, <2>1, <2>2, OneMoves
  <2>7. SyncerShaped(w)' /\ n.at \notin Working
    BY <2>3, <2>4, <2>5, <2>6 DEF SyncerShaped, Working, Flying, HasRead
  <2>8. NoMoreComes => Serves(w)'
    <3>1. Product(w)' = Product(w) /\ (Current(w)' <=> Current(w))
      BY <1>2, <1>3, <2>4, <2>6, SameHand, SameClaim
    <3>2. ServesOn(w)' => ServesOn(w)
      BY <1>2, <1>3, <2>4, <2>6, <3>1 DEF ServesOn
    <3>3. QED BY <1>2, <1>3, <2>4, <2>6, <3>1, <3>2, StillServes
  <2>9. QED BY <1>2, <1>3, <1>4, <2>4, <2>5, <2>6, <2>7, <2>8, LeavesKeeps
<1>7. QED BY <1>5, <1>6

\* ShopEnds: back to the claim.
LEMMA ShopEndsParts ==
  ASSUME ShopsInv, NEW w \in Syncers, NEW failed \in BOOLEAN, ShopEnds(w, failed),
         syncer[w].at \in {"wait"} \cup Working
  PROVE  \E n \in SyncerRecords :
            /\ syncer' = [syncer EXCEPT ![w] = n] /\ syncer'[w] = n
            /\ n.at = "next" /\ n.at \notin Working /\ n.op = 0 /\ n.reply = "none"
            /\ n.row = syncer[w].row /\ n.token = syncer[w].token
            /\ n.left = syncer[w].left \ {syncer[w].shop}
            /\ n.failed <=> syncer[w].failed \/ failed
            /\ SyncerShaped(w)' /\ (failed => Serves(w)')
<1>1. ShopsTyped /\ SyncerShaped(w)
  BY DEF ShopsInv
<1>2. PICK m \in SyncerRecords : m = syncer[w]
  BY <1>1, SyncerTyped
<1>3. m.left \in SUBSET Shops /\ m.failed \in BOOLEAN
  BY <1>1, <1>2, SyncerTyped
<1>4. PICK l \in SUBSET Shops : l = m.left \ {m.shop}
  BY <1>3
<1>5. PICK f \in BOOLEAN : f <=> m.failed \/ failed
  BY <1>3
<1>6. PICK n : n = [m EXCEPT !.at = "next", !.left = l, !.failed = f, !.shop = Nobody, !.v = 0,
                             !.kind = "update", !.op = 0, !.reply = "none"]
  OBVIOUS
<1>7. f = (m.failed \/ failed)
  BY <1>3, <1>5
<1>8. syncer' = [syncer EXCEPT ![w] = n]
  <2>1. syncer' = [syncer EXCEPT ![w] = [syncer[w] EXCEPT !.at = "next", !.left = @ \ {syncer[w].shop},
                                !.failed = @ \/ failed, !.shop = Nobody, !.v = 0,
                                !.kind = "update", !.op = 0, !.reply = "none"]]
    BY DEF ShopEnds, GoesTo
  <2>2. n = [syncer[w] EXCEPT !.at = "next", !.left = @ \ {syncer[w].shop},
                                !.failed = @ \/ failed, !.shop = Nobody, !.v = 0,
                                !.kind = "update", !.op = 0, !.reply = "none"]
    BY <1>2, <1>4, <1>6, <1>7, Zenon
  <2>3. QED BY <2>1, <2>2
<1>9. /\ n \in SyncerRecords /\ n.at = "next" /\ n.left = l /\ n.failed = f /\ n.v = 0
      /\ n.kind = "update" /\ n.op = 0 /\ n.reply = "none" /\ n.row = m.row /\ n.token = m.token
  <2>1. 0 \in 0 .. MaxIntent
    BY CommerceAssumption
  <2>2. QED BY <1>2, <1>6, <2>1 DEF SyncerRecords, Kinds
<1>10. syncer'[w] = n
  BY <1>1, <1>8, OneMoves
<1>11. \E c \in Claims : m.row = {c}
  BY <1>1, <1>2 DEF SyncerShaped, Working
<1>12. SyncerShaped(w)' /\ n.at \notin Working
  BY <1>9, <1>10, <1>11 DEF SyncerShaped, Working, Flying, HasRead
<1>13. failed => Serves(w)'
  BY <1>5, <1>9, <1>10 DEF Serves, ServesOn
<1>14. QED BY <1>2, <1>4, <1>5, <1>8, <1>9, <1>10, <1>12, <1>13

LEMMA NotLockedKeeps ==
  ASSUME ShopsInv, NEW w \in Syncers, LockProduct(w), ~MayStart(Spot(w))
  PROVE  ShopsInv'
<1>1. /\ syncer[w].at = "wait" /\ ShopEnds(w, TRUE)
      /\ UNCHANGED <<registry, intent, queue, syncLock, barrier, mapped, wire, remote, resolver, mishaps>>
  BY DEF LockProduct
<1>2. PICK n \in SyncerRecords :
            /\ syncer' = [syncer EXCEPT ![w] = n] /\ syncer'[w] = n
            /\ n.at = "next" /\ n.at \notin Working /\ n.op = 0 /\ n.reply = "none"
            /\ SyncerShaped(w)' /\ Serves(w)'
  BY <1>1, ShopEndsParts
<1>3. syncLock' = Unlocked(w) /\ barrier' \in Retained(w) /\ mishaps' \in 0 .. MaxMishaps
  BY <1>1, AwayHasNoLock DEF Working, Retained, ShopsInv, ShopsTyped
<1>4. QED BY <1>1, <1>2, <1>3, LeavesKeeps

LEMMA WorkFailsKeeps ==
  ASSUME ShopsInv, NEW w \in Syncers,
         WorkFails(w) \/ (FailsByItself(w) /\ ShopFails(w) /\ UNCHANGED mishaps)
  PROVE  ShopsInv'
<1>1. /\ barrier' \in Retained(w) /\ ShopEnds(w, TRUE) /\ syncLock' = Unlocked(w)
      /\ UNCHANGED <<registry, intent, queue, mapped, wire, remote, resolver>>
  BY DEF WorkFails, ShopFails
<1>2. mishaps \in 0 .. MaxMishaps /\ MaxMishaps \in Nat
  BY CommerceAssumption DEF ShopsInv, ShopsTyped
<1>3. mishaps' \in 0 .. MaxMishaps /\ (mishaps' = mishaps \/ mishaps' = mishaps + 1)
  BY <1>2 DEF WorkFails
<1>4. syncer[w].at = "sent" /\ syncer[w].reply = "none" => mishaps' = mishaps + 1
  BY DEF WorkFails, FailsByItself
<1>5. syncer[w].at \in {"wait"} \cup Working
  BY DEF WorkFails, FailsByItself, Working
<1>6. PICK n \in SyncerRecords :
            /\ syncer' = [syncer EXCEPT ![w] = n] /\ syncer'[w] = n
            /\ n.at = "next" /\ n.at \notin Working /\ n.op = 0 /\ n.reply = "none"
            /\ SyncerShaped(w)' /\ Serves(w)'
  BY <1>1, <1>5, ShopEndsParts
<1>7. QED BY <1>1, <1>3, <1>4, <1>6, LeavesKeeps

\* Under the lock, and with no request of its own, a worker that is done
\* knows what the shop holds and that nothing comes.
LEMMA DoneIsServed ==
  ASSUME ShopsInv, NEW w \in Syncers, syncer[w].at = "done", Owns(w), syncer[w].shop \in Barred,
         syncer[w].v # 0
  PROVE  Served(Spot(w), syncer[w].v)
<1>1. /\ ShopsTyped /\ WireFits /\ \A x \in Syncers : WorkerFits(x) /\ SyncerShaped(x)
  BY InvParts
<1>2. syncer[w].kind = "stock" /\ Placed(w) /\ syncer[w].at \notin Flying
  BY <1>1 DEF SyncerShaped, Placed, Flying
<1>3. Spot(w) \in Spots /\ Spot(w)[1] \in Barred
  BY <1>1, AtWork DEF Working, Spot
<1>4. /\ barrier[Spot(w)].st = "none"
      /\ remote[Spot(w)].product = syncer[w].v /\ remote[Spot(w)].stock \in {0, syncer[w].v}
  BY <1>1, <1>2 DEF WorkerFits
<1>5. \A r \in wire : r.at # Spot(w)
  BY <1>1, <1>3, <1>4 DEF WireFits
<1>6. ASSUME NEW x \in Syncers, Coming(x), Spot(x) = Spot(w) PROVE syncer[x].v = syncer[w].v
  <2>1. ~About(x)
    BY <1>1, <1>4, <1>6, InFlightFields DEF WorkerFits
  <2>2. x = w
    BY <1>6, <2>1 DEF Coming, Owns
  <2>3. QED BY <2>2
<1>7. QED BY <1>4, <1>5, <1>6 DEF Served

LEMMA DoneKeeps ==
  ASSUME ShopsInv, NEW w \in Syncers, ShopDone(w)
  PROVE  ShopsInv'
<1>1. /\ syncer[w].at = "done" /\ syncLock' = Unlocked(w)
      /\ ShopEnds(w, syncLock[Spot(w)] # w)
      /\ UNCHANGED <<registry, intent, queue, barrier, mapped, wire, remote, resolver, mishaps>>
  BY DEF ShopDone
<1>2. PICK f \in BOOLEAN : f = (syncLock[Spot(w)] # w)
  OBVIOUS
<1>3. syncer[w].at \in {"wait"} \cup Working /\ ShopEnds(w, f)
  BY <1>1, <1>2 DEF Working
<1>4. PICK n \in SyncerRecords :
            /\ syncer' = [syncer EXCEPT ![w] = n] /\ syncer'[w] = n
            /\ n.at = "next" /\ n.at \notin Working /\ n.op = 0 /\ n.reply = "none"
            /\ n.row = syncer[w].row /\ n.token = syncer[w].token
            /\ n.left = syncer[w].left \ {syncer[w].shop}
            /\ n.failed <=> syncer[w].failed \/ f
            /\ SyncerShaped(w)' /\ (f => Serves(w)')
  BY <1>3, ShopEndsParts
<1>5. barrier' \in Retained(w) /\ mishaps' \in 0 .. MaxMishaps /\ ShopsTyped /\ SyncerShaped(w)
  BY <1>1 DEF Retained, ShopsInv, ShopsTyped
<1>6. ASSUME NoMoreComes PROVE Serves(w)'
  <2> SUFFICES ASSUME ServesOn(w)', IsPublished(intent[Product(w)])',
                      NEW s \in ((registry \cap Barred) \ syncer[w].left)'
               PROVE  Served(<<s, Product(w)>>, intent[Product(w)])'
    BY DEF Serves
  <2>1. Product(w)' = Product(w) /\ (Current(w)' <=> Current(w))
    BY <1>1, <1>4, SameHand, SameClaim
  <2>2. ~f /\ ServesOn(w) /\ Owns(w)
    BY <1>1, <1>2, <1>4, <2>1 DEF ServesOn, Owns, Working
  <2>3. PICK p \in Products : p = Product(w)
    BY <1>1, <1>5, AtWork
  <2>4. PICK i : i = intent[p]
    OBVIOUS
  <2>5. i \in 1 .. MaxIntent /\ IsPublished(i) /\ Spot(w) = <<syncer[w].shop, p>>
    BY <1>1, <1>5, <2>1, <2>3, <2>4 DEF ShopsTyped, IsPublished, Spot
  <2>6. s \in Shops /\ s \in registry \cap Barred /\ (s \notin syncer[w].left \/ s = syncer[w].shop)
    BY <1>1, <1>4, <1>5 DEF ShopsTyped
  <2>7. Served(<<s, p>>, i)
    <3>1. CASE s = syncer[w].shop
      <4>1. ReadingFits(w) /\ syncer[w].at \in HasRead /\ Current(w)
        BY <1>1, <2>2 DEF ShopsInv, HasRead, ServesOn
      <4>2. syncer[w].v = i
        BY <2>3, <2>4, <2>5, <4>1 DEF ReadingFits
      <4>3. syncer[w].v # 0
        BY <2>5, <4>2
      <4>4. Served(Spot(w), syncer[w].v)
        BY <1>1, <2>2, <2>6, <3>1, <4>3, DoneIsServed
      <4>5. QED BY <2>5, <3>1, <4>2, <4>4
    <3>2. CASE s \notin syncer[w].left
      BY <2>2, <2>3, <2>4, <2>5, <2>6, <3>2 DEF ShopsInv, Serves
    <3>3. QED BY <2>6, <3>1, <3>2
  <2>8. Served(<<s, p>>, i)'
    BY <1>6, <2>4, <2>6, <2>7 DEF NoMoreComes, Spots
  <2>9. Product(w)' = p /\ (intent[Product(w)])' = i
    BY <1>1, <2>1, <2>3, <2>4
  <2>10. QED BY <2>8, <2>9 DEF Served
<1>7. QED BY <1>1, <1>4, <1>5, <1>6, LeavesKeeps

\* The product is over: its row goes, or comes again.
LEMMA FinishProductKeeps ==
  ASSUME ShopsInv, NEW w \in Syncers, FinishProduct(w)
  PROVE  ShopsInv'
<1>1. /\ syncer[w].at = "next" /\ syncer[w].left = {} /\ BatchGoesOn(w)
      /\ UNCHANGED <<registry, intent, syncLock, barrier, mapped, wire, remote, resolver, mishaps>>
  BY DEF FinishProduct
<1>2. PICK n \in SyncerRecords :
            /\ syncer' = [syncer EXCEPT ![w] = n] /\ syncer'[w] = n
            /\ n.at \in {"idle", "batch"} /\ n.at \notin Working /\ n.op = 0 /\ n.reply = "none"
            /\ SyncerShaped(w)' /\ Serves(w)' /\ ReadingFits(w)'
            /\ \A x \in Syncers : x # w => syncer'[x] = syncer[x]
  BY <1>1, GoesAway
<1>3. syncLock' = Unlocked(w) /\ barrier' \in Retained(w) /\ mishaps' \in 0 .. MaxMishaps
  BY <1>1, AwayHasNoLock DEF Working, Retained, ShopsInv, ShopsTyped
<1>4. CASE ~HoldsLease(w)
  <2>1. queue' = queue
    BY <1>4 DEF FinishProduct
  <2>2. QED BY <1>1, <1>2, <1>3, <2>1, LeavesKeeps
<1>5. CASE HoldsLease(w)
  <2>1. ShopsTyped /\ (\A x \in Syncers : SyncerShaped(x)) /\ \A q \in Products : QueueFits(q)
    BY DEF ShopsInv
  <2>2. PICK p \in Products : p = Product(w)
    BY <1>1, <2>1, AtWork
  <2>3. PICK m \in QueueRecords : m = queue[p]
    BY <2>1, QueueTyped
  <2>4. /\ m.st \in {"none", "row"} /\ m.requested \in 0 .. MaxIntent /\ m.claimed \in 0 .. MaxIntent
        /\ m.requested <= intent[p] /\ (m.st = "row" => m.requested # 0)
        /\ intent[p] \in 1 .. MaxIntent /\ MaxIntent \in Nat
    BY <2>1, <2>3, QueueTyped, CommerceAssumption DEF QueueFits
  <2>5. PICK d \in BOOLEAN : d <=> (syncer[w].failed => m.requested > m.claimed)
    OBVIOUS
  <2>6. PICK r : r = [m EXCEPT !.token = 0, !.live = FALSE, !.claimed = 0, !.due = d]
    OBVIOUS
  <2>7. /\ r \in QueueRecords /\ r.st = m.st /\ r.requested = m.requested /\ r.claimed = 0
        /\ r.live = FALSE
    <3>1. 0 \in 0 .. MaxIntent
      BY <2>4
    <3>2. QED BY <2>3, <2>6, <3>1 DEF QueueRecords
  <2>8. /\ NotQueued \in QueueRecords /\ NotQueued.st = "none" /\ NotQueued.requested = 0
        /\ NotQueued.claimed = 0 /\ NotQueued.live = FALSE
    <3>1. 0 \in 0 .. MaxIntent
      BY <2>4
    <3>2. QED BY <3>1 DEF NotQueued, QueueRecords
  <2>9. PICK k : k = IF syncer[w].failed THEN AfterRetry(p) ELSE AfterComplete(p)
    OBVIOUS
  <2>10. queue' = [queue EXCEPT ![p] = k]
    BY <1>5, <2>2, <2>9 DEF FinishProduct
  <2>11. \/ k = r
         \/ k = NotQueued /\ ~syncer[w].failed /\ m.requested = m.claimed
    <3>1. CASE syncer[w].failed
      <4>1. d = (m.requested > m.claimed)
        BY <2>4, <2>5, <3>1
      <4>2. QED BY <2>3, <2>6, <2>9, <3>1, <4>1 DEF AfterRetry
    <3>2. CASE ~syncer[w].failed
      <4>1. d = TRUE
        BY <2>5, <3>2
      <4>2. QED BY <2>3, <2>6, <2>9, <3>2, <4>1 DEF AfterComplete
    <3>3. QED BY <3>1, <3>2
  <2>12. k \in QueueRecords /\ k.live = FALSE /\ k.claimed <= k.requested /\ k.requested <= intent[p]
         /\ (k.st = "row" => k.requested # 0)
    BY <2>4, <2>7, <2>8, <2>11
  <2>13. /\ queue' \in [Products -> QueueRecords] /\ queue'[p] = k
         /\ \A q \in Products : q # p => queue'[q] = queue[q]
    BY <2>1, <2>10, <2>12 DEF ShopsTyped
  <2>14. Keeps
    BY <1>1, <1>2, <1>3, <2>13, OffKeeps
  <2>15. NoMoreComes
    BY <2>14 DEF Keeps
  <2>16. \A q \in Products : QueueFits(q)'
    BY <1>1, <2>1, <2>12, <2>13 DEF QueueFits
  <2>17. ASSUME NEW x \in Syncers, x # w PROVE ReadingFits(x)' /\ Serves(x)'
    <3>1. syncer'[x] = syncer[x]
      BY <1>2, <2>17
    <3>2. ASSUME syncer[x].at \notin {"idle", "batch"}, Current(x)' PROVE Current(x)
      <4>1. PICK q \in Products : q = Product(x)
        BY <2>1, <3>2, AtWork
      <4>2. PICK g : g = Claimed(x)
        OBVIOUS
      <4>3. Product(x)' = q /\ Claimed(x)' = g
        BY <3>1, <4>1, <4>2, SameHand
      <4>4. /\ queue'[q].st = "row" /\ queue'[q].token = syncer[x].token /\ queue'[q].live
            /\ queue'[q].claimed = g /\ queue'[q].requested = g
        BY <3>1, <3>2, <4>3, CurrentIs
      <4>5. q # p
        BY <2>12, <2>13, <4>4
      <4>6. queue'[q] = queue[q]
        BY <2>13, <4>5
      <4>7. QED BY <4>1, <4>2, <4>4, <4>6, CurrentIs
    <3>3. QED BY <1>1, <2>15, <3>1, <3>2, StillFits
  <2>18. ASSUME NEW q \in Products PROVE QueueServes(q)'
    <3>1. CASE q # p \/ k # NotQueued
      <4>1. queue'[q].st = "none" => queue[q].st = "none"
        BY <2>3, <2>7, <2>11, <2>13, <3>1
      <4>2. QED BY <1>1, <2>15, <4>1, QueueStillServes
    <3>2. CASE q = p /\ k = NotQueued
      <4>1. CASE k = r
        <5>1. queue[p].st = "none"
          BY <2>3, <2>7, <2>8, <3>2, <4>1
        <5>2. QED BY <1>1, <2>15, <3>2, <5>1, QueueStillServes
      <4>2. CASE k # r
        <5> SUFFICES ASSUME (IsPublished(intent[p]))', NEW s \in (registry \cap Barred)'
                     PROVE  Served(<<s, p>>, intent[p])'
          BY <3>2 DEF QueueServes
        <5>1. ~syncer[w].failed /\ queue[p].requested = queue[p].claimed
          BY <2>3, <2>11, <4>2
        <5>2. ServesOn(w)
          BY <1>1, <1>5, <2>2, <5>1 DEF ServesOn, Current, HoldsLease
        <5>3. PICK i : i = intent[p]
          OBVIOUS
        <5>4. s \in Shops /\ s \in registry \cap Barred /\ IsPublished(i)
          BY <1>1, <2>1, <5>3 DEF ShopsTyped, IsPublished
        <5>5. Served(<<s, p>>, i)
          BY <1>1, <2>2, <5>2, <5>3, <5>4 DEF ShopsInv, Serves
        <5>6. Served(<<s, p>>, i)'
          BY <2>15, <5>3, <5>4, <5>5 DEF NoMoreComes, Spots
        <5>7. (intent[p])' = i
          BY <1>1, <5>3
        <5>8. QED BY <5>6, <5>7 DEF Served
      <4>3. QED BY <4>1, <4>2
    <3>3. QED BY <3>1, <3>2
  <2>19. QueueParts'
    BY <1>2, <2>16, <2>17, <2>18 DEF QueueParts
  <2>20. QED BY <2>14, <2>19, InvOfParts
<1>6. QED BY <1>4, <1>5

\* A claim has a token of its own: the claim of another is no longer the row's.
LEMMA ClaimProductsKeeps ==
  ASSUME ShopsInv, NEW w \in Syncers, ClaimProductReevaluations(w)
  PROVE  ShopsInv'
<1>1. ShopsTyped /\ (\A x \in Syncers : SyncerShaped(x)) /\ \A p \in Products : QueueFits(p)
  BY DEF ShopsInv
<1>2. PICK t \in Tokens : t = FreshToken
  BY <1>1, FreshTokenIsNew
<1>3. t # 0 /\ (\A x \in Syncers : syncer[x].token # t) /\ MaxIntent \in Nat
  BY <1>1, <1>2, FreshTokenIsNew, CommerceAssumption
<1>4. PICK batch \in SUBSET DueProducts :
        /\ queue' = [p \in Products |->
                IF p \in batch
                THEN [queue[p] EXCEPT !.token = t, !.live = TRUE, !.claimed = queue[p].requested]
                ELSE queue[p]]
        /\ syncer' = [syncer EXCEPT ![w] =
                [AtRest EXCEPT !.at = "batch", !.token = t,
                               !.batch = {<<p, queue[p].requested>> : p \in batch}]]
  BY <1>2 DEF ClaimProductReevaluations
<1>5. /\ syncer[w].at = "idle"
      /\ UNCHANGED <<registry, intent, syncLock, barrier, mapped, wire, remote, resolver, mishaps>>
  BY DEF ClaimProductReevaluations
<1>6. \A p \in batch : p \in Products /\ queue[p].st = "row"
  BY <1>4 DEF DueProducts
<1>7. PICK b : b = {<<p, queue[p].requested>> : p \in batch}
  OBVIOUS
<1>8. b \in SUBSET Claims
  <2>1. ASSUME NEW p \in batch PROVE <<p, queue[p].requested>> \in Claims
    <3>1. queue[p].requested \in 0 .. MaxIntent /\ queue[p].requested # 0 /\ p \in Products
      BY <1>1, <1>6, QueueTyped DEF QueueFits
    <3>2. queue[p].requested \in 1 .. MaxIntent
      BY <1>3, <3>1
    <3>3. QED BY <3>1, <3>2 DEF Claims
  <2>2. QED BY <1>7, <2>1
<1>9. PICK n : n = [AtRest EXCEPT !.at = "batch", !.token = t, !.batch = b]
  OBVIOUS
<1>10. /\ n \in SyncerRecords /\ n.at = "batch" /\ n.op = 0 /\ n.reply = "none"
       /\ n.v = 0 /\ n.kind = "update"
  <2>1. t \in {0} \cup Tokens
    OBVIOUS
  <2>2. QED BY <1>8, <1>9, <2>1, RestTyped DEF SyncerRecords, AtRest
<1>11. syncer' = [syncer EXCEPT ![w] = n]
  BY <1>4, <1>7, <1>9
<1>12. syncer'[w] = n /\ n.at \notin Working /\ \A x \in Syncers : x # w => syncer'[x] = syncer[x]
  BY <1>1, <1>10, <1>11, OneMoves DEF Working
<1>13. SyncerShaped(w)' /\ Serves(w)' /\ ReadingFits(w)'
  BY <1>10, <1>12, AwayShaped
<1>14. ASSUME NEW p \in Products
       PROVE  /\ queue'[p] \in QueueRecords /\ QueueFits(p)' /\ queue'[p].st = queue[p].st
              /\ p \in batch => queue'[p].token = t
              /\ p \notin batch => queue'[p] = queue[p]
  <2>1. PICK m \in QueueRecords : m = queue[p]
    BY <1>1, QueueTyped
  <2>2. m.requested \in 0 .. MaxIntent /\ QueueFits(p)
    BY <1>1, <2>1, QueueTyped
  <2>3. CASE p \notin batch
    <3>1. queue'[p] = m
      BY <1>4, <2>1, <2>3
    <3>2. QED BY <1>5, <2>1, <2>2, <2>3, <3>1 DEF QueueFits
  <2>4. CASE p \in batch
    <3>1. PICK k : k = [m EXCEPT !.token = t, !.live = TRUE, !.claimed = m.requested]
      OBVIOUS
    <3>2. queue'[p] = k
      BY <1>4, <2>1, <2>4, <3>1
    <3>3. /\ k \in QueueRecords /\ k.st = m.st /\ k.token = t /\ k.claimed = m.requested
          /\ k.requested = m.requested
      BY <2>1, <2>2, <3>1 DEF QueueRecords
    <3>4. m.st = "row" /\ m.requested # 0 /\ m.requested <= intent[p]
      BY <1>6, <2>1, <2>2, <2>4 DEF QueueFits
    <3>5. QueueFits(p)'
      BY <1>3, <1>5, <2>2, <3>2, <3>3, <3>4 DEF QueueFits
    <3>6. QED BY <2>1, <2>4, <3>2, <3>3, <3>5
  <2>5. QED BY <2>3, <2>4
<1>15. queue' \in [Products -> QueueRecords]
  BY <1>4, <1>14
<1>16. syncLock' = Unlocked(w) /\ barrier' \in Retained(w) /\ mishaps' \in 0 .. MaxMishaps
  BY <1>1, <1>5, AwayHasNoLock DEF Working, Retained, ShopsTyped
<1>17. Keeps
  BY <1>5, <1>10, <1>11, <1>12, <1>13, <1>15, <1>16, OffKeeps
<1>18. NoMoreComes
  BY <1>17 DEF Keeps
<1>19. ASSUME NEW x \in Syncers, x # w PROVE ReadingFits(x)' /\ Serves(x)'
  <2>1. syncer'[x] = syncer[x]
    BY <1>12, <1>19
  <2>2. ASSUME syncer[x].at \notin {"idle", "batch"}, Current(x)' PROVE Current(x)
    <3>1. PICK q \in Products : q = Product(x)
      BY <1>1, <2>2, AtWork
    <3>2. PICK g : g = Claimed(x)
      OBVIOUS
    <3>3. Product(x)' = q /\ Claimed(x)' = g
      BY <2>1, <3>1, <3>2, SameHand
    <3>4. /\ queue'[q].st = "row" /\ queue'[q].token = syncer[x].token /\ queue'[q].live
          /\ queue'[q].claimed = g /\ queue'[q].requested = g
      BY <2>1, <2>2, <3>3, CurrentIs
    <3>5. q \notin batch
      BY <1>3, <1>14, <3>4
    <3>6. queue'[q] = queue[q]
      BY <1>14, <3>5
    <3>7. QED BY <3>1, <3>2, <3>4, <3>6, CurrentIs
  <2>3. QED BY <1>5, <1>18, <2>1, <2>2, StillFits
<1>20. \A p \in Products : QueueServes(p)'
  BY <1>5, <1>14, <1>18, QueueStillServes
<1>21. QueueParts'
  BY <1>13, <1>14, <1>19, <1>20 DEF QueueParts
<1>22. QED BY <1>17, <1>21, InvOfParts

-----------------------------------------------------------------------------
(* The shops are sound.                                                    *)

LEMMA ShopsInit == CommerceInit => ShopsInv
<1> SUFFICES ASSUME CommerceInit PROVE ShopsInv
  OBVIOUS
<1>1. PICK hidden \in SUBSET {p \in Products : ~IsPublished(intent[p])} :
        queue = [p \in Products |->
            IF p \in hidden THEN NotQueued
            ELSE [NotQueued EXCEPT !.st = "row", !.requested = 1, !.due = TRUE]]
  BY DEF CommerceInit
<1>2. /\ registry \in SUBSET Shops /\ intent \in [Products -> 1 .. MaxIntent]
      /\ syncer = [w \in Syncers |-> AtRest] /\ syncLock = [s \in Spots |-> Nobody]
      /\ barrier = [s \in Spots |-> NoBarrier] /\ mapped = [s \in Spots |-> FALSE]
      /\ wire = {} /\ remote = [s \in Spots |-> NothingThere] /\ resolver = NoResolution
      /\ mishaps \in 0 .. MaxMishaps
  BY DEF CommerceInit, Spots
<1>3. MaxIntent \in Nat \ {0} /\ MaxMishaps \in Nat /\ Nobody \notin Syncers
      /\ 0 \in 0 .. MaxIntent /\ 1 \in 0 .. MaxIntent
  BY CommerceAssumption
<1>4. PICK first : first = [NotQueued EXCEPT !.st = "row", !.requested = 1, !.due = TRUE]
  OBVIOUS
<1>5. /\ first \in QueueRecords /\ first.st = "row" /\ first.requested = 1 /\ first.claimed = 0
      /\ first.live = FALSE
      /\ NotQueued \in QueueRecords /\ NotQueued.st = "none" /\ NotQueued.requested = 0
      /\ NotQueued.claimed = 0 /\ NotQueued.live = FALSE
  BY <1>3, <1>4 DEF NotQueued, QueueRecords
<1>6. \A p \in Products : queue[p] = IF p \in hidden THEN NotQueued ELSE first
  BY <1>1, <1>4
<1>7. queue \in [Products -> QueueRecords]
  BY <1>1, <1>4, <1>5
<1>8. \A w \in Syncers : syncer[w] = AtRest
  BY <1>2
<1>9. ShopsTyped
  <2>1. NoBarrier \in BarrierRecords /\ NothingThere \in RemoteRecords
    BY <1>3 DEF NoBarrier, BarrierRecords, NothingThere, RemoteRecords
  <2>2. NoResolution.at = "idle" /\ NoResolution.op = 0
    BY DEF NoResolution
  <2>3. QED BY <1>2, <1>7, <2>1, <2>2, RestTyped DEF ShopsTyped
<1>10. \A p \in Products : QueueFits(p)
  BY <1>2, <1>3, <1>5, <1>6 DEF QueueFits
<1>11. \A w \in Syncers : SyncerShaped(w)
  BY <1>8, RestTyped DEF SyncerShaped, Working, Flying, HasRead
<1>12. LostAreCounted
  <2>1. Lost = {}
    BY <1>2 DEF Lost
  <2>2. QED BY <1>2, <2>1, FS_EmptySet DEF LostAreCounted
<1>13. SendersDiffer /\ LocksFit /\ WireFits
  BY <1>2, <1>3, <1>8, RestTyped DEF SendersDiffer, LocksFit, WireFits
<1>14. \A w \in Syncers : WorkerFits(w)
  BY <1>2, <1>8, RestTyped DEF WorkerFits, About, Owns, Placed, Working, Flying
<1>15. \A s \in Spots : RemoteFits(s)
  BY <1>2 DEF RemoteFits, NothingThere
<1>16. \A w \in Syncers : ReadingFits(w) /\ Serves(w)
  BY <1>8, RestTyped DEF ReadingFits, Serves, ServesOn, HasRead, Flying
<1>17. \A p \in Products : QueueServes(p)
  <2>1. \A p \in Products : queue[p].st = "none" => ~IsPublished(intent[p])
    BY <1>5, <1>6
  <2>2. QED BY <2>1 DEF QueueServes
<1>18. QED BY <1>9, <1>10, <1>11, <1>12, <1>13, <1>14, <1>15, <1>16, <1>17 DEF ShopsInv

LEMMA ShopsStep == ShopsInv /\ [CommerceNext]_commerceVars => ShopsInv'
<1> SUFFICES ASSUME ShopsInv, [CommerceNext]_commerceVars PROVE ShopsInv'
  OBVIOUS
<1>1. ASSUME NEW changed \in SUBSET Products \ {{}}, IntentChanges(changed) PROVE ShopsInv'
  BY <1>1, IntentKeeps
<1>2. ASSUME NEW w \in Syncers, SyncerStep(w) \/ SyncerFault(w) PROVE ShopsInv'
  <2>1. CASE LockProduct(w)
    BY <2>1, LockKeeps, NotLockedKeeps
  <2>2. CASE WorkFails(w) \/ (FailsByItself(w) /\ ShopFails(w) /\ UNCHANGED mishaps)
    BY <2>2, WorkFailsKeeps
  <2>3. QED BY <1>2, <2>1, <2>2, ClaimProductsKeeps, TakeKeeps, NextKeeps, FinishProductKeeps, ReadKeeps,
               BeginMutationKeeps, ClearKeeps, SendKeeps, CompleteKeeps, SaveMappingKeeps, DoneKeeps,
               CrashKeeps DEF SyncerStep, SyncerFault
<1>3. ASSUME NEW r \in wire, ShopApplies(r) \/ ShopRefuses(r) PROVE ShopsInv'
  BY <1>3, ShopsAnswer
<1>4. ASSUME NEW s \in Spots, OperatorLooks(s) \/ SessionLost(s) PROVE ShopsInv'
  BY <1>4, OperatorsKeep
<1>5. CASE OperatorResolves
  <2>1. resolver.spot \in Spots
    BY <1>5 DEF OperatorResolves, ShopsInv, ShopsTyped
  <2>2. QED BY <1>5, <2>1, OperatorsKeep
<1>6. ASSUME NEW p \in Products, LeasePasses(p) \/ RequestComesDue(p) PROVE ShopsInv'
  BY <1>6, TimeKeeps
<1>7. CASE UNCHANGED commerceVars
  <2>1. UNCHANGED <<registry, intent, queue, syncer, syncLock, barrier, mapped, wire, remote, resolver, mishaps>>
    BY <1>7 DEF commerceVars
  <2>2. /\ intent' \in [Products -> 1 .. MaxIntent] /\ queue' \in [Products -> QueueRecords]
        /\ mishaps' \in 0 .. MaxMishaps /\ \A p \in Products : QueueFits(p)'
    BY <2>1 DEF ShopsInv, ShopsTyped, QueueFits
  <2>3. \A x \in Syncers : Current(x)' => Current(x)
    BY <2>1, SameClaim
  <2>4. QED BY <2>1, <2>2, <2>3, QueueMoves
<1>8. QED BY <1>1, <1>2, <1>3, <1>4, <1>5, <1>6, <1>7 DEF CommerceNext, CommerceTimePasses, Spots

LEMMA ShopsInvIsSound == ShopsInv => ShopsAreSound
<1> SUFFICES ASSUME ShopsInv PROVE ShopsAreSound
  OBVIOUS
<1>1. /\ ShopsTyped /\ LocksFit /\ WireFits /\ (\A w \in Syncers : SyncerShaped(w))
      /\ (\A s \in Spots : RemoteFits(s)) /\ (\A p \in Products : QueueFits(p) /\ QueueServes(p))
  BY DEF ShopsInv
<1>2. CommerceTypeOK
  <2>1. \A p \in Products :
            /\ queue[p].st \in {"none", "row"} /\ queue[p].requested \in 0 .. MaxIntent
            /\ queue[p].token \in {0} \cup Tokens /\ queue[p].claimed <= queue[p].requested
            /\ queue[p].live => queue[p].token # 0 /\ queue[p].claimed # 0
    BY <1>1, QueueTyped DEF QueueFits
  <2>2. \A w \in Syncers :
            /\ syncer[w].at \in {"idle", "batch", "next", "wait", "read", "ready", "begun",
                                 "cleared", "sent", "refused", "map", "done"}
            /\ syncer[w].kind \in Kinds /\ syncer[w].reply \in {"none", "applied", "refused"}
            /\ syncer[w].at = "idle" => syncer[w] = AtRest
    BY <1>1, SyncerTyped DEF SyncerShaped, Working
  <2>3. \A s \in Spots :
            /\ barrier[s].st \in {"none", "in_flight", "uncertain"}
            /\ barrier[s].op \in {0} \cup Requests
            /\ remote[s].product \in 0 .. MaxIntent /\ remote[s].stock \in 0 .. MaxIntent
            /\ syncLock[s] # Nobody => Spot(syncLock[s]) = s
    BY <1>1, SpotTyped DEF LocksFit
  <2>4. QED BY <1>1, <2>1, <2>2, <2>3 DEF CommerceTypeOK, ShopsTyped, Spots
<1>3. NeverSentBlindly
  <2> SUFFICES ASSUME NEW s \in Barred \X Products
               PROVE  /\ \A q, r \in wire : q.at = s /\ r.at = s => q = r
                      /\ remote[s].copies <= 1
    BY DEF NeverSentBlindly
  <2>1. s \in Spots /\ s[1] \in Barred
    BY CommerceAssumption DEF Spots
  <2>2. QED BY <1>1, <2>1 DEF WireFits, RemoteFits
<1>4. QuietMeansConverged
  <2> SUFFICES ASSUME NEW p \in Products, NEW s \in registry \cap Barred,
                      queue[p].st = "none", IsPublished(intent[p])
               PROVE  /\ remote[<<s, p>>].product = intent[p]
                      /\ remote[<<s, p>>].stock \in {0, intent[p]}
    BY DEF QuietMeansConverged
  <2>1. Served(<<s, p>>, intent[p])
    BY <1>1 DEF QueueServes
  <2>2. QED BY <2>1 DEF Served
<1>5. StockIsAddressable
  BY <1>1 DEF StockIsAddressable, RemoteFits, Spots
<1>6. QED BY <1>2, <1>3, <1>4, <1>5 DEF ShopsAreSound

\* In a shop with barriers a product never has two requests at once and is
\* never made twice; a published product with no request queued is there what
\* it should be, whatever sessions, workers and answers were lost between;
\* stock is offered only of a product that Cloud can find again
\* (reevaluation.go, commerce_mutation_barriers.go).
THEOREM ShopsSound == CommerceSafe => []ShopsAreSound
<1>1. CommerceInit => ShopsInv
  BY ShopsInit
<1>2. ShopsInv /\ [CommerceNext]_commerceVars => ShopsInv'
  BY ShopsStep
<1>3. ShopsInv => ShopsAreSound
  BY ShopsInvIsSound
<1>4. QED BY <1>1, <1>2, <1>3, PTL DEF CommerceSafe
=============================================================================
