SPECIFICATION MCSpec
CONSTANTS
    Scenes = {"shop", "reshown", "plain", "shops", "batch", "orders", "lapses", "ownership", "fault"}
    Products = {p1, p2}
    Shops = {shopify, woo}
    Barred = {shopify}
    Hidden = {2}
    Syncers = {w1, w2}
    MaxIntent = 3
    MaxMishaps = 2
    Snapshots <- MCSnapshots
    Projectors = {w1}
    NoStore = "none"
    MaxProjectorFaults = 1
    Articles = {x1, x2}
    Owners = {"A", "B"}
    Deliveries = {d1, d2}
    Processors = {w1, w2}
    Commands = {c1}
    MaxVersion = 2
    MaxMischances = 1
INVARIANTS ShopsAreSound OrdersAreSound
PROPERTIES OrdersOnlyMoveOn EveryQueueIsServed
CHECK_DEADLOCK FALSE
