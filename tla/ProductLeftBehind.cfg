SPECIFICATION MCSafe
CONSTANTS
    Scenes = {"graph"}
    Products = {p1}
    Shops = {}
    Barred = {}
    Hidden = {2}
    Syncers = {w1}
    MaxIntent = 2
    MaxMishaps = 0
    Snapshots <- MCSnapshots
    Projectors = {w1, w2}
    NoStore = "none"
    MaxProjectorFaults = 1
    Articles = {}
    Owners = {"A", "B"}
    Deliveries = {d1}
    Processors = {w1}
    Commands = {}
    MaxVersion = 2
    MaxMischances = 1
INVARIANT
    NoProductLeftBehind
CHECK_DEADLOCK FALSE
