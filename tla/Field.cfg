SPECIFICATION MCSpec
CONSTANTS
    Workstations = {d1, d2}
    Credentials = {c1, c2, c3}
    Stores = {t1, t2}
    Requests = {x1, x2}
    NoStore = NoStore
    Fleet = {d1, d2}
    Sequences = {1, 2}
    Bucket <- MCBucket
    Artifacts <- MCArtifacts
    Stages = {50, 100}
    MaxCloudReoffers = 2
    Jobs = {x1, x2}
    Users = {u1, u2}
    Sessions = {n1, n2, n3, n4}
    People = {x1, x2}
    MaxVersion = 4
    MaxSecrets = 1
    MaxSteps = 2
    FirstOwner = u1
    Desks = {1, 2}
    Commands = {k1, k2}
    Creating = {k2}
    Values = {v1, v2}
    MaxRevision = 2
    Polls = {x1}
    Receipts = {"s1", "s2", "s3"}
    Refunds = {"r1", "r2"}
    Sold <- MCSold
    Given <- MCGiven
    Shops = {"A", "B"}
    NoShop = "none"
    Periods = {{1, 2}, {2}}
    RateUnit = 2
    Readers = {x1}
    Scenes = {"stores", "rollout", "releases", "sessions", "codes", "owners", "settings", "creation", "figures"}
INVARIANTS RegistryIsSound OutcomeIsKept AccountsAreSound  AdminIsSound CompleteIsWhole 
 
CHECK_DEADLOCK FALSE
