SPECIFICATION MCSpec
CONSTANTS
    d1 = d1
    d2 = d2
    a = a
    b = b
    c = c
    NoStore = NoStore
    NoRow = NoRow
    Events = {1, 2, 3}
    Ids = {a, b}
    Devices = {d1, d2}
    Bodies = {"body", "other"}
    Stores = {s1}
    Handlers = {h1, h2}
    IdOf <- MCIdOf
    DeviceOf <- MCDeviceOf
    BodyOf <- MCBodyOf
    LegacyHash <- MCLegacyHash
    Legacy = {1}
    MaxBatch = 2
    MaxFaults = 1
    Tills = {t1}
    MaxSales = 2
    SoldAt <- AllOnOne
    Works = {y1, y2}
    WalksSurvive = FALSE
    NoDevice = NoDevice
    MaxRestores = 1
    MaxLost = 1
    Scenes = {"inbox", "recovery"}
INVARIANTS AnswersAreTrue InboxIsSound RecoveredIsWhole
PROPERTIES EveryEventAnswered EveryDeviceReconciles
CHECK_DEADLOCK FALSE
