SPECIFICATION Safe
CONSTANTS
    d1 = d1
    d2 = d2
    a = a
    b = b
    c = c
    NoStore = NoStore
    NoRow = NoRow
    Events = {4, 5}
    Ids = {a, c}
    Devices = {d1, d2}
    Bodies = {"body", "other"}
    Stores = {s1, s2}
    Handlers = {h1, h2}
    IdOf <- MCIdOf
    DeviceOf <- MCDeviceOf
    BodyOf <- MCBodyOf
    LegacyHash <- MCLegacyHash
    Legacy = {4, 5}
    MaxBatch = 2
    MaxFaults = 0
PROPERTIES UpgradeFailureIsHarmless
