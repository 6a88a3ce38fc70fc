SPECIFICATION MCSpec
CONSTANTS
    s1 = s1
    s2 = s2
    Scenes = {"rivals", "rebuild", "backlog"}
    NoEvent = NoEvent
    Events = {1, 2, 3, 4}
    Sales = {s1, s2}
    Workers = {w1, w2}
    SaleOf <- MCSaleOf
    Version <- MCVersion
    Invalid <- MCInvalid
    BatchSize = 1
    AppClockLags = TRUE
    MaxFaults = 1
    MaxResets = 1
    MaxRebuilds = 1
INVARIANTS RowsAreSound BlockedForCause
PROPERTIES ImplementsLedger EverySaleSettles KeepsItsContracts
