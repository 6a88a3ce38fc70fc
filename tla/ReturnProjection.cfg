SPECIFICATION MCSpec
CONSTANTS
    s1 = s1
    r1 = r1
    r2 = r2
    r3 = r3
    r4 = r4
    Scenes = {"rivals", "rebuild"}
    NoEvent = NoEvent
    Events = {1, 2, 3, 4, 5, 6}
    Returns = {r1, r2, r3, r4}
    Sales = {s1}
    Workers = {w1, w2}
    ReturnOf <- MCReturnOf
    SaleOf <- MCSaleOf
    Qty <- MCQty
    Refund <- MCRefund
    Sold <- MCSold
    Total <- MCTotal
    Invalid = {6}
    Mismatched <- MCMismatched
    BatchSize = 2
    MaxFaults = 1
    MaxRebuilds = 1
INVARIANTS NeverOverReturned BookIsSound BlockedForCause
PROPERTIES EveryReturnSettles KeepsItsContracts
