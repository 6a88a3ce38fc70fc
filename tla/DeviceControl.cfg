SPECIFICATION Spec
CONSTANTS
    None = None
    MaxCommands = 2
    Keys = {k1, k2}
    Codes = {network}
    Calls = {x1, x2}
INVARIANTS OneCommand OkIsTrue ConflictIsTrue
PROPERTIES NeverRegresses EveryCommandIsDelivered
