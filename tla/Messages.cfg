SPECIFICATION MCSpec
CONSTANTS
    Scenes = {"outbox", "reports", "audience", "handover", "healing", "alerts"}
    Workers = {w1, w2}
    Dispatchers = {w1, w2}
    Runners = {w1, w2}
    Instances = {w1, w2}
    OutboxKeys = {k1}
    Keys <- MCKeys
    Contents <- MCContents
    Callbacks <- MCCallbacks
    MaxLapses = 2
    MaxPostponed = 1
    Nobody = Nobody
    Nothing = Nothing
    MaxSlots = 1
    ManualKeys = {m1}
    MaxRuns = 1
    Recipients = {p1, p2}
    MaxFigures = 2
    MaxTemplate = 2
    Devices = {v1}
    Addressees = {p1}
    AutoSyncOnReconnect = TRUE
    MaxRecoveryAttempts = 2
    MaxIncidents = 1
    MaxAlertMapping = 2
    MaxSilences = 1
INVARIANTS MessagesAreSound RunsAreSound OperationsAreSound
PROPERTIES DecisionsStay EveryMessageSettles EveryTaskSettles
CHECK_DEADLOCK FALSE
