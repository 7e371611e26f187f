CONSTANTS
    MaxSignals = 3
SPECIFICATION FairSpec
INVARIANTS WorkerInv NoLostWakeup AtMostOneMorePass
PROPERTIES StopEnds KeepsPolling
CHECK_DEADLOCK FALSE
