\* A log of two decisions, three decisions, and the threshold that the program has,
\* above the confidence and below it once lowered for an outage.
SPECIFICATION Spec
CONSTANTS
    DegradedFails = 1
    OfflineFails = 2
    Thresholds = {78}
    Confidence = 70
    MaxLog = 2
    MaxDecisions = 3
INVARIANTS TypeOK LogIsRecent OutlivesRecovery
PROPERTIES RecoveryNoticed OutageNoticed
