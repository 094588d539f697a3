\* The program, in which nothing calls check_health.
SPECIFICATION AppSpec
CONSTANTS
    DegradedFails = 1
    OfflineFails = 2
    Thresholds = {78, 90}
    Confidence = 70
    MaxLog = 1
    MaxDecisions = 2
PROPERTY Reconnects
