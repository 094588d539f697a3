\* Two levels, counts up to 2, one report under way after its sender has given up.
SPECIFICATION Spec
CONSTANTS
    Levels = {"calm", "busy"}
    ZeroLevel = "calm"
    NoSnapshot = NoSnapshot
    NoReport = NoReport
    MaxFails = 2
    MaxLate = 1
INVARIANTS TypeOK OneLoop
PROPERTIES CloudConverges StopReturns
