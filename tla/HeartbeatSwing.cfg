\* What the report of the loop says after a swing.
SPECIFICATION Spec
CONSTANTS
    Levels = {"calm", "busy"}
    ZeroLevel = "calm"
    NoSnapshot = NoSnapshot
    NoReport = NoReport
    MaxFails = 2
    MaxLate = 1
INVARIANT SwingReported
