CONSTANTS
    k1 = k1
    k2 = k2
    Keys = {k1, k2}
    Rate = 2
    Burst = 4
    Interval = 3
    CleanupAge = 6
SPECIFICATION LimiterSpec
INVARIANT LimiterTypeOK
PROPERTY WithinBudget
PROPERTY PauseIsEnough
