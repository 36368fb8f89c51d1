CONSTANTS
    k1 = k1
    k2 = k2
    Keys = {k1}
    Rate = 2
    Burst = 2
    Interval = 2
    CleanupAge = 2
SPECIFICATION FairSpec
PROPERTY KeepsServing
