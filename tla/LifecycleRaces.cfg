CONSTANTS
    i1 = i1
    i2 = i2
    c1 = c1
    c2 = c2
    Instances = {i1}
    Clients = {c1, c2}
    Ops <- AllOps
    FaultKinds <- AllFaults
    MaxFaults = 3
SPECIFICATION FairSpec
INVARIANT TypeOK
INVARIANT RowNeverAhead
INVARIANT TerminatedIsReleased
INVARIANT LeakNeedsFaults
PROPERTY ComesToRest
PROPERTY DestructionIsRecorded
CHECK_DEADLOCK FALSE
