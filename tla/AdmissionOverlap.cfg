CONSTANTS
    o1 = o1
    o2 = o2
    r1 = r1
    c1 = c1
    c2 = c2
    c3 = c3
    i1 = i1
    i2 = i2
    i3 = i3
    i4 = i4
    Orgs = {o1, o2}
    Regions = {r1}
    Clients = {c1, c2}
    Instances = {i1, i2, i3, i4}
    Sizes = {1, 2}
    MaxInstances <- TwoEach
    MaxCPUCores <- ThreeCores
    RegionCPU <- FourCores
SPECIFICATION Spec
INVARIANT TypeOK
INVARIANT InstanceQuota
INVARIANT SizedLimits
SYMMETRY Symmetry
CHECK_DEADLOCK FALSE
