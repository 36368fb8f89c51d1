CONSTANTS
    t1 = t1
    t2 = t2
    t3 = t3
    c1 = c1
    c2 = c2
    Tokens = {t1, t2, t3}
    Clients = {c1, c2}
    MaxFaults = 2
SPECIFICATION Spec
INVARIANT TypeOK
INVARIANT FewLinks
INVARIANT SpentOncePerClient
INVARIANT SomeLinkStored
SYMMETRY Symmetry
CHECK_DEADLOCK FALSE
