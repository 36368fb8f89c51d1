CONSTANTS
    u1 = u1
    u2 = u2
    k1 = k1
    k2 = k2
    t1 = t1
    t2 = t2
    s1 = s1
    s2 = s2
    Users = {u1, u2}
    Tokens = {k1, k2}
    BrowserTabs = {t1, t2}
    Slots = {s1, s2}
    MaxClicks = 4
SPECIFICATION FairSpec
INVARIANT TypeOK
INVARIANT HeaderNamesOwner
INVARIANT OwnData
INVARIANT InSync
PROPERTY Settles
CHECK_DEADLOCK FALSE
