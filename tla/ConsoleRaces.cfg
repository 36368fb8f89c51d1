CONSTANTS
    o1 = o1
    o2 = o2
    s1 = s1
    s2 = s2
    Orgs = {o1, o2}
    Slots = {s1, s2}
    Commands <- Everything
    ShownTabs <- AllTabs
    MaxClicks = 6
SPECIFICATION Spec
INVARIANT TypeOK
INVARIANT LoadingIsAwaited
INVARIANT OneOrgPerTab
INVARIANT NothingElsewhere
INVARIANT HeaderIsCurrent
INVARIANT ShowsWhatWasAsked
INVARIANT ReadsOwnWrites
SYMMETRY Symmetry
CHECK_DEADLOCK FALSE
