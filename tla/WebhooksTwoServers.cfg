CONSTANTS
    w1 = w1
    w2 = w2
    d1 = d1
    d2 = d2
    d3 = d3
    u1 = u1
    u2 = u2
    p1 = p1
    p2 = p2
    c1 = c1
    c2 = c2
    Hooks = {w1}
    Deliveries = {d1}
    Urls = {u1}
    Dispatchers = {p1, p2}
    Updaters = {}
    MaxAttempts = 2
    Limit = 1
    MaxFaults = 0
SPECIFICATION WebhooksSpec
PROPERTY DeliveredIsFinal
SYMMETRY Symmetry
CHECK_DEADLOCK FALSE
