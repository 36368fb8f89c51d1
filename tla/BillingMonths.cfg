CONSTANTS
    u1 = u1
    u2 = u2
    u3 = u3
    i1 = i1
    i2 = i2
    c1 = c1
    c2 = c2
    Usages = {u1, u2}
    Invoices = {i1, i2}
    Clients = {c1, c2}
    Quantities = {3}
    Scale = 8
    Months = 2
    MaxFaults = 1
SPECIFICATION Spec
INVARIANT TypeOK
INVARIANT ItemsAddUp
INVARIANT OneMonth
INVARIANT LaterIsMore
SYMMETRY Symmetry
CHECK_DEADLOCK FALSE
