\* Three requests of two addresses, and room for the counter of one of them,
\* over each of the three stores.
SPECIFICATION Spec
CONSTANTS
    r1 = r1
    r2 = r2
    r3 = r3
    a = a
    b = b
    Requests = {r1, r2, r3}
    Ips = {a, b}
    Limit = 2
    WindowMs = 3
    StoreTypes = {"map", "redis", "deno-kv"}
    Second = 3
    Capacity = 1
    EmptyKey = EmptyKey
    Absent = Absent
    Null = Null
    NoExpiry = NoExpiry
    Never = Never
    SweepEvery = 3
    MaxNow = 4
SYMMETRY Symmetry
INVARIANTS
    TypeOK
    AtMostLimitPerWindow
    RemainingIsExact
PROPERTIES
    WaitingOutTheResetStartsAfresh
CHECK_DEADLOCK FALSE
