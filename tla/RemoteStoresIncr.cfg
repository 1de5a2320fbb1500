CONSTANTS
    Backends = {"redis", "deno-kv"}
    Callers = {c1, c2, c3}
    Keys = {k1, k2}
    Ttls = {1, 2, NoExpiry}
    Second = 2
    Absent = Absent
    Null = Null
    NoExpiry = NoExpiry
    MaxCalls = 4
    MaxNow = 3
SPECIFICATION Spec
SYMMETRY CallerSymmetry
INVARIANT
    EveryIncrementCounts
CHECK_DEADLOCK FALSE
