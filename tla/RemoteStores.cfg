CONSTANTS
    Backends = {"redis", "deno-kv"}
    Cachers = {c3}
    Callers = {c1, c2, c3}
    Keys = {k1, k2}
    Ttls = {1, 2, NoExpiry}
    Second = 2
    Absent = Absent
    Null = Null
    NoExpiry = NoExpiry
    MaxCalls = 4
    MaxNow = 2
SPECIFICATION CacheSpec
SYMMETRY CallerSymmetry
INVARIANTS
    CacheTypeOK
    NoIncrementIsUndone
    OnlyTheEndlessStay
    DeletedIsGone
    CachedIsFresh
CHECK_DEADLOCK FALSE
