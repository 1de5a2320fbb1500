\* Three keys over a capacity of two, with a throttle of two ticks.
SPECIFICATION Spec
CONSTANTS
    k1 = k1
    k2 = k2
    k3 = k3
    Keys = {k1, k2, k3}
    EmptyKey = EmptyKey
    Absent = Absent
    Null = Null
    NoExpiry = NoExpiry
    Never = Never
    Capacity = 2
    Ttls <- FewTtls
    Increments = {1}
    SweepEvery = 2
    MaxValue = 1
    MaxNow = 3
SYMMETRY KeySymmetry
INVARIANTS
    TypeOK
    CapacityBound
    OrderIsRecency
    SweepIsThorough
PROPERTIES
    OnlyTheLeastRecentIsEvicted
    PromiseSpec
