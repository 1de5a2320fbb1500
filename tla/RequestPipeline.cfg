\* Three requests that may share one key, with one pre and one post hook; the
\* proofs hold for any number of hooks.
SPECIFICATION Spec
CONSTANTS
    r1 = r1
    r2 = r2
    r3 = r3
    k1 = k1
    Requests = {r1, r2, r3}
    Keys = {k1}
    HookCount = 1
    Null = Null
INVARIANTS
    TypeOK
    GaugeIsExact
    FailuresAreAnswered
    SequentialByKey
    ServedInOrder
PROPERTIES
    EveryRequestEnds
CHECK_DEADLOCK FALSE
