\* When cleanups are called.
SPECIFICATION SafetySpec
CONSTANTS
    main = main
    x = x
    s1 = s1
    s2 = s2
    j1 = j1
    j2 = j2
    Main = main
    Restarts = {x}
    Signals = {s1}
    PreJobs = {j1}
    PostJobs = {j2}
    MaxIncr = 1
INVARIANTS
    CleanupsFollowSignals
CHECK_DEADLOCK FALSE
