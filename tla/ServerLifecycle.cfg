\* One restart and two signals, one job before and one after the server is prepared.
SPECIFICATION Spec
CONSTANTS
    main = main
    x = x
    s1 = s1
    s2 = s2
    j1 = j1
    j2 = j2
    Main = main
    Restarts = {x}
    Signals = {s1, s2}
    PreJobs = {j1}
    PostJobs = {j2}
    MaxIncr = 1
INVARIANTS
    TypeOK
    NoCleanupForgotten
    CleanupsKeepTheirConnections
    TerminatedMeansDisconnected
    AtRestItServes
PROPERTIES
    SignalsExit
    RestartsServeAgain
CHECK_DEADLOCK FALSE
