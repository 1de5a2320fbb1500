\* Three commands in two terminals; after the last one nothing more happens.
SPECIFICATION Spec
CONSTANTS
    a = a
    b = b
    p1 = p1
    p2 = p2
    Names = {a, b}
    Procs = {p1, p2}
    Declaring = {a}
    Mapping = {a, b}
    EnvTypes = {"development", "production"}
    Env = "development"
    Lists <- TheLists
    MaxVersion = 2
    MaxCommands = 3
SYMMETRY ProcSymmetry
INVARIANTS
    TypeOK
    WholeUnlessLoose
    ListedPluginsHaveFiles
    GlobalPluginsKeepTheirSource
    DeclarationsResolve
CHECK_DEADLOCK FALSE
