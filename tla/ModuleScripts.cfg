\* Three commands or three deployments in two terminals; after the last one
\* nothing more happens.
SPECIFICATION WorkspaceSpec
CONSTANTS
    a = a
    b = b
    p1 = p1
    p2 = p2
    staging = staging
    production = production
    Names = {a, b}
    Versions = {a}
    Procs = {p1, p2}
    EnvTypes = {"development", "production"}
    Env = "development"
    MaxCommands = 3
    DeployEnvs = {staging, production}
    Deployers = {p1, p2}
    DeployTypes = {"patch", "minor"}
    MaySkip = {"build"}
    Given <- AskedFor
    MaxDeploys = 3
SYMMETRY WorkspaceSymmetry
INVARIANTS
    SdkTypeOK
    InOrderUnlessLoose
    ListedItemsHaveFiles
    ListedSdksAreWhole
    CompleteMeansRunning
PROPERTIES
    TagsAreNotMoved
CHECK_DEADLOCK FALSE
