\* One command at a time.
SPECIFICATION Spec
CONSTANTS
    a = a
    b = b
    p1 = p1
    p2 = p2
    Names = {a, b}
    Procs = {p1}
    Declaring = {a}
    Mapping = {a, b}
    EnvTypes = {"development", "production"}
    Env = "development"
    Lists <- TheLists
    MaxVersion = 2
    MaxCommands = 2
PROPERTIES
    UpdatesBringTheClone
CHECK_DEADLOCK FALSE
