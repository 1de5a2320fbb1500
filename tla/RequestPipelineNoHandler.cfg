\* A version no handler answers to.
SPECIFICATION SafetySpec
CONSTANTS
    r1 = r1
    r2 = r2
    r3 = r3
    k1 = k1
    Requests = {r1, r2}
    Keys = {k1}
    HookCount = 1
    Null = Null
INVARIANTS
    PostHooksFollowTheHandler
CHECK_DEADLOCK FALSE
