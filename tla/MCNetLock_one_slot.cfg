\* A lock with a single slot.
SPECIFICATION Spec
CONSTANTS
    s1 = s1
    s2 = s2
    s3 = s3
    x1 = x1
    x2 = x2
    Requests = {s1, x1, x2}
    Exclusive = {x1, x2}
    NoRequest = NoRequest
    Left = 1
    Right = 1
    RegisterModulus = 1024
    LenInSwitch = 1
    FastRecirculation = TRUE
INVARIANTS
    NoStrandedWaiter
CHECK_DEADLOCK FALSE
