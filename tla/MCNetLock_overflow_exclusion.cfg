\* More requests than slots, though recirculation beats the tail.
SPECIFICATION Spec
CONSTANTS
    s1 = s1
    s2 = s2
    s3 = s3
    x1 = x1
    x2 = x2
    Requests = {s1, s2, s3, x1}
    Exclusive = {x1}
    NoRequest = NoRequest
    Left = 1
    Right = 3
    RegisterModulus = 1024
    LenInSwitch = 3
    FastRecirculation = TRUE
SYMMETRY Alike
INVARIANTS
    MutualExclusion
CHECK_DEADLOCK FALSE
