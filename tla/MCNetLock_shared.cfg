\* More requests than slots, shared requests only: two forwarded releases can
\* push back more than the switch queue has room for.
SPECIFICATION Spec
CONSTANTS
    s1 = s1
    s2 = s2
    s3 = s3
    x1 = x1
    x2 = x2
    Requests = {s1, s2, s3, x1}
    Exclusive = {}
    NoRequest = NoRequest
    Left = 1
    Right = 2
    RegisterModulus = 8
    LenInSwitch = 2
    FastRecirculation = TRUE
SYMMETRY Alike
INVARIANTS
    TypeOK
    ServerLengthExact
    SlotsExact
    NoStrandedWaiter
