\* The switch fails once at any point, with room for every request.
SPECIFICATION FairSpec
CONSTANTS
    c1 = c1
    c2 = c2
    h1 = h1
    h2 = h2
    Clients = {c1, c2}
    Hosts = {h1, h2}
    Requests <- MCRequests
    Exclusive <- MCRequests
    HostOf <- MCHostOf
    FirstOf <- MCFirstOf
    NoRequest = NoRequest
    Left = 1
    Right = 2
    RegisterModulus = 8
    MaxAttempts <- MCMaxAttempts
    MaxProbes = 1
    LenInSwitch = 2
INVARIANTS
    MutualExclusion
    ResumesFresh
    ResetHolds
PROPERTIES
    StoppedResumes
    EveryAttemptEnds
