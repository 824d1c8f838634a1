\* The command lines of the experiments, those of the READMEs, and odd ones.
SPECIFICATION HostFairSpec
CONSTANTS
    Hosts <- MCHosts
    Layouts <- MCLayouts
    Locks = {0, 1, 2, 3, 4, 5}
    Uninitialised <- MCUninitialised
    MaxClients = 8
    Addresses = 4
    MaxPorts = 4
    RxQueuesPerLcore = 2
    LinkPolls = 2
    Word = 1048576
    Measured <- MCMeasured
    Latencies = {1, 2}
    ExitInterval = 3
    MaxLocks = 2
    MaxEvents = 2
    MaxReplies = 2
INVARIANTS
    TxQueuesApart
    EveryRxQueuePolled
    ClientsApart
    ServerKnowsRings
    RatesInWindow
    ReportSound
PROPERTIES
    EveryHostEnds
CHECK_DEADLOCK FALSE
