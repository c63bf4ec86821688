SPECIFICATION ConnectSpec
CONSTANTS
    Absent = Absent
    SystemRoots = {"system"}
    MaxU64 = 7
    MaxPort = 3
    DefaultHopInterval = 30
    MinHopInterval = 5
    Configs <- MCConfigs
    DnsNames = {"host", "other"}
    Certs <- MCCerts
    Responses <- MCResponses
    StatusOk = 233
    StreamLimit = 1
    Uses = {"u1", "u2"}
INVARIANTS
    ConnectPortKept
CHECK_DEADLOCK FALSE
