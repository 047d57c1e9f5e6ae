SPECIFICATION FairSpec
CONSTANTS
    a1 = a1
    a2 = a2
    r1 = r1
    r2 = r2
    r3 = r3
    Nobody = Nobody
    App <- MCOneApp
    Request <- MCTwoRequests
    Kinds = {"install", "update", "start", "uninstall", "storage", "batch"}
    Renaming = {}
    PoolSize = 1
    MaxRestarts = 0
    WriteFails = FALSE
    CutWrites = FALSE
PROPERTY ReservationsEnd
PROPERTY OpLockEnds
PROPERTY BatchEnds
