SPECIFICATION Spec
CONSTANTS
    a1 = a1
    a2 = a2
    r1 = r1
    r2 = r2
    r3 = r3
    Nobody = Nobody
    App <- MCOneApp
    Request <- MCTwoRequests
    Kinds = {"storage"}
    Renaming = {}
    PoolSize = 1
    MaxRestarts = 1
    WriteFails = FALSE
    CutWrites = TRUE
PROPERTY InterruptedMigrationBlocks
