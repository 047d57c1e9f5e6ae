SPECIFICATION Spec
CONSTANTS
    a1 = a1
    a2 = a2
    r1 = r1
    r2 = r2
    r3 = r3
    Nobody = Nobody
    App <- MCTwoApps
    Request <- MCTwoRequests
    Kinds = {"update", "uninstall", "batch"}
    Renaming = {a1}
    PoolSize = 1
    MaxRestarts = 0
    WriteFails = FALSE
    CutWrites = FALSE
INVARIANT ReservationMatchesHolder
INVARIANT GuardMatchesUpdate
PROPERTY ForgottenOnlyAfterRemoval
