SPECIFICATION Spec
CONSTANTS
    p1 = p1
    p2 = p2
    f1 = f1
    f2 = f2
    Place <- MCTwoPlaces
    File <- MCTwoFiles
    Medias = {TRUE, FALSE}
    MaxClock = 3
    MaxMoves = 1
    MaxEdits = 1
    MaxMishaps = 1
SYMMETRY Symmetry
INVARIANT NothingLost
INVARIANT SeesOwnWrites
INVARIANT CleansUnusedPlace
INVARIANT RunningMatchesEnv
INVARIANT EditsSurvive
PROPERTY OriginalsOutliveSwitch
CHECK_DEADLOCK FALSE
