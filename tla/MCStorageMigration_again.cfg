SPECIFICATION FairSpec
CONSTANTS
    p1 = p1
    p2 = p2
    f1 = f1
    f2 = f2
    Place <- MCTwoPlaces
    File <- MCOneFile
    Medias = {FALSE}
    MaxClock = 3
    MaxMoves = 2
    MaxEdits = 0
    MaxMishaps = 0
CHECK_DEADLOCK FALSE
PROPERTY MigrationEnds
