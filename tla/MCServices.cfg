SPECIFICATION ServicesSpec
CONSTANTS
    web = web
    ai = ai
    Service <- MCService
    Main = web
    Commits = 3
    Touches <- MCTouches
    Moves <- MCMoves
    Packages = {1}
    Down = Down
    UpdateMishaps = 2
    Visit = {r1, r2}
    MaxVersion = 3
    MaxGiven = 1
    Asker = {r1, r2}
    Guesses = 1
    PerHour = 2
    Recent = 1
    Life = 2
    Hour = 3
    MaxNow = 2
    MaxTokens = 2
    Person = {x1, x2, x3}
    Caller = {r1, r2}
    MaxKey = 4
    GpuAsker = {r1, r2}
    GpuMishaps = 1
    Pool = {t1, t2}
    MaxJobs = 2
    Project = {t1, t2}
    CodeMishaps = 2
    Proxy = {x1, x2, x3}
    Worker = worker
    Desktop = desktop
    MaxHubRestarts = 1
    Address = {t1, t2}
    MediaMishaps = 2
    Refresher = {loop, rf1}
    Loop = loop
    Editions = 3
    CatalogueMishaps = 2
    PkgAsker = {x1, x2, x3}
    Versions = 2
    PkgMishaps = 1
    Editor = {r1, r2}
    Name = {t1, t2}
    MaxTunnel = 2
    CloudMishaps = 1
SYMMETRY Symmetry
CHECK_DEADLOCK FALSE
INVARIANT UpdatedRunsHead
INVARIANT OneOfTheTwoRuns
INVARIANT CredentialsFollowPassword
 
INVARIANT RunningIsAlive
INVARIANT SecretIsOne
INVARIANT GuideTellsTheTruth
INVARIANT RestartShowsTheSame
INVARIANT PackageStaysInstalled
INVARIANT KeyReachesApp
PROPERTY FirstLoginIsTheOwners
PROPERTY ResetEndsCodes
PROPERTY AdminRemains
PROPERTY NoBlindReboot
PROPERTY NoRuleIsLost
