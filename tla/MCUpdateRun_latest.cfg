SPECIFICATION UpdateSpec
CONSTANTS
    web = web
    ai = ai
    Service <- MCService
    Main = web
    Commits = 3
    Touches <- MCTouches
    Moves <- MCStays
    Packages = {1}
    Down = Down
    UpdateMishaps = 1
INVARIANT UpdateRunsLatest
