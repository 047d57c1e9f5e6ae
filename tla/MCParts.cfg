SPECIFICATION PartsSpec
CONSTANTS
    e1 = e1
    e2 = e2
    u1 = u1
    u2 = u2
    Event <- MCEvents
    Patient <- MCPatient
    Recipient <- MCUsers
    NoEvent = NoEvent
    Batch = 2
    Rank <- MCRank
    MaxMishaps = 1
    s1 = s1
    Nobody = Nobody
    Slot <- MCOneSlot
    MaxJobs = 2
    MaxRev = 1
    MaxCrashes = 1
INVARIANT QueuedIsKept
INVARIANT CopiesNeedMishaps
INVARIANT StartsAreKeptApart
INVARIANT SuccessIsInstalled
INVARIANT StopHitsItsJob
PROPERTY QueuedIsDelivered
PROPERTY JobsAreReported
