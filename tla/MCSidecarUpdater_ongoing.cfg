SPECIFICATION Spec
CONSTANTS
    s1 = s1
    Nobody = Nobody
    Slot <- MCOneSlot
    MaxJobs = 3
    MaxRev = 1
    MaxCrashes = 0
INVARIANT OneScriptAtATime
