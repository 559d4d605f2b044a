SPECIFICATION FairSpec
CONSTANTS
    Applies = {a1, a2}
    Unlockers = {}
    NTargets = 2
    Deployed = {2}
    MaxFaults = 1
    None = None
    Unreadable = Unreadable
INVARIANTS LeakSurfaced CleanExit HeldDirExists
PROPERTIES SomeApplyProceeds EveryApplyEnds
CHECK_DEADLOCK FALSE
