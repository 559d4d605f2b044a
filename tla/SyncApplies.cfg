SPECIFICATION FairSpec
CONSTANTS
    NPaths = 3
    ComposeFile = 1
    Reserved = {2}
    Contents = {v1, v2, bad}
    Invalid = {bad}
    Dirs = {d1}
    Services = {s1, s2}
    MaxEdits = 1
    MaxFaults = 1
    None = None
    Torn = Torn
INVARIANTS IInv NoOrphans
PROPERTIES HookRuns TouchesOnlyItsOwn KnownUntilGone UpdatesRecreate Converges
