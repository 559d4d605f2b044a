SPECIFICATION FairSpec
CONSTANTS
    Values = {u, v}
    Default = u
    Torn = Torn
    MaxCommands = 2
    MaxInputs = 1
    MaxDrops = 1
    MaxKills = 1
    MaxExits = 1
    MaxSaveFails = 1
CHECK_DEADLOCK FALSE
INVARIANTS IInv EditsSurvive
PROPERTIES KillKeepsState ToldIsSaved CatchesUp
