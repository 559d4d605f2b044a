SPECIFICATION FairSpec
CONSTANTS
    MaxRuns = 2
    Laptops = {lap}
    lap = lap
    Files = {f1, f2}
    f1 = f1
    f2 = f2
    Contents = {a, b}
    a = a
    b = b
    Branches = {main, topic}
    main = main
    topic = topic
    MaxKills = 1
    None = None
INVARIANTS WriteInv MergedIsDeployed
PROPERTIES NeverOlderAfterNewer EveryRunEnds
CHECK_DEADLOCK FALSE
