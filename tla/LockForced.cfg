SPECIFICATION FairSpec
CONSTANTS
    Applies = {a1, a2}
    Unlockers = {u1}
    NTargets = 1
    Deployed = {}
    MaxFaults = 1
    None = None
    Unreadable = Unreadable
INVARIANTS IInv MutualExclusion
PROPERTIES ReservationSpec StaleLockRemoved
CHECK_DEADLOCK FALSE
