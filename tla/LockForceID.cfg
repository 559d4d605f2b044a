SPECIFICATION Spec
CONSTANTS
    Applies = {a1, a2}
    Unlockers = {u1}
    NTargets = 1
    Deployed = {1}
    MaxFaults = 0
    None = None
    Unreadable = Unreadable
SYMMETRY Symmetry
PROPERTIES ForceUnlockMatchesID
CHECK_DEADLOCK FALSE
