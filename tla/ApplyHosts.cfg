SPECIFICATION Spec
CONSTANTS
    Commands = {c1, c2}
    NHosts = 2
    NProjects = 2
    Contents = {a, b}
    Filters <- MCFilters
    Listings <- MCListings
    MaxEdits = 1
    MaxFaults = 1
    None = None
    Torn = Torn
    Unread = Unread
    Unnoticed = Unnoticed
    Values = {Up, Patterns, x}
    Unset = Unset
    Up = Up
    Patterns = Patterns
INVARIANTS PlanHolds OkMeansApplied
PROPERTIES WritesUnderLock ReservationSpec
SYMMETRY Symmetry
