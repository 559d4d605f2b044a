SPECIFICATION FairSpec
CONSTANTS
    a = a
    b = b
    other = other
    Entries = {a, other}
    Images = {a}
    None = None
    MaxLoads = 2
    MaxPreloads = 1
    MaxEdits = 2
    MaxFaults = 1
PROPERTIES Settles
