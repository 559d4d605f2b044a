SPECIFICATION FairSpec
CONSTANTS
    a = a
    b = b
    other = other
    Entries = {a, b, other}
    Images = {a, b}
    None = None
    MaxLoads = 1
    MaxPreloads = 1
    MaxEdits = 1
    MaxFaults = 1
INVARIANTS OnePicture
PROPERTIES EveryPictureShown
