SPECIFICATION Spec
CONSTANTS
    NSlots = 2
    Urls = {a, b}
    None = None
    Blank = Blank
    Ids = {1, 2, 3, 4, 5, 6, 7, 8, 9}
    Bounds <- OneCommand
INVARIANTS IndexIntoActive
