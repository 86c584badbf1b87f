CONSTANTS
    Sessions = {1, 2}
    None = None
    Prefs = {"hidden"}
    Requests = {r1, r2}
    MaxEvents = 2
    MaxMoves = 1
SYMMETRY MCSymmetry
SPECIFICATION Spec
INVARIANTS ShownIsStored 
CHECK_DEADLOCK FALSE
