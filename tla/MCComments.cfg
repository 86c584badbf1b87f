SPECIFICATION Spec
CONSTANTS
    MaxId = 2
    Initial = 1
    PageSize = 1
    Slots = {1, 2}
    MaxClicks = 2
    Hearts = {1}
    Gens = {0, 1, 2, 3, 4, 5}
INVARIANTS  NoneSkipped
PROPERTY PostShown
CHECK_DEADLOCK FALSE
