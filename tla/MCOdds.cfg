SPECIFICATION Spec
CONSTANTS
    None = None
    Prices <- EdgePrices
    Stakes = {1, 3, 7, 9, 97}
    Payouts <- CentPayouts
    MaxRenders = 3
INVARIANTS
    NotationsAgree
    KeepsPromise
    ArrowTellsLastMove
PROPERTIES
    ArrowGoesOut
CHECK_DEADLOCK FALSE
