CONSTANTS
    Funds = 4
    MaxLevel = 2
    Results = {"won"}
    Raws <- MCRaws
    Texts <- MCTexts
    Lists = {"active", "market"}
    PageSize = 1
    MaxEvents = 3
    MaxMoves = 3
SPECIFICATION Spec
INVARIANTS OneBetPerMount StakeIsShown ListTruthful RoundsHalfDown
CHECK_DEADLOCK FALSE
PROPERTIES ToldIsListed
