SPECIFICATION Spec
CONSTANTS
    Users = {alice}
    Nobody = Nobody
    Down = Down
    MaxEvents = 2
    Rooms = {"chat"}
    Cap = 2
    MaxMsgs = 3
    MaxBalance = 2
INVARIANTS OneConnection SpeaksForUser ChatUpToDate BalanceCurrent
PROPERTIES LinkSpec StaysConnected
CHECK_DEADLOCK FALSE
