CONSTANTS
    MKEY = MKEY
    Handlers = {h1}
    Sockets = {s1}
    MaxMessages = 2
    MaxSent = 2
    MaxLost = 0
    Cap = 1
    None = None
SPECIFICATION Spec
INVARIANTS
    EveryMessage
CHECK_DEADLOCK FALSE
