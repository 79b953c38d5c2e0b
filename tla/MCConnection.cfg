CONSTANTS
    Sides = {"client", "server"}
    Links = {l1}
    OnConnect = {hConnect}
    OnDisconnect = {hDisconnect}
    OnClose = {hClose}
    Closer = closer
    SKEY = SKEY
    CTKEY = CTKEY
    MaxParcels = 6
    None = None
SPECIFICATION Spec
INVARIANTS
    ReadyWhenConnected
PROPERTIES
    ConnectIsHeard
    DisconnectIsHeard
CHECK_DEADLOCK FALSE
