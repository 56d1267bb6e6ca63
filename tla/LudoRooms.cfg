SPECIFICATION Spec
CONSTANTS
    u1 = u1
    u2 = u2
    Users = {u1, u2}
    Rooms = {r1, r2}
    Modes <- TwoPlayers
    StrikeLimit = 2
    NoRoom = NoRoom
    Nobody = Nobody
    MayConnect <- OneReconnects
    MaxCrashes = 1
    MaxVersion = 5
INVARIANTS SeatedOnce SettledOnce ResumedStaysOnline
PROPERTIES HandshakeEnds
CHECK_DEADLOCK FALSE
