SPECIFICATION FairSpec
CONSTANTS
    Conn = {c1, c2}
    MaxLags = 1
    MaxWipes = 1
CHECK_DEADLOCK FALSE
INVARIANTS
    TypeOK
    LiveIsKnown
    NoGhost
PROPERTY
    PresenceSettles
