\* A host, a kicked player and a newcomer; p3 has the staff privileges.
CONSTANTS
    Player = {p1, p2, p3}
    None = None
    NumSlots = 2
    Staff = {p3}
SPECIFICATION CourteousRefereeSpec
SYMMETRY Symmetry
INVARIANTS
    MemberHasSlot
    HostIsSeated
    NoZombie
    RefsInMatch
    ClosedHasNoTimer
    StatusHasPlayer
    PlayingInProgress
PROPERTIES
    NoEviction
    SeatingSpec
\* The match is created once; when it has closed nothing is left to happen
\* but logins and logouts.
CHECK_DEADLOCK FALSE
