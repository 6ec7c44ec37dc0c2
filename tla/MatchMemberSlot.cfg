\* Three players and two slots: a host, a kicked player and a newcomer, in a
\* match that was created as the game creates one.
CONSTANTS
    Player = {p1, p2, p3}
    None = None
    NumSlots = 2
SPECIFICATION GameSpec
SYMMETRY Symmetry
INVARIANTS
    MemberHasSlot
CHECK_DEADLOCK FALSE
