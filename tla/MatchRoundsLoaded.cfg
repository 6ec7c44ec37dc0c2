\* Two players and two rounds are enough: the second finds the flags of the first.
CONSTANTS
    Player = {p1, p2}
    None = None
    NumSlots = 2
    MaxRounds = 2
SPECIFICATION RoundsSpec
SYMMETRY Symmetry
INVARIANTS
    BeginsWhenAllLoaded
CHECK_DEADLOCK FALSE
