\* Three players and three slots: a host who moves, a kicked player and a
\* newcomer meet, and there is a slot to spare.
CONSTANTS
    Player = {p1, p2, p3}
    None = None
    NumSlots = 3
SPECIFICATION Spec
SYMMETRY Symmetry
INVARIANTS
    OneSeat
    SeatedAreMembers
\* Every session may end as a zombie: then nothing is left to happen.
CHECK_DEADLOCK FALSE
