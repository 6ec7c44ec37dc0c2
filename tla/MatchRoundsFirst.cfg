\* One round of three players in two slots: a member may be replaced during it.
CONSTANTS
    Player = {p1, p2, p3}
    None = None
    NumSlots = 2
    MaxRounds = 1
SPECIFICATION RoundsSpec
SYMMETRY Symmetry
INVARIANTS
    BeginsWhenAllLoaded
    BegunWhenAllLoaded
\* As in MCMatchReferee.cfg, and the host starts only MaxRounds rounds.
CHECK_DEADLOCK FALSE
