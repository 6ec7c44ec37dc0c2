\* Two players and two slots; one mod that changes speed and one that does not.
CONSTANTS
    Player = {p1, p2}
    None = None
    NumSlots = 2
    Mod = {dt, hd}
    Speed = {dt}
SPECIFICATION SettingsSpec
SYMMETRY Symmetry
INVARIANTS
    FreemodsSplit
    EmptySlotsAreClean
    TeamsHaveColours
PROPERTIES
    FreemodsKeepMods
\* As in MCMatchReferee.cfg.
CHECK_DEADLOCK FALSE
