\* Two tasks: the point of one round is worked out while another round ends.
CONSTANTS
    Player = {p1, p2}
    Tie = Tie
    Task = {t1, t2}
    MaxBestOf = 3
    MaxRounds = 4
SPECIFICATION ScrimSpec
SYMMETRY Symmetry
INVARIANTS
    PointsAreWins
    FirstToWinsIfPatient
    NoLeftOver
    KeysMatchTeamType
