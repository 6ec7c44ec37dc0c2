\* One round is enough: the team type changes while its point is worked out.
CONSTANTS
    Player = {p1, p2}
    Tie = Tie
    Task = {t1}
    MaxBestOf = 3
    MaxRounds = 3
SPECIFICATION ScrimSpec
SYMMETRY Symmetry
INVARIANTS
    FirstToWins
CHECK_DEADLOCK FALSE
