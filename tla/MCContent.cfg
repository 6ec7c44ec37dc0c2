CONSTANTS
    Task = {t1, t2}
    Session = {s1, s2}
    Play <- MCPlay
    Ranked = {"a"}
    FirstMode = "osu"
    MaxRows = 2
    None = None
    Request = {t1, t2}
    SetObj = {s1, s2}
    Id = {b1, b2}
    Nothing = Nothing
    oneRequest = oneRequest
    oneSet = oneSet
    oneId = oneId
    User = {u1, u2}
    Staff = {u1}
    MaxClans = 2
    NoClan = NoClan
    Nobody = Nobody
    Name = {s1, s2}
    Pick = {k1, k2}
    BMap = {b1, b2}
    MaxPools = 2
    NoPool = NoPool
SPECIFICATION Spec
SYMMETRY Symmetry
INVARIANTS
    ScoresOnce
    ScoresBest
    ScoresStats
    CacheIsStored
    ClansAgree
    PoolsAreStored
PROPERTIES
    ScoresKept
