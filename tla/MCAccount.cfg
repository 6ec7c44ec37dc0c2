CONSTANTS
    Session = {s1, s2}
    Task = {t1}
    Msg = {m1}
    OtherPriv = {}
    Other = {o1}
    Achievement = {a1}
    Nobody = Nobody
    PTask = {t1, t2}
    Sent <- MCSent
    Stats <- MCStats
    Slots = 2
    MySlot = 1
    MaxSent = 2
    KeyMod = {"4K", "5K"}
    u1 = u1
    u2 = u2
    u3 = u3
    User = {u1, u2, u3}
    Request = {r1}
    Score <- MCScore
    Mods = {"hd"}
    FriendsOf <- MCFriends
    CountryOf <- MCCountry
    Limit = 2
    Nothing = Nothing
    None = None
SPECIFICATION Spec
INVARIANTS
    OneSession
    CacheIsTrue
    NoMailLost
    WireIsRead
    ProfileIsTrue
    ModsAreValid
    BoardsAgree
PROPERTIES
    GhostsLeave
