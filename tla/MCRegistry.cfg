\* bob looks at the list of matches and may force alice into his; alice knows
\* the real names of rooms, and may lose her slot to somebody else.
CONSTANTS
    alice = alice
    bob = bob
    a1 = a1
    a2 = a2
    b1 = b1
    bt = bt
    User = {alice, bob}
    Session = {a1, a2, b1, bt}
    UserOf <- MCUserOf
    Tourney = {bt}
    Restricted = {}
    Lounge = {b1}
    Admin = {b1}
    Curious = {a1, a2}
    Evicted = {a1, a2}
    MatchObj = {m1, m2}
    NumIds = 2
    Seats = 2
    Public = {}
    Lobby = Lobby
    None = None
SPECIFICATION RegistrySpec
SYMMETRY Symmetry
INVARIANTS
    MessagesReach
    NobodyElseHears
    MatchesAreListed
PROPERTIES
    RoomsSpec
