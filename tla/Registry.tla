----------------------------- MODULE Registry ------------------------------
(***************************************************************************)
(* Who talks to whom: the list of matches with their chats, the tournament *)
(* clients that listen to them, spectators and their rooms, the lobby and  *)
(* the ordinary channels.                                                  *)
(*                                                                         *)
(* A session is one login of a user.  A session that is not in `players`   *)
(* may still be somebody's host: logging out does not tell the spectators. *)
(* The session of a user who comes back is another one.                    *)
(*                                                                         *)
(* A room is named after what it is for: the chat of match m is m, the     *)
(* room of those who spectate user u is u.  Clients show both kinds as     *)
(* #multiplayer and #spectator, but CHANNEL_JOIN and CHANNEL_PART look for *)
(* the real names, #multi_<id> and #spec_<id>, and anyone may send those.  *)
(*                                                                         *)
(* Slots and hosts are Match's: here a match has Seats places, a member    *)
(* may lose its slot to another (run match_member_slot), and stand from    *)
(* then on, and whatever needs the slot or the host may raise.             *)
(*                                                                         *)
(* Assumed of clients is what the game does and the server does not check. *)
(* A match is created as CreatesAsTheGame says in Match: its creator sits  *)
(* in it, and was in no other (join_match would refuse, and leave a match  *)
(* without players in the list).  Nobody parts the chat of its own match,  *)
(* or the room of the player it watches, by the real name (OwnRooms).  A   *)
(* tournament client does not play, and no other client sends tournament   *)
(* packets.  Nobody spectates oneself.                                     *)
(***************************************************************************)
EXTENDS Naturals, Sequences, FiniteSets

CONSTANTS
    User,
    Session,
    UserOf,        \* of a session
    Tourney,       \* sessions of tournament clients, with DONATOR
    Restricted,    \* sessions without NORMAL, the read_priv of every channel
    Lounge,        \* sessions whose users look at the list of matches
    Admin,         \* sessions that may !mp force
    Curious,       \* sessions that know the real names of rooms
    Evicted,       \* sessions that may end up in no slot
    MatchObj,      \* match objects
    NumIds,        \* 64
    Seats,         \* 16
    Public,        \* the ordinary channels other than #lobby
    Lobby,         \* #lobby
    None

ASSUME SessionAssumption ==
    /\ UserOf \in [Session -> User]
    /\ Tourney \subseteq Session /\ Restricted \subseteq Session /\ Lounge \subseteq Session
    /\ Admin \subseteq Session /\ Curious \subseteq Session /\ Evicted \subseteq Session
ASSUME RoomAssumption ==
    /\ User \cap MatchObj = {}
    /\ (Public \cup {Lobby}) \cap (User \cup MatchObj) = {}
    /\ Lobby \notin Public /\ None \notin Session \cup MatchObj
ASSUME SizeAssumption == NumIds \in Nat /\ Seats \in Nat

MatchId  == 1..NumIds
Instance == User \cup MatchObj
Room     == Instance \cup Public \cup {Lobby}

VARIABLES
    players,       \* the sessions of each user in `players`, in order
    dead,          \* those without a token, as their logout raised
    inLobby,       \* p.in_lobby
    match,         \* p.match
    standing,      \* those in a match and in no slot of it
    spectating,    \* p.spectating
    matches,       \* what is in each place of `matches`
    tourney,       \* m.tourney_clients: users
    rooms,         \* `channels`, and c.players of each
    names,         \* of those, the ones called #multi_i, in order
    came           \* history: who entered a room under its real name

sessions == <<players, dead, inLobby>>
rvars == <<sessions, match, standing, spectating, matches, tourney, rooms, names, came>>

online == {p \in Session : \E i \in DOMAIN players[UserOf[p]] : players[UserOf[p]][i] = p}

RegistryTypeOK ==
    /\ players \in [User -> Seq(Session)]
    /\ dead \subseteq Session /\ inLobby \subseteq Session
    /\ match \in [Session -> MatchObj \cup {None}]
    /\ standing \subseteq Session
    /\ spectating \in [Session -> Session \cup {None}]
    /\ matches \in [MatchId -> MatchObj \cup {None}]
    /\ tourney \in [MatchObj -> SUBSET User]
    /\ rooms \in [open : SUBSET Room, in : [Room -> SUBSET Session]]
    /\ names \in [MatchId -> Seq(MatchObj)]
    /\ came \in [Room -> SUBSET Session]

Registered    == {matches[i] : i \in MatchId} \ {None}
Members(m)    == {p \in Session : match[p] = m}
Seated(m)     == Members(m) \ standing
Spectators(h) == {p \in Session : spectating[p] = h}

\* Players.get: the first session of a user.
Found(u) == {p \in Session : players[u] # <<>> /\ p = Head(players[u])}

-----------------------------------------------------------------------------
(* Channels.  These are the rooms after a call.                             *)

CanJoin(rm, c, p) ==
    /\ p \notin rm.in[c] /\ p \notin Restricted
    /\ c = Lobby => p \in inLobby

join_channel(rm, c, p) ==
    IF CanJoin(rm, c, p) THEN [rm EXCEPT !.in[c] = @ \cup {p}] ELSE rm

\* An instance channel goes with the last of its players.  Mutant: with
\* anyone.
leave_channel_Any(rm, c, p) ==
    IF p \notin rm.in[c] THEN rm
    ELSE [open |-> IF c \in Instance THEN rm.open \ {c} ELSE rm.open,
          in   |-> [rm.in EXCEPT ![c] = @ \ {p}]]
leave_channel(rm, c, p) ==
    IF p \notin rm.in[c] THEN rm
    ELSE [open |-> IF c \in Instance /\ rm.in[c] = {p} THEN rm.open \ {c} ELSE rm.open,
          in   |-> [rm.in EXCEPT ![c] = @ \ {p}]]

\* All of them, at logout.
leave_channels(rm, p) ==
    [open |-> {c \in rm.open : c \notin Instance \/ rm.in[c] # {p}},
     in   |-> [c \in Room |-> rm.in[c] \ {p}]]

\* Channels.get_by_name: the first of the name.  The chat of a match that has
\* left the list may still be open, and bear the name of the next match's.
ByName(c) ==
    /\ c \in rooms.open
    /\ c \in MatchObj => \E i \in MatchId : names[i] # <<>> /\ c = Head(names[i])

ChannelJoin(p, c) ==
    /\ ByName(c) /\ CanJoin(rooms, c, p)
    /\ rooms' = join_channel(rooms, c, p)
    /\ UNCHANGED <<sessions, match, standing, spectating, matches, tourney>>

ChannelPart(p, c) ==
    /\ ByName(c) /\ p \in rooms.in[c]
    /\ rooms' = leave_channel(rooms, c, p)
    /\ UNCHANGED <<sessions, match, standing, spectating, matches, tourney>>

LobbyJoin(p) ==
    /\ p \in Lounge \ inLobby
    /\ inLobby' = inLobby \cup {p}
    /\ UNCHANGED <<players, dead, match, standing, spectating, matches, tourney, rooms>>

LobbyPart(p) ==
    /\ p \in inLobby
    /\ inLobby' = inLobby \ {p}
    /\ UNCHANGED <<players, dead, match, standing, spectating, matches, tourney, rooms>>

-----------------------------------------------------------------------------
(* Matches.                                                                 *)

\* Matches.get_free.
FreeId == {i \in MatchId : matches[i] = None /\ \A j \in 1..(i-1) : matches[j] # None}

\* An object nobody refers to any more, with a fresh channel.
Unused(m) == m \notin Registered /\ Members(m) = {} /\ rooms.in[m] = {} /\ m \notin rooms.open

\* Entering the chat of the match and leaving #lobby.
EnterMatch(rm, m, p) == leave_channel(join_channel(rm, m, p), Lobby, p)

MatchCreate(p) ==
    /\ p \notin Restricted \cup Tourney /\ match[p] = None
    /\ \E i \in FreeId, m \in {o \in MatchObj : Unused(o)} :
          /\ matches' = [matches EXCEPT ![i] = m]
          /\ tourney' = [tourney EXCEPT ![m] = {}]
          /\ rooms' = EnterMatch([rooms EXCEPT !.open = @ \cup {m}], m, p)
          /\ match' = [match EXCEPT ![p] = m]
    /\ UNCHANGED <<sessions, standing, spectating>>

\* A slot of m is taken: a free one, or one with somebody in it, which a host
\* that comes back, or a locked slot that was opened again, makes possible.
TakesSlot(m) ==
    \E lost \in {{}} \cup {{q} : q \in Seated(m) \cap Evicted} :
        /\ Cardinality(Seated(m) \ lost) < Seats
        /\ standing' = standing \cup lost

\* Mutant: a tournament client's user may join.
join_match_Anyone(p, m) ==
    /\ match[p] = None
    /\ CanJoin(rooms, m, p)
    /\ TakesSlot(m)
    /\ match' = [match EXCEPT ![p] = m]
    /\ rooms' = EnterMatch(rooms, m, p)
\* A wrong password refuses, too.
join_match(p, m) ==
    /\ match[p] = None
    /\ UserOf[p] \notin tourney[m]
    /\ CanJoin(rooms, m, p)
    /\ TakesSlot(m)
    /\ match' = [match EXCEPT ![p] = m]
    /\ rooms' = EnterMatch(rooms, m, p)

MatchJoin(p, m) ==
    /\ p \notin Restricted \cup Tourney
    /\ m \in Registered
    /\ join_match(p, m)
    /\ UNCHANGED <<sessions, spectating, matches, tourney>>

\* !mp force, said in the chat of the match, which need not be in the list.
mp_force(p, t) ==
    /\ p \in Admin /\ t \notin Tourney
    /\ match[p] # None /\ p \in rooms.in[match[p]]
    /\ join_match(t, match[p])
    /\ UNCHANGED <<sessions, spectating, matches, tourney>>

\* Who moves to an open slot takes it from whoever is in it, be it the sender,
\* whose slot was locked and opened again; other moves are nothing here.
MatchChangeSlot(p) ==
    /\ match[p] # None /\ p \notin standing
    /\ \E q \in Seated(match[p]) \cap Evicted : standing' = standing \cup {q}
    /\ UNCHANGED <<sessions, match, spectating, matches, tourney, rooms>>

\* p leaves its slot and its match, which goes when no slot is taken any more.
\* Mutant: the match goes with anyone who leaves.
Vacate_Any(p) ==
    /\ p \notin standing
    /\ match' = [match EXCEPT ![p] = None]
    /\ matches' = [i \in MatchId |-> IF matches[i] = match[p] THEN None ELSE matches[i]]
    /\ UNCHANGED standing
Vacate(p) ==
    /\ p \notin standing
    /\ match' = [match EXCEPT ![p] = None]
    /\ matches' = [i \in MatchId |->
                      IF matches[i] = match[p] /\ Seated(match[p]) = {p} THEN None ELSE matches[i]]
    /\ UNCHANGED standing

\* p has left its slot and the chat when the host property raises: p.match stays.
VacateRaises(p) ==
    /\ p \in Evicted \ standing /\ Seated(match[p]) # {p}
    /\ standing' = standing \cup {p}
    /\ UNCHANGED <<match, matches>>

\* PART_MATCH, and what happens to a player who is silenced.  For one in no
\* slot the assertion raises before anything changes.
MatchPart(p) ==
    /\ match[p] # None
    /\ Vacate(p) \/ VacateRaises(p)
    /\ rooms' = leave_channel(rooms, match[p], p)
    /\ UNCHANGED <<sessions, spectating, tourney>>

\* Not if any session of the user is in a slot of the match.
TourneyMatchJoinChannel(p, m) ==
    /\ p \in Tourney \ Restricted /\ m \in Registered
    /\ \A q \in Seated(m) : UserOf[q] # UserOf[p]
    /\ CanJoin(rooms, m, p)
    /\ rooms' = join_channel(rooms, m, p)
    /\ tourney' = [tourney EXCEPT ![m] = @ \cup {UserOf[p]}]
    /\ UNCHANGED <<sessions, match, standing, spectating, matches>>

\* For a user who is not in tourney_clients the last statement raises.
TourneyMatchLeaveChannel(p, m) ==
    /\ p \in Tourney \ Restricted /\ m \in Registered
    /\ p \in rooms.in[m] \/ UserOf[p] \in tourney[m]
    /\ rooms' = leave_channel(rooms, m, p)
    /\ tourney' = [tourney EXCEPT ![m] = @ \ {UserOf[p]}]
    /\ UNCHANGED <<sessions, match, standing, spectating, matches>>

-----------------------------------------------------------------------------
(* Spectators.                                                              *)

\* The room may be that of an earlier session of the same user: then the host
\* is not in it.
add_spectator(rm, h, p) ==
    LET c    == UserOf[h]
        made == IF c \in rm.open THEN rm
                ELSE [join_channel(rm, c, h) EXCEPT !.open = @ \cup {c}]
    IN  join_channel(made, c, p)

remove_spectator(rm, h, p) ==
    LET left == leave_channel(rm, UserOf[h], p)
    IN  IF Spectators(h) = {p} THEN leave_channel(left, UserOf[h], h) ELSE left

\* The rooms when p has stopped spectating, whomever it was.
Stopped(p) == IF spectating[p] = None THEN rooms ELSE remove_spectator(rooms, spectating[p], p)

StartSpectating(p, h) ==
    /\ p \notin Restricted
    /\ UserOf[h] # UserOf[p] /\ spectating[p] # h
    /\ LET stopped == Stopped(p)
       IN  /\ rooms' = add_spectator(stopped, h, p)
           /\ spectating' = [spectating EXCEPT ![p] = IF CanJoin(stopped, UserOf[h], p) THEN h ELSE None]
    /\ UNCHANGED <<sessions, match, standing, matches, tourney>>

StopSpectating(p) ==
    /\ spectating[p] # None
    /\ rooms' = Stopped(p)
    /\ spectating' = [spectating EXCEPT ![p] = None]
    /\ UNCHANGED <<sessions, match, standing, matches, tourney>>

-----------------------------------------------------------------------------
(* Sessions, as far as rooms see them.                                      *)

\* Beside the first session of a user in `players`, a second is for tournament
\* clients; the session object is a new one.
Login(p) ==
    /\ p \notin online /\ Spectators(p) = {}
    /\ \A q \in Found(UserOf[p]) : {p, q} \cap Tourney # {}
    /\ players' = [players EXCEPT ![UserOf[p]] = Append(@, p)]
    /\ UNCHANGED <<dead, inLobby, match, standing, spectating, matches, tourney, rooms>>

\* Those who spectate p, and tourney_clients, are not told.  Mutant: the
\* session is not taken out of its host's spectators.
Logout_KeepsSpectating(p) ==
    /\ players' = [players EXCEPT ![UserOf[p]] = SelectSeq(@, LAMBDA q : q # p)]
    /\ IF match[p] = None THEN UNCHANGED <<match, standing, matches>> ELSE Vacate(p)
    /\ rooms' = leave_channels(rooms, p)
    /\ inLobby' = inLobby \ {p}
    /\ UNCHANGED <<dead, spectating, tourney>>
Logout(p) ==
    /\ players' = [players EXCEPT ![UserOf[p]] = SelectSeq(@, LAMBDA q : q # p)]
    /\ IF match[p] = None THEN UNCHANGED <<match, standing, matches>> ELSE Vacate(p)
    /\ rooms' = leave_channels(Stopped(p), p)
    /\ spectating' = [spectating EXCEPT ![p] = None]
    /\ inLobby' = inLobby \ {p}
    /\ UNCHANGED <<dead, tourney>>

\* The token is gone when leave_match raises, and the session stays in `players`.
LogoutRaises(p) ==
    /\ match[p] # None
    /\ dead' = dead \cup {p}
    /\ \/ p \in standing /\ UNCHANGED <<match, standing, matches, rooms>>
       \/ VacateRaises(p) /\ rooms' = leave_channel(rooms, match[p], p)
    /\ UNCHANGED <<players, inLobby, spectating, tourney>>

-----------------------------------------------------------------------------

RegistryInit ==
    /\ players = [u \in User |-> <<>>]
    /\ dead = {} /\ inLobby = {}
    /\ match = [p \in Session |-> None]
    /\ standing = {}
    /\ spectating = [p \in Session |-> None]
    /\ matches = [i \in MatchId |-> None]
    /\ tourney = [m \in MatchObj |-> {}]
    /\ rooms = [open |-> Public \cup {Lobby}, in |-> [c \in Room |-> {}]]
    /\ names = [i \in MatchId |-> <<>>]
    /\ came = [c \in Room |-> {}]

\* The rooms the game leaves only with the match, or with the player it watches.
OwnRooms(p) == {match[p]} \cup {UserOf[h] : h \in {spectating[p]} \cap Session}

ChannelPacket(p) ==
    \/ LobbyJoin(p) \/ LobbyPart(p)
    \/ \E c \in Room \ OwnRooms(p) : ChannelPart(p, c)

MatchPacket(p) ==
    \/ MatchCreate(p) \/ MatchPart(p) \/ MatchChangeSlot(p)
    \/ \E u \in User : \E t \in Found(u) : mp_force(p, t)
    \/ \E m \in MatchObj : \/ MatchJoin(p, m)
                           \/ TourneyMatchJoinChannel(p, m)
                           \/ TourneyMatchLeaveChannel(p, m)

SpectatorPacket(p) ==
    \/ StopSpectating(p)
    \/ \E u \in User : \E h \in Found(u) : StartSpectating(p, h)

SessionStep(p) == Logout(p) \/ LogoutRaises(p)

\* Of those who came under the real name, the ones still there.
StillThere == [c \in Room |-> came[c] \cap rooms'.in[c]]

EntersByName(p) == \E c \in Public \cup {Lobby} \cup (IF p \in Curious THEN Instance ELSE {}) :
    /\ ChannelJoin(p, c)
    /\ came' = [came EXCEPT ![c] = @ \cup {p}]

OtherStep ==
    /\ \/ \E p \in Session : Login(p)
       \/ \E p \in online \ dead :
             ChannelPacket(p) \/ MatchPacket(p) \/ SpectatorPacket(p) \/ SessionStep(p)
    /\ came' = StillThere

\* A new match is called after its place in the list, and closed chats are not
\* in `channels`.
Renamed == [i \in MatchId |->
    SelectSeq(IF matches'[i] \in {None, matches[i]} THEN names[i] ELSE Append(names[i], matches'[i]),
              LAMBDA m : m \in rooms'.open)]

RegistryNext ==
    /\ OtherStep \/ \E p \in online \ dead : EntersByName(p)
    /\ names' = Renamed

RegistrySpec == RegistryInit /\ [][RegistryNext]_rvars

-----------------------------------------------------------------------------
(* Properties.                                                              *)

\* Where SEND_PUBLIC_MESSAGE takes a message to #spectator and #multiplayer.
SpectatorRoom(p) ==
    IF spectating[p] # None THEN {UserOf[spectating[p]]}
    ELSE IF Spectators(p) # {} THEN {UserOf[p]} ELSE {}
MatchRoom(p) == {match[p]} \ {None}

\* Who gets it: nobody, if the room is gone or p is not in it.
Reached(p, rms) == UNION {rooms.in[c] : c \in {d \in rms : d \in rooms.open /\ p \in rooms.in[d]}}

\* A player in a slot of a match reaches everyone who is in one, a spectator
\* everyone who watches the same player: p.match and p.spectating, which say
\* where to send, and the lists of the channel, which say who hears, are kept by
\* different handlers (cho.py:237-260).
MessagesReach == \A p \in online :
    /\ match[p] # None /\ p \notin standing =>
           Seated(match[p]) \subseteq Reached(p, MatchRoom(p))
    /\ spectating[p] # None =>
           Spectators(spectating[p]) \subseteq Reached(p, SpectatorRoom(p))

\* With two tournament clients of one user, the first to leave a match's chat
\* takes the user out of tourney_clients.
OnlyClient(p) == \A q \in Tourney : UserOf[q] = UserOf[p] => q = p

\* Nobody hears by accident: whoever did not ask for a room by its real name
\* is in a match's chat as a player, or as a tournament client of a user who
\* does not play in it (player.py:687-690), and in the room of a spectated
\* player to watch that player, or as the player while being watched
\* (player.py:912-920).
NobodyElseHears == \A p \in Session :
    /\ \A m \in Registered : p \in rooms.in[m] \ (Members(m) \cup came[m]) =>
          /\ p \in Tourney
          /\ OnlyClient(p) => \A q \in Seated(m) : UserOf[q] # UserOf[p]
    /\ \A u \in User : p \in rooms.in[u] \ came[u] =>
          \/ spectating[p] # None /\ UserOf[spectating[p]] = u
          \/ UserOf[p] = u /\ Spectators(p) # {}

\* A match somebody is in, and nobody has lost a slot of, is in the list, in one
\* place: so the next match gets another id, and CREATE_MATCH another chat name.
\* The list goes by the slots, who is in the match by p.match
\* (collections.py:142-160, player.py:753).
MatchesAreListed ==
    /\ \A p \in Session :
          match[p] # None /\ Members(match[p]) \cap standing = {} => match[p] \in Registered
    /\ \A i, j \in MatchId : matches[i] = matches[j] /\ matches[i] # None => i = j

\* Rooms keep what Rooms promises; so Channel.remove, which raises for a
\* channel that is not in the list, never does (channel.py:137-145).
Chat == INSTANCE Rooms WITH Person <- Session, open <- rooms.open, in <- rooms.in
RoomsSpec == Chat!Spec

=============================================================================
