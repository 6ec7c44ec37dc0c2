-------------------------- MODULE RegistryProofs ---------------------------
(***************************************************************************)
(* The channels implement Rooms, and the list of matches is right, for any *)
(* users, sessions, matches and number of ids, whoever knows the real      *)
(* names of rooms and whoever loses a slot.  What makes it so is that a    *)
(* channel for an occasion exists exactly while somebody is in it (Live):  *)
(* every call of Player.join_channel and leave_channel keeps that, and     *)
(* RegistryInv, the inductive invariant, says who is certain to be in the  *)
(* chat of a match.  WatchInv adds who is in the rooms of spectators, and  *)
(* GuestInv who else is in the chats of matches: on them rest the theorems *)
(* about who hears what is said.                                           *)
(***************************************************************************)
EXTENDS Registry, TLAPS

Live(rm) ==
    /\ rm \in [open : SUBSET Room, in : [Room -> SUBSET Session]]
    /\ Public \cup {Lobby} \subseteq rm.open
    /\ \A c \in Instance : c \in rm.open <=> rm.in[c] # {}

\* Those in a match are no tournament clients, and in its chat if in a slot.
MembersTalk == \A p \in Session : match[p] # None =>
    p \notin Tourney /\ (p \notin standing => p \in rooms.in[match[p]])

\* In the chat of a match in the list is somebody who is in the match.
Inhabited == \A i \in MatchId :
    matches[i] # None => \E p \in rooms.in[matches[i]] : match[p] = matches[i]

RegistryInv ==
    /\ match \in [Session -> MatchObj \cup {None}]
    /\ standing \subseteq {p \in Session : match[p] # None}
    /\ spectating \in [Session -> Session \cup {None}]
    /\ matches \in [MatchId -> MatchObj \cup {None}]
    /\ Live(rooms)
    /\ MembersTalk
    /\ MatchesAreListed
    /\ Inhabited

-----------------------------------------------------------------------------
(* Player.join_channel and leave_channel.                                   *)

LEMMA JoinKeeps ==
    ASSUME NEW rm, Live(rm), NEW c \in rm.open, NEW p \in Session
    PROVE  /\ Live(join_channel(rm, c, p))
           /\ join_channel(rm, c, p).open = rm.open
           /\ \A d \in Room : d # c => join_channel(rm, c, p).in[d] = rm.in[d]
           /\ rm.in[c] \subseteq join_channel(rm, c, p).in[c]
           /\ CanJoin(rm, c, p) => p \in join_channel(rm, c, p).in[c]
BY DEF Live, join_channel, Room, Instance

LEMMA LeaveKeeps ==
    ASSUME NEW rm, Live(rm), NEW c \in Room, NEW p \in Session
    PROVE  /\ Live(leave_channel(rm, c, p))
           /\ leave_channel(rm, c, p).in = [rm.in EXCEPT ![c] = @ \ {p}]
<1> DEFINE left == leave_channel(rm, c, p)
<1>1. CASE p \notin rm.in[c]
    BY <1>1 DEF Live, leave_channel
<1>2. CASE p \in rm.in[c]
    <2>1. /\ left.open = IF c \in Instance /\ rm.in[c] = {p} THEN rm.open \ {c} ELSE rm.open
          /\ left.in = [rm.in EXCEPT ![c] = @ \ {p}]
          /\ left \in [open : SUBSET Room, in : [Room -> SUBSET Session]]
        BY <1>2 DEF leave_channel, Live
    <2>2. Public \cup {Lobby} \subseteq left.open
        BY <2>1, RoomAssumption DEF Live, Instance
    <2>3. ASSUME NEW d \in Instance  PROVE d \in left.open <=> left.in[d] # {}
        <3>1. d \in Room
            BY DEF Room
        <3>2. CASE d # c
            BY <2>1, <3>1, <3>2 DEF Live
        <3>3. CASE d = c
            BY <1>2, <2>1, <3>1, <3>3 DEF Live
        <3>4. QED  BY <3>2, <3>3
    <2>4. QED  BY <2>1, <2>2, <2>3 DEF Live
<1>3. QED  BY <1>1, <1>2

LEMMA LeaveAllKeeps ==
    ASSUME NEW rm, Live(rm), NEW p \in Session
    PROVE  /\ Live(leave_channels(rm, p))
           /\ \A c \in Room : leave_channels(rm, p).in[c] = rm.in[c] \ {p}
<1> DEFINE left == leave_channels(rm, p)
<1>1. /\ left.open = {c \in rm.open : c \notin Instance \/ rm.in[c] # {p}}
      /\ left.in = [c \in Room |-> rm.in[c] \ {p}]
      /\ left \in [open : SUBSET Room, in : [Room -> SUBSET Session]]
    BY DEF leave_channels, Live
<1>2. Public \cup {Lobby} \subseteq left.open
    BY <1>1, RoomAssumption DEF Live, Instance
<1>3. ASSUME NEW d \in Instance  PROVE d \in left.open <=> left.in[d] # {}
    BY <1>1 DEF Live, Room
<1>4. QED  BY <1>1, <1>2, <1>3 DEF Live

-----------------------------------------------------------------------------
(* Rooms of spectators: no chat of a match is touched.                      *)

LEMMA JoinIs ==
    ASSUME NEW O, NEW F, NEW c, NEW p, p \notin Restricted, c # Lobby, p \notin F[c]
    PROVE  join_channel([open |-> O, in |-> F], c, p) = [open |-> O, in |-> [F EXCEPT ![c] = F[c] \cup {p}]]
BY DEF join_channel, CanJoin

LEMMA AddSpectatorKeeps ==
    ASSUME NEW rm, Live(rm), NEW h \in Session, NEW p \in Session \ Restricted
    PROVE  /\ Live(add_spectator(rm, h, p))
           /\ \A m \in MatchObj : add_spectator(rm, h, p).in[m] = rm.in[m]
<1> DEFINE c == UserOf[h]
           made == IF c \in rm.open THEN rm
                   ELSE [join_channel(rm, c, h) EXCEPT !.open = @ \cup {c}]
<1>1. c \in User /\ c \in Instance /\ c \in Room /\ c \notin MatchObj /\ c # Lobby
    BY SessionAssumption, RoomAssumption DEF Instance, Room
<1>2. \A m \in MatchObj : m \in Room /\ m # c
    BY <1>1 DEF Instance, Room
<1>3. add_spectator(rm, h, p) = join_channel(made, c, p)
    BY DEF add_spectator
<1>4. CASE c \in rm.open
    BY <1>2, <1>3, <1>4, JoinKeeps
<1>5. CASE c \notin rm.open
    <2>1. rm.in[c] = {} /\ rm \in [open : SUBSET Room, in : [Room -> SUBSET Session]]
        BY <1>1, <1>5 DEF Live
    <2>2. PICK S \in SUBSET Session : made = [open |-> rm.open \cup {c}, in |-> [rm.in EXCEPT ![c] = S]]
        BY <1>1, <1>5, <2>1 DEF join_channel
    <2> DEFINE new == [open |-> rm.open \cup {c}, in |-> [rm.in EXCEPT ![c] = S \cup {p}]]
    <2>3. made.in[c] = S /\ made.in \in [Room -> SUBSET Session] /\ made.open = rm.open \cup {c}
        BY <1>1, <2>1, <2>2
    <2>4. join_channel(made, c, p) = new
        <3>1. CASE p \in S
            <4>1. S \cup {p} = S
                BY <3>1
            <4>2. join_channel(made, c, p) = made
                BY <2>3, <3>1 DEF join_channel, CanJoin
            <4>3. QED  BY <2>2, <4>1, <4>2
        <3>2. CASE p \notin S
            <4> DEFINE F == [rm.in EXCEPT ![c] = S]
            <4>1. made = [open |-> rm.open \cup {c}, in |-> F]
                BY <2>2
            <4>2. /\ F \in [Room -> SUBSET Session] /\ F[c] = S
                  /\ [F EXCEPT ![c] = S \cup {p}] = [rm.in EXCEPT ![c] = S \cup {p}]
                BY <1>1, <2>1
            <4> HIDE DEF F, made
            <4> HIDE DEF c
            <4>3. p \notin Restricted /\ c # Lobby /\ p \notin F[c]
                BY <1>1, <3>2, <4>2
            <4>4. \A O : join_channel([open |-> O, in |-> F], c, p) = [open |-> O, in |-> [F EXCEPT ![c] = F[c] \cup {p}]]
                BY <4>3, JoinIs
            <4>5. join_channel([open |-> rm.open \cup {c}, in |-> F], c, p)
                  = [open |-> rm.open \cup {c}, in |-> [F EXCEPT ![c] = F[c] \cup {p}]]
                BY <4>4
            <4>6. QED  BY <4>1, <4>2, <4>5
        <3>3. QED  BY <3>1, <3>2
    <2>5. /\ new.open = rm.open \cup {c} /\ new.open \subseteq Room
          /\ new.in = [rm.in EXCEPT ![c] = S \cup {p}]
          /\ new.in \in [Room -> SUBSET Session]
        BY <1>1, <2>1
    <2>6. new.in[c] # {} /\ \A d \in Room : d # c => new.in[d] = rm.in[d]
        BY <1>1, <2>1, <2>5
    <2>7. Live(new)
        BY <1>1, <2>5, <2>6 DEF Live, Room
    <2>8. QED  BY <1>2, <1>3, <2>4, <2>6, <2>7
<1>6. QED  BY <1>4, <1>5

LEMMA RemoveSpectatorKeeps ==
    ASSUME NEW rm, Live(rm), NEW h \in Session, NEW p \in Session
    PROVE  /\ Live(remove_spectator(rm, h, p))
           /\ \A m \in MatchObj : remove_spectator(rm, h, p).in[m] = rm.in[m]
<1> DEFINE c == UserOf[h]
           left == leave_channel(rm, c, p)
<1>1. c \in Room /\ \A m \in MatchObj : m \in Room /\ m # c
    BY SessionAssumption, RoomAssumption DEF Instance, Room
<1>2. Live(left) /\ left.in = [rm.in EXCEPT ![c] = @ \ {p}]
    BY <1>1, LeaveKeeps
<1>3. /\ Live(leave_channel(left, c, h))
      /\ leave_channel(left, c, h).in = [left.in EXCEPT ![c] = @ \ {h}]
    BY <1>1, <1>2, LeaveKeeps
<1>4. remove_spectator(rm, h, p) \in {left, leave_channel(left, c, h)}
    BY DEF remove_spectator
<1>5. \A m \in MatchObj : left.in[m] = rm.in[m] /\ leave_channel(left, c, h).in[m] = rm.in[m]
    BY <1>1, <1>2, <1>3 DEF Live
<1>6. QED  BY <1>2, <1>3, <1>4, <1>5

LEMMA StoppedKeeps ==
    ASSUME RegistryInv, NEW p \in Session
    PROVE  Live(Stopped(p)) /\ \A m \in MatchObj : Stopped(p).in[m] = rooms.in[m]
BY RemoveSpectatorKeeps DEF Stopped, RegistryInv

-----------------------------------------------------------------------------
(* The invariant.                                                           *)

LEMMA RegistryInitInv == RegistryInit => RegistryInv
<1> SUFFICES ASSUME RegistryInit  PROVE RegistryInv
    OBVIOUS
<1> USE DEF RegistryInit
<1>1. Live(rooms)
    BY RoomAssumption DEF Live, Room, Instance
<1>2. MembersTalk /\ MatchesAreListed /\ Inhabited
    BY DEF MembersTalk, MatchesAreListed, Inhabited, MatchId
<1>3. QED  BY <1>1, <1>2 DEF RegistryInv

\* Who is in a chat is a session, and a match is a room.
LEMMA ChatsAre == ASSUME RegistryInv
    PROVE  \A m \in MatchObj : m \in Room /\ m # None /\ rooms.in[m] \subseteq Session
BY RoomAssumption DEF RegistryInv, Live, Room, Instance

\* Nothing but the rooms changes, and the chats of matches keep their members.
LEMMA RoomsChange ==
    ASSUME RegistryInv, Live(rooms'), UNCHANGED <<match, standing, matches>>,
           spectating' \in [Session -> Session \cup {None}],
           \A m \in MatchObj, p \in Session : match[p] = m /\ p \in rooms.in[m] => p \in rooms'.in[m]
    PROVE  RegistryInv'
<1>1. MembersTalk'
    BY DEF RegistryInv, MembersTalk
<1>2. MatchesAreListed'
    BY DEF RegistryInv, MatchesAreListed, Registered, Members
<1>3. Inhabited'
    <2>1. SUFFICES ASSUME NEW i \in MatchId, matches[i] # None
                   PROVE  \E p \in rooms'.in[matches[i]] : match[p] = matches[i]
        BY DEF Inhabited
    <2>2. PICK p \in rooms.in[matches[i]] : match[p] = matches[i]
        BY <2>1 DEF RegistryInv, Inhabited
    <2>3. matches[i] \in MatchObj /\ p \in Session
        BY <2>1, <2>2, ChatsAre DEF RegistryInv
    <2>4. QED  BY <2>2, <2>3
<1>4. QED  BY <1>1, <1>2, <1>3 DEF RegistryInv

\* p leaves its slot and its match, and its rooms as they may be.
LEMMA VacateKeeps ==
    ASSUME RegistryInv, NEW p \in Session, match[p] # None, Vacate(p), Live(rooms'),
           spectating' \in [Session -> Session \cup {None}],
           \A m \in MatchObj, q \in Session \ {p} : q \in rooms.in[m] => q \in rooms'.in[m]
    PROVE  RegistryInv'
<1> USE DEF RegistryInv, Vacate
<1>1. /\ match' \in [Session -> MatchObj \cup {None}] /\ match' = [match EXCEPT ![p] = None]
      /\ matches' \in [MatchId -> MatchObj \cup {None}]
      /\ p \notin standing /\ standing' = standing /\ match[p] \in MatchObj
    OBVIOUS
<1>2. \A q \in Session : match'[q] # None => q # p /\ match'[q] = match[q] /\ match[q] \in MatchObj
    BY <1>1
<1>3. MembersTalk'
    BY <1>1, <1>2 DEF MembersTalk
<1>4. \A i \in MatchId : matches'[i] # None => matches'[i] = matches[i]
    OBVIOUS
<1>5. ASSUME NEW q \in Session, match'[q] # None, (Members(match[q]) \cap standing = {})'
      PROVE  match'[q] \in Registered'
    <2>0. Members(match[q]) \cap standing = {}
        BY <1>1, <1>2, <1>5 DEF Members
    <2>1. PICK i \in MatchId : matches[i] = match[q]
        BY <1>2, <1>5, <2>0 DEF MatchesAreListed, Registered
    <2>2. q \in Seated(match[q]) /\ q # p
        BY <1>2, <1>5, <2>0 DEF Members, Seated
    <2>3. matches'[i] = matches[i]
        BY <2>1, <2>2
    <2>4. QED  BY <1>2, <1>5, <2>1, <2>3 DEF Registered
<1>6. MatchesAreListed'
    BY <1>4, <1>5 DEF MatchesAreListed
<1>7. ASSUME NEW i \in MatchId, matches'[i] # None
      PROVE  \E q \in rooms'.in[matches'[i]] : match'[q] = matches'[i]
    <2>1. matches'[i] = matches[i] /\ matches[i] \in MatchObj
        BY <1>4, <1>7
    <2>2. CASE matches[i] # match[p]
        <3>1. PICK q \in rooms.in[matches[i]] : match[q] = matches[i]
            BY <1>7, <2>1 DEF Inhabited
        <3>2. q \in Session /\ q # p
            BY <2>1, <2>2, <3>1, ChatsAre
        <3>3. q \in rooms'.in[matches[i]] /\ match'[q] = matches[i]
            BY <1>1, <2>1, <3>1, <3>2
        <3>4. QED  BY <2>1, <3>3
    <2>3. CASE matches[i] = match[p]
        <3>1. Seated(match[p]) # {p}
            BY <1>7, <2>3
        <3>2. PICK q \in Session : q # p /\ match[q] = match[p] /\ q \notin standing
            BY <1>1, <3>1 DEF Seated, Members
        <3>3. q \in rooms.in[match[p]]
            BY <1>1, <3>2, RoomAssumption DEF MembersTalk
        <3>4. q \in rooms'.in[matches[i]] /\ match'[q] = matches[i]
            BY <1>1, <2>3, <3>2, <3>3
        <3>5. QED  BY <2>1, <3>4
    <2>4. QED  BY <2>2, <2>3
<1>8. QED  BY <1>1, <1>2, <1>3, <1>6, <1>7 DEF Inhabited

\* A member loses its slot, and the chat perhaps while another sits in the match.
LEMMA StandsKeeps ==
    ASSUME RegistryInv, NEW lost \in Session, match[lost] # None, standing' = standing \cup {lost},
           UNCHANGED <<match, matches>>, Live(rooms'), spectating' \in [Session -> Session \cup {None}],
           \A m \in MatchObj, q \in Session \ {lost} : q \in rooms.in[m] => q \in rooms'.in[m],
           \/ \A m \in MatchObj : rooms.in[m] \subseteq rooms'.in[m]
           \/ \E q \in Seated(match[lost]) : q # lost
    PROVE  RegistryInv'
<1> USE DEF RegistryInv
<1>1. MembersTalk'
    BY DEF MembersTalk
<1>2. MatchesAreListed'
    BY DEF MatchesAreListed, Registered, Members
<1>3. Inhabited'
    <2>1. SUFFICES ASSUME NEW i \in MatchId, matches[i] # None
                   PROVE  \E q \in rooms'.in[matches[i]] : match[q] = matches[i]
        BY DEF Inhabited
    <2>2. PICK p \in rooms.in[matches[i]] : match[p] = matches[i]
        BY <2>1 DEF Inhabited
    <2>3. matches[i] \in MatchObj /\ p \in Session
        BY <2>1, <2>2, ChatsAre
    <2>4. CASE p # lost \/ \A m \in MatchObj : rooms.in[m] \subseteq rooms'.in[m]
        BY <2>2, <2>3, <2>4
    <2>5. ASSUME p = lost, NEW q \in Seated(match[lost]), q # lost
          PROVE  \E r \in rooms'.in[matches[i]] : match[r] = matches[i]
        <3>1. q \in Session /\ match[q] = matches[i] /\ q \notin standing
            BY <2>2, <2>5 DEF Seated, Members
        <3>2. q \in rooms.in[matches[i]]
            BY <2>1, <3>1 DEF MembersTalk
        <3>3. QED  BY <2>3, <2>5, <3>1, <3>2
    <2>6. QED  BY <2>4, <2>5
<1>4. QED  BY <1>1, <1>2, <1>3

LEMMA LobbyKeeps ==
    ASSUME NEW rm, Live(rm), NEW p \in Session
    PROVE  /\ Live(leave_channel(rm, Lobby, p))
           /\ \A m \in MatchObj : leave_channel(rm, Lobby, p).in[m] = rm.in[m]
<1>1. Lobby \in Room /\ \A m \in MatchObj : m \in Room /\ m # Lobby
    BY RoomAssumption DEF Room, Instance
<1>2. /\ Live(leave_channel(rm, Lobby, p))
      /\ leave_channel(rm, Lobby, p).in = [rm.in EXCEPT ![Lobby] = @ \ {p}]
    BY <1>1, LeaveKeeps
<1>3. QED  BY <1>1, <1>2 DEF Live

\* A new match: its chat opens with p in it.
LEMMA OpenKeeps ==
    ASSUME NEW rm, Live(rm), NEW m \in MatchObj, m \notin rm.open, NEW p \in Session \ Restricted
    PROVE  LET made == join_channel([rm EXCEPT !.open = @ \cup {m}], m, p)
           IN  /\ Live(made) /\ p \in made.in[m]
               /\ \A d \in MatchObj : rm.in[d] \subseteq made.in[d]
<1> DEFINE F == rm.in
           O == rm.open \cup {m}
           made == [open |-> O, in |-> [F EXCEPT ![m] = F[m] \cup {p}]]
<1>1. m # Lobby /\ m \in Room /\ m \in Instance /\ m \notin Public
    BY RoomAssumption DEF Room, Instance
<1>2. F[m] = {} /\ F \in [Room -> SUBSET Session] /\ rm.open \subseteq Room
    BY <1>1 DEF Live
<1>3. [rm EXCEPT !.open = @ \cup {m}] = [open |-> O, in |-> F]
    BY DEF Live
<1>4. /\ made.open = O
      /\ made.in = [F EXCEPT ![m] = F[m] \cup {p}]
      /\ made.in \in [Room -> SUBSET Session]
      /\ made.in[m] = {p} /\ \A d \in Room : d # m => made.in[d] = F[d]
    BY <1>1, <1>2
<1>5. Live(made)
    BY <1>1, <1>2, <1>4 DEF Live, Room
<1>6. p \in made.in[m] /\ \A d \in MatchObj : rm.in[d] \subseteq made.in[d]
    BY <1>2, <1>4 DEF Room, Instance
<1> HIDE DEF F
<1>7. \A X : join_channel([open |-> X, in |-> F], m, p) = [open |-> X, in |-> [F EXCEPT ![m] = F[m] \cup {p}]]
    BY <1>1, <1>2, JoinIs
<1> HIDE DEF O
<1>8. join_channel([open |-> O, in |-> F], m, p) = made
    BY <1>7
<1> HIDE DEF made
<1>9. QED  BY <1>3, <1>5, <1>6, <1>8

\* p takes part in a match from now on, in an old place of the list or a new one,
\* or in a match that has lost its place, and those of lost stand.
LEMMA MemberKeeps ==
    ASSUME RegistryInv, NEW p \in Session \ Tourney, NEW m \in MatchObj,
           NEW lost \in SUBSET Members(m), standing' = standing \cup lost,
           match[p] = None, match' = [match EXCEPT ![p] = m], spectating' = spectating,
           Live(rooms'), p \in rooms'.in[m], \A d \in MatchObj : rooms.in[d] \subseteq rooms'.in[d],
           \/ (m \in Registered \/ Members(m) \cap standing # {}) /\ matches' = matches
           \/ m \notin Registered /\ \E i \in FreeId : matches' = [matches EXCEPT ![i] = m]
    PROVE  RegistryInv'
<1> USE DEF RegistryInv
<1>1. /\ match' \in [Session -> MatchObj \cup {None}] /\ matches' \in [MatchId -> MatchObj \cup {None}]
      /\ match'[p] = m /\ \A q \in Session : q # p => match'[q] = match[q]
    BY DEF FreeId
<1>2. m # None /\ \A q \in lost : q \in Session /\ match[q] = m /\ q # p
    BY RoomAssumption DEF Members
<1>3. standing' \subseteq {q \in Session : match'[q] # None}
    BY <1>1, <1>2
<1>4. MembersTalk'
    BY <1>1, <1>2, <1>3 DEF MembersTalk
<1>5. /\ \A i \in MatchId : matches[i] # None => matches'[i] = matches[i]
      /\ \A i \in MatchId : matches'[i] \in {matches[i], m}
      /\ m \in Registered' \/ Members(m) \cap standing # {}
    BY <1>2 DEF Registered, FreeId
<1>6. ASSUME NEW q \in Session, match'[q] # None, (Members(match[q]) \cap standing = {})'
      PROVE  match'[q] \in Registered'
    <2>1. CASE match'[q] = m
        <3>1. Members(m) \cap standing \subseteq (Members(m) \cap standing)'
            BY <1>1, <1>2 DEF Members
        <3>2. QED  BY <1>5, <1>6, <2>1, <3>1 DEF Members
    <2>2. CASE match'[q] # m
        <3>1. q # p /\ match'[q] = match[q]
            BY <1>1, <2>2
        <3>2. Members(match[q]) \cap standing = {}
            BY <1>1, <1>2, <1>6, <3>1, <2>2 DEF Members
        <3>3. match[q] \in Registered
            BY <1>6, <3>1, <3>2 DEF MatchesAreListed
        <3>4. QED  BY <1>5, <1>6, <3>1, <3>3 DEF Registered
    <2>3. QED  BY <2>1, <2>2
<1>7. \A i, j \in MatchId : matches'[i] = matches'[j] /\ matches'[i] # None => i = j
    BY DEF MatchesAreListed, Registered, FreeId
<1>8. ASSUME NEW i \in MatchId, matches'[i] # None
      PROVE  \E q \in rooms'.in[matches'[i]] : match'[q] = matches'[i]
    <2>1. CASE matches'[i] = m
        BY <1>1, <2>1
    <2>2. CASE matches'[i] # m
        <3>1. matches'[i] = matches[i] /\ matches[i] \in MatchObj
            BY <1>1, <1>5, <1>8, <2>2
        <3>2. PICK q \in rooms.in[matches[i]] : match[q] = matches[i]
            BY <1>8, <3>1 DEF Inhabited
        <3>3. q \in Session /\ q # p
            BY <1>8, <3>1, <3>2, ChatsAre
        <3>4. QED  BY <1>1, <3>1, <3>2, <3>3
    <2>3. QED  BY <2>1, <2>2
<1>9. QED  BY <1>1, <1>3, <1>4, <1>6, <1>7, <1>8 DEF MatchesAreListed, Inhabited

-----------------------------------------------------------------------------
(* The steps.                                                               *)

LEMMA ChannelStep ==
    ASSUME RegistryInv, NEW p \in Session, ChannelPacket(p)
    PROVE  RegistryInv'
<1>1. CASE LobbyJoin(p) \/ LobbyPart(p)
    BY <1>1, RoomsChange DEF LobbyJoin, LobbyPart, RegistryInv
<1>2. ASSUME NEW c \in Room, match[p] # c, ChannelPart(p, c)
      PROVE  RegistryInv'
    <2>1. rooms' = leave_channel(rooms, c, p) /\ UNCHANGED <<match, standing, matches, spectating>>
        BY <1>2 DEF ChannelPart
    <2>2. Live(rooms') /\ rooms'.in = [rooms.in EXCEPT ![c] = @ \ {p}]
        BY <2>1, LeaveKeeps DEF RegistryInv
    <2>3. \A m \in MatchObj, q \in Session : match[q] = m /\ q \in rooms.in[m] => q \in rooms'.in[m]
        BY <1>2, <2>2, ChatsAre DEF RegistryInv, Live
    <2>4. QED  BY <2>1, <2>2, <2>3, RoomsChange DEF RegistryInv
<1>3. QED  BY <1>1, <1>2 DEF ChannelPacket, OwnRooms

LEMMA EnterStep ==
    ASSUME RegistryInv, NEW p \in Session, EntersByName(p)
    PROVE  RegistryInv'
<1>1. PICK c \in Room : ChannelJoin(p, c)
    BY DEF EntersByName, Room
<1>2. c \in rooms.open /\ rooms' = join_channel(rooms, c, p) /\ UNCHANGED <<match, standing, matches, spectating>>
    BY <1>1 DEF ChannelJoin, ByName
<1>3. /\ Live(rooms') /\ rooms.in[c] \subseteq rooms'.in[c]
      /\ \A d \in Room : d # c => rooms'.in[d] = rooms.in[d]
    BY <1>2, JoinKeeps DEF RegistryInv
<1>4. \A m \in MatchObj, q \in Session : match[q] = m /\ q \in rooms.in[m] => q \in rooms'.in[m]
    BY <1>3, ChatsAre
<1>5. QED  BY <1>2, <1>3, <1>4, RoomsChange DEF RegistryInv

LEMMA CreateStep ==
    ASSUME RegistryInv, NEW p \in Session, MatchCreate(p)
    PROVE  RegistryInv'
<1>1. PICK i \in FreeId, m \in MatchObj :
        /\ Unused(m) /\ matches' = [matches EXCEPT ![i] = m]
        /\ rooms' = EnterMatch([rooms EXCEPT !.open = @ \cup {m}], m, p)
        /\ match' = [match EXCEPT ![p] = m]
    BY DEF MatchCreate
<1>2. /\ p \in Session \ Restricted /\ p \notin Tourney /\ match[p] = None /\ spectating' = spectating
      /\ i \in MatchId /\ matches[i] = None /\ m # None
    BY RoomAssumption DEF MatchCreate, FreeId
<1> DEFINE made == join_channel([rooms EXCEPT !.open = @ \cup {m}], m, p)
<1>3. m \notin rooms.open /\ m \notin Registered
    BY <1>1 DEF Unused
<1>4. Live(made) /\ p \in made.in[m] /\ \A d \in MatchObj : rooms.in[d] \subseteq made.in[d]
    BY <1>2, <1>3, OpenKeeps DEF RegistryInv
<1>5. rooms' = leave_channel(made, Lobby, p)
    BY <1>1 DEF EnterMatch
<1> HIDE DEF made
<1>6. Live(rooms') /\ \A d \in MatchObj : rooms'.in[d] = made.in[d]
    BY <1>4, <1>5, LobbyKeeps
<1>7. standing' = standing \cup {}
    BY DEF MatchCreate
<1>8. QED  BY <1>1, <1>2, <1>3, <1>4, <1>6, <1>7, MemberKeeps

\* The chat of a match in the list exists.
LEMMA ListedIsOpen ==
    ASSUME RegistryInv, NEW m \in Registered
    PROVE  m \in MatchObj /\ m \in rooms.open
<1>1. m \in MatchObj /\ rooms.in[m] # {}
    BY DEF RegistryInv, Inhabited, Registered
<1>2. QED  BY <1>1 DEF RegistryInv, Live, Instance

LEMMA JoinKeepsInv ==
    ASSUME RegistryInv, NEW p \in Session \ Tourney, NEW m \in MatchObj, m \in rooms.open,
           m \in Registered \/ Members(m) \cap standing # {},
           join_match(p, m), UNCHANGED <<spectating, matches>>
    PROVE  RegistryInv'
<1> DEFINE in == join_channel(rooms, m, p)
<1>1. /\ match[p] = None /\ CanJoin(rooms, m, p)
      /\ match' = [match EXCEPT ![p] = m] /\ rooms' = leave_channel(in, Lobby, p)
    BY DEF join_match, EnterMatch
<1>2. PICK lost \in SUBSET Members(m) : standing' = standing \cup lost
    BY DEF join_match, TakesSlot, Seated
<1>3. Live(in) /\ p \in in.in[m] /\ \A d \in MatchObj : rooms.in[d] \subseteq in.in[d]
    BY <1>1, JoinKeeps DEF RegistryInv, Room, Instance
<1> HIDE DEF in
<1>4. Live(rooms') /\ \A d \in MatchObj : rooms'.in[d] = in.in[d]
    BY <1>1, <1>3, LobbyKeeps
<1>5. QED  BY <1>1, <1>2, <1>3, <1>4, MemberKeeps

LEMMA JoinStep ==
    ASSUME RegistryInv, NEW p \in Session, NEW m \in MatchObj, MatchJoin(p, m)
    PROVE  RegistryInv'
BY ListedIsOpen, JoinKeepsInv DEF MatchJoin

LEMMA ForceStep ==
    ASSUME RegistryInv, NEW p \in Session, NEW t \in Session, mp_force(p, t)
    PROVE  RegistryInv'
<1> DEFINE m == match[p]
<1>1. /\ t \in Session \ Tourney /\ m \in MatchObj /\ p \in rooms.in[m] /\ p \in Members(m)
      /\ join_match(t, m) /\ UNCHANGED <<spectating, matches>>
    BY DEF mp_force, RegistryInv, Members
<1>2. m \in rooms.open
    BY <1>1 DEF RegistryInv, Live, Instance
<1>3. m \in Registered \/ Members(m) \cap standing # {}
    BY <1>1, RoomAssumption DEF RegistryInv, MatchesAreListed, Members
<1> HIDE DEF m
<1>4. QED  BY <1>1, <1>2, <1>3, JoinKeepsInv

LEMMA MoveStep ==
    ASSUME RegistryInv, NEW p \in Session, MatchChangeSlot(p)
    PROVE  RegistryInv'
<1>1. PICK q \in Seated(match[p]) : standing' = standing \cup {q}
    BY DEF MatchChangeSlot
<1>2. q \in Session /\ match[q] # None /\ UNCHANGED <<match, matches, spectating, rooms>>
    BY DEF MatchChangeSlot, Seated, Members
<1>3. Live(rooms') /\ spectating' \in [Session -> Session \cup {None}]
    BY <1>2 DEF RegistryInv
<1>4. \A m \in MatchObj : rooms.in[m] \subseteq rooms'.in[m]
    BY <1>2
<1>5. QED  BY <1>1, <1>2, <1>3, <1>4, StandsKeeps

\* p leaves the chat of its match with its slot, whether or not all goes well.
LEMMA LeavesKeep ==
    ASSUME RegistryInv, NEW p \in Session, match[p] # None, Vacate(p) \/ VacateRaises(p),
           Live(rooms'), spectating' \in [Session -> Session \cup {None}],
           \A m \in MatchObj, q \in Session \ {p} : q \in rooms.in[m] => q \in rooms'.in[m]
    PROVE  RegistryInv'
<1>1. CASE Vacate(p)
    BY <1>1, VacateKeeps
<1>2. CASE VacateRaises(p)
    <2>1. \E q \in Seated(match[p]) : q # p
        BY <1>2 DEF VacateRaises, Seated, Members
    <2>2. QED  BY <1>2, <2>1, StandsKeeps DEF VacateRaises
<1>3. QED  BY <1>1, <1>2

LEMMA ChatLeft ==
    ASSUME RegistryInv, NEW p \in Session, match[p] # None,
           rooms' = leave_channel(rooms, match[p], p)
    PROVE  /\ Live(rooms')
           /\ \A m \in MatchObj, q \in Session \ {p} : q \in rooms.in[m] => q \in rooms'.in[m]
<1>1. match[p] \in Room
    BY DEF RegistryInv, Room, Instance
<1>2. Live(rooms') /\ rooms'.in = [rooms.in EXCEPT ![match[p]] = @ \ {p}]
    BY <1>1, LeaveKeeps DEF RegistryInv
<1>3. QED  BY <1>1, <1>2, ChatsAre DEF RegistryInv, Live

LEMMA PartStep ==
    ASSUME RegistryInv, NEW p \in Session, MatchPart(p)
    PROVE  RegistryInv'
BY LeavesKeep, ChatLeft DEF MatchPart, RegistryInv

LEMMA TourneyStep ==
    ASSUME RegistryInv, NEW p \in Session, NEW m \in MatchObj,
           TourneyMatchJoinChannel(p, m) \/ TourneyMatchLeaveChannel(p, m)
    PROVE  RegistryInv'
<1>1. p \in Tourney /\ m \in Registered /\ UNCHANGED <<match, standing, spectating, matches>>
    BY DEF TourneyMatchJoinChannel, TourneyMatchLeaveChannel
<1>2. m \in Room /\ \A d \in MatchObj : d \in Room
    BY DEF Room, Instance
<1>3. m \in rooms.open
    BY <1>1, ListedIsOpen
<1>4. CASE TourneyMatchJoinChannel(p, m)
    <2>1. rooms' = join_channel(rooms, m, p)
        BY <1>4 DEF TourneyMatchJoinChannel
    <2>2. Live(rooms') /\ \A d \in MatchObj : rooms.in[d] \subseteq rooms'.in[d]
        BY <1>2, <1>3, <2>1, JoinKeeps DEF RegistryInv
    <2>3. QED  BY <1>1, <2>2, RoomsChange DEF RegistryInv
<1>5. CASE TourneyMatchLeaveChannel(p, m)
    <2>1. rooms' = leave_channel(rooms, m, p)
        BY <1>5 DEF TourneyMatchLeaveChannel
    <2>2. Live(rooms') /\ rooms'.in = [rooms.in EXCEPT ![m] = @ \ {p}]
        BY <1>2, <2>1, LeaveKeeps DEF RegistryInv
    <2>3. \A q \in Session : match[q] # None => q # p
        BY <1>1 DEF RegistryInv, MembersTalk
    <2>4. \A d \in MatchObj, q \in Session : match[q] = d /\ q \in rooms.in[d] => q \in rooms'.in[d]
        BY <1>2, <2>2, <2>3, RoomAssumption DEF RegistryInv, Live
    <2>5. QED  BY <1>1, <2>2, <2>4, RoomsChange DEF RegistryInv
<1>6. QED  BY <1>4, <1>5

LEMMA SpectatorStep ==
    ASSUME RegistryInv, NEW p \in Session, SpectatorPacket(p)
    PROVE  RegistryInv'
<1>1. Live(Stopped(p)) /\ \A m \in MatchObj : Stopped(p).in[m] = rooms.in[m]
    BY StoppedKeeps
<1>2. CASE StopSpectating(p)
    <2>1. UNCHANGED <<match, standing, matches>> /\ spectating' \in [Session -> Session \cup {None}]
        BY <1>2 DEF StopSpectating, RegistryInv
    <2>2. rooms' = Stopped(p)
        BY <1>2 DEF StopSpectating
    <2>3. QED  BY <1>1, <2>1, <2>2, RoomsChange
<1>3. ASSUME NEW u \in User, NEW h \in Found(u), StartSpectating(p, h)
      PROVE  RegistryInv'
    <2>1. h \in Session /\ p \in Session \ Restricted
        BY <1>3 DEF Found, StartSpectating
    <2>2. UNCHANGED <<match, standing, matches>> /\ spectating' \in [Session -> Session \cup {None}]
        BY <1>3, <2>1 DEF StartSpectating, RegistryInv
    <2>3. rooms' = add_spectator(Stopped(p), h, p)
        BY <1>3 DEF StartSpectating
    <2>4. Live(rooms') /\ \A m \in MatchObj : rooms'.in[m] = rooms.in[m]
        BY <1>1, <2>1, <2>3, AddSpectatorKeeps
    <2>5. QED  BY <2>2, <2>4, RoomsChange
<1>4. QED  BY <1>2, <1>3 DEF SpectatorPacket

LEMMA LoginStep ==
    ASSUME RegistryInv, NEW p \in Session, Login(p)
    PROVE  RegistryInv'
BY RoomsChange DEF Login, RegistryInv

LEMMA LogoutStep ==
    ASSUME RegistryInv, NEW p \in Session, Logout(p)
    PROVE  RegistryInv'
<1>1. Live(Stopped(p)) /\ \A m \in MatchObj : Stopped(p).in[m] = rooms.in[m]
    BY StoppedKeeps
<1>2. rooms' = leave_channels(Stopped(p), p) /\ spectating' \in [Session -> Session \cup {None}]
    BY DEF Logout, RegistryInv
<1>3. \A m \in MatchObj : m \in Room
    BY DEF Room, Instance
<1>4. Live(rooms') /\ \A m \in MatchObj : rooms'.in[m] = rooms.in[m] \ {p}
    BY <1>1, <1>2, <1>3, LeaveAllKeeps
<1>5. CASE match[p] = None
    <2>1. UNCHANGED <<match, standing, matches>>
        BY <1>5 DEF Logout
    <2>2. \A m \in MatchObj, q \in Session : match[q] = m /\ q \in rooms.in[m] => q \in rooms'.in[m]
        BY <1>4, <1>5, RoomAssumption
    <2>3. QED  BY <1>2, <1>4, <2>1, <2>2, RoomsChange
<1>6. CASE match[p] # None
    <2>1. Vacate(p)
        BY <1>6 DEF Logout
    <2>2. QED  BY <1>2, <1>4, <1>6, <2>1, VacateKeeps
<1>7. QED  BY <1>5, <1>6

LEMMA LogoutRaisesStep ==
    ASSUME RegistryInv, NEW p \in Session, LogoutRaises(p)
    PROVE  RegistryInv'
<1>1. CASE UNCHANGED <<match, standing, matches, rooms>>
    BY <1>1, RoomsChange DEF LogoutRaises, RegistryInv
<1>2. CASE VacateRaises(p) /\ rooms' = leave_channel(rooms, match[p], p)
    BY <1>2, LeavesKeep, ChatLeft DEF LogoutRaises, RegistryInv
<1>3. QED  BY <1>1, <1>2 DEF LogoutRaises

LEMMA RegistryNextInv == RegistryInv /\ [RegistryNext]_rvars => RegistryInv'
<1> SUFFICES ASSUME RegistryInv, [RegistryNext]_rvars  PROVE RegistryInv'
    OBVIOUS
<1>1. CASE UNCHANGED rvars
    BY <1>1, RoomsChange DEF rvars, RegistryInv
<1>2. ASSUME NEW p \in Session, Login(p)  PROVE RegistryInv'
    BY <1>2, LoginStep
<1>3. ASSUME NEW p \in Session, ChannelPacket(p) \/ MatchPacket(p) \/ SpectatorPacket(p) \/ SessionStep(p)
      PROVE  RegistryInv'
    <2>1. CASE MatchPacket(p)
        BY <2>1, CreateStep, PartStep, MoveStep, ForceStep, JoinStep, TourneyStep DEF MatchPacket, Found
    <2>2. QED  BY <1>3, <2>1, ChannelStep, SpectatorStep, LogoutStep, LogoutRaisesStep DEF SessionStep
<1>4. ASSUME NEW p \in Session, EntersByName(p)  PROVE RegistryInv'
    BY <1>4, EnterStep
<1>5. QED  BY <1>1, <1>2, <1>3, <1>4 DEF RegistryNext, OtherStep, online

\* Matches, channels and spectators agree after every handler (collections.py, channel.py).
THEOREM RegistryInvariant == RegistrySpec => []RegistryInv
BY RegistryInitInv, RegistryNextInv, PTL DEF RegistrySpec

-----------------------------------------------------------------------------
(* What follows.                                                            *)

\* A match somebody is in is in the list, in one place, until one of its members
\* has lost its slot, for any number of users, sessions and ids, and whatever
\* names of rooms clients send (collections.py:142-160, player.py:751-771).
THEOREM MatchesAreListedAlways == RegistrySpec => []MatchesAreListed
<1>1. RegistryInv => MatchesAreListed
    BY DEF RegistryInv
<1>2. QED  BY <1>1, RegistryInvariant, PTL

\* The channels implement Rooms: the step from one set of live rooms to another
\* is always one of Rooms (channel.py:117-145, player.py:810-934).
LEMMA RoomsStep == Live(rooms) /\ Live(rooms)' => Chat!Next
<1> SUFFICES ASSUME Live(rooms), Live(rooms)'  PROVE Chat!Next
    OBVIOUS
<1>1. Chat!RoomsTypeOK'
    BY DEF Chat!RoomsTypeOK, Live
<1>2. ASSUME NEW c \in Room
      PROVE  Chat!Opens(c) \/ Chat!ComeAndGo(c) \/ Chat!Closes(c) \/ Chat!StaysClosed(c)
    BY DEF Live, Room, Chat!Opens, Chat!ComeAndGo, Chat!Closes, Chat!StaysClosed
<1>3. QED  BY <1>1, <1>2 DEF Chat!Next

\* Channels keep the promises of Rooms: one for an occasion opens empty and is there exactly
\* while somebody is in it, whichever handler takes the last one out (channel.py:109-145, player.py:810-871).
THEOREM ImplementsRooms == RegistrySpec => RoomsSpec
<1>1. RegistryInit => Chat!Init
    BY RoomAssumption DEF RegistryInit, Chat!Init, Room, Instance
<1>2. RegistryInv /\ RegistryInv' => Chat!Next
    BY RoomsStep DEF RegistryInv
<1>3. QED
    BY <1>1, <1>2, RegistryInvariant, PTL DEF RegistrySpec, RoomsSpec, Chat!Spec

\* Whoever is in a slot of a match hears its chat, and is told what others say
\* in it: half of MessagesReach (cho.py:249-254).
MatchesAreHeard == \A p \in Session :
    match[p] # None /\ p \notin standing => Seated(match[p]) \subseteq Reached(p, MatchRoom(p))

\* Whoever is in a slot of a match is in its chat and hears the others there
\* (cho.py:249-254).
THEOREM MatchesAreHeardAlways == RegistrySpec => []MatchesAreHeard
<1>1. ASSUME RegistryInv, NEW p \in Session, match[p] # None, p \notin standing, NEW q \in Seated(match[p])
      PROVE  q \in Reached(p, MatchRoom(p))
    <2>1. match[p] \in MatchObj /\ match[q] = match[p] /\ q \in Session \ standing
        BY <1>1 DEF RegistryInv, Seated, Members
    <2>2. p \in rooms.in[match[p]] /\ q \in rooms.in[match[p]]
        BY <1>1, <2>1 DEF RegistryInv, MembersTalk
    <2>3. match[p] \in rooms.open
        BY <1>1, <2>1, <2>2 DEF RegistryInv, Live, Instance
    <2>4. QED  BY <1>1, <2>2, <2>3 DEF Reached, MatchRoom
<1>2. RegistryInv => MatchesAreHeard
    BY <1>1 DEF MatchesAreHeard
<1>3. QED  BY <1>2, RegistryInvariant, PTL

-----------------------------------------------------------------------------
(* Who hears: the rooms of spectators, and the guests of a match's chat.     *)

\* A spectator is in the room of the player it watches, who is somebody else.
WatchersTalk == \A p \in Session : spectating[p] # None =>
    p \in rooms.in[UserOf[spectating[p]]] /\ UserOf[spectating[p]] # UserOf[p]

\* In that room are those who watch, who is watched, and who came by its name.
OnlyTheirs == \A u \in User : \A p \in rooms.in[u] :
    \/ spectating[p] # None /\ UserOf[spectating[p]] = u
    \/ UserOf[p] = u /\ Spectators(p) # {}
    \/ p \in came[u]

\* Whoever else is in the chat of a match came by its name, or is a tournament
\* client, and while it is the user's only one the match knows the user.
Guests == \A m \in MatchObj : \A p \in rooms.in[m] \ Members(m) :
    \/ p \in came[m]
    \/ p \in Tourney /\ (OnlyClient(p) => UserOf[p] \in tourney[m])

\* Nobody sits in a match that knows the user as a guest.
Apart == \A m \in MatchObj : \A q \in Seated(m) : UserOf[q] \notin tourney[m]

CameTyped == came \in [Room -> SUBSET Session]
WatchInv == RegistryInv /\ CameTyped /\ WatchersTalk /\ OnlyTheirs
GuestInv == RegistryInv /\ CameTyped /\ tourney \in [MatchObj -> SUBSET User] /\ Guests /\ Apart

AnyRooms == [open : SUBSET Room, in : [Room -> SUBSET Session]]

LEMMA RoomKinds ==
    /\ User \subseteq Room /\ MatchObj \subseteq Room /\ Lobby \in Room /\ Public \subseteq Room
    /\ User \cap MatchObj = {} /\ (Public \cup {Lobby}) \cap (User \cup MatchObj) = {}
    /\ \A p \in Session : UserOf[p] \in User
    /\ None \notin Session /\ None \notin MatchObj
BY RoomAssumption, SessionAssumption DEF Room, Instance

LEMMA JoinIn ==
    ASSUME NEW rm \in AnyRooms, NEW c \in Room, NEW p \in Session
    PROVE  /\ join_channel(rm, c, p) \in AnyRooms
           /\ \A d \in Room : d # c => join_channel(rm, c, p).in[d] = rm.in[d]
           /\ join_channel(rm, c, p).in[c] = IF CanJoin(rm, c, p) THEN rm.in[c] \cup {p} ELSE rm.in[c]
BY DEF join_channel, AnyRooms

LEMMA LeaveIn ==
    ASSUME NEW rm \in AnyRooms, NEW c \in Room, NEW p \in Session
    PROVE  /\ leave_channel(rm, c, p) \in AnyRooms
           /\ \A d \in Room : d # c => leave_channel(rm, c, p).in[d] = rm.in[d]
           /\ leave_channel(rm, c, p).in[c] = rm.in[c] \ {p}
<1>1. CASE p \notin rm.in[c]
    BY <1>1 DEF leave_channel, AnyRooms
<1>2. CASE p \in rm.in[c]
    BY <1>2 DEF leave_channel, AnyRooms
<1>3. QED  BY <1>1, <1>2

LEMMA EnterIn ==
    ASSUME NEW rm \in AnyRooms, NEW m \in MatchObj, NEW p \in Session
    PROVE  /\ \A d \in Instance : d # m => EnterMatch(rm, m, p).in[d] = rm.in[d]
           /\ EnterMatch(rm, m, p).in[m] \subseteq rm.in[m] \cup {p}
<1> DEFINE in == join_channel(rm, m, p)
<1>1. m \in Room /\ m # Lobby /\ Lobby \in Room /\ \A d \in Instance : d \in Room /\ d # Lobby
    BY RoomKinds DEF Instance
<1>2. /\ in \in AnyRooms /\ in.in[m] \subseteq rm.in[m] \cup {p}
      /\ \A d \in Room : d # m => in.in[d] = rm.in[d]
    BY <1>1, JoinIn
<1> HIDE DEF in
<1>3. \A d \in Room : d # Lobby => leave_channel(in, Lobby, p).in[d] = in.in[d]
    BY <1>1, <1>2, LeaveIn
<1>4. EnterMatch(rm, m, p) = leave_channel(in, Lobby, p)
    BY DEF EnterMatch, in
<1>5. QED  BY <1>1, <1>2, <1>3, <1>4

LEMMA CameStays == ASSUME came' = StillThere, CameTyped
    PROVE  CameTyped' /\ \A c \in Room : came'[c] = came[c] \cap rooms'.in[c]
BY DEF CameTyped, StillThere

LEMMA RoomsAre == RegistryInv => rooms \in AnyRooms
BY DEF RegistryInv, Live, AnyRooms

-----------------------------------------------------------------------------
(* When p has stopped: the others are where they were, and who is still in   *)
(* a room of spectators has a reason without p.                              *)

LEMMA StoppedIn ==
    ASSUME WatchInv, NEW p \in Session
    PROVE  /\ Stopped(p) \in AnyRooms
           /\ \A q \in Session \ {p} : spectating[q] # None => q \in Stopped(p).in[UserOf[spectating[q]]]
           /\ \A u \in User : \A q \in Stopped(p).in[u] :
                 \/ q # p /\ spectating[q] # None /\ UserOf[spectating[q]] = u
                 \/ UserOf[q] = u /\ Spectators(q) \ {p} # {}
                 \/ q \in came[u]
<1> USE DEF WatchInv
<1>0. rooms \in AnyRooms /\ spectating \in [Session -> Session \cup {None}]
    BY RoomsAre DEF RegistryInv
<1>1. CASE spectating[p] = None
    <2>1. Stopped(p) = rooms
        BY <1>1 DEF Stopped
    <2>2. \A q \in Session : p \notin Spectators(q)
        BY <1>1, RoomKinds DEF Spectators
    <2>3. \A q \in Session \ {p} : spectating[q] # None => q \in rooms.in[UserOf[spectating[q]]]
        BY DEF WatchersTalk
    <2>4. ASSUME NEW u \in User, NEW q \in rooms.in[u]
          PROVE  \/ q # p /\ spectating[q] # None /\ UserOf[spectating[q]] = u
                 \/ UserOf[q] = u /\ Spectators(q) \ {p} # {}
                 \/ q \in came[u]
        <3>1. q \in Session
            BY <1>0, RoomKinds DEF AnyRooms
        <3>2. CASE spectating[q] # None /\ UserOf[spectating[q]] = u
            BY <1>1, <3>2
        <3>3. CASE UserOf[q] = u /\ Spectators(q) # {}
            BY <2>2, <3>1, <3>3
        <3>4. QED  BY <3>2, <3>3 DEF OnlyTheirs
    <2>5. QED  BY <1>0, <2>1, <2>3, <2>4
<1>2. CASE spectating[p] # None
    <2> DEFINE h == spectating[p]
               c == UserOf[h]
               left == leave_channel(rooms, c, p)
               both == leave_channel(left, c, h)
    <2>1. h \in Session /\ c \in User /\ c \in Room /\ p \in Spectators(h)
        BY <1>0, <1>2, RoomKinds DEF Spectators
    <2>2. /\ left \in AnyRooms /\ left.in[c] = rooms.in[c] \ {p}
          /\ \A d \in Room : d # c => left.in[d] = rooms.in[d]
        BY <1>0, <2>1, LeaveIn
    <2>3. /\ both \in AnyRooms /\ both.in[c] = left.in[c] \ {h}
          /\ \A d \in Room : d # c => both.in[d] = left.in[d]
        <3> HIDE DEF left
        <3>1. QED  BY <2>1, <2>2, LeaveIn
    <2>4. Stopped(p) = IF Spectators(h) = {p} THEN both ELSE left
        BY <1>2 DEF Stopped, remove_spectator
    <2> HIDE DEF left, both
    <2> DEFINE R == Stopped(p).in
    <2>5. /\ Stopped(p) \in AnyRooms
          /\ R[c] = IF Spectators(h) = {p} THEN rooms.in[c] \ {p, h} ELSE rooms.in[c] \ {p}
          /\ \A d \in Room : d # c => R[d] = rooms.in[d]
        BY <2>2, <2>3, <2>4
    <2> HIDE DEF R
    <2>6. ASSUME NEW q \in Session \ {p}, spectating[q] # None
          PROVE  q \in R[UserOf[spectating[q]]]
        <3>1. q \in rooms.in[UserOf[spectating[q]]] /\ UserOf[spectating[q]] # UserOf[q]
            BY <2>6 DEF WatchersTalk
        <3>2. UserOf[spectating[q]] \in Room
            BY <1>0, <2>6, RoomKinds
        <3>3. CASE UserOf[spectating[q]] = c
            BY <2>5, <3>1, <3>3
        <3>4. CASE UserOf[spectating[q]] # c
            BY <2>5, <3>1, <3>2, <3>4
        <3>5. QED  BY <3>3, <3>4
    <2>7. ASSUME NEW u \in User, NEW q \in R[u]
          PROVE  \/ q # p /\ spectating[q] # None /\ UserOf[spectating[q]] = u
                 \/ UserOf[q] = u /\ Spectators(q) \ {p} # {}
                 \/ q \in came[u]
        <3>1. u \in Room
            BY RoomKinds
        <3>2. q \in rooms.in[u] /\ (u = c => q # p)
            BY <2>5, <3>1
        <3>3. CASE spectating[q] # None /\ UserOf[spectating[q]] = u
            BY <3>2, <3>3
        <3>4. CASE UserOf[q] = u /\ Spectators(q) # {}
            <4>1. CASE q # h
                <5>1. p \notin Spectators(q)
                    BY <4>1 DEF Spectators
                <5>2. QED  BY <3>4, <5>1
            <4>2. CASE q = h
                <5>1. u = c
                    BY <3>4, <4>2
                <5>2. Spectators(h) # {p}
                    BY <2>5, <4>2, <5>1
                <5>3. QED  BY <2>1, <3>4, <4>2, <5>2
            <4>3. QED  BY <4>1, <4>2
        <3>5. QED  BY <3>2, <3>3, <3>4 DEF OnlyTheirs
    <2>8. QED  BY <2>5, <2>6, <2>7 DEF R
<1>3. QED  BY <1>1, <1>2

LEMMA AddSpectatorIn ==
    ASSUME NEW rm, Live(rm), NEW h \in Session, NEW p \in Session \ Restricted,
           h # p, p \notin rm.in[UserOf[h]]
    PROVE  LET added == add_spectator(rm, h, p)
           IN  /\ \A d \in Room : d # UserOf[h] => added.in[d] = rm.in[d]
               /\ p \in added.in[UserOf[h]] /\ rm.in[UserOf[h]] \subseteq added.in[UserOf[h]]
               /\ added.in[UserOf[h]] \subseteq rm.in[UserOf[h]] \cup {p, h}
<1> DEFINE c == UserOf[h]
           one == join_channel(rm, c, h)
           opened == [one EXCEPT !.open = @ \cup {c}]
           made == IF c \in rm.open THEN rm ELSE opened
           S == made.in
<1>1. c \in Room /\ c # Lobby
    BY RoomKinds
<1>2. rm \in AnyRooms
    BY DEF Live, AnyRooms
<1>3. one \in AnyRooms /\ one.in[c] \subseteq rm.in[c] \cup {h} /\ rm.in[c] \subseteq one.in[c]
      /\ \A d \in Room : d # c => one.in[d] = rm.in[d]
    BY <1>1, <1>2, JoinIn
<1> HIDE DEF one
<1>4. opened \in AnyRooms /\ opened.in = one.in
    BY <1>1, <1>3 DEF AnyRooms
<1> HIDE DEF opened
<1>5. /\ made \in AnyRooms /\ made.in[c] \subseteq rm.in[c] \cup {h} /\ rm.in[c] \subseteq made.in[c]
      /\ \A d \in Room : d # c => made.in[d] = rm.in[d]
    BY <1>2, <1>3, <1>4
<1>6. add_spectator(rm, h, p) = join_channel(made, c, p)
    BY DEF add_spectator, opened, one
<1> HIDE DEF made
<1>7. CanJoin(made, c, p)
    BY <1>1, <1>5 DEF CanJoin
<1>8. /\ \A d \in Room : d # c => join_channel(made, c, p).in[d] = made.in[d]
      /\ join_channel(made, c, p).in[c] = made.in[c] \cup {p}
    BY <1>1, <1>5, <1>7, JoinIn
<1>9. QED  BY <1>5, <1>6, <1>8

\* What a session watches does not change, and who enters a room comes by its name.
LEMMA WatchStays ==
    ASSUME WatchInv, RegistryInv', CameTyped', spectating' = spectating,
           \A q \in Session : spectating[q] # None => q \in rooms'.in[UserOf[spectating[q]]],
           \A u \in User : \A q \in rooms'.in[u] : q \in came'[u] \/ q \in rooms.in[u] \ came[u]
    PROVE  WatchInv'
<1>1. WatchersTalk'
    BY DEF WatchInv, WatchersTalk
<1>2. OnlyTheirs'
    BY DEF WatchInv, OnlyTheirs, Spectators
<1>3. QED  BY <1>1, <1>2 DEF WatchInv

\* The rooms of spectators are as they were.
LEMMA WatchSame ==
    ASSUME WatchInv, RegistryInv', came' = StillThere, spectating' = spectating,
           \A u \in User : rooms'.in[u] = rooms.in[u]
    PROVE  WatchInv'
<1>1. CameTyped' /\ \A u \in User : came'[u] = came[u] \cap rooms'.in[u]
    BY CameStays, RoomKinds DEF WatchInv
<1>2. \A q \in Session : spectating[q] # None => q \in rooms'.in[UserOf[spectating[q]]]
    BY RoomKinds DEF WatchInv, WatchersTalk, RegistryInv
<1>3. \A u \in User : \A q \in rooms'.in[u] : q \in came'[u] \/ q \in rooms.in[u] \ came[u]
    BY <1>1
<1>4. QED  BY <1>1, <1>2, <1>3, WatchStays

\* p watches nobody any more, and is perhaps in no room.
LEMMA WatchEnds ==
    ASSUME WatchInv, RegistryInv', came' = StillThere,
           NEW p \in Session, spectating' = [spectating EXCEPT ![p] = None],
           \A u \in User : \/ rooms'.in[u] = Stopped(p).in[u]
                           \/ rooms'.in[u] = Stopped(p).in[u] \ {p}
    PROVE  WatchInv'
<1>1. /\ \A q \in Session \ {p} : spectating[q] # None => q \in Stopped(p).in[UserOf[spectating[q]]]
      /\ \A u \in User : \A q \in Stopped(p).in[u] :
            \/ q # p /\ spectating[q] # None /\ UserOf[spectating[q]] = u
            \/ UserOf[q] = u /\ Spectators(q) \ {p} # {}
            \/ q \in came[u]
    BY StoppedIn
<1>2. /\ spectating \in [Session -> Session \cup {None}]
      /\ spectating'[p] = None /\ \A q \in Session : q # p => spectating'[q] = spectating[q]
    BY DEF WatchInv, RegistryInv
<1>3. WatchersTalk'
    <2>1. SUFFICES ASSUME NEW q \in Session, spectating'[q] # None
                   PROVE  q \in rooms'.in[UserOf[spectating'[q]]] /\ UserOf[spectating'[q]] # UserOf[q]
        BY DEF WatchersTalk
    <2>2. q # p /\ spectating'[q] = spectating[q] /\ UserOf[spectating[q]] \in User
        BY <1>2, <2>1, RoomKinds
    <2>3. q \in Stopped(p).in[UserOf[spectating[q]]] /\ UserOf[spectating[q]] # UserOf[q]
        BY <1>1, <2>1, <2>2 DEF WatchInv, WatchersTalk
    <2>4. QED  BY <2>2, <2>3
<1>4. CameTyped' /\ \A u \in User : came'[u] = came[u] \cap rooms'.in[u]
    BY CameStays, RoomKinds DEF WatchInv
<1>5. OnlyTheirs'
    <2>1. SUFFICES ASSUME NEW u \in User, NEW q \in rooms'.in[u], q \notin came'[u]
                   PROVE  \/ spectating'[q] # None /\ UserOf[spectating'[q]] = u
                          \/ UserOf[q] = u /\ Spectators(q)' # {}
        BY DEF OnlyTheirs
    <2>2. Stopped(p).in[u] \subseteq Session
        BY StoppedIn, RoomKinds DEF AnyRooms
    <2>3. q \in Stopped(p).in[u] /\ q \in Session /\ q \notin came[u]
        BY <1>4, <2>1, <2>2
    <2>4. Spectators(q) \ {p} \subseteq Spectators(q)'
        BY <1>2 DEF Spectators
    <2>5. QED  BY <1>1, <1>2, <2>3, <2>4
<1>6. QED  BY <1>3, <1>4, <1>5 DEF WatchInv

\* The room cannot be entered by who came by its name: p then watches nobody.
LEMMA StartFails ==
    ASSUME WatchInv, RegistryInv', came' = StillThere, NEW p \in Session, NEW h \in Session,
           StartSpectating(p, h), p \in Stopped(p).in[UserOf[h]]
    PROVE  WatchInv'
<1> DEFINE c == UserOf[h]
           R == Stopped(p)
<1>1. c \in Room /\ c \in Instance /\ R \in AnyRooms /\ Live(R)
    BY StoppedIn, StoppedKeeps, RoomKinds DEF WatchInv, Instance
<1>2. /\ rooms' = add_spectator(R, h, p)
      /\ spectating' = [spectating EXCEPT ![p] = IF CanJoin(R, c, p) THEN h ELSE None]
    BY DEF StartSpectating
<1> HIDE DEF R
<1>3. p \in R.in[c]
    BY DEF R
<1>4. c \in R.open
    BY <1>1, <1>3 DEF Live
<1>5. ~CanJoin(R, c, p)
    BY <1>3 DEF CanJoin
<1>6. rooms' = R
    BY <1>2, <1>4, <1>5 DEF add_spectator, join_channel
<1>7. spectating' = [spectating EXCEPT ![p] = None]
    BY <1>2, <1>5
<1>8. QED  BY <1>6, <1>7, WatchEnds DEF R

LEMMA WatchStarts ==
    ASSUME WatchInv, RegistryInv', came' = StillThere, NEW p \in Session, NEW h \in Session,
           StartSpectating(p, h), p \notin Stopped(p).in[UserOf[h]]
    PROVE  WatchInv'
<1> DEFINE c == UserOf[h]
           R == Stopped(p)
<1>0. c \in User /\ p \in Session \ Restricted /\ c # UserOf[p] /\ h # p /\ h # None
    BY RoomKinds DEF StartSpectating
<1>1. /\ R \in AnyRooms
      /\ \A q \in Session \ {p} : spectating[q] # None => q \in R.in[UserOf[spectating[q]]]
      /\ \A v \in User : \A q \in R.in[v] :
            \/ q # p /\ spectating[q] # None /\ UserOf[spectating[q]] = v
            \/ UserOf[q] = v /\ Spectators(q) \ {p} # {}
            \/ q \in came[v]
    BY StoppedIn
<1>2. Live(R)
    BY StoppedKeeps DEF WatchInv
<1>3. rooms' = add_spectator(R, h, p)
      /\ spectating' = [spectating EXCEPT ![p] = IF CanJoin(R, c, p) THEN h ELSE None]
    BY DEF StartSpectating
<1>4. p \notin R.in[c] /\ CanJoin(R, c, p)
    BY <1>0, RoomKinds DEF CanJoin
<1> HIDE DEF R
<1>5. /\ \A d \in Room : d # c => rooms'.in[d] = R.in[d]
      /\ p \in rooms'.in[c] /\ R.in[c] \subseteq rooms'.in[c]
      /\ rooms'.in[c] \subseteq R.in[c] \cup {p, h}
    BY <1>0, <1>2, <1>3, <1>4, AddSpectatorIn
<1>6. /\ spectating \in [Session -> Session \cup {None}]
      /\ spectating'[p] = h /\ \A q \in Session : q # p => spectating'[q] = spectating[q]
    BY <1>3, <1>4 DEF WatchInv, RegistryInv
<1>7. WatchersTalk'
    <2>1. SUFFICES ASSUME NEW q \in Session, spectating'[q] # None
                   PROVE  q \in rooms'.in[UserOf[spectating'[q]]] /\ UserOf[spectating'[q]] # UserOf[q]
        BY DEF WatchersTalk
    <2>2. CASE q = p
        BY <1>0, <1>5, <1>6, <2>2
    <2>3. CASE q # p
        <3>1. spectating'[q] = spectating[q] /\ UserOf[spectating[q]] \in Room
            BY <1>6, <2>1, <2>3, RoomKinds
        <3>2. q \in R.in[UserOf[spectating[q]]] /\ UserOf[spectating[q]] # UserOf[q]
            BY <1>1, <2>1, <2>3, <3>1 DEF WatchInv, WatchersTalk
        <3>3. QED  BY <1>5, <3>1, <3>2
    <2>4. QED  BY <2>2, <2>3
<1>8. CameTyped' /\ \A u \in User : came'[u] = came[u] \cap rooms'.in[u]
    BY CameStays, RoomKinds DEF WatchInv
<1>9. OnlyTheirs'
    <2>1. SUFFICES ASSUME NEW v \in User, NEW q \in rooms'.in[v], q \notin came'[v]
                   PROVE  \/ spectating'[q] # None /\ UserOf[spectating'[q]] = v
                          \/ UserOf[q] = v /\ Spectators(q)' # {}
        BY DEF OnlyTheirs
    <2>2. CASE q \in R.in[v]
        <3>1. q \in Session /\ q \notin came[v]
            BY <1>1, <1>8, <2>1, <2>2, RoomKinds DEF AnyRooms
        <3>2. Spectators(q) \ {p} \subseteq Spectators(q)'
            BY <1>6 DEF Spectators
        <3>3. QED  BY <1>1, <1>6, <2>2, <3>1, <3>2
    <2>3. CASE q \notin R.in[v]
        <3>1. v = c /\ q \in {p, h}
            BY <1>5, <2>1, <2>3, RoomKinds
        <3>2. p \in Spectators(h)'
            BY <1>6 DEF Spectators
        <3>3. QED  BY <1>0, <1>6, <3>1, <3>2
    <2>4. QED  BY <2>2, <2>3
<1>10. QED  BY <1>7, <1>8, <1>9 DEF WatchInv

\* Matches are nothing to spectators.
LEMMA MatchesLeaveWatchers ==
    ASSUME WatchInv, NEW p \in Session, MatchPacket(p)
    PROVE  spectating' = spectating /\ \A u \in User : rooms'.in[u] = rooms.in[u]
<1>0. /\ rooms \in AnyRooms /\ match \in [Session -> MatchObj \cup {None}]
      /\ \A u \in User : u \in Room /\ u \in Instance /\ u \notin MatchObj
    BY RoomsAre, RoomKinds DEF WatchInv, RegistryInv, Instance
<1>1. CASE MatchChangeSlot(p)
    BY <1>1 DEF MatchChangeSlot
<1>2. ASSUME NEW u \in User, NEW t \in Found(u), mp_force(p, t)
      PROVE  spectating' = spectating /\ \A v \in User : rooms'.in[v] = rooms.in[v]
    <2>1. /\ t \in Session /\ match[p] \in MatchObj
          /\ rooms' = EnterMatch(rooms, match[p], t) /\ spectating' = spectating
        BY <1>0, <1>2 DEF mp_force, join_match, Found
    <2>2. QED  BY <1>0, <2>1, EnterIn
<1>3. CASE MatchCreate(p)
    <2>1. PICK m \in MatchObj : rooms' = EnterMatch([rooms EXCEPT !.open = @ \cup {m}], m, p)
        BY <1>3 DEF MatchCreate
    <2> DEFINE rm == [rooms EXCEPT !.open = @ \cup {m}]
    <2>2. rm \in AnyRooms /\ rm.in = rooms.in
        BY <1>0, RoomKinds DEF AnyRooms
    <2>3. spectating' = spectating
        BY <1>3 DEF MatchCreate
    <2> HIDE DEF rm
    <2>4. rooms' = EnterMatch(rm, m, p)
        BY <2>1 DEF rm
    <2>5. \A d \in Instance : d # m => rooms'.in[d] = rm.in[d]
        BY <2>2, <2>4, EnterIn
    <2>6. QED  BY <1>0, <2>2, <2>3, <2>5
<1>4. CASE MatchPart(p)
    <2>1. match[p] \in MatchObj /\ rooms' = leave_channel(rooms, match[p], p) /\ spectating' = spectating
        BY <1>0, <1>4 DEF MatchPart
    <2>2. QED  BY <1>0, <2>1, LeaveIn, RoomKinds
<1>5. ASSUME NEW m \in MatchObj, MatchJoin(p, m)
      PROVE  spectating' = spectating /\ \A u \in User : rooms'.in[u] = rooms.in[u]
    <2>1. rooms' = EnterMatch(rooms, m, p) /\ spectating' = spectating
        BY <1>5 DEF MatchJoin, join_match
    <2>2. QED  BY <1>0, <2>1, EnterIn
<1>6. ASSUME NEW m \in MatchObj, TourneyMatchJoinChannel(p, m) \/ TourneyMatchLeaveChannel(p, m)
      PROVE  spectating' = spectating /\ \A u \in User : rooms'.in[u] = rooms.in[u]
    <2>1. m \in Room /\ spectating' = spectating
        BY <1>6, RoomKinds DEF TourneyMatchJoinChannel, TourneyMatchLeaveChannel
    <2>2. rooms' \in {join_channel(rooms, m, p), leave_channel(rooms, m, p)}
        BY <1>6 DEF TourneyMatchJoinChannel, TourneyMatchLeaveChannel
    <2>3. \A d \in Room : d # m => rooms'.in[d] = rooms.in[d]
        <3>1. \A d \in Room : d # m => join_channel(rooms, m, p).in[d] = rooms.in[d]
            BY <1>0, <2>1, JoinIn
        <3>2. \A d \in Room : d # m => leave_channel(rooms, m, p).in[d] = rooms.in[d]
            BY <1>0, <2>1, LeaveIn
        <3>3. QED  BY <2>2, <3>1, <3>2
    <2>4. QED  BY <1>0, <2>1, <2>3
<1>7. QED  BY <1>1, <1>2, <1>3, <1>4, <1>5, <1>6 DEF MatchPacket

\* A room is entered under its real name, or left: not that of a player one watches.
LEMMA NamesLeaveWatchers ==
    ASSUME WatchInv, RegistryInv', NEW p \in Session, NEW c \in Room,
           \/ ChannelJoin(p, c) /\ came' = [came EXCEPT ![c] = @ \cup {p}]
           \/ ChannelPart(p, c) /\ c \notin OwnRooms(p) /\ came' = StillThere
    PROVE  WatchInv'
<1>0. rooms \in AnyRooms /\ spectating' = spectating /\ \A u \in User : u \in Room
    BY RoomsAre, RoomKinds DEF WatchInv, ChannelJoin, ChannelPart
<1>1. CASE ChannelJoin(p, c) /\ came' = [came EXCEPT ![c] = @ \cup {p}]
    <2>1. rooms' = join_channel(rooms, c, p)
        BY <1>1 DEF ChannelJoin
    <2>2. /\ \A d \in Room : d # c => rooms'.in[d] = rooms.in[d]
          /\ rooms.in[c] \subseteq rooms'.in[c] /\ rooms'.in[c] \subseteq rooms.in[c] \cup {p}
        BY <1>0, <2>1, JoinIn
    <2>3. /\ CameTyped' /\ came'[c] = came[c] \cup {p}
          /\ \A d \in Room : d # c => came'[d] = came[d]
        BY <1>1 DEF WatchInv, CameTyped
    <2>4. \A q \in Session : spectating[q] # None => q \in rooms'.in[UserOf[spectating[q]]]
        BY <2>2, RoomKinds DEF WatchInv, WatchersTalk, RegistryInv
    <2>5. \A u \in User : \A q \in rooms'.in[u] : q \in came'[u] \/ q \in rooms.in[u] \ came[u]
        BY <1>0, <2>2, <2>3
    <2>6. QED  BY <1>0, <2>3, <2>4, <2>5, WatchStays
<1>2. CASE ChannelPart(p, c) /\ c \notin OwnRooms(p) /\ came' = StillThere
    <2>1. rooms' = leave_channel(rooms, c, p)
        BY <1>2 DEF ChannelPart
    <2>2. /\ \A d \in Room : d # c => rooms'.in[d] = rooms.in[d]
          /\ rooms'.in[c] = rooms.in[c] \ {p}
        BY <1>0, <2>1, LeaveIn
    <2>3. CameTyped' /\ \A u \in User : came'[u] = came[u] \cap rooms'.in[u]
        BY <1>2, CameStays, RoomKinds DEF WatchInv
    <2>4. ASSUME NEW q \in Session, spectating[q] # None
          PROVE  q \in rooms'.in[UserOf[spectating[q]]]
        <3>1. UserOf[spectating[q]] \in Room /\ q \in rooms.in[UserOf[spectating[q]]] /\ spectating[q] \in Session
            BY <2>4, RoomKinds DEF WatchInv, WatchersTalk, RegistryInv
        <3>2. q = p => c # UserOf[spectating[q]]
            BY <1>2, <3>1 DEF OwnRooms
        <3>3. QED  BY <2>2, <3>1, <3>2
    <2>5. \A u \in User : \A q \in rooms'.in[u] : q \in came'[u] \/ q \in rooms.in[u] \ came[u]
        BY <1>0, <2>2, <2>3
    <2>6. QED  BY <1>0, <2>3, <2>4, <2>5, WatchStays
<1>3. QED  BY <1>1, <1>2

\* What a logout does to the rooms of spectators.
LEMMA LogoutWatch ==
    ASSUME WatchInv, RegistryInv', came' = StillThere, NEW p \in Session, SessionStep(p)
    PROVE  WatchInv'
<1>1. CASE Logout(p)
    <2>1. rooms' = leave_channels(Stopped(p), p) /\ spectating' = [spectating EXCEPT ![p] = None]
        BY <1>1 DEF Logout
    <2>2. Live(Stopped(p))
        BY StoppedKeeps DEF WatchInv
    <2>3. \A c \in Room : rooms'.in[c] = Stopped(p).in[c] \ {p}
        BY <2>1, <2>2, LeaveAllKeeps
    <2>4. QED  BY <2>1, <2>3, WatchEnds, RoomKinds
<1>2. CASE LogoutRaises(p)
    <2>1. /\ spectating' = spectating /\ match[p] \in MatchObj
          /\ rooms' = rooms \/ rooms' = leave_channel(rooms, match[p], p)
        BY <1>2 DEF LogoutRaises, WatchInv, RegistryInv
    <2>2. \A u \in User : rooms'.in[u] = rooms.in[u]
        BY <2>1, RoomsAre, LeaveIn, RoomKinds DEF WatchInv
    <2>3. QED  BY <2>1, <2>2, WatchSame
<1>3. QED  BY <1>1, <1>2 DEF SessionStep

LEMMA WatchNextInv == WatchInv /\ [RegistryNext]_rvars => WatchInv'
<1> SUFFICES ASSUME WatchInv, [RegistryNext]_rvars  PROVE WatchInv'
    OBVIOUS
<1>0. RegistryInv'
    BY RegistryNextInv DEF WatchInv
<1>1. CASE UNCHANGED rvars
    BY <1>1 DEF rvars, WatchInv, RegistryInv, CameTyped, WatchersTalk, OnlyTheirs, Live, MembersTalk, Inhabited,
                MatchesAreListed, Spectators, Members, Registered
<1>2. ASSUME NEW p \in Session, Login(p), came' = StillThere  PROVE WatchInv'
    BY <1>0, <1>2, WatchSame DEF Login
<1>3. ASSUME NEW p \in Session, EntersByName(p)  PROVE WatchInv'
    BY <1>0, <1>3, NamesLeaveWatchers DEF EntersByName, Room
<1>4. ASSUME NEW p \in Session, came' = StillThere,
             ChannelPacket(p) \/ MatchPacket(p) \/ SpectatorPacket(p) \/ SessionStep(p)
      PROVE  WatchInv'
    <2>1. CASE LobbyJoin(p) \/ LobbyPart(p)
        BY <1>0, <1>4, <2>1, WatchSame DEF LobbyJoin, LobbyPart
    <2>2. CASE ChannelPacket(p)
        BY <1>0, <1>4, <2>1, <2>2, NamesLeaveWatchers DEF ChannelPacket
    <2>3. CASE MatchPacket(p)
        BY <1>0, <1>4, <2>3, MatchesLeaveWatchers, WatchSame
    <2>4. CASE StopSpectating(p)
        BY <1>0, <1>4, <2>4, WatchEnds DEF StopSpectating
    <2>5. QED
        BY <1>0, <1>4, <2>2, <2>3, <2>4, WatchStarts, StartFails, LogoutWatch DEF SpectatorPacket, Found
<1>5. QED  BY <1>1, <1>2, <1>3, <1>4 DEF RegistryNext, OtherStep, online

LEMMA WatchInitInv == RegistryInit => WatchInv
<1>1. RegistryInit => WatchersTalk /\ OnlyTheirs /\ CameTyped
    BY RoomKinds DEF RegistryInit, WatchersTalk, OnlyTheirs, CameTyped
<1>2. QED  BY <1>1, RegistryInitInv DEF WatchInv

\* Spectators and the rooms agree after every handler (player.py:873-934).
THEOREM WatchInvariant == RegistrySpec => []WatchInv
BY WatchInitInv, WatchNextInv, PTL DEF RegistrySpec

-----------------------------------------------------------------------------
(* The guests of a match.                                                   *)

\* Who enters the chat of a match comes by its name, nobody joins a match, and
\* who leaves one leaves its chat.
LEMMA GuestsStay ==
    ASSUME GuestInv, RegistryInv', CameTyped', tourney' = tourney, standing \subseteq standing',
           \A m \in MatchObj : \A q \in rooms'.in[m] :
               \/ q \in came'[m]
               \/ q \in rooms.in[m] \ came[m] /\ (match[q] = m => match'[q] = m),
           \A m \in MatchObj, q \in Session : match'[q] = m => match[q] = m
    PROVE  GuestInv'
<1>1. \A m \in MatchObj : rooms'.in[m] \subseteq Session
    BY RoomKinds DEF RegistryInv, Live
<1>2. Guests'
    BY <1>1 DEF GuestInv, Guests, Members
<1>3. Apart'
    BY DEF GuestInv, Apart, Seated, Members
<1>4. QED  BY <1>2, <1>3 DEF GuestInv

\* p joins match m, whose guests are not the user of p.
LEMMA GuestsAsOneJoins ==
    ASSUME GuestInv, RegistryInv', NEW p \in Session, NEW m \in MatchObj, match[p] = None,
           match' = [match EXCEPT ![p] = m], standing \subseteq standing', came' = StillThere,
           \A d \in MatchObj : d # m => rooms'.in[d] = rooms.in[d],
           rooms'.in[m] \subseteq rooms.in[m] \cup {p},
           \/ tourney' = tourney /\ UserOf[p] \notin tourney[m]
           \/ tourney' = [tourney EXCEPT ![m] = {}] /\ Members(m) = {} /\ rooms.in[m] = {}
    PROVE  GuestInv'
<1> USE DEF GuestInv
<1>0. /\ match \in [Session -> MatchObj \cup {None}]
      /\ match'[p] = m /\ \A q \in Session : q # p => match'[q] = match[q]
    BY DEF RegistryInv
<1>1. \A d \in MatchObj : rooms'.in[d] \subseteq Session
    BY RoomKinds DEF RegistryInv, Live
<1>2. tourney' \in [MatchObj -> SUBSET User]
    OBVIOUS
<1>3. \A d \in MatchObj : d # m => tourney'[d] = tourney[d]
    OBVIOUS
<1>4. CameTyped' /\ \A d \in MatchObj : came'[d] = came[d] \cap rooms'.in[d]
    BY CameStays, RoomKinds
<1>5. Guests'
    <2>1. SUFFICES ASSUME NEW d \in MatchObj, NEW q \in rooms'.in[d], match'[q] # d, q \notin came'[d]
                   PROVE  q \in Tourney /\ (OnlyClient(q) => UserOf[q] \in tourney'[d])
        BY <1>1 DEF Guests, Members, OnlyClient
    <2>2. q \in Session /\ q \notin came[d]
        BY <1>1, <1>4, <2>1
    <2>3. CASE d = m
        <3>1. q # p /\ q \in rooms.in[m] /\ match[q] # m
            BY <1>0, <2>1, <2>2, <2>3
        <3>2. QED  BY <2>2, <2>3, <3>1 DEF Guests, Members
    <2>4. CASE d # m
        <3>1. q \in rooms.in[d] /\ match[q] # d
            BY <1>0, <2>1, <2>2, <2>4, RoomKinds
        <3>2. QED  BY <1>3, <2>2, <2>4, <3>1 DEF Guests, Members
    <2>5. QED  BY <2>3, <2>4
<1>6. Apart'
    <2>1. SUFFICES ASSUME NEW d \in MatchObj, NEW q \in Session, match'[q] = d, q \notin standing
                   PROVE  UserOf[q] \notin tourney'[d]
        BY DEF Apart, Seated, Members
    <2>2. CASE q = p
        BY <1>0, <2>1, <2>2
    <2>3. CASE q # p
        <3>1. q \in Members(d) /\ q \in Seated(d)
            BY <1>0, <2>1, <2>3 DEF Members, Seated
        <3>2. UserOf[q] \notin tourney[d]
            BY <3>1 DEF Apart
        <3>3. QED  BY <1>3, <3>1, <3>2
    <2>4. QED  BY <2>2, <2>3
<1>7. QED  BY <1>2, <1>4, <1>5, <1>6

\* Players join under their own steam or by force.
LEMMA GuestsAsJoined ==
    ASSUME GuestInv, RegistryInv', came' = StillThere, NEW p \in Session, NEW m \in MatchObj,
           join_match(p, m), tourney' = tourney
    PROVE  GuestInv'
<1>1. /\ rooms' = EnterMatch(rooms, m, p) /\ match' = [match EXCEPT ![p] = m] /\ match[p] = None
      /\ UserOf[p] \notin tourney[m] /\ standing \subseteq standing'
    BY DEF join_match, TakesSlot
<1>2. /\ \A d \in Instance : d # m => rooms'.in[d] = rooms.in[d]
      /\ rooms'.in[m] \subseteq rooms.in[m] \cup {p}
    BY <1>1, EnterIn, RoomsAre DEF GuestInv
<1>3. QED  BY <1>1, <1>2, GuestsAsOneJoins DEF Instance

\* p leaves the chat of its match, or raises on the way.
LEMMA GuestsAsOneLeaves ==
    ASSUME GuestInv, RegistryInv', came' = StillThere, NEW p \in Session, match[p] # None,
           Vacate(p) \/ VacateRaises(p), rooms' = leave_channel(rooms, match[p], p), tourney' = tourney
    PROVE  GuestInv'
<1> USE DEF GuestInv
<1>0. /\ rooms \in AnyRooms /\ match \in [Session -> MatchObj \cup {None}]
      /\ \A m \in MatchObj : m \in Room /\ m # None
    BY RoomsAre, RoomKinds DEF RegistryInv
<1>1. /\ match[p] \in MatchObj /\ match' \in {match, [match EXCEPT ![p] = None]}
      /\ standing \subseteq standing'
    BY <1>0 DEF Vacate, VacateRaises
<1>2. /\ \A d \in Room : d # match[p] => rooms'.in[d] = rooms.in[d]
      /\ rooms'.in[match[p]] = rooms.in[match[p]] \ {p}
    BY <1>0, <1>1, LeaveIn
<1>3. CameTyped' /\ \A d \in MatchObj : came'[d] = came[d] \cap rooms'.in[d]
    BY CameStays, RoomKinds
<1>4. ASSUME NEW m \in MatchObj, NEW q \in rooms'.in[m]
      PROVE  \/ q \in came'[m]
             \/ q \in rooms.in[m] \ came[m] /\ (match[q] = m => match'[q] = m)
    <2>1. q \in rooms.in[m] /\ (m = match[p] => q # p)
        BY <1>0, <1>2, <1>4
    <2>2. q \in Session
        BY <1>0, <2>1 DEF AnyRooms
    <2>3. QED  BY <1>0, <1>1, <1>3, <1>4, <2>1, <2>2
<1>5. \A m \in MatchObj, q \in Session : match'[q] = m => match[q] = m
    BY <1>0, <1>1
<1>6. QED  BY <1>1, <1>3, <1>4, <1>5, GuestsStay

LEMMA GuestsAsMatchesChange ==
    ASSUME GuestInv, RegistryInv', came' = StillThere, NEW p \in Session, MatchPacket(p)
    PROVE  GuestInv'
<1> USE DEF GuestInv
<1>0. /\ rooms \in AnyRooms /\ match \in [Session -> MatchObj \cup {None}]
      /\ \A m \in MatchObj : m \in Room /\ m \in Instance /\ m # None
    BY RoomsAre, RoomKinds DEF RegistryInv, Instance
<1>1. CASE MatchCreate(p)
    <2>1. PICK m \in MatchObj :
            /\ Unused(m) /\ tourney' = [tourney EXCEPT ![m] = {}]
            /\ rooms' = EnterMatch([rooms EXCEPT !.open = @ \cup {m}], m, p)
            /\ match' = [match EXCEPT ![p] = m] /\ standing' = standing
        BY <1>1 DEF MatchCreate
    <2>2. match[p] = None /\ Members(m) = {} /\ rooms.in[m] = {}
        BY <1>1, <2>1 DEF MatchCreate, Unused
    <2> DEFINE rm == [rooms EXCEPT !.open = @ \cup {m}]
    <2>3. rm \in AnyRooms /\ rm.in = rooms.in
        BY <1>0, RoomKinds DEF AnyRooms
    <2> HIDE DEF rm
    <2>4. rooms' = EnterMatch(rm, m, p)
        BY <2>1 DEF rm
    <2>5. /\ \A d \in Instance : d # m => rooms'.in[d] = rooms.in[d]
          /\ rooms'.in[m] \subseteq rooms.in[m] \cup {p}
        BY <2>3, <2>4, EnterIn
    <2>6. QED  BY <1>0, <2>1, <2>2, <2>5, GuestsAsOneJoins
<1>2. CASE MatchPart(p)
    BY <1>2, GuestsAsOneLeaves DEF MatchPart
<1>3. CASE MatchChangeSlot(p)
    <2>1. /\ match' = match /\ tourney' = tourney /\ rooms' = rooms /\ standing \subseteq standing'
        BY <1>3 DEF MatchChangeSlot
    <2>2. CameTyped' /\ \A d \in MatchObj : came'[d] = came[d] \cap rooms'.in[d]
        BY CameStays, RoomKinds
    <2>3. QED  BY <2>1, <2>2, GuestsStay
<1>4. ASSUME NEW u \in User, NEW t \in Found(u), mp_force(p, t)  PROVE GuestInv'
    <2>1. t \in Session /\ match[p] \in MatchObj /\ join_match(t, match[p]) /\ tourney' = tourney
        BY <1>0, <1>4 DEF mp_force, Found
    <2>2. QED  BY <2>1, GuestsAsJoined
<1>5. ASSUME NEW m \in MatchObj, MatchJoin(p, m)  PROVE GuestInv'
    BY <1>5, GuestsAsJoined DEF MatchJoin
<1>6. CameTyped' /\ \A d \in MatchObj : came'[d] = came[d] \cap rooms'.in[d]
    BY CameStays, RoomKinds
<1>7. ASSUME NEW m \in MatchObj, TourneyMatchJoinChannel(p, m)  PROVE GuestInv'
    <2>1. /\ p \in Tourney /\ \A q \in Seated(m) : UserOf[q] # UserOf[p]
          /\ rooms' = join_channel(rooms, m, p) /\ match' = match /\ standing' = standing
          /\ tourney' = [tourney EXCEPT ![m] = @ \cup {UserOf[p]}]
        BY <1>7 DEF TourneyMatchJoinChannel
    <2>2. /\ \A d \in Room : d # m => rooms'.in[d] = rooms.in[d]
          /\ rooms'.in[m] \subseteq rooms.in[m] \cup {p}
        <3>1. m \in Room /\ rooms \in AnyRooms  BY <1>0
        <3>2. /\ \A d \in Room : d # m => join_channel(rooms, m, p).in[d] = rooms.in[d]
              /\ \/ join_channel(rooms, m, p).in[m] = rooms.in[m] \cup {p}
                 \/ join_channel(rooms, m, p).in[m] = rooms.in[m]
            BY ONLY <3>1, JoinIn, p \in Session, m \in MatchObj
        <3>3. QED  BY <2>1, <3>2
    <2>3. /\ tourney' \in [MatchObj -> SUBSET User] /\ tourney'[m] = tourney[m] \cup {UserOf[p]}
          /\ \A d \in MatchObj : d # m => tourney'[d] = tourney[d]
        BY <2>1, RoomKinds
    <2>4. Guests'
        <3>1. SUFFICES ASSUME NEW d \in MatchObj, NEW q \in rooms'.in[d], q \notin Members(d)', q \notin came'[d]
                       PROVE  q \in Tourney /\ (OnlyClient(q) => UserOf[q] \in tourney'[d])
            BY DEF Guests, OnlyClient
        <3>2. q \notin Members(d) /\ q \notin came[d]
            BY <1>6, <2>1, <3>1 DEF Members
        <3>3. CASE q \in rooms.in[d]
            BY <2>3, <3>2, <3>3 DEF Guests
        <3>4. CASE q \notin rooms.in[d]
            <4>1. d = m /\ q = p
                BY <1>0, <2>2, <3>1, <3>4
            <4>2. QED  BY <2>1, <2>3, <4>1
        <3>5. QED  BY <3>3, <3>4
    <2>5. Apart'
        <3>1. SUFFICES ASSUME NEW d \in MatchObj, NEW q \in Seated(d)'
                       PROVE  UserOf[q] \notin tourney'[d]
            BY DEF Apart
        <3>2. q \in Seated(d)
            BY <2>1 DEF Seated, Members
        <3>3. UserOf[q] \notin tourney[d]
            BY <3>2 DEF Apart
        <3>4. QED  BY <2>1, <2>3, <3>2, <3>3
    <2>6. QED  BY <1>6, <2>3, <2>4, <2>5
<1>8. ASSUME NEW m \in MatchObj, TourneyMatchLeaveChannel(p, m)  PROVE GuestInv'
    <2>1. /\ p \in Tourney /\ rooms' = leave_channel(rooms, m, p) /\ match' = match /\ standing' = standing
          /\ tourney' = [tourney EXCEPT ![m] = @ \ {UserOf[p]}]
        BY <1>8 DEF TourneyMatchLeaveChannel
    <2>2. /\ \A d \in Room : d # m => rooms'.in[d] = rooms.in[d]
          /\ rooms'.in[m] = rooms.in[m] \ {p}
        BY <1>0, <2>1, LeaveIn
    <2>3. /\ tourney' \in [MatchObj -> SUBSET User] /\ tourney'[m] = tourney[m] \ {UserOf[p]}
          /\ \A d \in MatchObj : d # m => tourney'[d] = tourney[d]
        BY <2>1
    <2>4. Guests'
        <3>1. SUFFICES ASSUME NEW d \in MatchObj, NEW q \in rooms'.in[d], q \notin Members(d)', q \notin came'[d]
                       PROVE  q \in Tourney /\ (OnlyClient(q) => UserOf[q] \in tourney'[d])
            BY DEF Guests, OnlyClient
        <3>2. q \in rooms.in[d] /\ q \notin Members(d) /\ q \notin came[d] /\ (d = m => q # p)
            BY <1>0, <1>6, <2>1, <2>2, <3>1 DEF Members
        <3>3. q \in Tourney /\ (OnlyClient(q) => UserOf[q] \in tourney[d])
            BY <3>2 DEF Guests
        <3>4. CASE d # m
            BY <2>3, <3>3, <3>4
        <3>5. CASE d = m
            <4>1. OnlyClient(q) => UserOf[q] # UserOf[p]
                BY <2>1, <3>2, <3>5 DEF OnlyClient
            <4>2. QED  BY <2>3, <3>3, <3>5, <4>1
        <3>6. QED  BY <3>4, <3>5
    <2>5. Apart'
        <3>1. \A d \in MatchObj : tourney'[d] \subseteq tourney[d] /\ Seated(d)' = Seated(d)
            BY <2>1, <2>3 DEF Seated, Members
        <3>2. QED  BY <3>1 DEF Apart
    <2>6. QED  BY <1>6, <2>3, <2>4, <2>5
<1>9. QED  BY <1>1, <1>2, <1>3, <1>7, <1>8, <1>4, <1>5 DEF MatchPacket

\* Spectators are nothing to the chats of matches.
LEMMA SpectatorsLeaveGuests ==
    ASSUME GuestInv, NEW p \in Session, SpectatorPacket(p)
    PROVE  /\ UNCHANGED <<tourney, match, standing>>
           /\ \A m \in MatchObj : rooms'.in[m] = rooms.in[m]
<1> USE DEF GuestInv
<1>1. CASE StopSpectating(p)
    BY <1>1, StoppedKeeps DEF StopSpectating
<1>2. ASSUME NEW u \in User, NEW h \in Found(u), StartSpectating(p, h)
      PROVE  UNCHANGED <<tourney, match, standing>> /\ \A m \in MatchObj : rooms'.in[m] = rooms.in[m]
    <2>1. h \in Session /\ p \in Session \ Restricted /\ UNCHANGED <<tourney, match, standing>>
        BY <1>2 DEF Found, StartSpectating
    <2>2. rooms' = add_spectator(Stopped(p), h, p)
        BY <1>2 DEF StartSpectating
    <2>3. Live(Stopped(p)) /\ \A m \in MatchObj : Stopped(p).in[m] = rooms.in[m]
        BY StoppedKeeps
    <2>4. QED  BY <2>1, <2>2, <2>3, AddSpectatorKeeps
<1>3. QED  BY <1>1, <1>2 DEF SpectatorPacket

\* The chats of matches, the matches and what they know are as they were.
LEMMA GuestsSame ==
    ASSUME GuestInv, RegistryInv', came' = StillThere, UNCHANGED <<tourney, match, standing>>,
           \A m \in MatchObj : rooms'.in[m] = rooms.in[m]
    PROVE  GuestInv'
<1>1. CameTyped' /\ \A d \in MatchObj : came'[d] = came[d] \cap rooms'.in[d]
    BY CameStays, RoomKinds DEF GuestInv
<1>2. QED  BY <1>1, GuestsStay

\* A room is entered under its real name, or left: not that of the own match.
LEMMA NamesLeaveGuests ==
    ASSUME GuestInv, RegistryInv', NEW p \in Session, NEW c \in Room,
           \/ ChannelJoin(p, c) /\ came' = [came EXCEPT ![c] = @ \cup {p}]
           \/ ChannelPart(p, c) /\ came' = StillThere
    PROVE  GuestInv'
<1>0. rooms \in AnyRooms /\ UNCHANGED <<tourney, match, standing>> /\ \A m \in MatchObj : m \in Room
    BY RoomsAre, RoomKinds DEF GuestInv, ChannelJoin, ChannelPart
<1>1. CASE ChannelJoin(p, c) /\ came' = [came EXCEPT ![c] = @ \cup {p}]
    <2>1. rooms' = join_channel(rooms, c, p)
        BY <1>1 DEF ChannelJoin
    <2>2. /\ \A d \in Room : d # c => rooms'.in[d] = rooms.in[d]
          /\ rooms'.in[c] \subseteq rooms.in[c] \cup {p}
        BY <1>0, <2>1, JoinIn
    <2>3. /\ CameTyped' /\ came'[c] = came[c] \cup {p}
          /\ \A d \in Room : d # c => came'[d] = came[d]
        BY <1>1 DEF GuestInv, CameTyped
    <2>4. \A m \in MatchObj : \A q \in rooms'.in[m] : q \in came'[m] \/ q \in rooms.in[m] \ came[m]
        BY <1>0, <2>2, <2>3
    <2>5. QED  BY <1>0, <2>3, <2>4, GuestsStay
<1>2. CASE ChannelPart(p, c) /\ came' = StillThere
    <2>1. rooms' = leave_channel(rooms, c, p)
        BY <1>2 DEF ChannelPart
    <2>2. /\ \A d \in Room : d # c => rooms'.in[d] = rooms.in[d]
          /\ rooms'.in[c] = rooms.in[c] \ {p}
        BY <1>0, <2>1, LeaveIn
    <2>3. CameTyped' /\ \A m \in MatchObj : came'[m] = came[m] \cap rooms'.in[m]
        BY <1>2, CameStays, RoomKinds DEF GuestInv
    <2>4. \A m \in MatchObj : \A q \in rooms'.in[m] : q \in came'[m] \/ q \in rooms.in[m] \ came[m]
        BY <1>0, <2>2, <2>3
    <2>5. QED  BY <1>0, <2>3, <2>4, GuestsStay
<1>3. QED  BY <1>1, <1>2

LEMMA LogoutGuests ==
    ASSUME GuestInv, RegistryInv', came' = StillThere, NEW p \in Session, Logout(p)
    PROVE  GuestInv'
<1>1. /\ rooms' = leave_channels(Stopped(p), p) /\ tourney' = tourney /\ standing' = standing
      /\ match' \in {match, [match EXCEPT ![p] = None]}
    BY DEF Logout, Vacate
<1>2. Live(Stopped(p)) /\ \A m \in MatchObj : Stopped(p).in[m] = rooms.in[m]
    BY StoppedKeeps DEF GuestInv
<1>3. \A m \in MatchObj : rooms'.in[m] = rooms.in[m] \ {p} /\ rooms.in[m] \subseteq Session
    <2>1. \A c \in Room : leave_channels(Stopped(p), p).in[c] = Stopped(p).in[c] \ {p}
        BY <1>2, LeaveAllKeeps
    <2>2. \A c \in Room : rooms.in[c] \subseteq Session
        BY DEF GuestInv, RegistryInv, Live
    <2>3. QED  BY <1>1, <1>2, <2>1, <2>2, RoomKinds
<1>4. match \in [Session -> MatchObj \cup {None}]
    BY DEF GuestInv, RegistryInv
<1>5. \A q \in Session : (q # p => match'[q] = match[q]) /\ match'[q] \in {match[q], None}
    BY <1>1, <1>4
<1>6. CameTyped' /\ \A m \in MatchObj : came'[m] = came[m] \cap rooms'.in[m]
    BY CameStays, RoomKinds DEF GuestInv
<1>7. \A m \in MatchObj : \A q \in rooms'.in[m] :
          \/ q \in came'[m]
          \/ q \in rooms.in[m] \ came[m] /\ (match[q] = m => match'[q] = m)
    BY <1>3, <1>5, <1>6
<1>8. \A m \in MatchObj, q \in Session : match'[q] = m => match[q] = m
    BY <1>5, RoomKinds
<1>9. QED  BY <1>1, <1>6, <1>7, <1>8, GuestsStay

LEMMA GuestNextInv == GuestInv /\ [RegistryNext]_rvars => GuestInv'
<1> SUFFICES ASSUME GuestInv, [RegistryNext]_rvars  PROVE GuestInv'
    OBVIOUS
<1>0. RegistryInv'
    BY RegistryNextInv DEF GuestInv
<1>1. CASE UNCHANGED rvars
    <2>1. CameTyped' /\ Guests' /\ Apart'
        BY <1>1 DEF rvars, GuestInv, CameTyped, Guests, Apart, Members, Seated, OnlyClient
    <2>2. QED  BY <1>0, <1>1, <2>1 DEF rvars, GuestInv
<1>2. ASSUME NEW p \in Session, Login(p), came' = StillThere  PROVE GuestInv'
    BY <1>0, <1>2, GuestsSame DEF Login
<1>3. ASSUME NEW p \in Session, EntersByName(p)  PROVE GuestInv'
    BY <1>0, <1>3, NamesLeaveGuests DEF EntersByName, Room
<1>4. ASSUME NEW p \in Session, came' = StillThere,
             ChannelPacket(p) \/ MatchPacket(p) \/ SpectatorPacket(p) \/ SessionStep(p)
      PROVE  GuestInv'
    <2>1. CASE LobbyJoin(p) \/ LobbyPart(p)
        BY <1>0, <1>4, <2>1, GuestsSame DEF LobbyJoin, LobbyPart
    <2>2. CASE ChannelPacket(p)
        BY <1>0, <1>4, <2>1, <2>2, NamesLeaveGuests DEF ChannelPacket
    <2>3. CASE SpectatorPacket(p)
        BY <1>0, <1>4, <2>3, SpectatorsLeaveGuests, GuestsSame
    <2>4. CASE LogoutRaises(p)
        BY <1>0, <1>4, <2>4, GuestsSame, GuestsAsOneLeaves DEF LogoutRaises
    <2>5. QED
        BY <1>0, <1>4, <2>2, <2>3, <2>4, GuestsAsMatchesChange, LogoutGuests DEF SessionStep
<1>5. QED  BY <1>1, <1>2, <1>3, <1>4 DEF RegistryNext, OtherStep, online

LEMMA GuestInitInv == RegistryInit => GuestInv
<1>1. RegistryInit => Guests /\ Apart /\ CameTyped
    BY RoomKinds DEF RegistryInit, Guests, Apart, Members, Seated, CameTyped
<1>2. RegistryInit => tourney \in [MatchObj -> SUBSET User]
    BY DEF RegistryInit
<1>3. QED  BY <1>1, <1>2, RegistryInitInv DEF GuestInv

\* Guests and players of a match stay apart (player.py:633-690, cho.py:1787-1815).
THEOREM GuestInvariant == RegistrySpec => []GuestInv
BY GuestInitInv, GuestNextInv, PTL DEF RegistrySpec

-----------------------------------------------------------------------------
(* Who hears what is said.                                                  *)

\* Who is in a slot of a match reaches everyone who is in one, and who watches a
\* player everyone who watches the same one, whatever happened before
\* (cho.py:237-260).
THEOREM MessagesReachAlways == RegistrySpec => []MessagesReach
<1>1. ASSUME WatchInv, NEW p \in Session, spectating[p] # None, NEW q \in Spectators(spectating[p])
      PROVE  q \in Reached(p, SpectatorRoom(p))
    <2> DEFINE c == UserOf[spectating[p]]
    <2>1. c \in User /\ q \in Session /\ spectating[q] = spectating[p]
        BY <1>1, RoomKinds DEF WatchInv, RegistryInv, Spectators
    <2>2. p \in rooms.in[c] /\ q \in rooms.in[c]
        BY <1>1, <2>1 DEF WatchInv, WatchersTalk
    <2>3. c \in rooms.open
        BY <1>1, <2>1, <2>2 DEF WatchInv, RegistryInv, Live, Instance
    <2>4. SpectatorRoom(p) = {c}
        BY <1>1 DEF SpectatorRoom
    <2>5. QED  BY <2>2, <2>3, <2>4 DEF Reached
<1>2. online \subseteq Session
    BY DEF online
<1>3. WatchInv /\ MatchesAreHeard => MessagesReach
    BY <1>1, <1>2 DEF MessagesReach, MatchesAreHeard
<1>4. QED  BY <1>3, WatchInvariant, MatchesAreHeardAlways, PTL

\* Nobody hears by accident: but for those who asked for the room by its real
\* name, in the chat of a match is nobody but its players and tournament clients
\* of others, in a room of spectators nobody but those who watch and who is
\* watched (player.py:687-690, 912-920, cho.py:1736).
THEOREM NobodyElseHearsAlways == RegistrySpec => []NobodyElseHears
<1>1. ASSUME GuestInv, NEW p \in Session, NEW m \in Registered, p \in rooms.in[m] \ (Members(m) \cup came[m])
      PROVE  p \in Tourney /\ (OnlyClient(p) => \A q \in Seated(m) : UserOf[q] # UserOf[p])
    <2>1. m \in MatchObj
        BY <1>1 DEF GuestInv, RegistryInv, Registered
    <2>2. p \in Tourney /\ (OnlyClient(p) => UserOf[p] \in tourney[m])
        BY <1>1, <2>1 DEF GuestInv, Guests
    <2>3. \A q \in Seated(m) : UserOf[q] \notin tourney[m]
        BY <1>1, <2>1 DEF GuestInv, Apart
    <2>4. QED  BY <2>2, <2>3
<1>2. ASSUME WatchInv, NEW p \in Session, NEW u \in User, p \in rooms.in[u] \ came[u]
      PROVE  \/ spectating[p] # None /\ UserOf[spectating[p]] = u
             \/ UserOf[p] = u /\ Spectators(p) # {}
    BY <1>2 DEF WatchInv, OnlyTheirs
<1>3. GuestInv /\ WatchInv => NobodyElseHears
    BY <1>1, <1>2 DEF NobodyElseHears
<1>4. QED  BY <1>3, GuestInvariant, WatchInvariant, PTL

=============================================================================
