--------------------------- MODULE CommandProofs ---------------------------
(***************************************************************************)
(* The two modules with the !mp commands, MatchSettings and MatchReferee,  *)
(* which share the seats of MatchCourteous and their proofs, MatchProofs:  *)
(* each step is one of MatchCourteous, or leaves everybody where they sit. *)
(*                                                                         *)
(* The settings of a match stay consistent, for every set of players, mods *)
(* and every number of slots.  The referees of a match are in it and its   *)
(* timer does not outlive it, for every set of players and every number of *)
(* slots.                                                                  *)
(***************************************************************************)
EXTENDS MatchSettings, MatchReferee, MatchProofs

-----------------------------------------------------------------------------
(* Settings.                                                                *)

SettingsInv ==
    /\ SettingsTypeOK
    /\ CourteousInv
    /\ FreemodsSplit
    /\ EmptySlotsAreClean
    /\ TeamsHaveColours

-----------------------------------------------------------------------------
(* The seats.                                                               *)

LEMMA SettingsInitInv == SettingsInit => SettingsInv
<1> SUFFICES ASSUME SettingsInit PROVE SettingsInv
    OBVIOUS
<1>1. TypeOK /\ CourteousInv
    BY InitType, CourteousInit DEF SettingsInit
<1>2. SettingsTypeOK
    BY <1>1 DEF SettingsInit, SettingsTypeOK, Team, TeamType, Awaited
<1>3. QED
    BY <1>1, <1>2
       DEF SettingsInit, SettingsInv, FreemodsSplit, EmptySlotsAreClean, TeamsHaveColours

LEMMA SeatPacketIsCourteous ==
    ASSUME NEW p \in Player, SeatPacket(p)
    PROVE  CourteousNext
BY DEF SeatPacket, CourteousNext, Next, PlayerStep, SeatStep, OwnSlotStep, HostStep

\* The command is the packet of a host who hands over.
LEMMA HostCommandIsCourteous ==
    ASSUME CourteousInv, NEW p \in Player, NEW t \in Player, HostCommand(p, t)
    PROVE  CourteousNext
<1>1. TypeOK
    BY DEF CourteousInv, MatchInv
<1>2. host \in members /\ host \in Player
    BY <1>1, MemberSeesHost DEF HostCommand, MayCommand, InMatch, TypeOK
<1>3. session[host] = "online"
    BY <1>1, <1>2
       DEF CourteousInv, MatchInv, NoZombie, MembersHaveSession, TypeOK, SessionState
<1>4. PICK s \in Slot : slots[s].player = t
    BY DEF HostCommand, SlotsOf
<1>5. MatchTransferHost(host, s)
    BY <1>2, <1>3, <1>4, NoneAssumption DEF HostCommand, MatchTransferHost, IsHost, InMatch
<1>6. NoKickedSlotReopens
    <2>1. \A u \in Slot : SetStatus(slots[u], "open").status = "open"
        BY <1>1, SetStatusSlot DEF TypeOK, Status
    <2>2. QED  BY <2>1 DEF HostCommand, NoKickedSlotReopens, Kicked
<1>7. HostNotLeftWithKicked
    BY DEF HostCommand, HostNotLeftWithKicked
<1>8. CreatesAsTheGame
    BY <1>2, <1>5 DEF CreatesAsTheGame, MatchTransferHost, InMatch
<1>9. QED
    BY <1>2, <1>5, <1>6, <1>7, <1>8 DEF Courteous, CourteousNext, Next, PlayerStep, SeatStep, HostStep

LEMMA SettingsPacketIsCourteous ==
    ASSUME TypeOK, NEW p \in Player, NEW fm \in BOOLEAN, NEW ch \in BOOLEAN,
           NEW type \in TeamType, MatchChangeSettings(p, fm, ch, type)
    PROVE  [CourteousNext]_vars
<1>1. CASE ~ch
    BY <1>1 DEF MatchChangeSettings, vars
<1>2. CASE ch
    <2>1. MatchChangeMap(p)
        BY <1>2 DEF MatchChangeSettings, MatchChangeMap
    <2>2. NoKickedSlotReopens
        <3>1. \A u \in Slot :
                 /\ SetStatus(slots[u], "open").status = "open"
                 /\ slots[u].status = "locked" => slots'[u].status = "locked"
            BY <2>1, SetStatusSlot DEF MatchChangeMap, Unready, TypeOK, Status
        <3>2. QED  BY <3>1 DEF NoKickedSlotReopens, Kicked
    <2>3. HostNotLeftWithKicked
        BY <2>1 DEF MatchChangeMap, HostNotLeftWithKicked
    <2>4. CreatesAsTheGame
        BY <2>1 DEF MatchChangeMap, CreatesAsTheGame, InMatch
    <2>5. QED
        BY <2>1, <2>2, <2>3, <2>4 DEF Courteous, CourteousNext, Next, PlayerStep, SeatStep, HostStep
<1>3. QED  BY <1>1, <1>2

\* Whatever the step, the seats keep the invariant of courteous clients.
LEMMA SeatsKeepInv ==
    ASSUME SettingsInv, [SettingsNext]_msvars
    PROVE  CourteousInv' /\ TypeOK'
<1>1. TypeOK /\ CourteousInv
    BY DEF SettingsInv, SettingsTypeOK
<1>2. [CourteousNext]_vars
    <2>1. CASE UNCHANGED msvars
        BY <2>1 DEF msvars
    <2>2. ASSUME NEW p \in Player, SeatPacket(p) PROVE CourteousNext
        BY <2>2, SeatPacketIsCourteous
    <2>3. ASSUME NEW p \in Player, NEW t \in Player, HostCommand(p, t) PROVE CourteousNext
        BY <1>1, <2>3, HostCommandIsCourteous
    <2>4. ASSUME NEW p \in Player, ModsStep(p) PROVE UNCHANGED vars
        BY <2>4 DEF ModsStep, MatchChangeMods, mp_mods, mp_pick, mp_freemods,
                    mp_freemods_raises
    <2>5. ASSUME NEW p \in Player, TeamStep(p) PROVE UNCHANGED vars
        BY <2>5 DEF TeamStep, MatchChangeTeam, mp_teams
    <2>6. ASSUME NEW p \in Player, SettingsPacket(p) PROVE [CourteousNext]_vars
        BY <1>1, <2>6, SettingsPacketIsCourteous
           DEF SettingsPacket, MatchChangeSettings_resumes, mp_map, mp_map_resumes
    <2>7. QED
        BY <2>1, <2>2, <2>3, <2>4, <2>5, <2>6 DEF SettingsNext
<1>3. QED
    BY <1>1, <1>2, CourteousStep DEF CourteousInv, MatchInv

\* A player in an open or closed slot is being kicked: any other player's slot
\* is occupied.
LEMMA NotKickedIsOccupied ==
    ASSUME CourteousInv, NEW p \in Player, ~BeingKicked(p), NEW s \in SlotsOf(p)
    PROVE  s \in Occupied(slots)
<1>1. s \in Slot /\ slots[s].player = p /\ slots[s].player # None /\ slots[s].status \in Status
    BY NoneAssumption DEF SlotsOf, CourteousInv, MatchInv, TypeOK, SlotRecord
<1>2. slots[s].status \notin {"open", "locked"}
    BY <1>1 DEF BeingKicked, Kicked, CourteousInv, OpenIsEmpty
<1>3. QED  BY <1>1, <1>2 DEF Occupied, Status, has_player

\* Where the player of an occupied slot was before: a newcomer, one who moved
\* from an occupied slot, or one who stayed in one.
Stayed(s)   == ~Vacated(s) /\ ~Arrived(s) /\ s \in Occupied(slots)
Moved(s)    == \E t \in Occupied(slots) : Arrived(s) /\ OldSlots(s) = {t}
Newcomer(s) == Arrived(s) /\ OldSlots(s) = {}

LEMMA OccupiedAfter ==
    ASSUME CourteousInv, CourteousInv', NEW p \in Player, SeatPacket(p),
           NEW s \in Slot, slots'[s].status \in has_player
    PROVE  Stayed(s) \/ Moved(s) \/ Newcomer(s)
<1>1. TypeOK /\ TypeOK'
    BY DEF CourteousInv, MatchInv
<1>2. slots'[s].player # None
    BY DEF CourteousInv, MatchInv, StatusHasPlayer, Occupied
<1>3. CASE slots'[s] = slots[s]
    BY <1>2, <1>3 DEF Stayed, Vacated, Arrived, Occupied
<1>4. CASE MatchCreate(p)
    <2>1. stage # "open"
        BY <1>4 DEF MatchCreate
    <2>2. \A t \in Slot : slots[t].player = None
        BY <2>1 DEF CourteousInv, OnlyOpenIsSeated, AllEmpty
    <2>3. QED  BY <1>2, <2>2 DEF Newcomer, Arrived, OldSlots, SlotsOf
<1>5. CASE MatchJoin(p)
    <2>1. PICK t \in Slot : slots' = [slots EXCEPT ![t] = Take(@, p, "not_ready")]
        BY <1>5 DEF MatchJoin, join_match
    <2>2. SlotsOf(p) = {}
        BY <1>5, NoneAssumption
           DEF MatchJoin, join_match, SlotsOf, CourteousInv, MatchInv, SeatedAreMembers
    <2>3. Take(slots[t], p, "not_ready").player = p
        <3>1. slots[t] \in SlotRecord /\ "not_ready" \in Status
            BY <1>1 DEF TypeOK, Status
        <3>2. QED  BY <3>1, TakeSlot
    <2>4. CASE t = s
        <3>1. slots'[s].player = p
            BY <1>1, <2>1, <2>3, <2>4 DEF TypeOK
        <3>2. slots[s].player # p
            BY <2>2 DEF SlotsOf
        <3>3. QED  BY <1>2, <2>2, <3>1, <3>2 DEF Newcomer, Arrived, OldSlots
    <2>5. QED  BY <1>1, <1>3, <2>1, <2>4 DEF TypeOK
<1>6. CASE MatchPart(p) \/ SessionStep(p)
    <2>1. slots' = slots \/ \E t \in SlotsOf(p) : LeaveSeat(p, t, slots')
        BY <1>6 DEF MatchPart, SessionStep, Login, Logout, LogoutRaises
    <2>2. QED
        BY <1>1, <1>2, <1>3, <2>1, LeaveSeatSlots
<1>7. CASE ~BeingKicked(p) /\ MatchReady(p)
    <2>1. PICK t \in SlotsOf(p) : slots' = [slots EXCEPT ![t] = SetStatus(@, "ready")]
        BY <1>7 DEF MatchReady, SetOwnStatus
    <2>2. t \in Slot /\ t \in Occupied(slots)
        BY <1>7, <2>1, NotKickedIsOccupied DEF SlotsOf
    <2>3. slots'[t].player = slots[t].player
        BY <1>1, <2>1, <2>2, SetStatusSlot DEF TypeOK, Status
    <2>4. CASE t = s
        BY <1>2, <2>2, <2>3, <2>4 DEF Stayed, Vacated, Arrived
    <2>5. QED  BY <1>1, <1>3, <2>1, <2>4 DEF TypeOK
<1>8. ASSUME NEW u \in Slot, ~BeingKicked(p), MatchChangeSlot(p, u)
      PROVE  Stayed(s) \/ Moved(s) \/ Newcomer(s)
    <2>1. PICK t \in SlotsOf(p) :
              slots' = [slots EXCEPT ![u] = Take(@, p, slots[t].status), ![t] = Reset("open")]
        BY <1>8 DEF MatchChangeSlot
    <2>2. t \in Slot /\ t \in Occupied(slots) /\ slots[t].player = p /\ slots[t].status \in Status
        BY <1>1, <1>8, <2>1, NotKickedIsOccupied DEF SlotsOf, TypeOK, SlotRecord
    <2>3. slots[u].player = None
        BY <1>8 DEF MatchChangeSlot, CourteousInv, OpenIsEmpty
    <2>4. SlotsOf(p) = {t}
        BY <2>2, NoneAssumption DEF SlotsOf, CourteousInv, MatchInv, OneSeat
    <2>5. u # t
        BY <2>2, <2>3, NoneAssumption
    <2>6. slots'[t].player = None /\ slots'[u].player = p
        <3>1. Reset("open").player = None
            BY ResetSlot DEF Status
        <3>2. Take(slots[u], p, slots[t].status).player = p
            BY <1>1, <2>2, TakeSlot DEF TypeOK
        <3>3. slots'[t] = Reset("open") /\ slots'[u] = Take(slots[u], p, slots[t].status)
            BY <1>1, <2>1, <2>2, <2>5 DEF TypeOK
        <3>4. QED  BY <3>1, <3>2, <3>3
    <2>7. CASE s = u
        BY <2>2, <2>3, <2>4, <2>6, <2>7, NoneAssumption DEF Moved, Arrived, OldSlots
    <2>8. CASE s # u /\ s # t
        BY <1>1, <1>3, <2>1, <2>2, <2>8 DEF TypeOK
    <2>9. QED  BY <1>2, <2>6, <2>7, <2>8
<1>9. ASSUME NEW u \in Slot, MatchLock(p, u)
      PROVE  Stayed(s) \/ Moved(s) \/ Newcomer(s)
    <2>1. PICK st \in {"open", "locked"} : slots' = [slots EXCEPT ![u] = SetStatus(@, st)]
        BY <1>9 DEF MatchLock
    <2>2. slots'[u].status \notin has_player
        BY <1>1, <2>1, SetStatusSlot DEF TypeOK, Status, has_player
    <2>3. QED  BY <1>1, <1>3, <2>1, <2>2 DEF TypeOK
<1>10. ASSUME NEW u \in Slot, MatchTransferHost(p, u)
       PROVE  Stayed(s) \/ Moved(s) \/ Newcomer(s)
    BY <1>3, <1>10 DEF MatchTransferHost
<1>11. QED
    BY <1>4, <1>5, <1>6, <1>7, <1>8, <1>9, <1>10 DEF SeatPacket

-----------------------------------------------------------------------------
(* The settings.                                                            *)

\* The player of a slot that holds one has exactly one old slot, and what the
\* player takes along is what is in it.
LEMMA OldSlotIsOne ==
    ASSUME NEW s \in Slot, NEW t, OldSlots(s) = {t}
    PROVE  t \in Slot /\ MovedMods(s) = slotMods[t] /\ MovedTeam(s) = slotTeam[t]
<1>1. t \in Slot
    BY DEF OldSlots, SlotsOf
<1>2. (CHOOSE u \in Slot : u \in OldSlots(s)) = t
    BY <1>1
<1>3. QED  BY <1>1, <1>2 DEF MovedMods, MovedTeam

\* Some slot is chosen as the old one whenever there is one.
LEMMA OldSlotIsASlot ==
    ASSUME SettingsTypeOK, NEW s \in Slot, OldSlots(s) # {}
    PROVE  MovedMods(s) \in SUBSET (Mod \ Speed) /\ MovedTeam(s) \in Team
<1>1. \E u \in Slot : u \in OldSlots(s)
    BY DEF OldSlots, SlotsOf
<1>2. (CHOOSE u \in Slot : u \in OldSlots(s)) \in Slot
    BY <1>1
<1>3. QED  BY <1>2 DEF MovedMods, MovedTeam, SettingsTypeOK

LEMMA SeatPacketKeeps ==
    ASSUME SettingsInv, CourteousInv', TypeOK', NEW p \in Player, SeatPacket(p)
    PROVE  SettingsInv'
<1>1. teamType' \in TeamType
    BY DEF SeatPacket, SettingsInv, SettingsTypeOK
<1>2. CarryMods /\ CarryTeams /\ UNCHANGED <<freemods, mods, choosing, waiting>>
    BY DEF SeatPacket
<1>3. SettingsTypeOK'
    <2>1. slotMods' \in [Slot -> SUBSET (Mod \ Speed)]
        BY <1>2, OldSlotIsASlot DEF CarryMods, SettingsInv, SettingsTypeOK
    <2>2. slotTeam' \in [Slot -> Team]
        BY <1>2, OldSlotIsASlot DEF CarryTeams, SettingsInv, SettingsTypeOK, Team
    <2>3. QED  BY <1>1, <1>2, <2>1, <2>2 DEF SettingsInv, SettingsTypeOK
<1>4. FreemodsSplit'
    BY <1>2 DEF SettingsInv, FreemodsSplit
<1>5. EmptySlotsAreClean'
    BY <1>2 DEF SettingsInv, EmptySlotsAreClean, CarryMods, CarryTeams, Vacated, Arrived
<1>6. TeamsHaveColours'
    <2>1. SUFFICES ASSUME teamType' = "teams", NEW s \in Slot, slots'[s].status \in has_player
                   PROVE  slotTeam'[s] # "neutral"
        BY DEF TeamsHaveColours, Occupied
    <2>2. Stayed(s) \/ Moved(s) \/ Newcomer(s)
        BY <2>1, OccupiedAfter DEF SettingsInv
    <2>3. CASE Newcomer(s)
        BY <1>2, <2>1, <2>3 DEF Newcomer, CarryTeams, Vacated, Arrived
    <2>4. CASE ~Newcomer(s)
        <3>1. \E t \in Occupied(slots) : slots[t].player # None
            BY <2>2, <2>4 DEF Stayed, Moved, SettingsInv, CourteousInv, MatchInv, StatusHasPlayer
        <3>2. stage = "open" /\ ~MatchCreate(p)
            BY <3>1 DEF SettingsInv, CourteousInv, OnlyOpenIsSeated, AllEmpty, Occupied, MatchCreate
        <3>3. teamType = "teams"
            BY <2>1, <3>2 DEF SeatPacket
        <3>4. CASE Stayed(s)
            BY <1>2, <3>3, <3>4
               DEF Stayed, CarryTeams, Vacated, Arrived, SettingsInv, TeamsHaveColours
        <3>5. CASE Moved(s)
            <4>1. PICK t \in Occupied(slots) : Arrived(s) /\ OldSlots(s) = {t}
                BY <3>5 DEF Moved
            <4>2. slotTeam'[s] = slotTeam[t]
                BY <1>2, <4>1, OldSlotIsOne DEF CarryTeams, Vacated, Arrived
            <4>3. QED  BY <3>3, <4>1, <4>2 DEF SettingsInv, TeamsHaveColours
        <3>6. QED  BY <2>2, <2>4, <3>4, <3>5
    <2>5. QED  BY <2>3, <2>4
<1>7. QED  BY <1>3, <1>4, <1>5, <1>6 DEF SettingsInv

\* A step that leaves the slots' players and statuses alone, but for one
\* has_player status turned into another.
LEMMA SameSeats ==
    ASSUME TypeOK, NEW sl \in {slots, Unready("ready", slots)}, NEW s \in Slot
    PROVE  /\ sl[s].player = slots[s].player
           /\ s \in Occupied(sl) <=> s \in Occupied(slots)
BY UnreadySlots DEF TypeOK, Occupied, has_player

\* An occupied slot, and a slot of somebody's, holds a player.
LEMMA TakenIsNotEmpty ==
    ASSUME SettingsInv, NEW p \in Player, NEW s \in Occupied(slots) \cup SlotsOf(p)
    PROVE  s \in Slot /\ slots[s].player # None
BY NoneAssumption
   DEF SettingsInv, CourteousInv, MatchInv, StatusHasPlayer, Occupied, SlotsOf

\* Freemods on, off, and no mods for anyone: nothing changes for an empty slot,
\* and the mods stay mods.
LEMMA FreemodsOnTurns ==
    ASSUME SettingsInv, FreemodsOn
    PROVE  /\ slotMods' \in [Slot -> SUBSET (Mod \ Speed)]
           /\ mods' \subseteq Speed /\ mods' \subseteq Mod
           /\ \A s \in Slot : slots[s].player = None => slotMods'[s] = slotMods[s]
<1>1. \A s \in Slot : slots[s].player = None => s \notin Occupied(slots)
    BY DEF SettingsInv, CourteousInv, MatchInv, StatusHasPlayer
<1>2. QED  BY <1>1 DEF FreemodsOn, SettingsInv, SettingsTypeOK

LEMMA NoSlotModsTurns ==
    ASSUME SettingsInv, NoSlotMods
    PROVE  /\ slotMods' \in [Slot -> SUBSET (Mod \ Speed)]
           /\ \A s \in Slot : slots[s].player = None => slotMods'[s] = slotMods[s]
<1>1. \A s \in Slot : slots[s].player = None => s \notin Occupied(slots)
    BY DEF SettingsInv, CourteousInv, MatchInv, StatusHasPlayer
<1>2. \A s \in Slot : slotMods[s] \in SUBSET (Mod \ Speed)
    BY DEF SettingsInv, SettingsTypeOK
<1>3. slotMods' = [s \in Slot |-> IF s \in Occupied(slots) THEN {} ELSE slotMods[s]]
    BY DEF NoSlotMods
<1>4. QED  BY <1>1, <1>2, <1>3

LEMMA FreemodsOffTurns ==
    ASSUME SettingsInv, FreemodsOff
    PROVE  /\ slotMods' \in [Slot -> SUBSET (Mod \ Speed)]
           /\ mods' \subseteq Mod
           /\ \A s \in Slot : slots[s].player = None => slotMods'[s] = slotMods[s]
<1>1. PICK h \in HostSlot : mods' = (mods \cap Speed) \cup slotMods[h] /\ NoSlotMods
    BY DEF FreemodsOff
<1>2. h \in Slot
    BY DEF HostSlot, SlotsOf
<1>3. mods' \subseteq Mod
    BY <1>1, <1>2 DEF SettingsInv, SettingsTypeOK
<1>4. QED  BY <1>1, <1>3, NoSlotModsTurns

\* The mods of a player's own choice go to a slot that is the player's.
LEMMA OwnModsTurns ==
    ASSUME SettingsInv, NEW p \in Player, NEW ms \in SUBSET Mod, OwnMods(p, ms)
    PROVE  /\ slotMods' \in [Slot -> SUBSET (Mod \ Speed)]
           /\ mods' \subseteq Mod
           /\ freemods => mods' \subseteq Speed
           /\ \A s \in Slot : slots[s].player = None => slotMods'[s] = slotMods[s]
<1>1. PICK s \in SlotsOf(p) : slotMods' = [slotMods EXCEPT ![s] = ms \ Speed]
    BY DEF OwnMods
<1>2. s \in Slot /\ slots[s].player # None
    BY TakenIsNotEmpty
<1>3. mods \subseteq Mod /\ slotMods \in [Slot -> SUBSET (Mod \ Speed)]
    BY DEF SettingsInv, SettingsTypeOK
<1>4. mods' = IF p = host THEN ms \cap Speed ELSE mods
    BY DEF OwnMods
<1>5. mods' \subseteq Mod /\ (freemods => mods' \subseteq Speed)
    BY <1>3, <1>4 DEF SettingsInv, FreemodsSplit
<1>6. QED  BY <1>1, <1>2, <1>3, <1>5

\* What a step that leaves seats and teams alone must still show.
LEMMA ModsKeep ==
    ASSUME SettingsInv, CourteousInv', TypeOK',
           UNCHANGED <<slots, teamType, slotTeam>>,
           freemods' \in BOOLEAN, choosing' \in BOOLEAN, waiting' \in [Player -> Awaited],
           mods' \subseteq Mod, slotMods' \in [Slot -> SUBSET (Mod \ Speed)],
           freemods' => mods' \subseteq Speed,
           \A s \in Slot : slots[s].player = None => slotMods'[s] = slotMods[s]
    PROVE  SettingsInv'
<1>1. SettingsTypeOK'
    BY DEF SettingsInv, SettingsTypeOK
<1>2. FreemodsSplit' /\ EmptySlotsAreClean' /\ TeamsHaveColours'
    BY DEF SettingsInv, FreemodsSplit, EmptySlotsAreClean, TeamsHaveColours
<1>3. QED  BY <1>1, <1>2 DEF SettingsInv

LEMMA ModsStepKeeps ==
    ASSUME SettingsInv, CourteousInv', TypeOK', NEW p \in Player, ModsStep(p)
    PROVE  SettingsInv'
<1>1. UNCHANGED <<slots, teamType, slotTeam, waiting>>
    BY DEF ModsStep, MatchChangeMods, mp_mods, mp_pick, mp_freemods, mp_freemods_raises, vars,
           slotData
<1>2. /\ freemods \in BOOLEAN /\ choosing \in BOOLEAN /\ waiting' \in [Player -> Awaited]
      /\ mods \subseteq Mod /\ slotMods \in [Slot -> SUBSET (Mod \ Speed)]
      /\ freemods => mods \subseteq Speed
    BY <1>1 DEF SettingsInv, SettingsTypeOK, FreemodsSplit
<1>3. ASSUME NEW ms \in SUBSET Mod, MatchChangeMods(p, ms) \/ mp_mods(p, ms)
      PROVE  SettingsInv'
    <2>1. UNCHANGED <<freemods, choosing>>
        BY <1>3 DEF MatchChangeMods, mp_mods
    <2>2. CASE OwnMods(p, ms)
        BY <1>1, <1>2, <2>1, <2>2, OwnModsTurns, ModsKeep
    <2>3. CASE ~freemods /\ MatchMods(ms)
        BY <1>1, <1>2, <2>1, <2>3, ModsKeep DEF MatchMods
    <2>4. QED  BY <1>3, <2>2, <2>3 DEF MatchChangeMods, mp_mods
<1>4. ASSUME NEW ms \in SUBSET Mod, mp_pick(p, ms)
      PROVE  SettingsInv'
    <2>1. freemods' = FALSE /\ mods' = ms /\ choosing' = FALSE
        BY <1>4 DEF mp_pick
    <2>2. /\ slotMods' \in [Slot -> SUBSET (Mod \ Speed)]
          /\ \A s \in Slot : slots[s].player = None => slotMods'[s] = slotMods[s]
        BY <1>2, <1>4, NoSlotModsTurns DEF mp_pick
    <2>3. QED  BY <1>1, <1>2, <2>1, <2>2, ModsKeep
<1>5. ASSUME NEW on \in BOOLEAN, mp_freemods(p, on)
      PROVE  SettingsInv'
    <2>1. freemods' = on /\ choosing' = choosing
        BY <1>5 DEF mp_freemods
    <2>2. CASE on
        BY <1>1, <1>2, <1>5, <2>1, <2>2, FreemodsOnTurns, ModsKeep DEF mp_freemods
    <2>3. CASE ~on
        BY <1>1, <1>2, <1>5, <2>1, <2>3, FreemodsOffTurns, ModsKeep DEF mp_freemods
    <2>4. QED  BY <2>2, <2>3
<1>6. CASE mp_freemods_raises(p)
    <2>1. freemods' = FALSE /\ mods' \subseteq Mod /\ UNCHANGED <<slotMods, choosing>>
        BY <1>2, <1>6 DEF mp_freemods_raises, slotData
    <2>2. QED  BY <1>1, <1>2, <2>1, ModsKeep
<1>7. QED  BY <1>3, <1>4, <1>5, <1>6 DEF ModsStep

\* A new team type gives every occupied slot its team, and no other slot one.
LEMMA SetTeamTypeTurns ==
    ASSUME SettingsInv, NEW type \in TeamType, SetTeamType(type)
    PROVE  /\ teamType' \in TeamType /\ slotTeam' \in [Slot -> Team]
           /\ \A s \in Slot : slots[s].player = None => slotTeam'[s] = slotTeam[s]
           /\ teamType' = "teams" => \A s \in Occupied(slots) : slotTeam'[s] # "neutral"
<1>1. \A s \in Slot : slots[s].player = None => s \notin Occupied(slots)
    BY DEF SettingsInv, CourteousInv, MatchInv, StatusHasPlayer
<1>2. DefaultTeam(type) \in Team /\ (type = "teams" => DefaultTeam(type) # "neutral")
    BY DEF DefaultTeam, Team
<1>3. slotTeam \in [Slot -> Team] /\ Occupied(slots) \subseteq Slot
    BY DEF SettingsInv, SettingsTypeOK, Occupied
<1>4. QED  BY <1>1, <1>2, <1>3 DEF SetTeamType

LEMMA TeamTypeChanges ==
    ASSUME SettingsInv, NEW type \in TeamType, ChangeTeamType(type)
    PROVE  /\ teamType' \in TeamType /\ slotTeam' \in [Slot -> Team]
           /\ \A s \in Slot : slots[s].player = None => slotTeam'[s] = slotTeam[s]
           /\ teamType' = "teams" => \A s \in Occupied(slots) : slotTeam'[s] # "neutral"
<1>1. CASE UNCHANGED <<teamType, slotTeam>>
    BY <1>1 DEF SettingsInv, SettingsTypeOK, TeamsHaveColours
<1>2. CASE SetTeamType(type)
    BY <1>2, SetTeamTypeTurns
<1>3. QED  BY <1>1, <1>2 DEF ChangeTeamType

\* What a step that leaves who sits where alone must show.
LEMMA SettingsKeep ==
    ASSUME SettingsInv, CourteousInv', TypeOK',
           \A s \in Slot : slots'[s].player = slots[s].player,
           Occupied(slots') = Occupied(slots),
           freemods' \in BOOLEAN, choosing' \in BOOLEAN, waiting' \in [Player -> Awaited],
           mods' \subseteq Mod, slotMods' \in [Slot -> SUBSET (Mod \ Speed)],
           freemods' => mods' \subseteq Speed,
           teamType' \in TeamType, slotTeam' \in [Slot -> Team],
           teamType' = "teams" => \A s \in Occupied(slots) : slotTeam'[s] # "neutral",
           \A s \in Slot : slots[s].player = None =>
               slotMods'[s] = slotMods[s] /\ slotTeam'[s] = slotTeam[s]
    PROVE  SettingsInv'
<1>1. SettingsTypeOK'
    BY DEF SettingsTypeOK
<1>2. FreemodsSplit' /\ EmptySlotsAreClean'
    BY DEF SettingsInv, FreemodsSplit, EmptySlotsAreClean
<1>3. TeamsHaveColours'
    BY DEF TeamsHaveColours
<1>4. QED  BY <1>1, <1>2, <1>3 DEF SettingsInv

\* Those facts about the state a step leaves alone.
LEMMA SettingsFacts ==
    ASSUME SettingsInv
    PROVE  /\ freemods \in BOOLEAN /\ choosing \in BOOLEAN /\ waiting \in [Player -> Awaited]
           /\ mods \subseteq Mod /\ slotMods \in [Slot -> SUBSET (Mod \ Speed)]
           /\ freemods => mods \subseteq Speed
           /\ teamType \in TeamType /\ slotTeam \in [Slot -> Team]
           /\ teamType = "teams" => \A s \in Occupied(slots) : slotTeam[s] # "neutral"
           /\ Occupied(slots) \subseteq Slot
BY DEF SettingsInv, SettingsTypeOK, FreemodsSplit, TeamsHaveColours, Occupied

LEMMA TeamStepKeeps ==
    ASSUME SettingsInv, CourteousInv', TypeOK', NEW p \in Player, TeamStep(p)
    PROVE  SettingsInv'
<1>1. UNCHANGED <<slots, freemods, mods, slotMods, choosing, waiting>>
    BY DEF TeamStep, MatchChangeTeam, mp_teams, vars, settings
<1>2. CASE MatchChangeTeam(p)
    <2>1. PICK s \in SlotsOf(p) :
              slotTeam' = [slotTeam EXCEPT ![s] = IF @ = "blue" THEN "red" ELSE "blue"]
        BY <1>2 DEF MatchChangeTeam
    <2>2. s \in Slot /\ slots[s].player # None
        BY TakenIsNotEmpty
    <2>3. teamType' = teamType
        BY <1>2 DEF MatchChangeTeam, settings
    <2>4. /\ slotTeam' \in [Slot -> Team]
          /\ \A t \in Slot : slotTeam'[t] = slotTeam[t] \/ (t = s /\ slotTeam'[t] # "neutral")
        BY <2>1, <2>2, SettingsFacts DEF Team
    <2>5. \A t \in Slot : slots[t].player = None => slotTeam'[t] = slotTeam[t]
        BY <2>2, <2>4
    <2>6. teamType' = "teams" => \A t \in Occupied(slots) : slotTeam'[t] # "neutral"
        BY <2>3, <2>4, SettingsFacts
    <2>7. QED  BY <1>1, <2>3, <2>4, <2>5, <2>6, SettingsFacts, SettingsKeep
<1>3. ASSUME NEW type \in TeamType, mp_teams(p, type)
      PROVE  SettingsInv'
    BY <1>1, <1>3, SetTeamTypeTurns, SettingsFacts, SettingsKeep DEF mp_teams
<1>4. QED  BY <1>2, <1>3 DEF TeamStep

LEMMA ChangeSettingsKeeps ==
    ASSUME SettingsInv, CourteousInv', TypeOK', NEW p \in Player,
           NEW fm \in BOOLEAN, NEW ch \in BOOLEAN, NEW type \in TeamType,
           MatchChangeSettings(p, fm, ch, type)
    PROVE  SettingsInv'
<1>1. \A s \in Slot : /\ slots'[s].player = slots[s].player
                      /\ s \in Occupied(slots') <=> s \in Occupied(slots)
    BY SameSeats DEF MatchChangeSettings, SettingsInv, CourteousInv, MatchInv
<1>2. Occupied(slots') = Occupied(slots)
    BY <1>1 DEF Occupied
<1>3. /\ freemods' = fm /\ mods' \subseteq Mod /\ slotMods' \in [Slot -> SUBSET (Mod \ Speed)]
      /\ freemods' => mods' \subseteq Speed
      /\ \A s \in Slot : slots[s].player = None => slotMods'[s] = slotMods[s]
    <2>1. CASE fm = freemods
        BY <2>1, SettingsFacts DEF MatchChangeSettings
    <2>2. CASE fm # freemods /\ fm
        BY <2>2, FreemodsOnTurns DEF MatchChangeSettings
    <2>3. CASE fm # freemods /\ ~fm
        BY <2>3, FreemodsOffTurns DEF MatchChangeSettings
    <2>4. QED  BY <2>1, <2>2, <2>3
<1>4. CASE choosing /\ ~ch
    <2>1. /\ waiting' = [waiting EXCEPT ![p] = type]
          /\ UNCHANGED <<choosing, teamType, slotTeam>>
        BY <1>4 DEF MatchChangeSettings
    <2>2. waiting' \in [Player -> Awaited]
        BY <2>1, SettingsFacts DEF Awaited
    <2>3. QED  BY <1>1, <1>2, <1>3, <2>1, <2>2, SettingsFacts, SettingsKeep
<1>5. CASE ~(choosing /\ ~ch)
    <2>1. choosing' = ch /\ ChangeTeamType(type) /\ waiting' = waiting
        BY <1>5 DEF MatchChangeSettings
    <2>2. QED
        BY <1>1, <1>2, <1>3, <2>1, TeamTypeChanges, SettingsFacts, SettingsKeep
<1>6. QED  BY <1>4, <1>5

\* Also when the map has been found: whatever happened meanwhile kept the
\* invariant, and the team type is applied to the slots as they are now.
LEMMA SettingsPacketKeeps ==
    ASSUME SettingsInv, CourteousInv', TypeOK', NEW p \in Player, SettingsPacket(p)
    PROVE  SettingsInv'
<1>1. CASE MatchChangeSettings_resumes(p)
    <2>1. /\ waiting[p] \in TeamType /\ ChangeTeamType(waiting[p]) /\ choosing' = FALSE
          /\ waiting' = [waiting EXCEPT ![p] = "nothing"]
          /\ UNCHANGED <<slots, freemods, mods, slotMods>>
        BY <1>1 DEF MatchChangeSettings_resumes, vars
    <2>2. waiting' \in [Player -> Awaited]
        BY <2>1, SettingsFacts DEF Awaited
    <2>3. QED  BY <2>1, <2>2, TeamTypeChanges, SettingsFacts, SettingsKeep
<1>2. CASE mp_map(p) \/ mp_map_resumes(p)
    <2>1. /\ waiting' \in [Player -> Awaited] /\ choosing' \in BOOLEAN
          /\ UNCHANGED <<slots, freemods, mods, slotMods, teamType, slotTeam>>
        BY <1>2, SettingsFacts
           DEF mp_map, mp_map_resumes, vars, slotData, settings, Awaited
    <2>2. QED  BY <2>1, SettingsFacts, SettingsKeep
<1>3. QED  BY <1>1, <1>2, ChangeSettingsKeeps DEF SettingsPacket

LEMMA SettingsStep ==
    SettingsInv /\ [SettingsNext]_msvars => SettingsInv'
<1> SUFFICES ASSUME SettingsInv, [SettingsNext]_msvars PROVE SettingsInv'
    OBVIOUS
<1>1. CourteousInv' /\ TypeOK'
    BY SeatsKeepInv
<1>2. CASE UNCHANGED msvars
    BY <1>1, <1>2, SettingsFacts, SettingsKeep DEF msvars, vars, slotData, settings
<1>3. ASSUME NEW p \in Player, NEW t \in Player, HostCommand(p, t) PROVE SettingsInv'
    BY <1>1, <1>3, SettingsFacts, SettingsKeep DEF HostCommand, slotData, settings
<1>4. QED
    BY <1>1, <1>2, <1>3, SeatPacketKeeps, ModsStepKeeps, TeamStepKeeps, SettingsPacketKeeps
       DEF SettingsNext

-----------------------------------------------------------------------------

\* Seats, mods and teams agree through every packet, command and await (cho.py:1413-1560).
THEOREM SettingsInvAlways == SettingsSpec => []SettingsInv
BY SettingsInitInv, SettingsStep, PTL DEF SettingsSpec

\* Types, those of the seats included.
THEOREM SettingsTypeAlways == SettingsSpec => []SettingsTypeOK
BY SettingsInvAlways, PTL DEF SettingsInv

\* Under freemods the match has none but speed-changing mods.
THEOREM FreemodsSplitAlways == SettingsSpec => []FreemodsSplit
BY SettingsInvAlways, PTL DEF SettingsInv

\* A free slot has no mods and no team left in it.
THEOREM EmptySlotsAreCleanAlways == SettingsSpec => []EmptySlotsAreClean
BY SettingsInvAlways, PTL DEF SettingsInv

\* In a team match every player is blue or red.
THEOREM TeamsHaveColoursAlways == SettingsSpec => []TeamsHaveColours
BY SettingsInvAlways, PTL DEF SettingsInv

-----------------------------------------------------------------------------
(* Freemods keep the mods of the players.                                   *)

\* FreemodsKeepMods' step, without the stuttering.
KeepsMods ==
    /\ ~freemods /\ freemods' => \A s \in Occupied(slots) : Effective(s)' = Effective(s)
    /\ freemods /\ ~freemods' => \A h \in HostSlot : mods' = Effective(h)

LEMMA SwitchKeepsMods ==
    ASSUME SettingsInv, freemods' \in BOOLEAN,
           \/ freemods' = freemods
           \/ freemods' /\ FreemodsOn
           \/ ~freemods' /\ (FreemodsOff \/ HostSlot = {})
    PROVE  KeepsMods
<1>1. ASSUME ~freemods, freemods', NEW s \in Occupied(slots)
      PROVE  Effective(s)' = Effective(s)
    <2>1. slotMods'[s] = mods \ Speed /\ mods' = mods \cap Speed
        BY <1>1, SettingsFacts DEF FreemodsOn
    <2>2. QED  BY <1>1, <2>1 DEF Effective
<1>2. ASSUME freemods, ~freemods', NEW h \in HostSlot
      PROVE  mods' = Effective(h)
    <2>1. PICK g \in HostSlot : mods' = (mods \cap Speed) \cup slotMods[g]
        BY <1>2 DEF FreemodsOff
    <2>2. g = h
        <3>1. /\ g \in Slot /\ h \in Slot
              /\ slots[g].player = host /\ slots[h].player = host
            BY <1>2, <2>1 DEF HostSlot, SlotsOf
        <3>2. host # None
            BY <3>1, <1>2
               DEF HostSlot, SettingsInv, CourteousInv, MatchInv, StatusHasPlayer
        <3>3. QED
            BY <3>1, <3>2 DEF SettingsInv, CourteousInv, MatchInv, OneSeat
    <2>3. mods \cap Speed = mods
        BY <1>2 DEF SettingsInv, FreemodsSplit
    <2>4. QED  BY <1>2, <2>1, <2>2, <2>3 DEF Effective
<1>3. QED  BY <1>1, <1>2 DEF KeepsMods

LEMMA SettingsStepKeepsMods ==
    ASSUME SettingsInv, [SettingsNext]_msvars,
           ~(\E p \in Player, ms \in SUBSET Mod : mp_pick(p, ms))
    PROVE  KeepsMods
<1>1. freemods \in BOOLEAN
    BY SettingsFacts
<1>2. CASE UNCHANGED msvars
    BY <1>1, <1>2, SwitchKeepsMods DEF msvars, settings
<1>3. ASSUME NEW p \in Player, SeatPacket(p) \/ TeamStep(p) PROVE KeepsMods
    BY <1>1, <1>3, SwitchKeepsMods
       DEF SeatPacket, TeamStep, MatchChangeTeam, mp_teams, settings
<1>4. ASSUME NEW p \in Player, NEW t \in Player, HostCommand(p, t) PROVE KeepsMods
    BY <1>1, <1>4, SwitchKeepsMods DEF HostCommand, settings
<1>5. ASSUME NEW p \in Player, ModsStep(p) PROVE KeepsMods
    <2>1. CASE \E ms \in SUBSET Mod : MatchChangeMods(p, ms) \/ mp_mods(p, ms)
        BY <1>1, <2>1, SwitchKeepsMods DEF MatchChangeMods, mp_mods
    <2>2. ASSUME NEW on \in BOOLEAN, mp_freemods(p, on) PROVE KeepsMods
        <3>1. freemods' = on /\ (on => FreemodsOn) /\ (~on => FreemodsOff)
            BY <2>2 DEF mp_freemods
        <3>2. QED  BY <3>1, SwitchKeepsMods
    <2>3. CASE mp_freemods_raises(p)
        <3>1. freemods' = FALSE /\ HostSlot = {}
            BY <2>3 DEF mp_freemods_raises
        <3>2. QED  BY <3>1, SwitchKeepsMods
    <2>4. QED  BY <1>5, <2>1, <2>2, <2>3 DEF ModsStep
<1>6. ASSUME NEW p \in Player, SettingsPacket(p) PROVE KeepsMods
    <2>1. ASSUME NEW fm \in BOOLEAN, NEW ch \in BOOLEAN, NEW type \in TeamType,
                 MatchChangeSettings(p, fm, ch, type)
          PROVE  KeepsMods
        <3>1. /\ freemods' = fm
              /\ fm # freemods => (fm => FreemodsOn) /\ (~fm => FreemodsOff)
            BY <2>1 DEF MatchChangeSettings
        <3>2. QED  BY <3>1, SwitchKeepsMods
    <2>2. CASE MatchChangeSettings_resumes(p) \/ mp_map(p) \/ mp_map_resumes(p)
        <3>1. freemods' = freemods
            BY <2>2 DEF MatchChangeSettings_resumes, mp_map, mp_map_resumes, settings
        <3>2. QED  BY <1>1, <3>1, SwitchKeepsMods
    <2>3. QED  BY <1>6, <2>1, <2>2 DEF SettingsPacket
<1>7. QED  BY <1>2, <1>3, <1>4, <1>5, <1>6 DEF SettingsNext

\* Switching freemods on changes nobody's mods; switching them off leaves the
\* match with those the host played with.
THEOREM FreemodsKeepModsAlways == SettingsSpec => FreemodsKeepMods
<1>1. SettingsInv /\ [SettingsNext]_msvars =>
          [~(\E p \in Player, ms \in SUBSET Mod : mp_pick(p, ms)) => KeepsMods]_msvars
    BY SettingsStepKeepsMods
<1>2. SettingsInv /\ [SettingsNext]_msvars =>
          [~(\E p \in Player, ms \in SUBSET Mod : mp_pick(p, ms)) =>
             /\ ~freemods /\ freemods' =>
                    \A s \in Occupied(slots) : Effective(s)' = Effective(s)
             /\ freemods /\ ~freemods' => \A h \in HostSlot : mods' = Effective(h)]_msvars
    BY <1>1 DEF KeepsMods
<1>3. QED
    BY <1>2, SettingsInvAlways, PTL DEF SettingsSpec, FreemodsKeepMods

-----------------------------------------------------------------------------
(* Referees.                                                                *)

RefereeInv ==
    /\ RefereeTypeOK
    /\ CourteousInv
    /\ RefsInMatch
    /\ ClosedHasNoTimer
    /\ stage = "none" => refs = {}

\* Everybody keeps the seat, and the host stays.
SeatsKept == UNCHANGED <<stage, host, members, session>> /\ \A s \in Slot : slots'[s].player = slots[s].player

-----------------------------------------------------------------------------
(* The seats.                                                               *)

\* In a match somebody is in, the host sends packets and is in it.
LEMMA HostIsThere ==
    ASSUME CourteousInv, members # {}
    PROVE  stage = "open" /\ IsHost(host) /\ host \in Player
<1>1. stage = "open" /\ host \in members /\ host \in Player
    BY MemberSeesHost DEF CourteousInv, MatchInv, TypeOK
<1>2. session[host] = "online"
    BY <1>1 DEF CourteousInv, MatchInv, NoZombie, MembersHaveSession, TypeOK, SessionState
<1>3. QED  BY <1>1, <1>2 DEF IsHost, InMatch

LEMMA SeatedIsMember ==
    ASSUME CourteousInv, NEW p \in Player, SlotsOf(p) # {}
    PROVE  p \in members
BY NoneAssumption DEF SlotsOf, CourteousInv, MatchInv, SeatedAreMembers

\* Whatever starts a round does what the host's packet does.
LEMMA StartIsCourteous ==
    ASSUME CourteousInv, members # {}, Courteous, StartNow
    PROVE  CourteousNext
<1>1. MatchStart(host) /\ host \in Player
    BY HostIsThere DEF StartNow, MatchStart
<1>2. QED  BY <1>1 DEF CourteousNext, Next, PlayerStep, SeatStep, HostStep, Courteous

\* Statuses change, players stay: !mp abort, lock and unlock.
LEMMA StatusesKeep ==
    ASSUME CourteousInv, Courteous, NEW from \in {"playing", "open", "locked"},
           NEW to \in {"not_ready", "locked", "open"}, from = "playing" <=> to = "not_ready",
           slots' = [s \in Slot |-> IF slots[s].status = from THEN SetStatus(slots[s], to) ELSE slots[s]],
           UNCHANGED <<stage, host, members, session>>,
           inProgress' = inProgress \/ (from = "playing" /\ inProgress' = FALSE)
    PROVE  CourteousInv' /\ SeatsKept
<1>1. TypeOK /\ MatchInv
    BY DEF CourteousInv, MatchInv
<1>2. to \in Status
    BY DEF Status
<1>3. \A s \in Slot : /\ slots[s] \in SlotRecord
                      /\ SetStatus(slots[s], to) \in SlotRecord
                      /\ SetStatus(slots[s], to).player = slots[s].player
                      /\ SetStatus(slots[s], to).status = to
    BY <1>1, <1>2, SetStatusSlot DEF TypeOK
<1>4. TypeOK'
    BY <1>1, <1>3 DEF TypeOK
<1>5. \A s \in Slot : /\ slots'[s].player = slots[s].player
                      /\ slots'[s].status = IF slots[s].status = from THEN to ELSE slots[s].status
    BY <1>3
<1>6. PlayingInProgress'
    BY <1>1, <1>5 DEF MatchInv, PlayingInProgress, AnyPlaying
<1>7. MatchInv'
    <2>1. \A s \in Slot : slots'[s].status \in has_player => slots[s].status \in has_player \/ slots[s].player # None
        BY <1>5 DEF has_player
    <2>2. QED  BY <1>1, <1>4, <1>5, <1>6, <2>1, SamePlayers
<1>8. OpenIsEmpty'
    <2>1. ASSUME NEW s \in Slot, slots'[s].status = "open", slots[s].player # None  PROVE FALSE
        <3>1. slots[s].status = "locked" /\ to = "open" /\ from = "locked"
            BY <1>5, <2>1 DEF CourteousInv, OpenIsEmpty
        <3>2. slots'[s] = SetStatus(slots[s], "open")
            BY <3>1
        <3>3. QED  BY <2>1, <3>1, <3>2 DEF Courteous, NoKickedSlotReopens, Kicked
    <2>2. QED  BY <1>5, <2>1 DEF OpenIsEmpty
<1>9. NoZombie'
    BY DEF CourteousInv, NoZombie
<1>10. SeatsKept
    BY <1>5 DEF SeatsKept
<1>11. QED  BY <1>5, <1>7, <1>8, <1>9, <1>10, KeepsSeats

\* Every command is a packet of the match, or keeps the seats.
LEMMA CommandSeats ==
    ASSUME RefereeInv, NEW p \in Player, Command(p), Courteous
    PROVE  CourteousInv' /\ TypeOK' /\ ([CourteousNext]_vars \/ SeatsKept)
<1>1. CourteousInv /\ TypeOK /\ p \in members
    BY DEF RefereeInv, CourteousInv, MatchInv, Command, NotAReferee, StartCommand, RefCommand, mp_start,
           mp_start_force, mp_start_in, mp_start_cancel, mp_abort, mp_lock, mp_unlock, mp_SetAll,
           mp_host, mp_addref, mp_rmref, mp_force, Referee, InMatch
<1>2. [CourteousNext]_vars => CourteousInv' /\ TypeOK'
    BY <1>1, CourteousStep DEF CourteousInv, MatchInv
<1>3. CASE NotAReferee(p)
    BY <1>2, <1>3 DEF NotAReferee, vars
<1>4. CASE StartCommand(p)
    BY <1>1, <1>2, <1>4, StartIsCourteous
       DEF StartCommand, mp_start, mp_start_force, mp_start_in, mp_start_cancel, vars
<1>5. CASE mp_abort(p)
    BY <1>1, <1>5, StatusesKeep DEF mp_abort, Unready, CourteousInv, MatchInv
<1>6. CASE mp_lock(p) \/ mp_unlock(p)
    <2>1. CASE mp_SetAll(p, "open", "locked")
        BY <1>1, <2>1, StatusesKeep DEF mp_SetAll, CourteousInv, MatchInv
    <2>2. CASE mp_SetAll(p, "locked", "open")
        BY <1>1, <2>2, StatusesKeep DEF mp_SetAll, CourteousInv, MatchInv
    <2>3. QED  BY <1>6, <2>1, <2>2 DEF mp_lock, mp_unlock
<1>7. ASSUME NEW t \in Player, RefCommand(p, t)
      PROVE  [CourteousNext]_vars
    <2>1. CASE mp_host(p, t)
        <3>1. PICK s \in Slot : slots[s].player = t
            BY <2>1 DEF mp_host, SlotsOf
        <3>2. MatchTransferHost(host, s) /\ host \in Player
            BY <1>1, <2>1, <3>1, HostIsThere, NoneAssumption DEF mp_host, MatchTransferHost
        <3>3. QED  BY <3>2 DEF CourteousNext, Next, PlayerStep, SeatStep, HostStep, Courteous
    <2>2. CASE mp_addref(p, t) \/ mp_rmref(p, t)
        BY <2>2 DEF mp_addref, mp_rmref, vars
    <2>3. CASE mp_force(p, t)
        <3>1. MatchJoin(t)
            BY <1>1, <2>3, HostIsThere DEF mp_force, MatchJoin
        <3>2. QED  BY <3>1 DEF CourteousNext, Next, PlayerStep, SeatStep, Courteous
    <2>4. QED  BY <1>7, <2>1, <2>2, <2>3 DEF RefCommand
<1>8. QED  BY <1>2, <1>3, <1>4, <1>5, <1>6, <1>7 DEF Command

-----------------------------------------------------------------------------
(* The referees and the timer.                                              *)

\* A packet keeps who is in the match and the match, or lets its sender in, or
\* out: the last one closes it.
LEMMA ClientMoves ==
    ASSUME CourteousInv, NEW p \in Player, SeatStep(p)
    PROVE  \/ UNCHANGED <<stage, members>>
           \/ stage = "none" /\ stage' = "open"
           \/ stage = "open" /\ stage' = "open" /\ members \subseteq members'
           \/ stage = "open" /\ Left(p) /\ members' = members \ {p} /\ stage' = IF AllEmpty(slots') THEN "closed" ELSE stage
<1>1. CASE MatchCreate(p) \/ MatchJoin(p)
    BY <1>1 DEF MatchCreate, MatchJoin, join_match
<1>2. ASSUME p \in members, LeaveCompletely(p, slots')
      PROVE  stage = "open" /\ Left(p) /\ members' = members \ {p} /\ stage' = IF AllEmpty(slots') THEN "closed" ELSE stage
    BY <1>2, HostIsThere DEF LeaveCompletely, Left
<1>3. CASE MatchPart(p) \/ SessionStep(p)
    BY <1>2, <1>3 DEF MatchPart, InMatch, SessionStep, Login, Logout, LogoutRaises, LeaveRaises
<1>4. CASE OwnSlotStep(p) \/ HostStep(p) \/ MatchComplete(p)
    BY <1>4 DEF OwnSlotStep, MatchReady, MatchNotReady, MatchNoBeatmap, MatchHasBeatmap, SetOwnStatus,
                MatchChangeSlot, HostStep, MatchLock, MatchTransferHost, MatchChangeMap, MatchStart,
                MatchComplete
<1>5. QED  BY <1>1, <1>3, <1>4 DEF SeatStep

LEMMA ClientKeeps ==
    ASSUME RefereeInv, NEW p \in Player, ClientStep(p), Courteous
    PROVE  RefereeInv'
<1>1. CourteousInv /\ CourteousNext
    BY DEF RefereeInv, ClientStep, CourteousNext, Next, PlayerStep, Courteous
<1>2. CourteousInv' /\ TypeOK'
    BY <1>1, CourteousStep DEF CourteousInv, MatchInv
<1>3. RefereeTypeOK'
    BY <1>2 DEF RefereeInv, RefereeTypeOK, ClientStep
<1>4. CASE UNCHANGED <<stage, members>>
    <2>1. UNCHANGED <<refs, timer>>
        BY <1>4 DEF ClientStep, Left
    <2>2. QED  BY <1>2, <1>3, <1>4, <2>1 DEF RefereeInv, RefsInMatch, ClosedHasNoTimer
<1>5. CASE stage' = "open" /\ (stage = "none" \/ (stage = "open" /\ members \subseteq members'))
    <2>1. refs' \subseteq refs /\ refs \subseteq members'
        BY <1>5 DEF RefereeInv, RefsInMatch, ClientStep
    <2>2. QED  BY <1>2, <1>3, <1>5, <2>1 DEF RefereeInv, RefsInMatch, ClosedHasNoTimer
<1>6. CASE stage = "open" /\ Left(p) /\ members' = members \ {p} /\ stage' = IF AllEmpty(slots') THEN "closed" ELSE stage
    BY <1>2, <1>3, <1>6 DEF RefereeInv, RefsInMatch, ClosedHasNoTimer, ClientStep
<1>7. SeatStep(p)
    BY DEF ClientStep
<1>8. QED  BY <1>1, <1>4, <1>5, <1>6, <1>7, ClientMoves

\* Reading refs makes the host a referee, who is in the match.
LEMMA CommandKeeps ==
    ASSUME RefereeInv, NEW p \in Player, Command(p), Courteous
    PROVE  RefereeInv'
<1>1. CourteousInv /\ TypeOK /\ p \in members
    BY DEF RefereeInv, CourteousInv, MatchInv, Command, NotAReferee, StartCommand, RefCommand, mp_start,
           mp_start_force, mp_start_in, mp_start_cancel, mp_abort, mp_lock, mp_unlock, mp_SetAll,
           mp_host, mp_addref, mp_rmref, mp_force, Referee, InMatch
<1>2. stage = "open" /\ RefsRead \subseteq members /\ RefsRead \subseteq Player
    BY <1>1, HostIsThere DEF RefereeInv, RefsInMatch, RefereeTypeOK, RefsRead, IsHost, InMatch
<1>3. stage' = "open" /\ members \subseteq members' /\ timer' \in Player \cup {None}
    BY <1>1, <1>2
       DEF RefereeInv, RefereeTypeOK, Command, NotAReferee, StartCommand, RefCommand, mp_start,
           mp_start_force, mp_start_in, mp_start_cancel, mp_abort, mp_lock, mp_unlock, mp_SetAll,
           mp_host, mp_addref, mp_rmref, mp_force, StartNow, join_match, vars
<1>4. refs' \subseteq members /\ refs' \subseteq Player
    <2>1. ASSUME NEW t \in Player, mp_addref(p, t)  PROVE refs' \subseteq members
        BY <1>1, <1>2, <2>1, SeatedIsMember DEF mp_addref
    <2>2. ASSUME NEW t \in Player, mp_host(p, t) \/ mp_rmref(p, t) \/ mp_force(p, t)  PROVE refs' \subseteq RefsRead
        BY <2>2 DEF mp_host, mp_rmref, mp_force
    <2>3. CASE NotAReferee(p) \/ StartCommand(p) \/ mp_abort(p) \/ mp_lock(p) \/ mp_unlock(p)
        BY <1>2, <2>3 DEF NotAReferee, StartCommand, mp_start, mp_start_force, mp_start_in, mp_start_cancel,
                          mp_abort, mp_lock, mp_unlock, mp_SetAll
    <2>4. refs' \subseteq members
        BY <1>2, <2>1, <2>2, <2>3 DEF Command, RefCommand
    <2>5. QED  BY <1>1, <2>4 DEF TypeOK
<1>5. QED
    BY <1>3, <1>4, CommandSeats DEF RefereeInv, RefereeTypeOK, RefsInMatch, ClosedHasNoTimer

LEMMA TimerKeeps ==
    ASSUME RefereeInv, TimerFires, Courteous
    PROVE  RefereeInv'
<1>1. CASE SlotsOf(timer) # {}
    <2>1. timer \in members /\ CourteousInv
        BY <1>1, SeatedIsMember DEF TimerFires, RefereeInv, RefereeTypeOK
    <2>2. CourteousInv' /\ TypeOK'
        BY <1>1, <2>1, StartIsCourteous, CourteousStep DEF TimerFires, CourteousInv, MatchInv
    <2>3. QED
        BY <1>1, <2>2 DEF TimerFires, StartNow, RefereeInv, RefereeTypeOK, RefsInMatch, ClosedHasNoTimer
<1>2. CASE SlotsOf(timer) = {}
    <2>1. CourteousInv' /\ TypeOK'
        BY <1>2, CourteousStep DEF TimerFires, RefereeInv, CourteousInv, MatchInv, vars
    <2>2. QED
        BY <1>2, <2>1 DEF TimerFires, vars, RefereeInv, RefereeTypeOK, RefsInMatch, ClosedHasNoTimer
<1>3. QED  BY <1>1, <1>2

\* The invariant of everything below: with courteous clients, commands keep the
\* seats in order as packets do (match.py, commands.py:1596-2285).
THEOREM RefereeInvariant == CourteousRefereeSpec => []RefereeInv
<1>1. RefereeInit => RefereeInv
    BY InitType, CourteousInit
       DEF RefereeInit, RefereeInv, RefereeTypeOK, RefsInMatch, ClosedHasNoTimer, Init
<1>2. RefereeInv /\ [RefereeNext /\ Courteous]_refereeVars => RefereeInv'
    <2>1. CASE UNCHANGED refereeVars /\ RefereeInv
        <3>1. CourteousInv' /\ TypeOK'
            BY <2>1, CourteousStep DEF refereeVars, vars, RefereeInv, CourteousInv, MatchInv
        <3>2. QED
            BY <2>1, <3>1 DEF refereeVars, vars, RefereeInv, RefereeTypeOK, RefsInMatch, ClosedHasNoTimer
    <2>2. QED  BY <2>1, ClientKeeps, CommandKeeps, TimerKeeps DEF RefereeNext
<1>3. QED  BY <1>1, <1>2, PTL DEF CourteousRefereeSpec

\* A step of a match with referees is one of a match without, or keeps the seats.
LEMMA RefereeStep ==
    ASSUME RefereeInv, [RefereeNext /\ Courteous]_refereeVars
    PROVE  [CourteousNext]_vars \/ SeatsKept
<1>1. CASE UNCHANGED refereeVars
    BY <1>1 DEF refereeVars
<1>2. ASSUME NEW p \in Player, ClientStep(p), Courteous
      PROVE  CourteousNext
    BY <1>2 DEF ClientStep, CourteousNext, Next, PlayerStep, Courteous
<1>3. ASSUME TimerFires, Courteous
      PROVE  [CourteousNext]_vars
    <2>1. CASE SlotsOf(timer) # {}
        <3>1. timer \in members /\ CourteousInv
            BY <1>3, <2>1, SeatedIsMember DEF TimerFires, RefereeInv, RefereeTypeOK
        <3>2. QED  BY <1>3, <2>1, <3>1, StartIsCourteous DEF TimerFires
    <2>2. QED  BY <1>3, <2>1 DEF TimerFires
<1>4. QED  BY <1>1, <1>2, <1>3, CommandSeats DEF RefereeNext

\* Nobody plays in a match whose round nobody can end: a round of the packets, of
\* a command or of the timer is in progress until it is over (commands.py:1729).
THEOREM PlayingInProgressRefereed == CourteousRefereeSpec => []PlayingInProgress
<1>1. RefereeInv => PlayingInProgress
    BY DEF RefereeInv, CourteousInv, MatchInv
<1>2. QED  BY <1>1, RefereeInvariant, PTL

\* With referees, the timer and forced joins, too, an occupied slot is never
\* taken over (player.py:680, cho.py:1335).
THEOREM NoEvictionRefereed == CourteousRefereeSpec => NoEviction
<1>1. RefereeInv /\ [RefereeNext /\ Courteous]_refereeVars =>
        [\A s \in Slot : slots[s].player # None => slots'[s].player \in {slots[s].player, None}]_vars
    <2>1. SUFFICES ASSUME RefereeInv, [RefereeNext /\ Courteous]_refereeVars
                   PROVE  \A s \in Slot : slots[s].player # None => slots'[s].player \in {slots[s].player, None}
        OBVIOUS
    <2>2. CASE [CourteousNext]_vars
        BY <2>1, <2>2, CourteousStep DEF RefereeInv, Evicts
    <2>3. CASE SeatsKept
        BY <2>3 DEF SeatsKept
    <2>4. QED  BY <2>1, <2>2, <2>3, RefereeStep
<1>2. QED  BY <1>1, RefereeInvariant, PTL DEF CourteousRefereeSpec, NoEviction

\* A match with referees keeps the promises of Seating: every command is a step
\* of it, or one that moves nobody (commands.py:1596-2285).
THEOREM RefereesImplementSeating == CourteousRefereeSpec => SeatingSpec
<1>1. RefereeInit => Seats!Init
    BY SeatingInit DEF RefereeInit
<1>2. RefereeInv /\ RefereeInv' /\ [RefereeNext /\ Courteous]_refereeVars =>
        [Seats!Next]_<<seatOf, hostOf>>
    <2>1. SUFFICES ASSUME RefereeInv, RefereeInv',
                          [RefereeNext /\ Courteous]_refereeVars
                   PROVE  [Seats!Next]_<<seatOf, hostOf>>
        OBVIOUS
    <2>2. CASE [CourteousNext]_vars
        BY <2>1, <2>2, SeatingStep DEF RefereeInv
    <2>3. CASE SeatsKept
        BY <2>1, <2>3, SeatsStay DEF SeatsKept, RefereeInv, CourteousInv, MatchInv
    <2>4. QED  BY <2>1, <2>2, <2>3, RefereeStep
<1>3. QED  BY <1>1, <1>2, RefereeInvariant, PTL DEF CourteousRefereeSpec, SeatingSpec, Seats!Spec

\* The referees of an open match are players in it (commands.py:1890).
THEOREM RefsInMatchAlways == CourteousRefereeSpec => []RefsInMatch
<1>1. RefereeInv => RefsInMatch
    BY DEF RefereeInv
<1>2. QED  BY <1>1, RefereeInvariant, PTL

\* A match that has closed never starts (player.py:758).
THEOREM ClosedHasNoTimerAlways == CourteousRefereeSpec => []ClosedHasNoTimer
<1>1. RefereeInv => ClosedHasNoTimer
    BY DEF RefereeInv
<1>2. QED  BY <1>1, RefereeInvariant, PTL

=============================================================================
