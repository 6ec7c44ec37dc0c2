--------------------------- MODULE MatchSettings ---------------------------
(***************************************************************************)
(* The settings of a match: mods, freemods, team type, and whether the     *)
(* host is choosing a map.  Under freemods the match keeps the mods that   *)
(* change speed and every slot has mods of its own.                        *)
(*                                                                         *)
(* MATCH_CHANGE_SETTINGS and !mp map look the map up in the middle of the  *)
(* handler, which may await the database or the osu! api: what they do     *)
(* afterwards is a step of its own, with whatever happened in between.     *)
(*                                                                         *)
(* The seats are Match's, under the assumptions of MatchCourteous and one  *)
(* more: a client that is being kicked sends nothing but PART_MATCH.  Any  *)
(* player in the match may be a referee.  Packets that only change one     *)
(* has_player status to another are left out, but for MATCH_READY.         *)
(***************************************************************************)
EXTENDS MatchCourteous

CONSTANTS
    Mod,       \* mods
    Speed      \* SPEED_CHANGING_MODS

ASSUME ModAssumption == Speed \subseteq Mod

VARIABLES
    freemods,
    mods,        \* m.mods
    slotMods,    \* slot.mods
    teamType,    \* "ffa": head-to-head or tag co-op, "teams": the other two
    slotTeam,    \* slot.team
    choosing,    \* m.map_id = -1
    waiting      \* what p's handler will do when it has the map, or "nothing"

slotData == <<slotMods, slotTeam>>
settings == <<freemods, mods, teamType, choosing>>
msvars   == <<vars, slotData, settings, waiting>>

Team     == {"neutral", "blue", "red"}
TeamType == {"ffa", "teams"}

\* "map": !mp map.  A team type: MATCH_CHANGE_SETTINGS with that team type.
Awaited == {"nothing", "map"} \cup TeamType

SettingsTypeOK ==
    /\ TypeOK
    /\ freemods \in BOOLEAN
    /\ mods \subseteq Mod
    /\ slotMods \in [Slot -> SUBSET (Mod \ Speed)]
    /\ teamType \in TeamType
    /\ slotTeam \in [Slot -> Team]
    /\ choosing \in BOOLEAN
    /\ waiting \in [Player -> Awaited]

-----------------------------------------------------------------------------
(* The seats.  A slot keeps its mods and team while its player stays, and    *)
(* when its status changes.                                                  *)

Vacated(s) == slots[s].player # None /\ slots'[s].player = None
Arrived(s) == slots'[s].player \notin {slots[s].player, None}
OldSlots(s) == SlotsOf(slots'[s].player)

DefaultTeam(type) == IF type = "teams" THEN "red" ELSE "neutral"

\* Slot.reset clears both, copy_from takes both along; join_match leaves the
\* mods alone, and the team too unless the match is a team one.
MovedMods(s) == slotMods[CHOOSE t \in Slot : t \in OldSlots(s)]
MovedTeam(s) == slotTeam[CHOOSE t \in Slot : t \in OldSlots(s)]

CarryTeams ==
    slotTeam' = [s \in Slot |->
        IF Vacated(s) THEN "neutral"
        ELSE IF ~Arrived(s) THEN slotTeam[s]
        ELSE IF OldSlots(s) # {} THEN MovedTeam(s)
        ELSE IF teamType' = "teams" THEN "red"
        ELSE slotTeam[s]]

\* Mutant: reset forgets the mods.
CarryMods_NoReset ==
    slotMods' = [s \in Slot |->
        IF Arrived(s) /\ OldSlots(s) # {} THEN MovedMods(s) ELSE slotMods[s]]
CarryMods ==
    slotMods' = [s \in Slot |->
        IF Vacated(s) THEN {}
        ELSE IF Arrived(s) /\ OldSlots(s) # {} THEN MovedMods(s)
        ELSE slotMods[s]]

BeingKicked(p) == \E s \in SlotsOf(p) : Kicked(s)

\* A client creates a match without mods, freemods and teams of its own; it
\* may choose the team type.
SeatPacket(p) ==
    /\ \/ /\ MatchCreate(p)
          /\ teamType' \in TeamType
       \/ /\ \/ MatchJoin(p) \/ MatchPart(p) \/ SessionStep(p)
             \/ /\ ~BeingKicked(p)
                /\ \/ MatchReady(p)
                   \/ \E t \in Slot : \/ MatchChangeSlot(p, t)
                                      \/ MatchLock(p, t)
                                      \/ MatchTransferHost(p, t)
          /\ UNCHANGED teamType
    /\ Courteous
    /\ CarryMods /\ CarryTeams
    /\ UNCHANGED <<freemods, mods, choosing, waiting>>

\* ensure_match; anyone in the match may be a referee.
MayCommand(p) == InMatch(p) /\ HostOnline /\ ~BeingKicked(p)

\* !mp host: the host changes behind the host's back.
HostCommand(p, t) ==
    /\ MayCommand(p)
    /\ t # host /\ SlotsOf(t) # {}
    /\ host' = t
    /\ UNCHANGED <<stage, slots, inProgress, members, session, slotData, settings, waiting>>

-----------------------------------------------------------------------------
(* Mods.                                                                    *)

\* The mods of a player's own choice under freemods; the host's may change
\* the speed.  Mutant: the host's mods are not masked.
OwnMods_HostAny(p, ms) ==
    /\ mods' = IF p = host THEN ms ELSE mods
    /\ \E s \in SlotsOf(p) : slotMods' = [slotMods EXCEPT ![s] = ms \ Speed]
OwnMods(p, ms) ==
    /\ mods' = IF p = host THEN ms \cap Speed ELSE mods
    /\ \E s \in SlotsOf(p) : slotMods' = [slotMods EXCEPT ![s] = ms \ Speed]

MatchMods(ms) == mods' = ms /\ UNCHANGED slotMods

MatchChangeMods(p, ms) ==
    /\ InMatch(p) /\ ~BeingKicked(p)
    /\ \/ freemods /\ OwnMods(p, ms)
       \/ ~freemods /\ p = host /\ MatchMods(ms)
    /\ UNCHANGED <<vars, freemods, teamType, slotTeam, choosing, waiting>>

mp_mods(p, ms) ==
    /\ MayCommand(p)
    /\ \/ freemods /\ OwnMods(p, ms)
       \/ ~freemods /\ MatchMods(ms)
    /\ UNCHANGED <<vars, freemods, teamType, slotTeam, choosing, waiting>>

NoSlotMods == slotMods' = [s \in Slot |-> IF s \in Occupied(slots) THEN {} ELSE slotMods[s]]

\* Match mods -> slot mods, and back: the host's.
FreemodsOn ==
    /\ slotMods' = [s \in Slot |->
                       IF s \in Occupied(slots) THEN mods \ Speed ELSE slotMods[s]]
    /\ mods' = mods \cap Speed

\* Match.get_host_slot finds none when the host is being kicked.
HostSlot == SlotsOf(host) \cap Occupied(slots)

\* Mutant: the host's mods are lost.
FreemodsOff_NoHostMods == HostSlot # {} /\ mods' = mods \cap Speed /\ NoSlotMods
FreemodsOff == \E h \in HostSlot : mods' = (mods \cap Speed) \cup slotMods[h] /\ NoSlotMods

\* Unlike the packet the command acts, too, when nothing changes.
mp_freemods(p, on) ==
    /\ MayCommand(p)
    /\ freemods' = on
    /\ IF on THEN FreemodsOn ELSE FreemodsOff
    /\ UNCHANGED <<vars, teamType, slotTeam, choosing, waiting>>

\* `host.mods` raises, after the match has lost its mods.
mp_freemods_raises(p) ==
    /\ MayCommand(p)
    /\ HostSlot = {}
    /\ freemods' = FALSE
    /\ mods' = mods \cap Speed
    /\ UNCHANGED <<vars, slotData, teamType, choosing, waiting>>

\* The pool's mods; a banned pick is refused.
mp_pick(p, ms) ==
    /\ MayCommand(p)
    /\ freemods' = FALSE
    /\ mods' = ms
    /\ IF freemods THEN NoSlotMods ELSE UNCHANGED slotMods
    /\ choosing' = FALSE
    /\ UNCHANGED <<vars, teamType, slotTeam, waiting>>

-----------------------------------------------------------------------------
(* Teams.                                                                   *)

\* Mutant: the players keep the team they have.
SetTeamType_Only(type) == teamType' = type /\ UNCHANGED slotTeam
SetTeamType(type) ==
    /\ teamType' = type
    /\ slotTeam' = [s \in Slot |->
                       IF s \in Occupied(slots) THEN DefaultTeam(type) ELSE slotTeam[s]]

mp_teams(p, type) ==
    /\ MayCommand(p)
    /\ SetTeamType(type)
    /\ UNCHANGED <<vars, freemods, mods, slotMods, choosing, waiting>>

MatchChangeTeam(p) ==
    /\ InMatch(p) /\ ~BeingKicked(p)
    /\ \E s \in SlotsOf(p) :
          slotTeam' = [slotTeam EXCEPT ![s] = IF @ = "blue" THEN "red" ELSE "blue"]
    /\ UNCHANGED <<vars, slotMods, settings, waiting>>

\* What MATCH_CHANGE_SETTINGS does of a team type: nothing during a scrim.
ChangeTeamType(type) ==
    \/ UNCHANGED <<teamType, slotTeam>>
    \/ type # teamType /\ SetTeamType(type)

-----------------------------------------------------------------------------
(* The settings packet and the map.                                         *)

\* fm and type are those of the packet; ch says that the host goes choosing a
\* map, its map_id is -1.  A host being kicked sends none, so the host slot
\* is found.
MatchChangeSettings(p, fm, ch, type) ==
    /\ IsHost(p) /\ ~BeingKicked(p) /\ waiting[p] = "nothing"
    /\ freemods' = fm
    /\ IF fm = freemods THEN UNCHANGED <<mods, slotMods>>
       ELSE IF fm THEN FreemodsOn ELSE FreemodsOff
    /\ slots' = IF ch THEN Unready("ready", slots) ELSE slots
    /\ IF choosing /\ ~ch
          THEN /\ waiting' = [waiting EXCEPT ![p] = type]
               /\ UNCHANGED <<choosing, teamType, slotTeam>>
          ELSE /\ choosing' = ch
               /\ ChangeTeamType(type)
               /\ UNCHANGED waiting
    /\ UNCHANGED <<stage, host, inProgress, members, session>>

\* Whether p is still the host, or in the match, is not looked at again.
MatchChangeSettings_resumes(p) ==
    /\ waiting[p] \in TeamType
    /\ waiting' = [waiting EXCEPT ![p] = "nothing"]
    /\ choosing' = FALSE
    /\ ChangeTeamType(waiting[p])
    /\ UNCHANGED <<vars, freemods, mods, slotMods>>

mp_map(p) ==
    /\ MayCommand(p) /\ waiting[p] = "nothing"
    /\ waiting' = [waiting EXCEPT ![p] = "map"]
    /\ UNCHANGED <<vars, slotData, settings>>

\* The map was found, or not.
mp_map_resumes(p) ==
    /\ waiting[p] = "map"
    /\ waiting' = [waiting EXCEPT ![p] = "nothing"]
    /\ choosing' \in {FALSE, choosing}
    /\ UNCHANGED <<vars, slotData, freemods, mods, teamType>>

-----------------------------------------------------------------------------

SettingsInit ==
    /\ Init
    /\ freemods = FALSE
    /\ mods = {}
    /\ slotMods = [s \in Slot |-> {}]
    /\ teamType = "ffa"
    /\ slotTeam = [s \in Slot |-> "neutral"]
    /\ choosing = FALSE
    /\ waiting = [p \in Player |-> "nothing"]

ModsStep(p) ==
    \/ \E ms \in SUBSET Mod : MatchChangeMods(p, ms) \/ mp_mods(p, ms) \/ mp_pick(p, ms)
    \/ \E on \in BOOLEAN : mp_freemods(p, on)
    \/ mp_freemods_raises(p)

TeamStep(p) == MatchChangeTeam(p) \/ \E type \in TeamType : mp_teams(p, type)

SettingsPacket(p) ==
    \/ \E fm, ch \in BOOLEAN, type \in TeamType : MatchChangeSettings(p, fm, ch, type)
    \/ MatchChangeSettings_resumes(p)
    \/ mp_map(p) \/ mp_map_resumes(p)

SettingsNext == \E p \in Player :
    \/ SeatPacket(p)
    \/ \E t \in Player : HostCommand(p, t)
    \/ ModsStep(p) \/ TeamStep(p) \/ SettingsPacket(p)

SettingsSpec == SettingsInit /\ [][SettingsNext]_msvars

-----------------------------------------------------------------------------

\* "keep only speed-changing mods" (cho.py:1437): under freemods the match has
\* no mods but those, whichever of six handlers touched mods last, so that a
\* player's choice is the player's own.
FreemodsSplit == freemods => mods \subseteq Speed

\* A free slot has no mods and no team: join_match gives a newcomer the slot
\* as it is, so whatever a former player left there would be the newcomer's
\* (player.py:715).
EmptySlotsAreClean == \A s \in Slot :
    slots[s].player = None => slotMods[s] = {} /\ slotTeam[s] = "neutral"

\* "teams are binary, so we have a loser" (match.py:612): in a team match every
\* player is blue or red, whoever joined, moved or changed the team type, also
\* across the wait for a map.
TeamsHaveColours == teamType = "teams" =>
    \A s \in Occupied(slots) : slotTeam[s] # "neutral"

\* What the player of slot s plays with.
Effective(s) == IF freemods THEN mods \cup slotMods[s] ELSE mods

\* "match mods -> active slot mods" and "host mods -> match mods" (cho.py:1430,
\* 1440): switching freemods on changes nobody's mods, switching them off gives
\* everyone the mods the host played with.  A pick brings mods of its own.
FreemodsKeepMods == [][~(\E p \in Player, ms \in SUBSET Mod : mp_pick(p, ms)) =>
    /\ ~freemods /\ freemods' => \A s \in Occupied(slots) : Effective(s)' = Effective(s)
    /\ freemods /\ ~freemods' => \A h \in HostSlot : mods' = Effective(h)]_msvars

=============================================================================
