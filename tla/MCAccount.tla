----------------------------- MODULE MCAccount -----------------------------
(***************************************************************************)
(* One user: the account and its sessions, and, as parts that share no     *)
(* state with it, the wire between its client and the server, its friends, *)
(* blocks and achievements, the mods it plays, and the leaderboard it is   *)
(* shown, of three users of two countries.  Each behaviour is one          *)
(* of a single part; the account stays as it is in the behaviours of the   *)
(* others, and whatever else is of another part is left out (None).        *)
(*                                                                         *)
(* The packets: of every kind of field that the handlers read one at its   *)
(* limits (strings of none and of 130 bytes, negative integers), packets   *)
(* nobody handles, frames with and without score v2, matches with and      *)
(* without freemods, players and a password; and stats with pp that fit    *)
(* sixteen bits and that do not.                                           *)
(***************************************************************************)
EXTENDS Account, Packets, TLC

CONSTANTS
    Other, Achievement, Nobody, PTask,
    KeyMod,
    User, Request, Score, Mods, FriendsOf, CountryOf, Limit, Nothing, u1, u2, u3,
    None

ASSUME NobodyAssumption == Nobody \notin Session

VARIABLES
    part,
    relationships, user_achievements, current, arriving, mine, asking, met,
    asked, filtered, played,
    best, banned, remembered, request

profileVars == <<relationships, user_achievements, current, arriving, mine, asking, met>>
modVars     == <<asked, filtered, played>>
boardVars   == <<best, banned, remembered, request>>
userVars    == <<part, avars, wvars, profileVars, modVars, boardVars>>

ProfilePart == INSTANCE Profile WITH login <- arriving, task <- asking, Task <- PTask
ModsPart    == INSTANCE Mods
BoardPart   == INSTANCE Leaderboards

ASSUME BoardAssumption == IsFiniteSet(User) /\ Limit \in Nat /\ \A s \in Score : s.value \in Nat

InSlot(status, team, player, mods) == [status |-> status, team |-> team, player |-> player, mods |-> mods]
MatchData(passwd, freemods, slots) ==
    [id |-> 3, in_progress |-> 0, mods |-> 64, name |-> <<109>>, passwd |-> passwd,
     map_name |-> <<>>, map_id |-> -1, map_md5 |-> <<1, 11, 0>>, slots |-> slots, host |-> 1000,
     mode |-> 0, win_condition |-> 3, team_type |-> 2, freemods |-> freemods, seed |-> 70000]
Long == [k \in 1..130 |-> k]
V1 == <<-5, 200, 1, 2, 300, 0, 0, 65535, 1000000, 12, 13, 1, 200, 0, 0>>
V2 == [V1 EXCEPT ![15] = 1] \o <<<<1, 2, 3, 4, 5, 6, 7, 8>>, <<8, 7, 6, 5, 4, 3, 2, 1>>>>
Frames == <<1, 0, <<1, 1, 1, 1>>, <<0, 0, 0, 0>>, 17, 5, 0, <<2, 1, 1, 1>>, <<0, 0, 0, 9>>, 34>>

MCSent ==
    {[kind |-> "CHANGE_ACTION", args |-> <<2, Long, <<>>, 65536, 3, -1>>],
     [kind |-> "SEND_PUBLIC_MESSAGE", args |-> <<<<>>, <<104, 105>>, <<35>>, 1000>>],
     [kind |-> "REQUEST_STATUS_UPDATE", args |-> <<>>],
     [kind |-> "ERROR_REPORT", args |-> <<<<1, 2, 3>>>>],
     [kind |-> "PING", args |-> <<>>],
     [kind |-> "USER_STATS_REQUEST", args |-> <<3, 256, 1000>>],
     [kind |-> "JOIN_MATCH", args |-> <<5, <<112>>>>],
     [kind |-> "CHANNEL_JOIN", args |-> <<<<35, 111>>>>]}
    \cup [kind : {"MATCH_SCORE_UPDATE"}, args : {V1, V2}]
    \cup [kind : {"SPECTATE_FRAMES"}, args : {<<-1, 2>> \o Frames \o <<0>> \o V2 \o <<300>>, <<0, 0, 3>> \o V1 \o <<65535>>}]
    \cup [kind : {"MATCH_CHANGE_SETTINGS"}, args :
            {MatchData(<<112, 119>>, 0, <<InSlot(4, 1, 1000, 0), InSlot(1, 0, 0, 0)>>),
             MatchData(<<>>, 1, <<InSlot(16, 2, 1000, 8), InSlot(64, 1, 70000, 0)>>),
             MatchData(<<112>>, 1, <<InSlot(1, 0, 0, 0), InSlot(2, 0, 0, 0)>>)}]
MCStats == {[pp |-> 32767, rscore |-> 123456], [pp |-> 32768, rscore |-> 5]}

MCFriends == (u1 :> {u2}) @@ (u2 :> {u1, u3}) @@ (u3 :> {})
MCCountry == (u1 :> "de") @@ (u2 :> "fr") @@ (u3 :> "de")
MCScore == {[value |-> 1, mods |-> "nm"], [value |-> 2, mods |-> "hd"]}

NoWire    == restricted = None /\ sent = None /\ body = None /\ posted = None /\ handled = None /\ out = None
NoProfile == relationships = None /\ user_achievements = None /\ current = None /\ arriving = None
             /\ mine = None /\ asking = None /\ met = None
NoMods    == asked = None /\ filtered = None /\ played = None
NoBoard   == best = None /\ banned = None /\ remembered = None /\ request = None

Init ==
    /\ AccountInit
    /\ \/ part = "account" /\ NoWire /\ NoProfile /\ NoMods /\ NoBoard
       \/ part = "wire" /\ PacketsInit /\ NoProfile /\ NoMods /\ NoBoard
       \/ part = "profile" /\ ProfilePart!ProfileInit /\ NoWire /\ NoMods /\ NoBoard
       \/ part = "mods" /\ ModsPart!ModsInit /\ NoWire /\ NoProfile /\ NoBoard
       \/ part = "board" /\ BoardPart!LeaderboardsInit /\ NoWire /\ NoProfile /\ NoMods

OthersStay == UNCHANGED <<part, wvars, profileVars, modVars, boardVars>>
Next ==
    \/ part = "account" /\ AccountNext /\ OthersStay
    \/ part = "wire" /\ PacketsNext /\ UNCHANGED <<part, avars, profileVars, modVars, boardVars>>
    \/ part = "profile" /\ ProfilePart!ProfileNext /\ UNCHANGED <<part, avars, wvars, modVars, boardVars>>
    \/ part = "mods" /\ ModsPart!ModsNext /\ UNCHANGED <<part, avars, wvars, profileVars, boardVars>>
    \/ part = "board" /\ BoardPart!LeaderboardsNext /\ UNCHANGED <<part, avars, wvars, profileVars, modVars>>

\* As in AccountSpec, the ghost loop runs for ever.
Spec == /\ Init /\ [][Next]_userVars
        /\ \A s \in Session : WF_userVars(part = "account" /\ Disconnect(s) /\ OthersStay)

\* The properties of Packets: of what is read, and of what is written.
WireIsRead == part = "wire" => ReadsWhatIsMeant /\ TellsWhatIsMeant

\* The properties of Profile, Mods and Leaderboards.
ProfileIsTrue == part = "profile" => ProfilePart!ProfileIsTrue
ModsAreValid == part = "mods" => ModsPart!ModsAreValid
BoardsAgree == part = "board" => BoardPart!BoardsAgree

=============================================================================
