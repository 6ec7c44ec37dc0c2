----------------------------- MODULE MCContent -----------------------------
(***************************************************************************)
(* What the server keeps in the database and in memory: scores, beatmaps,  *)
(* clans and map pools.  They share no state, and so each behaviour is one *)
(* of a single part, with everything of the other parts left out (None).   *)
(*                                                                         *)
(* Scores: on a ranked map two plays of one mode, of which the one with    *)
(* more pp has the lower score, and one of another mode; and a failed      *)
(* play.  Beatmaps are there twice: one request at a time to a set of two  *)
(* maps that are updated ("maps"), and two requests at once to a set of    *)
(* one map that is not ("races").                                          *)
(***************************************************************************)
EXTENDS Submission, TLC

CONSTANTS
    Request, SetObj, Id, Nothing, oneRequest, oneSet, oneId,
    User, Staff, MaxClans, NoClan, Nobody,
    Name, Pick, BMap, MaxPools, NoPool

VARIABLES
    part,
    api, row, mapset, maps, byMd5, byId, beatmapset, request, raced, missed,
    founded, owner, users, clans, member_ids, player, work, cut, met,
    ids, tourney_pools, pool_maps, objects, pools, command, clash, spilled

beatmapVars == <<api, row, mapset, maps, byMd5, byId, beatmapset, request, raced, missed>>
clanVars    == <<founded, owner, users, clans, member_ids, player, work, cut, met>>
poolVars    == <<ids, tourney_pools, pool_maps, objects, pools, command, clash, spilled>>
contentVars == <<part, svars, beatmapVars, clanVars, poolVars>>

MapsPart  == INSTANCE Beatmaps WITH Request <- {oneRequest}, SetObj <- {oneSet}, MaxVersion <- 2
RacesPart == INSTANCE Beatmaps WITH Id <- {oneId}, MaxVersion <- 1
ClansPart == INSTANCE Clans WITH Work <- Task
PoolsPart == INSTANCE MapPools WITH Command <- Task

ASSUME ClansAssumption ==
    /\ MaxClans \in Nat \ {0}
    /\ NoClan \notin ClansPart!ClanId /\ Nobody \notin User \cup ClansPart!ClanId /\ NoClan # Nobody

ASSUME PoolsAssumption == MaxPools \in Nat /\ NoPool \notin Name \cup PoolsPart!MapPool

ASSUME BeatmapsAssumption == MapsPart!BeatmapsConstants /\ RacesPart!BeatmapsConstants

MCPlay ==
    {[map |-> "a", mode |-> "osu", pp |-> 1, score |-> 2, passed |-> TRUE],
     [map |-> "a", mode |-> "osu", pp |-> 2, score |-> 1, passed |-> TRUE],
     [map |-> "a", mode |-> "taiko", pp |-> 1, score |-> 1, passed |-> TRUE],
     [map |-> "a", mode |-> "osu", pp |-> 1, score |-> 1, passed |-> FALSE]}

\* Tasks, objects and maps are interchangeable; the parts share their names.
Symmetry == Permutations(Task) \cup Permutations(Session) \cup Permutations(Id)

NoScores   == scores = None /\ stats = None /\ current = None /\ loading = None /\ mem = None
              /\ mode = None /\ task = None /\ contended = None /\ trouble = None
NoBeatmaps == api = None /\ row = None /\ mapset = None /\ maps = None /\ byMd5 = None /\ byId = None
              /\ beatmapset = None /\ request = None /\ raced = None /\ missed = None
NoClans    == founded = None /\ owner = None /\ users = None /\ clans = None /\ member_ids = None
              /\ player = None /\ work = None /\ cut = None /\ met = None
NoPools    == ids = None /\ tourney_pools = None /\ pool_maps = None /\ objects = None /\ pools = None
              /\ command = None /\ clash = None /\ spilled = None

Init ==
    \/ part = "scores" /\ SubmissionInit /\ NoBeatmaps /\ NoClans /\ NoPools
    \/ part = "maps" /\ MapsPart!BeatmapsInit /\ NoScores /\ NoClans /\ NoPools
    \/ part = "races" /\ RacesPart!BeatmapsInit /\ NoScores /\ NoClans /\ NoPools
    \/ part = "clans" /\ ClansPart!ClansInit /\ NoScores /\ NoBeatmaps /\ NoPools
    \/ part = "pools" /\ PoolsPart!MapPoolsInit /\ NoScores /\ NoBeatmaps /\ NoClans

Next ==
    \/ part = "scores" /\ SubmissionNext /\ UNCHANGED <<part, beatmapVars, clanVars, poolVars>>
    \/ part = "maps" /\ MapsPart!BeatmapsNext /\ UNCHANGED <<part, svars, clanVars, poolVars>>
    \/ part = "races" /\ RacesPart!BeatmapsNext /\ UNCHANGED <<part, svars, clanVars, poolVars>>
    \/ part = "clans" /\ ClansPart!ClansNext /\ UNCHANGED <<part, svars, beatmapVars, poolVars>>
    \/ part = "pools" /\ PoolsPart!MapPoolsNext /\ UNCHANGED <<part, svars, beatmapVars, clanVars>>

Spec == Init /\ [][Next]_contentVars

\* One row of a play, and one best: the properties of Submission.
ScoresOnce == part = "scores" => NoDuplicate
ScoresBest == part = "scores" => OneBest
ScoresStats == part = "scores" => StatsFollowScores

\* The properties of Beatmaps, of the set and of the requests that meet.
CacheIsStored == (part = "maps" => MapsPart!CacheIsStored) /\ (part = "races" => RacesPart!CacheIsStored)
ScoresKept == [][(part = "maps" => MapsPart!KeepsScores) /\ (part = "races" => RacesPart!KeepsScores)]_contentVars

\* The properties of Clans and MapPools.
ClansAgree == part = "clans" => ClansPart!ClansAgree
PoolsAreStored == part = "pools" => PoolsPart!PoolsAreStored

=============================================================================
