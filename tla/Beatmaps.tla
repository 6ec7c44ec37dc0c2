------------------------------ MODULE Beatmaps ------------------------------
(***************************************************************************)
(* One beatmap set on its three levels: the osu!api, the database and the  *)
(* cache, with the requests that bring it from one to the next and the     *)
(* nominators who rule on its status.                                      *)
(*                                                                         *)
(* A beatmap has an id for good and a new md5 with every version; an md5   *)
(* stands here for the pair.  A BeatmapSet holds a Beatmap for each id, so *)
(* a Beatmap is named by its set and its id.  Requests give way at every   *)
(* query, and none of them holds a lock.                                   *)
(*                                                                         *)
(* When the cache is due for a look at the osu!api is left open, except    *)
(* that it never is while the whole set is officially ranked.  Left out:   *)
(* everything of a map but version and status, play counts, and what       *)
(* getscores remembers about md5s it has not found.                        *)
(***************************************************************************)
EXTENDS Naturals

CONSTANTS
    Request,       \* requests at work
    SetObj,        \* BeatmapSet objects
    Id,            \* the ids of the set's maps
    MaxVersion,    \* bound: with a map at this version, no map is updated
    Nothing

Status  == {"pending", "ranked"}
Version == 1..MaxVersion
Md5     == Id \X Version
RowType == [ver : Version, status : Status, frozen : BOOLEAN]
MapType == [ver : Version, status : Status, frozen : BOOLEAN, set : BOOLEAN, listed : BOOLEAN]

\* A map has a first version, and Nothing is nothing of all this.
BeatmapsConstants ==
    /\ MaxVersion \in Nat \ {0}
    /\ Nothing \notin SetObj \cup RowType \cup MapType

VARIABLES
    api,           \* of each map, what osu! has; "unborn" or "removed"
    row, mapset,   \* rows of `maps`, and whether `mapsets` has the set
    maps,          \* [o][i]: the Beatmap of map i in BeatmapSet o
    byMd5, byId, beatmapset,  \* the cache
    request,       \* what the requests are doing
    raced, missed  \* requests met; a ruling found no Beatmap under its md5 (history)

bvars == <<api, row, mapset, maps, byMd5, byId, beatmapset, request, raced, missed>>

BeatmapsTypeOK ==
    /\ api \in [Id -> [ver : Version, status : Status] \cup {[ver |-> 0, status |-> s] : s \in {"unborn", "removed"}}]
    /\ row \in [Id -> RowType \cup {Nothing}]
    /\ mapset \in BOOLEAN
    /\ byMd5 \in [Md5 -> SetObj \cup {Nothing}] /\ byId \in [Id -> SetObj \cup {Nothing}]
    /\ beatmapset \in SetObj \cup {Nothing}
    /\ raced \in BOOLEAN /\ missed \in BOOLEAN

Quiet    == [at |-> "quiet"]
Working  == {r \in Request : request[r] # Quiet}
Known(i) == api[i].ver > 0
Missing  == [i \in Id |-> Nothing]

\* The maps listed in a set; a map that was deleted may still be cached.
Listed(o) == {i \in Id : maps[o][i] # Nothing /\ maps[o][i].listed}
Md5Of(o, i) == <<i, maps[o][i].ver>>

Held(o) ==
    \/ o = beatmapset'
    \/ \E m \in Md5 : byMd5'[m] = o
    \/ \E i \in Id : byId'[i] = o
    \/ \E r \in Request : request'[r] # Quiet /\ request'[r].set = o
Collect(objects) == [o \in SetObj |-> IF Held(o) THEN objects[o] ELSE Missing]
Free(o) == maps[o] = Missing /\ \A r \in Working : request[r].set # o

Goes(r, at, o) == request' = [request EXCEPT ![r] = [@ EXCEPT !.at = at, !.set = o]]
Ends(r) == request' = [request EXCEPT ![r] = Quiet]

\* Ranked and not by a nominator: the set is never due.
all_officially_ranked_or_approved(objects, o) ==
    \A i \in Id : objects[o][i] # Nothing /\ objects[o][i].listed =>
        objects[o][i].status = "ranked" /\ ~objects[o][i].frozen
MayBeDue(objects, o) == ~all_officially_ranked_or_approved(objects, o)

-----------------------------------------------------------------------------
(* osu!.                                                                    *)

\* A mapper works on a map that is not ranked yet; the set is ranked at once;
\* maps come and go.
Upstream ==
    /\ \/ /\ \A j \in Id : api[j].ver < MaxVersion
          /\ \E i \in Id : Known(i) /\ api[i].status = "pending" /\ api' = [api EXCEPT ![i].ver = @ + 1]
       \/ /\ \E i \in Id : Known(i) /\ api[i].status = "pending"
          /\ api' = [i \in Id |-> IF Known(i) THEN [api[i] EXCEPT !.status = "ranked"] ELSE api[i]]
       \/ \E i \in Id : api[i].status = "unborn" /\ api' = [api EXCEPT ![i] = [ver |-> 1, status |-> "pending"]]
       \/ \E i \in Id : Known(i) /\ api' = [api EXCEPT ![i] = [ver |-> 0, status |-> "removed"]]
    /\ UNCHANGED <<row, mapset, maps, byMd5, byId, beatmapset, request, raced, missed>>

\* osuapiv1_getbeatmaps: what osu! has, or nothing when the request fails.
Answers(data) ==
    data = {i \in Id : Known(i)} \/ data = {}

-----------------------------------------------------------------------------
(* Looking a map up.                                                        *)

Starts(r, at, o, m) ==
    /\ request[r] = Quiet
    /\ request' = [request EXCEPT ![r] = [at |-> at, set |-> o, md5 |-> m, caches |-> (at # "update"), gone |-> {}, failed |-> FALSE]]
    /\ raced' = (raced \/ Working # {})
    /\ UNCHANGED <<api, row, mapset, maps, byMd5, byId, beatmapset, missed>>

\* In the cache, but due.  A map that came with an update has no `set`, which
\* raises.
_from_md5_cache(r, m) ==
    /\ byMd5[m] # Nothing
    /\ maps[byMd5[m]][m[1]].set /\ MayBeDue(maps, byMd5[m])
    /\ Starts(r, "update", byMd5[m], Nothing)

_from_bid_cache(r, i) ==
    /\ byId[i] # Nothing
    /\ maps[byId[i]][i].set /\ MayBeDue(maps, byId[i])
    /\ Starts(r, "update", byId[i], Nothing)

\* Not in the cache.  Clients that know the set id go on to the set at once.
from_md5(r, m) ==
    /\ byMd5[m] = Nothing
    /\ Starts(r, "find", Nothing, m) \/ Starts(r, "set", Nothing, Nothing)

\* from_bid goes the same way, with any version.
from_bid(r, i) ==
    /\ byId[i] = Nothing
    /\ Starts(r, "find", Nothing, <<i, 0>>)

Fits(m, ver) == m[2] \in {0, ver}
Found(r) == request' = [request EXCEPT ![r] = [@ EXCEPT !.at = "set", !.md5 = Nothing]]

FindSet(r) == LET m == request[r].md5 IN
    /\ request[r].at = "find"
    /\ IF row[m[1]] # Nothing /\ Fits(m, row[m[1]].ver)
       THEN Found(r)
       ELSE \E data \in SUBSET Id :
               /\ Answers(data)
               /\ IF m[1] \in data /\ Fits(m, api[m[1]].ver) THEN Found(r) ELSE Ends(r)
    /\ UNCHANGED <<api, row, mapset, maps, byMd5, byId, beatmapset, raced, missed>>

\* from_bsid: the cached set, looked at again if it is due.
_from_bsid_cache(r) ==
    /\ request[r].at = "set" /\ beatmapset # Nothing
    /\ \/ MayBeDue(maps, beatmapset) /\ Goes(r, "update", beatmapset)
       \/ Goes(r, "cache", beatmapset)
    /\ UNCHANGED <<api, row, mapset, maps, byMd5, byId, beatmapset, raced, missed>>

_from_bsid_sql(r) ==
    /\ request[r].at = "set" /\ beatmapset = Nothing
    /\ IF mapset
       THEN \E o \in {s \in SetObj : Free(s)} :
              /\ maps' = [maps EXCEPT ![o] = [i \in Id |->
                    IF row[i] = Nothing THEN Nothing
                    ELSE [ver |-> row[i].ver, status |-> row[i].status, frozen |-> row[i].frozen,
                          set |-> TRUE, listed |-> TRUE]]]
              /\ \/ MayBeDue(maps', o) /\ Goes(r, "update", o)
                 \/ Goes(r, "cache", o)
       ELSE Goes(r, "osuapi", Nothing) /\ UNCHANGED maps
    /\ UNCHANGED <<api, row, mapset, byMd5, byId, beatmapset, raced, missed>>

\* A map whose row is frozen keeps its status.
Parsed(i, old) == [ver |-> api[i].ver, status |-> IF old.frozen THEN old.status ELSE api[i].status,
                   frozen |-> old.frozen, set |-> old.set, listed |-> TRUE]

_from_bsid_osuapi(r) ==
    /\ request[r].at = "osuapi"
    /\ \E data \in SUBSET Id :
          /\ Answers(data)
          /\ IF data = {} THEN Ends(r) /\ UNCHANGED maps
             ELSE \E o \in {s \in SetObj : Free(s)} :
                    /\ maps' = [maps EXCEPT ![o] = [i \in Id |->
                          IF i \notin data THEN Nothing
                          ELSE Parsed(i, IF row[i] # Nothing /\ row[i].frozen
                                         THEN [status |-> row[i].status, frozen |-> TRUE, set |-> TRUE]
                                         ELSE [frozen |-> FALSE, set |-> TRUE])]]
                    /\ Goes(r, "save", o)
    /\ UNCHANGED <<api, row, mapset, byMd5, byId, beatmapset, raced, missed>>

\* _save_to_sql, with the set's maps as they are by now, and the set's row.
\* Mutant: maps that are there are not replaced.
Saved_Insert(o) == [i \in Id |-> IF i \in Listed(o) /\ row[i] = Nothing
    THEN [ver |-> maps[o][i].ver, status |-> maps[o][i].status, frozen |-> maps[o][i].frozen] ELSE row[i]]
Saved(o) == [i \in Id |-> IF i \in Listed(o)
    THEN [ver |-> maps[o][i].ver, status |-> maps[o][i].status, frozen |-> maps[o][i].frozen] ELSE row[i]]

_save_to_sql(r) ==
    /\ request[r].at = "save"
    /\ mapset' = TRUE /\ row' = Saved(request[r].set)
    /\ IF request[r].caches THEN Goes(r, "cache", request[r].set) ELSE Ends(r)
    /\ UNCHANGED <<api, byMd5, byId, beatmapset, raced, missed>>
    /\ maps' = Collect(maps)

cache_beatmap_set(r) == LET o == request[r].set IN
    /\ request[r].at = "cache"
    /\ beatmapset' = o
    /\ byMd5' = [m \in Md5 |-> IF m[1] \in Listed(o) /\ m = Md5Of(o, m[1]) THEN o ELSE byMd5[m]]
    /\ byId' = [i \in Id |-> IF i \in Listed(o) THEN o ELSE byId[i]]
    /\ Ends(r)
    /\ UNCHANGED <<api, row, mapset, raced, missed>>
    /\ maps' = Collect(maps)

-----------------------------------------------------------------------------
(* Updating a set: _update_if_available.                                    *)

\* The maps of o with what osu! has: a map that is gone leaves the list, one
\* with another md5 is changed in place, a new one has no `set` yet.
Updated(o, data) == [i \in Id |->
    IF i \notin data THEN IF maps[o][i] = Nothing THEN Nothing ELSE [maps[o][i] EXCEPT !.listed = FALSE]
    ELSE IF i \in Listed(o)
         THEN IF maps[o][i].ver = api[i].ver THEN maps[o][i] ELSE Parsed(i, maps[o][i])
         ELSE Parsed(i, [frozen |-> FALSE, set |-> FALSE])]

\* The maps whose rows and scores go.  Mutant: those whose md5 osu! does not have.
Deleted_ByMd5(o, data) == {Md5Of(o, i) : i \in {j \in Listed(o) : j \notin data \/ api[j].ver # maps[o][j].ver}}
Deleted(o, data) == {Md5Of(o, i) : i \in Listed(o) \ data}

UpdateFetches(r) == LET o == request[r].set IN
    /\ request[r].at = "update"
    /\ \E data \in SUBSET Id :
          /\ Answers(data)
          /\ maps' = IF data = {} THEN maps ELSE [maps EXCEPT ![o] = Updated(o, data)]
          /\ request' = [request EXCEPT ![r] = [@ EXCEPT
                !.at = IF data = {} THEN "drop" ELSE IF Deleted(o, data) = {} THEN "save" ELSE "delete",
                !.gone = Deleted(o, data),
                !.failed = (data = {} /\ \E i \in Id : Known(i))]]
    /\ UNCHANGED <<api, row, mapset, byMd5, byId, beatmapset, raced, missed>>

\* DELETE FROM maps, DELETE FROM scores, by md5.
DeleteMaps(gone) ==
    /\ row' = [i \in Id |-> IF row[i] # Nothing /\ <<i, row[i].ver>> \in gone THEN Nothing ELSE row[i]]

UpdateDeletes(r) ==
    /\ request[r].at = "delete"
    /\ DeleteMaps(request[r].gone)
    /\ Goes(r, "save", request[r].set)
    /\ UNCHANGED <<api, mapset, maps, byMd5, byId, beatmapset, raced, missed>>

\* The osu!api has nothing of the set; the cache keeps it.
UpdateDrops(r) ==
    /\ request[r].at = "drop"
    /\ DeleteMaps(request[r].gone)
    /\ mapset' = FALSE
    /\ IF request[r].caches THEN Goes(r, "cache", request[r].set) ELSE Ends(r)
    /\ UNCHANGED <<api, byMd5, byId, beatmapset, raced, missed>>
    /\ maps' = Collect(maps)
-----------------------------------------------------------------------------
(* Nominators: !map, of a map or of the whole set.                          *)

\* The rows are frozen, the Beatmaps are not.
_map(r, o, i, status, all) ==
    /\ request[r] = Quiet
    /\ o \in {byId[i]} \cup {byMd5[m] : m \in Md5} /\ o # Nothing
    /\ maps[o][i] # Nothing /\ maps[o][i].status # status
    /\ row' = [j \in Id |-> IF row[j] # Nothing /\ (all \/ j = i)
                            THEN [row[j] EXCEPT !.status = status, !.frozen = TRUE] ELSE row[j]]
    /\ request' = [request EXCEPT ![r] = [at |-> "rule", set |-> o, md5 |-> <<i, status>>, caches |-> all, gone |-> {}, failed |-> FALSE]]
    /\ raced' = (raced \/ Working # {})
    /\ UNCHANGED <<api, mapset, maps, byMd5, byId, beatmapset, missed>>

\* Which Beatmaps of the cache get the status.
RuledMaps(o, i, all) ==
    IF all THEN {beatmapset} \X Listed(beatmapset)
    ELSE IF byMd5[Md5Of(o, i)] = Nothing THEN {} ELSE {<<byMd5[Md5Of(o, i)], i>>}

_map_caches(r) ==
    /\ request[r].at = "rule"
    /\ LET i == request[r].md5[1]
           status == request[r].md5[2]
           these == RuledMaps(request[r].set, i, request[r].caches)
       IN  /\ maps' = [o \in SetObj |-> [j \in Id |->
                          IF <<o, j>> \in these THEN [maps[o][j] EXCEPT !.status = status] ELSE maps[o][j]]]
           /\ missed' = (missed \/ these = {})
    /\ Ends(r)
    /\ UNCHANGED <<api, row, mapset, byMd5, byId, beatmapset, raced>>

-----------------------------------------------------------------------------

\* The server stops and starts again, with nothing in its cache.
Restart ==
    /\ maps' = [o \in SetObj |-> Missing]
    /\ byMd5' = [m \in Md5 |-> Nothing] /\ byId' = [i \in Id |-> Nothing] /\ beatmapset' = Nothing
    /\ request' = [r \in Request |-> Quiet]
    /\ UNCHANGED <<api, row, mapset, raced, missed>>

BeatmapsInit ==
    /\ \E some \in SUBSET Id : some # {} /\
          api = [i \in Id |-> IF i \in some THEN [ver |-> 1, status |-> "pending"]
                              ELSE [ver |-> 0, status |-> "unborn"]]
    /\ row = Missing /\ mapset = FALSE
    /\ maps = [o \in SetObj |-> Missing]
    /\ byMd5 = [m \in Md5 |-> Nothing] /\ byId = [i \in Id |-> Nothing] /\ beatmapset = Nothing
    /\ request = [r \in Request |-> Quiet]
    /\ raced = FALSE /\ missed = FALSE

RequestNext(r) ==
    \/ \E m \in Md5 : _from_md5_cache(r, m) \/ from_md5(r, m)
    \/ \E i \in Id : _from_bid_cache(r, i) \/ from_bid(r, i)
    \/ FindSet(r) \/ _from_bsid_cache(r) \/ _from_bsid_sql(r) \/ _from_bsid_osuapi(r)
    \/ _save_to_sql(r) \/ cache_beatmap_set(r)
    \/ UpdateFetches(r) \/ UpdateDeletes(r) \/ UpdateDrops(r)
    \/ \E o \in SetObj, i \in Id, s \in Status, all \in BOOLEAN : _map(r, o, i, s, all)
    \/ _map_caches(r)

BeatmapsNext == Upstream \/ Restart \/ \E r \in Request : RequestNext(r)

BeatmapsSpec == BeatmapsInit /\ [][BeatmapsNext]_bvars

-----------------------------------------------------------------------------
(* Properties.                                                              *)

\* The cache has one Beatmap for each map, and while the set is stored the
\* database has the same version and status, if no two requests met
\* (beatmap.py:356 asks for a lock).
CacheIsStored == Working = {} /\ ~raced /\ beatmapset # Nothing =>
    /\ {byMd5[m] : m \in Md5} \cup {byId[i] : i \in Id} \subseteq {beatmapset, Nothing}
    /\ mapset => \A i \in Id :
          IF i \in Listed(beatmapset)
          THEN /\ row[i] # Nothing
               /\ row[i].ver = maps[beatmapset][i].ver
               /\ missed \/ row[i].status = maps[beatmapset][i].status
          ELSE row[i] = Nothing

\* A map and its scores are deleted only when osu! has removed the map, or when
\* a request to osu! failed, which is taken for the same (beatmap.py:37-57, 700).
KeepsScores == \A i \in Id : row[i] # Nothing /\ row'[i] = Nothing =>
    api[i].status = "removed" \/ \E r \in Working : request[r].failed
ScoresKept == [][KeepsScores]_bvars

\* What a nominator decided about a map (`frozen`) stays, even after an update
\* from the osu!api (beatmap.py:253-257, 481).
RulingStays == [][\A i \in Id : row[i] # Nothing /\ row[i].frozen /\ row'[i] # Nothing => row'[i].frozen]_bvars

=============================================================================
