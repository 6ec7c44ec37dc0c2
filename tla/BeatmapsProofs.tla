--------------------------- MODULE BeatmapsProofs ---------------------------
(***************************************************************************)
(* Scores are kept, and the cache is what is stored while requests do not  *)
(* meet: for any number of requests, of set objects, maps and versions.    *)
(***************************************************************************)
EXTENDS Beatmaps, TLAPS

\* What `maps` and `mapsets`, the cache and the requests hold.
ApiType == [ver : Version, status : Status] \cup [ver : {0}, status : {"unborn", "removed"}]
Asked   == (Id \X (Version \cup {0})) \cup (Id \X Status) \cup {Nothing}
Job     == [at : {"find", "set", "osuapi", "update", "delete", "drop", "save", "cache", "rule"},
            set : SetObj \cup {Nothing}, md5 : Asked, caches : BOOLEAN, gone : SUBSET Md5, failed : BOOLEAN]

BeatmapsType ==
    /\ api \in [Id -> ApiType]
    /\ row \in [Id -> RowType \cup {Nothing}] /\ mapset \in BOOLEAN
    /\ maps \in [SetObj -> [Id -> MapType \cup {Nothing}]]
    /\ byMd5 \in [Md5 -> SetObj \cup {Nothing}] /\ byId \in [Id -> SetObj \cup {Nothing}]
    /\ beatmapset \in SetObj \cup {Nothing}
    /\ request \in [Request -> Job \cup {Quiet}]

WithSet == {"update", "delete", "drop", "save", "cache", "rule"}

\* What is cached or at work has the Beatmaps it is about.
CachedAreThere ==
    /\ \A m \in Md5 : byMd5[m] # Nothing => beatmapset # Nothing /\ maps[byMd5[m]][m[1]] # Nothing
    /\ \A i \in Id : byId[i] # Nothing => beatmapset # Nothing /\ maps[byId[i]][i] # Nothing

WorkIsThere == \A r \in Request :
    /\ request[r].at \in {"find", "set", "osuapi"} => request[r].caches
    /\ request[r].at \in WithSet => request[r].set \in SetObj
    /\ request[r].at = "rule" =>
          /\ beatmapset # Nothing /\ request[r].md5 \in Id \X Status
          /\ maps[request[r].set][request[r].md5[1]] # Nothing

\* Whatever is known of a map, osu! had it once.
Born ==
    /\ \A i \in Id : row[i] # Nothing => api[i].status # "unborn"
    /\ \A o \in SetObj, i \in Id : maps[o][i] # Nothing => api[i].status # "unborn"

GoneAreRemoved == \A r \in Request : request[r].at \in {"delete", "drop"} =>
    request[r].failed \/ \A m \in request[r].gone : api[m[1]].status = "removed"

KeepsInv == BeatmapsType /\ CachedAreThere /\ WorkIsThere /\ Born /\ GoneAreRemoved

\* While requests do not meet there is one, and one set.
OneRequest == \A r, s \in Request : request[r] # Quiet /\ request[s] # Quiet => r = s

CachedIsOne ==
    /\ \A m \in Md5 : byMd5[m] \in {beatmapset, Nothing}
    /\ \A i \in Id : byId[i] \in {beatmapset, Nothing}

WorksOnIt(r) ==
    /\ request[r].at \in WithSet => beatmapset \in {request[r].set, Nothing}
    /\ request[r].at \in {"update", "delete", "drop", "save"} /\ ~request[r].caches => beatmapset = request[r].set
    /\ request[r].at = "osuapi" => beatmapset = Nothing /\ ~mapset

RowsHaveSet == ~mapset => \A i \in Id : row[i] = Nothing

\* The row of map i is the Beatmap of o.
Agrees(o, i) ==
    /\ i \in Listed(o) /\ mapset => row[i] # Nothing /\ row[i].ver = maps[o][i].ver
                                    /\ (missed \/ row[i].status = maps[o][i].status)
    /\ i \notin Listed(o) => row[i] = Nothing

\* The same, but for the status of the maps that a nominator is ruling on.
AgreesButFor(o, i, one, status, all) ==
    /\ i \in Listed(o) /\ mapset =>
          /\ row[i] # Nothing /\ row[i].ver = maps[o][i].ver
          /\ IF all \/ i = one THEN row[i].status = status ELSE missed \/ row[i].status = maps[o][i].status
    /\ i \notin Listed(o) => row[i] = Nothing

AtRest == (\A r \in Request : request[r].at \notin WithSet) /\ beatmapset # Nothing => \A i \in Id : Agrees(beatmapset, i)

\* What is left to do for the rows.
Prepares(r) == LET q == request[r] IN
    /\ q.at \in {"update", "cache", "drop"} => \A i \in Id : Agrees(q.set, i)
    /\ q.at = "drop" => q.gone = {Md5Of(q.set, i) : i \in Listed(q.set)}
    /\ q.at = "delete" => \A i \in Id \ Listed(q.set) : row[i] # Nothing => <<i, row[i].ver>> \in q.gone
    /\ q.at = "save" => \A i \in Id \ Listed(q.set) : row[i] = Nothing
    /\ q.at = "rule" => \A i \in Id : AgreesButFor(q.set, i, q.md5[1], q.md5[2], q.caches)

Alone == OneRequest /\ CachedIsOne /\ RowsHaveSet /\ AtRest /\ \A r \in Request : WorksOnIt(r) /\ Prepares(r)
StoredInv == KeepsInv /\ (~raced => Alone)

-----------------------------------------------------------------------------
(* What the helpers do.                                                     *)

LEMMA GoesTo ==
    ASSUME BeatmapsType, NEW r \in Request, request[r] # Quiet,
           NEW at \in {"find", "set", "osuapi", "update", "delete", "drop", "save", "cache", "rule"},
           NEW o \in SetObj \cup {Nothing}, Goes(r, at, o)
    PROVE  /\ request' \in [Request -> Job \cup {Quiet}]
           /\ \A s \in Request : s # r => request'[s] = request[s]
           /\ request'[r] # Quiet
           /\ request'[r].at = at /\ request'[r].set = o
           /\ request'[r].md5 = request[r].md5 /\ request'[r].caches = request[r].caches
           /\ request'[r].gone = request[r].gone /\ request'[r].failed = request[r].failed
<1> DEFINE q == [request[r] EXCEPT !.at = at, !.set = o]
<1>1. request[r] \in Job
    BY DEF BeatmapsType
<1>2. q \in Job
    BY <1>1 DEF Job
<1>3. request' = [request EXCEPT ![r] = q]
    BY DEF Goes
<1>4. request'[r] = q /\ \A s \in Request : s # r => request'[s] = request[s]
    BY <1>3 DEF BeatmapsType
<1>5. request' \in [Request -> Job \cup {Quiet}]
    BY <1>2, <1>3 DEF BeatmapsType
<1>6. /\ q.at = at /\ q.set = o
      /\ q.md5 = request[r].md5 /\ q.caches = request[r].caches
      /\ q.gone = request[r].gone /\ q.failed = request[r].failed
    BY <1>1 DEF Job
<1>7. q # Quiet
    BY <1>6 DEF Quiet
<1>8. QED  BY <1>4, <1>5, <1>6, <1>7

LEMMA EndsQuiet ==
    ASSUME BeatmapsType, NEW r \in Request, Ends(r)
    PROVE  /\ request' \in [Request -> Job \cup {Quiet}]
           /\ \A s \in Request : s # r => request'[s] = request[s]
           /\ request'[r] = Quiet /\ request'[r].at = "quiet"
BY DEF Ends, BeatmapsType, Quiet

LEMMA AtWork ==
    ASSUME BeatmapsType, NEW r \in Request, request[r].at # "quiet"
    PROVE  request[r] # Quiet /\ request[r] \in Job
BY DEF BeatmapsType, Quiet

LEMMA Collected ==
    ASSUME BeatmapsType, maps' = Collect(maps)
    PROVE  /\ maps' \in [SetObj -> [Id -> MapType \cup {Nothing}]]
           /\ \A o \in SetObj : Held(o) => maps'[o] = maps[o]
           /\ \A o \in SetObj, i \in Id : maps'[o][i] \in {maps[o][i], Nothing}
<1>1. \A o \in SetObj : maps'[o] = IF Held(o) THEN maps[o] ELSE Missing
    BY DEF Collect
<1>2. Missing \in [Id -> MapType \cup {Nothing}]
    BY DEF Missing
<1>3. maps' = [o \in SetObj |-> IF Held(o) THEN maps[o] ELSE Missing]
    BY DEF Collect
<1>4. maps' \in [SetObj -> [Id -> MapType \cup {Nothing}]]
    BY <1>2, <1>3 DEF BeatmapsType
<1>5. QED  BY <1>1, <1>4 DEF Missing, BeatmapsType

\* What a request starts with.
LEMMA Started ==
    ASSUME BeatmapsType, NEW r \in Request, NEW at \in {"find", "set", "update"},
           NEW o \in SetObj \cup {Nothing}, NEW m \in Asked, Starts(r, at, o, m)
    PROVE  /\ request[r] = Quiet
           /\ request' \in [Request -> Job \cup {Quiet}]
           /\ \A s \in Request : s # r => request'[s] = request[s]
           /\ request'[r] # Quiet
           /\ request'[r].at = at /\ request'[r].set = o /\ request'[r].caches = (at # "update")
           /\ UNCHANGED <<api, row, mapset, maps, byMd5, byId, beatmapset, missed>>
           /\ raced' = (raced \/ Working # {})
<1> DEFINE q == [at |-> at, set |-> o, md5 |-> m, caches |-> (at # "update"), gone |-> {}, failed |-> FALSE]
<1>1. q \in Job
    BY DEF Job
<1>2. request' = [request EXCEPT ![r] = q] /\ request[r] = Quiet
    BY DEF Starts
<1>3. request'[r] = q /\ \A s \in Request : s # r => request'[s] = request[s]
    BY <1>2 DEF BeatmapsType
<1>4. request' \in [Request -> Job \cup {Quiet}]
    BY <1>1, <1>2 DEF BeatmapsType
<1>5. q # Quiet /\ q.at = at /\ q.set = o /\ q.caches = (at # "update")
    BY DEF Quiet
<1>6. UNCHANGED <<api, row, mapset, maps, byMd5, byId, beatmapset, missed>> /\ raced' = (raced \/ Working # {})
    BY DEF Starts
<1>7. QED  BY <1>2, <1>3, <1>4, <1>5, <1>6

-----------------------------------------------------------------------------
(* Scores are kept.                                                         *)

\* What is cached or at work stays, as long as no Beatmap of a set that is held goes.
LEMMA StillThere ==
    ASSUME BeatmapsConstants, BeatmapsType, CachedAreThere, WorkIsThere, BeatmapsType', NEW r \in Request,
           \A s \in Request : s # r => request'[s] = request[s],
           request'[r].at # "rule",
           request'[r].at \in WithSet => request'[r].set \in SetObj,
           request'[r].at \in {"find", "set", "osuapi"} => request'[r].caches,
           beatmapset # Nothing => beatmapset' # Nothing,
           \A m \in Md5 : byMd5'[m] # Nothing => beatmapset' # Nothing /\ maps[byMd5'[m]][m[1]] # Nothing,
           \A i \in Id : byId'[i] # Nothing => beatmapset' # Nothing /\ maps[byId'[i]][i] # Nothing,
           \A o \in SetObj, i \in Id : Held(o) /\ maps[o][i] # Nothing => maps'[o][i] # Nothing
    PROVE  CachedAreThere' /\ WorkIsThere'
<1>1. \A m \in Md5 : byMd5'[m] # Nothing => beatmapset' # Nothing /\ maps'[byMd5'[m]][m[1]] # Nothing
    <2> SUFFICES ASSUME NEW m \in Md5, byMd5'[m] # Nothing
                 PROVE  beatmapset' # Nothing /\ maps'[byMd5'[m]][m[1]] # Nothing
        OBVIOUS
    <2>1. byMd5'[m] \in SetObj /\ m[1] \in Id
        BY DEF BeatmapsType, Md5
    <2>2. Held(byMd5'[m])
        BY DEF Held
    <2>3. QED  BY <2>1, <2>2
<1>2. \A i \in Id : byId'[i] # Nothing => beatmapset' # Nothing /\ maps'[byId'[i]][i] # Nothing
    <2> SUFFICES ASSUME NEW i \in Id, byId'[i] # Nothing
                 PROVE  beatmapset' # Nothing /\ maps'[byId'[i]][i] # Nothing
        OBVIOUS
    <2>1. byId'[i] \in SetObj
        BY DEF BeatmapsType
    <2>2. \A o \in SetObj : o = byId'[i] => Held(o)
        BY DEF Held
    <2>3. Held(byId'[i])
        BY <2>1, <2>2
    <2>4. QED  BY <2>1, <2>3
<1>3. CachedAreThere'
    BY <1>1, <1>2 DEF CachedAreThere
<1>4. ASSUME NEW s \in Request
      PROVE  /\ request'[s].at \in WithSet => request'[s].set \in SetObj
             /\ request'[s].at \in {"find", "set", "osuapi"} => request'[s].caches
    BY DEF WorkIsThere
<1>5. ASSUME NEW s \in Request, request'[s].at = "rule"
      PROVE  /\ beatmapset' # Nothing /\ request'[s].md5 \in Id \X Status
             /\ maps'[request'[s].set][request'[s].md5[1]] # Nothing
    <2>1. request[s].at = "rule" /\ request'[s] = request[s]
        BY <1>5
    <2>2. request[s].set \in SetObj
        BY <2>1 DEF WorkIsThere, WithSet
    <2>3. /\ beatmapset # Nothing /\ request[s].md5 \in Id \X Status
          /\ maps[request[s].set][request[s].md5[1]] # Nothing
        BY <2>1 DEF WorkIsThere
    <2>4. request[s].md5[1] \in Id
        BY <2>3
    <2>5. Held(request[s].set)
        BY <2>1, AtWork DEF Held
    <2>6. maps'[request[s].set][request[s].md5[1]] # Nothing
        BY <2>2, <2>3, <2>4, <2>5
    <2>7. QED  BY <2>1, <2>3, <2>6
<1>6. QED  BY <1>3, <1>4, <1>5 DEF WorkIsThere

\* Rows only change, or are deleted for a reason.
LEMMA StillBorn ==
    ASSUME BeatmapsType, Born, UNCHANGED api,
           \A i \in Id : row'[i] # Nothing => row[i] # Nothing \/ \E o \in SetObj : maps[o][i] # Nothing,
           \A o \in SetObj, i \in Id : maps'[o][i] # Nothing =>
               maps[o][i] # Nothing \/ row[i] # Nothing \/ Known(i)
    PROVE  Born'
<1>1. \A i \in Id : Known(i) => api[i].status # "unborn"
    <2> SUFFICES ASSUME NEW i \in Id, api[i].ver > 0 PROVE api[i].status # "unborn"
        BY DEF Known
    <2>1. api[i] \in ApiType
        BY DEF BeatmapsType
    <2>2. api[i] \notin [ver : {0}, status : {"unborn", "removed"}]
        OBVIOUS
    <2>3. QED  BY <2>1, <2>2 DEF ApiType, Status
<1>2. QED  BY <1>1 DEF Born

LEMMA StillRemoved ==
    ASSUME BeatmapsType, GoneAreRemoved, UNCHANGED api, NEW r \in Request,
           \A s \in Request : s # r => request'[s] = request[s],
           request'[r].at \notin {"delete", "drop"}
    PROVE  GoneAreRemoved'
BY DEF GoneAreRemoved

LEMMA UpstreamKeeps ==
    ASSUME BeatmapsConstants, KeepsInv, Upstream
    PROVE  KeepsInv' /\ KeepsScores
<1> USE DEF KeepsInv
<1>1. UNCHANGED <<row, mapset, maps, byMd5, byId, beatmapset, request, raced, missed>>
    BY DEF Upstream
<1>2. api' \in [Id -> ApiType] /\ \A i \in Id :
          /\ api[i].status # "unborn" => api'[i].status # "unborn"
          /\ api[i].status = "removed" => api'[i].status = "removed"
    <2>0. \A i \in Id : api[i] \in ApiType
        BY DEF BeatmapsType
    <2>a. \A i \in Id : Known(i) => api[i] \in [ver : Version, status : Status]
        BY <2>0 DEF ApiType, Known
    <2>1. CASE /\ \A j \in Id : api[j].ver < MaxVersion
               /\ \E i \in Id : Known(i) /\ api[i].status = "pending" /\ api' = [api EXCEPT ![i].ver = @ + 1]
        <3>1. PICK i \in Id : Known(i) /\ api[i].status = "pending" /\ api' = [api EXCEPT ![i].ver = @ + 1]
            BY <2>1
        <3>2. api[i] \in [ver : Version, status : Status]
            BY <2>a, <3>1
        <3>3. api[i].ver + 1 \in Version
            BY <2>1, <3>2 DEF BeatmapsConstants, Version
        <3>4. [api[i] EXCEPT !.ver = @ + 1] \in [ver : Version, status : Status]
              /\ [api[i] EXCEPT !.ver = @ + 1].status = "pending"
            BY <3>1, <3>2, <3>3
        <3>5. api' = [api EXCEPT ![i] = [api[i] EXCEPT !.ver = @ + 1]]
            BY <3>1
        <3>6. QED  BY <3>1, <3>4, <3>5 DEF BeatmapsType, ApiType
    <2>2. CASE api' = [i \in Id |-> IF Known(i) THEN [api[i] EXCEPT !.status = "ranked"] ELSE api[i]]
        <3>1. \A i \in Id : Known(i) => [api[i] EXCEPT !.status = "ranked"] \in [ver : Version, status : Status]
                                        /\ api[i].status \in Status
            BY <2>a DEF Status
        <3>2. \A i \in Id : Known(i) => [api[i] EXCEPT !.status = "ranked"].status = "ranked"
            BY <2>a
        <3>3. \A i \in Id : api'[i] = IF Known(i) THEN [api[i] EXCEPT !.status = "ranked"] ELSE api[i]
            BY <2>2
        <3>4. \A i \in Id : api'[i] \in ApiType
            BY <2>0, <3>1, <3>3 DEF ApiType
        <3>5. api' \in [Id -> ApiType]
            <4> DEFINE A(i) == IF Known(i) THEN [api[i] EXCEPT !.status = "ranked"] ELSE api[i]
            <4>1. \A i \in Id : A(i) \in ApiType
                BY <3>3, <3>4
            <4>2. api' = [i \in Id |-> A(i)]
                BY <2>2
            <4> HIDE DEF A
            <4>3. QED  BY <4>1, <4>2
        <3>6. QED  BY <3>1, <3>2, <3>3, <3>5 DEF Status
    <2>3. CASE \E i \in Id : api[i].status = "unborn" /\ api' = [api EXCEPT ![i] = [ver |-> 1, status |-> "pending"]]
        <3>1. PICK i \in Id : api[i].status = "unborn" /\ api' = [api EXCEPT ![i] = [ver |-> 1, status |-> "pending"]]
            BY <2>3
        <3>2. 1 \in Version
            BY DEF BeatmapsConstants, Version
        <3>3. [ver |-> 1, status |-> "pending"] \in ApiType
            BY <3>2 DEF ApiType, Status
        <3>4. QED  BY <3>1, <3>3 DEF BeatmapsType
    <2>4. CASE \E i \in Id : Known(i) /\ api' = [api EXCEPT ![i] = [ver |-> 0, status |-> "removed"]]
        <3>1. PICK i \in Id : Known(i) /\ api' = [api EXCEPT ![i] = [ver |-> 0, status |-> "removed"]]
            BY <2>4
        <3>2. [ver |-> 0, status |-> "removed"] \in ApiType
            BY DEF ApiType
        <3>3. QED  BY <3>1, <3>2 DEF BeatmapsType
    <2>5. QED  BY <2>1, <2>2, <2>3, <2>4 DEF Upstream
<1>3. BeatmapsType'
    BY <1>1, <1>2 DEF BeatmapsType
<1>4. CachedAreThere' /\ WorkIsThere'
    BY <1>1 DEF CachedAreThere, WorkIsThere
<1>5. Born'
    BY <1>1, <1>2 DEF Born
<1>6. GoneAreRemoved'
    <2> SUFFICES ASSUME NEW r \in Request, request[r].at \in {"delete", "drop"}, ~request[r].failed,
                        NEW m \in request[r].gone
                 PROVE  api'[m[1]].status = "removed"
        BY <1>1 DEF GoneAreRemoved
    <2>1. api[m[1]].status = "removed"
        BY DEF GoneAreRemoved
    <2>2. m[1] \in Id
        BY AtWork DEF Job, Md5
    <2>3. QED  BY <1>2, <2>1, <2>2
<1>7. QED  BY <1>1, <1>3, <1>4, <1>5, <1>6 DEF KeepsScores

LEMMA RestartKeeps ==
    ASSUME BeatmapsConstants, KeepsInv, Restart
    PROVE  KeepsInv' /\ KeepsScores
<1> USE DEF KeepsInv
<1>1. UNCHANGED <<api, row, mapset, raced, missed>>
    BY DEF Restart
<1>2. /\ maps' = [o \in SetObj |-> Missing]
      /\ byMd5' = [m \in Md5 |-> Nothing] /\ byId' = [i \in Id |-> Nothing] /\ beatmapset' = Nothing
      /\ request' = [r \in Request |-> Quiet]
    BY DEF Restart
<1>3. BeatmapsType'
    BY <1>1, <1>2 DEF BeatmapsType, Missing
<1>4. CachedAreThere'
    BY <1>2 DEF CachedAreThere
<1>5. WorkIsThere' /\ GoneAreRemoved'
    BY <1>2 DEF WorkIsThere, WithSet, GoneAreRemoved, Quiet
<1>6. Born'
    BY <1>1, <1>2 DEF Born, Missing
<1>7. QED  BY <1>1, <1>3, <1>4, <1>5, <1>6 DEF KeepsScores

LEMMA StartKeeps ==
    ASSUME BeatmapsConstants, KeepsInv, NEW r \in Request,
           NEW at \in {"find", "set", "update"}, NEW o \in SetObj \cup {Nothing}, NEW m \in Asked,
           Starts(r, at, o, m), at = "update" => o # Nothing
    PROVE  KeepsInv' /\ KeepsScores
<1> USE DEF KeepsInv
<1>1. BeatmapsType'
    BY Started DEF BeatmapsType
<1>2. CachedAreThere' /\ WorkIsThere'
    <2>1. UNCHANGED <<maps, byMd5, byId, beatmapset>> /\ \A s \in Request : s # r => request'[s] = request[s]
        BY Started
    <2>2. request'[r].at = at /\ request'[r].set = o /\ request'[r].caches = (at # "update")
        BY Started
    <2>3. /\ request'[r].at # "rule"
          /\ request'[r].at \in WithSet => request'[r].set \in SetObj
          /\ request'[r].at \in {"find", "set", "osuapi"} => request'[r].caches
        BY <2>2 DEF WithSet
    <2>4. /\ \A m1 \in Md5 : byMd5'[m1] # Nothing => beatmapset' # Nothing /\ maps[byMd5'[m1]][m1[1]] # Nothing
          /\ \A i \in Id : byId'[i] # Nothing => beatmapset' # Nothing /\ maps[byId'[i]][i] # Nothing
        BY <2>1 DEF CachedAreThere
    <2>5. QED  BY <1>1, <2>1, <2>3, <2>4, StillThere
<1>3. Born' /\ KeepsScores
    BY Started DEF Born, KeepsScores
<1>4. GoneAreRemoved'
    BY StillRemoved, Started
<1>5. QED  BY <1>1, <1>2, <1>3, <1>4

LEMMA LookKeeps ==
    ASSUME BeatmapsConstants, KeepsInv, NEW r \in Request, FindSet(r) \/ _from_bsid_cache(r)
    PROVE  KeepsInv' /\ KeepsScores
<1> USE DEF KeepsInv
<1>1. UNCHANGED <<api, row, mapset, maps, byMd5, byId, beatmapset>>
    BY DEF FindSet, _from_bsid_cache
<1>2. /\ request' \in [Request -> Job \cup {Quiet}]
      /\ \A s \in Request : s # r => request'[s] = request[s]
      /\ request'[r].at \notin {"delete", "drop", "rule"}
      /\ request'[r].at \in WithSet => request'[r].set \in SetObj
      /\ request'[r].at \in {"find", "set", "osuapi"} => request'[r].caches
    <2>1. CASE Found(r) /\ request[r].at = "find"
        <3> DEFINE q == [request[r] EXCEPT !.at = "set", !.md5 = Nothing]
        <3>1. request[r] \in Job /\ request[r].caches
            BY <2>1, AtWork DEF WorkIsThere
        <3>2. q \in Job
            BY <3>1 DEF Job, Asked
        <3>3. q.at = "set" /\ q.caches
            BY <3>1 DEF Job
        <3>4. request' = [request EXCEPT ![r] = q]
            BY <2>1 DEF Found
        <3>5. request'[r] = q
            BY <3>4 DEF BeatmapsType
        <3> HIDE DEF q
        <3>6. QED  BY <3>2, <3>3, <3>4, <3>5 DEF BeatmapsType, WithSet
    <2>2. CASE Ends(r)
        BY <2>2, EndsQuiet DEF WithSet
    <2>3. CASE _from_bsid_cache(r)
        <3>1. request[r].at = "set" /\ beatmapset \in SetObj
            BY <2>3 DEF _from_bsid_cache, BeatmapsType
        <3>2. request[r] # Quiet
            BY <3>1, AtWork
        <3>3. PICK at \in {"update", "cache"} : Goes(r, at, beatmapset)
            BY <2>3 DEF _from_bsid_cache
        <3>4. QED  BY <3>1, <3>2, <3>3, GoesTo DEF WithSet
    <2>4. QED  BY <2>1, <2>2, <2>3 DEF FindSet
<1>3. BeatmapsType'
    BY <1>1, <1>2 DEF BeatmapsType
<1>4. /\ \A m \in Md5 : byMd5'[m] # Nothing => beatmapset' # Nothing /\ maps[byMd5'[m]][m[1]] # Nothing
      /\ \A i \in Id : byId'[i] # Nothing => beatmapset' # Nothing /\ maps[byId'[i]][i] # Nothing
    BY <1>1 DEF CachedAreThere
<1>5. CachedAreThere' /\ WorkIsThere'
    BY <1>1, <1>2, <1>3, <1>4, StillThere
<1>6. Born' /\ KeepsScores
    BY <1>1 DEF Born, KeepsScores
<1>7. GoneAreRemoved'
    BY <1>1, <1>2, StillRemoved
<1>8. QED  BY <1>3, <1>5, <1>6, <1>7

LEMMA KnownTyped ==
    ASSUME BeatmapsType, NEW i \in Id, Known(i)
    PROVE  api[i].ver \in Version /\ api[i].status \in Status
<1>1. api[i] \in ApiType
    BY DEF BeatmapsType
<1>2. api[i] \notin [ver : {0}, status : {"unborn", "removed"}]
    BY DEF Known
<1>3. QED  BY <1>1, <1>2 DEF ApiType

\* What parse_from_osuapi_resp makes of a map.
LEMMA ParsedTyped ==
    ASSUME BeatmapsType, NEW i \in Id, Known(i), NEW old,
           old.frozen \in BOOLEAN, old.set \in BOOLEAN, old.frozen => old.status \in Status
    PROVE  Parsed(i, old) \in MapType
<1>1. (IF old.frozen THEN old.status ELSE api[i].status) \in Status
    BY KnownTyped
<1>2. QED  BY <1>1, KnownTyped DEF Parsed, MapType

\* A set object that was free.
LEMMA FreeIsNew ==
    ASSUME BeatmapsType, NEW o \in SetObj, Free(o), NEW objects,
           maps' = [maps EXCEPT ![o] = objects], objects \in [Id -> MapType \cup {Nothing}]
    PROVE  /\ maps' \in [SetObj -> [Id -> MapType \cup {Nothing}]]
           /\ maps'[o] = objects
           /\ \A p \in SetObj, i \in Id : maps[p][i] # Nothing => maps'[p] = maps[p]
<1>1. \A i \in Id : maps[o][i] = Nothing
    BY DEF Free, Missing
<1>2. QED  BY <1>1 DEF BeatmapsType

LEMMA SqlKeeps ==
    ASSUME BeatmapsConstants, KeepsInv, NEW r \in Request, _from_bsid_sql(r)
    PROVE  KeepsInv' /\ KeepsScores
<1> USE DEF KeepsInv
<1>1. UNCHANGED <<api, row, mapset, byMd5, byId, beatmapset>> /\ request[r].at = "set"
    BY DEF _from_bsid_sql
<1>2. request[r] # Quiet /\ request[r].caches
    BY <1>1, AtWork DEF WorkIsThere
<1>3. /\ maps' \in [SetObj -> [Id -> MapType \cup {Nothing}]]
      /\ \A p \in SetObj, i \in Id : maps[p][i] # Nothing => maps'[p] = maps[p]
      /\ \A p \in SetObj, i \in Id : maps'[p][i] # Nothing => maps[p][i] # Nothing \/ row[i] # Nothing
      /\ \E at \in {"update", "cache", "osuapi"}, o \in SetObj \cup {Nothing} :
            Goes(r, at, o) /\ (at # "osuapi" => o # Nothing)
    <2>1. CASE mapset
        <3> DEFINE B(i) == IF row[i] = Nothing THEN Nothing
                           ELSE [ver |-> row[i].ver, status |-> row[i].status, frozen |-> row[i].frozen,
                                 set |-> TRUE, listed |-> TRUE]
        <3>1. PICK o \in SetObj : /\ Free(o) /\ maps' = [maps EXCEPT ![o] = [i \in Id |-> B(i)]]
                                  /\ Goes(r, "update", o) \/ Goes(r, "cache", o)
            BY <2>1 DEF _from_bsid_sql
        <3>2. \A i \in Id : B(i) \in MapType \cup {Nothing}
            BY DEF BeatmapsType, RowType, MapType
        <3>3. \A i \in Id : B(i) # Nothing => row[i] # Nothing
            OBVIOUS
        <3> HIDE DEF B
        <3>4. [i \in Id |-> B(i)] \in [Id -> MapType \cup {Nothing}]
            BY <3>2
        <3>5. /\ maps' \in [SetObj -> [Id -> MapType \cup {Nothing}]]
              /\ maps'[o] = [i \in Id |-> B(i)]
              /\ \A p \in SetObj, i \in Id : maps[p][i] # Nothing => maps'[p] = maps[p]
            BY <3>1, <3>4, FreeIsNew
        <3>6. \A p \in SetObj : p # o => maps'[p] = maps[p]
            BY <3>1 DEF BeatmapsType
        <3>7. \A p \in SetObj, i \in Id : maps'[p][i] # Nothing => maps[p][i] # Nothing \/ row[i] # Nothing
            BY <3>3, <3>5, <3>6
        <3>8. o # Nothing
            BY DEF BeatmapsConstants
        <3>9. QED  BY <3>1, <3>5, <3>7, <3>8
    <2>2. CASE ~mapset
        <3>1. Goes(r, "osuapi", Nothing) /\ UNCHANGED maps
            BY <2>2 DEF _from_bsid_sql
        <3>2. QED  BY <3>1 DEF BeatmapsType
    <2>3. QED  BY <2>1, <2>2
<1>4. PICK at \in {"update", "cache", "osuapi"} : \E o \in SetObj \cup {Nothing} :
            Goes(r, at, o) /\ (at # "osuapi" => o # Nothing)
    BY <1>3
<1>5. PICK o \in SetObj \cup {Nothing} : Goes(r, at, o) /\ (at # "osuapi" => o # Nothing)
    BY <1>4
<1>6. /\ request' \in [Request -> Job \cup {Quiet}]
      /\ \A s \in Request : s # r => request'[s] = request[s]
      /\ request'[r].at = at /\ request'[r].set = o /\ request'[r].caches
    BY <1>2, <1>5, GoesTo
<1>7. BeatmapsType'
    BY <1>1, <1>3, <1>6 DEF BeatmapsType
<1>8. /\ \A m \in Md5 : byMd5'[m] # Nothing => beatmapset' # Nothing /\ maps[byMd5'[m]][m[1]] # Nothing
      /\ \A i \in Id : byId'[i] # Nothing => beatmapset' # Nothing /\ maps[byId'[i]][i] # Nothing
    BY <1>1 DEF CachedAreThere
<1>9. CachedAreThere' /\ WorkIsThere'
    <2>1. request'[r].at \in WithSet => request'[r].set \in SetObj
        BY <1>5, <1>6 DEF WithSet
    <2>2. \A p \in SetObj, i \in Id : Held(p) /\ maps[p][i] # Nothing => maps'[p][i] # Nothing
        BY <1>3
    <2>3. QED  BY <1>1, <1>6, <1>7, <1>8, <2>1, <2>2, StillThere
<1>10. Born' /\ KeepsScores
    <2>1. Born'
        BY <1>1, <1>3, StillBorn
    <2>2. QED  BY <1>1, <2>1 DEF KeepsScores
<1>11. GoneAreRemoved'
    BY <1>1, <1>6, StillRemoved
<1>12. QED  BY <1>7, <1>9, <1>10, <1>11

LEMMA OsuapiKeeps ==
    ASSUME BeatmapsConstants, KeepsInv, NEW r \in Request, _from_bsid_osuapi(r)
    PROVE  KeepsInv' /\ KeepsScores
<1> USE DEF KeepsInv
<1>1. UNCHANGED <<api, row, mapset, byMd5, byId, beatmapset>> /\ request[r].at = "osuapi"
    BY DEF _from_bsid_osuapi
<1>2. request[r] # Quiet /\ request[r].caches
    BY <1>1, AtWork DEF WorkIsThere
<1>3. /\ maps' \in [SetObj -> [Id -> MapType \cup {Nothing}]]
      /\ \A p \in SetObj, i \in Id : maps[p][i] # Nothing => maps'[p] = maps[p]
      /\ \A p \in SetObj, i \in Id : maps'[p][i] # Nothing => maps[p][i] # Nothing \/ Known(i)
      /\ Ends(r) \/ \E o \in SetObj : Goes(r, "save", o)
    <2>1. PICK data \in SUBSET Id :
              /\ Answers(data)
              /\ IF data = {} THEN Ends(r) /\ UNCHANGED maps
                 ELSE \E o \in {s \in SetObj : Free(s)} :
                    /\ maps' = [maps EXCEPT ![o] = [i \in Id |->
                          IF i \notin data THEN Nothing
                          ELSE Parsed(i, IF row[i] # Nothing /\ row[i].frozen
                                         THEN [status |-> row[i].status, frozen |-> TRUE, set |-> TRUE]
                                         ELSE [frozen |-> FALSE, set |-> TRUE])]]
                    /\ Goes(r, "save", o)
        BY DEF _from_bsid_osuapi
    <2>2. CASE data = {}
        BY <2>1, <2>2 DEF BeatmapsType
    <2>3. CASE data # {}
        <3> DEFINE old(i) == IF row[i] # Nothing /\ row[i].frozen
                             THEN [status |-> row[i].status, frozen |-> TRUE, set |-> TRUE]
                             ELSE [frozen |-> FALSE, set |-> TRUE]
                   B(i) == IF i \notin data THEN Nothing ELSE Parsed(i, old(i))
        <3>1. PICK o \in SetObj : /\ Free(o) /\ maps' = [maps EXCEPT ![o] = [i \in Id |-> B(i)]]
                                  /\ Goes(r, "save", o)
            BY <2>1, <2>3
        <3>2. \A i \in data : Known(i)
            BY <2>1 DEF Answers
        <3>3. \A i \in Id : old(i).frozen \in BOOLEAN /\ old(i).set \in BOOLEAN /\ (old(i).frozen => old(i).status \in Status)
            <4> SUFFICES ASSUME NEW i \in Id
                         PROVE  old(i).frozen \in BOOLEAN /\ old(i).set \in BOOLEAN /\ (old(i).frozen => old(i).status \in Status)
                OBVIOUS
            <4>1. CASE row[i] # Nothing /\ row[i].frozen
                BY <4>1 DEF BeatmapsType, RowType
            <4>2. CASE ~(row[i] # Nothing /\ row[i].frozen)
                <5>1. old(i) = [frozen |-> FALSE, set |-> TRUE]
                    BY <4>2
                <5>2. QED  BY <5>1
            <4>3. QED  BY <4>1, <4>2
        <3> HIDE DEF old
        <3>4. \A i \in data : Parsed(i, old(i)) \in MapType
            <4> SUFFICES ASSUME NEW i \in data PROVE Parsed(i, old(i)) \in MapType
                OBVIOUS
            <4>1. i \in Id
                OBVIOUS
            <4>2. QED  BY <3>2, <3>3, <4>1, ParsedTyped
        <3>5. \A i \in Id : B(i) \in MapType \cup {Nothing} /\ (B(i) # Nothing => Known(i))
            BY <3>2, <3>4
        <3> HIDE DEF B
        <3>6. [i \in Id |-> B(i)] \in [Id -> MapType \cup {Nothing}]
            BY <3>5
        <3>7. /\ maps' \in [SetObj -> [Id -> MapType \cup {Nothing}]]
              /\ maps'[o] = [i \in Id |-> B(i)]
              /\ \A p \in SetObj, i \in Id : maps[p][i] # Nothing => maps'[p] = maps[p]
            BY <3>1, <3>6, FreeIsNew
        <3>8. \A p \in SetObj : p # o => maps'[p] = maps[p]
            BY <3>1 DEF BeatmapsType
        <3>9. \A p \in SetObj, i \in Id : maps'[p][i] # Nothing => maps[p][i] # Nothing \/ Known(i)
            BY <3>5, <3>7, <3>8
        <3>10. QED  BY <3>1, <3>7, <3>9
    <2>4. QED  BY <2>2, <2>3
<1>4. /\ request' \in [Request -> Job \cup {Quiet}]
      /\ \A s \in Request : s # r => request'[s] = request[s]
      /\ request'[r].at \in {"quiet", "save"}
      /\ request'[r].at = "save" => request'[r].set \in SetObj
    BY <1>2, <1>3, GoesTo, EndsQuiet
<1>5. BeatmapsType'
    BY <1>1, <1>3, <1>4 DEF BeatmapsType
<1>6. /\ \A m \in Md5 : byMd5'[m] # Nothing => beatmapset' # Nothing /\ maps[byMd5'[m]][m[1]] # Nothing
      /\ \A i \in Id : byId'[i] # Nothing => beatmapset' # Nothing /\ maps[byId'[i]][i] # Nothing
    BY <1>1 DEF CachedAreThere
<1>7. CachedAreThere' /\ WorkIsThere'
    <2>1. request'[r].at \in WithSet => request'[r].set \in SetObj
        BY <1>4 DEF WithSet
    <2>2. \A p \in SetObj, i \in Id : Held(p) /\ maps[p][i] # Nothing => maps'[p][i] # Nothing
        BY <1>3
    <2>3. QED  BY <1>1, <1>4, <1>5, <1>6, <2>1, <2>2, StillThere
<1>8. Born' /\ KeepsScores
    <2>1. Born'
        BY <1>1, <1>3, StillBorn
    <2>2. QED  BY <1>1, <2>1 DEF KeepsScores
<1>9. GoneAreRemoved'
    BY <1>1, <1>4, StillRemoved
<1>10. QED  BY <1>5, <1>7, <1>8, <1>9

\* What is saved of a set.
LEMMA SavedRows ==
    ASSUME BeatmapsConstants, BeatmapsType, NEW o \in SetObj
    PROVE  /\ Saved(o) \in [Id -> RowType \cup {Nothing}]
           /\ \A i \in Id : i \in Listed(o) => /\ Saved(o)[i] # Nothing /\ Saved(o)[i].ver = maps[o][i].ver
                                               /\ Saved(o)[i].status = maps[o][i].status
           /\ \A i \in Id : i \notin Listed(o) => Saved(o)[i] = row[i]
<1> DEFINE B(i) == [ver |-> maps[o][i].ver, status |-> maps[o][i].status, frozen |-> maps[o][i].frozen]
           A(i) == IF i \in Listed(o) THEN B(i) ELSE row[i]
<1>1. \A i \in Listed(o) : maps[o][i] \in MapType
    BY DEF Listed, BeatmapsType
<1>2. \A i \in Listed(o) : B(i) \in RowType
    BY <1>1 DEF MapType, RowType
<1>3. \A i \in Listed(o) : B(i) # Nothing
    BY <1>2 DEF BeatmapsConstants
<1>4. \A i \in Id : A(i) \in RowType \cup {Nothing}
    BY <1>2 DEF BeatmapsType
<1>5. Saved(o) = [i \in Id |-> A(i)]
    BY DEF Saved
<1>6. \A i \in Id : i \in Listed(o) => A(i) = B(i)
    OBVIOUS
<1>7. \A i \in Id : i \notin Listed(o) => A(i) = row[i]
    OBVIOUS
<1>8. \A i \in Listed(o) : B(i).ver = maps[o][i].ver /\ B(i).status = maps[o][i].status
    OBVIOUS
<1> HIDE DEF A, B
<1>9. QED  BY <1>3, <1>4, <1>5, <1>6, <1>7, <1>8

LEMMA SaveKeeps ==
    ASSUME BeatmapsConstants, KeepsInv, NEW r \in Request, _save_to_sql(r)
    PROVE  KeepsInv' /\ KeepsScores
<1> USE DEF KeepsInv
<1> DEFINE o == request[r].set
<1>1. /\ UNCHANGED <<api, byMd5, byId, beatmapset>> /\ request[r].at = "save"
      /\ mapset' = TRUE /\ row' = Saved(o) /\ maps' = Collect(maps)
      /\ Ends(r) \/ Goes(r, "cache", o)
    BY DEF _save_to_sql
<1>2. request[r] # Quiet /\ o \in SetObj
    BY <1>1, AtWork DEF WorkIsThere, WithSet
<1> HIDE DEF o
<1>3. /\ request' \in [Request -> Job \cup {Quiet}]
      /\ \A s \in Request : s # r => request'[s] = request[s]
      /\ request'[r].at \in {"quiet", "cache"}
      /\ request'[r].at = "cache" => request'[r].set \in SetObj
    BY <1>1, <1>2, GoesTo, EndsQuiet
<1>4. /\ row' \in [Id -> RowType \cup {Nothing}]
      /\ \A i \in Id : row'[i] # Nothing => row[i] # Nothing \/ maps[o][i] # Nothing
      /\ \A i \in Id : row[i] # Nothing => row'[i] # Nothing
    BY <1>1, <1>2, SavedRows DEF Listed
<1>5. BeatmapsType'
    BY <1>1, <1>3, <1>4, Collected DEF BeatmapsType
<1>6. /\ \A m \in Md5 : byMd5'[m] # Nothing => beatmapset' # Nothing /\ maps[byMd5'[m]][m[1]] # Nothing
      /\ \A i \in Id : byId'[i] # Nothing => beatmapset' # Nothing /\ maps[byId'[i]][i] # Nothing
    BY <1>1 DEF CachedAreThere
<1>7. CachedAreThere' /\ WorkIsThere'
    <2>1. request'[r].at \in WithSet => request'[r].set \in SetObj
        BY <1>3 DEF WithSet
    <2>2. \A p \in SetObj, i \in Id : Held(p) /\ maps[p][i] # Nothing => maps'[p][i] # Nothing
        BY <1>1, Collected
    <2>3. QED  BY <1>1, <1>3, <1>5, <1>6, <2>1, <2>2, StillThere
<1>8. Born' /\ KeepsScores
    <2>1. \A p \in SetObj, i \in Id : maps'[p][i] # Nothing => maps[p][i] # Nothing
        BY <1>1, Collected
    <2>2. Born'
        BY <1>1, <1>2, <1>4, <2>1, StillBorn
    <2>3. QED  BY <1>1, <1>4, <2>2 DEF KeepsScores
<1>9. GoneAreRemoved'
    BY <1>1, <1>3, StillRemoved
<1>10. QED  BY <1>5, <1>7, <1>8, <1>9

\* The cache holds the set's objects, and what it held of others.
LEMMA CachedSet ==
    ASSUME BeatmapsConstants, BeatmapsType, NEW r \in Request, cache_beatmap_set(r)
    PROVE  LET o == request[r].set IN
           /\ UNCHANGED <<api, row, mapset, raced, missed>> /\ beatmapset' = o /\ maps' = Collect(maps)
           /\ \A m \in Md5 : m[1] \in Id /\ (byMd5'[m] = byMd5[m] \/ (byMd5'[m] = o /\ m[1] \in Listed(o)))
           /\ \A i \in Id : byId'[i] = byId[i] \/ (byId'[i] = o /\ i \in Listed(o))
           /\ o \in SetObj => byMd5' \in [Md5 -> SetObj \cup {Nothing}] /\ byId' \in [Id -> SetObj \cup {Nothing}]
<1> DEFINE o == request[r].set
<1>1. /\ beatmapset' = o /\ maps' = Collect(maps)
      /\ byMd5' = [m \in Md5 |-> IF m[1] \in Listed(o) /\ m = Md5Of(o, m[1]) THEN o ELSE byMd5[m]]
      /\ byId' = [i \in Id |-> IF i \in Listed(o) THEN o ELSE byId[i]]
    BY DEF cache_beatmap_set
<1>2. UNCHANGED <<api, row, mapset, raced, missed>>
    BY DEF cache_beatmap_set
<1> HIDE DEF o
<1>3. \A m \in Md5 : m[1] \in Id
    BY DEF Md5
<1>4. \A m \in Md5 : byMd5'[m] = byMd5[m] \/ (byMd5'[m] = o /\ m[1] \in Listed(o))
    BY <1>1
<1>5. \A i \in Id : byId'[i] = byId[i] \/ (byId'[i] = o /\ i \in Listed(o))
    BY <1>1
<1>6. o \in SetObj => byMd5' \in [Md5 -> SetObj \cup {Nothing}]
    BY <1>1 DEF BeatmapsType
<1>7. o \in SetObj => byId' \in [Id -> SetObj \cup {Nothing}]
    BY <1>1 DEF BeatmapsType
<1>8. QED  BY <1>1, <1>2, <1>3, <1>4, <1>5, <1>6, <1>7 DEF o

LEMMA CacheKeeps ==
    ASSUME BeatmapsConstants, KeepsInv, NEW r \in Request, cache_beatmap_set(r)
    PROVE  KeepsInv' /\ KeepsScores
<1> USE DEF KeepsInv
<1> DEFINE o == request[r].set
<1>1. request[r].at = "cache" /\ Ends(r)
    BY DEF cache_beatmap_set
<1>2. o \in SetObj /\ o # Nothing
    BY <1>1 DEF WorkIsThere, WithSet, BeatmapsConstants
<1>3. /\ UNCHANGED <<api, row, mapset>> /\ beatmapset' = o /\ maps' = Collect(maps)
      /\ \A m \in Md5 : m[1] \in Id /\ (byMd5'[m] = byMd5[m] \/ (byMd5'[m] = o /\ m[1] \in Listed(o)))
      /\ \A i \in Id : byId'[i] = byId[i] \/ (byId'[i] = o /\ i \in Listed(o))
      /\ byMd5' \in [Md5 -> SetObj \cup {Nothing}] /\ byId' \in [Id -> SetObj \cup {Nothing}]
    BY <1>2, CachedSet
<1> HIDE DEF o
<1>4. /\ request' \in [Request -> Job \cup {Quiet}]
      /\ \A s \in Request : s # r => request'[s] = request[s]
      /\ request'[r].at = "quiet"
    BY <1>1, EndsQuiet
<1>5. BeatmapsType'
    BY <1>2, <1>3, <1>4, Collected DEF BeatmapsType
<1>6. /\ \A m \in Md5 : byMd5'[m] # Nothing => beatmapset' # Nothing /\ maps[byMd5'[m]][m[1]] # Nothing
      /\ \A i \in Id : byId'[i] # Nothing => beatmapset' # Nothing /\ maps[byId'[i]][i] # Nothing
    <2>1. \A i \in Listed(o) : maps[o][i] # Nothing
        BY DEF Listed
    <2>2. QED  BY <1>2, <1>3, <2>1 DEF CachedAreThere
<1>7. CachedAreThere' /\ WorkIsThere'
    <2>2. \A p \in SetObj, i \in Id : Held(p) /\ maps[p][i] # Nothing => maps'[p][i] # Nothing
        BY <1>3, Collected
    <2>3. QED  BY <1>2, <1>3, <1>4, <1>5, <1>6, <2>2, StillThere DEF WithSet
<1>8. Born' /\ KeepsScores
    <2>1. \A p \in SetObj, i \in Id : maps'[p][i] # Nothing => maps[p][i] # Nothing
        BY <1>3, Collected
    <2>2. Born'
        BY <1>3, <2>1, StillBorn
    <2>3. QED  BY <1>3, <2>2 DEF KeepsScores
<1>9. GoneAreRemoved'
    BY <1>3, <1>4, StillRemoved
<1>10. QED  BY <1>5, <1>7, <1>8, <1>9

\* What an update leaves of a Beatmap.
LEMMA UpdatedMaps ==
    ASSUME BeatmapsType, NEW o \in SetObj, NEW data \in SUBSET Id, Answers(data)
    PROVE  /\ Updated(o, data) \in [Id -> MapType \cup {Nothing}]
           /\ \A i \in Id : maps[o][i] # Nothing /\ Nothing \notin MapType => Updated(o, data)[i] # Nothing
           /\ \A i \in Id : Updated(o, data)[i] # Nothing => maps[o][i] # Nothing \/ Known(i)
           /\ \A i \in data : Updated(o, data)[i].listed
           /\ \A i \in Id : i \notin data /\ Updated(o, data)[i] # Nothing => ~Updated(o, data)[i].listed
<1> DEFINE U(i) == IF i \notin data THEN IF maps[o][i] = Nothing THEN Nothing ELSE [maps[o][i] EXCEPT !.listed = FALSE]
                   ELSE IF i \in Listed(o)
                        THEN IF maps[o][i].ver = api[i].ver THEN maps[o][i] ELSE Parsed(i, maps[o][i])
                        ELSE Parsed(i, [frozen |-> FALSE, set |-> FALSE])
<1>1. Updated(o, data) = [i \in Id |-> U(i)]
    BY DEF Updated
<1>2. \A i \in Id : maps[o][i] \in MapType \cup {Nothing}
    BY DEF BeatmapsType
<1>3. \A i \in data : i \in Id /\ Known(i)
    BY DEF Answers
<1>4. ASSUME NEW i \in data
      PROVE  U(i) \in MapType /\ U(i).listed
    <2>1. CASE i \in Listed(o)
        <3>1. maps[o][i] \in MapType /\ maps[o][i].listed
            BY <1>2, <1>3, <2>1 DEF Listed
        <3>2. Parsed(i, maps[o][i]) \in MapType
            BY <1>3, <3>1, ParsedTyped DEF MapType
        <3>3. Parsed(i, maps[o][i]).listed
            BY DEF Parsed
        <3>4. QED  BY <2>1, <3>1, <3>2, <3>3
    <2>2. CASE i \notin Listed(o)
        <3> DEFINE old == [frozen |-> FALSE, set |-> FALSE]
        <3>1. old.frozen = FALSE /\ old.set = FALSE
            OBVIOUS
        <3>2. old.frozen \in BOOLEAN /\ old.set \in BOOLEAN /\ (old.frozen => old.status \in Status)
            BY <3>1
        <3> HIDE DEF old
        <3>3. Parsed(i, old) \in MapType
            BY <1>3, <3>2, ParsedTyped
        <3>4. Parsed(i, old).listed
            BY DEF Parsed
        <3>5. QED  BY <2>2, <3>3, <3>4 DEF old
    <2>3. QED  BY <2>1, <2>2
<1>5. ASSUME NEW i \in Id, i \notin data
      PROVE  /\ U(i) \in MapType \cup {Nothing}
             /\ maps[o][i] = Nothing => U(i) = Nothing
             /\ maps[o][i] # Nothing => U(i) \in MapType /\ U(i).listed = FALSE
    <2>1. CASE maps[o][i] = Nothing
        BY <1>5, <2>1
    <2>2. CASE maps[o][i] # Nothing
        <3>1. maps[o][i] \in MapType
            BY <1>2, <2>2
        <3>2. [maps[o][i] EXCEPT !.listed = FALSE] \in MapType /\ [maps[o][i] EXCEPT !.listed = FALSE].listed = FALSE
            BY <3>1 DEF MapType
        <3>3. QED  BY <1>5, <2>2, <3>2
    <2>3. QED  BY <2>1, <2>2
<1> HIDE DEF U
<1>6. \A i \in Id : U(i) \in MapType \cup {Nothing}
    BY <1>4, <1>5
<1>7. \A i \in Id : Updated(o, data)[i] = U(i)
    BY <1>1
<1>8. Updated(o, data) \in [Id -> MapType \cup {Nothing}]
    BY <1>1, <1>6
<1>9. \A i \in Id : maps[o][i] # Nothing /\ Nothing \notin MapType => Updated(o, data)[i] # Nothing
    BY <1>4, <1>5, <1>7
<1>10. \A i \in Id : Updated(o, data)[i] # Nothing => maps[o][i] # Nothing \/ Known(i)
    BY <1>3, <1>5, <1>7
<1>11. \A i \in data : Updated(o, data)[i].listed
    BY <1>3, <1>4, <1>7
<1>12. \A i \in Id : i \notin data /\ Updated(o, data)[i] # Nothing => ~Updated(o, data)[i].listed
    BY <1>5, <1>7
<1>13. QED  BY <1>8, <1>9, <1>10, <1>11, <1>12

\* The step of an update: what the request knows, and what becomes of the set.
LEMMA Fetched ==
    ASSUME BeatmapsType, NEW r \in Request, UpdateFetches(r), request[r].set \in SetObj
    PROVE  \E data \in SUBSET Id :
             LET o == request[r].set IN
             /\ Answers(data)
             /\ maps' = IF data = {} THEN maps ELSE [maps EXCEPT ![o] = Updated(o, data)]
             /\ request' \in [Request -> Job \cup {Quiet}]
             /\ \A s \in Request : s # r => request'[s] = request[s]
             /\ request'[r] # Quiet /\ request'[r].set = o /\ request'[r].caches = request[r].caches
             /\ request'[r].at = IF data = {} THEN "drop" ELSE IF Deleted(o, data) = {} THEN "save" ELSE "delete"
             /\ request'[r].gone = Deleted(o, data)
             /\ request'[r].failed = (data = {} /\ \E i \in Id : Known(i))
<1> DEFINE o == request[r].set
           at(data) == IF data = {} THEN "drop" ELSE IF Deleted(o, data) = {} THEN "save" ELSE "delete"
           failed(data) == (data = {} /\ \E i \in Id : Known(i))
           q(data) == [request[r] EXCEPT !.at = at(data), !.gone = Deleted(o, data), !.failed = failed(data)]
<1>1. PICK data \in SUBSET Id :
          /\ Answers(data)
          /\ maps' = IF data = {} THEN maps ELSE [maps EXCEPT ![o] = Updated(o, data)]
          /\ request' = [request EXCEPT ![r] = q(data)]
    BY DEF UpdateFetches
<1>2. request[r] \in Job
    BY AtWork DEF UpdateFetches
<1>3. Deleted(o, data) \in SUBSET Md5
    <2>1. \A i \in Listed(o) : i \in Id /\ maps[o][i] \in MapType
        BY DEF Listed, BeatmapsType
    <2>2. \A i \in Listed(o) : maps[o][i].ver \in Version
        BY <2>1 DEF MapType
    <2>3. \A i \in Listed(o) : Md5Of(o, i) \in Md5
        BY <2>1, <2>2 DEF Md5Of, Md5
    <2> HIDE DEF o
    <2>4. QED  BY <2>3 DEF Deleted
<1>4. at(data) \in {"drop", "save", "delete"} /\ failed(data) \in BOOLEAN
    OBVIOUS
<1> HIDE DEF at, failed, o
<1>5. q(data) \in Job
    BY <1>2, <1>3, <1>4 DEF Job
<1>6. q(data).at = at(data) /\ q(data).gone = Deleted(o, data) /\ q(data).failed = failed(data)
    BY <1>2 DEF Job
<1>7. q(data).set = request[r].set /\ q(data).caches = request[r].caches
    BY <1>2 DEF Job
<1>8. q(data) # Quiet
    BY <1>4, <1>6 DEF Quiet
<1> HIDE DEF q
<1>9. request'[r] = q(data) /\ \A s \in Request : s # r => request'[s] = request[s]
    BY <1>1 DEF BeatmapsType
<1>10. request' \in [Request -> Job \cup {Quiet}]
    BY <1>1, <1>5 DEF BeatmapsType
<1>11. QED  BY <1>1, <1>6, <1>7, <1>8, <1>9, <1>10 DEF o, at, failed

LEMMA FetchKeeps ==
    ASSUME BeatmapsConstants, KeepsInv, NEW r \in Request, UpdateFetches(r)
    PROVE  KeepsInv' /\ KeepsScores
<1> USE DEF KeepsInv
<1> DEFINE o == request[r].set
<1>1. UNCHANGED <<api, row, mapset, byMd5, byId, beatmapset>> /\ request[r].at = "update"
    BY DEF UpdateFetches
<1>2. o \in SetObj
    BY <1>1 DEF WorkIsThere, WithSet
<1>3. PICK data \in SUBSET Id :
             /\ Answers(data)
             /\ maps' = IF data = {} THEN maps ELSE [maps EXCEPT ![o] = Updated(o, data)]
             /\ request' \in [Request -> Job \cup {Quiet}]
             /\ \A s \in Request : s # r => request'[s] = request[s]
             /\ request'[r] # Quiet /\ request'[r].set = o /\ request'[r].caches = request[r].caches
             /\ request'[r].at = IF data = {} THEN "drop" ELSE IF Deleted(o, data) = {} THEN "save" ELSE "delete"
             /\ request'[r].gone = Deleted(o, data)
             /\ request'[r].failed = (data = {} /\ \E i \in Id : Known(i))
    BY <1>2, Fetched
<1> HIDE DEF o
<1>4. /\ maps' \in [SetObj -> [Id -> MapType \cup {Nothing}]]
      /\ \A p \in SetObj, i \in Id : maps[p][i] # Nothing => maps'[p][i] # Nothing
      /\ \A p \in SetObj, i \in Id : maps'[p][i] # Nothing => maps[p][i] # Nothing \/ Known(i)
    <2>1. CASE data = {}
        BY <1>3, <2>1 DEF BeatmapsType
    <2>2. CASE data # {}
        <3>1. /\ Updated(o, data) \in [Id -> MapType \cup {Nothing}]
              /\ \A i \in Id : maps[o][i] # Nothing => Updated(o, data)[i] # Nothing
              /\ \A i \in Id : Updated(o, data)[i] # Nothing => maps[o][i] # Nothing \/ Known(i)
            BY <1>2, <1>3, UpdatedMaps DEF BeatmapsConstants
        <3>2. maps' = [maps EXCEPT ![o] = Updated(o, data)]
            BY <1>3, <2>2
        <3>3. \A p \in SetObj : maps'[p] = IF p = o THEN Updated(o, data) ELSE maps[p]
            BY <3>2 DEF BeatmapsType
        <3>4. QED  BY <1>2, <3>1, <3>2, <3>3 DEF BeatmapsType
    <2>3. QED  BY <2>1, <2>2
<1>5. BeatmapsType'
    BY <1>1, <1>3, <1>4 DEF BeatmapsType
<1>6. /\ \A m \in Md5 : byMd5'[m] # Nothing => beatmapset' # Nothing /\ maps[byMd5'[m]][m[1]] # Nothing
      /\ \A i \in Id : byId'[i] # Nothing => beatmapset' # Nothing /\ maps[byId'[i]][i] # Nothing
    BY <1>1 DEF CachedAreThere
<1>7. CachedAreThere' /\ WorkIsThere'
    <2>1. request'[r].at \notin {"rule", "find", "set", "osuapi"} /\ request'[r].set \in SetObj
        BY <1>2, <1>3
    <2>2. QED  BY <1>1, <1>3, <1>4, <1>5, <1>6, <2>1, StillThere
<1>8. Born' /\ KeepsScores
    <2>1. Born'
        BY <1>1, <1>4, StillBorn
    <2>2. QED  BY <1>1, <2>1 DEF KeepsScores
<1>9. GoneAreRemoved'
    <2>1. ASSUME NEW m \in Deleted(o, data), ~(data = {} /\ \E i \in Id : Known(i))
          PROVE  api[m[1]].status = "removed"
        <3>1. PICK i \in Listed(o) \ data : m = Md5Of(o, i)
            BY <2>1 DEF Deleted
        <3>2. i \in Id /\ m[1] = i /\ maps[o][i] # Nothing
            BY <3>1 DEF Md5Of, Listed
        <3>3. ~Known(i)
            BY <1>3, <2>1, <3>1, <3>2 DEF Answers
        <3>4. api[i].status # "unborn"
            BY <1>2, <3>2 DEF Born
        <3>5. api[i] \in [ver : {0}, status : {"unborn", "removed"}]
            <4>1. api[i] \in ApiType /\ api[i] \notin [ver : Version, status : Status]
                BY <3>2, <3>3 DEF BeatmapsType, Known, Version
            <4>2. QED  BY <4>1 DEF ApiType
        <3>6. QED  BY <3>2, <3>4, <3>5
    <2>2. \A m \in request'[r].gone : request'[r].failed \/ api'[m[1]].status = "removed"
        BY <1>1, <1>3, <2>1
    <2>3. \A s \in Request : s # r /\ request'[s].at \in {"delete", "drop"} =>
              request'[s].failed \/ \A m \in request'[s].gone : api'[m[1]].status = "removed"
        BY <1>1, <1>3 DEF GoneAreRemoved
    <2>4. QED  BY <2>2, <2>3 DEF GoneAreRemoved
<1>10. QED  BY <1>5, <1>7, <1>8, <1>9

\* The rows that are left when some are deleted.
LEMMA DeletedRows ==
    ASSUME BeatmapsType, NEW gone, DeleteMaps(gone)
    PROVE  /\ row' \in [Id -> RowType \cup {Nothing}]
           /\ \A i \in Id : row'[i] = row[i] \/ (row'[i] = Nothing /\ <<i, row[i].ver>> \in gone)
           /\ \A i \in Id : row[i] # Nothing /\ <<i, row[i].ver>> \in gone => row'[i] = Nothing
<1>1. row' = [i \in Id |-> IF row[i] # Nothing /\ <<i, row[i].ver>> \in gone THEN Nothing ELSE row[i]]
    BY DEF DeleteMaps
<1>2. QED  BY <1>1 DEF BeatmapsType

LEMMA DeleteKeeps ==
    ASSUME BeatmapsConstants, KeepsInv, NEW r \in Request, UpdateDeletes(r) \/ UpdateDrops(r)
    PROVE  KeepsInv' /\ KeepsScores
<1> USE DEF KeepsInv
<1>1. /\ UNCHANGED <<api, byMd5, byId, beatmapset>> /\ mapset' \in BOOLEAN
      /\ request[r].at \in {"delete", "drop"} /\ DeleteMaps(request[r].gone)
      /\ maps' = maps \/ maps' = Collect(maps)
    BY DEF UpdateDeletes, UpdateDrops, BeatmapsType
<1>2. request[r] # Quiet /\ request[r].set \in SetObj
    BY <1>1, AtWork DEF WorkIsThere, WithSet
<1>3. /\ request' \in [Request -> Job \cup {Quiet}]
      /\ \A s \in Request : s # r => request'[s] = request[s]
      /\ request'[r].at \in {"quiet", "cache", "save"}
      /\ request'[r].at \in {"cache", "save"} => request'[r].set \in SetObj
    <2>1. Ends(r) \/ \E at \in {"cache", "save"} : Goes(r, at, request[r].set)
        BY DEF UpdateDeletes, UpdateDrops
    <2>2. CASE Ends(r)
        BY <2>2, EndsQuiet
    <2>3. CASE \E at \in {"cache", "save"} : Goes(r, at, request[r].set)
        BY <1>2, <2>3, GoesTo
    <2>4. QED  BY <2>1, <2>2, <2>3
<1>4. /\ row' \in [Id -> RowType \cup {Nothing}]
      /\ \A i \in Id : row'[i] = row[i] \/ (row'[i] = Nothing /\ <<i, row[i].ver>> \in request[r].gone)
    BY <1>1, DeletedRows
<1>5. /\ maps' \in [SetObj -> [Id -> MapType \cup {Nothing}]]
      /\ \A p \in SetObj, i \in Id : Held(p) /\ maps[p][i] # Nothing => maps'[p][i] # Nothing
      /\ \A p \in SetObj, i \in Id : maps'[p][i] # Nothing => maps[p][i] # Nothing
    BY <1>1, Collected DEF BeatmapsType
<1>6. BeatmapsType'
    BY <1>1, <1>3, <1>4, <1>5 DEF BeatmapsType
<1>7. /\ \A m \in Md5 : byMd5'[m] # Nothing => beatmapset' # Nothing /\ maps[byMd5'[m]][m[1]] # Nothing
      /\ \A i \in Id : byId'[i] # Nothing => beatmapset' # Nothing /\ maps[byId'[i]][i] # Nothing
    BY <1>1 DEF CachedAreThere
<1>8. CachedAreThere' /\ WorkIsThere'
    <2>1. request'[r].at \in WithSet => request'[r].set \in SetObj
        BY <1>3 DEF WithSet
    <2>2. QED  BY <1>1, <1>3, <1>5, <1>6, <1>7, <2>1, StillThere
<1>9. Born'
    <2>1. \A i \in Id : row'[i] # Nothing => row[i] # Nothing
        BY <1>4
    <2>2. QED  BY <1>1, <1>5, <2>1, StillBorn
<1>10. KeepsScores
    <2> SUFFICES ASSUME NEW i \in Id, row[i] # Nothing, row'[i] = Nothing
                 PROVE  api[i].status = "removed" \/ request[r].failed
        BY <1>2 DEF KeepsScores, Working
    <2>1. <<i, row[i].ver>> \in request[r].gone
        BY <1>4
    <2>2. request[r].failed \/ api[<<i, row[i].ver>>[1]].status = "removed"
        BY <1>1, <2>1 DEF GoneAreRemoved
    <2>3. QED  BY <2>2
<1>11. GoneAreRemoved'
    BY <1>1, <1>3, StillRemoved
<1>12. QED  BY <1>6, <1>8, <1>9, <1>10, <1>11

\* What a ruling does to the rows.
LEMMA RuledRows ==
    ASSUME BeatmapsConstants, BeatmapsType, NEW r \in Request, NEW o \in SetObj, NEW i \in Id,
           NEW status \in Status, NEW all \in BOOLEAN, _map(r, o, i, status, all)
    PROVE  /\ row' \in [Id -> RowType \cup {Nothing}]
           /\ \A j \in Id : row'[j] = Nothing <=> row[j] = Nothing
           /\ \A j \in Id : row[j] # Nothing => row'[j].ver = row[j].ver
           /\ \A j \in Id : row[j] # Nothing =>
                 row'[j].status = IF all \/ j = i THEN status ELSE row[j].status
<1> DEFINE A(j) == [row[j] EXCEPT !.status = status, !.frozen = TRUE]
           B(j) == IF row[j] # Nothing /\ (all \/ j = i) THEN A(j) ELSE row[j]
<1>1. row' = [j \in Id |-> B(j)]
    BY DEF _map
<1>2. \A j \in Id : row[j] # Nothing => row[j] \in RowType
    BY DEF BeatmapsType
<1>3. \A j \in Id : row[j] # Nothing => A(j) \in RowType
    BY <1>2 DEF RowType
<1>4. \A j \in Id : row[j] # Nothing => A(j).ver = row[j].ver /\ A(j).status = status
    BY <1>2 DEF RowType
<1>5. \A j \in Id : row[j] # Nothing => A(j) # Nothing
    BY <1>3 DEF BeatmapsConstants
<1> HIDE DEF A
<1>6. \A j \in Id : B(j) \in RowType \cup {Nothing}
    BY <1>2, <1>3
<1>7. \A j \in Id : row'[j] = B(j)
    BY <1>1
<1>8. \A j \in Id : B(j) = Nothing <=> row[j] = Nothing
    BY <1>5
<1>9. \A j \in Id : row[j] # Nothing => B(j).ver = row[j].ver /\ B(j).status = IF all \/ j = i THEN status ELSE row[j].status
    BY <1>4
<1> HIDE DEF B
<1>10. QED  BY <1>1, <1>6, <1>7, <1>8, <1>9

LEMMA RulingStarts ==
    ASSUME BeatmapsType, NEW r \in Request, NEW o \in SetObj, NEW i \in Id,
           NEW status \in Status, NEW all \in BOOLEAN, _map(r, o, i, status, all)
    PROVE  /\ UNCHANGED <<api, mapset, maps, byMd5, byId, beatmapset, missed>> /\ request[r] = Quiet
           /\ raced' = (raced \/ Working # {})
           /\ request' \in [Request -> Job \cup {Quiet}]
           /\ \A s \in Request : s # r => request'[s] = request[s]
           /\ request'[r] # Quiet /\ request'[r].at = "rule" /\ request'[r].set = o
           /\ request'[r].md5 = <<i, status>> /\ request'[r].caches = all
<1> DEFINE q == [at |-> "rule", set |-> o, md5 |-> <<i, status>>, caches |-> all, gone |-> {}, failed |-> FALSE]
<1>1. /\ UNCHANGED <<api, mapset, maps, byMd5, byId, beatmapset, missed>> /\ request[r] = Quiet
      /\ raced' = (raced \/ Working # {}) /\ request' = [request EXCEPT ![r] = q]
    BY DEF _map
<1>2. q \in Job
    BY DEF Job, Asked
<1>3. q # Quiet
    <2>1. q.at # "quiet"
        OBVIOUS
    <2> HIDE DEF q
    <2>2. QED  BY <2>1 DEF Quiet
<1>4. q.at = "rule" /\ q.set = o /\ q.md5 = <<i, status>> /\ q.caches = all
    OBVIOUS
<1> HIDE DEF q
<1>5. request'[r] = q /\ \A s \in Request : s # r => request'[s] = request[s]
    BY <1>1 DEF BeatmapsType
<1>6. request' \in [Request -> Job \cup {Quiet}]
    BY <1>1, <1>2 DEF BeatmapsType
<1>7. QED  BY <1>1, <1>3, <1>4, <1>5, <1>6

LEMMA RuleKeeps ==
    ASSUME BeatmapsConstants, KeepsInv, NEW r \in Request, NEW o \in SetObj, NEW i \in Id,
           NEW status \in Status, NEW all \in BOOLEAN, _map(r, o, i, status, all)
    PROVE  KeepsInv' /\ KeepsScores
<1> USE DEF KeepsInv
<1>1. /\ UNCHANGED <<api, mapset, maps, byMd5, byId, beatmapset>>
      /\ request' \in [Request -> Job \cup {Quiet}]
      /\ \A s \in Request : s # r => request'[s] = request[s]
      /\ request'[r].at = "rule" /\ request'[r].set = o /\ request'[r].md5 = <<i, status>>
    BY RulingStarts
<1>2. /\ row' \in [Id -> RowType \cup {Nothing}]
      /\ \A j \in Id : row'[j] = Nothing <=> row[j] = Nothing
    BY RuledRows
<1>3. maps[o][i] # Nothing /\ beatmapset # Nothing
    BY DEF _map, CachedAreThere
<1>4. BeatmapsType'
    BY <1>1, <1>2 DEF BeatmapsType
<1>5. CachedAreThere'
    BY <1>1 DEF CachedAreThere
<1>6. WorkIsThere'
    <2>1. <<i, status>> \in Id \X Status /\ <<i, status>>[1] = i
        OBVIOUS
    <2>2. /\ request'[r].at \in WithSet => request'[r].set \in SetObj
          /\ request'[r].at \in {"find", "set", "osuapi"} => request'[r].caches
          /\ request'[r].at = "rule" =>
                /\ beatmapset' # Nothing /\ request'[r].md5 \in Id \X Status
                /\ maps'[request'[r].set][request'[r].md5[1]] # Nothing
        BY <1>1, <1>3, <2>1
    <2>3. ASSUME NEW s \in Request, s # r
          PROVE  /\ request'[s].at \in WithSet => request'[s].set \in SetObj
                 /\ request'[s].at \in {"find", "set", "osuapi"} => request'[s].caches
                 /\ request'[s].at = "rule" =>
                        /\ beatmapset' # Nothing /\ request'[s].md5 \in Id \X Status
                        /\ maps'[request'[s].set][request'[s].md5[1]] # Nothing
        BY <1>1, <2>3 DEF WorkIsThere
    <2>4. QED  BY <2>2, <2>3 DEF WorkIsThere
<1>7. Born' /\ KeepsScores
    BY <1>1, <1>2 DEF Born, KeepsScores
<1>8. GoneAreRemoved'
    BY <1>1, StillRemoved
<1>9. QED  BY <1>4, <1>5, <1>6, <1>7, <1>8

\* What a ruling does to the Beatmaps of the cache.
LEMMA RuledBeatmaps ==
    ASSUME BeatmapsConstants, KeepsInv, NEW r \in Request, _map_caches(r)
    PROVE  LET status == request[r].md5[2]
               these  == RuledMaps(request[r].set, request[r].md5[1], request[r].caches)
           IN  /\ maps' \in [SetObj -> [Id -> MapType \cup {Nothing}]]
               /\ \A o \in SetObj, j \in Id : maps'[o][j] # Nothing <=> maps[o][j] # Nothing
               /\ \A o \in SetObj, j \in Id : maps[o][j] # Nothing =>
                     maps'[o][j].ver = maps[o][j].ver /\ maps'[o][j].listed = maps[o][j].listed
               /\ \A o \in SetObj, j \in Id : maps[o][j] # Nothing =>
                     maps'[o][j].status = IF <<o, j>> \in these THEN status ELSE maps[o][j].status
<1> DEFINE i == request[r].md5[1]
           status == request[r].md5[2]
           these == RuledMaps(request[r].set, i, request[r].caches)
           A(o, j) == [maps[o][j] EXCEPT !.status = status]
           B(o, j) == IF <<o, j>> \in these THEN A(o, j) ELSE maps[o][j]
<1>1. maps' = [o \in SetObj |-> [j \in Id |-> B(o, j)]] /\ request[r].at = "rule"
    BY DEF _map_caches
<1>2. i \in Id /\ status \in Status
    BY <1>1 DEF KeepsInv, WorkIsThere
<1> HIDE DEF i, status
<1>3. \A o \in SetObj, j \in Id : <<o, j>> \in these => maps[o][j] # Nothing
    <2> SUFFICES ASSUME NEW o \in SetObj, NEW j \in Id, <<o, j>> \in these
                 PROVE  maps[o][j] # Nothing
        OBVIOUS
    <2>1. CASE request[r].caches
        BY <2>1 DEF RuledMaps, Listed
    <2>2. CASE ~request[r].caches
        <3>1. byMd5[Md5Of(request[r].set, i)] # Nothing /\ <<o, j>> = <<byMd5[Md5Of(request[r].set, i)], i>>
            BY <2>2 DEF RuledMaps
        <3>2. Md5Of(request[r].set, i) \in Md5
            <4>1. request[r].set \in SetObj /\ maps[request[r].set][i] # Nothing
                BY <1>1 DEF KeepsInv, WorkIsThere, WithSet, i
            <4>2. maps[request[r].set][i] \in MapType
                BY <1>2, <4>1 DEF KeepsInv, BeatmapsType
            <4>3. maps[request[r].set][i].ver \in Version
                BY <4>2 DEF MapType
            <4>4. QED  BY <1>2, <4>3 DEF Md5Of, Md5
        <3>3. maps[byMd5[Md5Of(request[r].set, i)]][i] # Nothing
            BY <3>1, <3>2 DEF KeepsInv, CachedAreThere, Md5Of
        <3>4. QED  BY <3>1, <3>3
    <2>3. QED  BY <2>1, <2>2
<1> HIDE DEF these
<1>4. \A o \in SetObj, j \in Id : maps[o][j] \in MapType \cup {Nothing}
    BY DEF KeepsInv, BeatmapsType
<1>5. \A o \in SetObj, j \in Id : maps[o][j] # Nothing => A(o, j) \in MapType
    BY <1>2, <1>4 DEF MapType
<1>6. \A o \in SetObj, j \in Id : maps[o][j] # Nothing =>
          A(o, j).ver = maps[o][j].ver /\ A(o, j).listed = maps[o][j].listed /\ A(o, j).status = status
    BY <1>4 DEF MapType
<1>7. \A o \in SetObj, j \in Id : maps[o][j] # Nothing => A(o, j) # Nothing
    BY <1>5 DEF BeatmapsConstants
<1> HIDE DEF A
<1>8. \A o \in SetObj, j \in Id : B(o, j) \in MapType \cup {Nothing}
    BY <1>3, <1>4, <1>5
<1>9. \A o \in SetObj, j \in Id : B(o, j) # Nothing <=> maps[o][j] # Nothing
    BY <1>3, <1>7
<1>10. \A o \in SetObj, j \in Id : maps[o][j] # Nothing =>
           B(o, j).ver = maps[o][j].ver /\ B(o, j).listed = maps[o][j].listed
    BY <1>6
<1>11. \A o \in SetObj, j \in Id : maps[o][j] # Nothing =>
           B(o, j).status = IF <<o, j>> \in these THEN status ELSE maps[o][j].status
    BY <1>6
<1> HIDE DEF B
<1>12. \A o \in SetObj, j \in Id : maps'[o][j] = B(o, j)
    BY <1>1
<1>13. maps' \in [SetObj -> [Id -> MapType \cup {Nothing}]]
    BY <1>1, <1>8
<1>14. QED  BY <1>9, <1>10, <1>11, <1>12, <1>13 DEF i, status, these

LEMMA RuleCachesKeeps ==
    ASSUME BeatmapsConstants, KeepsInv, NEW r \in Request, _map_caches(r)
    PROVE  KeepsInv' /\ KeepsScores
<1> USE DEF KeepsInv
<1>1. UNCHANGED <<api, row, mapset, byMd5, byId, beatmapset>> /\ Ends(r)
    BY DEF _map_caches
<1>2. /\ maps' \in [SetObj -> [Id -> MapType \cup {Nothing}]]
      /\ \A o \in SetObj, j \in Id : maps'[o][j] # Nothing <=> maps[o][j] # Nothing
    BY RuledBeatmaps
<1>3. /\ request' \in [Request -> Job \cup {Quiet}]
      /\ \A s \in Request : s # r => request'[s] = request[s]
      /\ request'[r].at = "quiet"
    BY <1>1, EndsQuiet
<1>4. BeatmapsType'
    BY <1>1, <1>2, <1>3 DEF BeatmapsType
<1>5. /\ \A m \in Md5 : byMd5'[m] # Nothing => beatmapset' # Nothing /\ maps[byMd5'[m]][m[1]] # Nothing
      /\ \A i \in Id : byId'[i] # Nothing => beatmapset' # Nothing /\ maps[byId'[i]][i] # Nothing
    BY <1>1 DEF CachedAreThere
<1>6. CachedAreThere' /\ WorkIsThere'
    BY <1>1, <1>2, <1>3, <1>4, <1>5, StillThere DEF WithSet
<1>7. Born' /\ KeepsScores
    BY <1>1, <1>2 DEF Born, KeepsScores
<1>8. GoneAreRemoved'
    BY <1>1, <1>3, StillRemoved
<1>9. QED  BY <1>4, <1>6, <1>7, <1>8

LEMMA InitKeeps ==
    ASSUME BeatmapsConstants, BeatmapsInit
    PROVE  KeepsInv
<1>1. PICK some \in SUBSET Id :
          api = [i \in Id |-> IF i \in some THEN [ver |-> 1, status |-> "pending"] ELSE [ver |-> 0, status |-> "unborn"]]
    BY DEF BeatmapsInit
<1>2. /\ row = Missing /\ mapset = FALSE
      /\ maps = [o \in SetObj |-> Missing]
      /\ byMd5 = [m \in Md5 |-> Nothing] /\ byId = [i \in Id |-> Nothing] /\ beatmapset = Nothing
      /\ request = [r \in Request |-> Quiet]
    BY DEF BeatmapsInit
<1>3. api \in [Id -> ApiType]
    <2>1. 1 \in Version
        BY DEF BeatmapsConstants, Version
    <2>2. [ver |-> 1, status |-> "pending"] \in ApiType /\ [ver |-> 0, status |-> "unborn"] \in ApiType
        BY <2>1 DEF ApiType, Status
    <2>3. QED  BY <1>1, <2>2
<1>4. BeatmapsType
    BY <1>2, <1>3 DEF BeatmapsType, Missing
<1>5. CachedAreThere /\ Born
    BY <1>2 DEF CachedAreThere, Born, Missing
<1>6. WorkIsThere /\ GoneAreRemoved
    BY <1>2 DEF WorkIsThere, GoneAreRemoved, WithSet, Quiet
<1>7. QED  BY <1>4, <1>5, <1>6 DEF KeepsInv

\* The requests that start, as what they start with.
LEMMA StartStep ==
    ASSUME BeatmapsConstants, KeepsInv, NEW r \in Request,
           \/ \E m \in Md5 : _from_md5_cache(r, m) \/ from_md5(r, m)
           \/ \E i \in Id : _from_bid_cache(r, i) \/ from_bid(r, i)
    PROVE  \E at \in {"find", "set", "update"}, o \in SetObj \cup {Nothing}, m \in Asked :
              /\ Starts(r, at, o, m)
              /\ at = "update" => o # Nothing /\ ((\E m1 \in Md5 : o = byMd5[m1]) \/ (\E i \in Id : o = byId[i]))
<1> DEFINE Begins(at, o, m) ==
              /\ Starts(r, at, o, m)
              /\ at = "update" => o # Nothing /\ ((\E m1 \in Md5 : o = byMd5[m1]) \/ (\E i \in Id : o = byId[i]))
<1>1. CASE \E m \in Md5 : _from_md5_cache(r, m) \/ from_md5(r, m)
    <2>1. PICK m \in Md5 : _from_md5_cache(r, m) \/ from_md5(r, m)
        BY <1>1
    <2>2. byMd5[m] \in SetObj \cup {Nothing}
        BY DEF KeepsInv, BeatmapsType
    <2>3. CASE _from_md5_cache(r, m)
        <3>1. Begins("update", byMd5[m], Nothing)
            BY <2>3 DEF _from_md5_cache
        <3>2. QED  BY <2>2, <3>1 DEF Asked
    <2>4. CASE Starts(r, "find", Nothing, m)
        <3>1. Begins("find", Nothing, m)
            BY <2>4
        <3>2. m \in Asked
            BY DEF Md5, Asked
        <3>3. QED  BY <3>1, <3>2
    <2>5. CASE Starts(r, "set", Nothing, Nothing)
        <3>1. Begins("set", Nothing, Nothing)
            BY <2>5
        <3>2. QED  BY <3>1 DEF Asked
    <2>6. QED  BY <2>1, <2>3, <2>4, <2>5 DEF from_md5
<1>2. CASE \E i \in Id : _from_bid_cache(r, i) \/ from_bid(r, i)
    <2>1. PICK i \in Id : _from_bid_cache(r, i) \/ from_bid(r, i)
        BY <1>2
    <2>2. byId[i] \in SetObj \cup {Nothing}
        BY DEF KeepsInv, BeatmapsType
    <2>3. CASE _from_bid_cache(r, i)
        <3>1. Begins("update", byId[i], Nothing)
            BY <2>3 DEF _from_bid_cache
        <3>2. QED  BY <2>2, <3>1 DEF Asked
    <2>4. CASE from_bid(r, i)
        <3>1. Begins("find", Nothing, <<i, 0>>)
            BY <2>4 DEF from_bid
        <3>2. <<i, 0>> \in Asked
            BY DEF Asked
        <3>3. QED  BY <3>1, <3>2
    <2>5. QED  BY <2>1, <2>3, <2>4
<1>3. QED  BY <1>1, <1>2

\* Which steps there are.
Starting(r) == \/ \E m \in Md5 : _from_md5_cache(r, m) \/ from_md5(r, m)
               \/ \E i \in Id : _from_bid_cache(r, i) \/ from_bid(r, i)
Ruling(r) == \E o \in SetObj, i \in Id, s \in Status, all \in BOOLEAN : _map(r, o, i, s, all)

LEMMA Steps ==
    ASSUME BeatmapsNext
    PROVE  \/ Upstream \/ Restart
           \/ \E r \in Request :
                 \/ Starting(r) \/ FindSet(r) \/ _from_bsid_cache(r) \/ _from_bsid_sql(r) \/ _from_bsid_osuapi(r)
                 \/ _save_to_sql(r) \/ cache_beatmap_set(r)
                 \/ UpdateFetches(r) \/ UpdateDeletes(r) \/ UpdateDrops(r)
                 \/ Ruling(r) \/ _map_caches(r)
BY DEF BeatmapsNext, RequestNext, Starting, Ruling

\* A map and its scores are deleted only when osu! has removed the map, or a
\* request to it failed (beatmap.py:37-57).
LEMMA KeepsStep ==
    ASSUME BeatmapsConstants, KeepsInv, BeatmapsNext
    PROVE  KeepsInv' /\ KeepsScores
<1>1. CASE Upstream
    BY <1>1, UpstreamKeeps
<1>2. CASE Restart
    BY <1>2, RestartKeeps
<1>3. ASSUME NEW r \in Request, Starting(r)
      PROVE  KeepsInv' /\ KeepsScores
    <2>1. PICK at \in {"find", "set", "update"}, o \in SetObj \cup {Nothing}, m \in Asked :
              Starts(r, at, o, m) /\ (at = "update" => o # Nothing)
        BY <1>3, StartStep DEF Starting
    <2>2. QED  BY <2>1, StartKeeps
<1>4. ASSUME NEW r \in Request, Ruling(r)
      PROVE  KeepsInv' /\ KeepsScores
    <2>1. PICK o \in SetObj, i \in Id, s \in Status, all \in BOOLEAN : _map(r, o, i, s, all)
        BY <1>4 DEF Ruling
    <2>2. QED  BY <2>1, RuleKeeps
<1>5. ASSUME NEW r \in Request,
             \/ FindSet(r) \/ _from_bsid_cache(r) \/ _from_bsid_sql(r) \/ _from_bsid_osuapi(r)
             \/ _save_to_sql(r) \/ cache_beatmap_set(r)
             \/ UpdateFetches(r) \/ UpdateDeletes(r) \/ UpdateDrops(r) \/ _map_caches(r)
      PROVE  KeepsInv' /\ KeepsScores
    BY <1>5, LookKeeps, SqlKeeps, OsuapiKeeps, SaveKeeps, CacheKeeps, FetchKeeps, DeleteKeeps, RuleCachesKeeps
<1>6. QED  BY <1>1, <1>2, <1>3, <1>4, <1>5, Steps

-----------------------------------------------------------------------------
(* The cache is what is stored.                                             *)

\* One request is at work at most, so that only what it does is to be looked at.
LEMMA OneAtWork ==
    ASSUME NEW r \in Request, \A s \in Request : s # r => request'[s] = Quiet,
           CachedIsOne', RowsHaveSet', WorksOnIt(r)', Prepares(r)',
           request'[r].at \notin WithSet /\ beatmapset' # Nothing => \A i \in Id : Agrees(beatmapset, i)'
    PROVE  Alone'
<1>1. \A s \in Request : s # r => request'[s].at = "quiet"
    BY DEF Quiet
<1>2. \A s \in Request : WorksOnIt(s)' /\ Prepares(s)'
    BY <1>1 DEF WorksOnIt, Prepares, WithSet
<1>3. AtRest'
    BY DEF AtRest
<1>4. OneRequest'
    BY DEF OneRequest
<1>5. QED  BY <1>2, <1>3, <1>4 DEF Alone

LEMMA TheOthersQuiet ==
    ASSUME OneRequest, NEW r \in Request, request[r] # Quiet,
           \A s \in Request : s # r => request'[s] = request[s]
    PROVE  /\ \A s \in Request : s # r => request'[s] = Quiet
           /\ request[r].at \notin WithSet => \A s \in Request : request[s].at \notin WithSet
<1>1. \A s \in Request : s # r => request[s] = Quiet
    BY DEF OneRequest
<1>2. QED  BY <1>1 DEF Quiet, WithSet

LEMMA UpstreamStored ==
    ASSUME Alone, UNCHANGED <<row, mapset, maps, byMd5, byId, beatmapset, request, missed>>
    PROVE  Alone'
<1>1. OneRequest' /\ CachedIsOne' /\ RowsHaveSet' /\ AtRest'
    BY DEF Alone, OneRequest, CachedIsOne, RowsHaveSet, AtRest, Agrees, Listed
<1>2. \A r \in Request : WorksOnIt(r)'
    BY DEF Alone, WorksOnIt
<1>3. \A r \in Request : Prepares(r)'
    BY DEF Alone, Prepares, Agrees, AgreesButFor, Listed, Md5Of
<1>4. QED  BY <1>1, <1>2, <1>3 DEF Alone

LEMMA RestartStored ==
    ASSUME Alone, Restart
    PROVE  Alone'
<1>1. /\ byMd5' = [m \in Md5 |-> Nothing] /\ byId' = [i \in Id |-> Nothing] /\ beatmapset' = Nothing
      /\ request' = [r \in Request |-> Quiet] /\ UNCHANGED <<row, mapset>>
    BY DEF Restart
<1>2. OneRequest' /\ CachedIsOne' /\ RowsHaveSet' /\ AtRest'
    BY <1>1 DEF Alone, OneRequest, CachedIsOne, RowsHaveSet, AtRest
<1>3. \A r \in Request : WorksOnIt(r)' /\ Prepares(r)'
    BY <1>1 DEF WorksOnIt, Prepares, WithSet, Quiet
<1>4. QED  BY <1>2, <1>3 DEF Alone

\* Rows, cache and Beatmaps are what they were.
LEMMA SameAgrees ==
    ASSUME UNCHANGED <<row, mapset, maps, missed>>, NEW o \in SetObj, \A i \in Id : Agrees(o, i)
    PROVE  \A i \in Id : Agrees(o, i)'
BY DEF Agrees, Listed

LEMMA StartStored ==
    ASSUME BeatmapsConstants, KeepsInv, Alone, NEW r \in Request, Starting(r), Working = {}
    PROVE  Alone'
<1>1. PICK at \in {"find", "set", "update"}, o \in SetObj \cup {Nothing}, m \in Asked :
          /\ Starts(r, at, o, m)
          /\ at = "update" => o # Nothing /\ ((\E m1 \in Md5 : o = byMd5[m1]) \/ (\E i \in Id : o = byId[i]))
    BY StartStep DEF Starting
<1>2. /\ \A s \in Request : s # r => request'[s] = request[s]
      /\ request'[r].at = at /\ request'[r].set = o
      /\ UNCHANGED <<row, mapset, maps, byMd5, byId, beatmapset, missed>>
    BY <1>1, Started DEF KeepsInv
<1>3. \A s \in Request : request[s] = Quiet /\ request[s].at \notin WithSet
    BY DEF Working, Quiet, WithSet
<1>4. beatmapset # Nothing => beatmapset \in SetObj /\ \A i \in Id : Agrees(beatmapset, i)'
    <2>1. beatmapset # Nothing => beatmapset \in SetObj /\ \A i \in Id : Agrees(beatmapset, i)
        BY <1>3 DEF Alone, AtRest, KeepsInv, BeatmapsType
    <2>2. QED  BY <1>2, <2>1, SameAgrees
<1>5. at = "update" => beatmapset = o /\ beatmapset # Nothing
    BY <1>1 DEF Alone, CachedIsOne
<1>6. CachedIsOne' /\ RowsHaveSet'
    BY <1>2 DEF Alone, CachedIsOne, RowsHaveSet
<1>7. WorksOnIt(r)'
    BY <1>2, <1>5 DEF WorksOnIt, WithSet
<1>8. Prepares(r)'
    <2>1. at = "update" => \A i \in Id : Agrees(request[r].set, i)'
        BY <1>2, <1>4, <1>5
    <2>2. request'[r].at \notin {"cache", "drop", "delete", "save", "rule"}
        BY <1>2
    <2>3. QED  BY <1>2, <2>1, <2>2 DEF Prepares
<1>9. QED  BY <1>2, <1>3, <1>4, <1>6, <1>7, <1>8, OneAtWork DEF Agrees, Listed

LEMMA LookStored ==
    ASSUME BeatmapsConstants, KeepsInv, Alone, NEW r \in Request, FindSet(r) \/ _from_bsid_cache(r)
    PROVE  Alone'
<1>1. /\ UNCHANGED <<row, mapset, maps, byMd5, byId, beatmapset, missed>>
      /\ request[r].at \in {"find", "set"}
    BY DEF FindSet, _from_bsid_cache
<1>2. /\ \A s \in Request : s # r => request'[s] = request[s]
      /\ \/ request'[r].at \in {"quiet", "set"}
         \/ beatmapset # Nothing /\ request'[r].at \in {"update", "cache"} /\ request'[r].set = beatmapset
    <2>1. CASE Found(r) /\ request[r].at = "find"
        <3> DEFINE q == [request[r] EXCEPT !.at = "set", !.md5 = Nothing]
        <3>1. request[r] \in Job
            BY <2>1, AtWork DEF KeepsInv
        <3>2. q.at = "set"
            BY <3>1 DEF Job
        <3>3. request' = [request EXCEPT ![r] = q]
            BY <2>1 DEF Found
        <3> HIDE DEF q
        <3>4. QED  BY <3>2, <3>3 DEF KeepsInv, BeatmapsType
    <2>2. CASE Ends(r)
        BY <2>2, EndsQuiet DEF KeepsInv
    <2>3. CASE _from_bsid_cache(r)
        <3>1. PICK at \in {"update", "cache"} : Goes(r, at, beatmapset)
            BY <2>3 DEF _from_bsid_cache
        <3>2. request[r] # Quiet /\ beatmapset \in SetObj /\ beatmapset # Nothing
            BY <1>1, <2>3, AtWork DEF KeepsInv, BeatmapsType, _from_bsid_cache
        <3>3. QED  BY <3>1, <3>2, GoesTo DEF KeepsInv
    <2>4. QED  BY <2>1, <2>2, <2>3 DEF FindSet
<1>3. /\ \A s \in Request : s # r => request'[s] = Quiet
      /\ \A s \in Request : request[s].at \notin WithSet
    BY <1>1, <1>2, TheOthersQuiet, AtWork DEF Alone, KeepsInv, WithSet
<1>4. beatmapset # Nothing => \A i \in Id : Agrees(beatmapset, i)'
    <2>1. beatmapset # Nothing => beatmapset \in SetObj /\ \A i \in Id : Agrees(beatmapset, i)
        BY <1>3 DEF Alone, AtRest, KeepsInv, BeatmapsType
    <2>2. QED  BY <1>1, <2>1, SameAgrees
<1>5. CachedIsOne' /\ RowsHaveSet'
    BY <1>1 DEF Alone, CachedIsOne, RowsHaveSet
<1>6. WorksOnIt(r)'
    BY <1>1, <1>2 DEF WorksOnIt, WithSet
<1>7. Prepares(r)'
    <2>1. request'[r].at \in {"update", "cache"} => \A i \in Id : Agrees(request[r].set, i)'
        BY <1>1, <1>2, <1>4
    <2>2. request'[r].at \notin {"drop", "delete", "save", "rule"}
        BY <1>2
    <2>3. QED  BY <2>1, <2>2 DEF Prepares
<1>8. QED  BY <1>1, <1>3, <1>4, <1>5, <1>6, <1>7, OneAtWork DEF Agrees, Listed

\* Alone with one request at work.
LEMMA AloneAtWork ==
    ASSUME KeepsInv, Alone, NEW r \in Request, request[r].at \in {"find", "set", "osuapi"} \cup WithSet
    PROVE  /\ request[r] # Quiet /\ request[r] \in Job
           /\ WorksOnIt(r) /\ Prepares(r)
           /\ request[r].at \in WithSet => request[r].set \in SetObj
           /\ request[r].at \in {"find", "set", "osuapi"} => request[r].caches
           /\ (\A s \in Request : s # r => request'[s] = request[s]) => \A s \in Request : s # r => request'[s] = Quiet
<1>1. request[r] # Quiet /\ request[r] \in Job
    BY AtWork DEF KeepsInv, WithSet
<1>2. QED  BY <1>1, TheOthersQuiet DEF Alone, KeepsInv, WorkIsThere

\* What is in the list, by what the Beatmap is.
LEMMA IsListed ==
    ASSUME NEW o, NEW i \in Id
    PROVE  i \in Listed(o) <=> maps[o][i] # Nothing /\ maps[o][i].listed
BY DEF Listed

LEMMA SqlStored ==
    ASSUME BeatmapsConstants, KeepsInv, Alone, NEW r \in Request, _from_bsid_sql(r)
    PROVE  Alone'
<1>1. /\ UNCHANGED <<row, mapset, byMd5, byId, beatmapset, missed>>
      /\ request[r].at = "set" /\ beatmapset = Nothing
    BY DEF _from_bsid_sql
<1>2. /\ request[r] # Quiet /\ request[r].caches
      /\ (\A s \in Request : s # r => request'[s] = request[s]) => \A s \in Request : s # r => request'[s] = Quiet
    BY <1>1, AloneAtWork
<1>3. CachedIsOne' /\ RowsHaveSet'
    BY <1>1 DEF Alone, CachedIsOne, RowsHaveSet
<1>4. CASE mapset
    <2> DEFINE A(i) == [ver |-> row[i].ver, status |-> row[i].status, frozen |-> row[i].frozen,
                        set |-> TRUE, listed |-> TRUE]
               B(i) == IF row[i] = Nothing THEN Nothing ELSE A(i)
    <2>1. PICK o \in SetObj : /\ Free(o) /\ maps' = [maps EXCEPT ![o] = [i \in Id |-> B(i)]]
                              /\ Goes(r, "update", o) \/ Goes(r, "cache", o)
        BY <1>4 DEF _from_bsid_sql
    <2>2. \A i \in Id : row[i] # Nothing => A(i) \in MapType
        BY DEF KeepsInv, BeatmapsType, RowType, MapType
    <2>3. \A i \in Id : row[i] # Nothing => A(i).ver = row[i].ver /\ A(i).status = row[i].status /\ A(i).listed
        OBVIOUS
    <2>4. \A i \in Id : row[i] # Nothing => A(i) # Nothing
        BY <2>2 DEF BeatmapsConstants
    <2> HIDE DEF A
    <2>5. \A i \in Id : maps'[o][i] = B(i)
        BY <2>1 DEF KeepsInv, BeatmapsType
    <2>6. \A i \in Id : i \in Listed(o)' <=> row[i] # Nothing
        BY <2>3, <2>4, <2>5 DEF Listed
    <2>7. \A i \in Id : Agrees(o, i)'
        <3> SUFFICES ASSUME NEW i \in Id PROVE Agrees(o, i)'
            OBVIOUS
        <3>1. CASE row[i] = Nothing
            BY <1>1, <2>6, <3>1 DEF Agrees
        <3>2. CASE row[i] # Nothing
            <4>1. maps'[o][i].ver = row[i].ver /\ maps'[o][i].status = row[i].status
                BY <2>3, <2>5, <3>2
            <4>2. QED  BY <1>1, <2>6, <3>2, <4>1 DEF Agrees
        <3>3. QED  BY <3>1, <3>2
    <2>8. /\ \A s \in Request : s # r => request'[s] = request[s]
          /\ request'[r].at \in {"update", "cache"} /\ request'[r].set = o /\ request'[r].caches
        BY <1>2, <2>1, GoesTo DEF KeepsInv
    <2>9. WorksOnIt(r)'
        BY <1>1, <2>8 DEF WorksOnIt
    <2>10. Prepares(r)'
        BY <2>7, <2>8 DEF Prepares
    <2>11. QED  BY <1>1, <1>2, <1>3, <2>8, <2>9, <2>10, OneAtWork
<1>5. CASE ~mapset
    <2>1. Goes(r, "osuapi", Nothing)
        BY <1>1, <1>5 DEF _from_bsid_sql
    <2>2. /\ \A s \in Request : s # r => request'[s] = request[s]
          /\ request'[r].at = "osuapi"
        BY <1>2, <2>1, GoesTo DEF KeepsInv
    <2>3. WorksOnIt(r)' /\ Prepares(r)'
        BY <1>1, <1>5, <2>2 DEF WorksOnIt, Prepares, WithSet
    <2>4. QED  BY <1>1, <1>2, <1>3, <2>2, <2>3, OneAtWork
<1>6. QED  BY <1>4, <1>5

LEMMA OsuapiStored ==
    ASSUME BeatmapsConstants, KeepsInv, Alone, NEW r \in Request, _from_bsid_osuapi(r)
    PROVE  Alone'
<1>1. /\ UNCHANGED <<row, mapset, byMd5, byId, beatmapset, missed>> /\ request[r].at = "osuapi"
      /\ Ends(r) \/ \E o \in SetObj : Goes(r, "save", o)
    BY DEF _from_bsid_osuapi
<1>2. /\ request[r] # Quiet /\ request[r].caches /\ beatmapset = Nothing /\ ~mapset
      /\ (\A s \in Request : s # r => request'[s] = request[s]) => \A s \in Request : s # r => request'[s] = Quiet
    BY <1>1, AloneAtWork DEF WorksOnIt
<1>3. CachedIsOne' /\ RowsHaveSet'
    BY <1>1 DEF Alone, CachedIsOne, RowsHaveSet
<1>4. /\ \A s \in Request : s # r => request'[s] = request[s]
      /\ request'[r].at \in {"quiet", "save"}
      /\ request'[r].at = "save" => request'[r].caches
    <2>1. CASE Ends(r)
        BY <2>1, EndsQuiet DEF KeepsInv
    <2>2. CASE \E o \in SetObj : Goes(r, "save", o)
        BY <1>2, <2>2, GoesTo DEF KeepsInv
    <2>3. QED  BY <1>1, <2>1, <2>2
<1>5. \A i \in Id : row'[i] = Nothing
    BY <1>1, <1>2 DEF Alone, RowsHaveSet
<1>6. WorksOnIt(r)'
    BY <1>1, <1>2, <1>4 DEF WorksOnIt
<1>7. Prepares(r)'
    BY <1>4, <1>5 DEF Prepares
<1>8. QED  BY <1>1, <1>2, <1>3, <1>4, <1>6, <1>7, OneAtWork

LEMMA SaveStored ==
    ASSUME BeatmapsConstants, KeepsInv, Alone, NEW r \in Request, _save_to_sql(r)
    PROVE  Alone'
<1>1. request[r].at = "save"
    BY DEF _save_to_sql
<1>2. PICK o \in SetObj : o = request[r].set
    BY <1>1 DEF KeepsInv, WorkIsThere, WithSet
<1>3. /\ UNCHANGED <<byMd5, byId, beatmapset, missed>> /\ request[r].at = "save"
      /\ mapset' = TRUE /\ row' = Saved(o) /\ maps' = Collect(maps)
      /\ IF request[r].caches THEN Goes(r, "cache", o) ELSE Ends(r)
    BY <1>2 DEF _save_to_sql
<1>4. /\ request[r] # Quiet /\ o \in SetObj /\ o # Nothing
      /\ beatmapset \in {o, Nothing} /\ (~request[r].caches => beatmapset = o)
      /\ \A i \in Id \ Listed(o) : row[i] = Nothing
      /\ (\A s \in Request : s # r => request'[s] = request[s]) => \A s \in Request : s # r => request'[s] = Quiet
    BY <1>3, <1>2, AloneAtWork DEF WorksOnIt, Prepares, WithSet, BeatmapsConstants
<1>5. \/ request'[r].at = "cache" /\ request'[r].set = o /\ request'[r] # Quiet
      \/ request'[r].at = "quiet" /\ beatmapset = o
    BY <1>3, <1>4, GoesTo, EndsQuiet DEF KeepsInv
<1>6. \A s \in Request : s # r => request'[s] = request[s]
    BY <1>3, <1>4, GoesTo, EndsQuiet DEF KeepsInv
<1>7. maps'[o] = maps[o]
    <2>1. Held(o)
        BY <1>3, <1>5 DEF Held
    <2>2. QED  BY <1>3, <1>4, <2>1, Collected DEF KeepsInv
<1>8. \A i \in Id : Agrees(o, i)'
    <2> SUFFICES ASSUME NEW i \in Id PROVE Agrees(o, i)'
        OBVIOUS
    <2>1. i \in Listed(o)' <=> i \in Listed(o)
        BY <1>7 DEF Listed
    <2>2. CASE i \in Listed(o)
        <3>1. row'[i] # Nothing /\ row'[i].ver = maps[o][i].ver /\ row'[i].status = maps[o][i].status
            BY <1>3, <1>4, <2>2, SavedRows DEF KeepsInv
        <3>2. QED  BY <1>7, <2>1, <2>2, <3>1 DEF Agrees
    <2>3. CASE i \notin Listed(o)
        <3>1. row'[i] = Nothing
            BY <1>3, <1>4, <2>3, SavedRows DEF KeepsInv
        <3>2. QED  BY <2>1, <2>3, <3>1 DEF Agrees
    <2>4. QED  BY <2>2, <2>3
<1>9. CachedIsOne' /\ RowsHaveSet'
    BY <1>3 DEF Alone, CachedIsOne, RowsHaveSet
<1>10. WorksOnIt(r)'
    BY <1>3, <1>4, <1>5 DEF WorksOnIt, WithSet
<1>11. Prepares(r)'
    BY <1>5, <1>8 DEF Prepares
<1>12. request'[r].at \notin WithSet /\ beatmapset' # Nothing => \A i \in Id : Agrees(beatmapset, i)'
    BY <1>3, <1>5, <1>8 DEF WithSet, Agrees, Listed
<1>13. QED  BY <1>4, <1>6, <1>9, <1>10, <1>11, <1>12, OneAtWork

LEMMA CacheStored ==
    ASSUME BeatmapsConstants, KeepsInv, Alone, NEW r \in Request, cache_beatmap_set(r)
    PROVE  Alone'
<1> DEFINE o == request[r].set
<1>1. request[r].at = "cache" /\ Ends(r)
    BY DEF cache_beatmap_set
<1>2. /\ o \in SetObj /\ o # Nothing /\ beatmapset \in {o, Nothing}
      /\ \A i \in Id : Agrees(o, i)
      /\ (\A s \in Request : s # r => request'[s] = request[s]) => \A s \in Request : s # r => request'[s] = Quiet
    BY <1>1, AloneAtWork DEF WorksOnIt, Prepares, WithSet, BeatmapsConstants
<1>3. /\ UNCHANGED <<row, mapset, missed>> /\ beatmapset' = o /\ maps' = Collect(maps)
      /\ \A m \in Md5 : byMd5'[m] = byMd5[m] \/ byMd5'[m] = o
      /\ \A i \in Id : byId'[i] = byId[i] \/ byId'[i] = o
    BY CachedSet DEF KeepsInv
<1> HIDE DEF o
<1>4. /\ \A s \in Request : s # r => request'[s] = request[s]
      /\ request'[r].at = "quiet"
    BY <1>1, EndsQuiet DEF KeepsInv
<1>5. maps'[o] = maps[o]
    <2>1. Held(o)
        BY <1>3 DEF Held
    <2>2. QED  BY <1>2, <1>3, <2>1, Collected DEF KeepsInv
<1>6. \A i \in Id : Agrees(beatmapset, i)'
    BY <1>2, <1>3, <1>5 DEF Agrees, Listed
<1>7. CachedIsOne'
    <2>1. \A m \in Md5 : byMd5[m] \in {o, Nothing}
        BY <1>2 DEF Alone, CachedIsOne
    <2>2. \A i \in Id : byId[i] \in {o, Nothing}
        BY <1>2 DEF Alone, CachedIsOne
    <2>3. QED  BY <1>3, <2>1, <2>2 DEF CachedIsOne
<1>8. RowsHaveSet'
    BY <1>3 DEF Alone, RowsHaveSet
<1>9. WorksOnIt(r)' /\ Prepares(r)'
    BY <1>4 DEF WorksOnIt, Prepares, WithSet
<1>10. QED  BY <1>2, <1>4, <1>6, <1>7, <1>8, <1>9, OneAtWork

LEMMA FetchStored ==
    ASSUME BeatmapsConstants, KeepsInv, Alone, NEW r \in Request, UpdateFetches(r)
    PROVE  Alone'
<1>1. UNCHANGED <<row, mapset, byMd5, byId, beatmapset, missed>> /\ request[r].at = "update"
    BY DEF UpdateFetches
<1>2. PICK o \in SetObj : o = request[r].set
    BY <1>1 DEF KeepsInv, WorkIsThere, WithSet
<1>3. /\ request[r] # Quiet /\ o # Nothing
      /\ beatmapset \in {o, Nothing} /\ (~request[r].caches => beatmapset = o)
      /\ \A i \in Id : Agrees(o, i)
      /\ (\A s \in Request : s # r => request'[s] = request[s]) => \A s \in Request : s # r => request'[s] = Quiet
    BY <1>1, <1>2, AloneAtWork DEF WorksOnIt, Prepares, WithSet, BeatmapsConstants
<1>4. PICK data \in SUBSET Id :
             /\ Answers(data)
             /\ maps' = IF data = {} THEN maps ELSE [maps EXCEPT ![o] = Updated(o, data)]
             /\ \A s \in Request : s # r => request'[s] = request[s]
             /\ request'[r].set = o /\ request'[r].caches = request[r].caches
             /\ request'[r].at = IF data = {} THEN "drop" ELSE IF Deleted(o, data) = {} THEN "save" ELSE "delete"
             /\ request'[r].gone = Deleted(o, data)
    BY <1>2, Fetched DEF KeepsInv
<1>5. CachedIsOne' /\ RowsHaveSet'
    BY <1>1 DEF Alone, CachedIsOne, RowsHaveSet
<1>6. WorksOnIt(r)'
    <2>1. request'[r].at \in {"drop", "save", "delete"}
        BY <1>4
    <2>2. QED  BY <1>1, <1>3, <1>4, <2>1 DEF WorksOnIt
<1>7. CASE data = {}
    <2>1. maps' = maps /\ request'[r].at = "drop" /\ request'[r].gone = Deleted(o, data)
        BY <1>4, <1>7
    <2>2. \A i \in Id : Agrees(o, i)'
        BY <1>1, <1>3, <2>1, SameAgrees
    <2>3. Deleted(o, data) = {Md5Of(o, i) : i \in Listed(o)}
        <3>1. Listed(o) \ data = Listed(o)
            BY <1>7
        <3>2. QED  BY <3>1 DEF Deleted
    <2>4. request'[r].gone = {Md5Of(o, i)' : i \in Listed(o)'}
        <3>1. Listed(o)' = Listed(o) /\ \A i \in Id : Md5Of(o, i)' = Md5Of(o, i)
            BY <2>1 DEF Listed, Md5Of
        <3>2. \A i \in Listed(o) : i \in Id
            BY DEF Listed
        <3>3. {Md5Of(o, i)' : i \in Listed(o)'} = {Md5Of(o, i) : i \in Listed(o)}
            BY <3>1, <3>2
        <3>4. QED  BY <2>1, <2>3, <3>3
    <2>5. Prepares(r)'
        BY <1>4, <2>1, <2>2, <2>4 DEF Prepares
    <2>6. QED  BY <1>3, <1>4, <1>5, <1>6, <2>1, <2>5, OneAtWork DEF WithSet
<1>8. CASE data # {}
    <2>1. \A i \in Id : maps'[o][i] = Updated(o, data)[i]
        <3>1. maps' = [maps EXCEPT ![o] = Updated(o, data)]
            BY <1>4, <1>8
        <3>2. QED  BY <3>1 DEF KeepsInv, BeatmapsType
    <2>2. \A i \in data : i \in Listed(o)'
        <3>1. \A i \in data : Updated(o, data)[i] # Nothing /\ Updated(o, data)[i].listed
            <4> SUFFICES ASSUME NEW i \in data PROVE Updated(o, data)[i] # Nothing /\ Updated(o, data)[i].listed
                OBVIOUS
            <4>1. Updated(o, data)[i].listed
                BY <1>4, UpdatedMaps DEF KeepsInv
            <4>2. Updated(o, data)[i] # Nothing
                <5>1. CASE i \in Listed(o)
                    BY <1>4, <5>1, UpdatedMaps DEF KeepsInv, Listed, BeatmapsConstants
                <5>2. CASE i \notin Listed(o)
                    <6> DEFINE old == [frozen |-> FALSE, set |-> FALSE]
                    <6>1. Updated(o, data)[i] = Parsed(i, old)
                        BY <5>2 DEF Updated
                    <6>2. old.frozen \in BOOLEAN /\ old.set \in BOOLEAN /\ (old.frozen => old.status \in Status)
                        OBVIOUS
                    <6> HIDE DEF old
                    <6>3. Known(i) /\ i \in Id
                        BY <1>4 DEF Answers
                    <6>4. Parsed(i, old) \in MapType
                        BY <6>2, <6>3, ParsedTyped DEF KeepsInv
                    <6>5. QED  BY <6>1, <6>4 DEF BeatmapsConstants
                <5>3. QED  BY <5>1, <5>2
            <4>3. QED  BY <4>1, <4>2
        <3>2. QED  BY <2>1, <3>1 DEF Listed
    <2>3. \A i \in Id : i \notin Listed(o)' /\ row[i] # Nothing => <<i, row[i].ver>> \in Deleted(o, data)
        <3> SUFFICES ASSUME NEW i \in Id, i \notin data, row[i] # Nothing
                     PROVE  <<i, row[i].ver>> \in Deleted(o, data)
            BY <2>2
        <3>1. i \in Listed(o) /\ mapset
            BY <1>3 DEF Agrees, Alone, RowsHaveSet
        <3>2. row[i].ver = maps[o][i].ver
            BY <1>3, <3>1 DEF Agrees
        <3>3. <<i, row[i].ver>> = Md5Of(o, i)
            BY <3>2 DEF Md5Of
        <3>4. QED  BY <3>1, <3>3 DEF Deleted
    <2>4. request'[r].at = "delete" => \A i \in Id \ Listed(o)' : row'[i] # Nothing => <<i, row'[i].ver>> \in request'[r].gone
        BY <1>1, <1>4, <2>3
    <2>5. request'[r].at = "save" => \A i \in Id \ Listed(o)' : row'[i] = Nothing
        BY <1>1, <1>4, <1>8, <2>3
    <2>6. request'[r].at \in {"save", "delete"} /\ request'[r].set = o
        BY <1>4, <1>8
    <2>7. Prepares(r)'
        BY <2>4, <2>5, <2>6 DEF Prepares
    <2>8. QED  BY <1>3, <1>4, <1>5, <1>6, <2>6, <2>7, OneAtWork DEF WithSet
<1>9. QED  BY <1>7, <1>8

LEMMA DeleteStored ==
    ASSUME BeatmapsConstants, KeepsInv, Alone, NEW r \in Request, UpdateDeletes(r)
    PROVE  Alone'
<1>1. /\ UNCHANGED <<mapset, maps, byMd5, byId, beatmapset, missed>> /\ request[r].at = "delete"
      /\ DeleteMaps(request[r].gone) /\ Goes(r, "save", request[r].set)
    BY DEF UpdateDeletes
<1>2. PICK o \in SetObj : o = request[r].set
    BY <1>1 DEF KeepsInv, WorkIsThere, WithSet
<1>3. /\ request[r] # Quiet
      /\ beatmapset \in {o, Nothing} /\ (~request[r].caches => beatmapset = o)
      /\ \A i \in Id \ Listed(o) : row[i] # Nothing => <<i, row[i].ver>> \in request[r].gone
      /\ (\A s \in Request : s # r => request'[s] = request[s]) => \A s \in Request : s # r => request'[s] = Quiet
    BY <1>1, <1>2, AloneAtWork DEF WorksOnIt, Prepares, WithSet
<1>4. /\ \A s \in Request : s # r => request'[s] = request[s]
      /\ request'[r].at = "save" /\ request'[r].set = o /\ request'[r].caches = request[r].caches
    BY <1>1, <1>2, <1>3, GoesTo DEF KeepsInv
<1>5. /\ \A i \in Id : row'[i] \in {row[i], Nothing}
      /\ \A i \in Id : row[i] # Nothing /\ <<i, row[i].ver>> \in request[r].gone => row'[i] = Nothing
    BY <1>1, DeletedRows DEF KeepsInv
<1>6. CachedIsOne' /\ RowsHaveSet'
    BY <1>1, <1>5 DEF Alone, CachedIsOne, RowsHaveSet
<1>7. WorksOnIt(r)'
    BY <1>1, <1>3, <1>4 DEF WorksOnIt
<1>8. Prepares(r)'
    <2>1. Listed(o)' = Listed(o)
        BY <1>1 DEF Listed
    <2>2. \A i \in Id \ Listed(o)' : row'[i] = Nothing
        BY <1>3, <1>5, <2>1
    <2>3. QED  BY <1>4, <2>2 DEF Prepares
<1>9. QED  BY <1>3, <1>4, <1>6, <1>7, <1>8, OneAtWork DEF WithSet

LEMMA DropStored ==
    ASSUME BeatmapsConstants, KeepsInv, Alone, NEW r \in Request, UpdateDrops(r)
    PROVE  Alone'
<1>1. /\ UNCHANGED <<byMd5, byId, beatmapset, missed>> /\ request[r].at = "drop" /\ mapset' = FALSE
      /\ DeleteMaps(request[r].gone) /\ maps' = Collect(maps)
      /\ IF request[r].caches THEN Goes(r, "cache", request[r].set) ELSE Ends(r)
    BY DEF UpdateDrops
<1>2. PICK o \in SetObj : o = request[r].set
    BY <1>1 DEF KeepsInv, WorkIsThere, WithSet
<1>3. /\ request[r] # Quiet
      /\ beatmapset \in {o, Nothing} /\ (~request[r].caches => beatmapset = o)
      /\ \A i \in Id : Agrees(o, i)
      /\ request[r].gone = {Md5Of(o, i) : i \in Listed(o)}
      /\ (\A s \in Request : s # r => request'[s] = request[s]) => \A s \in Request : s # r => request'[s] = Quiet
    BY <1>1, <1>2, AloneAtWork DEF WorksOnIt, Prepares, WithSet
<1>4. \A i \in Id : row'[i] = Nothing
    <2> SUFFICES ASSUME NEW i \in Id, row'[i] # Nothing PROVE FALSE
        OBVIOUS
    <2>1. row[i] # Nothing /\ <<i, row[i].ver>> \notin request[r].gone
        BY <1>1, DeletedRows DEF KeepsInv
    <2>2. i \in Listed(o) /\ mapset
        BY <1>3, <2>1 DEF Agrees, Alone, RowsHaveSet
    <2>3. row[i].ver = maps[o][i].ver
        BY <1>3, <2>2 DEF Agrees
    <2>4. <<i, row[i].ver>> = Md5Of(o, i)
        BY <2>3 DEF Md5Of
    <2>5. QED  BY <1>3, <2>1, <2>2, <2>4
<1>5. \A p \in SetObj : \A i \in Id : Agrees(p, i)'
    BY <1>1, <1>4 DEF Agrees
<1>6. /\ \A s \in Request : s # r => request'[s] = request[s]
      /\ \/ request'[r].at = "cache" /\ request'[r].set = o
         \/ request'[r].at = "quiet" /\ beatmapset = o
    BY <1>1, <1>2, <1>3, GoesTo, EndsQuiet DEF KeepsInv
<1>7. CachedIsOne' /\ RowsHaveSet'
    BY <1>1, <1>4 DEF Alone, CachedIsOne, RowsHaveSet
<1>8. WorksOnIt(r)'
    BY <1>1, <1>3, <1>6 DEF WorksOnIt, WithSet
<1>9. Prepares(r)'
    BY <1>5, <1>6 DEF Prepares
<1>10. request'[r].at \notin WithSet /\ beatmapset' # Nothing => \A i \in Id : Agrees(beatmapset, i)'
    BY <1>1, <1>4 DEF Agrees
<1>11. QED  BY <1>3, <1>6, <1>7, <1>8, <1>9, <1>10, OneAtWork

LEMMA RuleStored ==
    ASSUME BeatmapsConstants, KeepsInv, Alone, NEW r \in Request, Working = {}, NEW o \in SetObj, NEW i \in Id,
           NEW status \in Status, NEW all \in BOOLEAN, _map(r, o, i, status, all)
    PROVE  Alone'
<1>1. /\ UNCHANGED <<mapset, maps, byMd5, byId, beatmapset, missed>>
      /\ \A s \in Request : s # r => request'[s] = request[s]
      /\ request'[r].at = "rule" /\ request'[r].set = o
      /\ request'[r].md5 = <<i, status>> /\ request'[r].caches = all
    BY RulingStarts DEF KeepsInv
<1>2. beatmapset = o
    <2>1. o # Nothing /\ (o = byId[i] \/ \E m \in Md5 : o = byMd5[m])
        BY DEF _map
    <2>2. QED  BY <2>1 DEF Alone, CachedIsOne
<1>3. \A s \in Request : request[s] = Quiet /\ request[s].at \notin WithSet
    BY DEF Working, Quiet, WithSet
<1>4. \A j \in Id : Agrees(o, j)
    <2>1. beatmapset # Nothing
        BY <1>2 DEF BeatmapsConstants
    <2>2. QED  BY <1>2, <1>3, <2>1 DEF Alone, AtRest
<1>5. \A j \in Id : AgreesButFor(o, j, i, status, all)'
    <2> SUFFICES ASSUME NEW j \in Id PROVE AgreesButFor(o, j, i, status, all)'
        OBVIOUS
    <2>1. Listed(o)' = Listed(o) /\ maps' = maps /\ mapset' = mapset /\ missed' = missed
        BY <1>1 DEF Listed
    <2>2. j \notin Listed(o) => row'[j] = Nothing
        BY <1>4, RuledRows DEF Agrees, KeepsInv
    <2>3. CASE j \in Listed(o) /\ mapset
        <3>1. row[j] # Nothing /\ row[j].ver = maps[o][j].ver /\ (missed \/ row[j].status = maps[o][j].status)
            BY <1>4, <2>3 DEF Agrees
        <3>2. row'[j] # Nothing /\ row'[j].ver = row[j].ver /\ row'[j].status = IF all \/ j = i THEN status ELSE row[j].status
            BY <3>1, RuledRows DEF KeepsInv
        <3>3. QED  BY <2>1, <2>2, <3>1, <3>2 DEF AgreesButFor
    <2>4. CASE ~(j \in Listed(o) /\ mapset)
        BY <2>1, <2>2, <2>4 DEF AgreesButFor
    <2>5. QED  BY <2>3, <2>4
<1>6. CachedIsOne' /\ RowsHaveSet'
    <2>1. \A j \in Id : row[j] = Nothing => row'[j] = Nothing
        BY RuledRows DEF KeepsInv
    <2>2. QED  BY <1>1, <2>1 DEF Alone, CachedIsOne, RowsHaveSet
<1>7. WorksOnIt(r)'
    BY <1>1, <1>2 DEF WorksOnIt
<1>8. Prepares(r)'
    <2>1. <<i, status>>[1] = i /\ <<i, status>>[2] = status
        OBVIOUS
    <2>2. QED  BY <1>1, <1>5, <2>1 DEF Prepares
<1>9. QED  BY <1>1, <1>3, <1>6, <1>7, <1>8, OneAtWork DEF WithSet

LEMMA RuleCachesStored ==
    ASSUME BeatmapsConstants, KeepsInv, Alone, NEW r \in Request, _map_caches(r)
    PROVE  Alone'
<1>1. UNCHANGED <<row, mapset, byMd5, byId, beatmapset>> /\ request[r].at = "rule" /\ Ends(r)
    BY DEF _map_caches
<1>2. PICK o \in SetObj : o = request[r].set
    BY <1>1 DEF KeepsInv, WorkIsThere, WithSet
<1>3. PICK i \in Id, status \in Status : request[r].md5 = <<i, status>>
    BY <1>1 DEF KeepsInv, WorkIsThere
<1>4. PICK all \in BOOLEAN : all = request[r].caches
    BY <1>1, AloneAtWork DEF WithSet, Job
<1>5. /\ beatmapset = o
      /\ \A j \in Id : AgreesButFor(o, j, i, status, all)
      /\ (\A s \in Request : s # r => request'[s] = request[s]) => \A s \in Request : s # r => request'[s] = Quiet
    <2>1. WorksOnIt(r) /\ Prepares(r) /\ beatmapset # Nothing
        BY <1>1, AloneAtWork DEF WithSet, KeepsInv, WorkIsThere
    <2>2. beatmapset = o
        BY <1>1, <1>2, <2>1 DEF WorksOnIt, WithSet
    <2>3. request[r].md5[1] = i /\ request[r].md5[2] = status
        BY <1>3
    <2>4. \A j \in Id : AgreesButFor(o, j, i, status, all)
        BY <1>1, <1>2, <1>4, <2>1, <2>3 DEF Prepares
    <2>5. QED  BY <1>1, <2>2, <2>4, AloneAtWork DEF WithSet
<1>6. PICK these : these = RuledMaps(o, i, all)
    OBVIOUS
<1>7. /\ \A j \in Id : maps'[o][j] # Nothing <=> maps[o][j] # Nothing
      /\ \A j \in Id : maps[o][j] # Nothing =>
            maps'[o][j].ver = maps[o][j].ver /\ maps'[o][j].listed = maps[o][j].listed
      /\ \A j \in Id : maps[o][j] # Nothing =>
            maps'[o][j].status = IF <<o, j>> \in these THEN status ELSE maps[o][j].status
    <2>1. request[r].md5[1] = i /\ request[r].md5[2] = status
        BY <1>3
    <2>2. these = RuledMaps(request[r].set, request[r].md5[1], request[r].caches)
        BY <1>2, <1>4, <1>6, <2>1
    <2>3. QED  BY <2>1, <2>2, RuledBeatmaps
<1>8. missed' = (missed \/ these = {})
    <2>1. request[r].md5[1] = i
        BY <1>3
    <2>2. these = RuledMaps(request[r].set, request[r].md5[1], request[r].caches)
        BY <1>2, <1>4, <1>6, <2>1
    <2>3. QED  BY <2>2 DEF _map_caches
\* These are the Beatmaps whose rows have the status.
<1>9. \A j \in Listed(o) : these # {} => (<<o, j>> \in these <=> all \/ j = i)
    <2>1. CASE all
        <3>1. these = {o} \X Listed(o)
            BY <1>5, <1>6, <2>1 DEF RuledMaps
        <3>2. QED  BY <2>1, <3>1
    <2>2. CASE ~all
        <3>1. SUFFICES ASSUME these # {}
                       PROVE  \A j \in Listed(o) : <<o, j>> \in these <=> all \/ j = i
            OBVIOUS
        <3>2. byMd5[Md5Of(o, i)] # Nothing /\ these = {<<byMd5[Md5Of(o, i)], i>>}
            BY <1>6, <2>2, <3>1 DEF RuledMaps
        <3>3. Md5Of(o, i) \in Md5
            <4>1. maps[o][i] \in MapType
                BY <1>1, <1>2, <1>3 DEF KeepsInv, WorkIsThere, BeatmapsType
            <4>2. maps[o][i].ver \in Version
                BY <4>1 DEF MapType
            <4>3. QED  BY <4>2 DEF Md5Of, Md5
        <3>4. byMd5[Md5Of(o, i)] = o
            BY <1>5, <3>2, <3>3 DEF Alone, CachedIsOne
        <3>5. QED  BY <2>2, <3>2, <3>4
    <2>3. QED  BY <2>1, <2>2
<1>10. Listed(o)' = Listed(o)
    BY <1>7 DEF Listed
<1>11. \A j \in Id : Agrees(o, j)'
    <2> SUFFICES ASSUME NEW j \in Id PROVE Agrees(o, j)'
        OBVIOUS
    <2>1. CASE j \notin Listed(o)
        BY <1>1, <1>5, <1>10, <2>1 DEF Agrees, AgreesButFor
    <2>2. CASE j \in Listed(o) /\ ~mapset
        BY <1>1, <1>10, <2>2 DEF Agrees
    <2>3. CASE j \in Listed(o) /\ mapset
        <3>1. /\ row[j] # Nothing /\ row[j].ver = maps[o][j].ver
              /\ IF all \/ j = i THEN row[j].status = status ELSE missed \/ row[j].status = maps[o][j].status
            BY <1>5, <2>3 DEF AgreesButFor
        <3>2. maps[o][j] # Nothing
            BY <2>3 DEF Listed
        <3>3. maps'[o][j].ver = maps[o][j].ver
            BY <1>7, <3>2
        <3>4. missed' \/ row[j].status = maps'[o][j].status
            BY <1>7, <1>8, <1>9, <2>3, <3>1, <3>2
        <3>5. QED  BY <1>1, <1>10, <2>3, <3>1, <3>3, <3>4 DEF Agrees
    <2>4. QED  BY <2>1, <2>2, <2>3
<1>12. /\ \A s \in Request : s # r => request'[s] = request[s]
       /\ request'[r].at = "quiet"
    BY <1>1, EndsQuiet DEF KeepsInv
<1>13. CachedIsOne' /\ RowsHaveSet'
    BY <1>1 DEF Alone, CachedIsOne, RowsHaveSet
<1>14. WorksOnIt(r)' /\ Prepares(r)'
    BY <1>12 DEF WorksOnIt, Prepares, WithSet
<1>15. \A j \in Id : Agrees(beatmapset, j)'
    BY <1>1, <1>5, <1>11 DEF Agrees, Listed
<1>16. QED  BY <1>5, <1>12, <1>13, <1>14, <1>15, OneAtWork

\* Requests start one at a time as long as none has met another.
LEMMA StoredStep ==
    ASSUME BeatmapsConstants, StoredInv, BeatmapsNext
    PROVE  StoredInv'
<1>1. KeepsInv /\ KeepsInv'
    BY KeepsStep DEF StoredInv
<1>2. SUFFICES ASSUME ~raced' PROVE Alone'
    BY <1>1 DEF StoredInv
<1>3. CASE Upstream
    <2>1. ~raced
        BY <1>2, <1>3 DEF Upstream
    <2>2. QED  BY <1>3, <2>1, UpstreamStored DEF Upstream, StoredInv
<1>4. CASE Restart
    <2>1. ~raced
        BY <1>2, <1>4 DEF Restart
    <2>2. QED  BY <1>4, <2>1, RestartStored DEF StoredInv
<1>5. ASSUME NEW r \in Request, Starting(r)
      PROVE  Alone'
    <2>1. PICK at \in {"find", "set", "update"}, o \in SetObj \cup {Nothing}, m \in Asked : Starts(r, at, o, m)
        BY <1>1, <1>5, StartStep DEF Starting
    <2>2. ~raced /\ Working = {}
        BY <1>2, <2>1 DEF Starts
    <2>3. QED  BY <1>1, <1>5, <2>2, StartStored DEF StoredInv
<1>6. ASSUME NEW r \in Request, Ruling(r)
      PROVE  Alone'
    <2>1. PICK o \in SetObj, i \in Id, s \in Status, all \in BOOLEAN : _map(r, o, i, s, all)
        BY <1>6 DEF Ruling
    <2>2. ~raced /\ Working = {}
        BY <1>2, <2>1 DEF _map
    <2>3. QED  BY <1>1, <2>1, <2>2, RuleStored DEF StoredInv
<1>7. ASSUME NEW r \in Request,
             \/ FindSet(r) \/ _from_bsid_cache(r) \/ _from_bsid_sql(r) \/ _from_bsid_osuapi(r)
             \/ _save_to_sql(r) \/ cache_beatmap_set(r)
             \/ UpdateFetches(r) \/ UpdateDeletes(r) \/ UpdateDrops(r) \/ _map_caches(r)
      PROVE  Alone'
    <2>1. ~raced
        BY <1>2, <1>7 DEF FindSet, _from_bsid_cache, _from_bsid_sql, _from_bsid_osuapi, _save_to_sql,
                          cache_beatmap_set, UpdateFetches, UpdateDeletes, UpdateDrops, _map_caches
    <2>2. KeepsInv /\ Alone
        BY <1>1, <2>1 DEF StoredInv
    <2>3. QED  BY <1>7, <2>2, LookStored, SqlStored, OsuapiStored, SaveStored, CacheStored, FetchStored,
                  DeleteStored, DropStored, RuleCachesStored
<1>8. QED  BY <1>3, <1>4, <1>5, <1>6, <1>7, Steps

LEMMA StoredNext ==
    ASSUME BeatmapsConstants, StoredInv, [BeatmapsNext]_bvars
    PROVE  StoredInv'
<1>1. CASE BeatmapsNext
    BY <1>1, StoredStep
<1>2. CASE UNCHANGED bvars
    <2>1. KeepsInv'
        BY <1>2 DEF bvars, StoredInv, KeepsInv, BeatmapsType, CachedAreThere, WorkIsThere, Born, GoneAreRemoved
    <2>2. ~raced' => Alone'
        BY <1>2, UpstreamStored DEF bvars, StoredInv
    <2>3. QED  BY <2>1, <2>2 DEF StoredInv
<1>3. QED  BY <1>1, <1>2

LEMMA InitStored ==
    ASSUME BeatmapsConstants, BeatmapsInit
    PROVE  StoredInv
<1>1. KeepsInv
    BY InitKeeps
<1>2. /\ row = Missing /\ mapset = FALSE
      /\ byMd5 = [m \in Md5 |-> Nothing] /\ byId = [i \in Id |-> Nothing] /\ beatmapset = Nothing
      /\ request = [r \in Request |-> Quiet]
    BY DEF BeatmapsInit
<1>3. OneRequest /\ CachedIsOne /\ RowsHaveSet /\ AtRest
    BY <1>2 DEF OneRequest, CachedIsOne, RowsHaveSet, AtRest, Missing
<1>4. \A r \in Request : WorksOnIt(r) /\ Prepares(r)
    BY <1>2 DEF WorksOnIt, Prepares, WithSet, Quiet
<1>5. QED  BY <1>1, <1>3, <1>4 DEF StoredInv, Alone

LEMMA StoredMeans ==
    ASSUME StoredInv
    PROVE  CacheIsStored
<1> SUFFICES ASSUME Working = {}, ~raced, beatmapset # Nothing
             PROVE  /\ {byMd5[m] : m \in Md5} \cup {byId[i] : i \in Id} \subseteq {beatmapset, Nothing}
                    /\ mapset => \A i \in Id :
                          IF i \in Listed(beatmapset)
                          THEN /\ row[i] # Nothing
                               /\ row[i].ver = maps[beatmapset][i].ver
                               /\ missed \/ row[i].status = maps[beatmapset][i].status
                          ELSE row[i] = Nothing
    BY DEF CacheIsStored
<1>1. Alone
    BY DEF StoredInv
<1>2. {byMd5[m] : m \in Md5} \cup {byId[i] : i \in Id} \subseteq {beatmapset, Nothing}
    BY <1>1 DEF Alone, CachedIsOne
<1>3. \A r \in Request : request[r].at \notin WithSet
    BY DEF Working, Quiet, WithSet
<1>4. \A i \in Id : Agrees(beatmapset, i)
    BY <1>1, <1>3 DEF Alone, AtRest
<1>5. QED  BY <1>2, <1>4 DEF Agrees

\* A map and its scores are deleted only when osu! has removed the map, or a
\* request to osu! failed (beatmap.py:37-57, 700).
THEOREM ScoresKeptAlways ==
    ASSUME BeatmapsConstants
    PROVE  BeatmapsSpec => ScoresKept
<1>1. BeatmapsInit => KeepsInv
    BY InitKeeps
<1>2. KeepsInv /\ [BeatmapsNext]_bvars => KeepsInv'
    <2> SUFFICES ASSUME KeepsInv, [BeatmapsNext]_bvars PROVE KeepsInv'
        OBVIOUS
    <2>1. CASE BeatmapsNext
        BY <2>1, KeepsStep
    <2>2. CASE UNCHANGED bvars
        BY <2>2 DEF bvars, KeepsInv, BeatmapsType, CachedAreThere, WorkIsThere, Born, GoneAreRemoved
    <2>3. QED  BY <2>1, <2>2
<1>3. KeepsInv /\ [BeatmapsNext]_bvars => [KeepsScores]_bvars
    BY KeepsStep
<1>4. QED  BY <1>1, <1>2, <1>3, PTL DEF BeatmapsSpec, ScoresKept

\* The cache has one Beatmap for each map, with the version and status the
\* database has, if no two requests met (beatmap.py:356 asks for a lock).
THEOREM CacheIsStoredAlways ==
    ASSUME BeatmapsConstants
    PROVE  BeatmapsSpec => []CacheIsStored
<1>1. BeatmapsInit => StoredInv
    BY InitStored
<1>2. StoredInv /\ [BeatmapsNext]_bvars => StoredInv'
    BY StoredNext
<1>3. StoredInv => CacheIsStored
    BY StoredMeans
<1>4. QED  BY <1>1, <1>2, <1>3, PTL DEF BeatmapsSpec

=============================================================================
