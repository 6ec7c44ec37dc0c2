---------------------------- MODULE Leaderboards ----------------------------
(***************************************************************************)
(* The leaderboard of one map in one mode, as osu-osz2-getscores gives it: *)
(* a request makes its queries one after the other, while scores come in   *)
(* and users are restricted, and what it has found out about a map that is *)
(* not there is kept until the server stops.                               *)
(*                                                                         *)
(* `best` is the score of each user with status 2, by pp in relax and      *)
(* autopilot and by score otherwise.  How the map is looked up is in       *)
(* Beatmaps: here it is found or not.  Left out: ratings, the rest of a    *)
(* score, and the stats that go out when the mode is another one.          *)
(***************************************************************************)
EXTENDS Naturals, Sequences, FiniteSets

CONSTANTS
    User,
    Request,
    Score, Mods,   \* what a score may be, [value, mods], and the mods one may ask for
    FriendsOf,     \* of each user
    CountryOf,
    Limit,         \* 50
    Nothing

Board == {"top", "mods", "friends", "country"}   \* LeaderboardType; local scores are asked for as top

VARIABLES
    best,          \* [value, mods] of each user, or Nothing
    banned,        \* users without NORMAL
    remembered,    \* of the map's md5: in cache.unsubmitted, in cache.needs_update
    request        \* how far the requests have come, and what they have found

lvars == <<best, banned, remembered, request>>

Idle  == [at |-> "idle"]
Busy  == {r \in Request : request[r].at \notin {"idle", "replied"}}

LeaderboardsTypeOK ==
    /\ best \in [User -> Score \cup {Nothing}]
    /\ banned \subseteq User
    /\ remembered \subseteq {"unsubmitted", "needs_update"}

Ranked == {u \in User : best[u] # Nothing}
Beats(u, value) == best[u].value > value

-----------------------------------------------------------------------------
(* get_leaderboard_scores.                                                  *)

OnBoard(req, u) ==
    CASE req.board = "top" -> TRUE
      [] req.board = "mods" -> best[u].mods = req.mods
      [] req.board = "friends" -> u \in FriendsOf[req.user] \cup {req.user}
      [] req.board = "country" -> CountryOf[u] = CountryOf[req.user]
Rows(req) == {u \in Ranked : (u \notin banned \/ u = req.user) /\ OnBoard(req, u)}

\* ORDER BY leaves open what comes first of equals.
Ordered(users) == {l \in [1..Cardinality(users) -> users] :
    \A i, j \in DOMAIN l : i < j => l[i] # l[j] /\ ~Beats(l[j], best[l[i]].value)}
Shown(l) == [i \in {n \in DOMAIN l : n <= Limit} |-> [user |-> l[i], value |-> best[l[i]].value]]

Goes(r, at) == request' = [request EXCEPT ![r].at = at]

Lists(r) ==
    /\ request[r].at = "list"
    /\ \E l \in Ordered(Rows(request[r])) :
          request' = [request EXCEPT ![r] =
              [@ EXCEPT !.at = IF l = <<>> THEN "replied" ELSE "best", !.rows = Shown(l), !.steady = TRUE]]
    /\ UNCHANGED <<best, banned, remembered>>

PersonalBest(r) ==
    /\ request[r].at = "best"
    /\ LET mine == best[request[r].user]
       IN  IF mine = Nothing THEN Goes(r, "replied")
           ELSE request' = [request EXCEPT ![r] = [@ EXCEPT !.at = "rank", !.value = mine.value]]
    /\ UNCHANGED <<best, banned, remembered>>

\* Those before a score, on the board of everybody.  Mutant: the restricted
\* count, too.
Before_All(value) == {u \in Ranked : Beats(u, value)}
Before(value) == {u \in Ranked \ banned : Beats(u, value)}

Ranks(r) ==
    /\ request[r].at = "rank"
    /\ request' = [request EXCEPT ![r] =
          [@ EXCEPT !.at = "replied", !.rank = 1 + Cardinality(Before(request[r].value))]]
    /\ UNCHANGED <<best, banned, remembered>>

-----------------------------------------------------------------------------
(* getScores.                                                               *)

\* What is remembered of the md5 is the answer at once.
getScores(r, u, board, mods) ==
    /\ r \notin Busy /\ remembered = {}
    /\ request' = [request EXCEPT ![r] =
          [at |-> "find", user |-> u, board |-> board, mods |-> mods, rows |-> <<>>, value |-> Nothing,
           rank |-> 0, steady |-> FALSE]]
    /\ UNCHANGED <<best, banned, remembered>>

\* Maps that are not ranked, and the editor's song select, get no scores.
FindsMap(r) ==
    /\ request[r].at = "find"
    /\ Goes(r, "list") \/ Goes(r, "replied")
    /\ UNCHANGED <<best, banned, remembered>>

Remembers(r, what) ==
    /\ remembered' = remembered \cup {what}
    /\ Goes(r, "replied")
    /\ UNCHANGED <<best, banned>>

\* The set is not there; or it is, with or without a map of that file name.
\* Without a set id the file name is looked up in the database.
FindsNothing(r) ==
    /\ request[r].at = "find"
    /\ \/ \E what \in {"unsubmitted", "needs_update"} : Remembers(r, what)
       \/ Goes(r, "filename") /\ UNCHANGED <<best, banned, remembered>>

FindsFilename(r) ==
    /\ request[r].at = "filename"
    /\ \E what \in {"unsubmitted", "needs_update"} : Remembers(r, what)

-----------------------------------------------------------------------------
(* What happens meanwhile.                                                  *)

Disturbed == request' = [r \in Request |-> IF r \in Busy THEN [request[r] EXCEPT !.steady = FALSE] ELSE request[r]]

Submits(u) ==
    /\ \E s \in Score : best' = [best EXCEPT ![u] = s]
    /\ Disturbed
    /\ UNCHANGED <<banned, remembered>>

Restricts(u) ==
    /\ \/ u \notin banned /\ banned' = banned \cup {u}
       \/ u \in banned /\ banned' = banned \ {u}
    /\ Disturbed
    /\ UNCHANGED <<best, remembered>>

\* The caches start empty.
Restart ==
    /\ remembered' = {}
    /\ request' = [r \in Request |-> Idle]
    /\ UNCHANGED <<best, banned>>

LeaderboardsInit ==
    /\ best = [u \in User |-> Nothing] /\ banned = {}
    /\ remembered = {}
    /\ request = [r \in Request |-> Idle]

RequestNext(r) ==
    \/ \E u \in User, board \in Board, mods \in Mods : getScores(r, u, board, mods)
    \/ FindsMap(r) \/ FindsNothing(r) \/ FindsFilename(r)
    \/ Lists(r) \/ PersonalBest(r) \/ Ranks(r)

LeaderboardsNext ==
    \/ \E r \in Request : RequestNext(r)
    \/ \E u \in User : Submits(u) \/ Restricts(u)
    \/ Restart

LeaderboardsSpec == LeaderboardsInit /\ [][LeaderboardsNext]_lvars

-----------------------------------------------------------------------------
(* Properties.                                                              *)

\* If nothing changed between the queries of a request, the three fit: the
\* player's own row, if it is among those shown, has the score of the personal
\* best, and as many rows above it with more as the rank says, on the board of
\* everybody; on another board there may be fewer.  If it is not shown, the
\* board is full or not the player's.
Fits(req) == LET Own == {i \in DOMAIN req.rows : req.rows[i].user = req.user}
                 Above == {i \in DOMAIN req.rows : req.rows[i].value > req.value} IN
    /\ \A i \in Own : req.rows[i].value = req.value /\ Cardinality(Above) < req.rank
    /\ req.board = "top" => IF Own # {} THEN Cardinality(Above) = req.rank - 1 ELSE Len(req.rows) = Limit

\* What a player is shown of a leaderboard agrees with itself, whoever is
\* restricted (osu.py:1223-1312).
BoardsAgree == \A r \in Request :
    request[r].at = "replied" /\ request[r].steady /\ request[r].rank > 0 => Fits(request[r])

=============================================================================
