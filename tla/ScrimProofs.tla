---------------------------- MODULE ScrimProofs ----------------------------
(***************************************************************************)
(* The score of a scrim for every set of players and tasks, every best-of  *)
(* and any number of rounds: what the code keeps true by itself            *)
(* (PointsAreWins), and what it keeps as long as the referee is patient.   *)
(***************************************************************************)
EXTENDS Scrim, FiniteSetTheorems, TLAPS

\* How often k is in w.
Wins(w, k) == {i \in 1 .. Len(w) : w[i] = k}

ScoreInv == ScrimTypeOK /\ PointsAreWins

-----------------------------------------------------------------------------
(* Lemmas about the list of winners.                                        *)

\* The set counted is finite, so its cardinality is a number.
LEMMA WinsFinite ==
    ASSUME NEW w \in Seq(Key \cup {Tie}), NEW k
    PROVE  IsFiniteSet(Wins(w, k)) /\ Cardinality(Wins(w, k)) \in Nat
<1>1. IsFiniteSet(1 .. Len(w))
    BY FS_Interval
<1>2. Wins(w, k) \subseteq 1 .. Len(w)
    BY DEF Wins
<1>3. IsFiniteSet(Wins(w, k))
    BY <1>1, <1>2, FS_Subset
<1>4. QED  BY <1>3, FS_CardinalityType

\* One more winner at the end is one more win of that winner's only.
LEMMA WinsAppend ==
    ASSUME NEW w \in Seq(Key \cup {Tie}), NEW x \in Key \cup {Tie}, NEW k \in Key
    PROVE  /\ k = x => Cardinality(Wins(Append(w, x), k)) = Cardinality(Wins(w, k)) + 1
           /\ k # x => Cardinality(Wins(Append(w, x), k)) = Cardinality(Wins(w, k))
<1>1. CASE k = x
    <2>1. Wins(Append(w, x), k) = Wins(w, k) \cup {Len(w) + 1}
        BY <1>1 DEF Wins
    <2>2. Len(w) + 1 \notin Wins(w, k)
        BY DEF Wins
    <2>3. QED  BY <1>1, <2>1, <2>2, WinsFinite, FS_AddElement
<1>2. CASE k # x
    <2>1. Wins(Append(w, x), k) = Wins(w, k)
        BY <1>2 DEF Wins
    <2>2. QED  BY <1>2, <2>1
<1>3. QED  BY <1>1, <1>2

\* A list is its beginning followed by its last element.
LEMMA LastAppended ==
    ASSUME NEW w \in Seq(Key \cup {Tie}), w # <<>>
    PROVE  /\ SubSeq(w, 1, Len(w) - 1) \in Seq(Key \cup {Tie})
           /\ w[Len(w)] \in Key \cup {Tie}
           /\ w = Append(SubSeq(w, 1, Len(w) - 1), w[Len(w)])
OBVIOUS

\* Nobody has won in an empty list.
LEMMA WinsEmpty == \A k : Cardinality(Wins(<<>>, k)) = 0
<1>1. \A k : Wins(<<>>, k) = {}
    BY DEF Wins
<1>2. QED  BY <1>1, FS_EmptySet

-----------------------------------------------------------------------------
(* What holds however the referee behaves.                                  *)

\* What a task is set to.
LEMMA TaskStates ==
    /\ Idle \in TaskState /\ Created \in TaskState
    /\ \A x : Waiting(team_type = x) \in TaskState
<1>1. \A x : (team_type = x) \in BOOLEAN
    OBVIOUS
<1>2. \A b \in BOOLEAN : Waiting(b) \in TaskState
    BY DEF Waiting, TaskState
<1>3. QED  BY <1>1, <1>2 DEF Idle, Created, TaskState

LEMMA ScoreInvInit == ScrimInit => ScoreInv
<1> SUFFICES ASSUME ScrimInit
             PROVE  ScoreInv
    OBVIOUS
<1>1. ScrimTypeOK
    <2>1. match_points \in [Key -> Nat] /\ winners \in Seq(Key \cup {Tie})
        BY DEF ScrimInit, NoPoints
    <2>2. task \in [Task -> TaskState]
        BY DEF ScrimInit, Idle, TaskState
    <2>3. QED  BY <2>1, <2>2 DEF ScrimInit, ScrimTypeOK
<1>2. PointsAreWins
    BY WinsEmpty DEF ScrimInit, PointsAreWins, NoPoints, Wins
<1>3. QED  BY <1>1, <1>2 DEF ScoreInv

\* Clearing the score keeps it consistent; so does leaving it alone.
LEMMA ScoreReset ==
    ASSUME ScoreInv, reset_scrim \/ UNCHANGED score
    PROVE  /\ match_points' \in [Key -> Nat] /\ winners' \in Seq(Key \cup {Tie})
           /\ PointsAreWins'
<1>1. CASE reset_scrim
    BY <1>1, WinsEmpty DEF reset_scrim, NoPoints, PointsAreWins, Wins
<1>2. CASE UNCHANGED score
    BY <1>2 DEF score, ScoreInv, ScrimTypeOK, PointsAreWins
<1>3. QED  BY <1>1, <1>2

LEMMA ScoreInvNext == ScoreInv /\ [ScrimNext]_svars => ScoreInv'
<1> SUFFICES ASSUME ScoreInv, [ScrimNext]_svars
             PROVE  ScoreInv'
    OBVIOUS
<1> USE DEF ScoreInv
<1>0. patient' \in BOOLEAN
    BY DEF ScrimNext, svars, ScrimTypeOK
<1>1. CASE UNCHANGED svars
    BY <1>1 DEF svars, score, ScrimTypeOK, PointsAreWins
<1>2. CASE mp_scrim \/ mp_rematch_restart \/ mp_endscrim \/ mp_teams \/ ChangeTeamType
    <2>1. reset_scrim \/ UNCHANGED score
        BY <1>2 DEF mp_scrim, mp_rematch_restart, mp_endscrim, mp_teams, ChangeTeamType
    <2>2. winning_pts' \in Nat
        BY <1>2, BestOfAssumption
           DEF mp_scrim, mp_rematch_restart, mp_endscrim, mp_teams, ChangeTeamType, ScrimTypeOK
    <2>3. QED
        BY <1>0, <1>2, <2>1, <2>2, ScoreReset
           DEF mp_scrim, mp_rematch_restart, mp_endscrim, mp_teams, ChangeTeamType,
               ScrimTypeOK, TeamType
<1>3. CASE mp_rematch_rollback
    <2> DEFINE last == winners[Len(winners)]
    <2>1. /\ winners # <<>> /\ last # Tie
          /\ match_points' = [match_points EXCEPT ![last] = @ - 1]
          /\ winners' = SubSeq(winners, 1, Len(winners) - 1)
        BY <1>3 DEF mp_rematch_rollback
    <2>2. /\ winners' \in Seq(Key \cup {Tie}) /\ last \in Key
          /\ winners = Append(winners', last)
        BY <2>1, LastAppended DEF ScrimTypeOK
    <2>3. \A k \in Key :
              /\ k = last => Cardinality(Wins(winners, k)) = Cardinality(Wins(winners', k)) + 1
              /\ k # last => Cardinality(Wins(winners, k)) = Cardinality(Wins(winners', k))
        <3>1. \A k \in Key :
                  /\ k = last => Cardinality(Wins(Append(winners', last), k)) =
                                    Cardinality(Wins(winners', k)) + 1
                  /\ k # last => Cardinality(Wins(Append(winners', last), k)) =
                                    Cardinality(Wins(winners', k))
            BY <2>2, WinsAppend
        <3>2. QED  BY <2>2, <3>1
    <2>4. \A k \in Key : Cardinality(Wins(winners', k)) \in Nat
        BY <2>2, WinsFinite
    <2>5. \A k \in Key : match_points[k] = Cardinality(Wins(winners, k))
        BY DEF PointsAreWins, Wins
    <2>6. \A k \in Key : match_points'[k] = Cardinality(Wins(winners', k))
        BY <2>1, <2>2, <2>3, <2>4, <2>5 DEF ScrimTypeOK
    <2>7. match_points' \in [Key -> Nat]
        BY <2>1, <2>4, <2>6 DEF ScrimTypeOK
    <2>8. PointsAreWins'
        BY <2>6 DEF PointsAreWins, Wins
    <2>9. QED  BY <1>0, <1>3, <2>2, <2>7, <2>8 DEF mp_rematch_rollback, ScrimTypeOK
<1>4. ASSUME NEW t \in Task, RoundEnds(t) \/ TaskBegins(t) \/ FindsScore(t) \/ NoScore(t)
      PROVE  ScoreInv'
    <2>1. task' \in [Task -> TaskState]
        <3>1. CASE RoundEnds(t) \/ NoScore(t)
            BY <3>1, TaskStates DEF RoundEnds, NoScore, ScrimTypeOK
        <3>2. CASE TaskBegins(t)
            BY <3>2, TaskStates DEF TaskBegins, ScrimTypeOK
        <3>3. CASE FindsScore(t)
            <4>1. ScoreKeys(t) \subseteq Key
                BY DEF ScoreKeys, Key, Team
            <4>2. QED  BY <3>3, <4>1 DEF FindsScore, ScrimTypeOK, TaskState
        <3>4. QED  BY <1>4, <3>1, <3>2, <3>3
    <2>2. UNCHANGED score
        BY <1>4 DEF RoundEnds, TaskBegins, FindsScore, NoScore
    <2>3. QED
        BY <1>0, <1>4, <2>1, <2>2, ScoreReset
           DEF RoundEnds, TaskBegins, FindsScore, NoScore, ScrimTypeOK
<1>5. ASSUME NEW t \in Task, PointIsTie(t)
      PROVE  ScoreInv'
    <2>1. /\ winners' = Append(winners, Tie) /\ winners' \in Seq(Key \cup {Tie})
          /\ match_points' = match_points
        BY <1>5 DEF PointIsTie, ScrimTypeOK
    <2>2. \A k \in Key : Cardinality(Wins(winners', k)) = Cardinality(Wins(winners, k))
        <3>1. \A k \in Key : k # Tie =>
                  Cardinality(Wins(Append(winners, Tie), k)) = Cardinality(Wins(winners, k))
            BY WinsAppend DEF ScrimTypeOK
        <3>2. QED  BY <2>1, <3>1, PlayerAssumption
    <2>3. PointsAreWins'
        BY <2>1, <2>2 DEF PointsAreWins, Wins
    <2>4. task' \in [Task -> TaskState]
        BY <1>5 DEF PointIsTie, ScrimTypeOK, TaskState, Idle
    <2>5. QED  BY <1>0, <1>5, <2>1, <2>3, <2>4 DEF PointIsTie, ScrimTypeOK
<1>6. ASSUME NEW t \in Task, PointIsAwarded(t)
      PROVE  ScoreInv'
    <2>1. task' \in [Task -> TaskState]
        BY <1>6 DEF PointIsAwarded, ScrimTypeOK, TaskState, Idle
    <2>2. PICK k \in task[t].keys :
              \/ is_scrimming' = FALSE /\ reset_scrim
              \/ /\ match_points' = [match_points EXCEPT ![k] = @ + 1]
                 /\ winners' = Append(winners, k)
                 /\ UNCHANGED is_scrimming
        BY <1>6 DEF PointIsAwarded
    <2>3. k \in Key
        BY DEF ScrimTypeOK, TaskState
    <2>4. CASE is_scrimming' = FALSE /\ reset_scrim
        BY <1>0, <1>6, <2>1, <2>4, ScoreReset DEF PointIsAwarded, ScrimTypeOK
    <2>5. CASE /\ match_points' = [match_points EXCEPT ![k] = @ + 1]
               /\ winners' = Append(winners, k)
               /\ UNCHANGED is_scrimming
        <3>1. winners' \in Seq(Key \cup {Tie}) /\ match_points' \in [Key -> Nat]
            BY <2>3, <2>5 DEF ScrimTypeOK
        <3>2. \A j \in Key :
                  /\ j = k => Cardinality(Wins(winners', j)) = Cardinality(Wins(winners, j)) + 1
                  /\ j # k => Cardinality(Wins(winners', j)) = Cardinality(Wins(winners, j))
            BY <2>3, <2>5, WinsAppend DEF ScrimTypeOK
        <3>3. \A j \in Key : match_points[j] = Cardinality(Wins(winners, j))
            BY DEF PointsAreWins, Wins
        <3>4. \A j \in Key : match_points'[j] = Cardinality(Wins(winners', j))
            BY <2>3, <2>5, <3>2, <3>3 DEF ScrimTypeOK
        <3>5. PointsAreWins'
            BY <3>4 DEF PointsAreWins, Wins
        <3>6. QED  BY <1>0, <1>6, <2>1, <2>5, <3>1, <3>5 DEF PointIsAwarded, ScrimTypeOK
    <2>6. QED  BY <2>2, <2>4, <2>5
<1>7. QED
    BY <1>1, <1>2, <1>3, <1>4, <1>5, <1>6 DEF ScrimNext, ScrimCommand, TaskStep

\* Every score is the number of rounds won, whatever the referee does while
\* points are worked out.
THEOREM PointsAreWinsAlways == ScrimSpec => []PointsAreWins
<1>1. ScoreInv => PointsAreWins
    BY DEF ScoreInv
<1>2. QED  BY <1>1, ScoreInvInit, ScoreInvNext, PTL DEF ScrimSpec

-----------------------------------------------------------------------------
(* What holds as long as the referee is patient.                            *)

\* At most one task is pending, only during a scrim, and it is of the team
\* type the match still has.
OneTask ==
    /\ \A t, u \in Task : task[t].phase # "idle" /\ task[u].phase # "idle" => t = u
    /\ \A t \in Task : task[t].phase # "idle" => is_scrimming
    /\ \A t \in Task : task[t].phase # "waiting" => task[t].keys = {}
    /\ \A t \in Task : task[t].phase = "waiting" =>
          /\ task[t].ffa <=> team_type = "ffa"
          /\ task[t].keys \subseteq IF task[t].ffa THEN Player ELSE {"blue", "red"}

PatientNext ==
    \/ NothingPending /\ (ScrimCommand \/ \E t \in Task : RoundEnds(t))
    \/ \E t \in Task : TaskStep(t)

PatientInv ==
    /\ ScoreInv
    /\ FirstToWins
    /\ NoLeftOver
    /\ KeysMatchTeamType
    /\ OneTask

ScrimInv == ScoreInv /\ (patient => PatientInv)

LEMMA ScrimInvInit == ScrimInit => ScrimInv
BY ScoreInvInit
   DEF ScrimInit, ScrimInv, PatientInv, FirstToWins, NoLeftOver, KeysMatchTeamType,
       OneTask, NoPoints, Idle

\* A patient referee's step from a good state of a patient match.
LEMMA PatientStep ==
    PatientInv /\ patient /\ ScoreInv' /\ (PatientNext \/ UNCHANGED svars) => PatientInv'
<1> SUFFICES ASSUME PatientInv, patient, ScoreInv', PatientNext \/ UNCHANGED svars
             PROVE  PatientInv'
    OBVIOUS
<1>1. ScoreInv'
    OBVIOUS
<1>2. CASE UNCHANGED svars
    BY <1>1, <1>2
       DEF svars, score, PatientInv, FirstToWins, NoLeftOver, KeysMatchTeamType, OneTask
<1>3. CASE NothingPending /\ ScrimCommand
    <2>1. UNCHANGED task
        BY <1>3 DEF ScrimCommand, mp_scrim, mp_endscrim, mp_rematch_restart,
            mp_rematch_rollback, mp_teams, ChangeTeamType
    <2>2. OneTask'
        BY <1>3, <2>1 DEF NothingPending, PatientInv, OneTask
    <2>3. CASE mp_scrim \/ mp_rematch_restart
        <3>1. /\ winning_pts' \in Nat \ {0}
              /\ match_points' = match_points /\ match_points = NoPoints
              /\ is_scrimming' = TRUE /\ team_type' = team_type
            BY <2>3, BestOfAssumption
               DEF mp_scrim, mp_rematch_restart, PatientInv, NoLeftOver, ScoreInv,
                   ScrimTypeOK, score
        <3>2. QED
            BY <1>1, <2>2, <3>1
               DEF PatientInv, FirstToWins, NoLeftOver, KeysMatchTeamType, NoPoints
    <2>4. CASE mp_endscrim
        BY <1>1, <2>2, <2>4
           DEF mp_endscrim, reset_scrim, NoPoints, PatientInv, FirstToWins, NoLeftOver,
               KeysMatchTeamType
    <2>5. CASE mp_rematch_rollback
        <3>1. \A k \in Key : match_points'[k] <= match_points[k]
            BY <2>5 DEF mp_rematch_rollback, PatientInv, ScoreInv, ScrimTypeOK
        <3>2. /\ is_scrimming /\ is_scrimming' = is_scrimming
              /\ winning_pts' = winning_pts /\ winning_pts \in Nat
              /\ team_type' = team_type
              /\ match_points \in [Key -> Nat] /\ match_points' \in [Key -> Nat]
            BY <1>1, <2>5 DEF mp_rematch_rollback, PatientInv, ScoreInv, ScrimTypeOK
        <3>3. FirstToWins' /\ NoLeftOver' /\ KeysMatchTeamType'
            BY <3>1, <3>2 DEF PatientInv, FirstToWins, NoLeftOver, KeysMatchTeamType
        <3>4. QED  BY <1>1, <2>2, <3>3 DEF PatientInv
    <2>6. CASE mp_teams \/ ChangeTeamType
        <3>1. match_points' = NoPoints /\ winners' = <<>>
            BY <2>6 DEF mp_teams, ChangeTeamType, reset_scrim, score, PatientInv, NoLeftOver
        <3>2. FirstToWins'
            <4>1. CASE is_scrimming'
                <5>1. is_scrimming /\ winning_pts' = winning_pts /\ winning_pts \in Nat
                    BY <2>6, <4>1 DEF mp_teams, ChangeTeamType, PatientInv, ScoreInv, ScrimTypeOK
                <5>2. \A k \in Key : match_points[k] \in Nat /\ match_points[k] < winning_pts
                    BY <5>1 DEF PatientInv, ScoreInv, ScrimTypeOK, FirstToWins
                <5>3. QED  BY <3>1, <5>1, <5>2 DEF FirstToWins, NoPoints
            <4>2. QED  BY <4>1 DEF FirstToWins
        <3>3. NoLeftOver' /\ KeysMatchTeamType'
            BY <3>1 DEF NoLeftOver, KeysMatchTeamType, NoPoints
        <3>4. QED  BY <1>1, <2>2, <3>2, <3>3 DEF PatientInv
    <2>7. QED  BY <1>3, <2>3, <2>4, <2>5, <2>6 DEF ScrimCommand
<1>4. ASSUME NEW t \in Task, \/ NothingPending /\ RoundEnds(t)
                             \/ TaskBegins(t) \/ FindsScore(t) \/ NoScore(t)
      PROVE  PatientInv'
    <2>1. UNCHANGED <<is_scrimming, score, winning_pts, team_type>>
        BY <1>4 DEF RoundEnds, TaskBegins, FindsScore, NoScore
    <2>2. FirstToWins' /\ NoLeftOver' /\ KeysMatchTeamType'
        BY <2>1 DEF PatientInv, FirstToWins, NoLeftOver, KeysMatchTeamType, score
    <2>3. CASE NothingPending /\ RoundEnds(t)
        <3>1. OneTask'
            BY <2>1, <2>3 DEF NothingPending, RoundEnds, OneTask, PatientInv, ScoreInv,
                ScrimTypeOK, Created
        <3>2. QED  BY <1>1, <2>2, <3>1 DEF PatientInv
    <2>4. CASE TaskBegins(t)
        <3>1. /\ task[t].phase = "created" /\ task[t].keys = {}
              /\ task'[t].phase = "waiting" /\ task'[t].keys = {}
              /\ task'[t].ffa <=> team_type = "ffa"
              /\ \A u \in Task \ {t} : task'[u] = task[u]
            BY <2>4 DEF TaskBegins, Waiting, OneTask, PatientInv, ScoreInv, ScrimTypeOK, TaskState
        <3>2. OneTask'
            BY <2>1, <3>1 DEF OneTask, PatientInv
        <3>3. QED  BY <1>1, <2>2, <3>2 DEF PatientInv
    <2>5. CASE FindsScore(t)
        <3>1. PICK k \in ScoreKeys(t) : task' = [task EXCEPT ![t].keys = @ \cup {k}]
            BY <2>5 DEF FindsScore
        <3>2. /\ task[t].phase = "waiting" /\ task'[t].phase = "waiting"
              /\ task'[t].ffa = task[t].ffa
              /\ task'[t].keys = task[t].keys \cup {k}
              /\ \A u \in Task \ {t} : task'[u] = task[u]
            BY <2>5, <3>1 DEF FindsScore, PatientInv, ScoreInv, ScrimTypeOK, TaskState
        <3>3. k \in IF task[t].ffa THEN Player ELSE {"blue", "red"}
            BY <3>1, <3>2 DEF ScoreKeys, OneTask, PatientInv, ScoreInv, ScrimTypeOK, TeamType
        <3>4. OneTask'
            BY <2>1, <3>2, <3>3 DEF OneTask, PatientInv
        <3>5. QED  BY <1>1, <2>2, <3>4 DEF PatientInv
    <2>6. CASE NoScore(t)
        <3>1. OneTask'
            BY <2>1, <2>6 DEF NoScore, OneTask, PatientInv, ScoreInv, ScrimTypeOK, Idle
        <3>2. QED  BY <1>1, <2>2, <3>1 DEF PatientInv
    <2>7. QED  BY <1>4, <2>3, <2>4, <2>5, <2>6
<1>5. ASSUME NEW t \in Task, PointIsTie(t) \/ PointIsAwarded(t)
      PROVE  PatientInv'
    <2>1. task[t].keys # {}
        <3>1. CASE PointIsTie(t)
            <4>1. Cardinality(task[t].keys) > 1
                BY <3>1 DEF PointIsTie
            <4>2. Cardinality({}) = 0
                BY FS_EmptySet
            <4>3. QED  BY <4>1, <4>2
        <3>2. CASE PointIsAwarded(t)
            BY <3>2 DEF PointIsAwarded
        <3>3. QED  BY <1>5, <3>1, <3>2
    <2>2. is_scrimming /\ task[t].phase = "waiting"
        BY <2>1 DEF PatientInv, OneTask
    <2>3. /\ task'[t] = Idle
          /\ \A u \in Task \ {t} : task'[u] = task[u] /\ task[u].phase = "idle"
          /\ winning_pts' = winning_pts /\ team_type' = team_type
        BY <1>5, <2>2
           DEF PointIsTie, PointIsAwarded, PatientInv, OneTask, ScoreInv, ScrimTypeOK
    <2>4. OneTask'
        BY <2>3 DEF OneTask, PatientInv, Idle
    <2>5. CASE PointIsTie(t)
        <3>1. is_scrimming' = is_scrimming /\ match_points' = match_points
            BY <2>5 DEF PointIsTie
        <3>2. FirstToWins' /\ NoLeftOver' /\ KeysMatchTeamType'
            BY <2>2, <2>3, <3>1 DEF PatientInv, FirstToWins, NoLeftOver, KeysMatchTeamType
        <3>3. QED  BY <1>1, <2>4, <3>2 DEF PatientInv
    <2>6. CASE PointIsAwarded(t)
        <3>1. PICK k \in task[t].keys :
                  IF ~AwardRaises(k) /\ WinsMatch(k)
                     THEN is_scrimming' = FALSE /\ reset_scrim
                     ELSE /\ match_points' = [match_points EXCEPT ![k] = @ + 1]
                          /\ winners' = Append(winners, k)
                          /\ UNCHANGED is_scrimming
            BY <2>6 DEF PointIsAwarded
        <3>2. k \in IF team_type = "ffa" THEN Player ELSE {"blue", "red"}
            BY <2>2 DEF PatientInv, OneTask
        <3>3. k \in Key /\ ~AwardRaises(k)
            BY <3>2 DEF AwardRaises, Key, Team, PatientInv, ScoreInv, ScrimTypeOK
        <3>4. CASE WinsMatch(k)
            BY <1>1, <2>4, <3>1, <3>3, <3>4
               DEF PatientInv, FirstToWins, NoLeftOver, KeysMatchTeamType, reset_scrim, NoPoints
        <3>5. CASE ~WinsMatch(k)
            <4>1. /\ match_points' = [match_points EXCEPT ![k] = @ + 1]
                  /\ is_scrimming' = is_scrimming
                BY <3>1, <3>5
            <4>2. match_points \in [Key -> Nat] /\ winning_pts \in Nat
                BY DEF PatientInv, ScoreInv, ScrimTypeOK
            <4>3. match_points[k] < winning_pts /\ match_points[k] + 1 # winning_pts
                BY <2>2, <3>3, <3>5, <4>2 DEF WinsMatch, PatientInv, FirstToWins
            <4>4. /\ match_points'[k] = match_points[k] + 1
                  /\ \A j \in Key \ {k} : match_points'[j] = match_points[j]
                BY <3>3, <4>1, <4>2
            <4>5. FirstToWins'
                BY <2>2, <2>3, <4>1, <4>2, <4>3, <4>4 DEF PatientInv, FirstToWins
            <4>6. (k \in Player <=> team_type = "ffa") /\ k # "neutral"
                BY <3>2, PlayerAssumption DEF Team
            <4>7. KeysMatchTeamType'
                BY <2>3, <4>2, <4>4, <4>6 DEF PatientInv, KeysMatchTeamType
            <4>8. NoLeftOver'
                BY <2>2, <4>1 DEF NoLeftOver
            <4>9. QED  BY <1>1, <2>4, <4>5, <4>7, <4>8 DEF PatientInv
        <3>6. QED  BY <3>4, <3>5
    <2>7. QED  BY <1>5, <2>5, <2>6
<1>6. QED
    BY <1>2, <1>3, <1>4, <1>5 DEF PatientNext, TaskStep

LEMMA ScrimInvNext == ScrimInv /\ [ScrimNext]_svars => ScrimInv'
<1> SUFFICES ASSUME ScrimInv, [ScrimNext]_svars
             PROVE  ScrimInv'
    OBVIOUS
<1>1. ScoreInv'
    BY ScoreInvNext DEF ScrimInv
<1>2. ASSUME patient'
      PROVE  PatientInv'
    <2>1. patient /\ (PatientNext \/ UNCHANGED svars)
        BY <1>2 DEF ScrimNext, PatientNext, svars
    <2>2. QED  BY <1>1, <2>1, PatientStep DEF ScrimInv
<1>3. QED  BY <1>1, <1>2 DEF ScrimInv

\* A pending task has read what the scrim still is, while nobody interferes (match.py:458-655).
THEOREM ScrimInvCorrect == ScrimSpec => []ScrimInv
<1>1. QED  BY ScrimInvInit, ScrimInvNext, PTL DEF ScrimSpec

\* As long as the referee is patient, a scrim is over when somebody has won it.
THEOREM FirstToWinsPatient == ScrimSpec => []FirstToWinsIfPatient
<1>1. ScrimInv => FirstToWinsIfPatient
    BY DEF ScrimInv, PatientInv, FirstToWinsIfPatient
<1>2. QED  BY <1>1, ScrimInvCorrect, PTL

\* As long as the referee is patient, every scrim starts from zero.
THEOREM NoLeftOverPatient == ScrimSpec => []NoLeftOver
<1>1. ScrimInv => NoLeftOver
    BY DEF ScrimInv, PatientInv, NoLeftOver
<1>2. QED  BY <1>1, ScrimInvCorrect, PTL

\* As long as the referee is patient, points belong to what the team type says.
THEOREM KeysMatchTeamTypePatient == ScrimSpec => []KeysMatchTeamType
<1>1. ScrimInv => KeysMatchTeamType
    BY DEF ScrimInv, PatientInv, KeysMatchTeamType
<1>2. QED  BY <1>1, ScrimInvCorrect, PTL

=============================================================================
