------------------------------- MODULE Scrim -------------------------------
(***************************************************************************)
(* The score of a scrim: rounds award points, `!mp` commands start, end,   *)
(* reset and roll back the score.                                          *)
(*                                                                         *)
(* When a round of a scrimming match ends, MatchComplete leaves the rest   *)
(* to a task of its own (update_matchpoints).  The task waits up to ten    *)
(* seconds for score submissions, one player after another, and then       *)
(* awards the point in one go.  Everything the handlers and commands do    *)
(* may come in between, so a task is three kinds of step here: it begins   *)
(* (and reads the team type), it finds a score, it awards.                 *)
(*                                                                         *)
(* Scores are left out: any of the keys found may be the winner, or all    *)
(* may tie.  Rounds are those of Match; here one may end at any time.      *)
(***************************************************************************)
EXTENDS Naturals, Sequences, FiniteSets

CONSTANTS
    Player,      \* who may win a point when everyone plays alone
    Tie,         \* None in m.winners
    Task,        \* update_matchpoints tasks that may be pending at a time
    MaxBestOf,   \* bo1 .. bo15 in the code
    MaxRounds    \* bound: rounds ended while scrimming

Team == {"neutral", "blue", "red"}
Key  == Player \cup Team

ASSUME PlayerAssumption == Player \cap Team = {} /\ Tie \notin Key
ASSUME BestOfAssumption == MaxBestOf \in Nat /\ MaxRounds \in Nat

VARIABLES
    is_scrimming,
    match_points,
    winners,
    winning_pts,
    team_type,   \* "ffa": head-to-head or tag co-op, "teams": the other two
    task,        \* what each pending task has read so far
    rounds,      \* rounds ended so far, for MaxRounds
    patient      \* history: no command or round has come while a task was pending

score == <<match_points, winners>>
svars == <<is_scrimming, match_points, winners, winning_pts, team_type, task, rounds, patient>>

TeamType == {"ffa", "teams"}

\* phase "created": not run yet.  "waiting": in await_submissions, ffa is the
\* local of that coroutine and keys are those with a score so far.
Idle    == [phase |-> "idle",    ffa |-> FALSE, keys |-> {}]
Created == [phase |-> "created", ffa |-> FALSE, keys |-> {}]
Waiting(ffa) == [phase |-> "waiting", ffa |-> ffa, keys |-> {}]

TaskState == [phase: {"idle", "created", "waiting"}, ffa: BOOLEAN, keys: SUBSET Key]

ScrimTypeOK ==
    /\ is_scrimming \in BOOLEAN
    /\ match_points \in [Key -> Nat]
    /\ winners \in Seq(Key \cup {Tie})
    /\ winning_pts \in Nat
    /\ team_type \in TeamType
    /\ task \in [Task -> TaskState]
    /\ rounds \in Nat
    /\ patient \in BOOLEAN

-----------------------------------------------------------------------------
(* m.match_points is a defaultdict(int): a key without an entry has 0.      *)

NoPoints == [k \in Key |-> 0]

\* Mutant: the list of winners survives a reset.
reset_scrim_PointsOnly == match_points' = NoPoints /\ UNCHANGED winners
reset_scrim == match_points' = NoPoints /\ winners' = <<>>

ScrimInit ==
    /\ is_scrimming = FALSE
    /\ match_points = NoPoints
    /\ winners = <<>>
    /\ winning_pts = 0
    /\ team_type \in TeamType
    /\ task = [t \in Task |-> Idle]
    /\ rounds = 0
    /\ patient = TRUE

-----------------------------------------------------------------------------
(* The task.                                                                *)

\* The end of MatchComplete.
RoundEnds(t) ==
    /\ is_scrimming
    /\ rounds < MaxRounds
    /\ task[t].phase = "idle"
    /\ task' = [task EXCEPT ![t] = Created]
    /\ rounds' = rounds + 1
    /\ UNCHANGED <<is_scrimming, score, winning_pts, team_type>>

TaskBegins(t) ==
    /\ task[t].phase = "created"
    /\ task' = [task EXCEPT ![t] = Waiting(team_type = "ffa")]
    /\ UNCHANGED <<is_scrimming, score, winning_pts, team_type, rounds>>

\* The key of a slot's score: its player, or the team the slot has by now.
\* Slots are all neutral after a change to ffa.
ScoreKeys(t) ==
    IF task[t].ffa THEN Player
    ELSE IF team_type = "teams" THEN {"blue", "red"} ELSE Team

FindsScore(t) ==
    /\ task[t].phase = "waiting"
    /\ \E k \in ScoreKeys(t) \ task[t].keys :
          task' = [task EXCEPT ![t].keys = @ \cup {k}]
    /\ UNCHANGED <<is_scrimming, score, winning_pts, team_type, rounds>>

\* The map is unknown, nobody submitted, or the task raised: a slot of the
\* round holds nobody any more.
NoScore(t) ==
    /\ task[t].phase = "waiting"
    /\ task' = [task EXCEPT ![t] = Idle]
    /\ UNCHANGED <<is_scrimming, score, winning_pts, team_type, rounds>>

PointIsTie(t) ==
    /\ Cardinality(task[t].keys) > 1
    /\ task' = [task EXCEPT ![t] = Idle]
    /\ winners' = Append(winners, Tie)
    /\ UNCHANGED <<is_scrimming, match_points, winning_pts, team_type, rounds>>

\* `loser = MatchTeams({1: 2, 2: 1}[winner])`: under a team type, any key but
\* blue and red raises after the point has been counted.
AwardRaises(k) == team_type = "teams" /\ k \notin {"blue", "red"}

\* Mutant: the points before this one are compared.
WinsMatch_Before(k) == winning_pts # 0 /\ match_points[k] = winning_pts
WinsMatch(k) == winning_pts # 0 /\ match_points[k] + 1 = winning_pts

PointIsAwarded(t) ==
    /\ task' = [task EXCEPT ![t] = Idle]
    /\ \E k \in task[t].keys :
          IF ~AwardRaises(k) /\ WinsMatch(k)
             THEN is_scrimming' = FALSE /\ reset_scrim
             ELSE /\ match_points' = [match_points EXCEPT ![k] = @ + 1]
                  /\ winners' = Append(winners, k)
                  /\ UNCHANGED is_scrimming
    /\ UNCHANGED <<winning_pts, team_type, rounds>>

TaskStep(t) ==
    \/ TaskBegins(t) \/ FindsScore(t) \/ NoScore(t)
    \/ PointIsTie(t) \/ PointIsAwarded(t)

-----------------------------------------------------------------------------
(* The commands.  None of them looks at the pending tasks.                  *)

\* Even numbers are refused; winning_pts is at least 1, so the branch that
\* cancels a scrim with `bo0` is never taken.
mp_scrim ==
    /\ ~is_scrimming
    /\ \E best_of \in 0 .. MaxBestOf :
          best_of % 2 = 1 /\ winning_pts' = (best_of \div 2) + 1
    /\ is_scrimming' = TRUE
    /\ UNCHANGED <<score, team_type, task, rounds>>

\* Mutant: ending a scrim keeps its points.
mp_endscrim_NoReset ==
    /\ is_scrimming
    /\ is_scrimming' = FALSE
    /\ UNCHANGED <<score, winning_pts, team_type, task, rounds>>

mp_endscrim ==
    /\ is_scrimming
    /\ is_scrimming' = FALSE
    /\ reset_scrim
    /\ UNCHANGED <<winning_pts, team_type, task, rounds>>

\* Outside a scrim: start over with the same target.
mp_rematch_restart ==
    /\ ~is_scrimming
    /\ winning_pts # 0
    /\ is_scrimming' = TRUE
    /\ UNCHANGED <<score, winning_pts, team_type, task, rounds>>

\* During a scrim: take back the last point.
mp_rematch_rollback ==
    /\ is_scrimming
    /\ winners # <<>>
    /\ LET recent_winner == winners[Len(winners)] IN
          /\ recent_winner # Tie
          /\ match_points' = [match_points EXCEPT ![recent_winner] = @ - 1]
    /\ winners' = SubSeq(winners, 1, Len(winners) - 1)
    /\ UNCHANGED <<is_scrimming, winning_pts, team_type, task, rounds>>

\* Mutant: the points of the old team type are kept.
mp_teams_NoReset ==
    /\ team_type' \in TeamType
    /\ UNCHANGED <<is_scrimming, score, winning_pts, task, rounds>>

mp_teams ==
    /\ team_type' \in TeamType
    /\ IF is_scrimming THEN reset_scrim ELSE UNCHANGED score
    /\ UNCHANGED <<is_scrimming, winning_pts, task, rounds>>

\* MatchChangeSettings refuses a new team type while a scrim is on.
ChangeTeamType ==
    /\ ~is_scrimming
    /\ team_type' \in TeamType \ {team_type}
    /\ UNCHANGED <<is_scrimming, score, winning_pts, task, rounds>>

ScrimCommand ==
    \/ mp_scrim \/ mp_endscrim
    \/ mp_rematch_restart \/ mp_rematch_rollback
    \/ mp_teams \/ ChangeTeamType

-----------------------------------------------------------------------------

NothingPending == \A t \in Task : task[t].phase = "idle"

ScrimNext ==
    \/ /\ ScrimCommand \/ \E t \in Task : RoundEnds(t)
       /\ patient' = (patient /\ NothingPending)
    \/ /\ \E t \in Task : TaskStep(t)
       /\ UNCHANGED patient

ScrimSpec == ScrimInit /\ [][ScrimNext]_svars

-----------------------------------------------------------------------------

\* However points are awarded, rolled back and reset, and whatever happens
\* while they are worked out, each one's score is the number of rounds in
\* m.winners that it won: a roll-back takes back the point it says it does,
\* and never drives a score below zero (commands.py:2107).
PointsAreWins == \A k \in Key :
    match_points[k] = Cardinality({i \in 1 .. Len(winners) : winners[i] = k})

\* "first to {winning_pts} points wins" (commands.py:2052): while a scrim goes
\* on nobody has that many.  Not so when the team type is changed, or the
\* scrim ended, while a point is worked out: the code compares with ==.
FirstToWins == is_scrimming => \A k \in Key : match_points[k] < winning_pts

\* With a referee who waits for every point the announcement is true.
FirstToWinsIfPatient == patient => FirstToWins

\* Then no point is left over either when a scrim is over, so the next one,
\* which resets nothing, starts from zero (commands.py:2049).
NoLeftOver == patient /\ ~is_scrimming => match_points = NoPoints /\ winners = <<>>

\* And the points of a scrim are all players' or all teams', so that every
\* winner has a loser to announce (match.py:613).
KeysMatchTeamType == patient => \A k \in Key : match_points[k] > 0 =>
    (k \in Player <=> team_type = "ffa") /\ k # "neutral"

=============================================================================
