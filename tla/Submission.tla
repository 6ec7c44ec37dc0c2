----------------------------- MODULE Submission -----------------------------
(***************************************************************************)
(* Score submission: the plays of one user on their way into `scores`, and *)
(* the statistics that follow them, in the database and in the session.    *)
(*                                                                         *)
(* A submission is a task that gives way at every query; its client sends  *)
(* the play again when no answer comes.  The session it found when it      *)
(* began stays the one it updates, though the user may have a new one by   *)
(* then, and the statistics it updates in memory are those of the mode the *)
(* session is in when it comes to them.                                    *)
(*                                                                         *)
(* Of the statistics there are plays, rscore and pp: playtime, tscore,     *)
(* total_hits and max_combo go the way of plays, grades and acc that of    *)
(* rscore and pp.  pp is a plain sum here, without the weights.            *)
(* Left out: checksums that do not match (they are only logged), notes to  *)
(* players, replays, play counts of maps, and achievements.  A map keeps   *)
(* its status: nothing adjusts statistics when that changes.               *)
(***************************************************************************)
EXTENDS Integers, Sequences, FiniteSetsExt

CONSTANTS
    Task,          \* submissions at work
    Session,       \* player objects of the user's logins
    Play,          \* what the client may submit: [map, mode, pp, score, passed]
    Ranked,        \* maps that award ranked pp
    FirstMode,     \* GameMode.VANILLA_OSU
    MaxRows,       \* bound: rows of `scores`
    None

ASSUME PlayAssumption == \A p \in Play :
    DOMAIN p = {"map", "mode", "pp", "score", "passed"} /\ {p.pp, p.score} \subseteq Nat
ASSUME RowsAssumption == MaxRows \in Nat
ASSUME NoneAssumption == None \notin Session \cup Play

Mode == {p.mode : p \in Play} \cup {FirstMode}
ASSUME ModeAssumption == IsFiniteSet(Mode)

NoStats == [m \in Mode |-> [plays |-> 0, rscore |-> 0, pp |-> 0]]

VARIABLES
    scores,        \* the rows; a wiped one has the status "wiped"
    stats,         \* the rows of `stats`
    current,       \* the session in `players`, or None
    loading,       \* the session a login is making, or None
    mem,           \* player.stats of each session
    mode,          \* player.status.mode of each session
    task,          \* what the submissions are doing
    contended,     \* maps and modes where submissions met (history)
    trouble        \* what else happened during one (history)

svars == <<scores, stats, current, loading, mem, mode, task, contended, trouble>>

Idle == [at |-> "idle"]
Busy == {t \in Task : task[t] # Idle}

Place(p) == <<p.map, p.mode>>
BestRows(p) == {i \in DOMAIN scores : scores[i].status = "best" /\ Place(scores[i].play) = Place(p)}
RankedRows(m) == {i \in DOMAIN scores :
    scores[i].status = "best" /\ scores[i].play.mode = m /\ scores[i].play.map \in Ranked}
Total(rows, what) == SumFunction([i \in rows |-> scores[i].play[what]])

\* A wipe or a restart during a submission counts as a meeting, too.
Places(tasks) == {Place(task[t].play) : t \in tasks}

\* Where a task goes, and an object that nobody holds is forgotten.
Goes(t, to) == task' = [task EXCEPT ![t] = to]
Held(s) == s \in {current', loading'} \/ \E t \in Task : task'[t] # Idle /\ task'[t].on = s
Forget(objects, blank) == [s \in Session |-> IF Held(s) THEN objects[s] ELSE blank]

-----------------------------------------------------------------------------
(* The submission up to the row.                                            *)

\* Without an .osu file the score keeps no status; the mode is set when
\* nothing is left to look up.
osuSubmit(t, p) ==
    /\ task[t] = Idle /\ current # None
    /\ Len(scores) + Cardinality(Busy) < MaxRows
    /\ contended' = contended \cup (Places(Busy) \cap {Place(p)})
    /\ trouble' = trouble \cup (IF Busy # {} THEN {"meeting"} ELSE {})
                          \cup (IF loading # None THEN {"login"} ELSE {})
    /\ \E file \in BOOLEAN :
          /\ Goes(t, [at     |-> IF file /\ p.passed THEN "status" ELSE "duplicate",
                      play   |-> p, on |-> current, prev |-> None,
                      status |-> IF file /\ ~p.passed THEN "failed" ELSE "none"])
          /\ mode' = IF file /\ p.passed THEN mode ELSE [mode EXCEPT ![current] = p.mode]
    /\ UNCHANGED <<scores, stats, current, loading, mem>>

\* Any of the rows with status 2, if there are several.
calculate_status(t) ==
    /\ task[t].at = "status"
    /\ LET rows == BestRows(task[t].play)
       IN  IF rows = {} THEN Goes(t, [task[t] EXCEPT !.at = "placement", !.status = "best"])
           ELSE \E i \in rows : Goes(t, [task[t] EXCEPT !.at = "previous", !.prev = i])
    /\ UNCHANGED <<scores, stats, current, loading, mem, mode, contended, trouble>>

\* Score.from_sql finds nothing when the row has been wiped; a better score
\* then raises.
from_sql(t) ==
    /\ task[t].at = "previous"
    /\ LET old == scores[task[t].prev]
           better == task[t].play.pp > old.play.pp
       IN  IF old.status = "wiped" /\ better THEN Goes(t, Idle)
           ELSE Goes(t, [task[t] EXCEPT !.at = "placement",
                            !.prev = IF old.status = "wiped" THEN None ELSE old.play,
                            !.status = IF better THEN "best" ELSE "submitted"])
    /\ UNCHANGED <<scores, stats, current, loading, contended, trouble>>
    /\ mem' = Forget(mem, NoStats) /\ mode' = Forget(mode, FirstMode)

\* Only the session's mode is touched: it becomes that of the play.
calculate_placement(t) ==
    /\ task[t].at = "placement"
    /\ Goes(t, [task[t] EXCEPT !.at = "duplicate"])
    /\ mode' = [mode EXCEPT ![task[t].on] = task[t].play.mode]
    /\ UNCHANGED <<scores, stats, current, loading, mem, contended, trouble>>

\* "error: no", or an exception for a score without a status.  Mutant: only
\* the best scores are looked at.
Duplicate_OfBest(p) == \E i \in BestRows(p) : scores[i].play = p
Duplicate(p) == \E i \in DOMAIN scores : scores[i].play = p /\ scores[i].status # "wiped"

CheckDuplicate(t) ==
    /\ task[t].at = "duplicate"
    /\ IF Duplicate(task[t].play) \/ task[t].status = "none" THEN Goes(t, Idle)
       ELSE Goes(t, [task[t] EXCEPT !.at = IF task[t].status = "best" THEN "demote" ELSE "insert"])
    /\ UNCHANGED <<scores, stats, current, loading, contended, trouble>>
    /\ mem' = Forget(mem, NoStats) /\ mode' = Forget(mode, FirstMode)

\* Mutant: in every mode.
DemotedRows_AnyMode(p) == {i \in DOMAIN scores : scores[i].status = "best" /\ scores[i].play.map = p.map}
DemotedRows(p) == BestRows(p)

Demote(t) ==
    /\ task[t].at = "demote"
    /\ scores' = [i \in DOMAIN scores |-> IF i \in DemotedRows(task[t].play)
                                          THEN [scores[i] EXCEPT !.status = "submitted"] ELSE scores[i]]
    /\ Goes(t, [task[t] EXCEPT !.at = "insert"])
    /\ UNCHANGED <<stats, current, loading, mem, mode, contended, trouble>>

\* A play that passed without a replay restricts the player, who is logged out.
Insert(t) ==
    /\ task[t].at = "insert"
    /\ scores' = Append(scores, [play |-> task[t].play, status |-> task[t].status])
    /\ \E replay \in BOOLEAN :
          IF task[t].play.passed /\ ~replay /\ current = task[t].on
          THEN current' = None ELSE UNCHANGED current
    /\ Goes(t, [task[t] EXCEPT !.at = "stats"])
    /\ UNCHANGED <<stats, loading, mem, mode, contended, trouble>>

-----------------------------------------------------------------------------
(* The statistics.                                                          *)

Counts(t) == task[t].status = "best" /\ task[t].play.map \in Ranked

\* Mutant: the previous best stays in ranked score.
Gained_All(t) == task[t].play.score
Gained(t) == task[t].play.score - (IF task[t].prev = None THEN 0 ELSE task[t].prev.score)

\* player.gm_stats: of the mode the session is in by now.
AddToStats(t) ==
    /\ task[t].at = "stats"
    /\ LET s == task[t].on
           m == mode[s]
           new == [mem[s][m] EXCEPT !.plays = @ + 1, !.rscore = @ + (IF Counts(t) THEN Gained(t) ELSE 0)]
       IN  /\ mem' = [mem EXCEPT ![s][m] = new]
           /\ Goes(t, [at |-> IF Counts(t) THEN "pp" ELSE "update", play |-> task[t].play, on |-> s,
                       counts |-> Counts(t), of |-> m, new |-> new])
    /\ UNCHANGED <<scores, stats, current, loading, mode, contended, trouble>>

\* All best scores of the play's mode; if there are none by now, a division by
\* zero ends the task.
SelectBest(t) ==
    /\ task[t].at = "pp"
    /\ UNCHANGED <<scores, stats, current, loading, contended, trouble>>
    /\ LET rows == RankedRows(task[t].play.mode)
           pp == Total(rows, "pp")
       IN  IF rows = {} THEN Goes(t, Idle) /\ mem' = Forget(mem, NoStats)
           ELSE /\ mem' = [mem EXCEPT ![task[t].on][task[t].of].pp = pp]
                /\ Goes(t, [task[t] EXCEPT !.at = "update", !.new.pp = pp])
    /\ mode' = Forget(mode, FirstMode)

\* Into the row of the play's mode go the values of then.
UpdateStats(t) ==
    /\ task[t].at = "update"
    /\ stats' = [stats EXCEPT ![task[t].play.mode] =
                    IF task[t].counts THEN task[t].new ELSE [@ EXCEPT !.plays = task[t].new.plays]]
    /\ Goes(t, Idle)
    /\ UNCHANGED <<scores, current, loading, contended, trouble>>
    /\ mem' = Forget(mem, NoStats) /\ mode' = Forget(mode, FirstMode)

-----------------------------------------------------------------------------
(* Meanwhile.                                                               *)

ChangeAction(m) ==
    /\ current # None /\ mode[current] # m
    /\ mode' = [mode EXCEPT ![current] = m]
    /\ trouble' = IF Busy = {} THEN trouble ELSE trouble \cup {"mode"}
    /\ UNCHANGED <<scores, stats, current, loading, mem, task, contended>>

Logout ==
    /\ current # None
    /\ current' = None
    /\ UNCHANGED <<scores, stats, loading, task, contended, trouble>>
    /\ mem' = Forget(mem, NoStats) /\ mode' = Forget(mode, FirstMode)

\* stats_from_sql_full, of all modes; the session is appended later.
LoginLoads(s) ==
    /\ current = None /\ loading = None
    /\ \A t \in Busy : task[t].on # s
    /\ loading' = s
    /\ mem' = [mem EXCEPT ![s] = stats]
    /\ trouble' = IF Busy = {} /\ trouble = {} THEN {} ELSE trouble \cup {"login"}
    /\ UNCHANGED <<scores, stats, current, mode, task, contended>>

LoginEnds ==
    /\ loading # None
    /\ current' = loading /\ loading' = None
    /\ UNCHANGED <<scores, stats, mem, mode, task, contended, trouble>>

\* !wipemap: statistics stay.
wipemap(map) ==
    /\ \E i \in DOMAIN scores : scores[i].play.map = map /\ scores[i].status # "wiped"
    /\ scores' = [i \in DOMAIN scores |-> IF scores[i].play.map = map
                                          THEN [scores[i] EXCEPT !.status = "wiped"] ELSE scores[i]]
    /\ contended' = contended \cup {k \in Places(Busy) : k[1] = map}
    /\ trouble' = trouble \cup {"wipe"}
    /\ UNCHANGED <<stats, current, loading, mem, mode, task>>

\* The server stops in the middle of everything.
Restart ==
    /\ current' = None /\ loading' = None
    /\ task' = [t \in Task |-> Idle]
    /\ contended' = contended \cup Places(Busy)
    /\ trouble' = IF Busy = {} THEN trouble ELSE trouble \cup {"login"}
    /\ mem' = [s \in Session |-> NoStats] /\ mode' = [s \in Session |-> FirstMode]
    /\ UNCHANGED <<scores, stats>>

-----------------------------------------------------------------------------

SubmissionInit ==
    /\ scores = <<>>
    /\ stats = NoStats
    /\ current = None /\ loading = None
    /\ mem = [s \in Session |-> NoStats]
    /\ mode = [s \in Session |-> FirstMode]
    /\ task = [t \in Task |-> Idle]
    /\ contended = {} /\ trouble = {}

TaskNext(t) ==
    \/ \E p \in Play : osuSubmit(t, p)
    \/ calculate_status(t) \/ from_sql(t) \/ calculate_placement(t)
    \/ CheckDuplicate(t) \/ Demote(t) \/ Insert(t)
    \/ AddToStats(t) \/ SelectBest(t) \/ UpdateStats(t)

SubmissionNext ==
    \/ \E t \in Task : TaskNext(t)
    \/ \E m \in Mode : ChangeAction(m)
    \/ Logout \/ LoginEnds \/ \E s \in Session : LoginLoads(s)
    \/ \E p \in Play : wipemap(p.map)
    \/ Restart

SubmissionSpec == SubmissionInit /\ [][SubmissionNext]_svars

-----------------------------------------------------------------------------
(* Properties.                                                              *)

Kept == {i \in DOMAIN scores : scores[i].status # "wiped"}

\* A play is stored once, however often its client sends it, if no two
\* submissions for the same map and mode meet: the check and the INSERT are far
\* apart (osu.py:749, 840).
NoDuplicate == \A i, j \in Kept :
    scores[i].play = scores[j].play /\ Place(scores[i].play) \notin contended => i = j

\* Of the scores that passed on a map in a mode exactly one is the best, and it
\* is one of those with the most pp, whatever is submitted elsewhere meanwhile
\* (osu.py:830-840, score.py:404-440).
OneBest == Busy = {} =>
    \A i \in Kept : scores[i].status # "failed" /\ Place(scores[i].play) \notin contended =>
        \E j \in Kept : /\ BestRows(scores[i].play) = {j}
                        /\ scores[j].play.pp >= scores[i].play.pp

\* The statistics are those of the scores, in the database and in the session,
\* if submissions come one at a time and no change of mode, login or wipe comes
\* in between; if they meet, or the mode changes, it is still true that the
\* session counts every play (osu.py:877-1005).
PlaysOf(m) == Cardinality({i \in Kept : scores[i].play.mode = m})
StatsFollowScores == Busy = {} =>
    /\ trouble = {} =>
         /\ current # None => mem[current] = stats
         /\ \A m \in Mode : stats[m] = [plays  |-> PlaysOf(m),
                                        rscore |-> Total(RankedRows(m), "score"),
                                        pp     |-> Total(RankedRows(m), "pp")]
    /\ current # None /\ trouble \cap {"login", "wipe"} = {} =>
         SumFunction([m \in Mode |-> mem[current][m].plays]) = Cardinality(Kept)

=============================================================================
