--------------------------- MODULE MatchReferee ---------------------------
(***************************************************************************)
(* The !mp commands of a match: its referees, the start timer, and the     *)
(* commands that seat, lock, start and abort.  They come in through chat   *)
(* and change the same slots and host the packets of Match change.         *)
(***************************************************************************)
EXTENDS MatchCourteous

CONSTANT Staff      \* players with the tournament and administrator privileges

ASSUME StaffAssumption == Staff \subseteq Player

VARIABLES
    refs,        \* m._refs
    timer        \* ctx.player of the pending `!mp start N`, or None

refereeVars == <<vars, refs, timer>>

\* The property Match.refs: reading it adds the host to _refs for good.
RefsRead == refs \cup {host}

RefereeTypeOK ==
    /\ TypeOK
    /\ refs \subseteq Player
    /\ timer \in Player \cup {None}

-----------------------------------------------------------------------------
(* The packets, loaded and skipped apart, with what leave_match does to the *)
(* referees and the timer: the last to leave cancels the timer, anyone else *)
(* loses referee rights.  The clients are courteous, so that no leave_match *)
(* raises half way.                                                         *)

Left(p) == p \in members /\ p \notin members'

\* Mutants: a leaver keeps referee rights; the last one leaves the timer running.
ClientStep_KeepsRefs(p) ==
    /\ SeatStep(p)
    /\ timer' = IF Left(p) /\ AllEmpty(slots') THEN None ELSE timer
    /\ UNCHANGED refs
ClientStep_KeepsTimer(p) ==
    /\ SeatStep(p)
    /\ refs' = IF Left(p) /\ ~AllEmpty(slots') THEN refs \ {p} ELSE refs
    /\ UNCHANGED timer

ClientStep(p) ==
    /\ SeatStep(p)
    /\ refs' = IF Left(p) /\ ~AllEmpty(slots') THEN refs \ {p} ELSE refs
    /\ timer' = IF Left(p) /\ AllEmpty(slots') THEN None ELSE timer

-----------------------------------------------------------------------------
(* The commands.                                                            *)

\* ensure_match: every !mp command evaluates match.refs, which raises when the
\* host is not online, before it knows whether the player may use it.
Referee(p) ==
    /\ InMatch(p)
    /\ HostOnline
    /\ p \in RefsRead \cup Staff

NotAReferee(p) ==
    /\ InMatch(p)
    /\ HostOnline
    /\ p \notin RefsRead \cup Staff
    /\ refs' = RefsRead
    /\ UNCHANGED <<vars, timer>>

StartNow == start /\ UNCHANGED <<stage, host, members, session>>

mp_start(p) ==
    /\ Referee(p)
    /\ timer = None
    /\ ~\E s \in Slot : slots[s].status = "not_ready"
    /\ StartNow
    /\ refs' = RefsRead
    /\ UNCHANGED timer

\* A forced start leaves a pending timer running.
mp_start_force(p) ==
    /\ Referee(p)
    /\ StartNow
    /\ refs' = RefsRead
    /\ UNCHANGED timer

mp_start_in(p) ==
    /\ Referee(p)
    /\ timer = None
    /\ timer' = p
    /\ refs' = RefsRead
    /\ UNCHANGED vars

mp_start_cancel(p) ==
    /\ Referee(p)
    /\ timer # None
    /\ timer' = None
    /\ refs' = RefsRead
    /\ UNCHANGED vars

\* The callback of call_later: starts the match if whoever set it is still in.
TimerFires ==
    /\ timer # None
    /\ timer' = None
    /\ IF SlotsOf(timer) # {} THEN StartNow ELSE UNCHANGED vars
    /\ UNCHANGED refs

\* Mutant: the players of an aborted round keep playing.
mp_abort_FlagOnly(p) ==
    /\ Referee(p)
    /\ inProgress
    /\ inProgress' = FALSE
    /\ refs' = RefsRead
    /\ UNCHANGED <<stage, slots, host, members, session, timer>>

mp_abort(p) ==
    /\ Referee(p)
    /\ inProgress
    /\ slots' = Unready("playing", slots)
    /\ inProgress' = FALSE
    /\ refs' = RefsRead
    /\ UNCHANGED <<stage, host, members, session, timer>>

\* _refs is read before the host changes, so the old host stays a referee.
mp_host(p, t) ==
    /\ Referee(p)
    /\ t # host /\ SlotsOf(t) # {}
    /\ host' = t
    /\ refs' = RefsRead
    /\ UNCHANGED <<stage, slots, inProgress, members, session, timer>>

mp_addref(p, t) ==
    /\ Referee(p)
    /\ SlotsOf(t) # {} /\ t \notin RefsRead
    /\ refs' = RefsRead \cup {t}
    /\ UNCHANGED <<vars, timer>>

mp_rmref(p, t) ==
    /\ Referee(p)
    /\ session[t] # "offline" /\ t \in RefsRead /\ t # host
    /\ refs' = RefsRead \ {t}
    /\ UNCHANGED <<vars, timer>>

\* for slot in match.slots: if its status is `from`, it becomes `to`; the
\* player of the slot is not looked at.
mp_SetAll(p, from, to) ==
    /\ Referee(p)
    /\ slots' = [s \in Slot |-> IF slots[s].status = from
                                   THEN SetStatus(slots[s], to) ELSE slots[s]]
    /\ refs' = RefsRead
    /\ UNCHANGED <<stage, host, inProgress, members, session, timer>>

mp_lock(p)   == mp_SetAll(p, "open", "locked")
mp_unlock(p) == mp_SetAll(p, "locked", "open")

\* t.join_match, without looking for the match in `matches`.
mp_force(p, t) ==
    /\ Referee(p)
    /\ p \in Staff
    /\ join_match(t)
    /\ refs' = RefsRead
    /\ UNCHANGED timer

-----------------------------------------------------------------------------

RefereeInit == Init /\ refs = {} /\ timer = None

StartCommand(p) == mp_start(p) \/ mp_start_force(p) \/ mp_start_in(p) \/ mp_start_cancel(p)

RefCommand(p, t) == mp_host(p, t) \/ mp_addref(p, t) \/ mp_rmref(p, t) \/ mp_force(p, t)

Command(p) ==
    \/ NotAReferee(p)
    \/ StartCommand(p)
    \/ mp_abort(p) \/ mp_lock(p) \/ mp_unlock(p)
    \/ \E t \in Player : RefCommand(p, t)

RefereeNext ==
    \/ \E p \in Player : ClientStep(p) \/ Command(p)
    \/ TimerFires

CourteousRefereeSpec == RefereeInit /\ [][RefereeNext /\ Courteous]_refereeVars

-----------------------------------------------------------------------------

\* "User must be in the current match!" (commands.py:1890): the referees of an
\* open match are players in it.  leave_match drops the leaver's rights; under
\* courteous clients no command brings them back.
RefsInMatch == stage = "open" => refs \subseteq members

\* "cancel any pending start timers" (player.py:758): a match that has closed
\* never starts.
ClosedHasNoTimer == stage = "closed" => timer = None

=============================================================================
