------------------------------- MODULE Match -------------------------------
(***************************************************************************)
(* One multiplayer match of the bancho server: its slots, its host, the    *)
(* round being played, and the players whose `p.match` points at it.       *)
(*                                                                         *)
(* The server runs on one asyncio event loop.  None of the handlers        *)
(* modelled here awaits, so each is one action.  A handler that raises     *)
(* (`assert slot is not None`, `assert p is not None` in Match.host) stops *)
(* where it raised: what it had already assigned stays assigned.  When it  *)
(* raises, or returns, before its first assignment it is no step at all.   *)
(*                                                                         *)
(* Left out here: teams, mods and the map (data of a slot that no guard    *)
(* below reads), the match's chat and tournament clients (a join they      *)
(* refuse changes nothing), and the referee commands (MatchReferee).       *)
(***************************************************************************)
EXTENDS Naturals

CONSTANTS
    Player,      \* user ids; at most one session of an id is in `players`
    None,        \* Python's None
    NumSlots     \* len(m.slots), 16 in the code

ASSUME NumSlotsAssumption == NumSlots \in Nat \ {0}

VARIABLES
    stage,       \* "none": not created, "open": in `matches`, "closed": removed
    slots,       \* m.slots
    host,        \* m.host_id
    inProgress,  \* m.in_progress
    members,     \* the players p with p.match = m
    session      \* a player's session: see SessionState

vars == <<stage, slots, host, inProgress, members, session>>

Slot == 1 .. NumSlots

ASSUME NoneAssumption == None \notin Player \cup Slot

\* "has_player" is the mask of the other five, and a SlotStatus of its own that
\* a client may create a match with.
Status == {"open", "locked", "not_ready", "ready", "no_map", "playing", "complete",
           "has_player"}
has_player == {"not_ready", "ready", "no_map", "playing", "complete", "has_player"}

\* "zombie": logout() cleared the token and then raised, so the session is
\* still in `players` but no request can reach it any more.
SessionState == {"offline", "online", "zombie"}

SlotRecord == [player: Player \cup {None}, status: Status,
               loaded: BOOLEAN, skipped: BOOLEAN]

TypeOK ==
    /\ stage \in {"none", "open", "closed"}
    /\ slots \in [Slot -> SlotRecord]
    /\ host \in Player \cup {None}
    /\ inProgress \in BOOLEAN
    /\ members \subseteq Player
    /\ session \in [Player -> SessionState]

-----------------------------------------------------------------------------
(* Reading the match.                                                       *)

\* A slot as Slot.reset(new_status) leaves it.
Reset(newStatus) ==
    [player |-> None, status |-> newStatus, loaded |-> FALSE, skipped |-> FALSE]

\* Assigning a slot's status; and assigning its player and status, as both
\* Slot.copy_from and join_match do: loaded and skipped stay what they were.
SetStatus(slot, st) == [slot EXCEPT !.status = st]
Take(slot, p, st)   == [slot EXCEPT !.player = p, !.status = st]

\* The slots get_slot(p) can return; OneSeat says there is at most one.
SlotsOf(p) == {s \in Slot : slots[s].player = p}

\* s is the first slot of S: the one a `for s in m.slots` loop stops at.
IsFirst(s, S) == s \in S /\ \A t \in S : s <= t

\* Mutant: any slot that is not locked is taken for a free one.
OpenSlots_Unlocked == {s \in Slot : slots[s].status # "locked"}
OpenSlots == {s \in Slot : slots[s].status = "open"}

\* The slots whose status has a has_player bit, in a given slot function.
Occupied(sl) == {s \in Slot : sl[s].status \in has_player}

\* Mutant: a match without an occupied slot is over, kicked players or not.
AllEmpty_ByStatus(sl) == Occupied(sl) = {}
AllEmpty(sl) == \A s \in Slot : sl[s].player = None

\* A slot whose status says it has a player, and that has none: write_match
\* reads `s.player.id` of it, so that sending the match's state raises.
Hole(sl) == \E s \in Occupied(sl) : sl[s].player = None

\* The `host` property finds host_id in `players`; otherwise it raises.
HostOnline == host \in Player /\ session[host] # "offline"

\* The guards every match packet starts from: `if not (m := p.match)`.
InMatch(p) == session[p] = "online" /\ p \in members
IsHost(p)  == InMatch(p) /\ host = p

-----------------------------------------------------------------------------
(* Creating, joining and leaving.                                           *)

\* MatchCreate: from_parsed_match takes the statuses of the slots and the id
\* of the host as the client sent them, and the match is in `matches` before
\* join_match looks at anything.  It seats the creator, or nobody: the creator
\* is in another match, no slot is open, or the host is not online and
\* join_match raises.
MatchCreate(p) ==
    /\ stage = "none"
    /\ session[p] = "online"
    /\ \E st \in [Slot -> Status], h \in Player \cup {None} :
          LET created == [s \in Slot |-> Reset(st[s])] IN
          /\ host' = h
          /\ \/ /\ h \in Player /\ session[h] # "offline"
                /\ \E s \in Slot :
                      /\ IF p = h THEN s = 1 ELSE IsFirst(s, {t \in Slot : st[t] = "open"})
                      /\ slots' = [created EXCEPT ![s] = Take(@, p, "not_ready")]
                /\ members' = members \cup {p}
             \/ slots' = created /\ UNCHANGED members
    /\ stage' = "open"
    /\ UNCHANGED <<inProgress, session>>

\* join_match: whoever is the host takes the first slot whatever it holds, any
\* other player the first slot whose status is open.  Only the player and the
\* status of the slot are assigned.
join_match(p) ==
    /\ session[p] = "online"
    /\ p \notin members
    /\ HostOnline
    /\ \E s \in Slot :
          /\ IF p = host THEN s = 1 ELSE IsFirst(s, OpenSlots)
          /\ slots' = [slots EXCEPT ![s] = Take(@, p, "not_ready")]
    /\ members' = members \cup {p}
    /\ UNCHANGED <<stage, host, inProgress, session>>

\* The packet finds the match in `matches`.
MatchJoin(p) == stage = "open" /\ join_match(p)

\* leave_match after the player's slot has been found and reset, with sl the
\* resulting slots: the last player closes the match; a leaving host hands
\* over to the first occupied slot if there is one.
\* Mutants: only the player, or only the status, of the slot is reset.
LeaveSeat_PlayerOnly(p, s, sl) ==
    s \in SlotsOf(p) /\ sl = [slots EXCEPT ![s].player = None]
LeaveSeat_StatusOnly(p, s, sl) ==
    s \in SlotsOf(p) /\ sl = [slots EXCEPT ![s].status = "open"]

LeaveSeat(p, s, sl) ==
    /\ s \in SlotsOf(p)
    /\ sl = [slots EXCEPT ![s] =
                Reset(IF slots[s].status = "locked" THEN "locked" ELSE "open")]

\* The host hands over to the first occupied slot; `s.player.id` raises when
\* nobody is in it.
HandOver(p, sl) ==
    IF p = host /\ Occupied(sl) # {}
       THEN \E t \in Slot :
               /\ IsFirst(t, Occupied(sl))
               /\ host' = IF sl[t].player = None THEN host ELSE sl[t].player
       ELSE UNCHANGED host

\* Whoever is left is told of the new state of the match: the host property
\* and write_match do not raise.
CanLeave(sl) == AllEmpty(sl) \/ (HostOnline /\ ~Hole(sl))

\* Mutant: a leaving host stays the host.
LeaveCompletely_NoTransfer(p, sl) ==
    /\ CanLeave(sl)
    /\ members' = members \ {p}
    /\ stage' = IF AllEmpty(sl) THEN "closed" ELSE stage
    /\ UNCHANGED host

LeaveCompletely(p, sl) ==
    /\ CanLeave(sl)
    /\ members' = members \ {p}
    /\ stage' = IF AllEmpty(sl) THEN "closed" ELSE stage
    /\ HandOver(p, sl)

\* The host property raised in `self is self.match.host`, or a slot without its
\* player in the loop or in enqueue_state: the slot is already reset, and the
\* host may have been handed over, but `self.match = None` is never reached.
LeaveRaises(p, sl) ==
    /\ ~CanLeave(sl)
    /\ HandOver(p, sl)
    /\ UNCHANGED <<members, stage>>

MatchPart(p) ==
    /\ InMatch(p)
    /\ \E s \in SlotsOf(p) :
          /\ LeaveSeat(p, s, slots')
          /\ LeaveCompletely(p, slots') \/ LeaveRaises(p, slots')
    /\ UNCHANGED <<inProgress, session>>

-----------------------------------------------------------------------------
(* Sessions, as far as a match sees them.                                   *)

Login(p) ==
    /\ session[p] = "offline"
    /\ session' = [session EXCEPT ![p] = "online"]
    /\ UNCHANGED <<stage, slots, host, inProgress, members>>

\* Player.logout of a player in no match, or whose leave_match succeeds.
Logout(p) ==
    /\ session[p] = "online"
    /\ session' = [session EXCEPT ![p] = "offline"]
    /\ \/ /\ p \notin members
          /\ UNCHANGED <<stage, slots, host, members>>
       \/ /\ p \in members
          /\ \E s \in SlotsOf(p) :
                LeaveSeat(p, s, slots') /\ LeaveCompletely(p, slots')
    /\ UNCHANGED inProgress

\* Player.logout whose leave_match raises: the token is gone, the session is not.
LogoutRaises(p) ==
    /\ InMatch(p)
    /\ session' = [session EXCEPT ![p] = "zombie"]
    /\ \/ /\ SlotsOf(p) = {}
          /\ UNCHANGED <<stage, slots, host, members>>
       \/ \E s \in SlotsOf(p) :
             LeaveSeat(p, s, slots') /\ LeaveRaises(p, slots')
    /\ UNCHANGED inProgress

-----------------------------------------------------------------------------
(* A player's own slot.                                                     *)

\* `slot.status = st` on the sender's slot.
SetOwnStatus(p, st) ==
    /\ InMatch(p)
    /\ \E s \in SlotsOf(p) : slots' = [slots EXCEPT ![s] = SetStatus(@, st)]
    /\ UNCHANGED <<stage, host, inProgress, members, session>>

MatchReady(p)      == SetOwnStatus(p, "ready")
MatchNotReady(p)   == SetOwnStatus(p, "not_ready")
MatchNoBeatmap(p)  == SetOwnStatus(p, "no_map")
MatchHasBeatmap(p) == SetOwnStatus(p, "not_ready")

\* Mutants: the old slot is not reset; any slot may be moved to.
MatchChangeSlot_NoReset(p, t) ==
    /\ InMatch(p)
    /\ slots[t].status = "open"
    /\ \E s \in SlotsOf(p) : slots' = [slots EXCEPT ![t] = Take(@, p, slots[s].status)]
    /\ UNCHANGED <<stage, host, inProgress, members, session>>
MatchChangeSlot_AnySlot(p, t) ==
    /\ InMatch(p)
    /\ \E s \in SlotsOf(p) :
          slots' = [slots EXCEPT ![t] = Take(@, p, slots[s].status),
                                 ![s] = Reset("open")]
    /\ UNCHANGED <<stage, host, inProgress, members, session>>

\* The target takes the player and the status, not loaded or skipped; then the
\* old slot is reset, also when it is the target itself.
MatchChangeSlot(p, t) ==
    /\ InMatch(p)
    /\ slots[t].status = "open"
    /\ \E s \in SlotsOf(p) :
          slots' = [slots EXCEPT ![t] = Take(@, p, slots[s].status),
                                 ![s] = Reset("open")]
    /\ UNCHANGED <<stage, host, inProgress, members, session>>

-----------------------------------------------------------------------------
(* The host's controls.                                                     *)

\* A locked slot opens, whoever sits in it; any other slot but the host's own
\* is locked with its player still in it, whose client is trusted to leave.
MatchLock(p, t) ==
    /\ IsHost(p)
    /\ \/ /\ slots[t].status = "locked"
          /\ slots' = [slots EXCEPT ![t] = SetStatus(@, "open")]
       \/ /\ slots[t].status # "locked"
          /\ slots[t].player # host
          /\ slots' = [slots EXCEPT ![t] = SetStatus(@, "locked")]
    /\ UNCHANGED <<stage, host, inProgress, members, session>>

MatchTransferHost(p, t) ==
    /\ IsHost(p)
    /\ slots[t].player # None
    /\ host' = slots[t].player
    /\ UNCHANGED <<stage, slots, inProgress, members, session>>

\* Match.unready_players(expected)
Unready(expected, sl) ==
    [s \in Slot |-> IF sl[s].status = expected
                       THEN SetStatus(sl[s], "not_ready") ELSE sl[s]]

\* MatchChangeSettings, as far as slots are concerned: choosing a new map
\* (map_id = -1) unreadies whoever was ready.
MatchChangeMap(p) ==
    /\ IsHost(p)
    /\ slots' = Unready("ready", slots)
    /\ UNCHANGED <<stage, host, inProgress, members, session>>

-----------------------------------------------------------------------------
(* A round.                                                                 *)

\* Match.start: every occupied slot that has the map plays.
Started(sl) ==
    [s \in Slot |-> IF sl[s].status \in has_player \ {"no_map"}
                       THEN SetStatus(sl[s], "playing") ELSE sl[s]]

\* The loop stops, with `in_progress` not yet set, at a slot without the map
\* whose player it cannot name.
start ==
    \/ /\ \A s \in Slot : slots[s].status = "no_map" => slots[s].player # None
       /\ slots' = Started(slots)
       /\ inProgress' = TRUE
    \/ /\ \E t \in Slot :
             /\ IsFirst(t, {s \in Slot : slots[s].status = "no_map" /\ slots[s].player = None})
             /\ slots' = [s \in Slot |-> IF s < t THEN Started(slots)[s] ELSE slots[s]]
       /\ UNCHANGED inProgress

MatchStart(p) ==
    /\ IsHost(p)
    /\ start
    /\ UNCHANGED <<stage, host, members, session>>

MatchLoadComplete(p) ==
    /\ InMatch(p)
    /\ \E s \in SlotsOf(p) : slots' = [slots EXCEPT ![s].loaded = TRUE]
    /\ UNCHANGED <<stage, host, inProgress, members, session>>

MatchSkipRequest(p) ==
    /\ InMatch(p)
    /\ \E s \in SlotsOf(p) : slots' = [slots EXCEPT ![s].skipped = TRUE]
    /\ UNCHANGED <<stage, host, inProgress, members, session>>

Completed(s) == [slots EXCEPT ![s] = SetStatus(@, "complete")]
AnyPlaying(sl) == \E t \in Slot : sl[t].status = "playing"

\* `s.player.id` of somebody who has not been playing.
CannotName(sl) == \E t \in Occupied(sl) : sl[t].status # "complete" /\ sl[t].player = None

\* The sender has completed; the last of the players to do so ends the round,
\* unless the list of those who were not playing raises first.
MatchComplete(p) ==
    /\ InMatch(p)
    /\ \E s \in SlotsOf(p) :
          \/ /\ AnyPlaying(Completed(s)) \/ CannotName(Completed(s))
             /\ slots' = Completed(s)
             /\ UNCHANGED inProgress
          \/ /\ ~AnyPlaying(Completed(s)) /\ ~CannotName(Completed(s))
             /\ slots' = Unready("complete", Completed(s))
             /\ inProgress' = FALSE
    /\ UNCHANGED <<stage, host, members, session>>

-----------------------------------------------------------------------------

Init ==
    /\ stage = "none"
    /\ slots = [s \in Slot |-> Reset("open")]
    /\ host = None
    /\ inProgress = FALSE
    /\ members = {}
    /\ session = [p \in Player |-> "offline"]

OwnSlotStep(p) ==
    \/ MatchReady(p) \/ MatchNotReady(p) \/ MatchNoBeatmap(p) \/ MatchHasBeatmap(p)
    \/ \E t \in Slot : MatchChangeSlot(p, t)

HostStep(p) ==
    \/ \E t \in Slot : MatchLock(p, t) \/ MatchTransferHost(p, t)
    \/ MatchChangeMap(p)
    \/ MatchStart(p)

SessionStep(p) == Login(p) \/ Logout(p) \/ LogoutRaises(p)

\* Sets a flag of the sender's slot, which nothing outside MatchRounds reads.
FlagStep(p) == MatchLoadComplete(p) \/ MatchSkipRequest(p)

SeatStep(p) ==
    \/ MatchCreate(p) \/ MatchJoin(p) \/ MatchPart(p)
    \/ OwnSlotStep(p) \/ HostStep(p) \/ MatchComplete(p) \/ SessionStep(p)

PlayerStep(p) == SeatStep(p) \/ FlagStep(p)

Next == \E p \in Player : PlayerStep(p)

Spec == Init /\ [][Next]_vars

\* What the server assumes of a client that creates a match ("TODO: match
\* validation..?", cho.py:1208; "validate there is no hole here?",
\* match.py:305): it names itself as the host, is in no other match, and the
\* other slots are open or locked, as the game sends them.
CreatesAsTheGame ==
    stage = "none" /\ stage' = "open" =>
        /\ host' \in Player /\ slots'[1].player = host'
        /\ \A s \in Slot \ {1} : slots'[s].status \in {"open", "locked"}

GameNext == Next /\ CreatesAsTheGame

GameSpec == Init /\ [][GameNext]_vars

-----------------------------------------------------------------------------
(* What the handlers keep true whatever the clients send, in any order.     *)

\* No player ever sits in two slots: a slot overwritten by a second player, a
\* move onto a reopened slot, a leave and a rejoin never leave a copy behind
\* (copy_from followed by reset, cho.py:1355; get_slot relies on it).
OneSeat == \A s, t \in Slot :
    slots[s].player = slots[t].player /\ slots[s].player # None => s = t

\* Whoever a slot holds is a player whose p.match is this match, so the slot
\* is emptied when that player leaves or logs out (player.py:739, 790).
SeatedAreMembers == \A s \in Slot : slots[s].player # None => slots[s].player \in members

\* p.match is only ever set on a session that is in `players`: a member can
\* always be resolved by id when it becomes host (match.py:319).
MembersHaveSession == \A p \in members : session[p] # "offline"

-----------------------------------------------------------------------------
(* And of a match that was created as the game's client creates one.        *)

\* A slot whose status says it has a player holds one: write_match reads
\* `s.player.id` of exactly these slots (packets.py:650), start and
\* MatchComplete too; and a locked slot never counts as one.
StatusHasPlayer == \A s \in Occupied(slots) : slots[s].player # None

\* A match that left `matches` is empty for good: nobody is left sitting in a
\* match no packet can reach (player.py:753-769).
ClosedIsEmpty == stage = "closed" => AllEmpty(slots) /\ Occupied(slots) = {}

\* Somebody plays only while in_progress is set, so `!mp abort`, which checks
\* in_progress, can always stop them (match.py:454, cho.py:1593).
PlayingInProgress == AnyPlaying(slots) => inProgress

-----------------------------------------------------------------------------
(* What the source asserts of a match, which the code does not keep.         *)

\* `assert slot is not None` in every packet a match member sends
\* (cho.py:1353, 1368, 1569, 1644; player.py:740).
MemberHasSlot == \A p \in members : SlotsOf(p) # {}

=============================================================================
