---------------------------- MODULE MatchRounds ----------------------------
(***************************************************************************)
(* The two barriers of a round.  A playing client says it has loaded, or   *)
(* wants to skip the intro; when every slot that plays has said so, the    *)
(* server tells the whole match to begin, or to skip.  The server keeps    *)
(* the answers in slot.loaded and slot.skipped.                            *)
(*                                                                         *)
(* The history variables say what clients really answered since the round  *)
(* started and what they were told; the code has no such state.  Clients   *)
(* are courteous (MatchCourteous); they answer only while they play, and   *)
(* use their slot's buttons only while they do not.                        *)
(***************************************************************************)
EXTENDS MatchCourteous

CONSTANT MaxRounds     \* bound: how many rounds the host starts

ASSUME MaxRoundsAssumption == MaxRounds \in Nat

VARIABLES
    rounds,      \* rounds started so far
    loadedNow,   \* who has sent MATCH_LOAD_COMPLETE in this round
    skipNow,     \* who has sent MATCH_SKIP_REQUEST in this round
    begun,       \* match_all_players_loaded has been sent in this round
    gone,        \* somebody stopped playing in this round without having loaded
    skipSent     \* match_skip has been sent in this round

history == <<rounds, loadedNow, skipNow, begun, gone, skipSent>>
rvars == <<vars, history>>

Playing(sl) == {s \in Slot : sl[s].status = "playing"}

\* `not any(map(is_playing, m.slots))`
is_playing(slot) == slot.status = "playing" /\ ~slot.loaded
\* Mutants: one that has loaded is enough; everyone in the match must have.
AllLoaded_Any(sl) == \E s \in Playing(sl) : sl[s].loaded
AllLoaded_Everyone(sl) == \A s \in Occupied(sl) : sl[s].loaded
AllLoaded(sl) == ~\E s \in Slot : is_playing(sl[s])

\* The loop of MatchSkipRequest reaches its end.
AllSkipped(sl) == ~\E s \in Slot : sl[s].status = "playing" /\ ~sl[s].skipped

PlayersOf(sl) == {sl[s].player : s \in Playing(sl)}
PlaysNow(p) == \E s \in SlotsOf(p) : slots[s].status = "playing"

-----------------------------------------------------------------------------

RoundsInit ==
    /\ Init
    /\ rounds = 0
    /\ loadedNow = {} /\ skipNow = {}
    /\ begun = FALSE /\ gone = FALSE /\ skipSent = FALSE

StartRound(p) ==
    /\ rounds < MaxRounds
    /\ ~PlaysNow(p)
    /\ MatchStart(p)
    /\ rounds' = rounds + 1
    /\ loadedNow' = {} /\ skipNow' = {}
    /\ begun' = FALSE /\ gone' = FALSE /\ skipSent' = FALSE

LoadComplete(p) ==
    /\ PlaysNow(p)
    /\ MatchLoadComplete(p)
    /\ loadedNow' = loadedNow \cup {p}
    /\ begun' = (begun \/ AllLoaded(slots'))
    /\ UNCHANGED <<rounds, skipNow, gone, skipSent>>

SkipRequest(p) ==
    /\ PlaysNow(p)
    /\ MatchSkipRequest(p)
    /\ skipNow' = skipNow \cup {p}
    /\ skipSent' = (skipSent \/ AllSkipped(slots'))
    /\ UNCHANGED <<rounds, loadedNow, begun, gone>>

OtherStep(p) ==
    /\ \/ MatchCreate(p) \/ MatchJoin(p) \/ MatchPart(p)
       \/ ~PlaysNow(p) /\ OwnSlotStep(p)
       \/ SessionStep(p)
       \/ MatchChangeMap(p)
       \/ \E t \in Slot : MatchLock(p, t) \/ MatchTransferHost(p, t)
       \/ PlaysNow(p) /\ MatchComplete(p)
    /\ Courteous
    /\ gone' = (gone \/ \E q \in PlayersOf(slots) : q \notin loadedNow \cup PlayersOf(slots'))
    /\ UNCHANGED <<rounds, loadedNow, skipNow, begun, skipSent>>

RoundsNext == \E p \in Player :
    StartRound(p) \/ LoadComplete(p) \/ SkipRequest(p) \/ OtherStep(p)

RoundsSpec == RoundsInit /\ [][RoundsNext]_rvars

-----------------------------------------------------------------------------

\* "check if all players are loaded, if so, tell all players to begin"
\* (cho.py:1648): nobody is told to begin while a playing client still loads.
\* Holds in the first round.  From the second on it does not: start leaves
\* slot.loaded as the previous round set it.
BeginsWhenAllLoaded == begun =>
    \A s \in Playing(slots) : slots[s].player \in loadedNow

\* "all users have skipped, enqueue a skip" (cho.py:1723): nobody is skipped
\* who did not ask for it.  Holds in the first round only, as above.
SkipsWhenAllSkipped == skipSent =>
    \A s \in Playing(slots) : slots[s].player \in skipNow

\* The same comment read the other way: when every playing client has loaded,
\* they have been told to begin, so nobody waits at a loading screen for ever.
\* The check is made only when a client reports that it has loaded: when one
\* that is still loading leaves, nobody tells the others.
BegunWhenAllLoaded ==
    /\ Playing(slots) # {}
    /\ \A s \in Playing(slots) : slots[s].player \in loadedNow
    /\ ~gone
    => begun

=============================================================================
