-------------------------- MODULE MatchCourteous --------------------------
(***************************************************************************)
(* The match under the three assumptions its code makes about clients.     *)
(* The server takes a match as its creator describes it (CreatesAsTheGame  *)
(* in Match).  It locks the slot of a kicked player and leaves the player  *)
(* in it: "uggggggh i hate trusting the osu! client" (cho.py:1402).        *)
(* Between the lock and the kicked client's PART_MATCH it relies on        *)
(*   - nobody opening that slot again, and                                 *)
(*   - the host not leaving a match where everyone else is being kicked.   *)
(* Under these the assertions of the handlers hold, and the match keeps    *)
(* the promises of Seating; without them neither is true (see Match).      *)
(***************************************************************************)
EXTENDS Match

Kicked(s) == slots[s].status = "locked" /\ slots[s].player # None

NoKickedSlotReopens == \A s \in Slot :
    ~(Kicked(s) /\ slots'[s] = SetStatus(slots[s], "open"))

HostNotLeftWithKicked ==
    host \in members /\ host \notin members' =>
        AllEmpty(slots') \/ Occupied(slots') # {}

Courteous == CreatesAsTheGame /\ NoKickedSlotReopens /\ HostNotLeftWithKicked

CourteousNext == Next /\ Courteous

CourteousSpec == Init /\ [][CourteousNext]_vars

-----------------------------------------------------------------------------

\* The host of an open match sits in it (so the host property of the match
\* never raises, and a host that comes back never evicts the first slot).
HostIsSeated == stage = "open" => host \in Player /\ SlotsOf(host) # {}

\* No logout is cut short by an exception: nobody stays in `players` with a
\* session no request can reach and no later logout can remove.
NoZombie == \A p \in Player : session[p] # "zombie"

\* A slot that holds a player is never taken by another (get_free and
\* MatchChangeSlot look at the status only, match.py:389, cho.py:1347).
NoEviction == [][\A s \in Slot :
    slots[s].player # None => slots'[s].player \in {slots[s].player, None}]_vars

seatOf == [p \in Player |->
              IF SlotsOf(p) = {} THEN None ELSE CHOOSE s \in Slot : s \in SlotsOf(p)]
hostOf == IF AllEmpty(slots) THEN None ELSE host

\* The match keeps the promises of Seating.
Seats == INSTANCE Seating WITH seat <- seatOf, host <- hostOf
SeatingSpec == Seats!Spec

=============================================================================
