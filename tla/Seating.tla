------------------------------ MODULE Seating ------------------------------
(***************************************************************************)
(* What a multiplayer match promises its players: a seat is one player's,  *)
(* only that player gives it up, and while anybody is seated one of them   *)
(* is the host.  No slot status, no rounds, no sessions.                   *)
(***************************************************************************)
CONSTANTS Player, Slot, None

VARIABLES
    seat,     \* the slot a player sits in, or None
    host      \* the host, or None while nobody is seated

Seated(p) == seat[p] # None
Free(s)   == \A p \in Player : seat[p] # s

\* The first player opens the match and is its host.
Open(p, s) ==
    /\ \A q \in Player : ~Seated(q)
    /\ seat' = [seat EXCEPT ![p] = s]
    /\ host' = p

Sit(p, s) ==
    /\ ~Seated(p) /\ Free(s)
    /\ \E q \in Player : Seated(q)
    /\ seat' = [seat EXCEPT ![p] = s]
    /\ UNCHANGED host

Move(p, s) ==
    /\ Seated(p) /\ Free(s)
    /\ seat' = [seat EXCEPT ![p] = s]
    /\ UNCHANGED host

\* A leaving host leaves the match to another player who is seated.
Rise(p) ==
    /\ Seated(p)
    /\ seat' = [seat EXCEPT ![p] = None]
    /\ IF p # host THEN UNCHANGED host
       ELSE IF \A q \in Player : seat'[q] = None THEN host' = None
       ELSE \E q \in Player : seat'[q] # None /\ host' = q

HandOver(q) ==
    /\ Seated(q)
    /\ host' = q
    /\ UNCHANGED seat

Init == seat = [p \in Player |-> None] /\ host = None

Next == \E p \in Player :
    \/ \E s \in Slot : Open(p, s) \/ Sit(p, s) \/ Move(p, s)
    \/ Rise(p)
    \/ HandOver(p)

Spec == Init /\ [][Next]_<<seat, host>>

=============================================================================
