------------------------------- MODULE Rooms -------------------------------
(***************************************************************************)
(* What a chat channel promises: a room opens with nobody left in it from  *)
(* an earlier life, people come and go while it is open, and a room that   *)
(* exists for an occasion closes when the last of them goes, and not       *)
(* before.  Any number of rooms may change in one step.                    *)
(***************************************************************************)
CONSTANTS
    Room,
    Instance,    \* the rooms that exist for an occasion
    Person

VARIABLES
    open,        \* the rooms there are
    in           \* who is in each

RoomsTypeOK ==
    /\ open \subseteq Room
    /\ in \in [Room -> SUBSET Person]

Init ==
    /\ open = Room \ Instance
    /\ in = [r \in Room |-> {}]

Opens(r) ==
    /\ r \notin open /\ in[r] = {}
    /\ r \in open'

ComeAndGo(r) ==
    /\ r \in open /\ r \in open'
    /\ r \in Instance /\ in[r] # {} => in'[r] # {}

Closes(r) ==
    /\ r \in Instance \cap open /\ r \notin open'
    /\ in[r] # {} /\ in'[r] = {}

StaysClosed(r) ==
    /\ r \notin open /\ r \notin open'
    /\ in'[r] = in[r]

Next ==
    /\ RoomsTypeOK'
    /\ \A r \in Room : Opens(r) \/ ComeAndGo(r) \/ Closes(r) \/ StaysClosed(r)

Spec == Init /\ [][Next]_<<open, in>>

=============================================================================
