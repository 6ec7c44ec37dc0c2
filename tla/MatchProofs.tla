---------------------------- MODULE MatchProofs ----------------------------
(***************************************************************************)
(* The safety of a match for every set of players and every number of      *)
(* slots, in four parts.                                                   *)
(*                                                                         *)
(* Match: what the handlers keep true of any match, SlotsInv, and of one   *)
(* that the game created, MatchInv, is inductive together with the type    *)
(* invariant; each action is one step.  MatchCourteous: with               *)
(* courteous clients the assertions of the match handlers hold as well;    *)
(* CourteousInv is the inductive invariant.  Seating: such a match         *)
(* implements it; every step is a step of Seating under the mapping        *)
(* seatOf, hostOf, or changes neither.                                     *)
(*                                                                         *)
(* MatchRounds: the barriers of a round open when they should, the one for *)
(* loading and the one for skipping, for any number of rounds as far as    *)
(* that is true of them all.                                               *)
(***************************************************************************)
EXTENDS MatchRounds, TLAPS

SlotsInv ==
    /\ TypeOK
    /\ OneSeat
    /\ SeatedAreMembers
    /\ MembersHaveSession

MatchInv ==
    /\ TypeOK
    /\ OneSeat
    /\ SeatedAreMembers
    /\ StatusHasPlayer
    /\ ClosedIsEmpty
    /\ PlayingInProgress
    /\ MembersHaveSession

-----------------------------------------------------------------------------
(* Lemmas about the operators the actions are built from.                   *)

\* Slot.reset leaves a slot with nobody in it.
LEMMA ResetSlot ==
    ASSUME NEW st \in Status
    PROVE  Reset(st) \in SlotRecord /\ Reset(st).player = None /\ Reset(st).status = st
BY DEF Reset, SlotRecord

\* Assigning the status leaves the player.
LEMMA SetStatusSlot ==
    ASSUME NEW slot \in SlotRecord, NEW st \in Status
    PROVE  /\ SetStatus(slot, st) \in SlotRecord
           /\ SetStatus(slot, st).player = slot.player
           /\ SetStatus(slot, st).status = st
BY DEF SetStatus, SlotRecord

\* copy_from and join_match leave the given player and status.
LEMMA TakeSlot ==
    ASSUME NEW slot \in SlotRecord, NEW p \in Player, NEW st \in Status
    PROVE  /\ Take(slot, p, st) \in SlotRecord
           /\ Take(slot, p, st).player = p
           /\ Take(slot, p, st).status = st
BY DEF Take, SlotRecord

\* loaded and skipped are flags beside the player and the status.
LEMMA FlagSlot ==
    ASSUME NEW slot \in SlotRecord
    PROVE  /\ [slot EXCEPT !.loaded = TRUE] \in SlotRecord
           /\ [slot EXCEPT !.loaded = TRUE].player = slot.player
           /\ [slot EXCEPT !.loaded = TRUE].status = slot.status
           /\ [slot EXCEPT !.skipped = TRUE] \in SlotRecord
           /\ [slot EXCEPT !.skipped = TRUE].player = slot.player
           /\ [slot EXCEPT !.skipped = TRUE].status = slot.status
BY DEF SlotRecord

\* start and unready_players keep every slot's player, and whether its status
\* has a has_player bit.
LEMMA StartedSlots ==
    ASSUME NEW sl \in [Slot -> SlotRecord]
    PROVE  /\ Started(sl) \in [Slot -> SlotRecord]
           /\ \A s \in Slot :
                /\ Started(sl)[s].player = sl[s].player
                /\ Started(sl)[s].status \in has_player <=> sl[s].status \in has_player
                /\ Started(sl)[s].status = "open" => sl[s].status = "open"
BY SetStatusSlot DEF Started, Status, has_player

LEMMA UnreadySlots ==
    ASSUME NEW sl \in [Slot -> SlotRecord], NEW st \in has_player
    PROVE  /\ Unready(st, sl) \in [Slot -> SlotRecord]
           /\ \A s \in Slot :
                /\ Unready(st, sl)[s].player = sl[s].player
                /\ Unready(st, sl)[s].status \in has_player <=> sl[s].status \in has_player
                /\ Unready(st, sl)[s].status = "playing" => sl[s].status = "playing"
                /\ Unready(st, sl)[s].status = "open" => sl[s].status = "open"
BY SetStatusSlot DEF Unready, Status, has_player

\* start, whether it reaches its end or not, starts some of the slots.
LEMMA StartSlots ==
    ASSUME slots \in [Slot -> SlotRecord], inProgress \in BOOLEAN, start
    PROVE  /\ slots' \in [Slot -> SlotRecord] /\ inProgress' \in BOOLEAN
           /\ \A s \in Slot : slots'[s].player = slots[s].player
<1>1. \A s \in Slot : slots'[s] \in {slots[s], Started(slots)[s]}
    BY DEF start, Started
<1>2. slots' = [s \in Slot |-> slots'[s]]
    BY DEF start, Started
<1>3. inProgress' \in BOOLEAN
    BY DEF start
<1>4. QED  BY <1>1, <1>2, <1>3, StartedSlots

\* It reaches its end when every slot that needs a player has one.
LEMMA StartRuns ==
    ASSUME StatusHasPlayer, start
    PROVE  slots' = Started(slots) /\ inProgress' = TRUE
BY DEF StatusHasPlayer, Occupied, has_player, start, IsFirst

\* A match as it is created holds its creator or nobody.
LEMMA CreatedSlots ==
    ASSUME NEW p \in Player, MatchCreate(p)
    PROVE  /\ slots' \in [Slot -> SlotRecord]
           /\ \A s \in Slot : ~slots'[s].loaded /\ ~slots'[s].skipped
           /\ \/ /\ members' = members
                 /\ \A s \in Slot : slots'[s].player = None
              \/ /\ members' = members \cup {p}
                 /\ \E u \in Slot :
                       /\ slots'[u].player = p /\ slots'[u].status = "not_ready"
                       /\ \A s \in Slot \ {u} : slots'[s].player = None
<1> DEFINE created(st) == [s \in Slot |-> Reset(st[s])]
<1>1. PICK st \in [Slot -> Status] :
          \/ slots' = created(st) /\ members' = members
          \/ /\ \E u \in Slot : slots' = [created(st) EXCEPT ![u] = Take(@, p, "not_ready")]
             /\ members' = members \cup {p}
    BY DEF MatchCreate
<1>2. \A s \in Slot : /\ Reset(st[s]) \in SlotRecord /\ Reset(st[s]).player = None
                      /\ ~Reset(st[s]).loaded /\ ~Reset(st[s]).skipped
    BY ResetSlot DEF Reset
<1>3. CASE slots' = created(st) /\ members' = members
    BY <1>2, <1>3
<1>4. ASSUME NEW u \in Slot, slots' = [created(st) EXCEPT ![u] = Take(@, p, "not_ready")],
             members' = members \cup {p}
      PROVE  /\ slots' \in [Slot -> SlotRecord]
             /\ \A s \in Slot : ~slots'[s].loaded /\ ~slots'[s].skipped
             /\ slots'[u].player = p /\ slots'[u].status = "not_ready"
             /\ \A s \in Slot \ {u} : slots'[s].player = None
    <2>1. /\ slots'[u] = Take(Reset(st[u]), p, "not_ready")
          /\ \A s \in Slot \ {u} : slots'[s] = Reset(st[s])
        BY <1>4
    <2>2. /\ Take(Reset(st[u]), p, "not_ready") \in SlotRecord
          /\ Take(Reset(st[u]), p, "not_ready").player = p
          /\ Take(Reset(st[u]), p, "not_ready").status = "not_ready"
        BY <1>2, TakeSlot DEF Status, has_player
    <2>3. ~slots'[u].loaded /\ ~slots'[u].skipped
        BY <2>1 DEF Take, Reset
    <2>4. slots' = [s \in Slot |-> slots'[s]]
        BY <1>4
    <2>5. QED  BY <1>2, <2>1, <2>2, <2>3, <2>4
<1>5. QED  BY <1>1, <1>3, <1>4

\* The game's client sits in the first slot of the match it has created, as its
\* host, and nobody sits in any other.
LEMMA GameMatch ==
    ASSUME NEW p \in Player, MatchCreate(p), CreatesAsTheGame
    PROVE  /\ 1 \in Slot /\ slots'[1].player = p /\ slots'[1].status = "not_ready"
           /\ \A s \in Slot \ {1} :
                 slots'[s].player = None /\ slots'[s].status \in {"open", "locked"}
           /\ host' = p /\ members' = members \cup {p}
<1>1. 1 \in Slot
    BY NumSlotsAssumption DEF Slot
<1>2. /\ host' \in Player /\ slots'[1].player = host'
      /\ \A s \in Slot \ {1} : slots'[s].status \in {"open", "locked"}
    BY DEF MatchCreate, CreatesAsTheGame
<1>3. slots'[1].player # None
    BY <1>2, NoneAssumption
<1>4. QED  BY <1>1, <1>2, <1>3, CreatedSlots

-----------------------------------------------------------------------------
(* Type correctness.                                                        *)

LEMMA InitType == Init => TypeOK
BY NumSlotsAssumption, ResetSlot DEF Init, TypeOK, Status, SessionState

\* A player who leaves a seat leaves the slots in their type.
LEMMA LeaveSeatType ==
    ASSUME TypeOK, NEW p \in Player, NEW s \in Slot, LeaveSeat(p, s, slots')
    PROVE  slots' \in [Slot -> SlotRecord]
BY ResetSlot DEF TypeOK, LeaveSeat, Status

\* Leaving, completely or not, keeps the rest of the match in its type.
LEMMA LeaveType ==
    ASSUME TypeOK, NEW p \in Player, slots' \in [Slot -> SlotRecord],
           LeaveCompletely(p, slots') \/ LeaveRaises(p, slots')
    PROVE  /\ members' \subseteq Player
           /\ stage' \in {"none", "open", "closed"}
           /\ host' \in Player \cup {None}
BY DEF TypeOK, LeaveCompletely, LeaveRaises, HandOver, SlotRecord

\* Every step keeps every variable in its type.
LEMMA NextType == TypeOK /\ [Next]_vars => TypeOK'
<1> SUFFICES ASSUME TypeOK, [Next]_vars
             PROVE  TypeOK'
    OBVIOUS
<1> USE DEF TypeOK
<1>1. ASSUME NEW p \in Player, MatchCreate(p)
      PROVE  TypeOK'
    BY <1>1, CreatedSlots DEF MatchCreate
<1>2. ASSUME NEW p \in Player, MatchJoin(p)
      PROVE  TypeOK'
    <2>1. PICK s \in Slot : slots' = [slots EXCEPT ![s] = Take(@, p, "not_ready")]
        BY <1>2 DEF MatchJoin, join_match
    <2>2. Take(slots[s], p, "not_ready") \in SlotRecord
        BY TakeSlot DEF Status, has_player
    <2>3. QED  BY <1>2, <2>1, <2>2 DEF MatchJoin, join_match
<1>3. ASSUME NEW p \in Player, MatchPart(p)
      PROVE  TypeOK'
    <2>1. PICK s \in Slot : LeaveSeat(p, s, slots')
        BY <1>3 DEF MatchPart, SlotsOf
    <2>2. slots' \in [Slot -> SlotRecord]
        BY <2>1, LeaveSeatType
    <2>3. QED  BY <1>3, <2>2, LeaveType DEF MatchPart
<1>4. ASSUME NEW p \in Player, Login(p)
      PROVE  TypeOK'
    BY <1>4 DEF Login, SessionState
<1>5. ASSUME NEW p \in Player, Logout(p)
      PROVE  TypeOK'
    <2>1. session' \in [Player -> SessionState]
        BY <1>5 DEF Logout, SessionState
    <2>2. CASE UNCHANGED <<stage, slots, host, members>>
        BY <1>5, <2>1, <2>2 DEF Logout
    <2>3. CASE \E s \in SlotsOf(p) : LeaveSeat(p, s, slots') /\ LeaveCompletely(p, slots')
        <3>1. slots' \in [Slot -> SlotRecord]
            BY <2>3, LeaveSeatType DEF SlotsOf
        <3>2. QED  BY <1>5, <2>1, <2>3, <3>1, LeaveType DEF Logout
    <2>4. QED  BY <1>5, <2>2, <2>3 DEF Logout
<1>6. ASSUME NEW p \in Player, LogoutRaises(p)
      PROVE  TypeOK'
    <2>1. session' \in [Player -> SessionState]
        BY <1>6 DEF LogoutRaises, SessionState
    <2>2. CASE UNCHANGED <<stage, slots, host, members>>
        BY <1>6, <2>1, <2>2 DEF LogoutRaises
    <2>3. CASE \E s \in SlotsOf(p) : LeaveSeat(p, s, slots') /\ LeaveRaises(p, slots')
        <3>1. slots' \in [Slot -> SlotRecord]
            BY <2>3, LeaveSeatType DEF SlotsOf
        <3>2. QED  BY <1>6, <2>1, <2>3, <3>1, LeaveType DEF LogoutRaises
    <2>4. QED  BY <1>6, <2>2, <2>3 DEF LogoutRaises
<1>7. ASSUME NEW p \in Player, NEW st \in Status, SetOwnStatus(p, st)
      PROVE  TypeOK'
    BY <1>7, SetStatusSlot DEF SetOwnStatus, SlotsOf
<1>8. ASSUME NEW p \in Player, NEW t \in Slot, MatchChangeSlot(p, t)
      PROVE  TypeOK'
    <2>1. PICK s \in Slot :
              slots' = [slots EXCEPT ![t] = Take(@, p, slots[s].status),
                                     ![s] = Reset("open")]
        BY <1>8 DEF MatchChangeSlot, SlotsOf
    <2>2. slots[s].status \in Status
        BY DEF SlotRecord
    <2>3. Take(slots[t], p, slots[s].status) \in SlotRecord /\ Reset("open") \in SlotRecord
        <3>1. "open" \in Status
            BY DEF Status
        <3>2. QED  BY <2>2, <3>1, TakeSlot, ResetSlot
    <2>4. slots' \in [Slot -> SlotRecord]
        BY <2>1, <2>3
    <2>5. QED  BY <1>8, <2>4 DEF MatchChangeSlot
<1>9. ASSUME NEW p \in Player, NEW t \in Slot, MatchLock(p, t)
      PROVE  TypeOK'
    BY <1>9, SetStatusSlot DEF MatchLock, Status
<1>10. ASSUME NEW p \in Player, NEW t \in Slot, MatchTransferHost(p, t)
       PROVE  TypeOK'
    BY <1>10 DEF MatchTransferHost, SlotRecord
<1>11. ASSUME NEW p \in Player, MatchChangeMap(p)
       PROVE  TypeOK'
    BY <1>11, UnreadySlots DEF MatchChangeMap, has_player
<1>12. ASSUME NEW p \in Player, MatchStart(p)
       PROVE  TypeOK'
    BY <1>12, StartSlots DEF MatchStart
<1>13. ASSUME NEW p \in Player, MatchLoadComplete(p) \/ MatchSkipRequest(p)
       PROVE  TypeOK'
    BY <1>13, FlagSlot DEF MatchLoadComplete, MatchSkipRequest, SlotsOf
<1>14. ASSUME NEW p \in Player, MatchComplete(p)
       PROVE  TypeOK'
    <2>1. PICK s \in Slot :
              \/ slots' = Completed(s) /\ UNCHANGED inProgress
              \/ slots' = Unready("complete", Completed(s)) /\ inProgress' = FALSE
        BY <1>14 DEF MatchComplete, SlotsOf
    <2>2. Completed(s) \in [Slot -> SlotRecord]
        BY SetStatusSlot DEF Completed, Status
    <2>3. slots' \in [Slot -> SlotRecord] /\ inProgress' \in BOOLEAN
        BY <2>1, <2>2, UnreadySlots DEF has_player
    <2>4. QED  BY <1>14, <2>3 DEF MatchComplete
<1>15. CASE UNCHANGED vars
    BY <1>15 DEF vars
<1>16. QED
    BY <1>1, <1>2, <1>3, <1>4, <1>5, <1>6, <1>7, <1>8, <1>9, <1>10, <1>11, <1>12,
       <1>13, <1>14, <1>15
       DEF Next, PlayerStep, SeatStep, FlagStep, OwnSlotStep, HostStep, SessionStep,
           MatchReady, MatchNotReady, MatchNoBeatmap, MatchHasBeatmap, Status

\* Every variable of a match has its type in every reachable state.
THEOREM TypeCorrect == Spec => []TypeOK
<1>1. QED  BY InitType, NextType, PTL DEF Spec

-----------------------------------------------------------------------------
(* The safety invariants.                                                   *)

LEMMA InitInv == Init => MatchInv
BY InitType, ResetSlot DEF Init, MatchInv, OneSeat, SeatedAreMembers, StatusHasPlayer,
    ClosedIsEmpty, PlayingInProgress, MembersHaveSession, Occupied, AllEmpty,
    AnyPlaying, Status, has_player

\* A player who leaves a seat empties it and nothing else.
LEMMA LeaveSeatSlots ==
    ASSUME TypeOK, NEW p \in Player, NEW s \in SlotsOf(p), LeaveSeat(p, s, slots')
    PROVE  /\ s \in Slot /\ slots[s].player = p
           /\ slots'[s].player = None /\ slots'[s].status \notin has_player
           /\ \A t \in Slot \ {s} : slots'[t] = slots[t]
BY ResetSlot DEF TypeOK, LeaveSeat, SlotsOf, Status, has_player

\* A player who joins takes one slot.
LEMMA JoinSlots ==
    ASSUME TypeOK, NEW p \in Player, join_match(p)
    PROVE  \E s \in Slot :
              /\ slots'[s].player = p /\ slots'[s].status = "not_ready"
              /\ \A t \in Slot \ {s} : slots'[t] = slots[t]
<1>1. PICK s \in Slot : slots' = [slots EXCEPT ![s] = Take(@, p, "not_ready")]
    BY DEF join_match
<1>2. /\ slots'[s] = Take(slots[s], p, "not_ready") /\ slots[s] \in SlotRecord
      /\ \A t \in Slot \ {s} : slots'[t] = slots[t]
    BY <1>1 DEF TypeOK
<1>3. "not_ready" \in Status
    BY DEF Status
<1>4. slots'[s].player = p /\ slots'[s].status = "not_ready"
    BY <1>2, <1>3, TakeSlot
<1>5. QED  BY <1>2, <1>4

\* A player who moves takes the status along and leaves an open slot behind,
\* also in place.
LEMMA MoveSlots ==
    ASSUME TypeOK, NEW p \in Player, NEW t \in Slot, MatchChangeSlot(p, t)
    PROVE  \E s \in Slot :
              /\ slots[s].player = p
              /\ slots'[s].player = None /\ slots'[s].status = "open"
              /\ t # s => slots'[t].player = p /\ slots'[t].status = slots[s].status
              /\ \A u \in Slot \ {s, t} : slots'[u] = slots[u]
<1>1. PICK s \in Slot :
          /\ slots[s].player = p
          /\ slots' = [slots EXCEPT ![t] = Take(@, p, slots[s].status), ![s] = Reset("open")]
    BY DEF MatchChangeSlot, SlotsOf
<1>2. /\ slots'[s] = Reset("open")
      /\ t # s => slots'[t] = Take(slots[t], p, slots[s].status)
      /\ \A u \in Slot \ {s, t} : slots'[u] = slots[u]
    BY <1>1 DEF TypeOK
<1>3. slots[t] \in SlotRecord /\ slots[s].status \in Status
    BY DEF TypeOK, SlotRecord
<1>4. Reset("open").player = None /\ Reset("open").status = "open"
    BY ResetSlot DEF Status
<1>5. /\ Take(slots[t], p, slots[s].status).player = p
      /\ Take(slots[t], p, slots[s].status).status = slots[s].status
    BY <1>3, TakeSlot
<1>6. QED  BY <1>1, <1>2, <1>4, <1>5

\* The flags change neither who sits where nor any status.
LEMMA FlagSlots ==
    ASSUME TypeOK, NEW p \in Player, MatchLoadComplete(p) \/ MatchSkipRequest(p)
    PROVE  \A s \in Slot : slots'[s].player = slots[s].player /\ slots'[s].status = slots[s].status
<1>1. PICK s \in Slot : \/ slots' = [slots EXCEPT ![s].loaded = TRUE]
                       \/ slots' = [slots EXCEPT ![s].skipped = TRUE]
    BY DEF MatchLoadComplete, MatchSkipRequest, SlotsOf
<1>2. /\ \/ slots'[s] = [slots[s] EXCEPT !.loaded = TRUE]
         \/ slots'[s] = [slots[s] EXCEPT !.skipped = TRUE]
      /\ \A t \in Slot \ {s} : slots'[t] = slots[t]
    BY <1>1 DEF TypeOK
<1>3. /\ [slots[s] EXCEPT !.loaded = TRUE].player = slots[s].player
      /\ [slots[s] EXCEPT !.loaded = TRUE].status = slots[s].status
      /\ [slots[s] EXCEPT !.skipped = TRUE].player = slots[s].player
      /\ [slots[s] EXCEPT !.skipped = TRUE].status = slots[s].status
    BY FlagSlot DEF TypeOK
<1>4. slots'[s].player = slots[s].player /\ slots'[s].status = slots[s].status
    BY <1>2, <1>3
<1>5. QED  BY <1>2, <1>4

\* The slot of a player who has completed, and the slots of the others, once
\* the round may be over.
LEMMA CompleteSlots ==
    ASSUME TypeOK, NEW p \in Player, MatchComplete(p)
    PROVE  \A t \in Slot : slots'[t].player = slots[t].player
<1>1. PICK s \in Slot : slots' \in {Completed(s), Unready("complete", Completed(s))}
    BY DEF MatchComplete, SlotsOf
<1>2. /\ Completed(s) \in [Slot -> SlotRecord]
      /\ \A t \in Slot : Completed(s)[t].player = slots[t].player
    BY SetStatusSlot DEF Completed, TypeOK, Status
<1>3. QED  BY <1>1, <1>2, UnreadySlots DEF Status, has_player

\* Any other packet about slots keeps the player of each.
LEMMA StatusSlots ==
    ASSUME TypeOK, NEW p \in Player,
           \/ \E st \in Status : SetOwnStatus(p, st)
           \/ \E t \in Slot : MatchLock(p, t)
    PROVE  \A t \in Slot : slots'[t].player = slots[t].player
<1>1. PICK st \in Status, s \in Slot : slots' = [slots EXCEPT ![s] = SetStatus(@, st)]
    BY DEF SetOwnStatus, MatchLock, SlotsOf, Status
<1>2. QED  BY <1>1, SetStatusSlot DEF TypeOK

\* A step that keeps the player of every slot.
LEMMA SameSlots ==
    ASSUME SlotsInv, TypeOK', UNCHANGED <<members, session>>,
           \A s \in Slot : slots'[s].player = slots[s].player
    PROVE  SlotsInv'
BY DEF SlotsInv, OneSeat, SeatedAreMembers, MembersHaveSession

\* Leaving, to its end or not.
LEMMA LeaveSlotsInv ==
    ASSUME SlotsInv, TypeOK', NEW p \in Player, NEW s \in SlotsOf(p),
           LeaveSeat(p, s, slots'),
           \/ LeaveCompletely(p, slots')
           \/ LeaveRaises(p, slots') /\ session'[p] # "offline",
           \A q \in Player \ {p} : session'[q] = session[q]
    PROVE  SlotsInv'
<1> USE DEF SlotsInv
<1>1. /\ s \in Slot /\ slots[s].player = p /\ slots'[s].player = None
      /\ \A t \in Slot \ {s} : slots'[t] = slots[t]
    BY LeaveSeatSlots
<1>2. members' = members \/ members' = members \ {p}
    BY DEF LeaveCompletely, LeaveRaises
<1>3. OneSeat'
    BY <1>1 DEF OneSeat
<1>4. SeatedAreMembers'
    BY <1>1, <1>2 DEF SeatedAreMembers, OneSeat
<1>5. MembersHaveSession'
    BY <1>2 DEF MembersHaveSession, LeaveCompletely, LeaveRaises, TypeOK
<1>6. QED  BY <1>3, <1>4, <1>5

\* Whatever match a client creates, and whatever the clients send then.
LEMMA SlotsStep == SlotsInv /\ [Next]_vars => SlotsInv'
<1> SUFFICES ASSUME SlotsInv, [Next]_vars
             PROVE  SlotsInv'
    OBVIOUS
<1>1. TypeOK /\ TypeOK'
    BY NextType DEF SlotsInv
<1>2. ASSUME NEW p \in Player, MatchCreate(p)
      PROVE  SlotsInv'
    <2>1. session' = session /\ session[p] = "online"
        BY <1>2 DEF MatchCreate
    <2>2. members' \in {members, members \cup {p}}
        BY <1>2, CreatedSlots
    <2>3. OneSeat' /\ SeatedAreMembers'
        BY <1>2, CreatedSlots DEF OneSeat, SeatedAreMembers
    <2>4. QED  BY <1>1, <2>1, <2>2, <2>3 DEF SlotsInv, MembersHaveSession
<1>3. ASSUME NEW p \in Player, MatchJoin(p)
      PROVE  SlotsInv'
    <2>1. /\ p \notin members /\ members' = members \cup {p}
          /\ session' = session /\ session[p] = "online"
        BY <1>3 DEF MatchJoin, join_match
    <2>2. PICK s \in Slot : /\ slots'[s].player = p
                           /\ \A t \in Slot \ {s} : slots'[t] = slots[t]
        BY <1>1, <1>3, JoinSlots DEF MatchJoin
    <2>3. OneSeat' /\ SeatedAreMembers'
        BY <2>1, <2>2, NoneAssumption DEF SlotsInv, OneSeat, SeatedAreMembers
    <2>4. QED  BY <1>1, <2>1, <2>3 DEF SlotsInv, MembersHaveSession
<1>4. ASSUME NEW p \in Player, MatchPart(p)
      PROVE  SlotsInv'
    BY <1>1, <1>4, LeaveSlotsInv DEF MatchPart, InMatch
<1>5. ASSUME NEW p \in Player, SessionStep(p)
      PROVE  SlotsInv'
    <2>1. CASE \/ Login(p)
               \/ Logout(p) /\ p \notin members
               \/ LogoutRaises(p) /\ SlotsOf(p) = {}
        BY <1>1, <2>1 DEF Login, Logout, LogoutRaises, SlotsOf, SlotsInv, TypeOK, OneSeat,
            SeatedAreMembers, MembersHaveSession
    <2>2. CASE Logout(p) /\ p \in members
        BY <1>1, <2>2, LeaveSlotsInv DEF Logout, TypeOK
    <2>3. CASE LogoutRaises(p) /\ SlotsOf(p) # {}
        BY <1>1, <2>3, LeaveSlotsInv DEF LogoutRaises, TypeOK
    <2>4. QED  BY <1>5, <2>1, <2>2, <2>3 DEF SessionStep
<1>6. ASSUME NEW p \in Player, NEW st \in Status, SetOwnStatus(p, st)
      PROVE  SlotsInv'
    BY <1>1, <1>6, StatusSlots, SameSlots DEF SetOwnStatus
<1>7. ASSUME NEW p \in Player, NEW t \in Slot, MatchChangeSlot(p, t)
      PROVE  SlotsInv'
    <2>1. PICK s \in Slot :
              /\ slots[s].player = p
              /\ slots'[s].player = None
              /\ t # s => slots'[t].player = p
              /\ \A u \in Slot \ {s, t} : slots'[u] = slots[u]
        BY <1>1, <1>7, MoveSlots
    <2>2. p \in members /\ members' = members /\ session' = session
        BY <1>7 DEF MatchChangeSlot, InMatch
    <2>3. \A u \in Slot \ {s} : slots[u].player # p
        BY <2>1, NoneAssumption DEF SlotsInv, OneSeat
    <2>4. \A u \in Slot \ {s, t} : slots'[u].player # p
        BY <2>1, <2>3
    <2>5. OneSeat'
        BY <2>1, <2>4 DEF SlotsInv, OneSeat
    <2>6. SeatedAreMembers'
        BY <2>1, <2>2 DEF SlotsInv, SeatedAreMembers
    <2>7. QED  BY <1>1, <2>2, <2>5, <2>6 DEF SlotsInv, MembersHaveSession
<1>8. ASSUME NEW p \in Player, NEW t \in Slot, MatchLock(p, t)
      PROVE  SlotsInv'
    BY <1>1, <1>8, StatusSlots, SameSlots DEF MatchLock
<1>9. ASSUME NEW p \in Player, NEW t \in Slot, MatchTransferHost(p, t)
      PROVE  SlotsInv'
    BY <1>1, <1>9, SameSlots DEF MatchTransferHost
<1>10. ASSUME NEW p \in Player, MatchChangeMap(p)
       PROVE  SlotsInv'
    BY <1>1, <1>10, UnreadySlots, SameSlots DEF MatchChangeMap, TypeOK, Status, has_player
<1>11. ASSUME NEW p \in Player, MatchStart(p)
       PROVE  SlotsInv'
    BY <1>1, <1>11, StartSlots, SameSlots DEF MatchStart, TypeOK
<1>12. ASSUME NEW p \in Player, MatchLoadComplete(p) \/ MatchSkipRequest(p)
       PROVE  SlotsInv'
    BY <1>1, <1>12, FlagSlots, SameSlots DEF MatchLoadComplete, MatchSkipRequest
<1>13. ASSUME NEW p \in Player, MatchComplete(p)
       PROVE  SlotsInv'
    BY <1>1, <1>13, CompleteSlots, SameSlots DEF MatchComplete
<1>14. CASE UNCHANGED vars
    BY <1>1, <1>14, SameSlots DEF vars
<1>15. QED
    BY <1>2, <1>3, <1>4, <1>5, <1>6, <1>7, <1>8, <1>9, <1>10, <1>11, <1>12, <1>13, <1>14
       DEF Next, PlayerStep, SeatStep, FlagStep, OwnSlotStep, HostStep,
           MatchReady, MatchNotReady, MatchNoBeatmap, MatchHasBeatmap, Status

\* A step that keeps the player of every slot, gives none a has_player status
\* it had not, and touches neither stage, members nor sessions, keeps what the
\* invariants say of seats.
LEMMA SamePlayers ==
    ASSUME MatchInv, TypeOK',
           UNCHANGED <<stage, members, session>>,
           \A s \in Slot :
              /\ slots'[s].player = slots[s].player
              /\ slots'[s].status \in has_player =>
                    slots[s].status \in has_player \/ slots[s].player # None,
           PlayingInProgress'
    PROVE  MatchInv'
BY DEF MatchInv, TypeOK, OneSeat, SeatedAreMembers, StatusHasPlayer, ClosedIsEmpty,
    MembersHaveSession, Occupied, AllEmpty

\* Leaving, whether leave_match runs to its end or raises.
LEMMA LeaveInv ==
    ASSUME MatchInv, TypeOK', SlotsInv', NEW p \in Player, NEW s \in SlotsOf(p),
           LeaveSeat(p, s, slots'),
           LeaveCompletely(p, slots') \/ LeaveRaises(p, slots'),
           UNCHANGED inProgress
    PROVE  MatchInv'
<1> USE DEF MatchInv
<1>1. /\ s \in Slot /\ slots[s].player = p
      /\ slots'[s].player = None /\ slots'[s].status \notin has_player
      /\ \A t \in Slot \ {s} : slots'[t] = slots[t]
    BY LeaveSeatSlots
<1>2. StatusHasPlayer'
    BY <1>1 DEF StatusHasPlayer, Occupied
<1>3. ClosedIsEmpty'
    <2>1. CASE stage' = "closed" /\ AllEmpty(slots')
        BY <1>2, <2>1 DEF ClosedIsEmpty, StatusHasPlayer, Occupied, AllEmpty
    <2>2. CASE stage' = "closed" /\ stage = "closed"
        BY <1>1, <2>2, NoneAssumption DEF ClosedIsEmpty, AllEmpty
    <2>3. CASE stage' # "closed"
        BY <2>3 DEF ClosedIsEmpty
    <2>4. stage' = "closed" => AllEmpty(slots') \/ stage = "closed"
        BY DEF LeaveCompletely, LeaveRaises
    <2>5. QED  BY <2>1, <2>2, <2>3, <2>4
<1>4. PlayingInProgress'
    BY <1>1 DEF PlayingInProgress, AnyPlaying, has_player
<1>5. QED  BY <1>2, <1>3, <1>4 DEF SlotsInv

\* Every step of a match that the game created keeps the invariants.
LEMMA NextInv == MatchInv /\ [GameNext]_vars => MatchInv'
<1> SUFFICES ASSUME MatchInv, [GameNext]_vars
             PROVE  MatchInv'
    OBVIOUS
<1>1. TypeOK /\ TypeOK' /\ SlotsInv'
    BY NextType, SlotsStep DEF GameNext, MatchInv, SlotsInv
<1>2. ASSUME NEW p \in Player, MatchCreate(p), CreatesAsTheGame
      PROVE  MatchInv'
    <2>1. /\ 1 \in Slot /\ slots'[1].player = p /\ slots'[1].status = "not_ready"
          /\ \A s \in Slot \ {1} :
                slots'[s].player = None /\ slots'[s].status \in {"open", "locked"}
        BY <1>2, GameMatch
    <2>2. stage' = "open"
        BY <1>2 DEF MatchCreate
    <2>3. QED
        BY <1>1, <2>1, <2>2, NoneAssumption
           DEF SlotsInv, MatchInv, StatusHasPlayer, ClosedIsEmpty, PlayingInProgress, AnyPlaying,
               Occupied, has_player
<1>3. ASSUME NEW p \in Player, MatchJoin(p)
      PROVE  MatchInv'
    <2>1. PICK s \in Slot : /\ slots'[s].player = p /\ slots'[s].status = "not_ready"
                           /\ \A t \in Slot \ {s} : slots'[t] = slots[t]
        BY <1>1, <1>3, JoinSlots DEF MatchJoin
    <2>2. QED
        BY <1>1, <1>3, <2>1, NoneAssumption
           DEF MatchJoin, join_match, SlotsInv, MatchInv, StatusHasPlayer, ClosedIsEmpty,
               PlayingInProgress, AnyPlaying, Occupied
<1>4. ASSUME NEW p \in Player, MatchPart(p)
      PROVE  MatchInv'
    BY <1>1, <1>4, LeaveInv DEF MatchPart
<1>5. ASSUME NEW p \in Player, SessionStep(p)
      PROVE  MatchInv'
    <2>1. CASE \/ Login(p)
               \/ Logout(p) /\ p \notin members
               \/ LogoutRaises(p) /\ SlotsOf(p) = {}
        BY <1>1, <2>1
           DEF Login, Logout, LogoutRaises, SlotsOf, SlotsInv, MatchInv, StatusHasPlayer,
               ClosedIsEmpty, PlayingInProgress, AnyPlaying, Occupied, AllEmpty
    <2>2. CASE Logout(p) /\ p \in members
        BY <1>1, <2>2, LeaveInv DEF Logout
    <2>3. CASE LogoutRaises(p) /\ SlotsOf(p) # {}
        BY <1>1, <2>3, LeaveInv DEF LogoutRaises
    <2>4. QED  BY <1>5, <2>1, <2>2, <2>3 DEF SessionStep
<1>6. ASSUME NEW p \in Player, NEW st \in Status \ {"playing"}, SetOwnStatus(p, st)
      PROVE  MatchInv'
    <2>1. PICK s \in Slot : slots[s].player = p /\ slots' = [slots EXCEPT ![s] = SetStatus(@, st)]
        BY <1>6 DEF SetOwnStatus, SlotsOf
    <2>2. /\ slots'[s].player = p /\ slots'[s].status = st
          /\ \A t \in Slot \ {s} : slots'[t] = slots[t]
        BY <1>1, <2>1, SetStatusSlot DEF TypeOK
    <2>3. PlayingInProgress'
        BY <1>6, <2>2 DEF MatchInv, PlayingInProgress, AnyPlaying, SetOwnStatus
    <2>4. QED  BY <1>1, <1>6, <2>1, <2>2, <2>3, SamePlayers, NoneAssumption DEF SetOwnStatus
<1>7. ASSUME NEW p \in Player, NEW t \in Slot, MatchChangeSlot(p, t)
      PROVE  MatchInv'
    <2>1. PICK s \in Slot :
              /\ slots[s].player = p
              /\ slots'[s].player = None /\ slots'[s].status = "open"
              /\ t # s => slots'[t].player = p /\ slots'[t].status = slots[s].status
              /\ \A u \in Slot \ {s, t} : slots'[u] = slots[u]
        BY <1>1, <1>7, MoveSlots
    <2>2. StatusHasPlayer'
        BY <2>1, NoneAssumption DEF MatchInv, StatusHasPlayer, Occupied, has_player
    <2>3. ClosedIsEmpty'
        BY <1>7, <2>1, NoneAssumption DEF MatchChangeSlot, MatchInv, ClosedIsEmpty, AllEmpty
    <2>4. PlayingInProgress'
        BY <1>7, <2>1 DEF MatchChangeSlot, MatchInv, PlayingInProgress, AnyPlaying
    <2>5. QED  BY <1>1, <2>2, <2>3, <2>4 DEF MatchInv, SlotsInv
<1>8. ASSUME NEW p \in Player, NEW t \in Slot, MatchLock(p, t)
      PROVE  MatchInv'
    <2>1. PICK st \in {"open", "locked"} : slots' = [slots EXCEPT ![t] = SetStatus(@, st)]
        BY <1>8 DEF MatchLock
    <2>2. /\ slots'[t].player = slots[t].player /\ slots'[t].status = st
          /\ \A u \in Slot \ {t} : slots'[u] = slots[u]
        BY <1>1, <2>1, SetStatusSlot DEF TypeOK, Status
    <2>3. PlayingInProgress'
        BY <1>8, <2>1, <2>2 DEF MatchInv, PlayingInProgress, AnyPlaying, MatchLock
    <2>4. QED  BY <1>1, <1>8, <2>1, <2>2, <2>3, SamePlayers DEF MatchLock, has_player
<1>9. ASSUME NEW p \in Player, NEW t \in Slot, MatchTransferHost(p, t)
      PROVE  MatchInv'
    BY <1>1, <1>9, SamePlayers DEF MatchTransferHost, MatchInv, PlayingInProgress, AnyPlaying
<1>10. ASSUME NEW p \in Player, MatchChangeMap(p)
       PROVE  MatchInv'
    <2>1. PlayingInProgress'
        BY <1>1, <1>10, UnreadySlots
           DEF MatchChangeMap, MatchInv, TypeOK, PlayingInProgress, AnyPlaying, has_player
    <2>2. QED
        BY <1>1, <1>10, <2>1, UnreadySlots, SamePlayers DEF MatchChangeMap, TypeOK, has_player
<1>11. ASSUME NEW p \in Player, MatchStart(p)
       PROVE  MatchInv'
    <2>1. slots' = Started(slots) /\ inProgress'
        BY <1>11, StartRuns DEF MatchStart, MatchInv
    <2>2. QED
        BY <1>1, <1>11, <2>1, StartedSlots, SamePlayers DEF MatchStart, TypeOK, PlayingInProgress
<1>12. ASSUME NEW p \in Player, MatchLoadComplete(p) \/ MatchSkipRequest(p)
       PROVE  MatchInv'
    BY <1>1, <1>12, FlagSlots, SamePlayers
       DEF MatchLoadComplete, MatchSkipRequest, MatchInv, PlayingInProgress, AnyPlaying
<1>13. ASSUME NEW p \in Player, MatchComplete(p)
       PROVE  MatchInv'
    <2>1. PICK s \in Slot :
              /\ slots[s].player = p
              /\ \/ slots' = Completed(s) /\ UNCHANGED inProgress
                 \/ /\ ~AnyPlaying(Completed(s))
                    /\ slots' = Unready("complete", Completed(s))
        BY <1>13 DEF MatchComplete, SlotsOf
    <2>2. /\ Completed(s) \in [Slot -> SlotRecord]
          /\ Completed(s)[s].player = p /\ Completed(s)[s].status = "complete"
          /\ \A t \in Slot \ {s} : Completed(s)[t] = slots[t]
        BY <1>1, <2>1, SetStatusSlot DEF Completed, TypeOK, Status
    <2>3. CASE slots' = Completed(s) /\ UNCHANGED inProgress
        <3>1. PlayingInProgress'
            BY <2>2, <2>3 DEF MatchInv, PlayingInProgress, AnyPlaying
        <3>2. QED
            BY <1>1, <1>13, <2>1, <2>2, <2>3, <3>1, SamePlayers, NoneAssumption DEF MatchComplete
    <2>4. CASE ~AnyPlaying(Completed(s)) /\ slots' = Unready("complete", Completed(s))
        <3>1. \A t \in Slot :
                /\ slots'[t].player = Completed(s)[t].player
                /\ slots'[t].status \in has_player <=> Completed(s)[t].status \in has_player
                /\ slots'[t].status = "playing" => Completed(s)[t].status = "playing"
            BY <2>2, <2>4, UnreadySlots DEF has_player
        <3>2. PlayingInProgress'
            BY <2>4, <3>1 DEF PlayingInProgress, AnyPlaying
        <3>3. QED
            BY <1>1, <1>13, <2>1, <2>2, <3>1, <3>2, SamePlayers, NoneAssumption DEF MatchComplete
    <2>5. QED  BY <2>1, <2>3, <2>4
<1>14. CASE UNCHANGED vars
    BY <1>14, SamePlayers, <1>1 DEF vars, MatchInv, PlayingInProgress, AnyPlaying
<1>15. QED
    BY <1>2, <1>3, <1>4, <1>5, <1>6, <1>7, <1>8, <1>9, <1>10, <1>11, <1>12, <1>13, <1>14
       DEF GameNext, Next, PlayerStep, SeatStep, FlagStep, OwnSlotStep, HostStep,
           MatchReady, MatchNotReady, MatchNoBeatmap, MatchHasBeatmap, Status

\* What the handlers keep of any match, whatever clients send (match.py, player.py:680-790).
THEOREM SlotsCorrect == Spec => []SlotsInv
<1>1. Init => SlotsInv
    BY InitInv DEF MatchInv, SlotsInv
<1>2. QED  BY <1>1, SlotsStep, PTL DEF Spec

\* No player ever sits in two slots of a match (see OneSeat).
THEOREM OneSeatAlways == Spec => []OneSeat
<1>1. SlotsInv => OneSeat
    BY DEF SlotsInv
<1>2. QED  BY <1>1, SlotsCorrect, PTL

\* A slot only ever holds a player whose p.match is the match.
THEOREM SeatedAreMembersAlways == Spec => []SeatedAreMembers
<1>1. SlotsInv => SeatedAreMembers
    BY DEF SlotsInv
<1>2. QED  BY <1>1, SlotsCorrect, PTL

\* A member of the match has a session in `players`.
THEOREM MembersHaveSessionAlways == Spec => []MembersHaveSession
<1>1. SlotsInv => MembersHaveSession
    BY DEF SlotsInv
<1>2. QED  BY <1>1, SlotsCorrect, PTL

\* All six facts of a match hold together when the game's client has created it,
\* whatever the clients send afterwards.
THEOREM InvCorrect == GameSpec => []MatchInv
<1>1. QED  BY InitInv, NextInv, PTL DEF GameSpec

\* The slots write_match reads a player's id from do hold a player, in a match
\* that was created with empty slots (match.py:305).
THEOREM StatusHasPlayerAlways == GameSpec => []StatusHasPlayer
<1>1. MatchInv => StatusHasPlayer
    BY DEF MatchInv
<1>2. QED  BY <1>1, InvCorrect, PTL

\* A match removed from `matches` stays empty, if it was created with empty slots.
THEOREM ClosedIsEmptyAlways == GameSpec => []ClosedIsEmpty
<1>1. MatchInv => ClosedIsEmpty
    BY DEF MatchInv
<1>2. QED  BY <1>1, InvCorrect, PTL

\* Somebody plays only while the match is in progress, if nobody was said to play
\* when it was created.
THEOREM PlayingInProgressAlways == GameSpec => []PlayingInProgress
<1>1. MatchInv => PlayingInProgress
    BY DEF MatchInv
<1>2. QED  BY <1>1, InvCorrect, PTL

-----------------------------------------------------------------------------
(* With courteous clients.                                                  *)

\* A slot whose status says it is free is: get_free and MatchChangeSlot look
\* at nothing else.
OpenIsEmpty == \A s \in Slot : slots[s].status = "open" => slots[s].player = None

\* Nobody sits in a match that is not in `matches`.
OnlyOpenIsSeated == stage # "open" => AllEmpty(slots)

CourteousInv ==
    /\ MatchInv
    /\ MemberHasSlot
    /\ HostIsSeated
    /\ NoZombie
    /\ OpenIsEmpty
    /\ OnlyOpenIsSeated

\* NoEviction's step, without the stuttering.
Evicts == \E s \in Slot :
    slots[s].player # None /\ slots'[s].player \notin {slots[s].player, None}

-----------------------------------------------------------------------------

LEMMA CourteousInit == Init => CourteousInv
BY InitInv, ResetSlot
   DEF Init, CourteousInv, MemberHasSlot, HostIsSeated, NoZombie, OpenIsEmpty,
       OnlyOpenIsSeated, AllEmpty, Status

\* A member's match is open, its host is a member, and the host property finds it.
LEMMA MemberSeesHost ==
    ASSUME CourteousInv, members # {}
    PROVE  stage = "open" /\ host \in members /\ HostOnline
<1> USE DEF CourteousInv, MatchInv
<1>1. PICK p \in members : SlotsOf(p) # {}
    BY DEF MemberHasSlot
<1>2. p \in Player
    BY DEF TypeOK
<1>3. stage = "open"
    BY <1>1, <1>2, NoneAssumption DEF OnlyOpenIsSeated, AllEmpty, SlotsOf
<1>4. host \in Player /\ host \in members
    BY <1>3, NoneAssumption DEF HostIsSeated, SlotsOf, SeatedAreMembers
<1>5. QED  BY <1>3, <1>4 DEF HostOnline, MembersHaveSession

\* A step that keeps who sits where, keeps the members and opens no slot that
\* is taken keeps the invariant, if the host is still one who is seated.
LEMMA KeepsSeats ==
    ASSUME CourteousInv, MatchInv',
           UNCHANGED <<stage, members>>,
           \A s \in Slot : slots'[s].player = slots[s].player,
           OpenIsEmpty', NoZombie',
           host' = host \/ \E s \in Slot : host' = slots[s].player /\ host' # None
    PROVE  CourteousInv' /\ ~Evicts
<1> USE DEF CourteousInv
<1>1. \A p : SlotsOf(p)' = SlotsOf(p)
    BY DEF SlotsOf
<1>2. MemberHasSlot'
    BY <1>1 DEF MemberHasSlot
<1>3. HostIsSeated'
    <2>1. CASE host' = host
        BY <1>1, <2>1 DEF HostIsSeated
    <2>2. CASE \E s \in Slot : host' = slots[s].player /\ host' # None
        BY <1>1, <2>2 DEF HostIsSeated, SlotsOf, MatchInv, TypeOK, SlotRecord
    <2>3. QED  BY <2>1, <2>2
<1>4. OnlyOpenIsSeated'
    BY DEF OnlyOpenIsSeated, AllEmpty
<1>5. ~Evicts
    BY DEF Evicts
<1>6. QED  BY <1>2, <1>3, <1>4, <1>5

\* Leaving never raises: the host is found, and every slot said to hold a player
\* does.
LEMMA LeaveRuns ==
    ASSUME CourteousInv, NEW p \in members, NEW s \in SlotsOf(p), LeaveSeat(p, s, slots')
    PROVE  ~LeaveRaises(p, slots')
<1> USE DEF CourteousInv, MatchInv
<1>1. /\ slots'[s].status \notin has_player
      /\ \A t \in Slot \ {s} : slots'[t] = slots[t]
    BY LeaveSeatSlots DEF TypeOK
<1>2. ~Hole(slots')
    BY <1>1 DEF Hole, Occupied, StatusHasPlayer
<1>3. QED  BY <1>2, MemberSeesHost DEF LeaveRaises, CanLeave

\* Leaving keeps the invariant if the host does not leave
\* a match behind where everybody else is being kicked.
LEMMA LeaveKeeps ==
    ASSUME CourteousInv, MatchInv', NEW p \in members, NEW s \in SlotsOf(p),
           LeaveSeat(p, s, slots'), LeaveCompletely(p, slots'),
           HostNotLeftWithKicked, NoZombie'
    PROVE  CourteousInv' /\ ~Evicts
<1> USE DEF CourteousInv, MatchInv
<1>1. p \in Player
    BY DEF TypeOK
<1>2. /\ s \in Slot /\ slots[s].player = p
      /\ slots'[s].player = None
      /\ \A t \in Slot \ {s} : slots'[t] = slots[t]
    BY <1>1, LeaveSeatSlots
<1>3. members' = members \ {p} /\ stage = "open"
    BY MemberSeesHost DEF LeaveCompletely
<1>4. \A q \in Player \ {p} : SlotsOf(q)' = SlotsOf(q)
    BY <1>1, <1>2, NoneAssumption DEF SlotsOf
<1>5. MemberHasSlot'
    BY <1>3, <1>4 DEF MemberHasSlot, TypeOK
<1>6. OpenIsEmpty'
    BY <1>2 DEF OpenIsEmpty
<1>7. OnlyOpenIsSeated' /\ (stage' = "open" => ~AllEmpty(slots'))
    BY <1>3 DEF LeaveCompletely, OnlyOpenIsSeated
<1>8. HostIsSeated'
    <2>1. SUFFICES ASSUME stage' = "open"
                   PROVE  (host \in Player /\ SlotsOf(host) # {})'
        BY DEF HostIsSeated
    <2>2. CASE p # host
        <3>1. host' = host /\ host \in Player /\ SlotsOf(host) # {}
            BY <1>3, <2>2 DEF LeaveCompletely, HandOver, HostIsSeated
        <3>2. PICK t \in Slot : slots[t].player = host
            BY <3>1 DEF SlotsOf
        <3>3. slots'[t].player = host'
            BY <1>2, <2>2, <3>1, <3>2
        <3>4. QED  BY <3>1, <3>3 DEF SlotsOf
    <2>3. CASE p = host /\ Occupied(slots') # {}
        <3>1. PICK t \in Occupied(slots') :
                  host' = IF slots'[t].player = None THEN host ELSE slots'[t].player
            BY <2>3 DEF LeaveCompletely, HandOver, IsFirst
        <3>2. t \in Slot /\ slots'[t].player \in Player /\ host' = slots'[t].player
            BY <3>1 DEF Occupied, StatusHasPlayer, TypeOK, SlotRecord
        <3>3. QED  BY <3>1, <3>2 DEF SlotsOf
    <2>4. CASE p = host /\ Occupied(slots') = {}
        <3>1. host' = host /\ host \in members /\ host \notin members'
            BY <1>3, <2>4 DEF LeaveCompletely, HandOver
        <3>2. QED  BY <1>7, <2>1, <2>4, <3>1 DEF HostNotLeftWithKicked
    <2>5. QED  BY <2>2, <2>3, <2>4
<1>9. ~Evicts
    BY <1>2 DEF Evicts
<1>10. QED  BY <1>5, <1>6, <1>7, <1>8, <1>9

\* Every step of a match with courteous clients.
LEMMA CourteousStep ==
    CourteousInv /\ [CourteousNext]_vars => CourteousInv' /\ ~Evicts
<1> SUFFICES ASSUME CourteousInv, [CourteousNext]_vars
             PROVE  CourteousInv' /\ ~Evicts
    OBVIOUS
<1> USE DEF CourteousInv
<1>1. MatchInv /\ MatchInv' /\ TypeOK /\ TypeOK'
    BY NextInv DEF CourteousNext, Courteous, GameNext, MatchInv
<1>2. CASE UNCHANGED vars
    BY <1>1, <1>2, KeepsSeats DEF vars, OpenIsEmpty, NoZombie
<1>3. ASSUME NEW p \in Player, MatchCreate(p), CreatesAsTheGame
      PROVE  CourteousInv' /\ ~Evicts
    <2>1. /\ 1 \in Slot /\ slots'[1].player = p /\ slots'[1].status = "not_ready"
          /\ \A s \in Slot \ {1} : slots'[s].player = None
          /\ host' = p /\ members' = members \cup {p}
        BY <1>3, GameMatch
    <2>2. stage = "none" /\ stage' = "open" /\ session' = session
        BY <1>3 DEF MatchCreate
    <2>3. members = {}
        BY <2>2, MemberSeesHost
    <2>4. SlotsOf(p)' # {}
        BY <2>1 DEF SlotsOf
    <2>5. MemberHasSlot' /\ HostIsSeated' /\ NoZombie' /\ OnlyOpenIsSeated'
        BY <2>1, <2>2, <2>3, <2>4 DEF MemberHasSlot, HostIsSeated, NoZombie, OnlyOpenIsSeated
    <2>6. OpenIsEmpty' /\ ~Evicts
        BY <2>1, <2>2 DEF OpenIsEmpty, OnlyOpenIsSeated, AllEmpty, Evicts
    <2>7. QED  BY <1>1, <2>5, <2>6
<1>4. ASSUME NEW p \in Player, MatchJoin(p)
      PROVE  CourteousInv' /\ ~Evicts
    <2>1. /\ stage = "open" /\ p \notin members
          /\ members' = members \cup {p}
          /\ UNCHANGED <<stage, host, session>>
        BY <1>4 DEF MatchJoin, join_match
    <2>2. host \in Player /\ SlotsOf(host) # {} /\ p # host
        BY <1>1, <2>1, NoneAssumption DEF HostIsSeated, SlotsOf, MatchInv, SeatedAreMembers
    <2>3. PICK s \in OpenSlots : slots' = [slots EXCEPT ![s] = Take(@, p, "not_ready")]
        BY <1>4, <2>2 DEF MatchJoin, join_match, IsFirst
    <2>4. s \in Slot /\ slots[s] \in SlotRecord /\ slots[s].player = None
        BY <1>1, <2>3 DEF OpenSlots, OpenIsEmpty, TypeOK
    <2>5. Take(slots[s], p, "not_ready").player = p
            /\ Take(slots[s], p, "not_ready").status = "not_ready"
        <3>1. "not_ready" \in Status
            BY DEF Status
        <3>2. QED  BY <2>4, <3>1, TakeSlot
    <2>6. /\ slots'[s].player = p /\ slots'[s].status = "not_ready"
          /\ \A t \in Slot \ {s} : slots'[t] = slots[t]
        BY <1>1, <2>3, <2>4, <2>5 DEF TypeOK
    <2>7. SlotsOf(p)' # {} /\ \A q \in Player \ {p} : SlotsOf(q)' = SlotsOf(q)
        BY <2>4, <2>6, NoneAssumption DEF SlotsOf
    <2>8. MemberHasSlot' /\ HostIsSeated'
        BY <1>1, <2>1, <2>2, <2>7 DEF MemberHasSlot, HostIsSeated, TypeOK
    <2>9. NoZombie' /\ OpenIsEmpty' /\ OnlyOpenIsSeated' /\ ~Evicts
        BY <2>1, <2>4, <2>6 DEF NoZombie, OpenIsEmpty, OnlyOpenIsSeated, Evicts
    <2>10. QED  BY <1>1, <2>8, <2>9
<1>5. ASSUME NEW p \in Player, MatchPart(p), HostNotLeftWithKicked
      PROVE  CourteousInv' /\ ~Evicts
    <2>1. p \in members /\ session' = session
        BY <1>5 DEF MatchPart, InMatch
    <2>2. PICK s \in SlotsOf(p) :
              LeaveSeat(p, s, slots') /\ LeaveCompletely(p, slots')
        BY <1>5, <2>1, LeaveRuns DEF MatchPart
    <2>3. NoZombie'
        BY <2>1 DEF NoZombie
    <2>4. QED  BY <1>1, <1>5, <2>1, <2>2, <2>3, LeaveKeeps
<1>6. ASSUME NEW p \in Player, Login(p) \/ (Logout(p) /\ p \notin members)
      PROVE  CourteousInv' /\ ~Evicts
    <2>1. NoZombie'
        BY <1>1, <1>6 DEF Login, Logout, NoZombie, TypeOK
    <2>2. UNCHANGED <<stage, slots, host, members>>
        BY <1>6 DEF Login, Logout
    <2>3. QED  BY <1>1, <2>1, <2>2, KeepsSeats DEF OpenIsEmpty
<1>7. ASSUME NEW p \in Player, Logout(p), p \in members, HostNotLeftWithKicked
      PROVE  CourteousInv' /\ ~Evicts
    <2>1. NoZombie'
        BY <1>1, <1>7 DEF Logout, NoZombie, TypeOK
    <2>2. PICK s \in SlotsOf(p) :
              LeaveSeat(p, s, slots') /\ LeaveCompletely(p, slots')
        BY <1>7 DEF Logout
    <2>3. QED  BY <1>1, <1>7, <2>1, <2>2, LeaveKeeps
<1>8. ASSUME NEW p \in Player
      PROVE  ~LogoutRaises(p)
    BY LeaveRuns DEF LogoutRaises, InMatch, MemberHasSlot
<1>9. ASSUME NEW p \in Player, NEW st \in Status \ {"open"}, SetOwnStatus(p, st)
      PROVE  CourteousInv' /\ ~Evicts
    <2>1. PICK s \in Slot : slots' = [slots EXCEPT ![s] = SetStatus(@, st)]
        BY <1>9 DEF SetOwnStatus, SlotsOf
    <2>2. /\ slots'[s].player = slots[s].player /\ slots'[s].status = st
          /\ \A t \in Slot \ {s} : slots'[t] = slots[t]
        BY <1>1, <2>1, SetStatusSlot DEF TypeOK
    <2>3. OpenIsEmpty' /\ NoZombie'
        BY <1>9, <2>2 DEF OpenIsEmpty, NoZombie, SetOwnStatus
    <2>4. QED  BY <1>1, <1>9, <2>2, <2>3, KeepsSeats DEF SetOwnStatus
<1>10. ASSUME NEW p \in Player, NEW t \in Slot, MatchChangeSlot(p, t)
       PROVE  CourteousInv' /\ ~Evicts
    <2>1. PICK s \in Slot :
              /\ slots[s].player = p
              /\ slots' = [slots EXCEPT ![t] = Take(@, p, slots[s].status),
                                        ![s] = Reset("open")]
        BY <1>10 DEF MatchChangeSlot, SlotsOf
    <2>2. t # s /\ slots[t].player = None /\ slots[t] \in SlotRecord /\ slots[s] \in SlotRecord
        BY <1>1, <1>10, <2>1, NoneAssumption DEF MatchChangeSlot, OpenIsEmpty, TypeOK
    <2>3. slots[s].status \in Status /\ slots[s].status # "open"
        BY <2>1, <2>2, NoneAssumption DEF OpenIsEmpty, SlotRecord
    <2>4. /\ Take(slots[t], p, slots[s].status).player = p
          /\ Take(slots[t], p, slots[s].status).status = slots[s].status
          /\ Reset("open").player = None
        <3>1. Reset("open").player = None
            BY ResetSlot DEF Status
        <3>2. QED  BY <2>2, <2>3, <3>1, TakeSlot
    <2>5. /\ slots'[t].player = p /\ slots'[t].status = slots[s].status
          /\ slots'[s].player = None
          /\ \A u \in Slot \ {s, t} : slots'[u] = slots[u]
        BY <1>1, <2>1, <2>2, <2>4 DEF TypeOK
    <2>6. SlotsOf(p)' # {} /\ \A q \in Player \ {p} : SlotsOf(q)' = SlotsOf(q)
        BY <2>1, <2>2, <2>5, NoneAssumption DEF SlotsOf
    <2>7. UNCHANGED <<stage, host, members, session>>
        BY <1>10 DEF MatchChangeSlot
    <2>8. MemberHasSlot' /\ HostIsSeated'
        BY <1>1, <2>6, <2>7 DEF MemberHasSlot, HostIsSeated, TypeOK
    <2>9. OpenIsEmpty' /\ NoZombie' /\ ~Evicts
        BY <2>1, <2>2, <2>3, <2>5, <2>7 DEF OpenIsEmpty, NoZombie, Evicts
    <2>10. OnlyOpenIsSeated'
        BY <2>1, <2>7, NoneAssumption DEF OnlyOpenIsSeated, AllEmpty
    <2>11. QED  BY <1>1, <2>8, <2>9, <2>10
<1>11. ASSUME NEW p \in Player, NEW t \in Slot, MatchLock(p, t), NoKickedSlotReopens
       PROVE  CourteousInv' /\ ~Evicts
    <2>1. PICK st \in {"open", "locked"} :
              /\ slots' = [slots EXCEPT ![t] = SetStatus(@, st)]
              /\ st = "open" => slots[t].status = "locked"
        BY <1>11 DEF MatchLock
    <2>2. /\ slots'[t] = SetStatus(slots[t], st)
          /\ slots'[t].player = slots[t].player /\ slots'[t].status = st
          /\ \A u \in Slot \ {t} : slots'[u] = slots[u]
        BY <1>1, <2>1, SetStatusSlot DEF TypeOK, Status
    <2>3. st = "open" => slots[t].player = None
        BY <1>11, <2>1, <2>2 DEF NoKickedSlotReopens, Kicked
    <2>4. OpenIsEmpty' /\ NoZombie'
        BY <1>11, <2>2, <2>3 DEF OpenIsEmpty, NoZombie, MatchLock
    <2>5. QED  BY <1>1, <1>11, <2>2, <2>4, KeepsSeats DEF MatchLock
<1>12. ASSUME NEW p \in Player, NEW t \in Slot, MatchTransferHost(p, t)
       PROVE  CourteousInv' /\ ~Evicts
    BY <1>1, <1>12, KeepsSeats DEF MatchTransferHost, OpenIsEmpty, NoZombie
<1>13. ASSUME NEW p \in Player, MatchChangeMap(p)
       PROVE  CourteousInv' /\ ~Evicts
    <2>1. OpenIsEmpty' /\ NoZombie'
        BY <1>1, <1>13, UnreadySlots DEF MatchChangeMap, OpenIsEmpty, NoZombie, TypeOK, has_player
    <2>2. QED
        BY <1>1, <1>13, <2>1, UnreadySlots, KeepsSeats DEF MatchChangeMap, TypeOK, has_player
<1>14. ASSUME NEW p \in Player, MatchStart(p)
       PROVE  CourteousInv' /\ ~Evicts
    <2>1. slots' = Started(slots)
        BY <1>1, <1>14, StartRuns DEF MatchStart, MatchInv
    <2>2. OpenIsEmpty' /\ NoZombie'
        BY <1>1, <1>14, <2>1, StartedSlots DEF MatchStart, OpenIsEmpty, NoZombie, TypeOK
    <2>3. QED
        BY <1>1, <1>14, <2>1, <2>2, StartedSlots, KeepsSeats DEF MatchStart, TypeOK
<1>15. ASSUME NEW p \in Player, MatchLoadComplete(p) \/ MatchSkipRequest(p)
       PROVE  CourteousInv' /\ ~Evicts
    <2>1. \A t \in Slot : slots'[t].player = slots[t].player /\ slots'[t].status = slots[t].status
        BY <1>1, <1>15, FlagSlots
    <2>2. OpenIsEmpty' /\ NoZombie'
        BY <1>15, <2>1 DEF MatchLoadComplete, MatchSkipRequest, OpenIsEmpty, NoZombie
    <2>3. QED
        BY <1>1, <1>15, <2>1, <2>2, KeepsSeats DEF MatchLoadComplete, MatchSkipRequest
<1>16. ASSUME NEW p \in Player, MatchComplete(p)
       PROVE  CourteousInv' /\ ~Evicts
    <2>1. PICK s \in Slot : slots' \in {Completed(s), Unready("complete", Completed(s))}
        BY <1>16 DEF MatchComplete, SlotsOf
    <2>2. /\ Completed(s) \in [Slot -> SlotRecord]
          /\ Completed(s)[s].player = slots[s].player /\ Completed(s)[s].status = "complete"
          /\ \A t \in Slot \ {s} : Completed(s)[t] = slots[t]
        BY <1>1, <2>1, SetStatusSlot DEF Completed, TypeOK, Status
    <2>3. \A t \in Slot : /\ slots'[t].player = slots[t].player
                          /\ slots'[t].status = "open" => slots[t].status = "open"
        <3>1. \A t \in Slot :
                  /\ Unready("complete", Completed(s))[t].player = Completed(s)[t].player
                  /\ Unready("complete", Completed(s))[t].status = "open" =>
                        Completed(s)[t].status = "open"
            BY <2>2, UnreadySlots DEF has_player
        <3>2. QED  BY <2>1, <2>2, <3>1
    <2>4. OpenIsEmpty' /\ NoZombie'
        BY <1>16, <2>3 DEF MatchComplete, OpenIsEmpty, NoZombie
    <2>5. QED  BY <1>1, <1>16, <2>3, <2>4, KeepsSeats DEF MatchComplete
<1>17. QED
    BY <1>2, <1>3, <1>4, <1>5, <1>6, <1>7, <1>8, <1>9, <1>10, <1>11, <1>12, <1>13,
       <1>14, <1>15, <1>16
       DEF CourteousNext, Courteous, Next, PlayerStep, SeatStep, FlagStep, OwnSlotStep, HostStep, SessionStep,
           MatchReady, MatchNotReady, MatchNoBeatmap, MatchHasBeatmap, Status

\* With courteous clients `assert slot is not None` never fails.
THEOREM MemberHasSlotAlways == CourteousSpec => []MemberHasSlot
<1>1. CourteousInv => MemberHasSlot
    BY DEF CourteousInv
<1>2. QED  BY <1>1, CourteousInit, CourteousStep, PTL DEF CourteousSpec

\* With courteous clients the host of an open match sits in it.
THEOREM HostIsSeatedAlways == CourteousSpec => []HostIsSeated
<1>1. CourteousInv => HostIsSeated
    BY DEF CourteousInv
<1>2. QED  BY <1>1, CourteousInit, CourteousStep, PTL DEF CourteousSpec

\* With courteous clients no logout is cut short.
THEOREM NoZombieAlways == CourteousSpec => []NoZombie
<1>1. CourteousInv => NoZombie
    BY DEF CourteousInv
<1>2. QED  BY <1>1, CourteousInit, CourteousStep, PTL DEF CourteousSpec

\* With courteous clients nobody loses a seat to another player.
THEOREM NoEvictionAlways == CourteousSpec => NoEviction
<1>1. ~Evicts => \A s \in Slot :
          slots[s].player # None => slots'[s].player \in {slots[s].player, None}
    BY DEF Evicts
<1>2. QED
    BY <1>1, CourteousInit, CourteousStep, PTL DEF CourteousSpec, NoEviction

-----------------------------------------------------------------------------
(* Seating.                                                                 *)

\* seatOf is the inverse of the players of the slots.
LEMMA SeatOf ==
    OneSeat => \A p \in Player :
        /\ seatOf[p] \in Slot \cup {None}
        /\ \A s \in Slot : seatOf[p] = s <=> slots[s].player = p
<1> SUFFICES ASSUME OneSeat, NEW p \in Player
             PROVE  /\ seatOf[p] \in Slot \cup {None}
                    /\ \A s \in Slot : seatOf[p] = s <=> slots[s].player = p
    OBVIOUS
<1>1. CASE SlotsOf(p) = {}
    <2>1. seatOf[p] = None /\ \A s \in Slot : slots[s].player # p
        BY <1>1 DEF seatOf, SlotsOf
    <2>2. QED  BY <2>1, NoneAssumption
<1>2. CASE SlotsOf(p) # {}
    <2>1. \E s \in Slot : s \in SlotsOf(p)
        BY <1>2 DEF SlotsOf
    <2>2. seatOf[p] = CHOOSE s \in Slot : s \in SlotsOf(p)
        BY <1>2 DEF seatOf
    <2>3. seatOf[p] \in Slot /\ slots[seatOf[p]].player = p
        BY <2>1, <2>2 DEF SlotsOf
    <2>4. QED  BY <2>3, NoneAssumption DEF OneSeat
<1>3. QED  BY <1>1, <1>2

LEMMA SeatOfNext ==
    (OneSeat => \A p \in Player :
        /\ seatOf[p] \in Slot \cup {None}
        /\ \A s \in Slot : seatOf[p] = s <=> slots[s].player = p)'
BY SeatOf, PTL

\* A step that moves p to x, or out of the match, and nobody else.
LEMMA SeatMoves ==
    ASSUME OneSeat, OneSeat', NEW p \in Player, NEW x \in Slot \cup {None},
           \A s \in Slot : slots'[s].player = p <=> s = x,
           \A q \in Player \ {p} : \A s \in Slot :
              slots'[s].player = q <=> slots[s].player = q
    PROVE  seatOf' = [seatOf EXCEPT ![p] = x]
<1>1. seatOf'[p] = x
    BY SeatOfNext, NoneAssumption
<1>2. \A q \in Player \ {p} : seatOf'[q] = seatOf[q]
    BY SeatOf, SeatOfNext, NoneAssumption
<1>3. /\ seatOf = [q \in Player |-> seatOf[q]]
      /\ seatOf' = [q \in Player |-> seatOf'[q]]
    BY DEF seatOf
<1>4. QED  BY <1>1, <1>2, <1>3

\* A step that keeps who sits where, and the host, is no step of Seating.
LEMMA SeatsStay ==
    ASSUME OneSeat, OneSeat', UNCHANGED host,
           \A s \in Slot : slots'[s].player = slots[s].player
    PROVE  UNCHANGED <<seatOf, hostOf>>
<1>1. \A p \in Player : seatOf'[p] = seatOf[p]
    BY SeatOf, SeatOfNext, NoneAssumption
<1>2. /\ seatOf = [p \in Player |-> seatOf[p]]
      /\ seatOf' = [p \in Player |-> seatOf'[p]]
    BY DEF seatOf
<1>3. seatOf' = seatOf
    BY <1>1, <1>2
<1>4. hostOf' = hostOf
    BY DEF hostOf, AllEmpty
<1>5. QED  BY <1>3, <1>4

LEMMA SeatingInit == Init => Seats!Init
<1> SUFFICES ASSUME Init
             PROVE  Seats!Init
    OBVIOUS
<1>1. \A s \in Slot : slots[s].player = None
    BY ResetSlot DEF Init, Status
<1>2. \A p \in Player : SlotsOf(p) = {}
    BY <1>1, NoneAssumption DEF SlotsOf
<1>3. seatOf = [p \in Player |-> None]
    BY <1>2 DEF seatOf
<1>4. hostOf = None
    BY <1>1 DEF hostOf, AllEmpty
<1>5. QED  BY <1>3, <1>4 DEF Seats!Init

\* A player who leaves rises from the seat.
LEMMA LeaveRises ==
    ASSUME CourteousInv, CourteousInv', NEW p \in members, NEW s \in SlotsOf(p),
           LeaveSeat(p, s, slots'), LeaveCompletely(p, slots')
    PROVE  Seats!Rise(p)
<1> USE DEF CourteousInv, MatchInv
<1>1. p \in Player /\ stage = "open"
    BY MemberSeesHost DEF TypeOK
<1>2. /\ s \in Slot /\ slots[s].player = p /\ slots'[s].player = None
      /\ \A t \in Slot \ {s} : slots'[t] = slots[t] /\ slots[t].player # p
    BY <1>1, LeaveSeatSlots, NoneAssumption DEF OneSeat
<1>3. seatOf' = [seatOf EXCEPT ![p] = None]
    BY <1>1, <1>2, SeatMoves, NoneAssumption
<1>4. seatOf[p] # None
    BY <1>1, <1>2, SeatOf, NoneAssumption
<1>5. hostOf = host
    BY <1>1, <1>2, NoneAssumption DEF hostOf, AllEmpty
<1>6. AllEmpty(slots') <=> \A q \in Player : seatOf'[q] = None
    <2>1. \A q \in Player : seatOf'[q] = None <=> \A t \in Slot : slots'[t].player # q
        BY SeatOfNext, NoneAssumption
    <2>2. \A t \in Slot : slots'[t].player \in Player \cup {None}
        BY DEF TypeOK, SlotRecord
    <2>3. QED  BY <2>1, <2>2, NoneAssumption DEF AllEmpty
<1>7. IF p # hostOf THEN hostOf' = hostOf
      ELSE IF \A q \in Player : seatOf'[q] = None THEN hostOf' = None
      ELSE \E q \in Player : seatOf'[q] # None /\ hostOf' = q
    <2>1. CASE AllEmpty(slots')
        <3>1. hostOf' = None
            BY <2>1 DEF hostOf
        <3>2. p = host
            <4>1. host \in Player /\ SlotsOf(host) # {}
                BY <1>1 DEF HostIsSeated
            <4>2. PICK t \in Slot : slots[t].player = host
                BY <4>1 DEF SlotsOf
            <4>3. QED  BY <1>2, <2>1, <4>1, <4>2, NoneAssumption DEF AllEmpty
        <3>3. QED  BY <1>5, <1>6, <2>1, <3>1, <3>2
    <2>2. CASE ~AllEmpty(slots')
        <3>1. hostOf' = host' /\ stage' = "open"
            BY <1>1, <2>2 DEF hostOf, LeaveCompletely
        <3>2. PICK t \in Slot : slots'[t].player = host' /\ host' \in Player
            BY <3>1 DEF HostIsSeated, SlotsOf
        <3>3. seatOf'[host'] # None
            BY <3>2, SeatOfNext, NoneAssumption
        <3>4. p # host => host' = host
            BY DEF LeaveCompletely, HandOver
        <3>5. QED  BY <1>5, <1>6, <2>2, <3>1, <3>2, <3>3, <3>4
    <2>3. QED  BY <2>1, <2>2
<1>8. QED  BY <1>3, <1>4, <1>7 DEF Seats!Rise, Seats!Seated

\* Every step of the match is a step of Seating or a stuttering one.
LEMMA SeatingStep ==
    CourteousInv /\ CourteousInv' /\ [CourteousNext]_vars =>
        [Seats!Next]_<<seatOf, hostOf>>
<1> SUFFICES ASSUME CourteousInv, CourteousInv', [CourteousNext]_vars
             PROVE  Seats!Next \/ UNCHANGED <<seatOf, hostOf>>
    OBVIOUS
<1> USE DEF CourteousInv, MatchInv
<1>1. CASE UNCHANGED vars
    BY <1>1, SeatsStay DEF vars
<1>2. ASSUME NEW p \in Player, MatchCreate(p), CreatesAsTheGame
      PROVE  \E s \in Slot : Seats!Open(p, s)
    <2>1. /\ 1 \in Slot /\ slots'[1].player = p /\ host' = p
          /\ \A s \in Slot \ {1} : slots'[s].player = None
        BY <1>2, GameMatch
    <2>2. \A s \in Slot : slots[s].player = None
        BY <1>2 DEF MatchCreate, OnlyOpenIsSeated, AllEmpty
    <2>3. \A q \in Player : seatOf[q] = None
        BY <2>2, SeatOf, NoneAssumption
    <2>4. seatOf' = [seatOf EXCEPT ![p] = 1]
        BY <2>1, <2>2, SeatMoves, NoneAssumption
    <2>5. hostOf' = p
        BY <2>1, NoneAssumption DEF hostOf, AllEmpty
    <2>6. QED  BY <2>1, <2>3, <2>4, <2>5 DEF Seats!Open, Seats!Seated
<1>3. ASSUME NEW p \in Player, MatchJoin(p)
      PROVE  \E s \in Slot : Seats!Sit(p, s)
    <2>1. stage = "open" /\ p \notin members /\ host' = host
        BY <1>3 DEF MatchJoin, join_match
    <2>2. host \in Player /\ SlotsOf(host) # {} /\ p # host
        BY <2>1, NoneAssumption DEF HostIsSeated, SlotsOf, SeatedAreMembers
    <2>3. PICK s \in OpenSlots : slots' = [slots EXCEPT ![s] = Take(@, p, "not_ready")]
        BY <1>3, <2>2 DEF MatchJoin, join_match, IsFirst
    <2>4. s \in Slot /\ slots[s] \in SlotRecord /\ slots[s].player = None
        BY <2>3 DEF OpenSlots, OpenIsEmpty, TypeOK
    <2>5. Take(slots[s], p, "not_ready").player = p
        BY <2>4, TakeSlot DEF Status
    <2>6. slots'[s].player = p /\ \A t \in Slot \ {s} : slots'[t] = slots[t]
        BY <2>3, <2>4, <2>5 DEF TypeOK
    <2>7. \A t \in Slot : slots[t].player # p
        BY <2>1, NoneAssumption DEF SeatedAreMembers
    <2>8. seatOf' = [seatOf EXCEPT ![p] = s]
        BY <2>4, <2>6, <2>7, SeatMoves, NoneAssumption
    <2>9. seatOf[p] = None /\ \A q \in Player : seatOf[q] # s
        BY <2>4, <2>7, SeatOf, NoneAssumption
    <2>10. PICK t \in Slot : slots[t].player = host
        BY <2>2 DEF SlotsOf
    <2>11. seatOf[host] # None
        BY <2>2, <2>10, SeatOf, NoneAssumption
    <2>12. hostOf' = hostOf
        BY <2>1, <2>2, <2>4, <2>6, <2>10, NoneAssumption DEF hostOf, AllEmpty
    <2>13. QED
        BY <2>2, <2>4, <2>8, <2>9, <2>11, <2>12 DEF Seats!Sit, Seats!Seated, Seats!Free
<1>4. ASSUME NEW p \in Player, MatchPart(p) \/ (Logout(p) /\ p \in members)
      PROVE  Seats!Rise(p)
    <2>1. p \in members
        BY <1>4 DEF MatchPart, InMatch
    <2>2. PICK s \in SlotsOf(p) :
              LeaveSeat(p, s, slots') /\ LeaveCompletely(p, slots')
        BY <1>4, <2>1, LeaveRuns DEF MatchPart, Logout
    <2>3. QED  BY <2>1, <2>2, LeaveRises
<1>5. ASSUME NEW p \in Player, Login(p) \/ (Logout(p) /\ p \notin members)
      PROVE  UNCHANGED <<seatOf, hostOf>>
    BY <1>5, SeatsStay DEF Login, Logout
<1>6. ASSUME NEW p \in Player
      PROVE  ~LogoutRaises(p)
    BY LeaveRuns DEF LogoutRaises, InMatch, MemberHasSlot
<1>7. ASSUME NEW p \in Player, NEW t \in Slot, MatchChangeSlot(p, t)
      PROVE  Seats!Move(p, t)
    <2>1. PICK s \in Slot :
              /\ slots[s].player = p
              /\ slots' = [slots EXCEPT ![t] = Take(@, p, slots[s].status),
                                        ![s] = Reset("open")]
        BY <1>7 DEF MatchChangeSlot, SlotsOf
    <2>2. t # s /\ slots[t].player = None /\ slots[t] \in SlotRecord /\ slots[s] \in SlotRecord
        BY <1>7, <2>1, NoneAssumption DEF MatchChangeSlot, OpenIsEmpty, TypeOK
    <2>3. slots[s].status \in Status
        BY <2>2 DEF SlotRecord
    <2>4. Take(slots[t], p, slots[s].status).player = p
        BY <2>2, <2>3, TakeSlot
    <2>5. Reset("open").player = None
        BY ResetSlot DEF Status
    <2>6. /\ slots'[t].player = p /\ slots'[s].player = None
          /\ \A u \in Slot \ {s, t} : slots'[u] = slots[u] /\ slots[u].player # p
        BY <2>1, <2>2, <2>4, <2>5, NoneAssumption DEF TypeOK, OneSeat
    <2>7. seatOf' = [seatOf EXCEPT ![p] = t]
        <3>1. \A u \in Slot : slots'[u].player = p <=> u = t
            BY <2>6, NoneAssumption
        <3>2. \A q \in Player \ {p} : \A u \in Slot :
                  slots'[u].player = q <=> slots[u].player = q
            BY <2>1, <2>2, <2>6, NoneAssumption
        <3>3. QED  BY <3>1, <3>2, SeatMoves
    <2>8. seatOf[p] # None /\ \A q \in Player : seatOf[q] # t
        BY <2>1, <2>2, SeatOf, NoneAssumption
    <2>9. hostOf' = hostOf
        BY <1>7, <2>1, <2>6, NoneAssumption DEF MatchChangeSlot, hostOf, AllEmpty
    <2>10. QED  BY <2>7, <2>8, <2>9 DEF Seats!Move, Seats!Seated, Seats!Free
<1>8. ASSUME NEW p \in Player, NEW t \in Slot, MatchTransferHost(p, t)
      PROVE  \E q \in Player : Seats!HandOver(q)
    <2>1. /\ slots[t].player = host' /\ host' \in Player /\ slots' = slots
        BY <1>8 DEF MatchTransferHost, TypeOK, SlotRecord
    <2>2. seatOf[host'] # None
        BY <2>1, SeatOf, NoneAssumption
    <2>3. hostOf' = host' /\ seatOf' = seatOf
        BY <2>1, NoneAssumption DEF hostOf, AllEmpty, seatOf, SlotsOf
    <2>4. QED  BY <2>1, <2>2, <2>3 DEF Seats!HandOver, Seats!Seated
<1>9. ASSUME NEW p \in Player,
             \/ \E st \in Status : SetOwnStatus(p, st)
             \/ \E t \in Slot : MatchLock(p, t)
             \/ MatchChangeMap(p) \/ MatchStart(p)
             \/ MatchLoadComplete(p) \/ MatchSkipRequest(p) \/ MatchComplete(p)
      PROVE  UNCHANGED <<seatOf, hostOf>>
    <2>1. host' = host
        BY <1>9 DEF SetOwnStatus, MatchLock, MatchChangeMap, MatchStart,
            MatchLoadComplete, MatchSkipRequest, MatchComplete
    <2>2. CASE (\E st \in Status : SetOwnStatus(p, st)) \/ \E t \in Slot : MatchLock(p, t)
        BY <2>1, <2>2, StatusSlots, SeatsStay
    <2>3. CASE MatchComplete(p)
        BY <2>1, <2>3, CompleteSlots, SeatsStay
    <2>4. CASE MatchChangeMap(p)
        BY <2>1, <2>4, UnreadySlots, SeatsStay DEF MatchChangeMap, TypeOK, has_player
    <2>5. CASE MatchStart(p)
        BY <2>1, <2>5, StartSlots, SeatsStay DEF MatchStart, TypeOK
    <2>6. CASE MatchLoadComplete(p) \/ MatchSkipRequest(p)
        BY <2>1, <2>6, FlagSlots, SeatsStay
    <2>7. QED  BY <1>9, <2>2, <2>3, <2>4, <2>5, <2>6
<1>10. ASSUME NEW p \in Player, PlayerStep(p), CreatesAsTheGame
       PROVE  Seats!Next \/ UNCHANGED <<seatOf, hostOf>>
    <2>1. CASE MatchCreate(p) \/ MatchJoin(p) \/ MatchPart(p)
        BY <1>2, <1>3, <1>4, <1>10, <2>1 DEF Seats!Next
    <2>2. CASE OwnSlotStep(p)
        BY <1>7, <1>9, <2>2
           DEF OwnSlotStep, MatchReady, MatchNotReady, MatchNoBeatmap, MatchHasBeatmap,
               Status, Seats!Next
    <2>3. CASE HostStep(p) \/ MatchComplete(p) \/ FlagStep(p)
        BY <1>8, <1>9, <2>3 DEF HostStep, FlagStep, Seats!Next
    <2>4. CASE SessionStep(p)
        BY <1>4, <1>5, <1>6, <2>4 DEF SessionStep, Seats!Next
    <2>5. QED  BY <1>10, <2>1, <2>2, <2>3, <2>4 DEF PlayerStep, SeatStep
<1>11. QED  BY <1>1, <1>10 DEF CourteousNext, Courteous, Next

\* With courteous clients a match keeps the promises of Seating.
THEOREM ImplementsSeating == CourteousSpec => SeatingSpec
<1>1. QED
    BY SeatingInit, SeatingStep, CourteousInit, CourteousStep, PTL
       DEF CourteousSpec, SeatingSpec, Seats!Spec

-----------------------------------------------------------------------------
(* The barriers of a round.                                                 *)

\* Nobody starts to play, and no flag is set.
BarrierStays == \A s \in Slot :
    /\ slots'[s].loaded => slots[s].loaded
    /\ slots'[s].skipped => slots[s].skipped
    /\ slots'[s].status = "playing" =>
          /\ slots[s].status = "playing" /\ slots'[s].player = slots[s].player
          /\ slots'[s].loaded = slots[s].loaded /\ slots'[s].skipped = slots[s].skipped

\* Before the first round nobody plays and no flag is set.
NothingSet == /\ ~begun /\ ~skipSent
              /\ \A s \in Slot : slots[s].status # "playing" /\ ~slots[s].loaded /\ ~slots[s].skipped

\* Whoever has answered has the flag; in the first round, the other way round, too.
AnswersHaveFlags == \A s \in Playing(slots) : slots[s].player \in loadedNow => slots[s].loaded
FlagsAreAnswers == \A s \in Playing(slots) :
    /\ slots[s].loaded => slots[s].player \in loadedNow
    /\ slots[s].skipped => slots[s].player \in skipNow

RoundsInv ==
    /\ MatchInv
    /\ rounds \in Nat
    /\ rounds = 0 => NothingSet
    /\ rounds =< 1 => FlagsAreAnswers /\ BeginsWhenAllLoaded /\ SkipsWhenAllSkipped
    /\ AnswersHaveFlags
    /\ BegunWhenAllLoaded

LEMMA ResetFlags ==
    ASSUME NEW st
    PROVE  Reset(st).loaded = FALSE /\ Reset(st).skipped = FALSE /\ Reset(st).status = st
BY DEF Reset

LEMMA StatusFlags ==
    ASSUME NEW slot \in SlotRecord, NEW st
    PROVE  /\ SetStatus(slot, st).loaded = slot.loaded /\ SetStatus(slot, st).skipped = slot.skipped
           /\ SetStatus(slot, st).player = slot.player /\ SetStatus(slot, st).status = st
BY DEF SetStatus, SlotRecord

LEMMA TakeFlags ==
    ASSUME NEW slot \in SlotRecord, NEW p, NEW st
    PROVE  /\ Take(slot, p, st).loaded = slot.loaded /\ Take(slot, p, st).skipped = slot.skipped
           /\ Take(slot, p, st).status = st
BY DEF Take, SlotRecord

\* A step that gives slots another status than "playing", or resets them.
LEMMA SlotStays ==
    ASSUME TypeOK, NEW s \in Slot, NEW st, st # "playing", NEW p,
           slots'[s] \in {slots[s], SetStatus(slots[s], st), Take(slots[s], p, st), Reset(st)}
    PROVE  /\ slots'[s].loaded => slots[s].loaded
           /\ slots'[s].skipped => slots[s].skipped
           /\ slots'[s].status = "playing" =>
                 /\ slots[s].status = "playing" /\ slots'[s].player = slots[s].player
                 /\ slots'[s].loaded = slots[s].loaded /\ slots'[s].skipped = slots[s].skipped
<1>1. slots[s] \in SlotRecord
    BY DEF TypeOK
<1>2. CASE slots'[s] = slots[s]
    BY <1>2
<1>3. CASE slots'[s] = SetStatus(slots[s], st)
    BY <1>1, <1>3, StatusFlags
<1>4. CASE slots'[s] = Take(slots[s], p, st)
    BY <1>1, <1>4, TakeFlags
<1>5. CASE slots'[s] = Reset(st)
    BY <1>5, ResetFlags
<1>6. QED  BY <1>2, <1>3, <1>4, <1>5

\* unready_players gives a slot that plays no other status.
LEMMA UnreadyFlags ==
    ASSUME NEW sl \in [Slot -> SlotRecord], NEW st, NEW s \in Slot
    PROVE  /\ Unready(st, sl)[s].loaded = sl[s].loaded /\ Unready(st, sl)[s].skipped = sl[s].skipped
           /\ Unready(st, sl)[s].player = sl[s].player
           /\ Unready(st, sl)[s].status = "playing" => sl[s].status = "playing"
<1>1. sl[s] \in SlotRecord
    OBVIOUS
<1>2. Unready(st, sl)[s] = IF sl[s].status = st THEN SetStatus(sl[s], "not_ready") ELSE sl[s]
    BY DEF Unready
<1>3. QED  BY <1>1, <1>2, StatusFlags

\* Apart from the start of a round and the answers themselves, and as long as
\* players leave their slots alone, the barrier stays.
LEMMA OthersStay ==
    ASSUME TypeOK, NEW p \in Player, OtherStep(p)
    PROVE  BarrierStays
<1> USE DEF TypeOK
<1>1. CASE MatchCreate(p)
    <2>1. 1 \in Slot /\ slots'[1].status = "not_ready" /\
          \A s \in Slot \ {1} : slots'[s].status \in {"open", "locked"}
        BY <1>1, GameMatch DEF OtherStep, Courteous
    <2>2. QED  BY <1>1, <2>1, CreatedSlots DEF BarrierStays
<1>2. CASE MatchJoin(p)
    <2>1. PICK s \in Slot : slots' = [slots EXCEPT ![s] = Take(@, p, "not_ready")]
        BY <1>2 DEF MatchJoin, join_match
    <2>2. \A t \in Slot : slots'[t] \in {slots[t], Take(slots[t], p, "not_ready")}
        BY <2>1
    <2>3. QED  BY <2>2, SlotStays DEF BarrierStays
<1>3. ASSUME NEW s \in Slot, LeaveSeat(p, s, slots')
      PROVE  BarrierStays
    <2>1. slots'[s] = Reset(IF slots[s].status = "locked" THEN "locked" ELSE "open")
        BY <1>3 DEF LeaveSeat
    <2>2. \A t \in Slot \ {s} : slots'[t] = slots[t]
        BY <1>3 DEF LeaveSeat
    <2>3. \A t \in Slot : slots'[t] \in {slots[t], Reset("locked")} \/ slots'[t] \in {slots[t], Reset("open")}
        BY <2>1, <2>2
    <2>4. QED  BY <2>3, SlotStays DEF BarrierStays
<1>4. CASE slots' = slots
    BY <1>4 DEF BarrierStays
<1>5. CASE MatchPart(p)
    BY <1>3, <1>5 DEF MatchPart, SlotsOf
<1>6. CASE SessionStep(p)
    BY <1>3, <1>4, <1>6 DEF SessionStep, Login, Logout, LogoutRaises, SlotsOf
<1>7. CASE ~PlaysNow(p) /\ OwnSlotStep(p)
    <2>1. ASSUME NEW st, st # "playing", SetOwnStatus(p, st)
          PROVE  BarrierStays
        <3>1. PICK s \in Slot : slots' = [slots EXCEPT ![s] = SetStatus(@, st)]
            BY <2>1 DEF SetOwnStatus, SlotsOf
        <3>2. \A t \in Slot : slots'[t] \in {slots[t], SetStatus(slots[t], st)}
            BY <3>1
        <3>3. QED  BY <2>1, <3>2, SlotStays DEF BarrierStays
    <2>2. ASSUME NEW t \in Slot, MatchChangeSlot(p, t)
          PROVE  BarrierStays
        <3>1. PICK s \in SlotsOf(p) :
                  slots' = [slots EXCEPT ![t] = Take(@, p, slots[s].status), ![s] = Reset("open")]
            BY <2>2 DEF MatchChangeSlot
        <3>2. PICK st : st = slots[s].status
            OBVIOUS
        <3>3. s \in Slot /\ st # "playing"
            BY <1>7, <3>1, <3>2 DEF PlaysNow, SlotsOf
        <3>4. \A u \in Slot : slots'[u] \in {slots[u], Take(slots[u], p, st)} \/ slots'[u] \in {slots[u], Reset("open")}
            BY <3>1, <3>2, <3>3
        <3>5. QED  BY <3>3, <3>4, SlotStays DEF BarrierStays
    <2>3. QED
        BY <1>7, <2>1, <2>2 DEF OwnSlotStep, MatchReady, MatchNotReady, MatchNoBeatmap, MatchHasBeatmap
<1>8. CASE MatchChangeMap(p)
    BY <1>8, UnreadyFlags DEF MatchChangeMap, BarrierStays
<1>9. ASSUME NEW t \in Slot, MatchLock(p, t)
      PROVE  BarrierStays
    <2>1. PICK st \in {"open", "locked"} : slots' = [slots EXCEPT ![t] = SetStatus(@, st)]
        BY <1>9 DEF MatchLock
    <2>2. \A u \in Slot : slots'[u] \in {slots[u], SetStatus(slots[u], st)}
        BY <2>1
    <2>3. QED  BY <2>1, <2>2, SlotStays DEF BarrierStays
<1>10. CASE \E t \in Slot : MatchTransferHost(p, t)
    BY <1>4, <1>10 DEF MatchTransferHost
<1>11. CASE MatchComplete(p)
    <2>1. PICK s \in Slot : slots' = Completed(s) \/ slots' = Unready("complete", Completed(s))
        BY <1>11 DEF MatchComplete, SlotsOf
    <2>2. Completed(s) \in [Slot -> SlotRecord]
        BY SetStatusSlot DEF Completed, Status
    <2>3. \A u \in Slot : /\ Completed(s)[u].loaded = slots[u].loaded /\ Completed(s)[u].skipped = slots[u].skipped
                          /\ Completed(s)[u].player = slots[u].player
                          /\ Completed(s)[u].status = "playing" => slots[u].status = "playing"
        <3> SUFFICES ASSUME NEW u \in Slot
                     PROVE  /\ Completed(s)[u].loaded = slots[u].loaded /\ Completed(s)[u].skipped = slots[u].skipped
                            /\ Completed(s)[u].player = slots[u].player
                            /\ Completed(s)[u].status = "playing" => slots[u].status = "playing"
            OBVIOUS
        <3>1. Completed(s)[u] = slots[u] \/ Completed(s)[u] = SetStatus(slots[u], "complete")
            BY DEF Completed
        <3>2. QED  BY <3>1, StatusFlags
    <2>4. CASE slots' = Completed(s)
        BY <2>3, <2>4 DEF BarrierStays
    <2>5. CASE slots' = Unready("complete", Completed(s))
        BY <2>2, <2>3, <2>5, UnreadyFlags DEF BarrierStays
    <2>6. QED  BY <2>1, <2>4, <2>5
<1>12. QED
    BY <1>1, <1>2, <1>5, <1>6, <1>7, <1>8, <1>9, <1>10, <1>11 DEF OtherStep

\* A step of a round is one of a match that the game created.
LEMMA RoundsStepsAreSteps == [RoundsNext]_rvars => [GameNext]_vars
<1> SUFFICES ASSUME [RoundsNext]_rvars PROVE [GameNext]_vars
    OBVIOUS
<1>1. [Next]_vars
    BY DEF RoundsNext, rvars, vars, StartRound, LoadComplete, SkipRequest, OtherStep, Next, PlayerStep,
           SeatStep, FlagStep, HostStep
<1>2. CreatesAsTheGame \/ stage' = stage
    BY DEF RoundsNext, rvars, vars, StartRound, MatchStart, LoadComplete, MatchLoadComplete, SkipRequest,
           MatchSkipRequest, OtherStep, Courteous
<1>3. QED  BY <1>1, <1>2 DEF GameNext, CreatesAsTheGame

LEMMA RoundsBegin == RoundsInit => RoundsInv
<1> SUFFICES ASSUME RoundsInit PROVE RoundsInv
    OBVIOUS
<1>1. MatchInv
    BY InitInv DEF RoundsInit
<1>2. /\ rounds = 0 /\ begun = FALSE /\ skipSent = FALSE
      /\ slots = [s \in Slot |-> Reset("open")]
    BY DEF RoundsInit, Init
<1>3. NothingSet
    <2>1. Reset("open").status = "open" /\ Reset("open").loaded = FALSE /\ Reset("open").skipped = FALSE
        BY ResetFlags
    <2>2. \A s \in Slot : slots[s] = Reset("open")
        BY <1>2
    <2>3. \A s \in Slot : slots[s].status # "playing" /\ ~slots[s].loaded /\ ~slots[s].skipped
        BY <2>1, <2>2
    <2>4. QED  BY <1>2, <2>3 DEF NothingSet
<1>4. Playing(slots) = {}
    BY <1>3 DEF NothingSet, Playing
<1>5. QED
    BY <1>1, <1>2, <1>3, <1>4
       DEF RoundsInv, FlagsAreAnswers, BeginsWhenAllLoaded, SkipsWhenAllSkipped, AnswersHaveFlags, BegunWhenAllLoaded

\* Nobody starts to play: who has answered, and what was said, is as before.
LEMMA OthersKeepRounds ==
    ASSUME RoundsInv, MatchInv', BarrierStays, UNCHANGED <<rounds, loadedNow, skipNow, begun, skipSent>>,
           gone' = (gone \/ \E q \in PlayersOf(slots) : q \notin loadedNow \cup PlayersOf(slots'))
    PROVE  RoundsInv'
<1> USE DEF RoundsInv
<1>1. \A s \in Playing(slots') : /\ s \in Playing(slots) /\ s \in Slot /\ slots'[s].player = slots[s].player
                                 /\ slots'[s].loaded = slots[s].loaded /\ slots'[s].skipped = slots[s].skipped
    BY DEF Playing, BarrierStays
<1>2. Playing(slots)' = Playing(slots')
    BY DEF Playing
<1>3. rounds' = 0 => NothingSet'
    BY DEF NothingSet, BarrierStays
<1>4. FlagsAreAnswers => FlagsAreAnswers'
    BY <1>1, <1>2 DEF FlagsAreAnswers
<1>5. BeginsWhenAllLoaded => BeginsWhenAllLoaded'
    BY <1>1, <1>2 DEF BeginsWhenAllLoaded
<1>6. SkipsWhenAllSkipped => SkipsWhenAllSkipped'
    BY <1>1, <1>2 DEF SkipsWhenAllSkipped
<1>7. AnswersHaveFlags'
    BY <1>1, <1>2 DEF AnswersHaveFlags
<1>8. BegunWhenAllLoaded'
    <2> SUFFICES ASSUME Playing(slots') # {}, \A s \in Playing(slots') : slots'[s].player \in loadedNow, ~gone'
                 PROVE  begun
        BY <1>2 DEF BegunWhenAllLoaded
    <2>1. Playing(slots) # {}
        BY <1>1
    <2>2. ~gone /\ \A q \in PlayersOf(slots) : q \in loadedNow \cup PlayersOf(slots')
        OBVIOUS
    <2>3. \A q \in PlayersOf(slots') : q \in loadedNow
        BY DEF PlayersOf
    <2>4. \A s \in Playing(slots) : slots[s].player \in loadedNow
        BY <2>2, <2>3 DEF PlayersOf
    <2>5. QED  BY <2>1, <2>2, <2>4 DEF BegunWhenAllLoaded
<1>9. QED  BY <1>3, <1>4, <1>5, <1>6, <1>7, <1>8

\* The flag that an answer sets is that of the slot the player plays in.
LEMMA AnswersSetTheFlag ==
    ASSUME MatchInv, NEW p \in Player, PlaysNow(p), NEW s \in SlotsOf(p)
    PROVE  s \in Slot /\ slots[s].player = p /\ slots[s].status = "playing" /\ slots[s] \in SlotRecord
<1>1. PICK t \in SlotsOf(p) : slots[t].status = "playing"
    BY DEF PlaysNow
<1>2. s = t
    BY NoneAssumption DEF MatchInv, OneSeat, SlotsOf
<1>3. QED  BY <1>1, <1>2 DEF SlotsOf, MatchInv, TypeOK

LEMMA LoadKeepsRounds ==
    ASSUME RoundsInv, MatchInv', NEW p \in Player, LoadComplete(p)
    PROVE  RoundsInv'
<1> USE DEF RoundsInv
<1>1. PICK s \in SlotsOf(p) : slots' = [slots EXCEPT ![s].loaded = TRUE]
    BY DEF LoadComplete, MatchLoadComplete
<1>2. s \in Slot /\ slots[s].player = p /\ slots[s].status = "playing" /\ slots[s] \in SlotRecord
    BY AnswersSetTheFlag DEF LoadComplete
<1>3. /\ rounds' = rounds /\ skipNow' = skipNow /\ gone' = gone /\ skipSent' = skipSent
      /\ loadedNow' = loadedNow \cup {p}
      /\ begun' = (begun \/ AllLoaded(slots'))
    BY DEF LoadComplete
<1>4. /\ slots'[s].loaded /\ slots'[s].player = p
      /\ slots'[s].status = "playing" /\ slots'[s].skipped = slots[s].skipped
      /\ \A t \in Slot \ {s} : slots'[t] = slots[t]
    BY <1>1, <1>2 DEF SlotRecord, MatchInv, TypeOK
<1>5. /\ Playing(slots)' = Playing(slots) /\ Playing(slots') = Playing(slots)
      /\ \A t \in Playing(slots) : t \in Slot
    BY <1>2, <1>4 DEF Playing
<1>6. rounds # 0
    BY <1>2 DEF NothingSet
<1>7. AnswersHaveFlags'
    BY <1>2, <1>3, <1>4, <1>5, NoneAssumption DEF AnswersHaveFlags, MatchInv, OneSeat
<1>8. FlagsAreAnswers => FlagsAreAnswers'
    BY <1>2, <1>3, <1>4, <1>5 DEF FlagsAreAnswers
<1>9. AllLoaded(slots') <=> \A t \in Playing(slots) : slots'[t].loaded
    BY <1>5 DEF AllLoaded, is_playing, Playing
<1>10. rounds =< 1 => BeginsWhenAllLoaded'
    <2> SUFFICES ASSUME rounds =< 1, begun', NEW t \in Playing(slots) PROVE slots'[t].player \in loadedNow'
        BY <1>3, <1>5 DEF BeginsWhenAllLoaded
    <2>1. CASE begun
        BY <1>2, <1>3, <1>4, <1>5, <2>1 DEF BeginsWhenAllLoaded
    <2>2. CASE AllLoaded(slots')
        <3>1. slots'[t].loaded
            BY <1>9, <2>2
        <3>2. QED  BY <1>3, <1>5, <1>8, <3>1 DEF FlagsAreAnswers
    <2>3. QED  BY <1>3, <2>1, <2>2
<1>11. SkipsWhenAllSkipped => SkipsWhenAllSkipped'
    BY <1>2, <1>3, <1>4, <1>5 DEF SkipsWhenAllSkipped
<1>12. BegunWhenAllLoaded'
    <2> SUFFICES ASSUME \A t \in Playing(slots) : slots'[t].player \in loadedNow'
                 PROVE  begun'
        BY <1>5 DEF BegunWhenAllLoaded
    <2>1. \A t \in Playing(slots) : slots'[t].loaded
        BY <1>5, <1>7 DEF AnswersHaveFlags
    <2>2. QED  BY <1>3, <1>9, <2>1
<1>13. QED  BY <1>3, <1>6, <1>7, <1>8, <1>10, <1>11, <1>12

LEMMA SkipKeepsRounds ==
    ASSUME RoundsInv, MatchInv', NEW p \in Player, SkipRequest(p)
    PROVE  RoundsInv'
<1> USE DEF RoundsInv
<1>1. PICK s \in SlotsOf(p) : slots' = [slots EXCEPT ![s].skipped = TRUE]
    BY DEF SkipRequest, MatchSkipRequest
<1>2. s \in Slot /\ slots[s].player = p /\ slots[s].status = "playing" /\ slots[s] \in SlotRecord
    BY AnswersSetTheFlag DEF SkipRequest
<1>3. /\ rounds' = rounds /\ loadedNow' = loadedNow /\ gone' = gone /\ begun' = begun
      /\ skipNow' = skipNow \cup {p}
      /\ skipSent' = (skipSent \/ AllSkipped(slots'))
    BY DEF SkipRequest
<1>4. /\ slots'[s].skipped /\ slots'[s].player = p
      /\ slots'[s].status = "playing" /\ slots'[s].loaded = slots[s].loaded
      /\ \A t \in Slot \ {s} : slots'[t] = slots[t]
    BY <1>1, <1>2 DEF SlotRecord, MatchInv, TypeOK
<1>5. /\ Playing(slots)' = Playing(slots) /\ Playing(slots') = Playing(slots)
      /\ \A t \in Playing(slots) : t \in Slot
    BY <1>2, <1>4 DEF Playing
<1>6. rounds # 0
    BY <1>2 DEF NothingSet
<1>7. \A t \in Playing(slots) : slots'[t].player = slots[t].player /\ slots'[t].loaded = slots[t].loaded
    BY <1>2, <1>4, <1>5
<1>8. AnswersHaveFlags' /\ BegunWhenAllLoaded' /\ (BeginsWhenAllLoaded => BeginsWhenAllLoaded')
    BY <1>3, <1>5, <1>7 DEF AnswersHaveFlags, BegunWhenAllLoaded, BeginsWhenAllLoaded
<1>9. FlagsAreAnswers => FlagsAreAnswers'
    BY <1>2, <1>3, <1>4, <1>5 DEF FlagsAreAnswers
<1>10. rounds =< 1 => SkipsWhenAllSkipped'
    <2> SUFFICES ASSUME rounds =< 1, skipSent', NEW t \in Playing(slots) PROVE slots'[t].player \in skipNow'
        BY <1>3, <1>5 DEF SkipsWhenAllSkipped
    <2>1. CASE skipSent
        BY <1>2, <1>3, <1>4, <1>5, <2>1 DEF SkipsWhenAllSkipped
    <2>2. CASE AllSkipped(slots')
        <3>1. slots'[t].skipped
            BY <1>5, <2>2 DEF AllSkipped, Playing
        <3>2. QED  BY <1>3, <1>5, <1>9, <3>1 DEF FlagsAreAnswers
    <2>3. QED  BY <1>3, <2>1, <2>2
<1>11. QED  BY <1>3, <1>6, <1>8, <1>9, <1>10

LEMMA StartKeepsRounds ==
    ASSUME RoundsInv, MatchInv', NEW p \in Player, StartRound(p)
    PROVE  RoundsInv'
<1> USE DEF RoundsInv
<1>1. /\ slots' = Started(slots) /\ rounds' = rounds + 1
      /\ loadedNow' = {} /\ begun' = FALSE /\ skipSent' = FALSE
    BY StartRuns DEF StartRound, MatchStart, MatchInv
<1>2. \A s \in Slot : slots'[s].loaded = slots[s].loaded /\ slots'[s].skipped = slots[s].skipped
    <2> SUFFICES ASSUME NEW s \in Slot
                 PROVE  slots'[s].loaded = slots[s].loaded /\ slots'[s].skipped = slots[s].skipped
        OBVIOUS
    <2>1. slots'[s] = slots[s] \/ slots'[s] = SetStatus(slots[s], "playing")
        BY <1>1 DEF Started
    <2>2. slots[s] \in SlotRecord
        BY DEF MatchInv, TypeOK
    <2>3. QED  BY <2>1, <2>2, StatusFlags
<1>3. rounds' # 0 /\ rounds' \in Nat /\ (rounds' =< 1 => rounds = 0)
    BY <1>1
<1>4. rounds' =< 1 => FlagsAreAnswers'
    BY <1>2, <1>3 DEF FlagsAreAnswers, NothingSet, Playing
<1>5. BeginsWhenAllLoaded' /\ SkipsWhenAllSkipped' /\ AnswersHaveFlags' /\ BegunWhenAllLoaded'
    BY <1>1 DEF BeginsWhenAllLoaded, SkipsWhenAllSkipped, AnswersHaveFlags, BegunWhenAllLoaded
<1>6. QED  BY <1>3, <1>4, <1>5

LEMMA RoundsGoOn == RoundsInv /\ [RoundsNext]_rvars => RoundsInv'
<1> SUFFICES ASSUME RoundsInv, [RoundsNext]_rvars PROVE RoundsInv'
    OBVIOUS
<1>1. MatchInv'
    BY RoundsStepsAreSteps, NextInv DEF RoundsInv
<1>2. CASE UNCHANGED rvars
    <2>1. UNCHANGED <<slots, rounds, loadedNow, skipNow, begun, gone, skipSent>>
        BY <1>2 DEF rvars, vars, history
    <2>2. QED
        BY <1>1, <2>1 DEF RoundsInv, NothingSet, FlagsAreAnswers, BeginsWhenAllLoaded, SkipsWhenAllSkipped,
           AnswersHaveFlags, BegunWhenAllLoaded, Playing
<1>3. ASSUME NEW p \in Player, OtherStep(p)
      PROVE  RoundsInv'
    <2>1. BarrierStays
        BY <1>3, OthersStay DEF RoundsInv, MatchInv
    <2>2. /\ UNCHANGED <<rounds, loadedNow, skipNow, begun, skipSent>>
          /\ gone' = (gone \/ \E q \in PlayersOf(slots) : q \notin loadedNow \cup PlayersOf(slots'))
        BY <1>3 DEF OtherStep
    <2>3. QED  BY <1>1, <2>1, <2>2, OthersKeepRounds
<1>4. QED
    BY <1>1, <1>2, <1>3, LoadKeepsRounds, SkipKeepsRounds, StartKeepsRounds DEF RoundsNext

LEMMA RoundsCorrect == RoundsSpec => []RoundsInv
<1>1. QED  BY RoundsBegin, RoundsGoOn, PTL DEF RoundsSpec

\* In the first round of a match nobody is told to begin before every playing client
\* has loaded; from the second round on that is not true (cho.py:1648).
THEOREM FirstRoundBegins == RoundsSpec => [](rounds =< 1 => BeginsWhenAllLoaded)
<1>1. RoundsInv => (rounds =< 1 => BeginsWhenAllLoaded)
    BY DEF RoundsInv
<1>2. QED  BY <1>1, RoundsCorrect, PTL

\* In the first round nobody is skipped before every playing client has asked for it
\* (cho.py:1723).
THEOREM FirstRoundSkips == RoundsSpec => [](rounds =< 1 => SkipsWhenAllSkipped)
<1>1. RoundsInv => (rounds =< 1 => SkipsWhenAllSkipped)
    BY DEF RoundsInv
<1>2. QED  BY <1>1, RoundsCorrect, PTL

\* In every round: when all that play have loaded, and none left while loading,
\* they have been told to begin (cho.py:1648).
THEOREM BegunWhenAllLoadedAlways == RoundsSpec => []BegunWhenAllLoaded
<1>1. RoundsInv => BegunWhenAllLoaded
    BY DEF RoundsInv
<1>2. QED  BY <1>1, RoundsCorrect, PTL

=============================================================================
