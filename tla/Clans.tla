------------------------------- MODULE Clans -------------------------------
(***************************************************************************)
(* Clans: the rows of `clans` and of their members in `users`, the clans   *)
(* in memory, and what online players believe to be their clan.            *)
(*                                                                         *)
(* A clan is known here by its id.  Names and tags are left out: memory is *)
(* asked first, and the table's unique keys refuse what that lets through. *)
(* Nothing calls join_clan: members other than the owner are in the        *)
(* database from the start.  clan_leave is refused to an owner, and so the *)
(* branches of remove_member for an owner who leaves are not reached.      *)
(***************************************************************************)
EXTENDS Naturals

CONSTANTS
    User, Staff,
    Work,          \* commands and logins under way
    MaxClans,      \* bound: clans ever created
    NoClan, Nobody

ClanId == 1..MaxClans

VARIABLES
    founded,       \* ids that `clans` has given out
    owner,         \* the rows of `clans`: their owner, Nobody where there is none
    users,         \* clan_id and clan_priv of the users' rows
    clans,         \* the clans in memory
    member_ids,    \* one set, the default argument that all Clans share
    player,        \* the clan and clan_priv of who is online
    work,          \* what is under way
    cut, met       \* a restart cut work off; two were under way at once (history)

cvars == <<founded, owner, users, clans, member_ids, player, work, cut, met>>

Belongs == [clan : ClanId \cup {NoClan}, leads : BOOLEAN]
Outside == [clan |-> NoClan, leads |-> FALSE]
Offline == [clan |-> Nobody, leads |-> FALSE]
Still   == [at |-> "still"]

ClansTypeOK ==
    /\ founded \in 0..MaxClans /\ owner \in [ClanId -> User \cup {Nobody}]
    /\ users \in [User -> Belongs] /\ player \in [User -> Belongs \cup {Offline}]
    /\ clans \subseteq ClanId /\ member_ids \subseteq User
    /\ cut \in BOOLEAN /\ met \in BOOLEAN

Stored    == {c \in ClanId : owner[c] # Nobody}
Online(u) == player[u] # Offline
AtWork    == {w \in Work : work[w] # Still}

\* w begins with what u asked; `live` until the Player object of u is dropped.
Begins(w, at, u, c) ==
    /\ work[w] = Still
    /\ work' = [work EXCEPT ![w] = [at |-> at, user |-> u, clan |-> c, leads |-> users[u].leads, live |-> TRUE]]
    /\ met' = (met \/ AtWork # {})
Moves(w, at, c) == work' = [work EXCEPT ![w].at = at, ![w].clan = c]
Done(w) == work' = [work EXCEPT ![w] = Still]

\* What the Player that w is about believes from now on.
Tells(w, belief) == player' = IF work[w].live THEN [player EXCEPT ![work[w].user] = belief] ELSE player

-----------------------------------------------------------------------------
(* !clan create.                                                            *)

clan_create(w, u) ==
    /\ Online(u) /\ player[u].clan = NoClan
    /\ founded < MaxClans
    /\ Begins(w, "insert", u, NoClan)
    /\ UNCHANGED <<founded, owner, users, clans, member_ids, player, cut>>

\* The table takes one clan of an owner.
CreateInserts(w) == LET u == work[w].user IN
    /\ work[w].at = "insert"
    /\ IF founded = MaxClans \/ \E c \in Stored : owner[c] = u
       THEN Done(w) /\ UNCHANGED <<founded, owner, clans, member_ids, player>>
       ELSE /\ founded' = founded + 1
            /\ owner' = [owner EXCEPT ![founded'] = u]
            /\ clans' = clans \cup {founded'} /\ member_ids' = member_ids \cup {u}
            /\ Tells(w, [clan |-> founded', leads |-> TRUE])
            /\ Moves(w, "founded", founded')
    /\ UNCHANGED <<users, cut, met>>

CreateUpdates(w) ==
    /\ work[w].at = "founded"
    /\ users' = [users EXCEPT ![work[w].user] = [clan |-> work[w].clan, leads |-> TRUE]]
    /\ Done(w)
    /\ UNCHANGED <<founded, owner, clans, member_ids, player, cut, met>>

-----------------------------------------------------------------------------
(* !clan disband, by any member of the clan, or by staff for any clan.      *)

clan_disband(w, u, c) ==
    /\ Online(u) /\ c # NoClan
    /\ c = player[u].clan \/ (u \in Staff /\ c \in clans)
    /\ Begins(w, "disband", u, c)
    /\ UNCHANGED <<founded, owner, users, clans, member_ids, player, cut>>

\* The online players with an id in the shared set lose their clan, whichever.
DisbandDeletes(w) ==
    /\ work[w].at = "disband"
    /\ owner' = [owner EXCEPT ![work[w].clan] = Nobody]
    /\ player' = [u \in User |-> IF Online(u) /\ u \in member_ids THEN Outside ELSE player[u]]
    /\ Moves(w, "reset", work[w].clan)
    /\ UNCHANGED <<founded, users, clans, member_ids, cut, met>>

\* Which rows the disbanding resets.  Mutant: those of the players it reached.
Reset_Online(c) == {u \in User : users[u].clan = c /\ Online(u)}
Reset(c) == {u \in User : users[u].clan = c}

\* The second of two disbandings finds no clan to remove, and raises.
DisbandResets(w) ==
    /\ work[w].at = "reset"
    /\ users' = [u \in User |-> IF u \in Reset(work[w].clan) THEN Outside ELSE users[u]]
    /\ clans' = clans \ {work[w].clan}
    /\ Done(w)
    /\ UNCHANGED <<founded, owner, member_ids, player, cut, met>>

-----------------------------------------------------------------------------
(* !clan leave, and coming and going.                                       *)

\* An id that is no longer in the set raises.
clan_leave(w, u) ==
    /\ Online(u) /\ player[u].clan # NoClan /\ ~player[u].leads
    /\ u \in member_ids /\ member_ids' = member_ids \ {u}
    /\ Begins(w, "leave", u, player[u].clan)
    /\ UNCHANGED <<founded, owner, users, clans, player, cut>>

\* remove_member, which takes a set with nobody in it for a clan without members.
LeaveUpdates(w) ==
    /\ work[w].at = "leave"
    /\ users' = [users EXCEPT ![work[w].user] = Outside]
    /\ owner' = IF member_ids = {} THEN [owner EXCEPT ![work[w].clan] = Nobody] ELSE owner
    /\ Tells(w, Outside)
    /\ Done(w)
    /\ UNCHANGED <<founded, clans, member_ids, cut, met>>

\* login reads the row, and looks for the clan in memory later on.
login(w, u) ==
    /\ ~Online(u) /\ \A v \in Work : work[v] # Still /\ work[v].user = u => work[v].at # "login"
    /\ Begins(w, "login", u, users[u].clan)
    /\ UNCHANGED <<founded, owner, users, clans, member_ids, player, cut>>

LoginEnds(w) == LET u == work[w].user  c == work[w].clan IN
    /\ work[w].at = "login"
    /\ player' = [player EXCEPT ![u] =
          IF c \in clans THEN [clan |-> c, leads |-> work[w].leads] ELSE Outside]
    /\ Done(w)
    /\ UNCHANGED <<founded, owner, users, clans, member_ids, cut, met>>

logout(u) ==
    /\ Online(u)
    /\ player' = [player EXCEPT ![u] = Offline]
    /\ work' = [w \in Work |-> IF work[w] # Still /\ work[w].user = u
                               THEN [work[w] EXCEPT !.live = FALSE] ELSE work[w]]
    /\ UNCHANGED <<founded, owner, users, clans, member_ids, cut, met>>

\* Clans.prepare, with members_from_sql.
prepare ==
    /\ clans' = Stored
    /\ member_ids' = {u \in User : users[u].clan \in Stored}
    /\ player' = [u \in User |-> Offline]
    /\ work' = [w \in Work |-> Still]
    /\ cut' = (cut \/ AtWork # {})
    /\ UNCHANGED <<founded, owner, users, met>>

\* At first there may be a clan, with an owner and any members.
ClansInit ==
    /\ \E u \in User, others \in SUBSET User, some \in {0, 1} :
          /\ founded = some
          /\ owner = [c \in ClanId |-> IF c \in 1..some THEN u ELSE Nobody]
          /\ users = [v \in User |-> IF some = 1 /\ v \in others \cup {u}
                                     THEN [clan |-> 1, leads |-> (v = u)] ELSE Outside]
          /\ clans = 1..some
          /\ member_ids = IF some = 1 THEN others \cup {u} ELSE {}
    /\ player = [u \in User |-> Offline]
    /\ work = [w \in Work |-> Still]
    /\ cut = FALSE /\ met = FALSE

WorkNext(w) ==
    \/ \E u \in User : clan_create(w, u) \/ clan_leave(w, u) \/ login(w, u)
    \/ \E u \in User, c \in ClanId : clan_disband(w, u, c)
    \/ CreateInserts(w) \/ CreateUpdates(w) \/ DisbandDeletes(w) \/ DisbandResets(w)
    \/ LeaveUpdates(w) \/ LoginEnds(w)

ClansNext == prepare \/ (\E u \in User : logout(u)) \/ \E w \in Work : WorkNext(w)

ClansSpec == ClansInit /\ [][ClansNext]_cvars

-----------------------------------------------------------------------------
(* Properties.                                                              *)

\* With nothing under way, and nothing cut off by a restart before, memory has
\* the stored clans.  If no two met either, a user's row names a stored clan,
\* and its owner as the owner, and no player believes in a clan that the row
\* does not name.  (The other way round it fails: disbanding a clan takes their
\* clan from the members of all clans.)
ClansAgree == AtWork = {} /\ ~cut =>
    /\ clans = Stored
    /\ ~met => \A u \in User :
          /\ users[u].clan # NoClan => users[u].clan \in Stored
          /\ users[u].leads <=> \E c \in Stored : owner[c] = u /\ users[u].clan = c
          /\ Online(u) => player[u] \in {users[u], Outside}

=============================================================================
