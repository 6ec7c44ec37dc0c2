--------------------------- MODULE ContentProofs ---------------------------
(***************************************************************************)
(* What is kept in the database and in memory stays in step, for any       *)
(* number of users, commands, clans, pools, picks, maps and plays.  Each   *)
(* part has an inductive invariant of its own, the beatmaps' in            *)
(* BeatmapsProofs; MCContent's next step takes one part.                   *)
(***************************************************************************)
EXTENDS MCContent, FiniteSetTheorems, TLAPS

-----------------------------------------------------------------------------
(* Clans.                                                                   *)

At(w, at, u) == work[w].at = at /\ work[w].user = u

WorkType == [at : {"insert", "founded", "disband", "reset", "leave", "login"}, user : User,
             clan : ClansPart!ClanId \cup {NoClan}, leads : BOOLEAN, live : BOOLEAN]

\* Whatever names a clan names one that was founded.
Known(f) == (1..f) \cup {NoClan}
Member(f) == [clan : Known(f), leads : BOOLEAN]

DataKnown ==
    /\ founded \in 0..MaxClans /\ owner \in [ClansPart!ClanId -> User \cup {Nobody}]
    /\ \A c \in ClansPart!ClanId : owner[c] # Nobody => c \in 1..founded
    /\ users \in [User -> Member(founded)] /\ player \in [User -> Member(founded) \cup {ClansPart!Offline}]
    /\ clans \subseteq 1..founded /\ member_ids \subseteq User

WorkKnown ==
    /\ work \in [Task -> WorkType \cup {ClansPart!Still}]
    /\ \A w \in Task : work[w].at # "still" => work[w].clan \in Known(founded)
    /\ \A w \in Task : work[w].at \in {"founded", "disband", "reset", "leave"} => work[w].clan # NoClan

\* Somebody is a member of c, or believes so, who does not lead it.
Joined(c) ==
    \/ \E u \in User : users[u] = [clan |-> c, leads |-> FALSE] \/ player[u] = [clan |-> c, leads |-> FALSE]
    \/ \E w \in Task : work[w].at = "leave" /\ work[w].clan = c
    \/ \E w \in Task : work[w].at = "login" /\ work[w].clan = c /\ ~work[w].leads

\* The owner of such a clan leads it and does not leave.
Stays(c, o) ==
    /\ o \in member_ids
    /\ users[o] = [clan |-> c, leads |-> TRUE]
    /\ ClansPart!Online(o) => player[o].clan = NoClan \/ player[o].leads
    /\ \A w \in Task : ~At(w, "leave", o) /\ ~At(w, "founded", o) /\ (At(w, "login", o) => work[w].leads)
OwnersStay == \A c \in ClansPart!ClanId : Joined(c) /\ owner[c] # Nobody => Stays(c, owner[c])

MemoryHasStored ==
    /\ ClansPart!Stored \subseteq clans
    /\ \A c \in clans : c \in ClansPart!Stored \/ \E w \in Task : work[w].at = "reset" /\ work[w].clan = c
    /\ \A w \in Task : work[w].at = "reset" => owner[work[w].clan] = Nobody

RowTrue(u) ==
    /\ users[u].clan # NoClan => users[u].clan \in ClansPart!Stored
    /\ users[u].leads <=> \E c \in ClansPart!Stored : owner[c] = u /\ users[u].clan = c

\* What is so while nothing meets, of the users and of the one command.
UsersAgree == \A u \in User :
    /\ RowTrue(u) \/ \E w \in Task : work[w].at = "reset" /\ work[w].clan = users[u].clan
    /\ ClansPart!Online(u) => \/ player[u] \in {users[u], ClansPart!Outside}
                    \/ \E w \in Task : At(w, "founded", u)
    /\ users[u].clan # NoClan => u \in member_ids \/ \E w \in Task : At(w, "leave", u)

WorkAgrees == \A w \in Task : LET u == work[w].user  c == work[w].clan IN
    /\ work[w].at \in {"insert", "leave"} => (ClansPart!Online(u) => work[w].live)
    /\ work[w].at = "founded" =>
          /\ owner[c] = u /\ u \in member_ids
          /\ ClansPart!Online(u) => player[u] = [clan |-> c, leads |-> TRUE]
    /\ work[w].at = "reset" => \A v \in User : users[v].clan = c /\ ClansPart!Online(v) => player[v] = ClansPart!Outside
    /\ work[w].at = "login" => ~ClansPart!Online(u) /\ users[u] = [clan |-> c, leads |-> work[w].leads]

OneWork == \A v, w \in Task : work[v].at # "still" /\ work[w].at # "still" => v = w

ClansInv ==
    /\ DataKnown /\ WorkKnown
    /\ ~cut => MemoryHasStored /\ OwnersStay
    /\ ~cut /\ ~met => OneWork /\ UsersAgree /\ WorkAgrees

-----------------------------------------------------------------------------
(* What the steps do to `work`.                                             *)

LEMMA WorkAt ==
    ASSUME WorkKnown, NEW w \in Task
    PROVE  /\ work[w] = ClansPart!Still <=> work[w].at = "still"
           /\ w \in ClansPart!AtWork <=> work[w].at # "still"
           /\ w \in ClansPart!AtWork => work[w] \in WorkType
<1>1. work[w] \in WorkType \cup {ClansPart!Still}
    BY DEF WorkKnown
<1>2. work[w] \in WorkType => work[w].at # "still"
    BY DEF WorkType
<1>3. QED  BY <1>1, <1>2 DEF ClansPart!Still, ClansPart!AtWork

LEMMA BeginsWork ==
    ASSUME DataKnown, WorkKnown, NEW w \in Task, NEW u \in User, NEW c \in ClansPart!ClanId \cup {NoClan},
           NEW at \in {"insert", "disband", "leave", "login"}, ClansPart!Begins(w, at, u, c)
    PROVE  /\ work[w].at = "still"
           /\ work' \in [Task -> WorkType \cup {ClansPart!Still}]
           /\ work'[w].at = at /\ work'[w].user = u /\ work'[w].clan = c
           /\ work'[w].leads = users[u].leads /\ work'[w].live
           /\ \A v \in Task \ {w} : work'[v] = work[v]
           /\ ~met' => ~met /\ \A v \in Task : work[v].at = "still"
<1> DEFINE new == [at |-> at, user |-> u, clan |-> c, leads |-> users[u].leads, live |-> TRUE]
<1>1. users[u].leads \in BOOLEAN
    BY DEF DataKnown, Member
<1>2. /\ new \in WorkType
      /\ new.at = at /\ new.user = u /\ new.clan = c /\ new.leads = users[u].leads /\ new.live = TRUE
    BY <1>1 DEF WorkType
<1>3. work[w] = ClansPart!Still /\ work' = [work EXCEPT ![w] = new] /\ met' = (met \/ ClansPart!AtWork # {})
    BY Zenon DEF ClansPart!Begins
<1> HIDE DEF new
<1>4. work \in [Task -> WorkType \cup {ClansPart!Still}]
    BY DEF WorkKnown
<1>5. work'[w] = new /\ (\A v \in Task \ {w} : work'[v] = work[v]) /\ work' \in [Task -> WorkType \cup {ClansPart!Still}]
    BY <1>2, <1>3, <1>4
<1>6. ~met' => ~met /\ \A v \in Task : work[v].at = "still"
    BY <1>3, WorkAt
<1>7. QED  BY <1>2, <1>3, <1>5, <1>6 DEF ClansPart!Still

LEMMA MovesWork ==
    ASSUME WorkKnown, NEW w \in Task, work[w].at # "still", NEW c \in ClansPart!ClanId, NEW at \in {"founded", "reset"},
           ClansPart!Moves(w, at, c)
    PROVE  /\ work' \in [Task -> WorkType \cup {ClansPart!Still}]
           /\ work'[w].at = at /\ work'[w].user = work[w].user /\ work'[w].clan = c
           /\ \A v \in Task \ {w} : work'[v] = work[v]
<1>1. work[w] \in WorkType /\ work \in [Task -> WorkType \cup {ClansPart!Still}]
    BY WorkAt DEF WorkKnown
<1>2. PICK o \in WorkType : o = [work[w] EXCEPT !.at = at, !.clan = c]
    BY <1>1 DEF WorkType
<1>3. work' = [work EXCEPT ![w] = o]
    BY <1>1, <1>2 DEF ClansPart!Moves
<1>4. o.at = at /\ o.user = work[w].user /\ o.clan = c
    BY <1>1, <1>2 DEF WorkType
<1>5. QED  BY <1>1, <1>3, <1>4

LEMMA DoneWork ==
    ASSUME WorkKnown, NEW w \in Task, ClansPart!Done(w)
    PROVE  /\ work' \in [Task -> WorkType \cup {ClansPart!Still}]
           /\ work'[w] = ClansPart!Still /\ work'[w].at = "still"
           /\ \A v \in Task \ {w} : work'[v] = work[v]
BY DEF ClansPart!Done, ClansPart!Still, WorkKnown

LEMMA LogoutWork ==
    ASSUME WorkKnown, NEW u \in User, ClansPart!logout(u)
    PROVE  /\ work' \in [Task -> WorkType \cup {ClansPart!Still}]
           /\ \A w \in Task :
                 /\ work'[w].at = work[w].at /\ (work'[w] = ClansPart!Still <=> work[w] = ClansPart!Still)
                 /\ work[w] # ClansPart!Still =>
                       /\ work'[w].user = work[w].user /\ work'[w].clan = work[w].clan
                       /\ work'[w].leads = work[w].leads
                       /\ work[w].user # u => work'[w] = work[w]
<1>1. work' = [w \in Task |-> IF work[w] # ClansPart!Still /\ work[w].user = u
                              THEN [work[w] EXCEPT !.live = FALSE] ELSE work[w]]
    BY DEF ClansPart!logout
<1>2. SUFFICES ASSUME NEW w \in Task
               PROVE  /\ work'[w] \in WorkType \cup {ClansPart!Still}
                      /\ work'[w].at = work[w].at /\ (work'[w] = ClansPart!Still <=> work[w] = ClansPart!Still)
                      /\ work[w] # ClansPart!Still =>
                            /\ work'[w].user = work[w].user /\ work'[w].clan = work[w].clan
                            /\ work'[w].leads = work[w].leads
                            /\ work[w].user # u => work'[w] = work[w]
    BY <1>1
<1>3. CASE work[w] # ClansPart!Still /\ work[w].user = u
    <2>1. work[w] \in WorkType
        BY <1>3, WorkAt DEF ClansPart!AtWork
    <2>2. work'[w] = [work[w] EXCEPT !.live = FALSE]
        BY <1>1, <1>3
    <2>3. work'[w] \in WorkType /\ work'[w].at = work[w].at /\ work'[w].user = work[w].user
          /\ work'[w].clan = work[w].clan /\ work'[w].leads = work[w].leads
        BY <2>1, <2>2 DEF WorkType
    <2>4. QED  BY <1>3, <2>1, <2>3 DEF WorkType, ClansPart!Still
<1>4. CASE ~(work[w] # ClansPart!Still /\ work[w].user = u)
    <2>1. work'[w] = work[w]
        BY <1>1, <1>4
    <2>2. work[w] \in WorkType \cup {ClansPart!Still}
        BY DEF WorkKnown
    <2>3. QED  BY <2>1, <2>2
<1>5. QED  BY <1>3, <1>4

-----------------------------------------------------------------------------
(* A command that begins, goes on or is done names founded clans.           *)

LEMMA BeginsKnown ==
    ASSUME DataKnown, WorkKnown, NEW w \in Task, NEW u \in User, NEW c \in Known(founded),
           NEW at \in {"insert", "disband", "leave", "login"}, ClansPart!Begins(w, at, u, c),
           at \in {"disband", "leave"} => c # NoClan, founded' = founded
    PROVE  WorkKnown'
<1>1. c \in ClansPart!ClanId \cup {NoClan}
    BY ClansAssumption DEF DataKnown, Known, ClansPart!ClanId
<1>2. /\ work' \in [Task -> WorkType \cup {ClansPart!Still}]
      /\ work'[w].at = at /\ work'[w].clan = c
      /\ \A v \in Task \ {w} : work'[v] = work[v]
    <2>1. ASSUME NEW d \in ClansPart!ClanId \cup {NoClan}, ClansPart!Begins(w, at, u, d)
          PROVE  /\ work' \in [Task -> WorkType \cup {ClansPart!Still}]
                 /\ work'[w].at = at /\ work'[w].clan = d
                 /\ \A v \in Task \ {w} : work'[v] = work[v]
        BY <2>1, BeginsWork
    <2>2. QED  BY <1>1, <2>1
<1>3. QED  BY <1>2 DEF WorkKnown

LEMMA MovesKnown ==
    ASSUME DataKnown, WorkKnown, NEW w \in Task, work[w].at # "still", NEW c \in 1..founded', NEW at \in {"founded", "reset"},
           ClansPart!Moves(w, at, c), founded' \in founded..MaxClans
    PROVE  WorkKnown'
<1>1. c \in ClansPart!ClanId /\ c # NoClan
    BY ClansAssumption DEF DataKnown, ClansPart!ClanId
<1>2. /\ work' \in [Task -> WorkType \cup {ClansPart!Still}]
      /\ work'[w].at = at /\ work'[w].clan = c
      /\ \A v \in Task \ {w} : work'[v] = work[v]
    BY <1>1, MovesWork, ZenonT(30)
<1>3. c \in Known(founded') /\ Known(founded) \subseteq Known(founded')
    BY ClansAssumption DEF DataKnown, Known
<1>4. QED  BY <1>1, <1>2, <1>3 DEF WorkKnown

LEMMA DoneKnown ==
    ASSUME WorkKnown, NEW w \in Task, ClansPart!Done(w), founded' = founded
    PROVE  WorkKnown'
BY DoneWork DEF WorkKnown

-----------------------------------------------------------------------------
(* Every clan that is named was founded.                                    *)

LEMMA Members ==
    /\ \A f : ClansPart!Outside \in Member(f)
    /\ \A f \in 0..MaxClans : \A c \in 1..f : [clan |-> c, leads |-> TRUE] \in Member(f)
    /\ \A f, g \in 0..MaxClans : f <= g => Member(f) \subseteq Member(g)
    /\ \A f \in 0..MaxClans : ClansPart!Offline \notin Member(f)
    /\ \A f \in 0..MaxClans, u \in User : DataKnown /\ f = founded =>
          /\ users[u] \in Member(f) /\ users[u].clan \in Known(f) /\ users[u].leads \in BOOLEAN
          /\ ClansPart!Online(u) => player[u] \in Member(f) /\ player[u].clan \in Known(f) /\ player[u].leads \in BOOLEAN
<1>1. \A f : ClansPart!Outside \in Member(f)
    BY DEF Member, Known, ClansPart!Outside
<1>2. \A f \in 0..MaxClans : \A c \in 1..f : [clan |-> c, leads |-> TRUE] \in Member(f)
    BY DEF Member, Known
<1>3. \A f, g \in 0..MaxClans : f <= g => Member(f) \subseteq Member(g)
    <2>1. SUFFICES ASSUME NEW f \in 0..MaxClans, NEW g \in 0..MaxClans, f <= g, NEW m \in Member(f)  PROVE m \in Member(g)
        OBVIOUS
    <2>2. Known(f) \subseteq Known(g)
        BY <2>1, ClansAssumption DEF Known
    <2>3. QED  BY <2>2 DEF Member
<1>4. \A f \in 0..MaxClans : ClansPart!Offline \notin Member(f)
    <2>1. \A f \in 0..MaxClans : Nobody \notin Known(f)
        BY ClansAssumption DEF Known, ClansPart!ClanId
    <2>2. ClansPart!Offline.clan = Nobody
        BY DEF ClansPart!Offline
    <2>3. QED  BY <2>1, <2>2 DEF Member
<1>5. \A f \in 0..MaxClans, u \in User : DataKnown /\ f = founded =>
          /\ users[u] \in Member(f) /\ users[u].clan \in Known(f) /\ users[u].leads \in BOOLEAN
          /\ ClansPart!Online(u) => player[u] \in Member(f) /\ player[u].clan \in Known(f) /\ player[u].leads \in BOOLEAN
    <2>1. SUFFICES ASSUME NEW u \in User, DataKnown
                   PROVE  /\ users[u] \in Member(founded) /\ users[u].clan \in Known(founded) /\ users[u].leads \in BOOLEAN
                          /\ ClansPart!Online(u) => /\ player[u] \in Member(founded)
                                          /\ player[u].clan \in Known(founded) /\ player[u].leads \in BOOLEAN
        OBVIOUS
    <2>2. users[u] \in Member(founded) /\ (ClansPart!Online(u) => player[u] \in Member(founded))
        BY <2>1 DEF DataKnown, ClansPart!Online
    <2>3. QED  BY <2>2 DEF Member
<1>6. QED  BY <1>1, <1>2, <1>3, <1>4, <1>5

LEMMA KnownInit == ClansPart!ClansInit => DataKnown /\ WorkKnown
<1> SUFFICES ASSUME ClansPart!ClansInit  PROVE DataKnown /\ WorkKnown
    OBVIOUS
<1>1. PICK u \in User, others \in SUBSET User, some \in {0, 1} :
          /\ founded = some
          /\ owner = [c \in ClansPart!ClanId |-> IF c \in 1..some THEN u ELSE Nobody]
          /\ users = [v \in User |-> IF some = 1 /\ v \in others \cup {u}
                                     THEN [clan |-> 1, leads |-> (v = u)] ELSE ClansPart!Outside]
          /\ clans = 1..some
          /\ member_ids = IF some = 1 THEN others \cup {u} ELSE {}
    BY DEF ClansPart!ClansInit
<1>2. \A v \in User : [clan |-> 1, leads |-> (v = u)] \in Member(1)
    BY DEF Member, Known
<1>3. player = [v \in User |-> ClansPart!Offline] /\ work = [w \in Task |-> ClansPart!Still]
    BY DEF ClansPart!ClansInit
<1>4. DataKnown
    <2>1. some \in 0..MaxClans
        BY <1>1, ClansAssumption DEF ClansPart!ClansInit
    <2>2. founded \in 0..MaxClans /\ owner \in [ClansPart!ClanId -> User \cup {Nobody}] /\ clans \subseteq 1..founded
          /\ member_ids \subseteq User /\ \A c \in ClansPart!ClanId : owner[c] # Nobody => c \in 1..founded
        BY <1>1, <2>1
    <2>3. \A v \in User : users[v] \in Member(founded)
        <3>1. \A v \in User : users[v] = IF some = 1 /\ v \in others \cup {u} THEN [clan |-> 1, leads |-> (v = u)] ELSE ClansPart!Outside
            BY <1>1
        <3>2. QED  BY <1>1, <1>2, <3>1, Members
    <2>4. users \in [User -> Member(founded)]
        BY <1>1, <2>3
    <2>5. QED  BY <1>3, <2>2, <2>4 DEF DataKnown
<1>5. WorkKnown
    BY <1>3 DEF WorkKnown, ClansPart!Still
<1>6. QED  BY <1>4, <1>5


LEMMA KnownNext == DataKnown /\ WorkKnown /\ [ClansPart!ClansNext]_(ClansPart!cvars) => DataKnown' /\ WorkKnown'
<1> SUFFICES ASSUME DataKnown, WorkKnown, [ClansPart!ClansNext]_(ClansPart!cvars)  PROVE DataKnown' /\ WorkKnown'
    OBVIOUS
<1> USE ClansAssumption, Members
<1>1. CASE UNCHANGED ClansPart!cvars
    BY <1>1 DEF ClansPart!cvars, DataKnown, WorkKnown
<1>2. CASE ClansPart!prepare
    BY <1>2 DEF ClansPart!prepare, DataKnown, WorkKnown, ClansPart!Stored, ClansPart!Still
<1>3. ASSUME NEW u \in User, ClansPart!logout(u)  PROVE DataKnown' /\ WorkKnown'
    <2>1. WorkKnown'
        BY <1>3, LogoutWork, WorkAt, ZenonT(30) DEF ClansPart!logout, WorkKnown, ClansPart!AtWork
    <2>2. QED  BY <1>3, <2>1 DEF ClansPart!logout, DataKnown
<1>4. ASSUME NEW w \in Task, NEW u \in User, ClansPart!clan_create(w, u)  PROVE DataKnown' /\ WorkKnown'
    BY <1>4, BeginsKnown DEF ClansPart!clan_create, DataKnown, Known
<1>5. ASSUME NEW w \in Task, NEW u \in User, ClansPart!clan_leave(w, u)  PROVE DataKnown' /\ WorkKnown'
    BY <1>5, BeginsKnown DEF ClansPart!clan_leave, DataKnown
<1>6. ASSUME NEW w \in Task, NEW u \in User, ClansPart!login(w, u)  PROVE DataKnown' /\ WorkKnown'
    BY <1>6, BeginsKnown DEF ClansPart!login, DataKnown
<1>7. ASSUME NEW w \in Task, NEW u \in User, NEW c \in ClansPart!ClanId, ClansPart!clan_disband(w, u, c)  PROVE DataKnown' /\ WorkKnown'
    <2>1. c \in Known(founded)
        BY <1>7, ZenonT(30) DEF ClansPart!clan_disband, DataKnown, Known
    <2>2. QED  BY <1>7, <2>1, BeginsKnown DEF ClansPart!clan_disband, DataKnown
<1>8. ASSUME NEW w \in Task, ClansPart!CreateInserts(w)  PROVE DataKnown' /\ WorkKnown'
    <2>1. CASE ClansPart!Done(w) /\ UNCHANGED <<founded, owner, clans, member_ids, player>>
        BY <1>8, <2>1, DoneKnown DEF ClansPart!CreateInserts, DataKnown
    <2>2. CASE /\ founded # MaxClans
               /\ founded' = founded + 1
               /\ owner' = [owner EXCEPT ![founded'] = work[w].user]
               /\ clans' = clans \cup {founded'} /\ member_ids' = member_ids \cup {work[w].user}
               /\ ClansPart!Tells(w, [clan |-> founded', leads |-> TRUE])
               /\ ClansPart!Moves(w, "founded", founded')
        <3>1. founded' \in founded..MaxClans /\ founded' \in 1..founded' /\ founded' \in 0..MaxClans /\ founded < founded'
            BY <2>2 DEF DataKnown
        <3>2. WorkKnown' /\ work[w].user \in User
            <4>1. work[w].at # "still"
                BY <1>8 DEF ClansPart!CreateInserts
            <4>2. QED  BY <2>2, <3>1, <4>1, MovesKnown, WorkAt DEF WorkType
        <3>3. player' \in [User -> Member(founded') \cup {ClansPart!Offline}]
            <4>1. Member(founded) \subseteq Member(founded') /\ [clan |-> founded', leads |-> TRUE] \in Member(founded')
                BY <3>1 DEF DataKnown
            <4>2. player \in [User -> Member(founded') \cup {ClansPart!Offline}]
                BY <4>1 DEF DataKnown
            <4> HIDE Members
            <4>3. QED  BY <2>2, <4>1, <4>2 DEF ClansPart!Tells
        <3>4. users' \in [User -> Member(founded')]
            BY <1>8, <3>1 DEF ClansPart!CreateInserts, DataKnown
        <3>5. owner' \in [ClansPart!ClanId -> User \cup {Nobody}] /\ \A c \in ClansPart!ClanId : owner'[c] # Nobody => c \in 1..founded'
            BY <2>2, <3>1, <3>2 DEF DataKnown, ClansPart!ClanId
        <3>6. clans' \subseteq 1..founded' /\ member_ids' \subseteq User
            <4>1. clans \subseteq 1..founded /\ member_ids \subseteq User /\ founded \in Nat
                BY DEF DataKnown
            <4>2. 1..founded \subseteq 1..founded'
                BY <2>2, <4>1
            <4> HIDE Members
            <4>3. QED  BY <2>2, <3>1, <3>2, <4>1, <4>2
        <3>7. QED  BY <3>1, <3>2, <3>3, <3>4, <3>5, <3>6 DEF DataKnown
    <2>3. QED  BY <1>8, <2>1, <2>2 DEF ClansPart!CreateInserts
<1>9. ASSUME NEW w \in Task, ClansPart!CreateUpdates(w)  PROVE DataKnown' /\ WorkKnown'
    <2>1. work[w].clan \in 1..founded
        BY <1>9 DEF ClansPart!CreateUpdates, WorkKnown, Known
    <2>2. [clan |-> work[w].clan, leads |-> TRUE] \in Member(founded)
        BY <2>1 DEF DataKnown
    <2>3. QED  BY <1>9, <2>2, DoneKnown DEF ClansPart!CreateUpdates, DataKnown
<1>10. ASSUME NEW w \in Task, ClansPart!DisbandDeletes(w)  PROVE DataKnown' /\ WorkKnown'
    <2>1. work[w].clan \in 1..founded /\ work[w].at # "still"
        BY <1>10 DEF ClansPart!DisbandDeletes, WorkKnown, Known
    <2>2. WorkKnown'
        BY <1>10, <2>1, MovesKnown DEF ClansPart!DisbandDeletes, DataKnown
    <2>3. player' \in [User -> Member(founded) \cup {ClansPart!Offline}]
        BY <1>10 DEF ClansPart!DisbandDeletes, DataKnown
    <2>4. QED  BY <1>10, <2>2, <2>3 DEF ClansPart!DisbandDeletes, DataKnown
<1>11. ASSUME NEW w \in Task, ClansPart!DisbandResets(w)  PROVE DataKnown' /\ WorkKnown'
    BY <1>11, DoneKnown DEF ClansPart!DisbandResets, DataKnown
<1>12. ASSUME NEW w \in Task, ClansPart!LeaveUpdates(w)  PROVE DataKnown' /\ WorkKnown'
    BY <1>12, DoneKnown DEF ClansPart!LeaveUpdates, DataKnown, ClansPart!Tells
<1>13. ASSUME NEW w \in Task, ClansPart!LoginEnds(w)  PROVE DataKnown' /\ WorkKnown'
    <2>1. work[w].clan \in clans => [clan |-> work[w].clan, leads |-> work[w].leads] \in Member(founded)
        <3>1. work[w] \in WorkType
            BY <1>13, WorkAt DEF ClansPart!LoginEnds
        <3>2. QED  BY <3>1 DEF WorkType, Member, DataKnown, Known
    <2>2. QED  BY <1>13, <2>1, DoneKnown DEF ClansPart!LoginEnds, DataKnown
<1>14. QED  BY <1>1, <1>2, <1>3, <1>4, <1>5, <1>6, <1>7, <1>8, <1>9, <1>10, <1>11, <1>12, <1>13 DEF ClansPart!ClansNext, ClansPart!WorkNext

-----------------------------------------------------------------------------
(* The owner of a clan with other members.                                  *)

LEMMA OwnersInit == ClansPart!ClansInit => OwnersStay /\ MemoryHasStored
<1> SUFFICES ASSUME ClansPart!ClansInit  PROVE OwnersStay /\ MemoryHasStored
    OBVIOUS
<1>1. PICK u \in User, others \in SUBSET User, some \in {0, 1} :
          /\ founded = some
          /\ owner = [c \in ClansPart!ClanId |-> IF c \in 1..some THEN u ELSE Nobody]
          /\ users = [v \in User |-> IF some = 1 /\ v \in others \cup {u}
                                     THEN [clan |-> 1, leads |-> (v = u)] ELSE ClansPart!Outside]
          /\ clans = 1..some
          /\ member_ids = IF some = 1 THEN others \cup {u} ELSE {}
    BY DEF ClansPart!ClansInit
<1>2. player = [v \in User |-> ClansPart!Offline] /\ work = [w \in Task |-> ClansPart!Still]
    BY DEF ClansPart!ClansInit
<1>3. ASSUME NEW c \in ClansPart!ClanId, owner[c] # Nobody  PROVE Stays(c, owner[c])
    <2>1. some = 1 /\ c = 1 /\ owner[c] = u
        BY <1>1, <1>3
    <2>2. users[u] = [clan |-> 1, leads |-> TRUE] /\ u \in member_ids /\ ~ClansPart!Online(u)
        BY <1>1, <1>2, <2>1 DEF ClansPart!Online
    <2>3. QED  BY <1>2, <2>1, <2>2 DEF Stays, At, ClansPart!Still
<1>4. OwnersStay
    BY <1>3 DEF OwnersStay
<1>5. MemoryHasStored
    BY <1>1, <1>2, ClansAssumption DEF MemoryHasStored, ClansPart!Stored, ClansPart!Still, ClansPart!ClanId
<1>6. QED  BY <1>4, <1>5

LEMMA NotJoining ==
    \A c \in ClansPart!ClanId : /\ ClansPart!Outside # [clan |-> c, leads |-> FALSE]
                      /\ \A d : [clan |-> d, leads |-> TRUE] # [clan |-> c, leads |-> FALSE]
BY ClansAssumption DEF ClansPart!Outside

LEMMA OwnersNext ==
    ASSUME DataKnown, WorkKnown, MemoryHasStored, OwnersStay, [ClansPart!ClansNext]_(ClansPart!cvars), ~cut'
    PROVE  OwnersStay'
<1> USE ClansAssumption
<1>1. CASE UNCHANGED ClansPart!cvars
    BY <1>1 DEF ClansPart!cvars, OwnersStay, Joined, Stays, ClansPart!Online, At
<1>2. CASE ClansPart!prepare
    <2>1. \A w \in Task : work[w].at = "still" /\ work'[w].at = "still"
        BY <1>2, WorkAt DEF ClansPart!prepare, ClansPart!AtWork, ClansPart!Still
    <2>2. SUFFICES ASSUME NEW c \in ClansPart!ClanId, Joined(c)', owner'[c] # Nobody
                   PROVE  Stays(c, owner[c])'
        BY DEF OwnersStay
    <2>3. Joined(c) /\ owner'[c] = owner[c] /\ owner[c] \in User
        BY <1>2, <2>1, <2>2 DEF ClansPart!prepare, Joined, ClansPart!Offline, DataKnown, ClansPart!ClanId
    <2>4. Stays(c, owner[c])
        BY <2>3, <2>2 DEF OwnersStay
    <2>5. QED  BY <1>2, <2>1, <2>2, <2>3, <2>4 DEF ClansPart!prepare, Stays, ClansPart!Stored, ClansPart!Online, At
<1>3. ASSUME NEW u \in User, ClansPart!logout(u)  PROVE OwnersStay'
    <2>1. \A w \in Task : /\ work'[w].at = work[w].at
                          /\ work[w].at # "still" => work'[w].user = work[w].user /\ work'[w].clan = work[w].clan /\ work'[w].leads = work[w].leads
        BY <1>3, LogoutWork, WorkAt
    <2>2. SUFFICES ASSUME NEW c \in ClansPart!ClanId, Joined(c)', owner'[c] # Nobody
                   PROVE  Stays(c, owner[c])'
        BY DEF OwnersStay
    <2>3. player' = [player EXCEPT ![u] = ClansPart!Offline] /\ UNCHANGED <<owner, users, member_ids>>
        BY <1>3 DEF ClansPart!logout
    <2>4. Joined(c)
        BY <2>1, <2>2, <2>3 DEF Joined, DataKnown, ClansPart!Offline
    <2>5. Stays(c, owner[c])
        BY <2>3, <2>4, <2>2 DEF OwnersStay
    <2>6. QED  BY <2>1, <2>3, <2>5 DEF Stays, ClansPart!Online, At, DataKnown
<1>4. ASSUME NEW w \in Task, NEW u \in User, NEW d \in ClansPart!ClanId \cup {NoClan}, NEW at \in {"insert", "disband"},
             ClansPart!Begins(w, at, u, d), UNCHANGED <<owner, users, member_ids, player>>
      PROVE  OwnersStay'
    <2>1. /\ work'[w].at = at
          /\ \A v \in Task \ {w} : work'[v] = work[v]
        BY <1>4, BeginsWork
    <2>2. SUFFICES ASSUME NEW c \in ClansPart!ClanId, Joined(c)', owner'[c] # Nobody
                   PROVE  Stays(c, owner[c])'
        BY DEF OwnersStay
    <2>3. Joined(c)
        BY <1>4, <2>1, <2>2 DEF Joined
    <2>4. Stays(c, owner[c])
        BY <1>4, <2>3, <2>2 DEF OwnersStay
    <2>5. QED  BY <1>4, <2>1, <2>4 DEF Stays, ClansPart!Online, At
<1>5. ASSUME NEW w \in Task, NEW u \in User, ClansPart!clan_leave(w, u)  PROVE OwnersStay'
    <2>1. player[u].clan \in ClansPart!ClanId /\ player[u] = [clan |-> player[u].clan, leads |-> FALSE]
        <3>1. player[u] \in Member(founded) /\ player[u].clan # NoClan /\ player[u].leads = FALSE
            BY <1>5, Members DEF ClansPart!clan_leave, DataKnown, Member
        <3>2. QED  BY <3>1 DEF Member, Known, DataKnown, ClansPart!ClanId
    <2>2. /\ work'[w].at = "leave" /\ work'[w].user = u /\ work'[w].clan = player[u].clan
          /\ \A v \in Task \ {w} : work'[v] = work[v]
        BY <1>5, <2>1, BeginsWork DEF ClansPart!clan_leave
    <2>3. member_ids' = member_ids \ {u} /\ UNCHANGED <<owner, users, player>> /\ ClansPart!Online(u)
          /\ player[u].clan # NoClan /\ ~player[u].leads
        BY <1>5 DEF ClansPart!clan_leave
    <2>4. SUFFICES ASSUME NEW c \in ClansPart!ClanId, Joined(c)', owner'[c] # Nobody
                   PROVE  Stays(c, owner[c])'
        BY DEF OwnersStay
    <2>5. Joined(c)
        BY <2>1, <2>2, <2>3, <2>4, ZenonT(30) DEF Joined
    <2>6. Stays(c, owner[c])
        BY <2>3, <2>5, <2>4 DEF OwnersStay
    <2>7. QED
        <3>1. owner[c] # u
            BY <2>3, <2>6 DEF Stays
        <3>2. QED  BY <2>2, <2>3, <2>6, <3>1 DEF Stays, ClansPart!Online, At
<1>6. ASSUME NEW w \in Task, NEW u \in User, ClansPart!login(w, u)  PROVE OwnersStay'
    <2>1. users[u] \in Member(founded) /\ users[u].clan \in ClansPart!ClanId \cup {NoClan}
        <3>1. users[u] \in Member(founded)
            BY DEF DataKnown
        <3>2. QED  BY <3>1 DEF Member, Known, DataKnown, ClansPart!ClanId
    <2>2. /\ work'[w].at = "login" /\ work'[w].user = u /\ work'[w].clan = users[u].clan /\ work'[w].leads = users[u].leads
          /\ \A v \in Task \ {w} : work'[v] = work[v]
        BY <1>6, <2>1, BeginsWork DEF ClansPart!login
    <2>3. UNCHANGED <<owner, users, player, member_ids>>
        BY <1>6 DEF ClansPart!login
    <2>4. SUFFICES ASSUME NEW c \in ClansPart!ClanId, Joined(c)', owner'[c] # Nobody
                   PROVE  Stays(c, owner[c])'
        BY DEF OwnersStay
    <2>5. Joined(c)
        <3>1. work'[w].clan = c /\ ~work'[w].leads => users[u] = [clan |-> c, leads |-> FALSE]
            BY <2>1, <2>2 DEF Member
        <3>2. QED  BY <2>2, <2>3, <2>4, <3>1 DEF Joined
    <2>6. Stays(c, owner[c])
        BY <2>3, <2>5, <2>4 DEF OwnersStay
    <2>7. QED  BY <2>2, <2>3, <2>6 DEF Stays, ClansPart!Online, At
<1>7. ASSUME NEW w \in Task, ClansPart!CreateInserts(w)  PROVE OwnersStay'
    <2>1. CASE ClansPart!Done(w) /\ UNCHANGED <<founded, owner, clans, member_ids, player>>
        <3>1. work'[w].at = "still" /\ (\A v \in Task \ {w} : work'[v] = work[v]) /\ users' = users
            BY <1>7, <2>1, DoneWork DEF ClansPart!CreateInserts
        <3>2. SUFFICES ASSUME NEW c \in ClansPart!ClanId, Joined(c)', owner'[c] # Nobody
                       PROVE  Stays(c, owner[c])'
            BY DEF OwnersStay
        <3>3. Joined(c)
            BY <2>1, <3>1, <3>2 DEF Joined
        <3>4. Stays(c, owner[c])
            BY <2>1, <3>3, <3>2 DEF OwnersStay
        <3>5. QED  BY <2>1, <3>1, <3>4 DEF Stays, ClansPart!Online, At
    <2>2. CASE /\ founded # MaxClans /\ \A c \in ClansPart!Stored : owner[c] # work[w].user
               /\ founded' = founded + 1
               /\ owner' = [owner EXCEPT ![founded'] = work[w].user]
               /\ clans' = clans \cup {founded'} /\ member_ids' = member_ids \cup {work[w].user}
               /\ ClansPart!Tells(w, [clan |-> founded', leads |-> TRUE])
               /\ ClansPart!Moves(w, "founded", founded')
        <3> DEFINE u == work[w].user
                   new == founded'
        <3>1. new \in ClansPart!ClanId /\ new \notin Known(founded) /\ work[w].at = "insert"
            BY <1>7, <2>2 DEF ClansPart!CreateInserts, DataKnown, ClansPart!ClanId, Known
        <3>2. /\ work'[w].at = "founded" /\ work'[w].user = u
              /\ \A v \in Task \ {w} : work'[v] = work[v]
            BY <2>2, <3>1, MovesWork
        <3>3. u \in User
            BY <3>1, WorkAt DEF WorkType
        <3>4. /\ users' = users /\ member_ids \subseteq member_ids'
              /\ \A v \in User \ {u} : player'[v] = player[v]
              /\ player'[u] \in {player[u], [clan |-> new, leads |-> TRUE]}
              /\ owner'[new] = u /\ \A c \in ClansPart!ClanId \ {new} : owner'[c] = owner[c]
            BY <1>7, <2>2, <3>1, <3>3 DEF ClansPart!CreateInserts, ClansPart!Tells, DataKnown
        <3>5. Nobody \notin Known(founded') /\ ~Joined(new)
            <4>1. \A v \in User : users[v].clan # new /\ player[v].clan # new
                <5>1. ClansPart!Offline.clan # new
                    BY <3>1 DEF ClansPart!Offline
                <5>2. QED  BY <3>1, <5>1, Members DEF ClansPart!Online, DataKnown
            <4>2. \A v \in Task : work[v].at # "still" => work[v].clan # new
                BY <3>1 DEF WorkKnown
            <4>3. Nobody \notin Known(founded')
                BY <3>1, <2>2 DEF Known, ClansPart!ClanId, DataKnown
            <4> HIDE DEF new
            <4>4. ~Joined(new)
                BY <4>1, <4>2 DEF Joined
            <4>5. QED  BY <4>3, <4>4
        <3> HIDE DEF u, new
        <3>6. SUFFICES ASSUME NEW c \in ClansPart!ClanId, Joined(c)', owner'[c] # Nobody
                       PROVE  Stays(c, owner[c])'
            BY DEF OwnersStay
        <3>7. Joined(c)
            BY <3>2, <3>4, <3>6, NotJoining, ZenonT(30) DEF Joined
        <3>8. c # new
            BY <3>5, <3>7
        <3>9. owner'[c] = owner[c]
            BY <3>4, <3>8
        <3>10. owner[c] # u
            BY <2>2, <3>6, <3>9 DEF ClansPart!Stored, u
        <3>11. Stays(c, owner[c])
            BY <3>7, <3>9, <3>6 DEF OwnersStay
        <3>12. QED
            <4>1. owner[c] \in User
                BY <3>6, <3>9 DEF DataKnown
            <4>2. QED  BY <3>2, <3>4, <3>9, <3>10, <3>11, <4>1 DEF Stays, ClansPart!Online, At
    <2>3. QED  BY <1>7, <2>1, <2>2 DEF ClansPart!CreateInserts
<1>8. ASSUME NEW w \in Task, ClansPart!CreateUpdates(w)  PROVE OwnersStay'
    <2>1. /\ work'[w].at = "still" /\ (\A v \in Task \ {w} : work'[v] = work[v])
          /\ work[w].at = "founded" /\ work[w].user \in User /\ UNCHANGED <<owner, member_ids, player>>
          /\ users' = [users EXCEPT ![work[w].user] = [clan |-> work[w].clan, leads |-> TRUE]]
        BY <1>8, DoneWork, WorkAt DEF ClansPart!CreateUpdates, WorkType
    <2>2. SUFFICES ASSUME NEW c \in ClansPart!ClanId, Joined(c)', owner'[c] # Nobody
                   PROVE  Stays(c, owner[c])'
        BY DEF OwnersStay
    <2>3. Joined(c)
        BY <2>1, <2>2 DEF Joined, DataKnown
    <2>4. Stays(c, owner[c])
        BY <2>1, <2>3, <2>2 DEF OwnersStay
    <2>5. QED
        <3>1. owner[c] # work[w].user
            BY <2>1, <2>4 DEF Stays, At
        <3>2. QED  BY <2>1, <2>4, <3>1 DEF Stays, ClansPart!Online, At, DataKnown
<1>9. ASSUME NEW w \in Task, ClansPart!DisbandDeletes(w)  PROVE OwnersStay'
    <2>1. work[w].clan \in ClansPart!ClanId /\ work[w].at = "disband"
        BY <1>9 DEF ClansPart!DisbandDeletes, WorkKnown, DataKnown, Known, ClansPart!ClanId
    <2>2. /\ work'[w].at = "reset" /\ (\A v \in Task \ {w} : work'[v] = work[v])
          /\ UNCHANGED <<member_ids, users>>
          /\ \A v \in User : player'[v] = IF ClansPart!Online(v) /\ v \in member_ids THEN ClansPart!Outside ELSE player[v]
          /\ owner' = [owner EXCEPT ![work[w].clan] = Nobody]
        BY <1>9, <2>1, MovesWork DEF ClansPart!DisbandDeletes
    <2>3. SUFFICES ASSUME NEW c \in ClansPart!ClanId, Joined(c)', owner'[c] # Nobody
                   PROVE  Stays(c, owner[c])'
        BY DEF OwnersStay
    <2>4. Joined(c)
        BY <2>2, <2>3, NotJoining DEF Joined
    <2>5. owner'[c] = owner[c]
        BY <2>1, <2>2, <2>3 DEF DataKnown
    <2>6. Stays(c, owner[c])
        BY <2>4, <2>5, <2>3 DEF OwnersStay
    <2>7. QED
        <3>1. owner[c] \in User
            BY <2>3, <2>5 DEF DataKnown
        <3>2. QED  BY <2>2, <2>5, <2>6, <3>1 DEF Stays, ClansPart!Online, At, ClansPart!Outside
<1>10. ASSUME NEW w \in Task, ClansPart!DisbandResets(w)  PROVE OwnersStay'
    <2>1. /\ work'[w].at = "still" /\ (\A v \in Task \ {w} : work'[v] = work[v])
          /\ UNCHANGED <<owner, member_ids, player>>
          /\ work[w].at = "reset"
          /\ \A u \in User : users'[u] = IF users[u].clan = work[w].clan THEN ClansPart!Outside ELSE users[u]
        BY <1>10, DoneWork DEF ClansPart!DisbandResets, ClansPart!Reset
    <2>2. SUFFICES ASSUME NEW c \in ClansPart!ClanId, Joined(c)', owner'[c] # Nobody
                   PROVE  Stays(c, owner[c])'
        BY DEF OwnersStay
    <2>3. Joined(c)
        BY <2>1, <2>2, NotJoining DEF Joined
    <2>4. Stays(c, owner[c])
        BY <2>1, <2>3, <2>2 DEF OwnersStay
    <2>5. QED
        <3>1. c # work[w].clan
            BY <2>1, <2>2 DEF MemoryHasStored
        <3>2. owner[c] \in User
            BY <2>1, <2>2 DEF DataKnown
        <3>3. QED  BY <2>1, <2>4, <3>1, <3>2 DEF Stays, ClansPart!Online, At
<1>11. ASSUME NEW w \in Task, ClansPart!LeaveUpdates(w)  PROVE OwnersStay'
    <2>1. /\ work'[w].at = "still" /\ (\A v \in Task \ {w} : work'[v] = work[v])
          /\ work[w].at = "leave" /\ work[w].user \in User /\ work[w].clan \in ClansPart!ClanId /\ UNCHANGED member_ids
          /\ users' = [users EXCEPT ![work[w].user] = ClansPart!Outside]
          /\ owner' \in {owner, [owner EXCEPT ![work[w].clan] = Nobody]}
          /\ player' \in {player, [player EXCEPT ![work[w].user] = ClansPart!Outside]}
        <3>1. work[w].at = "leave" /\ work[w].user \in User /\ work[w].clan \in ClansPart!ClanId
            BY <1>11, WorkAt DEF ClansPart!LeaveUpdates, WorkType, WorkKnown
        <3>2. QED  BY <1>11, <3>1, DoneWork DEF ClansPart!LeaveUpdates, ClansPart!Tells
    <2>2. SUFFICES ASSUME NEW c \in ClansPart!ClanId, Joined(c)', owner'[c] # Nobody
                   PROVE  Stays(c, owner[c])'
        BY DEF OwnersStay
    <2>3. Joined(c)
        <3>1. \A u \in User : users'[u] \in {users[u], ClansPart!Outside} /\ player'[u] \in {player[u], ClansPart!Outside}
            BY <2>1 DEF DataKnown
        <3>2. QED  BY <2>1, <2>2, <3>1, NotJoining, ZenonT(30) DEF Joined
    <2>4. owner'[c] = owner[c]
        BY <2>1, <2>2 DEF DataKnown
    <2>5. Stays(c, owner[c])
        BY <2>3, <2>4, <2>2 DEF OwnersStay
    <2>6. QED
        <3>1. owner[c] # work[w].user
            BY <2>1, <2>5 DEF Stays, At
        <3>2. QED  BY <2>1, <2>4, <2>5, <3>1 DEF Stays, ClansPart!Online, At, DataKnown
<1>12. ASSUME NEW w \in Task, ClansPart!LoginEnds(w)  PROVE OwnersStay'
    <2>1. /\ work'[w].at = "still" /\ (\A v \in Task \ {w} : work'[v] = work[v])
          /\ work[w].at = "login" /\ work[w].user \in User /\ UNCHANGED <<member_ids, users, owner>>
          /\ player' = [player EXCEPT ![work[w].user] =
                IF work[w].clan \in clans THEN [clan |-> work[w].clan, leads |-> work[w].leads] ELSE ClansPart!Outside]
        BY <1>12, DoneWork, WorkAt DEF ClansPart!LoginEnds, WorkType
    <2>2. SUFFICES ASSUME NEW c \in ClansPart!ClanId, Joined(c)', owner'[c] # Nobody
                   PROVE  Stays(c, owner[c])'
        BY DEF OwnersStay
    <2>3. Joined(c)
        BY <2>1, <2>2, ZenonT(30) DEF Joined, ClansPart!Outside, ClansPart!ClanId, DataKnown
    <2>4. Stays(c, owner[c])
        BY <2>1, <2>3, <2>2 DEF OwnersStay
    <2>5. QED
        <3>1. owner[c] = work[w].user => work[w].leads
            BY <2>1, <2>4 DEF Stays, At
        <3>2. QED  BY <2>1, <2>4, <3>1 DEF Stays, ClansPart!Online, At, DataKnown, ClansPart!Outside
<1>13. ASSUME NEW w \in Task, NEW u \in User, NEW d \in ClansPart!ClanId, ClansPart!clan_create(w, u) \/ ClansPart!clan_disband(w, u, d)  PROVE OwnersStay'
    BY <1>4, <1>13 DEF ClansPart!clan_create, ClansPart!clan_disband
<1>14. ASSUME NEW w \in Task, NEW u \in User, ClansPart!clan_create(w, u)  PROVE OwnersStay'
    BY <1>4, <1>14 DEF ClansPart!clan_create
<1>15. QED  BY <1>1, <1>2, <1>3, <1>5, <1>6, <1>7, <1>8, <1>9, <1>10, <1>11, <1>12, <1>13, <1>14 DEF ClansPart!ClansNext, ClansPart!WorkNext

-----------------------------------------------------------------------------
(* Memory has the stored clans, and those that are being disbanded.         *)

\* What follows if w alone moves on.
LEMMA MemoryKeeps ==
    ASSUME MemoryHasStored, NEW w \in Task, UNCHANGED <<owner, clans>>,
           \A v \in Task \ {w} : work'[v] = work[v], work[w].at # "reset", work'[w].at # "reset"
    PROVE  MemoryHasStored'
BY DEF MemoryHasStored, ClansPart!Stored

LEMMA MemoryNext ==
    ASSUME DataKnown, WorkKnown, MemoryHasStored, OwnersStay, [ClansPart!ClansNext]_(ClansPart!cvars), ~cut'
    PROVE  MemoryHasStored'
<1> USE ClansAssumption
<1>1. CASE UNCHANGED ClansPart!cvars
    BY <1>1 DEF ClansPart!cvars, MemoryHasStored, ClansPart!Stored
<1>2. CASE ClansPart!prepare
    BY <1>2 DEF ClansPart!prepare, MemoryHasStored, ClansPart!Stored, ClansPart!Still
<1>3. ASSUME NEW u \in User, ClansPart!logout(u)  PROVE MemoryHasStored'
    <2>1. \A w \in Task : work'[w].at = work[w].at /\ (work[w].at # "still" => work'[w].clan = work[w].clan)
        BY <1>3, LogoutWork, WorkAt
    <2>2. QED  BY <1>3, <2>1 DEF ClansPart!logout, MemoryHasStored, ClansPart!Stored
<1>4. ASSUME NEW w \in Task, NEW u \in User, NEW d \in ClansPart!ClanId \cup {NoClan},
             NEW at \in {"insert", "disband", "leave", "login"}, ClansPart!Begins(w, at, u, d), UNCHANGED <<owner, clans>>
      PROVE  MemoryHasStored'
    <2>1. work[w].at = "still" /\ work'[w].at = at /\ \A v \in Task \ {w} : work'[v] = work[v]
        BY <1>4, BeginsWork
    <2>2. QED  BY <1>4, <2>1, MemoryKeeps
<1>5. ASSUME NEW w \in Task, NEW u \in User, NEW d \in ClansPart!ClanId,
             ClansPart!clan_create(w, u) \/ ClansPart!clan_leave(w, u) \/ ClansPart!login(w, u) \/ ClansPart!clan_disband(w, u, d)
      PROVE  MemoryHasStored'
    <2>1. users[u].clan \in ClansPart!ClanId \cup {NoClan} /\ (ClansPart!Online(u) => player[u].clan \in ClansPart!ClanId \cup {NoClan})
        BY Members DEF DataKnown, Known, ClansPart!ClanId
    <2>2. CASE ClansPart!clan_create(w, u)
        BY <1>4, <2>2 DEF ClansPart!clan_create
    <2>3. CASE ClansPart!clan_leave(w, u)
        BY <1>4, <2>1, <2>3 DEF ClansPart!clan_leave
    <2>4. CASE ClansPart!login(w, u)
        BY <1>4, <2>1, <2>4 DEF ClansPart!login
    <2>5. CASE ClansPart!clan_disband(w, u, d)
        BY <1>4, <2>5 DEF ClansPart!clan_disband
    <2>6. QED  BY <1>5, <2>2, <2>3, <2>4, <2>5
<1>6. ASSUME NEW w \in Task, ClansPart!CreateInserts(w)  PROVE MemoryHasStored'
    <2>1. work[w].at = "insert"
        BY <1>6 DEF ClansPart!CreateInserts
    <2>2. CASE ClansPart!Done(w) /\ UNCHANGED <<owner, clans>>
        BY <2>1, <2>2, DoneWork, MemoryKeeps
    <2>3. CASE /\ founded # MaxClans /\ founded' = founded + 1
               /\ owner' = [owner EXCEPT ![founded'] = work[w].user]
               /\ clans' = clans \cup {founded'}
               /\ ClansPart!Moves(w, "founded", founded')
        <3>1. founded' \in ClansPart!ClanId /\ founded' \notin Known(founded)
            BY <2>3 DEF DataKnown, ClansPart!ClanId, Known
        <3>2. work'[w].at = "founded" /\ \A v \in Task \ {w} : work'[v] = work[v]
            BY <2>1, <2>3, <3>1, MovesWork
        <3>3. work[w].user # Nobody
            BY <2>1, WorkAt DEF WorkType
        <3>4. ClansPart!Stored' = ClansPart!Stored \cup {founded'}
            BY <2>3, <3>1, <3>3 DEF ClansPart!Stored, DataKnown
        <3>5. ASSUME NEW v \in Task, work'[v].at = "reset"  PROVE owner'[work'[v].clan] = Nobody
            <4>1. v # w /\ work'[v] = work[v] /\ work[v].clan \in Known(founded) /\ work[v].clan # NoClan
                BY <3>2, <3>5 DEF WorkKnown
            <4>2. work[v].clan \in ClansPart!ClanId /\ work[v].clan # founded'
                BY <3>1, <4>1 DEF Known, DataKnown, ClansPart!ClanId
            <4>3. QED  BY <2>3, <3>5, <4>1, <4>2 DEF MemoryHasStored, DataKnown
        <3>6. ASSUME NEW c \in clans'  PROVE c \in ClansPart!Stored' \/ \E v \in Task : work'[v].at = "reset" /\ work'[v].clan = c
            <4>1. CASE c = founded'
                BY <3>4, <4>1
            <4>2. CASE c \in clans
                <5>1. c \in ClansPart!Stored \/ \E v \in Task : work[v].at = "reset" /\ work[v].clan = c
                    BY <4>2 DEF MemoryHasStored
                <5>2. QED  BY <2>1, <3>2, <3>4, <5>1
            <4>3. QED  BY <2>3, <4>1, <4>2
        <3>7. ClansPart!Stored' \subseteq clans'
            BY <2>3, <3>4 DEF MemoryHasStored
        <3>8. QED  BY <3>5, <3>6, <3>7 DEF MemoryHasStored
    <2>4. QED  BY <1>6, <2>2, <2>3 DEF ClansPart!CreateInserts
<1>7. ASSUME NEW w \in Task, ClansPart!CreateUpdates(w) \/ ClansPart!LoginEnds(w)  PROVE MemoryHasStored'
    <2>1. ClansPart!Done(w) /\ UNCHANGED <<owner, clans>> /\ work[w].at # "reset"
        BY <1>7 DEF ClansPart!CreateUpdates, ClansPart!LoginEnds
    <2>2. QED  BY <2>1, DoneWork, MemoryKeeps
<1>8. ASSUME NEW w \in Task, ClansPart!DisbandDeletes(w)  PROVE MemoryHasStored'
    <2>1. work[w].clan \in ClansPart!ClanId /\ work[w].at = "disband"
        BY <1>8 DEF ClansPart!DisbandDeletes, WorkKnown, DataKnown, Known, ClansPart!ClanId
    <2>2. /\ work'[w].at = "reset" /\ work'[w].clan = work[w].clan /\ (\A v \in Task \ {w} : work'[v] = work[v])
          /\ owner' = [owner EXCEPT ![work[w].clan] = Nobody] /\ clans' = clans
        BY <1>8, <2>1, MovesWork DEF ClansPart!DisbandDeletes
    <2>3. ClansPart!Stored' = ClansPart!Stored \ {work[w].clan}
        BY <2>1, <2>2 DEF ClansPart!Stored, DataKnown
    <2>4. \A v \in Task : work'[v].at = "reset" => owner'[work'[v].clan] = Nobody
        <3>1. ASSUME NEW v \in Task \ {w}, work'[v].at = "reset"  PROVE owner'[work'[v].clan] = Nobody
            <4>1. work[v].clan \in ClansPart!ClanId /\ work[v].at = "reset" /\ work'[v] = work[v]
                BY <2>2, <3>1 DEF WorkKnown, DataKnown, Known, ClansPart!ClanId
            <4>2. QED  BY <2>2, <4>1 DEF MemoryHasStored, DataKnown
        <3>2. owner'[work'[w].clan] = Nobody
            BY <2>1, <2>2 DEF DataKnown
        <3>3. QED  BY <3>1, <3>2
    <2>5. QED  BY <2>1, <2>2, <2>3, <2>4 DEF MemoryHasStored
<1>9. ASSUME NEW w \in Task, ClansPart!DisbandResets(w)  PROVE MemoryHasStored'
    <2>1. /\ work'[w].at = "still" /\ (\A v \in Task \ {w} : work'[v] = work[v]) /\ work[w].at = "reset"
          /\ owner' = owner /\ clans' = clans \ {work[w].clan}
        BY <1>9, DoneWork DEF ClansPart!DisbandResets
    <2>2. QED  BY <2>1 DEF MemoryHasStored, ClansPart!Stored
<1>10. ASSUME NEW w \in Task, ClansPart!LeaveUpdates(w)  PROVE MemoryHasStored'
    <2>1. work[w].at = "leave" /\ work[w].clan \in ClansPart!ClanId /\ ClansPart!Done(w) /\ clans' = clans
          /\ owner' = IF member_ids = {} THEN [owner EXCEPT ![work[w].clan] = Nobody] ELSE owner
        BY <1>10 DEF ClansPart!LeaveUpdates, WorkKnown, DataKnown, Known, ClansPart!ClanId
    <2>2. owner[work[w].clan] # Nobody => owner[work[w].clan] \in member_ids
        BY <2>1 DEF OwnersStay, Joined, Stays
    <2>3. owner' = owner
        BY <2>1, <2>2 DEF DataKnown
    <2>4. QED  BY <2>1, <2>3, DoneWork, MemoryKeeps
<1>11. 1 \in ClansPart!ClanId
    BY DEF ClansPart!ClanId
<1>12. QED  BY <1>1, <1>2, <1>3, <1>5, <1>6, <1>7, <1>8, <1>9, <1>10, <1>11 DEF ClansPart!ClansNext, ClansPart!WorkNext

-----------------------------------------------------------------------------
(* What users, players and commands agree on while one is under way.        *)

LEMMA AgreeInit == ClansPart!ClansInit => OneWork /\ UsersAgree /\ WorkAgrees
<1> SUFFICES ASSUME ClansPart!ClansInit  PROVE OneWork /\ UsersAgree /\ WorkAgrees
    OBVIOUS
<1>1. PICK u \in User, others \in SUBSET User, some \in {0, 1} :
          /\ founded = some
          /\ owner = [c \in ClansPart!ClanId |-> IF c \in 1..some THEN u ELSE Nobody]
          /\ users = [v \in User |-> IF some = 1 /\ v \in others \cup {u}
                                     THEN [clan |-> 1, leads |-> (v = u)] ELSE ClansPart!Outside]
          /\ clans = 1..some
          /\ member_ids = IF some = 1 THEN others \cup {u} ELSE {}
    BY DEF ClansPart!ClansInit
<1>2. player = [v \in User |-> ClansPart!Offline] /\ \A w \in Task : work[w].at = "still"
    BY DEF ClansPart!ClansInit, ClansPart!Still
<1>3. ASSUME NEW v \in User  PROVE RowTrue(v) /\ (users[v].clan # NoClan => v \in member_ids)
    <2>1. CASE some = 1 /\ v \in others \cup {u}
        <3>1. users[v].clan = 1 /\ (users[v].leads <=> v = u) /\ v \in member_ids
            BY <1>1, <2>1
        <3>2. 1 \in ClansPart!Stored /\ (owner[1] = v <=> v = u)
            BY <1>1, <2>1, ClansAssumption DEF ClansPart!Stored, ClansPart!ClanId
        <3>3. QED  BY <3>1, <3>2 DEF RowTrue
    <2>2. CASE ~(some = 1 /\ v \in others \cup {u})
        <3>1. users[v].clan = NoClan /\ ~users[v].leads
            BY <1>1, <2>2 DEF ClansPart!Outside
        <3>2. QED  BY <3>1, ClansAssumption DEF RowTrue, ClansPart!Stored
    <2>3. QED  BY <2>1, <2>2
<1>4. QED  BY <1>2, <1>3 DEF OneWork, UsersAgree, WorkAgrees, ClansPart!Online

LEMMA OneWorkNext ==
    ASSUME DataKnown, WorkKnown, OneWork, [ClansPart!ClansNext]_(ClansPart!cvars), ~met'
    PROVE  OneWork' /\ ~met
<1> USE ClansAssumption
<1>1. CASE UNCHANGED ClansPart!cvars
    BY <1>1 DEF ClansPart!cvars, OneWork
<1>2. CASE ClansPart!prepare
    BY <1>2 DEF ClansPart!prepare, OneWork, ClansPart!Still
<1>3. ASSUME NEW u \in User, ClansPart!logout(u)  PROVE OneWork' /\ ~met
    <2>1. \A w \in Task : work'[w].at = work[w].at
        BY <1>3, LogoutWork
    <2>2. QED  BY <1>3, <2>1 DEF ClansPart!logout, OneWork
<1>4. ASSUME NEW w \in Task, NEW u \in User, NEW d \in ClansPart!ClanId \cup {NoClan},
             NEW at \in {"insert", "disband", "leave", "login"}, ClansPart!Begins(w, at, u, d)
      PROVE  OneWork' /\ ~met
    <2>1. (\A v \in Task \ {w} : work'[v] = work[v]) /\ ~met /\ \A v \in Task : work[v].at = "still"
        BY <1>4, BeginsWork
    <2>2. QED  BY <2>1 DEF OneWork
<1>5. ASSUME NEW w \in Task, NEW u \in User, ClansPart!clan_create(w, u) \/ ClansPart!clan_leave(w, u) \/ ClansPart!login(w, u)
      PROVE  OneWork' /\ ~met
    <2>1. users[u].clan \in ClansPart!ClanId \cup {NoClan} /\ (ClansPart!Online(u) => player[u].clan \in ClansPart!ClanId \cup {NoClan})
        BY Members DEF DataKnown, Known, ClansPart!ClanId
    <2>2. CASE ClansPart!clan_create(w, u)
        BY <1>4, <2>2 DEF ClansPart!clan_create
    <2>3. CASE ClansPart!clan_leave(w, u)
        BY <1>4, <2>1, <2>3 DEF ClansPart!clan_leave
    <2>4. CASE ClansPart!login(w, u)
        BY <1>4, <2>1, <2>4 DEF ClansPart!login
    <2>5. QED  BY <1>5, <2>2, <2>3, <2>4
<1>6. ASSUME NEW w \in Task, NEW u \in User, NEW d \in ClansPart!ClanId, ClansPart!clan_disband(w, u, d)  PROVE OneWork' /\ ~met
    BY <1>4, <1>6 DEF ClansPart!clan_disband
<1>7. ASSUME NEW w \in Task, work[w].at # "still", \A v \in Task \ {w} : work'[v] = work[v], met' = met
      PROVE  OneWork' /\ ~met
    BY <1>7 DEF OneWork
<1>8. ASSUME NEW w \in Task, ClansPart!CreateInserts(w)  PROVE OneWork' /\ ~met
    <2>1. work[w].at # "still" /\ met' = met
        BY <1>8 DEF ClansPart!CreateInserts
    <2>2. CASE ClansPart!Done(w)
        BY <1>7, <2>1, <2>2, DoneWork
    <2>3. CASE founded # MaxClans /\ founded' = founded + 1 /\ ClansPart!Moves(w, "founded", founded')
        <3>1. founded' \in ClansPart!ClanId
            BY <2>3, ClansAssumption DEF DataKnown, ClansPart!ClanId
        <3>2. QED  BY <1>7, <2>1, <2>3, <3>1, MovesWork
    <2>4. QED  BY <1>8, <2>2, <2>3 DEF ClansPart!CreateInserts
<1>9. ASSUME NEW w \in Task, ClansPart!CreateUpdates(w) \/ ClansPart!DisbandResets(w) \/ ClansPart!LeaveUpdates(w) \/ ClansPart!LoginEnds(w)
      PROVE  OneWork' /\ ~met
    <2>1. work[w].at # "still" /\ met' = met /\ ClansPart!Done(w)
        BY <1>9 DEF ClansPart!CreateUpdates, ClansPart!DisbandResets, ClansPart!LeaveUpdates, ClansPart!LoginEnds
    <2>2. QED  BY <1>7, <2>1, DoneWork
<1>10. ASSUME NEW w \in Task, ClansPart!DisbandDeletes(w)  PROVE OneWork' /\ ~met
    <2>1. work[w].at = "disband" /\ work[w].clan \in ClansPart!ClanId /\ met' = met /\ ClansPart!Moves(w, "reset", work[w].clan)
        BY <1>10 DEF ClansPart!DisbandDeletes, WorkKnown, DataKnown, Known, ClansPart!ClanId
    <2>2. QED  BY <1>7, <2>1, MovesWork
<1>11. QED  BY <1>1, <1>2, <1>3, <1>5, <1>6, <1>8, <1>9, <1>10 DEF ClansPart!ClansNext, ClansPart!WorkNext

\* With nothing under way that has changed anything yet.
LEMMA Quiet ==
    ASSUME UsersAgree, \A w \in Task : work[w].at \in {"still", "insert", "disband", "login"}, NEW u \in User
    PROVE  /\ RowTrue(u)
           /\ ClansPart!Online(u) => player[u] \in {users[u], ClansPart!Outside}
           /\ users[u].clan # NoClan => u \in member_ids
BY DEF UsersAgree, At

\* A command begins.
LEMMA BeginsAgree ==
    ASSUME DataKnown, WorkKnown, OneWork, UsersAgree, WorkAgrees, ~met',
           NEW w \in Task, NEW u \in User, NEW d \in ClansPart!ClanId \cup {NoClan},
           NEW at \in {"insert", "disband", "leave", "login"}, ClansPart!Begins(w, at, u, d),
           UNCHANGED <<owner, users, player>>,
           member_ids' = member_ids \/ (at = "leave" /\ member_ids' = member_ids \ {u}),
           at = "login" => ~ClansPart!Online(u) /\ d = users[u].clan
    PROVE  UsersAgree' /\ WorkAgrees'
<1>1. /\ work'[w].at = at /\ work'[w].user = u /\ work'[w].clan = d
      /\ work'[w].leads = users[u].leads /\ work'[w].live
      /\ \A v \in Task \ {w} : work'[v] = work[v]
      /\ \A v \in Task : work[v].at = "still"
    BY BeginsWork
<1>2. UsersAgree'
    <2>1. \A v \in User : /\ RowTrue(v)
                          /\ ClansPart!Online(v) => player[v] \in {users[v], ClansPart!Outside}
                          /\ users[v].clan # NoClan => v \in member_ids
        BY <1>1, Quiet
    <2>2. \A v \in User : RowTrue(v)' /\ (ClansPart!Online(v)' <=> ClansPart!Online(v))
        BY <2>1 DEF RowTrue, ClansPart!Stored, ClansPart!Online
    <2>3. \A v \in User : users'[v].clan # NoClan => v \in member_ids' \/ \E x \in Task : At(x, "leave", v)'
        BY <1>1, <2>1 DEF At
    <2>4. QED  BY <2>1, <2>2, <2>3 DEF UsersAgree
<1>3. WorkAgrees'
    <2>1. users[u] = [clan |-> users[u].clan, leads |-> users[u].leads]
        BY Members DEF DataKnown, Member
    <2>2. QED  BY <1>1, <2>1 DEF WorkAgrees, ClansPart!Online
<1>4. QED  BY <1>2, <1>3

\* Nothing is under way any longer.
LEMMA StillAgrees ==
    ASSUME \A v \in Task : work'[v].at = "still",
           \A u \in User : /\ RowTrue(u)'
                           /\ ClansPart!Online(u)' => player'[u] \in {users'[u], ClansPart!Outside}
                           /\ users'[u].clan # NoClan => u \in member_ids'
    PROVE  UsersAgree' /\ WorkAgrees'
BY DEF UsersAgree, WorkAgrees

LEMMA OutsideIsTrue ==
    ASSUME NEW u \in User, users[u] = ClansPart!Outside
    PROVE  RowTrue(u)
BY ClansAssumption DEF RowTrue, ClansPart!Stored, ClansPart!Outside

LEMMA AgreeNext ==
    ASSUME DataKnown, WorkKnown, MemoryHasStored, OwnersStay, OneWork, UsersAgree, WorkAgrees,
           [ClansPart!ClansNext]_(ClansPart!cvars), ~cut', ~met'
    PROVE  UsersAgree' /\ WorkAgrees'
<1> USE ClansAssumption
<1>1. CASE UNCHANGED ClansPart!cvars
    BY <1>1 DEF ClansPart!cvars, UsersAgree, WorkAgrees, RowTrue, ClansPart!Stored, ClansPart!Online, At
<1>2. CASE ClansPart!prepare
    <2>1. \A w \in Task : work[w].at = "still" /\ work'[w].at = "still"
        BY <1>2, WorkAt DEF ClansPart!prepare, ClansPart!AtWork, ClansPart!Still
    <2>2. ASSUME NEW u \in User
          PROVE  /\ RowTrue(u)' /\ ~ClansPart!Online(u)'
                 /\ users'[u].clan # NoClan => u \in member_ids'
        <3>1. RowTrue(u)
            BY <2>1, Quiet
        <3>2. QED  BY <1>2, <3>1 DEF ClansPart!prepare, RowTrue, ClansPart!Stored, ClansPart!Online
    <2>3. QED  BY <2>1, <2>2, StillAgrees
<1>3. ASSUME NEW u \in User, ClansPart!logout(u)  PROVE UsersAgree' /\ WorkAgrees'
    <2>1. \A w \in Task :
            /\ work'[w].at = work[w].at
            /\ work[w].at # "still" =>
                  /\ work'[w].user = work[w].user /\ work'[w].clan = work[w].clan
                  /\ work'[w].leads = work[w].leads
                  /\ work[w].user # u => work'[w] = work[w]
        BY <1>3, LogoutWork, WorkAt
    <2>2. /\ UNCHANGED <<owner, users, member_ids>>
          /\ player'[u] = ClansPart!Offline /\ \A v \in User \ {u} : player'[v] = player[v]
        BY <1>3 DEF ClansPart!logout, DataKnown
    <2>3. \A v \in User : RowTrue(v)' <=> RowTrue(v)
        BY <2>2 DEF RowTrue, ClansPart!Stored
    <2>4. \A v \in User : ClansPart!Online(v)' <=> v # u /\ ClansPart!Online(v)
        BY <2>2 DEF ClansPart!Online
    <2>5. UsersAgree'
        BY <2>1, <2>2, <2>3, <2>4 DEF UsersAgree, At
    <2>6. WorkAgrees'
        <3>1. \A w \in Task : work[w].at # "still" => work[w].user \in User
            BY WorkAt DEF WorkType
        <3>2. QED  BY <2>1, <2>2, <2>4, <3>1 DEF WorkAgrees
    <2>7. QED  BY <2>5, <2>6
<1>4. ASSUME NEW w \in Task, NEW u \in User, ClansPart!clan_create(w, u) \/ ClansPart!clan_leave(w, u) \/ ClansPart!login(w, u)
      PROVE  UsersAgree' /\ WorkAgrees'
    <2>1. users[u].clan \in ClansPart!ClanId \cup {NoClan} /\ (ClansPart!Online(u) => player[u].clan \in ClansPart!ClanId \cup {NoClan})
        BY Members DEF DataKnown, Known, ClansPart!ClanId
    <2>2. CASE ClansPart!clan_create(w, u)
        BY <2>2, BeginsAgree DEF ClansPart!clan_create
    <2>3. CASE ClansPart!clan_leave(w, u)
        BY <2>1, <2>3, BeginsAgree DEF ClansPart!clan_leave
    <2>4. CASE ClansPart!login(w, u)
        BY <2>1, <2>4, BeginsAgree DEF ClansPart!login
    <2>5. QED  BY <1>4, <2>2, <2>3, <2>4
<1>5. ASSUME NEW w \in Task, NEW u \in User, NEW d \in ClansPart!ClanId, ClansPart!clan_disband(w, u, d)  PROVE UsersAgree' /\ WorkAgrees'
    BY <1>5, BeginsAgree DEF ClansPart!clan_disband
<1>6. ASSUME NEW w \in Task, ClansPart!CreateInserts(w)  PROVE UsersAgree' /\ WorkAgrees'
    <2>1. work[w].at = "insert" /\ users' = users /\ \A v \in Task \ {w} : work[v].at = "still"
        BY <1>6 DEF ClansPart!CreateInserts, OneWork
    <2>2. \A v \in User : /\ RowTrue(v)
                          /\ ClansPart!Online(v) => player[v] \in {users[v], ClansPart!Outside}
                          /\ users[v].clan # NoClan => v \in member_ids
        BY <2>1, Quiet
    <2>3. CASE ClansPart!Done(w) /\ UNCHANGED <<owner, member_ids, player>>
        <3>1. \A v \in Task : work'[v].at = "still"
            BY <2>1, <2>3, DoneWork
        <3>2. \A v \in User : RowTrue(v)' /\ (ClansPart!Online(v)' <=> ClansPart!Online(v))
            BY <2>1, <2>2, <2>3 DEF RowTrue, ClansPart!Stored, ClansPart!Online
        <3>3. QED  BY <2>1, <2>2, <2>3, <3>1, <3>2, StillAgrees
    <2>4. CASE /\ founded # MaxClans /\ founded' = founded + 1
               /\ owner' = [owner EXCEPT ![founded'] = work[w].user]
               /\ member_ids' = member_ids \cup {work[w].user}
               /\ ClansPart!Tells(w, [clan |-> founded', leads |-> TRUE])
               /\ ClansPart!Moves(w, "founded", founded')
        <3>0. PICK u \in User : u = work[w].user
            BY <2>1, WorkAt DEF WorkType
        <3>1. PICK new \in ClansPart!ClanId : new = founded' /\ new \notin Known(founded)
            BY <2>4 DEF DataKnown, ClansPart!ClanId, Known
        <3>2. /\ work'[w].at = "founded" /\ work'[w].user = u /\ work'[w].clan = new
              /\ \A v \in Task \ {w} : work'[v] = work[v]
            BY <2>1, <2>4, <3>0, <3>1, MovesWork
        <3>3. /\ owner'[new] = u /\ \A c \in ClansPart!ClanId \ {new} : owner'[c] = owner[c]
              /\ member_ids' = member_ids \cup {u}
              /\ \A v \in User \ {u} : player'[v] = player[v]
              /\ player'[u] = IF work[w].live THEN [clan |-> new, leads |-> TRUE] ELSE player[u]
              /\ owner[new] = Nobody
            BY <2>4, <3>0, <3>1 DEF ClansPart!Tells, DataKnown, Known
        <3>4. ClansPart!Online(u) => work[w].live
            BY <2>1, <3>0 DEF WorkAgrees
        <3>5. \A v \in User : users[v].clan # new
            BY <3>1, Members DEF DataKnown
        <3>6. \A v \in User : RowTrue(v)'
            <4>1. \A c \in ClansPart!ClanId : c \in ClansPart!Stored' <=> c \in ClansPart!Stored \/ c = new
                BY <3>1, <3>3 DEF ClansPart!Stored
            <4>2. \A c \in ClansPart!Stored : owner'[c] = owner[c] /\ c \in ClansPart!ClanId
                BY <3>3 DEF ClansPart!Stored
            <4>3. ASSUME NEW v \in User  PROVE RowTrue(v)'
                <5>1. users[v].clan # NoClan => users[v].clan \in ClansPart!Stored
                    BY <2>2 DEF RowTrue
                <5>2. (\E c \in ClansPart!Stored' : owner'[c] = v /\ users[v].clan = c) <=> \E c \in ClansPart!Stored : owner[c] = v /\ users[v].clan = c
                    BY <3>5, <4>1, <4>2 DEF ClansPart!Stored
                <5>3. users[v].clan # NoClan => users[v].clan \in ClansPart!Stored'
                    BY <4>1, <4>2, <5>1
                <5>4. QED  BY <2>1, <2>2, <5>2, <5>3 DEF RowTrue
            <4>4. QED  BY <4>3
        <3>7. UsersAgree'
            <4>1. \A v \in User \ {u} : ClansPart!Online(v)' <=> ClansPart!Online(v)
                BY <3>3 DEF ClansPart!Online
            <4>2. At(w, "founded", u)'
                BY <3>2 DEF At
            <4>3. QED  BY <2>1, <2>2, <3>3, <3>6, <4>1, <4>2 DEF UsersAgree
        <3>8. WorkAgrees'
            <4>1. ClansPart!Online(u)' => player'[u] = [clan |-> new, leads |-> TRUE]
                BY <3>3, <3>4 DEF ClansPart!Online
            <4>2. \A v \in Task \ {w} : work'[v].at = "still"
                BY <2>1, <3>2
            <4>3. owner'[new] = u /\ u \in member_ids'
                BY <3>3
            <4>4. ClansPart!Online(work[w].user)' => player'[work'[w].user] = [clan |-> new, leads |-> TRUE]
                BY <3>0, <3>2, <4>1 DEF ClansPart!Online
            <4>5. \A v \in Task : work'[v].at \notin {"insert", "leave", "reset", "login"}
                                  /\ (work'[v].at = "founded" => v = w)
                BY <3>2, <4>2
            <4>6. QED  BY <3>2, <4>3, <4>4, <4>5, ZenonT(30) DEF WorkAgrees
        <3>9. QED  BY <3>7, <3>8
    <2>5. QED  BY <1>6, <2>3, <2>4 DEF ClansPart!CreateInserts
<1>7. ASSUME NEW w \in Task, ClansPart!CreateUpdates(w)  PROVE UsersAgree' /\ WorkAgrees'
    <2>0. work[w].at = "founded" /\ work[w].user \in User /\ work[w].clan \in ClansPart!ClanId
        BY <1>7, WorkAt DEF ClansPart!CreateUpdates, WorkKnown, Known, DataKnown, ClansPart!ClanId, WorkType
    <2>9. PICK u \in User, c \in ClansPart!ClanId : u = work[w].user /\ c = work[w].clan
        BY <2>0
    <2>1. /\ work[w].at = "founded" /\ \A v \in Task \ {w} : work[v].at = "still"
          /\ UNCHANGED <<owner, member_ids, player>>
        BY <1>7, <2>0 DEF ClansPart!CreateUpdates, OneWork
    <2>2. \A v \in Task : work'[v].at = "still"
        BY <1>7, <2>1, DoneWork DEF ClansPart!CreateUpdates
    <2>3. users'[u] = [clan |-> c, leads |-> TRUE] /\ \A v \in User \ {u} : users'[v] = users[v]
        BY <1>7, <2>1, <2>9 DEF ClansPart!CreateUpdates, DataKnown
    <2>4. owner[c] = u /\ u \in member_ids /\ (ClansPart!Online(u) => player[u] = [clan |-> c, leads |-> TRUE])
        BY <2>1, <2>9 DEF WorkAgrees
    <2>5. RowTrue(u)'
        BY <2>1, <2>3, <2>4 DEF RowTrue, ClansPart!Stored
    <2>6. ASSUME NEW v \in User \ {u}
          PROVE  RowTrue(v)' /\ (ClansPart!Online(v)' => player'[v] \in {users'[v], ClansPart!Outside}) /\ (users'[v].clan # NoClan => v \in member_ids')
        <3>1. RowTrue(v) /\ (ClansPart!Online(v) => player[v] \in {users[v], ClansPart!Outside}) /\ (users[v].clan # NoClan => v \in member_ids)
            BY <2>1, <2>9 DEF UsersAgree, At
        <3>2. QED  BY <2>1, <2>3, <3>1 DEF RowTrue, ClansPart!Stored, ClansPart!Online
    <2>7. (ClansPart!Online(u)' => player'[u] \in {users'[u], ClansPart!Outside}) /\ (users'[u].clan # NoClan => u \in member_ids')
        BY <2>1, <2>3, <2>4 DEF ClansPart!Online
    <2>8. QED  BY <2>2, <2>5, <2>6, <2>7, StillAgrees
<1>8. ASSUME NEW w \in Task, ClansPart!DisbandDeletes(w)  PROVE UsersAgree' /\ WorkAgrees'
    <2> DEFINE c == work[w].clan
    <2>1. work[w].at = "disband" /\ c \in ClansPart!ClanId /\ c # NoClan /\ \A v \in Task \ {w} : work[v].at = "still"
        BY <1>8 DEF ClansPart!DisbandDeletes, OneWork, WorkKnown, Known, DataKnown, ClansPart!ClanId
    <2>2. /\ work'[w].at = "reset" /\ work'[w].clan = c /\ (\A v \in Task \ {w} : work'[v] = work[v])
          /\ owner' = [owner EXCEPT ![c] = Nobody] /\ UNCHANGED <<users, member_ids>>
          /\ \A v \in User : player'[v] = IF ClansPart!Online(v) /\ v \in member_ids THEN ClansPart!Outside ELSE player[v]
        BY <1>8, <2>1, MovesWork DEF ClansPart!DisbandDeletes
    <2>3. \A v \in User : /\ RowTrue(v)
                          /\ ClansPart!Online(v) => player[v] \in {users[v], ClansPart!Outside}
                          /\ users[v].clan # NoClan => v \in member_ids
        BY <2>1, Quiet
    <2>4. \A v \in User : ClansPart!Online(v)' => ClansPart!Online(v)
        BY <2>2 DEF ClansPart!Online
    <2> HIDE DEF c
    <2>5. ClansPart!Stored' = ClansPart!Stored \ {c} /\ \A d \in ClansPart!Stored' : owner'[d] = owner[d]
        BY <2>1, <2>2 DEF ClansPart!Stored, DataKnown
    <2>6. \A v \in User : users[v].clan # c => RowTrue(v)'
        BY <2>2, <2>3, <2>5 DEF RowTrue
    <2>7. UsersAgree'
        BY <2>1, <2>2, <2>3, <2>4, <2>6 DEF UsersAgree
    <2>8. WorkAgrees'
        BY <2>1, <2>2, <2>3, <2>4 DEF WorkAgrees
    <2>9. QED  BY <2>7, <2>8
<1>9. ASSUME NEW w \in Task, ClansPart!DisbandResets(w)  PROVE UsersAgree' /\ WorkAgrees'
    <2> DEFINE c == work[w].clan
    <2>1. /\ work[w].at = "reset" /\ \A v \in Task \ {w} : work[v].at = "still"
          /\ UNCHANGED <<owner, member_ids, player>>
          /\ \A u \in User : users'[u] = IF users[u].clan = c THEN ClansPart!Outside ELSE users[u]
        BY <1>9 DEF ClansPart!DisbandResets, OneWork, ClansPart!Reset
    <2>2. \A v \in Task : work'[v].at = "still"
        BY <1>9, <2>1, DoneWork DEF ClansPart!DisbandResets
    <2>3. ASSUME NEW u \in User
          PROVE  RowTrue(u)' /\ (ClansPart!Online(u)' => player'[u] \in {users'[u], ClansPart!Outside}) /\ (users'[u].clan # NoClan => u \in member_ids')
        <3>1. CASE users[u].clan = c
            <4>1. users'[u] = ClansPart!Outside
                BY <2>1, <3>1
            <4>2. RowTrue(u)'
                BY <4>1 DEF RowTrue, ClansPart!Stored, ClansPart!Outside
            <4>3. ClansPart!Online(u) => player[u] = ClansPart!Outside
                BY <2>1, <3>1 DEF WorkAgrees
            <4>4. QED  BY <2>1, <4>1, <4>2, <4>3 DEF ClansPart!Online, ClansPart!Outside
        <3>2. CASE users[u].clan # c
            <4>1. RowTrue(u) /\ (ClansPart!Online(u) => player[u] \in {users[u], ClansPart!Outside}) /\ (users[u].clan # NoClan => u \in member_ids)
                BY <2>1, <3>2 DEF UsersAgree, At
            <4>2. users'[u] = users[u]
                BY <2>1, <3>2
            <4>3. QED  BY <2>1, <4>1, <4>2 DEF RowTrue, ClansPart!Stored, ClansPart!Online
        <3>3. QED  BY <3>1, <3>2
    <2>4. QED  BY <2>2, <2>3, StillAgrees
<1>10. ASSUME NEW w \in Task, ClansPart!LeaveUpdates(w)  PROVE UsersAgree' /\ WorkAgrees'
    <2>0. work[w].at = "leave" /\ work[w].user \in User /\ work[w].clan \in ClansPart!ClanId
        BY <1>10, WorkAt DEF ClansPart!LeaveUpdates, WorkKnown, Known, DataKnown, ClansPart!ClanId, WorkType
    <2>9. PICK u \in User, c \in ClansPart!ClanId : u = work[w].user /\ c = work[w].clan
        BY <2>0
    <2>1. /\ work[w].at = "leave" /\ \A v \in Task \ {w} : work[v].at = "still"
          /\ member_ids' = member_ids
        BY <1>10, <2>0 DEF ClansPart!LeaveUpdates, OneWork
    <2>2. \A v \in Task : work'[v].at = "still"
        BY <1>10, <2>1, DoneWork DEF ClansPart!LeaveUpdates
    <2>3. owner[c] # Nobody => owner[c] \in member_ids
        BY <2>1, <2>9 DEF OwnersStay, Joined, Stays
    <2>4. owner' = owner
        BY <1>10, <2>3, <2>9 DEF ClansPart!LeaveUpdates, DataKnown
    <2>5. /\ users'[u] = ClansPart!Outside /\ \A v \in User \ {u} : users'[v] = users[v] /\ player'[v] = player[v]
          /\ player'[u] = IF work[w].live THEN ClansPart!Outside ELSE player[u]
        BY <1>10, <2>9 DEF ClansPart!LeaveUpdates, DataKnown, ClansPart!Tells
    <2>6. ClansPart!Online(u) => work[w].live
        BY <2>1, <2>9 DEF WorkAgrees
    <2>7. RowTrue(u)' /\ (ClansPart!Online(u)' => player'[u] = ClansPart!Outside) /\ users'[u].clan = NoClan
        BY <2>4, <2>5, <2>6 DEF RowTrue, ClansPart!Stored, ClansPart!Online, ClansPart!Outside
    <2>8. ASSUME NEW v \in User \ {u}
          PROVE  RowTrue(v)' /\ (ClansPart!Online(v)' => player'[v] \in {users'[v], ClansPart!Outside}) /\ (users'[v].clan # NoClan => v \in member_ids')
        <3>1. RowTrue(v) /\ (ClansPart!Online(v) => player[v] \in {users[v], ClansPart!Outside}) /\ (users[v].clan # NoClan => v \in member_ids)
            BY <2>1, <2>9 DEF UsersAgree, At
        <3>2. QED  BY <2>1, <2>4, <2>5, <3>1 DEF RowTrue, ClansPart!Stored, ClansPart!Online
    <2>10. QED  BY <2>2, <2>7, <2>8, StillAgrees
<1>11. ASSUME NEW w \in Task, ClansPart!LoginEnds(w)  PROVE UsersAgree' /\ WorkAgrees'
    <2>0. PICK u \in User : u = work[w].user
        BY <1>11, WorkAt DEF ClansPart!LoginEnds, WorkType
    <2>1. /\ work[w].at = "login" /\ (\A v \in Task \ {w} : work[v].at = "still")
          /\ UNCHANGED <<owner, users, member_ids>>
        BY <1>11 DEF ClansPart!LoginEnds, OneWork
    <2>2. \A v \in Task : work'[v].at = "still"
        BY <1>11, <2>1, DoneWork DEF ClansPart!LoginEnds
    <2>3. users[u] = [clan |-> work[w].clan, leads |-> work[w].leads]
        BY <2>0, <2>1 DEF WorkAgrees
    <2>4. player'[u] \in {users[u], ClansPart!Outside} /\ \A v \in User \ {u} : player'[v] = player[v]
        BY <1>11, <2>0, <2>3 DEF ClansPart!LoginEnds, DataKnown
    <2>5. \A v \in User : /\ RowTrue(v)
                          /\ ClansPart!Online(v) => player[v] \in {users[v], ClansPart!Outside}
                          /\ users[v].clan # NoClan => v \in member_ids
        BY <2>1, Quiet
    <2>6. \A v \in User : RowTrue(v)'
        BY <2>1, <2>5 DEF RowTrue, ClansPart!Stored
    <2>7. \A v \in User : ClansPart!Online(v)' => player'[v] \in {users'[v], ClansPart!Outside}
        BY <2>1, <2>4, <2>5 DEF ClansPart!Online
    <2>8. QED  BY <2>1, <2>2, <2>5, <2>6, <2>7, StillAgrees
<1>12. QED  BY <1>1, <1>2, <1>3, <1>4, <1>5, <1>6, <1>7, <1>8, <1>9, <1>10, <1>11 DEF ClansPart!ClansNext, ClansPart!WorkNext

-----------------------------------------------------------------------------
(* The invariant.                                                           *)

LEMMA ClansInitInv == ClansPart!ClansInit => ClansInv
BY KnownInit, OwnersInit, AgreeInit DEF ClansInv

LEMMA ClansNextInv == ClansInv /\ [ClansPart!ClansNext]_(ClansPart!cvars) => ClansInv'
<1> SUFFICES ASSUME ClansInv, [ClansPart!ClansNext]_(ClansPart!cvars)  PROVE ClansInv'
    OBVIOUS
<1>1. DataKnown' /\ WorkKnown'
    BY KnownNext DEF ClansInv
<1>2. ASSUME ~cut'  PROVE ~cut /\ MemoryHasStored' /\ OwnersStay'
    <2>1. ~cut
        BY <1>2 DEF ClansInv, ClansPart!ClansNext, ClansPart!WorkNext, ClansPart!cvars, ClansPart!prepare, ClansPart!logout, ClansPart!clan_create, ClansPart!clan_leave, ClansPart!login, ClansPart!clan_disband,
            ClansPart!CreateInserts, ClansPart!CreateUpdates, ClansPart!DisbandDeletes, ClansPart!DisbandResets, ClansPart!LeaveUpdates, ClansPart!LoginEnds
    <2>2. QED  BY <1>2, <2>1, MemoryNext, OwnersNext DEF ClansInv
<1>3. ASSUME ~cut', ~met'  PROVE OneWork' /\ UsersAgree' /\ WorkAgrees'
    <2>1. ~cut
        BY <1>2, <1>3
    <2>2. ~met
        BY <1>3 DEF ClansInv, ClansPart!ClansNext, ClansPart!WorkNext, ClansPart!cvars, ClansPart!prepare, ClansPart!logout, ClansPart!clan_create, ClansPart!clan_leave, ClansPart!login, ClansPart!clan_disband, ClansPart!Begins,
            ClansPart!CreateInserts, ClansPart!CreateUpdates, ClansPart!DisbandDeletes, ClansPart!DisbandResets, ClansPart!LeaveUpdates, ClansPart!LoginEnds
    <2>3. OneWork'
        BY <1>3, <2>1, <2>2, OneWorkNext DEF ClansInv
    <2>4. QED  BY <1>3, <2>1, <2>2, <2>3, AgreeNext DEF ClansInv
<1>4. QED  BY <1>1, <1>2, <1>3 DEF ClansInv

LEMMA ClansHold == ClansInv => ClansPart!ClansAgree
<1> SUFFICES ASSUME ClansInv, ClansPart!AtWork = {}, ~cut
             PROVE  /\ clans = ClansPart!Stored
                    /\ ~met => \A u \in User :
                          /\ users[u].clan # NoClan => users[u].clan \in ClansPart!Stored
                          /\ users[u].leads <=> \E c \in ClansPart!Stored : owner[c] = u /\ users[u].clan = c
                          /\ ClansPart!Online(u) => player[u] \in {users[u], ClansPart!Outside}
    BY DEF ClansPart!ClansAgree
<1>1. \A w \in Task : work[w].at = "still"
    BY WorkAt DEF ClansInv
<1>2. clans = ClansPart!Stored
    BY <1>1 DEF ClansInv, MemoryHasStored
<1>3. ASSUME ~met, NEW u \in User  PROVE RowTrue(u) /\ (ClansPart!Online(u) => player[u] \in {users[u], ClansPart!Outside})
    BY <1>1, <1>3, Quiet DEF ClansInv
<1>4. QED  BY <1>2, <1>3 DEF RowTrue

LEMMA ClansPartInv == Spec => [](part = "clans" => ClansInv)
<1>1. Init => (part = "clans" => ClansInv)
    BY ClansInitInv DEF Init
<1>2. (part = "clans" => ClansInv) /\ [Next]_contentVars => (part = "clans" => ClansInv)'
    <2>1. SUFFICES ASSUME part = "clans" => ClansInv, [Next]_contentVars, part' = "clans"
                   PROVE  ClansInv'
        OBVIOUS
    <2>2. part = "clans"
        BY <2>1 DEF Next, contentVars
    <2>3. [ClansPart!ClansNext]_(ClansPart!cvars)
        BY <2>1, <2>2 DEF Next, contentVars, clanVars, ClansPart!cvars
    <2>4. QED  BY <2>1, <2>2, <2>3, ClansNextInv
<1>3. QED  BY <1>1, <1>2, PTL DEF Spec

\* However many users, commands and clans there are: with nothing under way memory
\* has the stored clans, and users belong to stored clans and lead them if they
\* own them, unless a command was cut short or met another (clan.py, commands.py:2512).
THEOREM ClansAgreeAlways == Spec => []ClansAgree
<1>1. (part = "clans" => ClansInv) => ClansAgree
    BY ClansHold DEF ClansAgree
<1>2. QED  BY <1>1, ClansPartInv, PTL

-----------------------------------------------------------------------------
(* Map pools.                                                               *)

Order ==
    [at : {"insert", "select"}, name : Name] \cup [at : {"delete", "delete_maps"}, pool : PoolsPart!PoolId, id : PoolsPart!PoolId]
    \cup [at : {"add"}, pool : PoolsPart!PoolId, id : PoolsPart!PoolId, pick : Pick, map : BMap] \cup [at : {"remove"}, pool : PoolsPart!PoolId, pick : Pick]

PoolsType ==
    /\ ids \in 0..MaxPools /\ objects \in 0..MaxPools
    /\ tourney_pools \in [PoolsPart!PoolId -> Name \cup {NoPool}] /\ \A id \in PoolsPart!PoolId : tourney_pools[id] # NoPool => id <= ids
    /\ pools \in [PoolsPart!PoolId -> PoolsPart!MapPool \cup {NoPool}] /\ \A o \in PoolsPart!Cached : o <= objects
    /\ pool_maps \subseteq PoolsPart!MapRow /\ \A r \in pool_maps : r.pool <= ids
    /\ command \in [Task -> Order \cup {PoolsPart!Unused}]

Selecting(id) == id = ids /\ \E c \in Task : command[c].at = "select"
Deleting(id) == \E c \in Task : command[c].at = "delete_maps" /\ command[c].id = id

\* No two pools have a name, and no two objects a pool.
PoolsDistinct ==
    /\ \A i, j \in PoolsPart!PoolId : tourney_pools[i] = tourney_pools[j] /\ tourney_pools[i] # NoPool => i = j
    /\ \A o, p \in PoolsPart!Cached : pools[o].id = pools[p].id => o = p

\* Memory is behind by the pool that is being made or deleted.
PoolsMatch ==
    /\ \A id \in PoolsPart!PoolId : (\E o \in PoolsPart!Cached : pools[o].id = id)
                          <=> (tourney_pools[id] # NoPool /\ ~Selecting(id)) \/ Deleting(id)
    /\ \A o \in PoolsPart!Cached : Deleting(pools[o].id) \/ pools[o].name = tourney_pools[pools[o].id]

PicksMatch == \A o \in PoolsPart!Cached :
    /\ \A r \in pool_maps : r.pool = pools[o].id => <<r.pick, r.map>> \in pools[o].maps
    /\ spilled \/ \A p \in pools[o].maps : \E r \in pool_maps : r.pool = pools[o].id /\ p = <<r.pick, r.map>>

OneCommand == \A c, d \in Task : command[c] # PoolsPart!Unused /\ command[d] # PoolsPart!Unused => c = d

\* What a command has found out is still so.
CommandTrue == \A c \in Task : LET what == command[c] IN
    /\ what.at = "insert" => \A id \in PoolsPart!PoolId : tourney_pools[id] # what.name
    /\ what.at = "select" => ids # 0 /\ tourney_pools[ids] = what.name /\ \A r \in pool_maps : r.pool # ids
    /\ what.at \in {"delete", "delete_maps", "add"} => what.pool \in PoolsPart!Cached /\ pools[what.pool].id = what.id
    /\ what.at = "delete_maps" => tourney_pools[what.id] = NoPool
    /\ what.at = "add" => what.pick \notin PoolsPart!Picks(what.pool)
    /\ what.at = "remove" => what.pool \in PoolsPart!Cached

PoolsInv == ~clash =>
    /\ PoolsType
    /\ OneCommand /\ CommandTrue
    /\ PoolsDistinct /\ PoolsMatch /\ PicksMatch

-----------------------------------------------------------------------------
(* What the steps do to `command`.                                          *)

LEMMA CommandAt ==
    ASSUME PoolsType, NEW c \in Task
    PROVE  /\ command[c] = PoolsPart!Unused <=> command[c].at = "unused"
           /\ command[c].at \in {"unused", "insert", "select", "delete", "delete_maps", "add", "remove"}
           /\ command[c].at \in {"insert", "select"} => command[c] \in [at : {"insert", "select"}, name : Name]
           /\ command[c].at \in {"delete", "delete_maps"}
                => command[c] \in [at : {"delete", "delete_maps"}, pool : PoolsPart!PoolId, id : PoolsPart!PoolId]
           /\ command[c].at = "add"
                => command[c] \in [at : {"add"}, pool : PoolsPart!PoolId, id : PoolsPart!PoolId, pick : Pick, map : BMap]
           /\ command[c].at = "remove" => command[c] \in [at : {"remove"}, pool : PoolsPart!PoolId, pick : Pick]
<1>0. PoolsPart!Unused.at = "unused"
    BY DEF PoolsPart!Unused
<1>1. command[c] \in Order \cup {PoolsPart!Unused}
    BY DEF PoolsType
<1>2. CASE command[c] = PoolsPart!Unused
    BY <1>0, <1>2
<1>3. CASE command[c] \in [at : {"insert", "select"}, name : Name]
    <2>1. command[c].at \in {"insert", "select"}
        BY <1>3
    <2>2. command[c] # PoolsPart!Unused
        BY <2>1, <1>0
    <2>3. QED  BY <1>3, <2>1, <2>2
<1>4. CASE command[c] \in [at : {"delete", "delete_maps"}, pool : PoolsPart!PoolId, id : PoolsPart!PoolId]
    <2>1. command[c].at \in {"delete", "delete_maps"}
        BY <1>4
    <2>2. command[c] # PoolsPart!Unused
        BY <2>1, <1>0
    <2>3. QED  BY <1>4, <2>1, <2>2
<1>5. CASE command[c] \in [at : {"add"}, pool : PoolsPart!PoolId, id : PoolsPart!PoolId, pick : Pick, map : BMap]
    <2>1. command[c].at \in {"add"}
        BY <1>5
    <2>2. command[c] # PoolsPart!Unused
        BY <2>1, <1>0
    <2>3. QED  BY <1>5, <2>1, <2>2
<1>6. CASE command[c] \in [at : {"remove"}, pool : PoolsPart!PoolId, pick : Pick]
    <2>1. command[c].at \in {"remove"}
        BY <1>6
    <2>2. command[c] # PoolsPart!Unused
        BY <2>1, <1>0
    <2>3. QED  BY <1>6, <2>1, <2>2
<1>7. QED  BY <1>1, <1>2, <1>3, <1>4, <1>5, <1>6 DEF Order

LEMMA OverCommand ==
    ASSUME PoolsType, NEW c \in Task, PoolsPart!Over(c)
    PROVE  /\ command' \in [Task -> Order \cup {PoolsPart!Unused}]
           /\ command'[c] = PoolsPart!Unused /\ command'[c].at = "unused"
           /\ \A d \in Task \ {c} : command'[d] = command[d]
BY DEF PoolsType, PoolsPart!Over, PoolsPart!Unused

LEMMA AsksCommand ==
    ASSUME PoolsType, NEW c \in Task, NEW what \in Order, PoolsPart!Asks(c, what), ~clash'
    PROVE  /\ ~clash /\ \A d \in Task : command[d] = PoolsPart!Unused
           /\ command' \in [Task -> Order \cup {PoolsPart!Unused}]
           /\ command'[c] = what
           /\ \A d \in Task \ {c} : command'[d] = PoolsPart!Unused
           /\ UNCHANGED <<ids, tourney_pools, pool_maps, objects, pools, spilled>>
BY DEF PoolsType, PoolsPart!Asks, PoolsPart!Busies

\* Of the others, none is under way.
LEMMA OthersUnused ==
    ASSUME PoolsType, OneCommand, NEW c \in Task, command[c].at # "unused"
    PROVE  \A d \in Task \ {c} : command[d] = PoolsPart!Unused
BY CommandAt DEF OneCommand

\* Nothing is half done: what is stored and what memory has is the same.
LEMMA NothingHalfDone ==
    ASSUME \A c \in Task : command[c].at \notin {"select", "delete_maps"}
    PROVE  \A id \in PoolsPart!PoolId : ~Selecting(id) /\ ~Deleting(id)
BY DEF Selecting, Deleting

\* The rows and the objects stay as they are, and nothing is half done.
LEMMA DataStays ==
    ASSUME PoolsType, PoolsDistinct, PoolsMatch, PicksMatch,
           \A c \in Task : command[c].at \notin {"select", "delete_maps"},
           \A c \in Task : command'[c].at \notin {"select", "delete_maps"},
           command' \in [Task -> Order \cup {PoolsPart!Unused}],
           UNCHANGED <<ids, tourney_pools, pool_maps, objects, pools, spilled>>
    PROVE  PoolsType' /\ PoolsDistinct' /\ PoolsMatch' /\ PicksMatch'
<1>1. \A id \in PoolsPart!PoolId : ~Selecting(id) /\ ~Deleting(id) /\ ~Selecting(id)' /\ ~Deleting(id)'
    BY DEF Selecting, Deleting
<1>2. PoolsPart!Cached' = PoolsPart!Cached
    BY DEF PoolsPart!Cached
<1>3. PoolsType' /\ PoolsDistinct' /\ PicksMatch'
    BY <1>2 DEF PoolsType, PoolsDistinct, PicksMatch
<1>4. \A o \in PoolsPart!Cached : pools[o].id \in PoolsPart!PoolId
    BY DEF PoolsPart!Cached, PoolsType, PoolsPart!MapPool
<1>5. PoolsMatch'
    BY <1>1, <1>2, <1>4 DEF PoolsMatch
<1>6. QED  BY <1>3, <1>5

LEMMA AsksKeeps ==
    ASSUME PoolsInv, NEW c \in Task, NEW what \in Order, what.at \notin {"select", "delete_maps"}, PoolsPart!Asks(c, what), ~clash',
           what.at = "insert" => \A id \in PoolsPart!PoolId : tourney_pools[id] # what.name,
           what.at \in {"delete", "add"} => what.pool \in PoolsPart!Cached /\ pools[what.pool].id = what.id,
           what.at = "add" => what.pick \notin PoolsPart!Picks(what.pool),
           what.at = "remove" => what.pool \in PoolsPart!Cached
    PROVE  PoolsInv'
<1>0. ~clash /\ PoolsType
    BY DEF PoolsInv, PoolsPart!Asks
<1>1. /\ \A d \in Task : command[d] = PoolsPart!Unused
      /\ command' \in [Task -> Order \cup {PoolsPart!Unused}]
      /\ command'[c] = what
      /\ \A d \in Task \ {c} : command'[d] = PoolsPart!Unused
      /\ UNCHANGED <<ids, tourney_pools, pool_maps, objects, pools, spilled>>
    BY <1>0, AsksCommand
<1>a. PoolsPart!Unused.at = "unused"
    BY DEF PoolsPart!Unused
<1>b. \A d \in Task : command[d].at = "unused"
    BY <1>1, <1>a
<1>c. \A d \in Task \ {c} : command'[d].at = "unused"
    BY <1>1, <1>a
<1>d. \A d \in Task : command[d].at \notin {"select", "delete_maps"}
    BY <1>b
<1>e. \A d \in Task : command'[d].at \notin {"select", "delete_maps"}
    BY <1>1, <1>c
<1>3. PoolsType' /\ PoolsDistinct' /\ PoolsMatch' /\ PicksMatch'
    <2>1. PoolsDistinct /\ PoolsMatch /\ PicksMatch
        BY <1>0 DEF PoolsInv
    <2>2. QED  BY <1>0, <1>1, <1>d, <1>e, <2>1, DataStays
<1>4. OneCommand'
    BY <1>1 DEF OneCommand
<1>5. CommandTrue'
    <2>1. PoolsPart!Cached' = PoolsPart!Cached /\ (\A o : PoolsPart!Picks(o)' = PoolsPart!Picks(o))
        BY <1>1 DEF PoolsPart!Cached, PoolsPart!Picks
    <2>2. SUFFICES ASSUME NEW d \in Task
                   PROVE  LET order == command'[d] IN
                          /\ order.at = "insert" => \A id \in PoolsPart!PoolId : tourney_pools[id] # order.name
                          /\ order.at = "select" => ids # 0 /\ tourney_pools[ids] = order.name /\ \A r \in pool_maps : r.pool # ids
                          /\ order.at \in {"delete", "delete_maps", "add"} => order.pool \in PoolsPart!Cached /\ pools[order.pool].id = order.id
                          /\ order.at = "delete_maps" => tourney_pools[order.id] = NoPool
                          /\ order.at = "add" => order.pick \notin PoolsPart!Picks(order.pool)
                          /\ order.at = "remove" => order.pool \in PoolsPart!Cached
        BY <1>1, <2>1 DEF CommandTrue
    <2>3. CASE d = c
        BY <1>1, <2>3
    <2>4. CASE d # c
        BY <1>c, <2>4
    <2>5. QED  BY <2>3, <2>4
<1>6. QED  BY <1>3, <1>4, <1>5 DEF PoolsInv


LEMMA CachedTyped ==
    ASSUME PoolsType, NEW o \in PoolsPart!Cached
    PROVE  o \in PoolsPart!PoolId /\ pools[o] \in PoolsPart!MapPool /\ pools[o] # NoPool /\ pools[o].id \in PoolsPart!PoolId
BY DEF PoolsPart!Cached, PoolsType, PoolsPart!MapPool

LEMMA CachedAre ==
    ASSUME PoolsType, NEW o \in PoolsPart!PoolId
    PROVE  o \in PoolsPart!Cached <=> pools[o] # NoPool
BY DEF PoolsPart!Cached

\* With no command under way, memory is what is stored.
LEMMA Settled ==
    ASSUME PoolsType, PoolsDistinct, PoolsMatch,
           \A c \in Task : command[c].at \notin {"select", "delete_maps"}
    PROVE  /\ \A id \in PoolsPart!PoolId : tourney_pools[id] # NoPool <=> \E o \in PoolsPart!Cached : pools[o].id = id
           /\ \A o \in PoolsPart!Cached : pools[o].name = tourney_pools[pools[o].id]
           /\ \A o, p \in PoolsPart!Cached : pools[o].name = pools[p].name => o = p
<1>1. \A id \in PoolsPart!PoolId : ~Selecting(id) /\ ~Deleting(id)
    BY NothingHalfDone
<1>2. \A o \in PoolsPart!Cached : pools[o].id \in PoolsPart!PoolId
    BY CachedTyped
<1>3. \A id \in PoolsPart!PoolId : tourney_pools[id] # NoPool <=> \E o \in PoolsPart!Cached : pools[o].id = id
    BY <1>1 DEF PoolsMatch
<1>4. \A o \in PoolsPart!Cached : pools[o].name = tourney_pools[pools[o].id]
    BY <1>1, <1>2 DEF PoolsMatch
<1>5. \A o, p \in PoolsPart!Cached : pools[o].name = pools[p].name => o = p
    <2>1. SUFFICES ASSUME NEW o \in PoolsPart!Cached, NEW p \in PoolsPart!Cached, pools[o].name = pools[p].name
                   PROVE  o = p
        OBVIOUS
    <2>2. pools[o].id \in PoolsPart!PoolId /\ pools[p].id \in PoolsPart!PoolId
        BY <1>2
    <2>3. tourney_pools[pools[o].id] = tourney_pools[pools[p].id] /\ tourney_pools[pools[o].id] # NoPool
        BY <1>3, <1>4, <2>1, <2>2
    <2>4. pools[o].id = pools[p].id
        BY <2>2, <2>3 DEF PoolsDistinct
    <2>5. QED  BY <2>4 DEF PoolsDistinct
<1>6. QED  BY <1>3, <1>4, <1>5

\* get_by_name finds the one object with the name.
LEMMA FindsByName ==
    ASSUME PoolsType, PoolsDistinct, PoolsMatch, NEW name \in Name, PoolsPart!Named(name) # {},
           \A c \in Task : command[c].at \notin {"select", "delete_maps"}
    PROVE  /\ PoolsPart!get_by_name(name) \in PoolsPart!Cached
           /\ pools[PoolsPart!get_by_name(name)].id \in PoolsPart!PoolId
<1>0. \A o, p \in PoolsPart!Cached : pools[o].name = pools[p].name => o = p
    BY Settled
<1>a. PICK o \in PoolsPart!Cached : o \in PoolsPart!Named(name)
    BY DEF PoolsPart!Named
<1>1. PoolsPart!Named(name) = {o}
    BY <1>0, <1>a DEF PoolsPart!Named
<1>2. o \in Int
    <2>1. o \in PoolsPart!PoolId
        BY CachedTyped
    <2>2. QED  BY <2>1, PoolsAssumption DEF PoolsPart!PoolId
<1>3. PoolsPart!Min({o}) = o
    <2>1. \E x \in {o} : \A y \in {o} : x =< y
        BY <1>2
    <2>2. PoolsPart!Min({o}) \in {o}
        BY <2>1, Zenon DEF PoolsPart!Min
    <2>3. QED  BY <2>2
<1>4. PoolsPart!get_by_name(name) = o
    BY <1>1, <1>3 DEF PoolsPart!get_by_name
<1>5. QED  BY <1>4, CachedTyped

\* Every other command is unused once one was asked for, and after a restart.
LEMMA AllUnused ==
    ASSUME PoolsInv, NEW c \in Task, NEW what, PoolsPart!Asks(c, what), ~clash'
    PROVE  /\ ~clash /\ PoolsType /\ PoolsDistinct /\ PoolsMatch
           /\ \A d \in Task : command[d].at \notin {"select", "delete_maps"}
<1>1. ~clash /\ PoolsPart!Busies = {}
    BY DEF PoolsPart!Asks
<1>2. PoolsType /\ PoolsDistinct /\ PoolsMatch
    BY <1>1 DEF PoolsInv
<1>3. \A d \in Task : command[d] = PoolsPart!Unused
    BY <1>1 DEF PoolsPart!Busies
<1>4. PoolsPart!Unused.at = "unused"
    BY DEF PoolsPart!Unused
<1>5. QED  BY <1>1, <1>2, <1>3, <1>4

LEMMA CreateKeeps ==
    ASSUME PoolsInv, NEW c \in Task, NEW name \in Name, PoolsPart!pool_create(c, name), ~clash'
    PROVE  PoolsInv'
<1>1. PICK what \in Order : what = [at |-> "insert", name |-> name]
    BY DEF Order
<1>2. PoolsPart!Asks(c, what) /\ what.at = "insert" /\ what.name = name
    BY <1>1 DEF PoolsPart!pool_create
<1>3. /\ ~clash /\ PoolsType /\ PoolsDistinct /\ PoolsMatch
      /\ \A d \in Task : command[d].at \notin {"select", "delete_maps"}
    BY <1>2, AllUnused
<1>4. \A id \in PoolsPart!PoolId : tourney_pools[id] # name
    <2>1. PoolsPart!Named(name) = {}
        BY DEF PoolsPart!pool_create
    <2>2. name # NoPool
        BY PoolsAssumption
    <2>3. /\ \A id \in PoolsPart!PoolId : tourney_pools[id] # NoPool <=> \E o \in PoolsPart!Cached : pools[o].id = id
          /\ \A o \in PoolsPart!Cached : pools[o].name = tourney_pools[pools[o].id]
        BY <1>3, Settled
    <2>4. \A o \in PoolsPart!Cached : pools[o].name # name
        BY <2>1 DEF PoolsPart!Named
    <2>5. QED  BY <2>2, <2>3, <2>4
<1>5. QED  BY <1>2, <1>4, AsksKeeps

LEMMA DeleteKeeps ==
    ASSUME PoolsInv, NEW c \in Task, NEW name \in Name, PoolsPart!pool_delete(c, name), ~clash'
    PROVE  PoolsInv'
<1>0. \E what : PoolsPart!Asks(c, what)
    BY DEF PoolsPart!pool_delete
<1>1. /\ ~clash /\ PoolsType /\ PoolsDistinct /\ PoolsMatch
      /\ \A d \in Task : command[d].at \notin {"select", "delete_maps"}
    BY <1>0, AllUnused
<1>2. PICK o \in PoolsPart!Cached : o = PoolsPart!get_by_name(name) /\ pools[o].id \in PoolsPart!PoolId /\ o \in PoolsPart!PoolId
    BY <1>1, FindsByName, CachedTyped DEF PoolsPart!pool_delete
<1>3. PICK what \in Order : what = [at |-> "delete", pool |-> o, id |-> pools[o].id]
    BY <1>2 DEF Order
<1>4. PoolsPart!Asks(c, what) /\ what.at = "delete" /\ what.pool = o /\ what.id = pools[o].id
    BY <1>2, <1>3 DEF PoolsPart!pool_delete
<1>5. QED  BY <1>2, <1>4, AsksKeeps

LEMMA AddKeeps ==
    ASSUME PoolsInv, NEW c \in Task, NEW name \in Name, NEW pick \in Pick, NEW map \in BMap,
           PoolsPart!pool_add(c, name, pick, map), ~clash'
    PROVE  PoolsInv'
<1>0. \E what : PoolsPart!Asks(c, what)
    BY DEF PoolsPart!pool_add
<1>1. /\ ~clash /\ PoolsType /\ PoolsDistinct /\ PoolsMatch
      /\ \A d \in Task : command[d].at \notin {"select", "delete_maps"}
    BY <1>0, AllUnused
<1>2. PICK o \in PoolsPart!Cached : o = PoolsPart!get_by_name(name) /\ pools[o].id \in PoolsPart!PoolId /\ o \in PoolsPart!PoolId
    BY <1>1, FindsByName, CachedTyped DEF PoolsPart!pool_add
<1>3. PICK what \in Order : what = [at |-> "add", pool |-> o, id |-> pools[o].id, pick |-> pick, map |-> map]
    BY <1>2 DEF Order
<1>4. /\ PoolsPart!Asks(c, what) /\ what.at = "add" /\ what.pool = o /\ what.id = pools[o].id /\ what.pick = pick
      /\ pick \notin PoolsPart!Picks(o)
    BY <1>2, <1>3 DEF PoolsPart!pool_add
<1>5. QED  BY <1>2, <1>4, AsksKeeps

LEMMA RemoveKeeps ==
    ASSUME PoolsInv, NEW c \in Task, NEW name \in Name, NEW pick \in Pick, PoolsPart!pool_remove(c, name, pick), ~clash'
    PROVE  PoolsInv'
<1>0. \E what : PoolsPart!Asks(c, what)
    BY DEF PoolsPart!pool_remove
<1>1. /\ ~clash /\ PoolsType /\ PoolsDistinct /\ PoolsMatch
      /\ \A d \in Task : command[d].at \notin {"select", "delete_maps"}
    BY <1>0, AllUnused
<1>2. PICK o \in PoolsPart!Cached : o = PoolsPart!get_by_name(name) /\ o \in PoolsPart!PoolId
    BY <1>1, FindsByName, CachedTyped DEF PoolsPart!pool_remove
<1>3. PICK what \in Order : what = [at |-> "remove", pool |-> o, pick |-> pick]
    BY <1>2 DEF Order
<1>4. PoolsPart!Asks(c, what) /\ what.at = "remove" /\ what.pool = o
    BY <1>2, <1>3 DEF PoolsPart!pool_remove
<1>5. QED  BY <1>2, <1>4, AsksKeeps


\* What holds when command c is at work: no other is, and what it has found out.
LEMMA OnesCommand ==
    ASSUME PoolsInv, ~clash, NEW c \in Task, command[c].at # "unused"
    PROVE  /\ PoolsType /\ PoolsDistinct /\ PoolsMatch /\ PicksMatch /\ OneCommand /\ CommandTrue
           /\ \A d \in Task \ {c} : command[d] = PoolsPart!Unused /\ command[d].at = "unused"
           /\ \A id \in PoolsPart!PoolId : Selecting(id) <=> command[c].at = "select" /\ id = ids
           /\ \A id \in PoolsPart!PoolId : Deleting(id) <=> command[c].at = "delete_maps" /\ id = command[c].id
<1>1. PoolsType /\ PoolsDistinct /\ PoolsMatch /\ PicksMatch /\ OneCommand /\ CommandTrue
    BY DEF PoolsInv
<1>2. PoolsPart!Unused.at = "unused"
    BY DEF PoolsPart!Unused
<1>3. \A d \in Task \ {c} : command[d] = PoolsPart!Unused /\ command[d].at = "unused"
    BY <1>1, <1>2, OthersUnused
<1>4. \A id \in PoolsPart!PoolId : Selecting(id) <=> command[c].at = "select" /\ id = ids
    BY <1>3 DEF Selecting
<1>5. \A id \in PoolsPart!PoolId : Deleting(id) <=> command[c].at = "delete_maps" /\ id = command[c].id
    BY <1>3 DEF Deleting
<1>6. QED  BY <1>1, <1>3, <1>4, <1>5

\* A command that is over leaves nothing half done.
LEMMA OverLeaves ==
    ASSUME PoolsType, NEW c \in Task, \A d \in Task \ {c} : command[d] = PoolsPart!Unused, PoolsPart!Over(c)
    PROVE  /\ command' \in [Task -> Order \cup {PoolsPart!Unused}]
           /\ OneCommand' /\ CommandTrue'
           /\ \A id : ~Selecting(id)' /\ ~Deleting(id)'
<1>1. command' \in [Task -> Order \cup {PoolsPart!Unused}] /\ \A d \in Task : command'[d] = PoolsPart!Unused
    BY OverCommand
<1>2. PoolsPart!Unused.at = "unused"
    BY DEF PoolsPart!Unused
<1>3. \A d \in Task : command'[d].at = "unused"
    BY <1>1, <1>2
<1>4. OneCommand'
    BY <1>1 DEF OneCommand
<1>5. CommandTrue'
    BY <1>3 DEF CommandTrue
<1>6. \A id : ~Selecting(id)' /\ ~Deleting(id)'
    BY <1>3 DEF Selecting, Deleting
<1>7. QED  BY <1>1, <1>4, <1>5, <1>6

LEMMA CreateInsertsKeeps ==
    ASSUME PoolsInv, ~clash, NEW c \in Task, PoolsPart!CreateInserts(c)
    PROVE  PoolsInv'
<1>1. command[c].at = "insert" /\ ids < MaxPools
    BY DEF PoolsPart!CreateInserts
<1>2. /\ PoolsType /\ PoolsDistinct /\ PoolsMatch /\ PicksMatch /\ CommandTrue
      /\ \A d \in Task \ {c} : command[d] = PoolsPart!Unused /\ command[d].at = "unused"
      /\ \A id \in PoolsPart!PoolId : ~Selecting(id) /\ ~Deleting(id)
    BY <1>1, OnesCommand
<1>3. PICK name \in Name : name = command[c].name
    BY <1>1, <1>2, CommandAt
<1>4. /\ command[c] \in [at : {"insert", "select"}, name : Name]
    BY <1>1, <1>2, CommandAt
<1>5. /\ command' \in [Task -> Order \cup {PoolsPart!Unused}]
      /\ command'[c].at = "select" /\ command'[c].name = name
      /\ \A d \in Task \ {c} : command'[d] = PoolsPart!Unused /\ command'[d].at = "unused"
    <2>1. command' = [command EXCEPT ![c].at = "select"]
        BY DEF PoolsPart!CreateInserts, PoolsPart!Proceeds
    <2>2. [command[c] EXCEPT !.at = "select"] \in [at : {"insert", "select"}, name : Name]
        BY <1>4
    <2>3. command \in [Task -> Order \cup {PoolsPart!Unused}]
        BY <1>2 DEF PoolsType
    <2>4. command' \in [Task -> Order \cup {PoolsPart!Unused}]
        BY <2>1, <2>2, <2>3 DEF Order
    <2>5. QED  BY <1>2, <1>3, <1>4, <2>1, <2>3, <2>4
<1>6. PICK new \in PoolsPart!PoolId : new = ids + 1
    BY <1>1, <1>2, PoolsAssumption DEF PoolsType, PoolsPart!PoolId
<1>7. /\ ids' = new /\ tourney_pools' = [tourney_pools EXCEPT ![new] = name]
      /\ UNCHANGED <<pool_maps, objects, pools, clash, spilled>>
    BY <1>3, <1>6 DEF PoolsPart!CreateInserts
<1>8. name # NoPool /\ \A id \in PoolsPart!PoolId : tourney_pools[id] # name
    BY <1>1, <1>2, <1>3, PoolsAssumption DEF CommandTrue
<1>9. /\ tourney_pools[new] = NoPool
      /\ tourney_pools'[new] = name
      /\ \A id \in PoolsPart!PoolId \ {new} : tourney_pools'[id] = tourney_pools[id]
      /\ \A id \in PoolsPart!PoolId : tourney_pools'[id] # NoPool => id <= new
      /\ tourney_pools' \in [PoolsPart!PoolId -> Name \cup {NoPool}]
    <2>1. ~(new <= ids) /\ \A id \in PoolsPart!PoolId : id <= ids => id <= new
        BY <1>2, <1>6, PoolsAssumption DEF PoolsType, PoolsPart!PoolId
    <2>2. tourney_pools \in [PoolsPart!PoolId -> Name \cup {NoPool}] /\ \A id \in PoolsPart!PoolId : tourney_pools[id] # NoPool => id <= ids
        BY <1>2 DEF PoolsType
    <2>3. new <= new
        BY PoolsAssumption DEF PoolsPart!PoolId
    <2>4. QED  BY <1>7, <2>1, <2>2, <2>3
<1>10. PoolsPart!Cached' = PoolsPart!Cached
    BY <1>7 DEF PoolsPart!Cached
<1>11. \A o \in PoolsPart!Cached : pools[o].id \in PoolsPart!PoolId /\ pools[o].id # new
    BY <1>2, <1>9, CachedTyped DEF PoolsMatch
<1>12. PoolsType'
    <2>1. new \in 0..MaxPools /\ \A r \in pool_maps : r.pool <= new
        BY <1>2, <1>6, PoolsAssumption DEF PoolsType, PoolsPart!PoolId, PoolsPart!MapRow
    <2>2. QED  BY <1>2, <1>5, <1>7, <1>9, <1>10, <2>1 DEF PoolsType
<1>13. PoolsDistinct'
    BY <1>2, <1>7, <1>8, <1>9, <1>10 DEF PoolsDistinct
<1>14. PicksMatch'
    BY <1>2, <1>7, <1>10 DEF PicksMatch
<1>15. PoolsMatch'
    <2>1. \A id \in PoolsPart!PoolId : (Selecting(id)' <=> id = new) /\ ~Deleting(id)'
        BY <1>5, <1>7 DEF Selecting, Deleting
    <2>2. \A o \in PoolsPart!Cached : pools[o].name = tourney_pools'[pools[o].id]
        BY <1>2, <1>9, <1>11 DEF PoolsMatch
    <2>3. \A id \in PoolsPart!PoolId : (\E o \in PoolsPart!Cached : pools[o].id = id) <=> tourney_pools'[id] # NoPool /\ id # new
        BY <1>2, <1>9, <1>11 DEF PoolsMatch
    <2>4. QED  BY <1>7, <1>10, <2>1, <2>2, <2>3 DEF PoolsMatch
<1>16. OneCommand'
    BY <1>5 DEF OneCommand
<1>17. CommandTrue'
    <2>1. new # 0 /\ \A r \in pool_maps : r.pool # new
        BY <1>2, <1>6, PoolsAssumption DEF PoolsType, PoolsPart!PoolId, PoolsPart!MapRow
    <2>2. QED  BY <1>5, <1>7, <1>9, <2>1 DEF CommandTrue
<1>18. QED  BY <1>12, <1>13, <1>14, <1>15, <1>16, <1>17 DEF PoolsInv

LEMMA CreateAppendsKeeps ==
    ASSUME PoolsInv, ~clash, NEW c \in Task, PoolsPart!CreateAppends(c)
    PROVE  PoolsInv'
<1>1. command[c].at = "select" /\ objects < MaxPools
    BY DEF PoolsPart!CreateAppends
<1>2. /\ PoolsType /\ PoolsDistinct /\ PoolsMatch /\ PicksMatch /\ CommandTrue
      /\ \A d \in Task \ {c} : command[d] = PoolsPart!Unused /\ command[d].at = "unused"
      /\ \A id \in PoolsPart!PoolId : (Selecting(id) <=> id = ids) /\ ~Deleting(id)
    BY <1>1, OnesCommand
<1>3. PICK name \in Name : name = command[c].name
    BY <1>1, <1>2, CommandAt
<1>4. PICK new \in PoolsPart!PoolId : new = ids
    BY <1>1, <1>2, PoolsAssumption DEF CommandTrue, PoolsType, PoolsPart!PoolId
<1>5. tourney_pools[new] = name /\ name # NoPool
    BY <1>1, <1>2, <1>3, <1>4, PoolsAssumption DEF CommandTrue
<1>6. PoolsPart!Selected(name) = {new}
    BY <1>2, <1>5 DEF PoolsDistinct, PoolsPart!Selected
<1>7. PoolsPart!Min({new}) = new
    <2>1. new <= new
        BY PoolsAssumption DEF PoolsPart!PoolId
    <2>2. \E x \in {new} : \A y \in {new} : x =< y
        BY <2>1
    <2>3. PoolsPart!Min({new}) \in {new}
        BY <2>2, Zenon DEF PoolsPart!Min
    <2>4. QED  BY <2>3
<1>8. PICK o \in PoolsPart!PoolId : o = objects + 1
    BY <1>1, <1>2, PoolsAssumption DEF PoolsType, PoolsPart!PoolId
<1>9. PICK pool \in PoolsPart!MapPool : pool = [id |-> new, name |-> name, maps |-> {}]
    BY DEF PoolsPart!MapPool
<1>10. pool.id = new /\ pool.name = name /\ pool.maps = {} /\ pool # NoPool
    BY <1>9, PoolsAssumption
<1>11. /\ objects' = o /\ pools' = [pools EXCEPT ![o] = pool]
       /\ UNCHANGED <<ids, tourney_pools, pool_maps, clash, spilled>> /\ PoolsPart!Over(c)
    BY <1>3, <1>6, <1>7, <1>8, <1>9 DEF PoolsPart!CreateAppends
<1>12. /\ command' \in [Task -> Order \cup {PoolsPart!Unused}] /\ OneCommand' /\ CommandTrue'
       /\ \A id : ~Selecting(id)' /\ ~Deleting(id)'
    BY <1>2, <1>11, OverLeaves
<1>13. pools \in [PoolsPart!PoolId -> PoolsPart!MapPool \cup {NoPool}] /\ \A p \in PoolsPart!Cached : p <= objects
    BY <1>2 DEF PoolsType
<1>14. /\ pools'[o] = pool /\ \A p \in PoolsPart!PoolId \ {o} : pools'[p] = pools[p]
       /\ o \notin PoolsPart!Cached /\ PoolsPart!Cached' = PoolsPart!Cached \cup {o}
       /\ pools' \in [PoolsPart!PoolId -> PoolsPart!MapPool \cup {NoPool}]
    <2>1. ~(o <= objects)
        BY <1>2, <1>8 DEF PoolsType
    <2>2. pools'[o] = pool /\ \A p \in PoolsPart!PoolId \ {o} : pools'[p] = pools[p]
        BY <1>11, <1>13
    <2>3. o \notin PoolsPart!Cached
        BY <1>13, <2>1
    <2>4. PoolsPart!Cached' = PoolsPart!Cached \cup {o}
        BY <1>10, <2>2 DEF PoolsPart!Cached
    <2>5. QED  BY <1>11, <1>13, <2>2, <2>3, <2>4
<1>15. \A p \in PoolsPart!Cached : p \in PoolsPart!PoolId /\ p # o /\ pools'[p] = pools[p] /\ pools[p].id \in PoolsPart!PoolId
    BY <1>2, <1>14, CachedTyped
<1>16. \A p \in PoolsPart!Cached : pools[p].id # new
    BY <1>2, <1>4, <1>15 DEF PoolsMatch
<1>17. PoolsType'
    <2>1. o \in 0..MaxPools /\ \A p \in PoolsPart!PoolId : p <= objects => p <= o
        BY <1>2, <1>8, PoolsAssumption DEF PoolsType, PoolsPart!PoolId
    <2>2. \A p \in PoolsPart!Cached' : p <= o
        BY <1>8, <1>13, <1>14, <1>15, <2>1, PoolsAssumption DEF PoolsPart!PoolId
    <2>3. QED  BY <1>2, <1>11, <1>12, <1>14, <2>1, <2>2 DEF PoolsType
<1>18. PoolsDistinct'
    BY <1>2, <1>10, <1>11, <1>14, <1>15, <1>16 DEF PoolsDistinct
<1>19. PoolsMatch'
    <2>1. \A id \in PoolsPart!PoolId : (\E p \in PoolsPart!Cached' : pools'[p].id = id) <=> (\E p \in PoolsPart!Cached : pools[p].id = id) \/ id = new
        BY <1>10, <1>14, <1>15
    <2>2. \A id \in PoolsPart!PoolId : (\E p \in PoolsPart!Cached' : pools'[p].id = id) <=> tourney_pools[id] # NoPool
        BY <1>2, <1>4, <1>5, <2>1 DEF PoolsMatch
    <2>3. \A p \in PoolsPart!Cached' : pools'[p].name = tourney_pools[pools'[p].id]
        BY <1>2, <1>5, <1>10, <1>14, <1>15 DEF PoolsMatch
    <2>4. QED  BY <1>11, <1>12, <2>2, <2>3 DEF PoolsMatch
<1>20. PicksMatch'
    <2>1. \A r \in pool_maps : r.pool # new
        BY <1>1, <1>2, <1>4 DEF CommandTrue
    <2>2. QED  BY <1>2, <1>10, <1>11, <1>14, <1>15, <2>1 DEF PicksMatch
<1>21. QED  BY <1>12, <1>17, <1>18, <1>19, <1>20 DEF PoolsInv


LEMMA DeletePoolKeeps ==
    ASSUME PoolsInv, ~clash, NEW c \in Task, PoolsPart!DeletePool(c)
    PROVE  PoolsInv'
<1>1. command[c].at = "delete"
    BY DEF PoolsPart!DeletePool
<1>2. /\ PoolsType /\ PoolsDistinct /\ PoolsMatch /\ PicksMatch /\ CommandTrue
      /\ \A d \in Task \ {c} : command[d] = PoolsPart!Unused /\ command[d].at = "unused"
      /\ \A id \in PoolsPart!PoolId : ~Selecting(id) /\ ~Deleting(id)
    BY <1>1, OnesCommand
<1>3. command[c] \in [at : {"delete", "delete_maps"}, pool : PoolsPart!PoolId, id : PoolsPart!PoolId]
    BY <1>1, <1>2, CommandAt
<1>4. PICK id \in PoolsPart!PoolId, o \in PoolsPart!PoolId : id = command[c].id /\ o = command[c].pool
    BY <1>3
<1>5. o \in PoolsPart!Cached /\ pools[o].id = id
    BY <1>1, <1>2, <1>4 DEF CommandTrue
<1>6. /\ command' \in [Task -> Order \cup {PoolsPart!Unused}]
      /\ command'[c].at = "delete_maps" /\ command'[c].id = id /\ command'[c].pool = o
      /\ \A d \in Task \ {c} : command'[d] = PoolsPart!Unused /\ command'[d].at = "unused"
    <2>1. command' = [command EXCEPT ![c].at = "delete_maps"]
        BY DEF PoolsPart!DeletePool, PoolsPart!Proceeds
    <2>2. [command[c] EXCEPT !.at = "delete_maps"] \in [at : {"delete", "delete_maps"}, pool : PoolsPart!PoolId, id : PoolsPart!PoolId]
        BY <1>3
    <2>3. command \in [Task -> Order \cup {PoolsPart!Unused}]
        BY <1>2 DEF PoolsType
    <2>4. command' \in [Task -> Order \cup {PoolsPart!Unused}]
        BY <2>1, <2>2, <2>3 DEF Order
    <2>5. QED  BY <1>2, <1>3, <1>4, <2>1, <2>3, <2>4
<1>7. /\ tourney_pools' = [tourney_pools EXCEPT ![id] = NoPool]
      /\ UNCHANGED <<ids, pool_maps, objects, pools, clash, spilled>>
    BY <1>4 DEF PoolsPart!DeletePool
<1>8. /\ tourney_pools'[id] = NoPool /\ \A i \in PoolsPart!PoolId \ {id} : tourney_pools'[i] = tourney_pools[i]
      /\ tourney_pools' \in [PoolsPart!PoolId -> Name \cup {NoPool}]
      /\ \A i \in PoolsPart!PoolId : tourney_pools'[i] # NoPool => i <= ids
    BY <1>2, <1>7 DEF PoolsType
<1>9. PoolsPart!Cached' = PoolsPart!Cached
    BY <1>7 DEF PoolsPart!Cached
<1>10. PoolsType'
    BY <1>2, <1>6, <1>7, <1>8, <1>9 DEF PoolsType
<1>11. PoolsDistinct'
    BY <1>2, <1>7, <1>8, <1>9 DEF PoolsDistinct
<1>12. PicksMatch'
    BY <1>2, <1>7, <1>9 DEF PicksMatch
<1>13. PoolsMatch'
    <2>1. \A i \in PoolsPart!PoolId : ~Selecting(i)' /\ (Deleting(i)' <=> i = id)
        BY <1>6 DEF Selecting, Deleting
    <2>2. \A p \in PoolsPart!Cached : pools[p].id \in PoolsPart!PoolId
        BY <1>2, CachedTyped
    <2>3. \A p \in PoolsPart!Cached : pools[p].id = id \/ pools[p].name = tourney_pools'[pools[p].id]
        BY <1>2, <1>8, <2>2 DEF PoolsMatch
    <2>4. \A i \in PoolsPart!PoolId : (\E p \in PoolsPart!Cached : pools[p].id = i) <=> tourney_pools'[i] # NoPool \/ i = id
        BY <1>2, <1>5, <1>8 DEF PoolsMatch
    <2>5. QED  BY <1>7, <1>9, <2>1, <2>2, <2>3, <2>4 DEF PoolsMatch
<1>14. OneCommand'
    BY <1>6 DEF OneCommand
<1>15. CommandTrue'
    BY <1>5, <1>6, <1>7, <1>8, <1>9 DEF CommandTrue
<1>16. QED  BY <1>10, <1>11, <1>12, <1>13, <1>14, <1>15 DEF PoolsInv

LEMMA DeleteRowsKeeps ==
    ASSUME PoolsInv, ~clash, NEW c \in Task, PoolsPart!DeleteRows(c)
    PROVE  PoolsInv'
<1>1. command[c].at = "delete_maps"
    BY DEF PoolsPart!DeleteRows
<1>2. /\ PoolsType /\ PoolsDistinct /\ PoolsMatch /\ PicksMatch /\ CommandTrue
      /\ \A d \in Task \ {c} : command[d] = PoolsPart!Unused /\ command[d].at = "unused"
      /\ \A id \in PoolsPart!PoolId : ~Selecting(id) /\ (Deleting(id) <=> id = command[c].id)
    BY <1>1, OnesCommand
<1>3. command[c] \in [at : {"delete", "delete_maps"}, pool : PoolsPart!PoolId, id : PoolsPart!PoolId]
    BY <1>1, <1>2, CommandAt
<1>4. PICK id \in PoolsPart!PoolId, o \in PoolsPart!PoolId : id = command[c].id /\ o = command[c].pool
    BY <1>3
<1>5. o \in PoolsPart!Cached /\ pools[o].id = id /\ tourney_pools[id] = NoPool
    BY <1>1, <1>2, <1>4 DEF CommandTrue
<1>6. /\ pool_maps' = pool_maps \ PoolsPart!Rows(id) /\ pools' = [pools EXCEPT ![o] = NoPool]
      /\ UNCHANGED <<ids, tourney_pools, objects, clash, spilled>> /\ PoolsPart!Over(c)
    BY <1>4 DEF PoolsPart!DeleteRows
<1>7. /\ command' \in [Task -> Order \cup {PoolsPart!Unused}] /\ OneCommand' /\ CommandTrue'
      /\ \A i : ~Selecting(i)' /\ ~Deleting(i)'
    BY <1>2, <1>6, OverLeaves
<1>8. /\ pools'[o] = NoPool /\ \A p \in PoolsPart!PoolId \ {o} : pools'[p] = pools[p]
      /\ PoolsPart!Cached' = PoolsPart!Cached \ {o}
      /\ pools' \in [PoolsPart!PoolId -> PoolsPart!MapPool \cup {NoPool}]
    <2>1. pools \in [PoolsPart!PoolId -> PoolsPart!MapPool \cup {NoPool}]
        BY <1>2 DEF PoolsType
    <2>2. pools'[o] = NoPool /\ \A p \in PoolsPart!PoolId \ {o} : pools'[p] = pools[p]
        BY <1>6, <2>1
    <2>3. PoolsPart!Cached' = PoolsPart!Cached \ {o}
        BY <2>2 DEF PoolsPart!Cached
    <2>4. QED  BY <1>6, <2>1, <2>2, <2>3
<1>9. \A p \in PoolsPart!Cached' : p \in PoolsPart!Cached /\ pools'[p] = pools[p] /\ pools[p].id \in PoolsPart!PoolId /\ pools[p].id # id
    BY <1>2, <1>5, <1>8, CachedTyped DEF PoolsDistinct
<1>10. \A r : r \in pool_maps' <=> r \in pool_maps /\ r.pool # id
    BY <1>6 DEF PoolsPart!Rows
<1>11. PoolsType'
    BY <1>2, <1>6, <1>7, <1>8, <1>9, <1>10 DEF PoolsType
<1>12. PoolsDistinct'
    BY <1>2, <1>6, <1>9 DEF PoolsDistinct
<1>13. PicksMatch'
    BY <1>2, <1>6, <1>9, <1>10 DEF PicksMatch
<1>14. PoolsMatch'
    <2>1. \A i \in PoolsPart!PoolId : (\E p \in PoolsPart!Cached' : pools'[p].id = i) <=> (\E p \in PoolsPart!Cached : pools[p].id = i) /\ i # id
        BY <1>5, <1>8, <1>9
    <2>2. \A i \in PoolsPart!PoolId : (\E p \in PoolsPart!Cached' : pools'[p].id = i) <=> tourney_pools[i] # NoPool
        BY <1>2, <1>4, <1>5, <2>1 DEF PoolsMatch
    <2>3. \A p \in PoolsPart!Cached' : pools'[p].name = tourney_pools[pools'[p].id]
        BY <1>2, <1>4, <1>9 DEF PoolsMatch
    <2>4. QED  BY <1>6, <1>7, <2>2, <2>3 DEF PoolsMatch
<1>15. QED  BY <1>7, <1>11, <1>12, <1>13, <1>14 DEF PoolsInv


\* An object with other picks is the same pool.
LEMMA OtherPicks ==
    ASSUME PoolsType, PoolsDistinct, PoolsMatch, NEW o \in PoolsPart!Cached, NEW picks \in SUBSET (Pick \X BMap),
           pools' = [pools EXCEPT ![o].maps = picks],
           UNCHANGED <<ids, tourney_pools, objects>>,
           \A id \in PoolsPart!PoolId : ~Selecting(id) /\ ~Deleting(id) /\ ~Selecting(id)' /\ ~Deleting(id)'
    PROVE  /\ pools' \in [PoolsPart!PoolId -> PoolsPart!MapPool \cup {NoPool}] /\ PoolsPart!Cached' = PoolsPart!Cached
           /\ pools'[o].maps = picks
           /\ \A p \in PoolsPart!Cached : p # o => pools'[p] = pools[p]
           /\ \A p \in PoolsPart!Cached : pools'[p].id = pools[p].id
           /\ PoolsDistinct' /\ PoolsMatch'
<1>1. pools \in [PoolsPart!PoolId -> PoolsPart!MapPool \cup {NoPool}] /\ o \in PoolsPart!PoolId /\ pools[o] \in PoolsPart!MapPool
    BY CachedTyped DEF PoolsType
<1>2. PICK pool \in PoolsPart!MapPool : pool = [pools[o] EXCEPT !.maps = picks]
    BY <1>1 DEF PoolsPart!MapPool
<1>3. pool.id = pools[o].id /\ pool.name = pools[o].name /\ pool.maps = picks /\ pool # NoPool
    BY <1>1, <1>2, PoolsAssumption DEF PoolsPart!MapPool
<1>4. pools' = [pools EXCEPT ![o] = pool]
    BY <1>1, <1>2
<1>5. pools'[o] = pool /\ \A p \in PoolsPart!PoolId : p # o => pools'[p] = pools[p]
    BY <1>1, <1>4
<1>6. PoolsPart!Cached' = PoolsPart!Cached
    BY <1>1, <1>3, <1>5, CachedAre DEF PoolsPart!Cached
<1>7. \A p \in PoolsPart!Cached : p \in PoolsPart!PoolId /\ pools'[p].id = pools[p].id /\ pools'[p].name = pools[p].name
                        /\ pools[p].id \in PoolsPart!PoolId
    BY <1>3, <1>5, CachedTyped
<1>8. PoolsDistinct'
    BY <1>6, <1>7 DEF PoolsDistinct
<1>9. PoolsMatch'
    BY <1>6, <1>7 DEF PoolsMatch
<1>10. QED  BY <1>1, <1>3, <1>4, <1>5, <1>6, <1>7, <1>8, <1>9

LEMMA AddInsertsKeeps ==
    ASSUME PoolsInv, ~clash, NEW c \in Task, PoolsPart!AddInserts(c)
    PROVE  PoolsInv'
<1>1. command[c].at = "add"
    BY DEF PoolsPart!AddInserts
<1>2. /\ PoolsType /\ PoolsDistinct /\ PoolsMatch /\ PicksMatch /\ CommandTrue
      /\ \A d \in Task \ {c} : command[d] = PoolsPart!Unused /\ command[d].at = "unused"
      /\ \A id \in PoolsPart!PoolId : ~Selecting(id) /\ ~Deleting(id)
    BY <1>1, OnesCommand
<1>3. command[c] \in [at : {"add"}, pool : PoolsPart!PoolId, id : PoolsPart!PoolId, pick : Pick, map : BMap]
    BY <1>1, <1>2, CommandAt
<1>4. PICK id \in PoolsPart!PoolId, o \in PoolsPart!PoolId, pick \in Pick, map \in BMap :
        id = command[c].id /\ o = command[c].pool /\ pick = command[c].pick /\ map = command[c].map
    BY <1>3
<1>5. o \in PoolsPart!Cached /\ pools[o].id = id /\ pick \notin PoolsPart!Picks(o) /\ pools[o] # NoPool
    BY <1>1, <1>2, <1>4 DEF CommandTrue, PoolsPart!Cached
<1>6. UNCHANGED <<ids, tourney_pools, objects, clash, spilled>> /\ PoolsPart!Over(c)
    BY DEF PoolsPart!AddInserts
<1>7. /\ command' \in [Task -> Order \cup {PoolsPart!Unused}] /\ OneCommand' /\ CommandTrue'
      /\ \A i : ~Selecting(i)' /\ ~Deleting(i)'
    BY <1>2, <1>6, OverLeaves
<1>8. CASE \E r \in PoolsPart!Rows(id) : r.map = map
    <2>1. UNCHANGED <<pool_maps, pools>>
        BY <1>4, <1>8 DEF PoolsPart!AddInserts
    <2>2. PoolsPart!Cached' = PoolsPart!Cached /\ \A p \in PoolsPart!Cached : pools[p].id \in PoolsPart!PoolId
        BY <1>2, <2>1, CachedTyped DEF PoolsPart!Cached
    <2>3. PoolsType' /\ PoolsDistinct' /\ PicksMatch'
        BY <1>2, <1>6, <1>7, <2>1, <2>2 DEF PoolsType, PoolsDistinct, PicksMatch
    <2>4. PoolsMatch'
        BY <1>2, <1>6, <1>7, <2>1, <2>2 DEF PoolsMatch
    <2>5. QED  BY <1>7, <2>3, <2>4 DEF PoolsInv
<1>9. CASE ~\E r \in PoolsPart!Rows(id) : r.map = map
    <2>1. PICK picks \in SUBSET (Pick \X BMap) : picks = {p \in pools[o].maps : p[1] # pick} \cup {<<pick, map>>}
        <3>1. pools[o].maps \subseteq Pick \X BMap
            BY <1>2, <1>5, CachedTyped DEF PoolsPart!MapPool
        <3>2. {p \in pools[o].maps : p[1] # pick} \cup {<<pick, map>>} \subseteq Pick \X BMap
            BY <3>1
        <3>3. QED  BY <3>2
    <2>2. picks = pools[o].maps \cup {<<pick, map>>}
        BY <1>5, <2>1 DEF PoolsPart!Picks
    <2>3. PICK entry \in PoolsPart!MapRow : entry = [map |-> map, pool |-> id, pick |-> pick]
        BY DEF PoolsPart!MapRow
    <2>4. entry.map = map /\ entry.pool = id /\ entry.pick = pick
        BY <2>3
    <2>5. pool_maps' = pool_maps \cup {entry} /\ pools' = [pools EXCEPT ![o].maps = picks]
        BY <1>4, <1>5, <1>9, <2>1, <2>3 DEF PoolsPart!AddInserts
    <2>6. /\ pools' \in [PoolsPart!PoolId -> PoolsPart!MapPool \cup {NoPool}] /\ PoolsPart!Cached' = PoolsPart!Cached
          /\ pools'[o].maps = picks
          /\ \A p \in PoolsPart!Cached : p # o => pools'[p] = pools[p]
          /\ \A p \in PoolsPart!Cached : pools'[p].id = pools[p].id
          /\ PoolsDistinct' /\ PoolsMatch'
        BY <1>2, <1>5, <1>6, <1>7, <2>5, OtherPicks
    <2>7. \A p \in PoolsPart!Cached : pools[p].id = id => p = o
        BY <1>2, <1>5 DEF PoolsDistinct
    <2>8. id <= ids
        BY <1>2, <1>5 DEF PoolsMatch, PoolsType
    <2>9. PoolsType'
        BY <1>2, <1>6, <1>7, <2>4, <2>5, <2>6, <2>8 DEF PoolsType
    <2>10. PicksMatch'
        <3>1. \A p \in PoolsPart!Cached : p # o => pools[p].id # id
            BY <2>7
        <3>2. ASSUME NEW p \in PoolsPart!Cached
              PROVE  /\ \A r \in pool_maps' : r.pool = pools'[p].id => <<r.pick, r.map>> \in pools'[p].maps
                     /\ spilled \/ \A q \in pools'[p].maps : \E r \in pool_maps' :
                                       r.pool = pools'[p].id /\ q = <<r.pick, r.map>>
            <4>1. CASE p = o
                BY <1>2, <1>5, <2>2, <2>4, <2>5, <2>6, <4>1 DEF PicksMatch
            <4>2. CASE p # o
                BY <1>2, <2>4, <2>5, <2>6, <3>1, <4>2 DEF PicksMatch
            <4>3. QED  BY <4>1, <4>2
        <3>3. QED  BY <1>6, <2>6, <3>2 DEF PicksMatch
    <2>11. QED  BY <1>7, <2>6, <2>9, <2>10 DEF PoolsInv
<1>10. QED  BY <1>8, <1>9

LEMMA RemoveDeletesKeeps ==
    ASSUME PoolsInv, ~clash, NEW c \in Task, PoolsPart!RemoveDeletes(c)
    PROVE  PoolsInv'
<1>1. command[c].at = "remove"
    BY DEF PoolsPart!RemoveDeletes
<1>2. /\ PoolsType /\ PoolsDistinct /\ PoolsMatch /\ PicksMatch /\ CommandTrue
      /\ \A d \in Task \ {c} : command[d] = PoolsPart!Unused /\ command[d].at = "unused"
      /\ \A id \in PoolsPart!PoolId : ~Selecting(id) /\ ~Deleting(id)
    BY <1>1, OnesCommand
<1>3. command[c] \in [at : {"remove"}, pool : PoolsPart!PoolId, pick : Pick]
    BY <1>1, <1>2, CommandAt
<1>4. PICK o \in PoolsPart!PoolId, pick \in Pick : o = command[c].pool /\ pick = command[c].pick
    BY <1>3
<1>5. o \in PoolsPart!Cached /\ pools[o] # NoPool
    BY <1>1, <1>2, <1>4 DEF CommandTrue, PoolsPart!Cached
<1>6. UNCHANGED <<ids, tourney_pools, objects, clash>> /\ PoolsPart!Over(c)
    BY DEF PoolsPart!RemoveDeletes
<1>7. /\ command' \in [Task -> Order \cup {PoolsPart!Unused}] /\ OneCommand' /\ CommandTrue'
      /\ \A i : ~Selecting(i)' /\ ~Deleting(i)'
    BY <1>2, <1>6, OverLeaves
<1>8. PICK picks \in SUBSET (Pick \X BMap) : picks = {p \in pools[o].maps : p[1] # pick}
    BY <1>2, <1>5, CachedTyped DEF PoolsPart!MapPool
<1>9. \A r : r \in pool_maps' <=> r \in pool_maps /\ r.pick # pick
    BY <1>4 DEF PoolsPart!RemoveDeletes, PoolsPart!Removed
<1>10. pools' = [pools EXCEPT ![o].maps = picks]
    BY <1>4, <1>5, <1>8 DEF PoolsPart!RemoveDeletes
<1>11. spilled' = (spilled \/ \E r \in pool_maps \ pool_maps' : r.pool # pools[o].id)
    BY <1>4, <1>5 DEF PoolsPart!RemoveDeletes
<1>12. /\ pools' \in [PoolsPart!PoolId -> PoolsPart!MapPool \cup {NoPool}] /\ PoolsPart!Cached' = PoolsPart!Cached
       /\ pools'[o].maps = picks
       /\ \A p \in PoolsPart!Cached : p # o => pools'[p] = pools[p]
       /\ \A p \in PoolsPart!Cached : pools'[p].id = pools[p].id
       /\ PoolsDistinct' /\ PoolsMatch'
    BY <1>2, <1>5, <1>6, <1>7, <1>10, OtherPicks
<1>13. \A p \in PoolsPart!Cached : p # o => pools[p].id # pools[o].id
    BY <1>2, <1>5 DEF PoolsDistinct
<1>14. PoolsType'
    BY <1>2, <1>6, <1>7, <1>9, <1>12 DEF PoolsType
<1>15. PicksMatch'
    <2>1. ASSUME NEW p \in PoolsPart!Cached, NEW r \in pool_maps', r.pool = pools'[p].id
          PROVE  <<r.pick, r.map>> \in pools'[p].maps
        <3>1. r \in pool_maps /\ r.pick # pick /\ r.pool = pools[p].id
            BY <1>9, <1>12, <2>1
        <3>2. <<r.pick, r.map>> \in pools[p].maps
            BY <1>2, <3>1 DEF PicksMatch
        <3>3. QED  BY <1>8, <1>12, <3>1, <3>2
    <2>2. ASSUME NEW p \in PoolsPart!Cached, ~spilled', NEW q \in pools'[p].maps
          PROVE  \E r \in pool_maps' : r.pool = pools'[p].id /\ q = <<r.pick, r.map>>
        <3>1. q \in pools[p].maps /\ (p = o => q[1] # pick)
            BY <1>8, <1>12, <2>2
        <3>2. ~spilled
            BY <1>11, <2>2
        <3>3. PICK r \in pool_maps : r.pool = pools[p].id /\ q = <<r.pick, r.map>>
            BY <1>2, <3>1, <3>2 DEF PicksMatch
        <3>4. CASE p = o
            BY <1>9, <1>12, <3>1, <3>3, <3>4
        <3>5. CASE p # o
            <4>1. r.pool # pools[o].id
                BY <1>13, <3>3, <3>5
            <4>2. r \in pool_maps'
                BY <1>11, <2>2, <4>1
            <4>3. QED  BY <1>12, <3>3, <4>2
        <3>6. QED  BY <3>4, <3>5
    <2>3. QED  BY <1>12, <2>1, <2>2 DEF PicksMatch
<1>16. QED  BY <1>7, <1>12, <1>14, <1>15 DEF PoolsInv

LEMMA prepareKeeps ==
    ASSUME PoolsInv, ~clash, PoolsPart!prepare
    PROVE  PoolsInv'
<1>1. PoolsType /\ PoolsDistinct
    BY DEF PoolsInv
<1>2. PICK stored \in SUBSET PoolsPart!PoolId :
        /\ stored = {id \in PoolsPart!PoolId : tourney_pools[id] # NoPool}
        /\ pool_maps' \subseteq pool_maps
        /\ pools' = [id \in PoolsPart!PoolId |-> IF id \notin stored THEN NoPool
                       ELSE [id |-> id, name |-> tourney_pools[id],
                             maps |-> {<<r.pick, r.map>> : r \in {entry \in pool_maps' : entry.pool = id}}]]
    BY DEF PoolsPart!prepare
<1>3. /\ objects' = ids /\ command' = [c \in Task |-> PoolsPart!Unused]
      /\ UNCHANGED <<ids, tourney_pools, clash, spilled>>
    BY DEF PoolsPart!prepare
<1>4. pool_maps' \subseteq pool_maps
    BY <1>2
<1>5. \A id \in PoolsPart!PoolId \ stored : pools'[id] = NoPool
    BY <1>2
<1>6. ASSUME NEW id \in stored
      PROVE  /\ pools'[id] \in PoolsPart!MapPool /\ pools'[id].id = id /\ pools'[id].name = tourney_pools[id]
             /\ pools'[id].maps = {<<r.pick, r.map>> : r \in {entry \in pool_maps' : entry.pool = id}}
    <2>1. PICK picks \in SUBSET (Pick \X BMap) : picks = {<<r.pick, r.map>> : r \in {entry \in pool_maps' : entry.pool = id}}
        <3>1. \A r \in pool_maps' : r \in PoolsPart!MapRow
            BY <1>1, <1>4 DEF PoolsType
        <3>2. \A r \in pool_maps' : <<r.pick, r.map>> \in Pick \X BMap
            BY <3>1 DEF PoolsPart!MapRow
        <3>3. {<<r.pick, r.map>> : r \in {entry \in pool_maps' : entry.pool = id}} \subseteq Pick \X BMap
            BY <3>2
        <3>4. QED  BY <3>3
    <2>2. pools'[id] = [id |-> id, name |-> tourney_pools[id], maps |-> picks]
        BY <1>2, <2>1
    <2>3. tourney_pools[id] \in Name /\ id \in PoolsPart!PoolId
        BY <1>1, <1>2 DEF PoolsType
    <2>4. QED  BY <2>1, <2>2, <2>3 DEF PoolsPart!MapPool
<1>7. PoolsPart!Cached' = stored
    BY <1>5, <1>6, PoolsAssumption DEF PoolsPart!Cached
<1>8. PoolsPart!Unused.at = "unused" /\ \A c \in Task : command'[c] = PoolsPart!Unused
    BY <1>3 DEF PoolsPart!Unused
<1>9. \A c \in Task : command'[c].at = "unused"
    BY <1>8
<1>10. \A id : ~Selecting(id)' /\ ~Deleting(id)'
    BY <1>9 DEF Selecting, Deleting
<1>11. OneCommand' /\ CommandTrue'
    BY <1>8, <1>9 DEF OneCommand, CommandTrue
<1>12. PoolsType'
    <2>1. pools' \in [PoolsPart!PoolId -> PoolsPart!MapPool \cup {NoPool}]
        BY <1>2, <1>5, <1>6
    <2>2. \A o \in PoolsPart!Cached' : o <= ids
        BY <1>1, <1>2, <1>7 DEF PoolsType
    <2>3. command' \in [Task -> Order \cup {PoolsPart!Unused}]
        BY <1>3
    <2>4. QED  BY <1>1, <1>3, <1>4, <2>1, <2>2, <2>3 DEF PoolsType
<1>13. PoolsDistinct'
    BY <1>1, <1>3, <1>6, <1>7 DEF PoolsDistinct
<1>14. PoolsMatch'
    BY <1>2, <1>3, <1>6, <1>7, <1>10 DEF PoolsMatch
<1>15. PicksMatch'
    BY <1>6, <1>7 DEF PicksMatch
<1>16. QED  BY <1>11, <1>12, <1>13, <1>14, <1>15 DEF PoolsInv

LEMMA PoolsInitInv == PoolsPart!MapPoolsInit => PoolsInv
<1>1. SUFFICES ASSUME PoolsPart!MapPoolsInit  PROVE PoolsInv
    OBVIOUS
<1>0. /\ ids = 0 /\ tourney_pools = [id \in PoolsPart!PoolId |-> NoPool] /\ pool_maps = {}
      /\ objects = 0 /\ pools = [o \in PoolsPart!PoolId |-> NoPool]
      /\ command = [c \in Task |-> PoolsPart!Unused]
    BY <1>1 DEF PoolsPart!MapPoolsInit
<1>2. PoolsPart!Cached = {}
    BY <1>0 DEF PoolsPart!Cached
<1>3. PoolsPart!Unused.at = "unused" /\ \A c \in Task : command[c] = PoolsPart!Unused
    BY <1>0 DEF PoolsPart!Unused
<1>4. \A c \in Task : command[c].at = "unused"
    BY <1>3
<1>5. \A id : ~Selecting(id) /\ ~Deleting(id)
    BY <1>4 DEF Selecting, Deleting
<1>6. PoolsType
    BY <1>0, <1>2, PoolsAssumption DEF PoolsType
<1>7. OneCommand /\ CommandTrue
    BY <1>0, <1>3, <1>4 DEF OneCommand, CommandTrue
<1>8. PoolsDistinct /\ PicksMatch
    BY <1>0, <1>2 DEF PoolsDistinct, PicksMatch
<1>9. PoolsMatch
    BY <1>0, <1>2, <1>5 DEF PoolsMatch
<1>10. QED  BY <1>6, <1>7, <1>8, <1>9 DEF PoolsInv

LEMMA PoolsNextInv == PoolsInv /\ [PoolsPart!MapPoolsNext]_(PoolsPart!pvars) => PoolsInv'
<1>1. SUFFICES ASSUME PoolsInv, [PoolsPart!MapPoolsNext]_(PoolsPart!pvars), ~clash'
               PROVE  PoolsInv'
    BY DEF PoolsInv
<1>2. CASE UNCHANGED PoolsPart!pvars
    BY <1>1, <1>2 DEF PoolsPart!pvars, PoolsInv, PoolsType, OneCommand, CommandTrue, PoolsDistinct, PoolsMatch, PicksMatch,
                      Selecting, Deleting, PoolsPart!Cached, PoolsPart!Picks
<1>3. CASE PoolsPart!prepare
    BY <1>1, <1>3, prepareKeeps DEF PoolsPart!prepare
<1>4. ASSUME NEW c \in Task, PoolsPart!CommandNext(c)
      PROVE  PoolsInv'
    <2>1. CASE \E name \in Name : PoolsPart!pool_create(c, name) \/ PoolsPart!pool_delete(c, name)
        BY <1>1, <2>1, CreateKeeps, DeleteKeeps
    <2>2. CASE \E name \in Name, pick \in Pick :
                 PoolsPart!pool_remove(c, name, pick) \/ \E map \in BMap : PoolsPart!pool_add(c, name, pick, map)
        BY <1>1, <2>2, AddKeeps, RemoveKeeps
    <2>3. CASE PoolsPart!CreateInserts(c)
        BY <1>1, <2>3, CreateInsertsKeeps DEF PoolsPart!CreateInserts
    <2>4. CASE PoolsPart!CreateAppends(c)
        BY <1>1, <2>4, CreateAppendsKeeps DEF PoolsPart!CreateAppends
    <2>5. CASE PoolsPart!DeletePool(c)
        BY <1>1, <2>5, DeletePoolKeeps DEF PoolsPart!DeletePool
    <2>6. CASE PoolsPart!DeleteRows(c)
        BY <1>1, <2>6, DeleteRowsKeeps DEF PoolsPart!DeleteRows
    <2>7. CASE PoolsPart!AddInserts(c)
        BY <1>1, <2>7, AddInsertsKeeps DEF PoolsPart!AddInserts
    <2>8. CASE PoolsPart!RemoveDeletes(c)
        BY <1>1, <2>8, RemoveDeletesKeeps DEF PoolsPart!RemoveDeletes
    <2>9. QED  BY <1>4, <2>1, <2>2, <2>3, <2>4, <2>5, <2>6, <2>7, <2>8 DEF PoolsPart!CommandNext
<1>5. QED  BY <1>1, <1>2, <1>3, <1>4 DEF PoolsPart!MapPoolsNext

LEMMA PoolsHold == PoolsInv => PoolsPart!PoolsAreStored
<1>1. SUFFICES ASSUME PoolsInv, PoolsPart!Busies = {}, ~clash
               PROVE  /\ {pools[o].id : o \in PoolsPart!Cached} = {id \in PoolsPart!PoolId : tourney_pools[id] # NoPool}
                      /\ \A o \in PoolsPart!Cached :
                            /\ pools[o].name = tourney_pools[pools[o].id]
                            /\ {<<r.pick, r.map>> : r \in PoolsPart!Rows(pools[o].id)} \subseteq pools[o].maps
                            /\ spilled \/ \A p \in pools[o].maps : \E r \in PoolsPart!Rows(pools[o].id) : p = <<r.pick, r.map>>
    BY DEF PoolsPart!PoolsAreStored
<1>2. PoolsType /\ PoolsDistinct /\ PoolsMatch /\ PicksMatch
    BY <1>1 DEF PoolsInv
<1>3. \A c \in Task : command[c] = PoolsPart!Unused
    BY <1>1 DEF PoolsPart!Busies
<1>4. PoolsPart!Unused.at = "unused"
    BY DEF PoolsPart!Unused
<1>5. \A c \in Task : command[c].at \notin {"select", "delete_maps"}
    BY <1>3, <1>4
<1>6. /\ \A id \in PoolsPart!PoolId : tourney_pools[id] # NoPool <=> \E o \in PoolsPart!Cached : pools[o].id = id
      /\ \A o \in PoolsPart!Cached : pools[o].name = tourney_pools[pools[o].id]
    BY <1>2, <1>5, Settled
<1>7. {pools[o].id : o \in PoolsPart!Cached} = {id \in PoolsPart!PoolId : tourney_pools[id] # NoPool}
    BY <1>2, <1>6, CachedTyped
<1>8. \A o \in PoolsPart!Cached :
        /\ {<<r.pick, r.map>> : r \in PoolsPart!Rows(pools[o].id)} \subseteq pools[o].maps
        /\ spilled \/ \A p \in pools[o].maps : \E r \in PoolsPart!Rows(pools[o].id) : p = <<r.pick, r.map>>
    BY <1>2 DEF PicksMatch, PoolsPart!Rows
<1>9. QED  BY <1>6, <1>7, <1>8

LEMMA PoolsPartInv == Spec => [](part = "pools" => PoolsInv)
<1>1. Init => (part = "pools" => PoolsInv)
    BY PoolsInitInv DEF Init
<1>2. (part = "pools" => PoolsInv) /\ [Next]_contentVars => (part = "pools" => PoolsInv)'
    <2>1. SUFFICES ASSUME part = "pools" => PoolsInv, [Next]_contentVars, part' = "pools"
                   PROVE  PoolsInv'
        OBVIOUS
    <2>2. part = "pools"
        BY <2>1 DEF Next, contentVars
    <2>3. [PoolsPart!MapPoolsNext]_(PoolsPart!pvars)
        BY <2>1, <2>2 DEF Next, contentVars, poolVars, PoolsPart!pvars
    <2>4. QED  BY <2>1, <2>2, <2>3, PoolsNextInv
<1>3. QED  BY <1>1, <1>2, PTL DEF Spec

\* However many pools, picks and commands there are: with no command under way
\* memory has the stored pools, under their names and with their picks, unless two
\* commands met (commands.py:2306-2447).
THEOREM PoolsAreStoredAlways == Spec => []PoolsAreStored
<1>1. (part = "pools" => PoolsInv) => PoolsAreStored
    BY PoolsHold DEF PoolsAreStored
<1>2. QED  BY <1>1, PoolsPartInv, PTL

-----------------------------------------------------------------------------
(* Beatmaps, with one request at a time ("maps") and with several ("races"). *)

MapsProofs  == INSTANCE BeatmapsProofs WITH Request <- {oneRequest}, SetObj <- {oneSet}, MaxVersion <- 2
RacesProofs == INSTANCE BeatmapsProofs WITH Id <- {oneId}, MaxVersion <- 1

\* MapsPart is what BeatmapsProofs is about.
LEMMA SameMaps ==
    /\ MapsPart!BeatmapsInit => MapsProofs!BeatmapsInit
    /\ MapsPart!BeatmapsNext => MapsProofs!BeatmapsNext
    /\ MapsProofs!CacheIsStored => MapsPart!CacheIsStored
    /\ MapsProofs!KeepsScores => MapsPart!KeepsScores
    /\ MapsProofs!BeatmapsConstants
    /\ MapsPart!bvars = MapsProofs!bvars
<1> USE DEF MapsPart!Status, MapsProofs!Status, MapsPart!Version, MapsProofs!Version, MapsPart!Md5,
            MapsProofs!Md5, MapsPart!RowType, MapsProofs!RowType, MapsPart!MapType,
            MapsProofs!MapType, MapsPart!bvars, MapsProofs!bvars, MapsPart!Quiet, MapsProofs!Quiet,
            MapsPart!Working, MapsProofs!Working, MapsPart!Known, MapsProofs!Known,
            MapsPart!Missing, MapsProofs!Missing, MapsPart!Listed, MapsProofs!Listed,
            MapsPart!Md5Of, MapsProofs!Md5Of, MapsPart!Held, MapsProofs!Held, MapsPart!Collect,
            MapsProofs!Collect, MapsPart!Free, MapsProofs!Free, MapsPart!Goes, MapsProofs!Goes,
            MapsPart!Ends, MapsProofs!Ends, MapsPart!all_officially_ranked_or_approved,
            MapsProofs!all_officially_ranked_or_approved, MapsPart!MayBeDue, MapsProofs!MayBeDue,
            MapsPart!Upstream, MapsProofs!Upstream, MapsPart!Answers, MapsProofs!Answers,
            MapsPart!Starts, MapsProofs!Starts, MapsPart!_from_md5_cache,
            MapsProofs!_from_md5_cache, MapsPart!_from_bid_cache, MapsProofs!_from_bid_cache,
            MapsPart!from_md5, MapsProofs!from_md5, MapsPart!from_bid, MapsProofs!from_bid,
            MapsPart!Fits, MapsProofs!Fits, MapsPart!Found, MapsProofs!Found, MapsPart!FindSet,
            MapsProofs!FindSet, MapsPart!_from_bsid_cache, MapsProofs!_from_bsid_cache,
            MapsPart!_from_bsid_sql, MapsProofs!_from_bsid_sql, MapsPart!Parsed, MapsProofs!Parsed,
            MapsPart!_from_bsid_osuapi, MapsProofs!_from_bsid_osuapi, MapsPart!Saved,
            MapsProofs!Saved, MapsPart!_save_to_sql, MapsProofs!_save_to_sql,
            MapsPart!cache_beatmap_set, MapsProofs!cache_beatmap_set, MapsPart!Updated,
            MapsProofs!Updated, MapsPart!Deleted, MapsProofs!Deleted, MapsPart!UpdateFetches,
            MapsProofs!UpdateFetches, MapsPart!DeleteMaps, MapsProofs!DeleteMaps,
            MapsPart!UpdateDeletes, MapsProofs!UpdateDeletes, MapsPart!UpdateDrops,
            MapsProofs!UpdateDrops, MapsPart!_map, MapsProofs!_map, MapsPart!RuledMaps,
            MapsProofs!RuledMaps, MapsPart!_map_caches, MapsProofs!_map_caches, MapsPart!Restart,
            MapsProofs!Restart, MapsPart!RequestNext, MapsProofs!RequestNext
<1>1. MapsPart!BeatmapsInit => MapsProofs!BeatmapsInit
    BY DEF MapsPart!BeatmapsInit, MapsProofs!BeatmapsInit
<1>2. MapsPart!BeatmapsNext => MapsProofs!BeatmapsNext
    BY DEF MapsPart!BeatmapsNext, MapsProofs!BeatmapsNext
<1>3. MapsProofs!CacheIsStored => MapsPart!CacheIsStored
    BY DEF MapsPart!CacheIsStored, MapsProofs!CacheIsStored
<1>4. MapsProofs!KeepsScores => MapsPart!KeepsScores
    BY DEF MapsPart!KeepsScores, MapsProofs!KeepsScores
<1>5. MapsProofs!BeatmapsConstants
    BY BeatmapsAssumption DEF MapsPart!BeatmapsConstants, MapsProofs!BeatmapsConstants
<1>6. MapsPart!bvars = MapsProofs!bvars
    OBVIOUS
<1>7. QED  BY <1>1, <1>2, <1>3, <1>4, <1>5, <1>6

LEMMA SameMapsInv == Spec => [](part = "maps" => MapsProofs!StoredInv)
<1>1. Init => (part = "maps" => MapsProofs!StoredInv)
    BY SameMaps, MapsProofs!InitStored DEF Init
<1>2. (part = "maps" => MapsProofs!StoredInv) /\ [Next]_contentVars => (part = "maps" => MapsProofs!StoredInv)'
    <2>1. SUFFICES ASSUME part = "maps" => MapsProofs!StoredInv, [Next]_contentVars, part' = "maps"
                   PROVE  MapsProofs!StoredInv'
        OBVIOUS
    <2>2. part = "maps"
        BY <2>1 DEF Next, contentVars
    <2>3. [MapsProofs!BeatmapsNext]_(MapsProofs!bvars)
        BY <2>1, <2>2, SameMaps DEF Next, contentVars, beatmapVars, MapsProofs!bvars
    <2>4. QED  BY <2>1, <2>2, <2>3, SameMaps, MapsProofs!StoredNext
<1>3. QED  BY <1>1, <1>2, PTL DEF Spec

\* RacesPart is what BeatmapsProofs is about.
LEMMA SameRaces ==
    /\ RacesPart!BeatmapsInit => RacesProofs!BeatmapsInit
    /\ RacesPart!BeatmapsNext => RacesProofs!BeatmapsNext
    /\ RacesProofs!CacheIsStored => RacesPart!CacheIsStored
    /\ RacesProofs!KeepsScores => RacesPart!KeepsScores
    /\ RacesProofs!BeatmapsConstants
    /\ RacesPart!bvars = RacesProofs!bvars
<1> USE DEF RacesPart!Status, RacesProofs!Status, RacesPart!Version, RacesProofs!Version,
            RacesPart!Md5, RacesProofs!Md5, RacesPart!RowType, RacesProofs!RowType,
            RacesPart!MapType, RacesProofs!MapType, RacesPart!bvars, RacesProofs!bvars,
            RacesPart!Quiet, RacesProofs!Quiet, RacesPart!Working, RacesProofs!Working,
            RacesPart!Known, RacesProofs!Known, RacesPart!Missing, RacesProofs!Missing,
            RacesPart!Listed, RacesProofs!Listed, RacesPart!Md5Of, RacesProofs!Md5Of,
            RacesPart!Held, RacesProofs!Held, RacesPart!Collect, RacesProofs!Collect,
            RacesPart!Free, RacesProofs!Free, RacesPart!Goes, RacesProofs!Goes, RacesPart!Ends,
            RacesProofs!Ends, RacesPart!all_officially_ranked_or_approved,
            RacesProofs!all_officially_ranked_or_approved, RacesPart!MayBeDue,
            RacesProofs!MayBeDue, RacesPart!Upstream, RacesProofs!Upstream, RacesPart!Answers,
            RacesProofs!Answers, RacesPart!Starts, RacesProofs!Starts, RacesPart!_from_md5_cache,
            RacesProofs!_from_md5_cache, RacesPart!_from_bid_cache, RacesProofs!_from_bid_cache,
            RacesPart!from_md5, RacesProofs!from_md5, RacesPart!from_bid, RacesProofs!from_bid,
            RacesPart!Fits, RacesProofs!Fits, RacesPart!Found, RacesProofs!Found,
            RacesPart!FindSet, RacesProofs!FindSet, RacesPart!_from_bsid_cache,
            RacesProofs!_from_bsid_cache, RacesPart!_from_bsid_sql, RacesProofs!_from_bsid_sql,
            RacesPart!Parsed, RacesProofs!Parsed, RacesPart!_from_bsid_osuapi,
            RacesProofs!_from_bsid_osuapi, RacesPart!Saved, RacesProofs!Saved,
            RacesPart!_save_to_sql, RacesProofs!_save_to_sql, RacesPart!cache_beatmap_set,
            RacesProofs!cache_beatmap_set, RacesPart!Updated, RacesProofs!Updated,
            RacesPart!Deleted, RacesProofs!Deleted, RacesPart!UpdateFetches,
            RacesProofs!UpdateFetches, RacesPart!DeleteMaps, RacesProofs!DeleteMaps,
            RacesPart!UpdateDeletes, RacesProofs!UpdateDeletes, RacesPart!UpdateDrops,
            RacesProofs!UpdateDrops, RacesPart!_map, RacesProofs!_map, RacesPart!RuledMaps,
            RacesProofs!RuledMaps, RacesPart!_map_caches, RacesProofs!_map_caches,
            RacesPart!Restart, RacesProofs!Restart, RacesPart!RequestNext, RacesProofs!RequestNext
<1>1. RacesPart!BeatmapsInit => RacesProofs!BeatmapsInit
    BY DEF RacesPart!BeatmapsInit, RacesProofs!BeatmapsInit
<1>2. RacesPart!BeatmapsNext => RacesProofs!BeatmapsNext
    BY DEF RacesPart!BeatmapsNext, RacesProofs!BeatmapsNext
<1>3. RacesProofs!CacheIsStored => RacesPart!CacheIsStored
    BY DEF RacesPart!CacheIsStored, RacesProofs!CacheIsStored
<1>4. RacesProofs!KeepsScores => RacesPart!KeepsScores
    BY DEF RacesPart!KeepsScores, RacesProofs!KeepsScores
<1>5. RacesProofs!BeatmapsConstants
    BY BeatmapsAssumption DEF RacesPart!BeatmapsConstants, RacesProofs!BeatmapsConstants
<1>6. RacesPart!bvars = RacesProofs!bvars
    OBVIOUS
<1>7. QED  BY <1>1, <1>2, <1>3, <1>4, <1>5, <1>6

LEMMA SameRacesInv == Spec => [](part = "races" => RacesProofs!StoredInv)
<1>1. Init => (part = "races" => RacesProofs!StoredInv)
    BY SameRaces, RacesProofs!InitStored DEF Init
<1>2. (part = "races" => RacesProofs!StoredInv) /\ [Next]_contentVars => (part = "races" => RacesProofs!StoredInv)'
    <2>1. SUFFICES ASSUME part = "races" => RacesProofs!StoredInv, [Next]_contentVars, part' = "races"
                   PROVE  RacesProofs!StoredInv'
        OBVIOUS
    <2>2. part = "races"
        BY <2>1 DEF Next, contentVars
    <2>3. [RacesProofs!BeatmapsNext]_(RacesProofs!bvars)
        BY <2>1, <2>2, SameRaces DEF Next, contentVars, beatmapVars, RacesProofs!bvars
    <2>4. QED  BY <2>1, <2>2, <2>3, SameRaces, RacesProofs!StoredNext
<1>3. QED  BY <1>1, <1>2, PTL DEF Spec

\* However many requests, maps and versions there are: the cache is what is
\* stored, and with one request at a time it is so although osu! changes the set
\* (beatmap.py:356, 700).
THEOREM CacheIsStoredAlways == Spec => []CacheIsStored
<1>1. (part = "maps" => MapsProofs!StoredInv) /\ (part = "races" => RacesProofs!StoredInv) => CacheIsStored
    BY SameMaps, SameRaces, MapsProofs!StoredMeans, RacesProofs!StoredMeans DEF CacheIsStored
<1>2. QED  BY <1>1, SameMapsInv, SameRacesInv, PTL

\* A map and its scores are deleted only when osu! has removed the map, or when a
\* request to osu! failed, which is taken for the same (beatmap.py:37-57, 700).
THEOREM ScoresKeptAlways == Spec => ScoresKept
<1> DEFINE StoredNow == (part = "maps" => MapsProofs!StoredInv) /\ (part = "races" => RacesProofs!StoredInv)
           KeepsBoth == (part = "maps" => MapsPart!KeepsScores) /\ (part = "races" => RacesPart!KeepsScores)
<1>1. ASSUME StoredNow, Next PROVE KeepsBoth
    <2>1. CASE part = "maps"
        <3>1. MapsProofs!StoredInv /\ MapsProofs!BeatmapsNext
            BY <1>1, <2>1, SameMaps DEF Next
        <3>2. QED  BY <2>1, <3>1, SameMaps, MapsProofs!KeepsStep DEF MapsProofs!StoredInv
    <2>2. CASE part = "races"
        <3>1. RacesProofs!StoredInv /\ RacesProofs!BeatmapsNext
            BY <1>1, <2>2, SameRaces DEF Next
        <3>2. QED  BY <2>2, <3>1, SameRaces, RacesProofs!KeepsStep DEF RacesProofs!StoredInv
    <2>3. QED  BY <2>1, <2>2
<1>2. StoredNow /\ [Next]_contentVars => [KeepsBoth]_contentVars
    BY <1>1
<1>3. QED  BY <1>2, SameMapsInv, SameRacesInv, PTL DEF Spec, ScoresKept

-----------------------------------------------------------------------------
(* Sums over finite sets, in whatever order FoldFunctionOnSet goes.          *)
(* What holds of every finite set is shown of a least one that it would not *)
(* hold of.                                                                 *)

LEMMA LeastOfFinite ==
    ASSUME NEW S, IsFiniteSet(S), NEW T \in SUBSET SUBSET S, T # {}
    PROVE  \E A \in T : \A B \in T : ~(B \subseteq A /\ B # A)
<1>1. IsWellFoundedOn(StrictSubsetOrdering(S), SUBSET S)
    <2>1. IsWellFoundedOn(StrictSubsetOrdering(S), FiniteSubsetsOf(S))
        BY FS_StrictSubsetOrderingWellFounded
    <2>2. SUBSET S = FiniteSubsetsOf(S)
        BY FS_Subset DEF FiniteSubsetsOf
    <2>3. QED BY <2>1, <2>2
<1>2. PICK A \in T : \A B \in T : <<B, A>> \notin StrictSubsetOrdering(S)
    BY <1>1, WFMin
<1>3. QED  BY <1>2 DEF StrictSubsetOrdering

Some(s) == CHOOSE x \in s : TRUE
Adds(h, g, S) == h = [s \in SUBSET S |-> IF s = {} THEN 0 ELSE g[Some(s)] + h[s \ {Some(s)}]]

LEMMA SumIs == ASSUME NEW g, NEW S PROVE SumFunctionOnSet(g, S) = (CHOOSE h : Adds(h, g, S))[S]
BY DEF SumFunctionOnSet, FoldFunctionOnSet, MapThenFoldSet, Adds, Some

LEMMA SomeIn == ASSUME NEW s, s # {}  PROVE Some(s) \in s
BY DEF Some

LEMMA AddsStep ==
    ASSUME NEW g, NEW S, NEW h, Adds(h, g, S), NEW s \in SUBSET S
    PROVE  h[s] = IF s = {} THEN 0 ELSE g[Some(s)] + h[s \ {Some(s)}]
BY DEF Adds

LEMMA AddsAgree ==
    ASSUME NEW g, NEW S, IsFiniteSet(S), NEW S1 \in SUBSET S, NEW S2 \in SUBSET S,
           NEW h1, Adds(h1, g, S1), NEW h2, Adds(h2, g, S2)
    PROVE  \A s \in SUBSET (S1 \cap S2) : h1[s] = h2[s]
<1> DEFINE T == {t \in SUBSET (S1 \cap S2) : h1[t] # h2[t]}
<1> SUFFICES ASSUME T # {}  PROVE FALSE
    OBVIOUS
<1>0. T \in SUBSET SUBSET S
    OBVIOUS
<1> HIDE DEF T
<1>1. PICK A \in T : \A B \in T : ~(B \subseteq A /\ B # A)
    BY <1>0, LeastOfFinite
<1> USE DEF T
<1>2. A # {}
    <2>1. h1[{}] = 0
        BY AddsStep
    <2>2. h2[{}] = 0
        BY AddsStep
    <2>3. QED  BY <2>1, <2>2
<1>3. Some(A) \in A
    BY <1>2, SomeIn
<1>4. h1[A \ {Some(A)}] = h2[A \ {Some(A)}]
    BY <1>1, <1>3
<1>5. QED  BY <1>2, <1>4, AddsStep

LEMMA AddsExists ==
    ASSUME NEW g, NEW S, IsFiniteSet(S)
    PROVE  \E h : Adds(h, g, S)
<1> DEFINE T == {A \in SUBSET S : ~\E h : Adds(h, g, A)}
<1> SUFFICES ASSUME T # {}  PROVE FALSE
    OBVIOUS
<1>0. T \in SUBSET SUBSET S
    OBVIOUS
<1> HIDE DEF T
<1>1. PICK A \in T : \A B \in T : ~(B \subseteq A /\ B # A)
    BY <1>0, LeastOfFinite
<1> USE DEF T
<1> DEFINE H(B) == CHOOSE h : Adds(h, g, B)
<1>2. \A B \in SUBSET A : B # A => Adds(H(B), g, B)
    BY <1>1
<1> HIDE DEF H
<1> DEFINE V(s) == IF s = {} THEN 0 ELSE g[Some(s)] + H(s \ {Some(s)})[s \ {Some(s)}]
           h == [s \in SUBSET A |-> V(s)]
<1>3. \A s \in SUBSET A : s # A => h[s] = H(s)[s]
    <2> SUFFICES ASSUME NEW s \in SUBSET A, s # A  PROVE V(s) = H(s)[s]
        OBVIOUS
    <2>1. Adds(H(s), g, s)
        BY <1>2
    <2>2. CASE s = {}
        <3>1. H(s)[{}] = 0
            BY <2>1, <2>2, AddsStep
        <3>2. QED  BY <3>1, <2>2
    <2>3. CASE s # {}
        <3>1. Some(s) \in s
            BY <2>3, SomeIn
        <3>2. Adds(H(s \ {Some(s)}), g, s \ {Some(s)})
            BY <1>2, <3>1
        <3>3. H(s)[s \ {Some(s)}] = H(s \ {Some(s)})[s \ {Some(s)}]
            <4>1. s \in SUBSET S /\ s \ {Some(s)} \in SUBSET S
                OBVIOUS
            <4>2. s \ {Some(s)} \in SUBSET (s \cap (s \ {Some(s)}))
                OBVIOUS
            <4>3. \A r \in SUBSET (s \cap (s \ {Some(s)})) : H(s)[r] = H(s \ {Some(s)})[r]
                BY <4>1, <2>1, <3>2, AddsAgree
            <4>4. QED  BY <4>2, <4>3
        <3>4. H(s)[s] = g[Some(s)] + H(s)[s \ {Some(s)}]
            BY <2>1, <2>3, AddsStep
        <3>5. QED  BY <2>3, <3>3, <3>4
    <2>4. QED  BY <2>2, <2>3
<1>4. \A s \in SUBSET A : h[s] = IF s = {} THEN 0 ELSE g[Some(s)] + h[s \ {Some(s)}]
    <2>1. h[{}] = 0
        OBVIOUS
    <2>2. ASSUME NEW s \in SUBSET A, s # {}  PROVE h[s] = g[Some(s)] + h[s \ {Some(s)}]
        <3>1. Some(s) \in s
            BY <2>2, SomeIn
        <3>2. h[s \ {Some(s)}] = H(s \ {Some(s)})[s \ {Some(s)}]
            BY <1>3, <3>1
        <3>3. QED  BY <2>2, <3>2
    <2> HIDE DEF h
    <2>3. QED  BY <2>1, <2>2
<1>5. Adds(h, g, A)
    <2> HIDE DEF V
    <2>1. h = [s \in SUBSET A |-> h[s]]
        OBVIOUS
    <2> HIDE DEF h
    <2>2. QED  BY <1>4, <2>1 DEF Adds
<1>6. QED  BY <1>5

LEMMA SumAdds ==
    ASSUME NEW g, NEW S, IsFiniteSet(S)
    PROVE  /\ \A B \in SUBSET S : \E h : Adds(h, g, B) /\ SumFunctionOnSet(g, B) = h[B]
           /\ SumFunctionOnSet(g, {}) = 0
           /\ \A B \in SUBSET S : B # {} => SumFunctionOnSet(g, B) = g[Some(B)] + SumFunctionOnSet(g, B \ {Some(B)})
<1>1. ASSUME NEW B \in SUBSET S  PROVE \E h : Adds(h, g, B) /\ SumFunctionOnSet(g, B) = h[B]
    <2>1. IsFiniteSet(B)
        BY FS_Subset
    <2>2. QED  BY <2>1, AddsExists, SumIs
<1>2. SumFunctionOnSet(g, {}) = 0
    BY <1>1, AddsStep
<1>3. ASSUME NEW B \in SUBSET S, B # {}
      PROVE  SumFunctionOnSet(g, B) = g[Some(B)] + SumFunctionOnSet(g, B \ {Some(B)})
    <2>1. Some(B) \in B
        BY <1>3, SomeIn
    <2>2. PICK h : Adds(h, g, B) /\ SumFunctionOnSet(g, B) = h[B]
        BY <1>1
    <2>3. PICK k : Adds(k, g, B \ {Some(B)}) /\ SumFunctionOnSet(g, B \ {Some(B)}) = k[B \ {Some(B)}]
        BY <1>1, <2>1
    <2>4. h[B \ {Some(B)}] = k[B \ {Some(B)}]
        BY <2>2, <2>3, AddsAgree, SMTT(30)
    <2>5. QED  BY <1>3, <2>2, <2>3, <2>4, AddsStep
<1>4. QED  BY <1>1, <1>2, <1>3

\* Every finite set of integers under g has a sum, whichever is added first.
LEMMA SumInt ==
    ASSUME NEW g, NEW S, IsFiniteSet(S), \A x \in S : g[x] \in Int
    PROVE  \A B \in SUBSET S : SumFunctionOnSet(g, B) \in Int
<1> DEFINE T == {B \in SUBSET S : SumFunctionOnSet(g, B) \notin Int}
<1> SUFFICES ASSUME T # {}  PROVE FALSE
    OBVIOUS
<1>0. T \in SUBSET SUBSET S
    OBVIOUS
<1> HIDE DEF T
<1>1. PICK A \in T : \A B \in T : ~(B \subseteq A /\ B # A)
    BY <1>0, LeastOfFinite
<1> USE DEF T
<1>2. A # {}
    <2>1. SumFunctionOnSet(g, {}) = 0
        BY SumAdds
    <2>2. QED  BY <2>1
<1>3. Some(A) \in A
    BY <1>2, SomeIn
<1>4. SumFunctionOnSet(g, A \ {Some(A)}) \in Int
    BY <1>1, <1>3
<1>5. SumFunctionOnSet(g, A) = g[Some(A)] + SumFunctionOnSet(g, A \ {Some(A)})
    BY <1>2, SumAdds
<1>6. QED  BY <1>3, <1>4, <1>5

LEMMA SumWithout ==
    ASSUME NEW g, NEW S, IsFiniteSet(S), \A x \in S : g[x] \in Int
    PROVE  \A B \in SUBSET S : \A x \in B : SumFunctionOnSet(g, B) = g[x] + SumFunctionOnSet(g, B \ {x})
<1> DEFINE Sum(B) == SumFunctionOnSet(g, B)
           T == {B \in SUBSET S : \E x \in B : Sum(B) # g[x] + Sum(B \ {x})}
<1> SUFFICES ASSUME T # {}  PROVE FALSE
    OBVIOUS
<1>0. T \in SUBSET SUBSET S
    OBVIOUS
<1>a. /\ \A B \in SUBSET S : Sum(B) \in Int
      /\ \A B \in SUBSET S : B # {} => Sum(B) = g[Some(B)] + Sum(B \ {Some(B)})
    BY SumInt, SumAdds
<1> HIDE DEF Sum
<1> HIDE DEF T
<1>1. PICK A \in T : \A B \in T : ~(B \subseteq A /\ B # A)
    BY <1>0, LeastOfFinite
<1> USE DEF T
<1>2. PICK x \in A : Sum(A) # g[x] + Sum(A \ {x})
    OBVIOUS
<1> DEFINE c == Some(A)
<1>3. c \in A /\ Sum(A) = g[c] + Sum(A \ {c})
    BY <1>a, SomeIn
<1>4. x # c
    BY <1>2, <1>3
<1> HIDE DEF c
<1>5. Sum(A \ {c}) = g[x] + Sum((A \ {c}) \ {x})
    BY <1>1, <1>3, <1>4
<1>6. Sum(A \ {x}) = g[c] + Sum((A \ {x}) \ {c})
    BY <1>1, <1>3, <1>4
<1>7. Sum((A \ {c}) \ {x}) = Sum((A \ {x}) \ {c})
    <2>1. (A \ {c}) \ {x} = (A \ {x}) \ {c}
        OBVIOUS
    <2>2. QED  BY <2>1, Zenon
<1>8. g[c] \in Int /\ g[x] \in Int /\ Sum((A \ {x}) \ {c}) \in Int
    BY <1>a, <1>3
<1> DEFINE a == g[c]
           b == g[x]
           n == Sum((A \ {x}) \ {c})
<1>9. /\ Sum(A) = a + Sum(A \ {c}) /\ Sum(A \ {c}) = b + n /\ Sum(A \ {x}) = a + n
      /\ a \in Int /\ b \in Int /\ n \in Int /\ Sum(A) # b + Sum(A \ {x})
    BY <1>2, <1>3, <1>5, <1>6, <1>7, <1>8, Zenon
<1> HIDE DEF a, b, n
<1>10. QED  BY <1>9

LEMMA SumSame ==
    ASSUME NEW g, NEW h, NEW S, IsFiniteSet(S), \A x \in S : g[x] = h[x]
    PROVE  \A B \in SUBSET S : SumFunctionOnSet(g, B) = SumFunctionOnSet(h, B)
<1> DEFINE T == {B \in SUBSET S : SumFunctionOnSet(g, B) # SumFunctionOnSet(h, B)}
<1> SUFFICES ASSUME T # {}  PROVE FALSE
    OBVIOUS
<1>0. T \in SUBSET SUBSET S
    OBVIOUS
<1> HIDE DEF T
<1>1. PICK A \in T : \A B \in T : ~(B \subseteq A /\ B # A)
    BY <1>0, LeastOfFinite
<1> USE DEF T
<1>2. A # {}
    <2>1. SumFunctionOnSet(g, {}) = 0 /\ SumFunctionOnSet(h, {}) = 0
        BY SumAdds
    <2>2. QED  BY <2>1
<1>3. Some(A) \in A
    BY <1>2, SomeIn
<1>4. SumFunctionOnSet(g, A \ {Some(A)}) = SumFunctionOnSet(h, A \ {Some(A)})
    BY <1>1, <1>3
<1>5. SumFunctionOnSet(g, A) = g[Some(A)] + SumFunctionOnSet(g, A \ {Some(A)})
    BY <1>2, SumAdds
<1>6. SumFunctionOnSet(h, A) = h[Some(A)] + SumFunctionOnSet(h, A \ {Some(A)})
    BY <1>2, SumAdds
<1>7. QED  BY <1>3, <1>4, <1>5, <1>6

\* One value changes.
LEMMA SumChanges ==
    ASSUME NEW S, IsFiniteSet(S), NEW g, NEW h, \A x \in S : g[x] \in Int,
           NEW c \in S, h[c] \in Int, \A x \in S \ {c} : h[x] = g[x]
    PROVE  SumFunctionOnSet(h, S) = SumFunctionOnSet(g, S) - g[c] + h[c]
<1>1. SumFunctionOnSet(g, S) = g[c] + SumFunctionOnSet(g, S \ {c})
    BY SumWithout
<1>2. \A x \in S : h[x] \in Int
    OBVIOUS
<1>3. SumFunctionOnSet(h, S) = h[c] + SumFunctionOnSet(h, S \ {c})
    BY <1>2, SumWithout
<1>4. SumFunctionOnSet(g, S \ {c}) = SumFunctionOnSet(h, S \ {c})
    <2>1. IsFiniteSet(S \ {c})
        BY FS_Subset
    <2>2. QED  BY <2>1, SumSame
<1>5. g[c] \in Int /\ h[c] \in Int /\ SumFunctionOnSet(g, S \ {c}) \in Int
    BY SumInt
<1>6. QED  BY <1>1, <1>3, <1>4, <1>5

\* One more, of a set under another function that agrees.
LEMMA SumOneMore ==
    ASSUME NEW S, IsFiniteSet(S), NEW g, NEW h, \A x \in S : g[x] \in Int /\ h[x] = g[x],
           NEW c, c \notin S, h[c] \in Int
    PROVE  SumFunctionOnSet(h, S \cup {c}) = SumFunctionOnSet(g, S) + h[c]
<1> DEFINE A == S \cup {c}
<1>1. IsFiniteSet(A) /\ c \in A /\ A \ {c} = S
    BY FS_AddElement
<1>2. \A x \in A : h[x] \in Int
    OBVIOUS
<1> HIDE DEF A
<1>3. SumFunctionOnSet(h, A) = h[c] + SumFunctionOnSet(h, S)
    BY <1>1, <1>2, SumWithout
<1>4. SumFunctionOnSet(h, S) = SumFunctionOnSet(g, S)
    BY SumSame
<1>5. SumFunctionOnSet(g, S) \in Int
    BY SumInt
<1>6. QED  BY <1>3, <1>4, <1>5 DEF A

-----------------------------------------------------------------------------
(* Scores.                                                                  *)

\* A submission up to its row.
Stage    == {"status", "previous", "placement", "duplicate", "demote", "insert"}
Row      == [play : Play, status : {"best", "submitted", "failed", "wiped"}]
EarlyJob == [at : Stage, play : Play, on : Session, prev : Nat \cup Play \cup {None},
             status : {"none", "best", "submitted", "failed"}]
Early    == {t \in Task : task[t].at \in Stage}

ScoresType ==
    /\ scores \in Seq(Row)
    /\ current \in Session \cup {None} /\ loading \in Session \cup {None}
    /\ DOMAIN task = Task
    /\ \A t \in Task : "at" \in DOMAIN task[t] /\ (task[t].at \in Stage => task[t] \in EarlyJob)

\* Submissions that meet are known to.
MeetingsAreKnown == \A t, u \in Early :
    Place(task[t].play) = Place(task[u].play) /\ Place(task[t].play) \notin contended => t = u

Passed(k) == {i \in Kept : scores[i].status # "failed" /\ Place(scores[i].play) = k}

\* A task is about to make its score the best.
Promoting(k) == \E t \in Early : task[t].at = "insert" /\ task[t].status = "best" /\ Place(task[t].play) = k

\* The best score of a place is one of those with the most pp.
Ranks(i) == \E j \in Kept : BestRows(scores[i].play) = {j} /\ scores[j].play.pp >= scores[i].play.pp
Ranking == \A i \in Kept :
    /\ scores[i].status # "failed"
    /\ Place(scores[i].play) \notin contended /\ ~Promoting(Place(scores[i].play))
    => Ranks(i)

\* What a submission has found out is still so.
Knows(t) == LET p == task[t].play IN
    /\ task[t].at = "previous" => task[t].prev \in BestRows(p)
    /\ task[t].at \in {"placement", "duplicate", "demote"} /\ task[t].status = "best" =>
          \A i \in BestRows(p) : scores[i].play.pp < p.pp
    /\ task[t].at \in {"placement", "duplicate", "insert"} /\ task[t].status = "submitted" =>
          \E i \in BestRows(p) : scores[i].play.pp >= p.pp
    /\ task[t].at \in {"demote", "insert"} => ~Duplicate(p)
    /\ task[t].at = "insert" /\ task[t].status = "best" =>
          BestRows(p) = {} /\ \A i \in Passed(Place(p)) : scores[i].play.pp =< p.pp
SubmissionsKnow == \A t \in Early : Place(task[t].play) \notin contended => Knows(t)

\* What they know whatever meets.
KnowsAnyway(t) ==
    /\ task[t].at = "previous" => task[t].prev \in DOMAIN scores
    /\ task[t].at = "demote" => task[t].status = "best"
    /\ task[t].at = "insert" => task[t].status # "none"

ScoresInv == /\ ScoresType /\ MeetingsAreKnown /\ Ranking /\ SubmissionsKnow
             /\ \A t \in Early : KnowsAnyway(t)
             /\ NoDuplicate

\* The rows of a place are as they were.
SameRows(k) ==
    /\ \A i \in DOMAIN scores : Place(scores[i].play) = k => i \in DOMAIN scores' /\ scores'[i] = scores[i]
    /\ \A i \in DOMAIN scores' : Place(scores'[i].play) = k => i \in DOMAIN scores /\ scores'[i] = scores[i]

LEMMA SamePlace ==
    ASSUME NEW p, SameRows(Place(p))
    PROVE  /\ BestRows(p)' = BestRows(p)
           /\ Duplicate(p)' <=> Duplicate(p)
           /\ Passed(Place(p))' = Passed(Place(p))
           /\ \A i \in BestRows(p) : scores'[i] = scores[i]
           /\ \A i \in Passed(Place(p)) : scores'[i] = scores[i]
<1> DEFINE k == Place(p)
<1>1. \A i : i \in DOMAIN scores /\ Place(scores[i].play) = k <=> i \in DOMAIN scores' /\ Place(scores'[i].play) = k
    BY DEF SameRows
<1>2. \A i \in DOMAIN scores : Place(scores[i].play) = k => scores'[i] = scores[i]
    BY DEF SameRows
<1>3. BestRows(p)' = BestRows(p)
    <2>1. \A i : i \in {x \in DOMAIN scores : scores[x].status = "best" /\ Place(scores[x].play) = k} <=>
                 i \in {x \in DOMAIN scores' : scores'[x].status = "best" /\ Place(scores'[x].play) = k}
        BY <1>1, <1>2
    <2> HIDE DEF k
    <2>2. {x \in DOMAIN scores : scores[x].status = "best" /\ Place(scores[x].play) = k} =
          {x \in DOMAIN scores' : scores'[x].status = "best" /\ Place(scores'[x].play) = k}
        BY <2>1
    <2>3. QED  BY <2>2 DEF BestRows, k, Place
<1>4. \A i : i \in Passed(k) <=> i \in DOMAIN scores /\ scores[i].status \notin {"wiped", "failed"} /\ Place(scores[i].play) = k
    BY DEF Passed, Kept
<1>5. \A i : i \in Passed(k)' <=> i \in DOMAIN scores' /\ scores'[i].status \notin {"wiped", "failed"} /\ Place(scores'[i].play) = k
    BY DEF Passed, Kept, Place
<1>6. Passed(k)' = Passed(k)
    BY <1>1, <1>2, <1>4, <1>5
<1>7. ASSUME NEW i \in DOMAIN scores, scores[i].play = p
      PROVE  i \in DOMAIN scores' /\ scores'[i] = scores[i]
    BY <1>7 DEF SameRows
<1>8. ASSUME NEW i \in DOMAIN scores', scores'[i].play = p
      PROVE  i \in DOMAIN scores /\ scores'[i] = scores[i]
    BY <1>8 DEF SameRows
<1>9. Duplicate(p)' <=> Duplicate(p)
    BY <1>7, <1>8 DEF Duplicate
<1>10. \A i \in BestRows(p) : scores'[i] = scores[i]
    BY <1>2 DEF BestRows
<1>11. \A i \in Passed(k) : scores'[i] = scores[i]
    BY <1>2, <1>4
<1>12. QED  BY <1>3, <1>6, <1>9, <1>10, <1>11

\* What a submission knows of a place stays as long as the rows do.
LEMMA StillKnows ==
    ASSUME NEW t \in Task, task'[t] = task[t], SameRows(Place(task[t].play)), Knows(t)
    PROVE  Knows(t)'
<1>1. PICK p : p = task[t].play
    OBVIOUS
<1>2. /\ BestRows(p)' = BestRows(p)
      /\ Duplicate(p)' <=> Duplicate(p)
      /\ Passed(Place(p))' = Passed(Place(p))
      /\ \A i \in BestRows(p) : scores'[i] = scores[i]
      /\ \A i \in Passed(Place(p)) : scores'[i] = scores[i]
    BY <1>1, SamePlace
<1>3. task'[t].play = p
    BY <1>1
<1>4. task[t].at = "previous" => task[t].prev \in BestRows(p)'
    BY <1>1, <1>2 DEF Knows
<1>5. task[t].at \in {"placement", "duplicate", "demote"} /\ task[t].status = "best" =>
          \A i \in BestRows(p)' : scores'[i].play.pp < p.pp
    BY <1>1, <1>2 DEF Knows
<1>6. task[t].at \in {"placement", "duplicate", "insert"} /\ task[t].status = "submitted" =>
          \E i \in BestRows(p)' : scores'[i].play.pp >= p.pp
    BY <1>1, <1>2 DEF Knows
<1>7. task[t].at \in {"demote", "insert"} => ~Duplicate(p)'
    BY <1>1, <1>2 DEF Knows
<1>8. task[t].at = "insert" /\ task[t].status = "best" =>
          BestRows(p)' = {} /\ \A i \in Passed(Place(p))' : scores'[i].play.pp =< p.pp
    BY <1>1, <1>2 DEF Knows
<1>9. QED  BY <1>3, <1>4, <1>5, <1>6, <1>7, <1>8 DEF Knows

LEMMA StillRanks ==
    ASSUME NEW i \in Kept, SameRows(Place(scores[i].play)), Ranks(i)
    PROVE  Ranks(i)'
<1>1. PICK p : p = scores[i].play
    OBVIOUS
<1>2. BestRows(p)' = BestRows(p) /\ \A j \in BestRows(p) : scores'[j] = scores[j]
    BY <1>1, SamePlace
<1>3. PICK j \in Kept : BestRows(p) = {j} /\ scores[j].play.pp >= p.pp
    BY <1>1 DEF Ranks
<1>4. scores'[j] = scores[j]
    BY <1>2, <1>3
<1>5. scores'[i] = scores[i] /\ scores'[i].play = p
    BY <1>1 DEF SameRows, Kept
<1>6. j \in Kept'
    <2>1. j \in BestRows(p)'
        BY <1>2, <1>3
    <2>2. j \in DOMAIN scores' /\ scores'[j].status = "best"
        BY <2>1 DEF BestRows
    <2>3. QED  BY <2>2 DEF Kept
<1>7. QED  BY <1>2, <1>3, <1>4, <1>5, <1>6 DEF Ranks

\* One submission goes on, and the rows of its place change at most.  What is
\* to be shown is what happens there.
LEMMA TaskStep ==
    ASSUME ScoresInv, ScoresType', NEW t \in Task, NEW k,
           \A u \in Task : u # t => task'[u] = task[u],
           contended \subseteq contended',
           \A q : q # k => SameRows(q),
           t \in Early => Place(task[t].play) = k,
           t \in Early' => Place(task[t].play)' = k,
           t \in Early' /\ k \notin contended' =>
               Knows(t)' /\ \A u \in Early : u # t => Place(task[u].play) # k,
           t \in Early' => KnowsAnyway(t)',
           DOMAIN scores \subseteq DOMAIN scores',
           \A u \in Early : u # t /\ Place(task[u].play) = k /\ k \notin contended' => SameRows(k),
           \A i \in Kept' : /\ scores'[i].status # "failed" /\ Place(scores'[i].play) = k
                            /\ k \notin contended' /\ ~Promoting(k)'
                            => Ranks(i)',
           \A i, j \in Kept' : scores'[i].play = scores'[j].play /\ Place(scores'[i].play) = k /\ k \notin contended' => i = j
    PROVE  ScoresInv'
<1> USE DEF ScoresInv
<1>1. \A u \in Task : u # t => (u \in Early' <=> u \in Early)
    BY DEF Early
<1>2. MeetingsAreKnown'
    <2> SUFFICES ASSUME NEW u \in Early', NEW v \in Early',
                        Place(task'[u].play) = Place(task'[v].play), Place(task'[u].play) \notin contended', u # v
                 PROVE  FALSE
        BY DEF MeetingsAreKnown, Place
    <2>1. u \in Task /\ v \in Task
        BY DEF Early
    <2>2. CASE u # t /\ v # t
        BY <1>1, <2>1, <2>2 DEF MeetingsAreKnown
    <2>3. CASE u = t
        <3>1. v \in Early /\ Place(task[v].play) = k
            BY <1>1, <2>1, <2>3 DEF Place
        <3>2. QED  BY <2>1, <2>3, <3>1 DEF Place
    <2>4. CASE v = t
        <3>1. u \in Early /\ Place(task[u].play) = k
            BY <1>1, <2>1, <2>4 DEF Place
        <3>2. QED  BY <2>1, <2>4, <3>1 DEF Place
    <2>5. QED  BY <2>2, <2>3, <2>4
<1>3. SubmissionsKnow'
    <2> SUFFICES ASSUME NEW u \in Early', Place(task'[u].play) \notin contended'
                 PROVE  Knows(u)'
        BY DEF SubmissionsKnow, Place
    <2>1. u \in Task
        BY DEF Early
    <2>2. CASE u = t
        BY <2>2 DEF Place
    <2>3. CASE u # t
        <3>1. u \in Early /\ task'[u] = task[u] /\ Place(task[u].play) \notin contended
            BY <1>1, <2>1, <2>3
        <3>2. Knows(u)
            BY <3>1 DEF SubmissionsKnow
        <3>3. SameRows(Place(task[u].play))
            BY <2>3, <3>1
        <3>4. QED  BY <2>1, <3>1, <3>2, <3>3, StillKnows
    <2>4. QED  BY <2>2, <2>3
<1>4. \A u \in Early' : KnowsAnyway(u)'
    <2> SUFFICES ASSUME NEW u \in Early', u # t PROVE KnowsAnyway(u)'
        OBVIOUS
    <2>1. u \in Early /\ task'[u] = task[u]
        BY <1>1 DEF Early
    <2>2. KnowsAnyway(u)
        BY <2>1
    <2>3. QED  BY <2>1, <2>2 DEF KnowsAnyway
<1>5. Ranking'
    <2> SUFFICES ASSUME NEW i \in Kept', scores'[i].status # "failed",
                        Place(scores'[i].play) \notin contended', ~Promoting(Place(scores[i].play))'
                 PROVE  Ranks(i)'
        BY DEF Ranking, Place
    <2>1. PICK q : q = Place(scores'[i].play)
        OBVIOUS
    <2>2. ~Promoting(q)'
        BY <2>1 DEF Place, Promoting
    <2>3. CASE q = k
        BY <2>1, <2>2, <2>3
    <2>4. CASE q # k
        <3>1. i \in DOMAIN scores /\ scores'[i] = scores[i]
            BY <2>1, <2>4 DEF SameRows, Kept
        <3>2. i \in Kept /\ scores[i].status # "failed" /\ q = Place(scores[i].play) /\ q \notin contended
            BY <2>1, <3>1 DEF Kept
        <3>3. ~Promoting(q)
            <4> SUFFICES ASSUME NEW u \in Early, task[u].at = "insert", task[u].status = "best", Place(task[u].play) = q
                         PROVE  FALSE
                BY DEF Promoting
            <4>1. u # t /\ u \in Task
                BY <2>4 DEF Early
            <4>2. u \in Early' /\ task'[u] = task[u]
                BY <1>1, <4>1
            <4>3. QED  BY <2>2, <4>2 DEF Promoting, Place
        <3>4. Ranks(i)
            BY <3>2, <3>3 DEF Ranking
        <3>5. SameRows(q)
            BY <2>4
        <3>6. QED  BY <3>2, <3>4, <3>5, StillRanks
    <2>5. QED  BY <2>3, <2>4
<1>6. NoDuplicate'
    <2> SUFFICES ASSUME NEW i \in Kept', NEW j \in Kept', scores'[i].play = scores'[j].play,
                        Place(scores'[i].play) \notin contended'
                 PROVE  i = j
        BY DEF NoDuplicate, Place
    <2>1. PICK q : q = Place(scores'[i].play) /\ q = Place(scores'[j].play)
        OBVIOUS
    <2>2. CASE q = k
        BY <2>1, <2>2
    <2>3. CASE q # k
        <3>1. i \in DOMAIN scores /\ scores'[i] = scores[i] /\ j \in DOMAIN scores /\ scores'[j] = scores[j]
            BY <2>1, <2>3 DEF SameRows, Kept
        <3>2. i \in Kept /\ j \in Kept
            BY <3>1 DEF Kept
        <3>3. QED  BY <3>1, <3>2 DEF NoDuplicate
    <2>4. QED  BY <2>2, <2>3
<1>7. QED  BY <1>2, <1>3, <1>4, <1>5, <1>6

\* No row changes, and it was not in the middle of storing its score.
LEMMA QuietStep ==
    ASSUME ScoresInv, ScoresType', NEW t \in Task, UNCHANGED scores,
           \A u \in Task : u # t => task'[u] = task[u],
           contended \subseteq contended',
           task[t].at # "insert",
           t \in Early /\ t \in Early' => task'[t].play = task[t].play,
           t \in Early' /\ t \notin Early =>
               \A u \in Early : Place(task[u].play) = Place(task'[t].play) => Place(task'[t].play) \in contended',
           t \in Early' /\ Place(task'[t].play) \notin contended' => Knows(t)',
           t \in Early' => KnowsAnyway(t)'
    PROVE  ScoresInv'
<1>1. \A q : SameRows(q)
    BY DEF SameRows
<1>2. PICK k : (t \in Early' => k = Place(task'[t].play)) /\ (t \in Early => k = Place(task[t].play))
    <2>1. CASE t \in Early'
        <3>1. t \in Early => Place(task'[t].play) = Place(task[t].play)
            BY <2>1
        <3>2. QED  BY <2>1, <3>1
    <2>2. CASE t \notin Early'
        BY <2>2
    <2>3. QED  BY <2>1, <2>2
<1>3. t \in Early' /\ k \notin contended' => Knows(t)' /\ \A u \in Early : u # t => Place(task[u].play) # k
    BY <1>2 DEF ScoresInv, MeetingsAreKnown
<1>4. t \in Early' => Place(task[t].play)' = k
    BY <1>2 DEF Place
<1>5. ASSUME NEW i \in Kept', scores'[i].status # "failed", Place(scores'[i].play) = k,
             k \notin contended', ~Promoting(k)'
      PROVE  Ranks(i)'
    <2>1. i \in Kept /\ scores[i].status # "failed" /\ Place(scores[i].play) = k /\ k \notin contended
        BY <1>5 DEF Kept
    <2>2. ~Promoting(k)
        <3> SUFFICES ASSUME NEW u \in Early, task[u].at = "insert", task[u].status = "best", Place(task[u].play) = k
                     PROVE  FALSE
            BY DEF Promoting
        <3>1. u # t /\ u \in Task
            BY DEF Early
        <3>2. task'[u] = task[u] /\ u \in Early'
            BY <3>1 DEF Early
        <3>3. QED  BY <1>5, <3>2 DEF Promoting, Place
    <2>3. Ranks(i)
        BY <2>1, <2>2 DEF ScoresInv, Ranking
    <2>4. QED  BY <1>1, <2>1, <2>3, StillRanks
<1>6. ASSUME NEW i \in Kept', NEW j \in Kept', scores'[i].play = scores'[j].play, Place(scores'[i].play) = k, k \notin contended'
      PROVE  i = j
    <2>1. i \in Kept /\ j \in Kept /\ Place(scores[i].play) \notin contended
        BY <1>6 DEF Kept
    <2>2. QED  BY <1>6, <2>1 DEF ScoresInv, NoDuplicate
<1>7. QED  BY <1>1, <1>2, <1>3, <1>4, <1>5, <1>6, TaskStep

LEMMA TaskGoes ==
    ASSUME DOMAIN task = Task, NEW t \in Task, NEW to, Goes(t, to)
    PROVE  /\ task'[t] = to /\ DOMAIN task' = Task
           /\ \A u \in Task : u # t => task'[u] = task[u]
BY DEF Goes

\* A task that has its job in a later stage, or is done.
LEMMA GoesTyped ==
    ASSUME ScoresType, NEW t \in Task, NEW to, Goes(t, to), UNCHANGED <<scores, current, loading>>,
           "at" \in DOMAIN to, to.at \in Stage => to \in EarlyJob
    PROVE  /\ ScoresType'
           /\ task'[t] = to
           /\ \A u \in Task : u # t => task'[u] = task[u]
<1>1. /\ task'[t] = to /\ DOMAIN task' = Task
      /\ \A u \in Task : u # t => task'[u] = task[u]
    BY TaskGoes DEF ScoresType
<1>2. \A u \in Task : "at" \in DOMAIN task'[u] /\ (task'[u].at \in Stage => task'[u] \in EarlyJob)
    BY <1>1 DEF ScoresType
<1>3. QED  BY <1>1, <1>2 DEF ScoresType

LEMMA PlaysHavePp ==
    ASSUME NEW p \in Play
    PROVE  p.pp \in Nat
BY PlayAssumption

\* The rows are records of plays.
LEMMA RowsTyped ==
    ASSUME ScoresType
    PROVE  /\ DOMAIN scores = 1..Len(scores) /\ Len(scores) \in Nat
           /\ \A i \in DOMAIN scores : scores[i] \in Row /\ scores[i].play \in Play /\ scores[i].play.pp \in Nat
<1>1. scores \in Seq(Row)
    BY DEF ScoresType
<1>2. DOMAIN scores = 1..Len(scores) /\ Len(scores) \in Nat /\ \A i \in DOMAIN scores : scores[i] \in Row
    BY <1>1
<1>3. \A i \in DOMAIN scores : scores[i].play \in Play
    BY <1>2 DEF Row
<1>4. QED  BY <1>2, <1>3, PlaysHavePp

\* Where submissions do not meet, a map and mode has one best score, when it has any.
LEMMA OneIsBest ==
    ASSUME ScoresInv, NEW i, NEW p, i \in BestRows(p), Place(p) \notin contended, ~Promoting(Place(p))
    PROVE  BestRows(p) = {i}
<1>1. i \in Kept /\ scores[i].status # "failed" /\ Place(scores[i].play) = Place(p)
    BY DEF BestRows, Kept
<1>2. Ranks(i)
    BY <1>1 DEF ScoresInv, Ranking
<1>3. PICK j \in Kept : BestRows(scores[i].play) = {j}
    BY <1>2 DEF Ranks
<1>4. BestRows(scores[i].play) = BestRows(p)
    BY <1>1 DEF BestRows
<1>5. QED  BY <1>3, <1>4

LEMMA NobodyPromotes ==
    ASSUME ScoresInv, NEW t \in Early, Place(task[t].play) \notin contended,
           task[t].at # "insert" \/ task[t].status # "best"
    PROVE  ~Promoting(Place(task[t].play))
BY DEF ScoresInv, MeetingsAreKnown, Promoting

LEMMA SubmitKeeps ==
    ASSUME ScoresInv, NEW t \in Task, NEW p \in Play, osuSubmit(t, p)
    PROVE  ScoresInv'
<1>1. PICK file \in BOOLEAN :
          Goes(t, [at     |-> IF file /\ p.passed THEN "status" ELSE "duplicate",
                   play   |-> p, on |-> current, prev |-> None,
                   status |-> IF file /\ ~p.passed THEN "failed" ELSE "none"])
    BY DEF osuSubmit
<1> DEFINE at == IF file /\ p.passed THEN "status" ELSE "duplicate"
           status == IF file /\ ~p.passed THEN "failed" ELSE "none"
           q == [at |-> at, play |-> p, on |-> current, prev |-> None, status |-> status]
<1>2. /\ task[t] = Idle /\ current # None /\ UNCHANGED <<scores, current, loading>>
      /\ contended' = contended \cup (Places(Busy) \cap {Place(p)})
    BY DEF osuSubmit
<1>3. at \in {"status", "duplicate"} /\ status \in {"failed", "none"}
    OBVIOUS
<1>4. Goes(t, q)
    BY <1>1
<1> HIDE DEF at, status
<1>5. q \in EarlyJob
    BY <1>2, <1>3 DEF EarlyJob, Stage, ScoresInv, ScoresType
<1>6. q.at = at /\ q.status = status /\ q.play = p /\ "at" \in DOMAIN q
    OBVIOUS
<1> HIDE DEF q
<1>7. /\ ScoresType'
      /\ task'[t] = q
      /\ \A u \in Task : u # t => task'[u] = task[u]
    BY <1>2, <1>4, <1>5, <1>6, GoesTyped DEF ScoresInv
<1>8. task[t].at = "idle" /\ t \notin Early
    BY <1>2 DEF Idle, Early, Stage
<1>9. \A u \in Early : Place(task[u].play) = Place(p) => Place(p) \in contended'
    <2> SUFFICES ASSUME NEW u \in Early, Place(task[u].play) = Place(p)
                 PROVE  Place(p) \in Places(Busy)
        BY <1>2
    <2>1. u \in Busy
        BY DEF Early, Busy, Idle, Stage
    <2>2. QED  BY <2>1 DEF Places
<1>10. Knows(t)' /\ KnowsAnyway(t)'
    BY <1>3, <1>6, <1>7 DEF Knows, KnowsAnyway
<1>11. QED  BY <1>2, <1>6, <1>7, <1>8, <1>9, <1>10, QuietStep

LEMMA StatusKeeps ==
    ASSUME ScoresInv, NEW t \in Task, calculate_status(t)
    PROVE  ScoresInv'
<1> DEFINE p == task[t].play
           old == task[t]
<1>1. /\ task[t].at = "status" /\ UNCHANGED <<scores, current, loading, contended>>
      /\ \/ BestRows(p) = {} /\ Goes(t, [old EXCEPT !.at = "placement", !.status = "best"])
         \/ \E i \in BestRows(p) : Goes(t, [old EXCEPT !.at = "previous", !.prev = i])
    BY DEF calculate_status
<1>2. old \in EarlyJob /\ t \in Early
    BY <1>1 DEF ScoresInv, ScoresType, Stage, Early
<1> HIDE DEF old
<1>3. CASE BestRows(p) = {} /\ Goes(t, [old EXCEPT !.at = "placement", !.status = "best"])
    <2> DEFINE q == [old EXCEPT !.at = "placement", !.status = "best"]
    <2>1. q \in EarlyJob
        BY <1>2 DEF EarlyJob, Stage
    <2>2. q.at = "placement" /\ q.status = "best" /\ q.play = old.play /\ "at" \in DOMAIN q
        BY <1>2 DEF EarlyJob
    <2>3. Goes(t, q)
        BY <1>3
    <2> HIDE DEF q
    <2>4. /\ ScoresType'
          /\ task'[t] = q
          /\ \A u \in Task : u # t => task'[u] = task[u]
        BY <1>1, <2>1, <2>2, <2>3, GoesTyped DEF ScoresInv
    <2>5. KnowsAnyway(t)'
        BY <2>2, <2>4 DEF KnowsAnyway
    <2>6. Knows(t)'
        <3>1. task'[t].play = p
            BY <2>2, <2>4 DEF old
        <3>2. BestRows(task[t].play)' = {}
            BY <1>1, <1>3, <3>1 DEF BestRows, Place
        <3>3. QED  BY <2>2, <2>4, <3>2 DEF Knows
    <2>7. task'[t].play = task[t].play
        BY <2>2, <2>4 DEF old
    <2>8. QED  BY <1>1, <1>2, <2>4, <2>5, <2>6, <2>7, QuietStep
<1>4. CASE \E i \in BestRows(p) : Goes(t, [old EXCEPT !.at = "previous", !.prev = i])
    <2>1. PICK i \in BestRows(p) : Goes(t, [old EXCEPT !.at = "previous", !.prev = i])
        BY <1>4
    <2>2. i \in DOMAIN scores /\ i \in Nat
        BY RowsTyped DEF BestRows, ScoresInv
    <2> DEFINE q == [old EXCEPT !.at = "previous", !.prev = i]
    <2>3. q \in EarlyJob
        BY <1>2, <2>2 DEF EarlyJob, Stage
    <2>4. q.at = "previous" /\ q.prev = i /\ q.play = old.play /\ "at" \in DOMAIN q
        BY <1>2 DEF EarlyJob
    <2>5. Goes(t, q)
        BY <2>1
    <2> HIDE DEF q
    <2>6. /\ ScoresType'
          /\ task'[t] = q
          /\ \A u \in Task : u # t => task'[u] = task[u]
        BY <1>1, <2>3, <2>4, <2>5, GoesTyped DEF ScoresInv
    <2>7. task'[t].play = task[t].play
        BY <2>4, <2>6 DEF old
    <2>8. KnowsAnyway(t)'
        BY <1>1, <2>2, <2>4, <2>6 DEF KnowsAnyway
    <2>9. Knows(t)'
        <3>1. i \in BestRows(task[t].play)'
            BY <1>1, <2>7 DEF BestRows, Place
        <3>2. QED  BY <2>4, <2>6, <3>1 DEF Knows
    <2>10. QED  BY <1>1, <1>2, <2>6, <2>7, <2>8, <2>9, QuietStep
<1>5. QED  BY <1>1, <1>3, <1>4

LEMMA PreviousKeeps ==
    ASSUME ScoresInv, NEW t \in Task, from_sql(t)
    PROVE  ScoresInv'
<1> DEFINE p == task[t].play
           old == scores[task[t].prev]
           better == p.pp > old.play.pp
           prev == IF old.status = "wiped" THEN None ELSE old.play
           status == IF better THEN "best" ELSE "submitted"
           q == [task[t] EXCEPT !.at = "placement", !.prev = prev, !.status = status]
<1>1. /\ task[t].at = "previous" /\ UNCHANGED <<scores, current, loading, contended>>
      /\ Goes(t, Idle) \/ Goes(t, q)
    BY DEF from_sql
<1>2. task[t] \in EarlyJob /\ t \in Early /\ task[t].prev \in DOMAIN scores
    BY <1>1 DEF ScoresInv, ScoresType, Stage, Early, KnowsAnyway
<1>3. old \in Row /\ old.play \in Play /\ old.play.pp \in Nat
    BY <1>2, RowsTyped DEF ScoresInv
<1>4. prev \in Play \cup {None} /\ status \in {"best", "submitted"}
    BY <1>3
<1>5. CASE Goes(t, Idle)
    <2>1. Idle.at \notin Stage /\ "at" \in DOMAIN Idle
        BY DEF Idle, Stage
    <2>2. /\ ScoresType'
          /\ task'[t] = Idle
          /\ \A u \in Task : u # t => task'[u] = task[u]
        BY <1>1, <1>5, <2>1, GoesTyped DEF ScoresInv
    <2>3. t \notin Early'
        BY <2>1, <2>2 DEF Early
    <2>4. QED  BY <1>1, <1>2, <2>2, <2>3, QuietStep
<1>6. CASE Goes(t, q)
    <2>1. q \in EarlyJob
        <3> HIDE DEF prev, status
        <3>1. QED  BY <1>2, <1>4 DEF EarlyJob, Stage
    <2>2. q.at = "placement" /\ q.status = status /\ q.play = task[t].play /\ "at" \in DOMAIN q
        <3> HIDE DEF prev, status
        <3>1. QED  BY <1>2 DEF EarlyJob
    <2> HIDE DEF q
    <2>3. /\ ScoresType'
          /\ task'[t] = q
          /\ \A u \in Task : u # t => task'[u] = task[u]
        BY <1>1, <1>6, <2>1, <2>2, GoesTyped DEF ScoresInv
    <2>4. KnowsAnyway(t)'
        BY <2>2, <2>3 DEF KnowsAnyway
    <2>5. ASSUME Place(task'[t].play) \notin contended'
          PROVE  Knows(t)'
        <3>1. Place(p) \notin contended
            BY <1>1, <2>2, <2>3, <2>5
        <3>2. task[t].prev \in BestRows(p)
            BY <1>1, <1>2, <3>1 DEF ScoresInv, SubmissionsKnow, Knows
        <3>3. BestRows(p) = {task[t].prev}
            BY <1>1, <1>2, <3>1, <3>2, OneIsBest, NobodyPromotes
        <3>4. p.pp \in Nat
            BY <1>2, PlaysHavePp DEF EarlyJob
        <3>5. status = "best" => \A i \in BestRows(p) : scores[i].play.pp < p.pp
            BY <1>3, <3>3, <3>4
        <3>6. status = "submitted" => \E i \in BestRows(p) : scores[i].play.pp >= p.pp
            BY <1>3, <3>3, <3>4
        <3>7. BestRows(task[t].play)' = BestRows(p) /\ task'[t].play = p
            BY <1>1, <2>2, <2>3 DEF BestRows, Place
        <3>8. task'[t].at = "placement" /\ task'[t].status = status /\ scores' = scores
            BY <1>1, <2>2, <2>3
        <3> HIDE DEF p, status
        <3>9. QED  BY <3>5, <3>6, <3>7, <3>8 DEF Knows
    <2>6. task'[t].play = task[t].play
        BY <2>2, <2>3
    <2>7. QED  BY <1>1, <1>2, <2>3, <2>4, <2>5, <2>6, QuietStep
<1>7. QED  BY <1>1, <1>5, <1>6

LEMMA PlacementKeeps ==
    ASSUME ScoresInv, NEW t \in Task, calculate_placement(t) \/ CheckDuplicate(t)
    PROVE  ScoresInv'
<1>1. /\ task[t].at \in {"placement", "duplicate"} /\ UNCHANGED <<scores, current, loading, contended>>
    BY DEF calculate_placement, CheckDuplicate
<1>2. task[t] \in EarlyJob /\ t \in Early
    BY <1>1 DEF ScoresInv, ScoresType, Stage, Early
<1>3. CASE Goes(t, Idle)
    <2>1. Idle.at \notin Stage /\ "at" \in DOMAIN Idle
        BY DEF Idle, Stage
    <2>2. /\ ScoresType'
          /\ task'[t] = Idle
          /\ \A u \in Task : u # t => task'[u] = task[u]
        BY <1>1, <1>3, <2>1, GoesTyped DEF ScoresInv
    <2>3. t \notin Early'
        BY <2>1, <2>2 DEF Early
    <2>4. QED  BY <1>1, <1>2, <2>2, <2>3, QuietStep
<1>4. ASSUME NEW at \in {"duplicate", "demote", "insert"}, Goes(t, [task[t] EXCEPT !.at = at]),
             task[t].at = "placement" => at = "duplicate",
             at \in {"demote", "insert"} => ~Duplicate(task[t].play) /\ task[t].status # "none",
             at = "demote" <=> at # "duplicate" /\ task[t].status = "best"
      PROVE  ScoresInv'
    <2> DEFINE q == [task[t] EXCEPT !.at = at]
    <2>1. q \in EarlyJob
        BY <1>2 DEF EarlyJob, Stage
    <2>2. q.at = at /\ q.status = task[t].status /\ q.play = task[t].play /\ "at" \in DOMAIN q
        BY <1>2 DEF EarlyJob
    <2> HIDE DEF q
    <2>3. /\ ScoresType'
          /\ task'[t] = q
          /\ \A u \in Task : u # t => task'[u] = task[u]
        BY <1>1, <1>4, <2>1, <2>2, GoesTyped DEF ScoresInv, q
    <2>4. KnowsAnyway(t)'
        BY <1>4, <2>2, <2>3 DEF KnowsAnyway
    <2>5. ASSUME Place(task'[t].play) \notin contended'
          PROVE  Knows(t)'
        <3>1. PICK p : p = task[t].play /\ p = task'[t].play
            BY <2>2, <2>3
        <3>2. Knows(t)
            BY <1>1, <1>2, <2>5, <3>1 DEF ScoresInv, SubmissionsKnow
        <3>3. BestRows(p)' = BestRows(p) /\ (Duplicate(p)' <=> Duplicate(p))
            BY <1>1 DEF BestRows, Duplicate, Place
        <3>4. task[t].status = "best" => \A i \in BestRows(p) : scores[i].play.pp < p.pp
            BY <1>1, <3>1, <3>2 DEF Knows
        <3>5. task[t].status = "submitted" => \E i \in BestRows(p) : scores[i].play.pp >= p.pp
            BY <1>1, <3>1, <3>2 DEF Knows
        <3>6. at \in {"demote", "insert"} => ~Duplicate(p)
            BY <1>4, <3>1
        <3>7. task'[t].at = at /\ task'[t].status = task[t].status /\ scores' = scores
            BY <1>1, <2>2, <2>3
        <3>8. QED  BY <1>4, <3>1, <3>3, <3>4, <3>5, <3>6, <3>7 DEF Knows
    <2>6. task'[t].play = task[t].play
        BY <2>2, <2>3
    <2>7. QED  BY <1>1, <1>2, <2>3, <2>4, <2>5, <2>6, QuietStep
<1>5. CASE calculate_placement(t)
    BY <1>4, <1>5 DEF calculate_placement
<1>6. CASE CheckDuplicate(t)
    <2>1. CASE Duplicate(task[t].play) \/ task[t].status = "none"
        BY <1>3, <1>6, <2>1 DEF CheckDuplicate
    <2>2. CASE ~(Duplicate(task[t].play) \/ task[t].status = "none")
        <3>1. task[t].at = "duplicate"
            BY <1>6 DEF CheckDuplicate
        <3>2. CASE task[t].status = "best"
            <4>1. Goes(t, [task[t] EXCEPT !.at = "demote"])
                BY <1>6, <2>2, <3>2 DEF CheckDuplicate
            <4>2. QED  BY <1>4, <2>2, <3>1, <3>2, <4>1
        <3>3. CASE task[t].status # "best"
            <4>1. Goes(t, [task[t] EXCEPT !.at = "insert"])
                BY <1>6, <2>2, <3>3 DEF CheckDuplicate
            <4>2. QED  BY <1>4, <2>2, <3>1, <3>3, <4>1
        <3>4. QED  BY <3>2, <3>3
    <2>3. QED  BY <2>1, <2>2
<1>7. QED  BY <1>5, <1>6

LEMMA DemoteKeeps ==
    ASSUME ScoresInv, NEW t \in Task, Demote(t)
    PROVE  ScoresInv'
<1>1. PICK p : p = task[t].play
    OBVIOUS
<1>2. PICK k : k = Place(p)
    OBVIOUS
<1>3. /\ task[t].at = "demote" /\ UNCHANGED <<current, loading, contended>>
      /\ scores' = [i \in DOMAIN scores |-> IF i \in BestRows(p)
                                            THEN [scores[i] EXCEPT !.status = "submitted"] ELSE scores[i]]
      /\ Goes(t, [task[t] EXCEPT !.at = "insert"])
    BY <1>1 DEF Demote, DemotedRows
<1>4. task[t] \in EarlyJob /\ t \in Early /\ task[t].status = "best"
    BY <1>3 DEF ScoresInv, ScoresType, Stage, Early, KnowsAnyway
<1>5. DOMAIN scores' = DOMAIN scores
    BY <1>3
<1>6. \A i \in DOMAIN scores : /\ scores[i] \in Row /\ scores'[i] \in Row
                               /\ scores'[i].play = scores[i].play
                               /\ scores'[i].status = IF i \in BestRows(p) THEN "submitted" ELSE scores[i].status
                               /\ i \notin BestRows(p) => scores'[i] = scores[i]
    <2> SUFFICES ASSUME NEW i \in DOMAIN scores
                 PROVE  /\ scores[i] \in Row /\ scores'[i] \in Row
                        /\ scores'[i].play = scores[i].play
                        /\ scores'[i].status = IF i \in BestRows(p) THEN "submitted" ELSE scores[i].status
                        /\ i \notin BestRows(p) => scores'[i] = scores[i]
        OBVIOUS
    <2>1. scores[i] \in Row
        BY RowsTyped DEF ScoresInv
    <2>2. CASE i \in BestRows(p)
        <3> DEFINE q == [scores[i] EXCEPT !.status = "submitted"]
        <3>1. q \in Row /\ q.play = scores[i].play /\ q.status = "submitted"
            BY <2>1 DEF Row
        <3>2. scores'[i] = q
            BY <1>3, <2>2
        <3> HIDE DEF q
        <3>3. QED  BY <2>1, <2>2, <3>1, <3>2
    <2>3. CASE i \notin BestRows(p)
        <3>1. scores'[i] = scores[i]
            BY <1>3, <2>3
        <3>2. QED  BY <2>1, <2>3, <3>1
    <2>4. QED  BY <2>2, <2>3
<1>7. scores' \in Seq(Row)
    <2>1. DOMAIN scores = 1..Len(scores) /\ Len(scores) \in Nat
        BY RowsTyped DEF ScoresInv
    <2>2. scores' \in [1..Len(scores) -> Row]
        BY <1>3, <1>6, <2>1
    <2>3. QED  BY <2>1, <2>2
<1> DEFINE q == [task[t] EXCEPT !.at = "insert"]
<1>8. q \in EarlyJob /\ q.at = "insert" /\ q.status = "best" /\ q.play = p /\ "at" \in DOMAIN q
    BY <1>1, <1>4 DEF EarlyJob, Stage
<1>9. Goes(t, q)
    BY <1>3
<1> HIDE DEF q
<1>10. /\ task'[t] = q /\ DOMAIN task' = Task
       /\ \A u \in Task : u # t => task'[u] = task[u]
    BY <1>9, TaskGoes DEF ScoresInv, ScoresType
<1>11. ScoresType'
    <2>1. \A u \in Task : "at" \in DOMAIN task'[u] /\ (task'[u].at \in Stage => task'[u] \in EarlyJob)
        BY <1>8, <1>10 DEF ScoresInv, ScoresType
    <2>2. QED  BY <1>3, <1>7, <1>10, <2>1 DEF ScoresInv, ScoresType
<1>12. \A r : r # k => SameRows(r)
    BY <1>2, <1>5, <1>6 DEF SameRows, BestRows
<1>13. t \in Early' /\ Place(task[t].play)' = k
    BY <1>2, <1>8, <1>10 DEF Early, Stage, Place
<1>14. \A u \in Early : u # t /\ Place(task[u].play) = k => k \in contended
    BY <1>1, <1>2, <1>4 DEF ScoresInv, MeetingsAreKnown
<1>15. KnowsAnyway(t)'
    BY <1>8, <1>10 DEF KnowsAnyway
<1>16. ASSUME k \notin contended
       PROVE  Knows(t)'
    <2>1. /\ \A i \in BestRows(p) : scores[i].play.pp < p.pp
          /\ ~Duplicate(p)
        BY <1>1, <1>2, <1>3, <1>4, <1>16 DEF ScoresInv, SubmissionsKnow, Knows
    <2>2. \A i \in DOMAIN scores : i \in BestRows(p) <=> scores[i].status = "best" /\ Place(scores[i].play) = k
        BY <1>2 DEF BestRows
    <2>3. BestRows(p)' = {}
        BY <1>2, <1>5, <1>6, <2>2 DEF BestRows, Place
    <2>4. ~Duplicate(p)'
        BY <1>5, <1>6, <2>1 DEF Duplicate, BestRows
    <2>5. \A i \in Passed(k)' : scores'[i].play.pp =< p.pp
        <3> SUFFICES ASSUME NEW i \in Passed(k)' PROVE scores'[i].play.pp =< p.pp
            OBVIOUS
        <3>1. i \in DOMAIN scores' /\ scores'[i].status \notin {"wiped", "failed"} /\ Place(scores'[i].play) = k
            BY DEF Passed, Kept, Place
        <3>2. i \in Kept /\ scores[i].status # "failed" /\ Place(scores[i].play) = k /\ scores'[i].play = scores[i].play
            BY <1>5, <1>6, <3>1 DEF Kept, BestRows
        <3>3. ~Promoting(k)
            BY <1>1, <1>2, <1>3, <1>4, <1>16, NobodyPromotes
        <3>4. Ranks(i)
            BY <1>16, <3>2, <3>3 DEF ScoresInv, Ranking
        <3>5. PICK j \in Kept : BestRows(scores[i].play) = {j} /\ scores[j].play.pp >= scores[i].play.pp
            BY <3>4 DEF Ranks
        <3>6. j \in BestRows(p)
            BY <1>2, <3>2, <3>5 DEF BestRows
        <3>7. scores[j].play.pp < p.pp /\ i \in DOMAIN scores /\ j \in DOMAIN scores
            BY <2>1, <3>2, <3>5, <3>6 DEF Kept
        <3>8. p.pp \in Nat /\ scores[i].play.pp \in Nat /\ scores[j].play.pp \in Nat
            BY <1>1, <1>4, <3>7, PlaysHavePp, RowsTyped DEF EarlyJob, ScoresInv
        <3>9. QED  BY <3>2, <3>5, <3>7, <3>8
    <2>6. task'[t].play = p /\ task'[t].at = "insert" /\ task'[t].status = "best"
        BY <1>8, <1>10
    <2>7. QED  BY <1>2, <2>3, <2>4, <2>5, <2>6 DEF Knows
<1>17. Promoting(k)'
    BY <1>8, <1>10, <1>13 DEF Promoting, Place
<1>18. ASSUME NEW i \in Kept', NEW j \in Kept', scores'[i].play = scores'[j].play, Place(scores'[i].play) = k, k \notin contended'
       PROVE  i = j
    <2>1. i \in Kept /\ j \in Kept /\ scores[i].play = scores[j].play /\ Place(scores[i].play) \notin contended
        BY <1>3, <1>5, <1>6, <1>18 DEF Kept, BestRows
    <2>2. QED  BY <2>1 DEF ScoresInv, NoDuplicate
<1>19. QED  BY <1>1, <1>2, <1>3, <1>5, <1>10, <1>11, <1>12, <1>13, <1>14, <1>15, <1>16, <1>17, <1>18, TaskStep

LEMMA InsertKeeps ==
    ASSUME ScoresInv, NEW t \in Task, Insert(t)
    PROVE  ScoresInv'
<1>1. PICK p : p = task[t].play
    OBVIOUS
<1>2. PICK k : k = Place(p)
    OBVIOUS
<1>3. PICK status : status = task[t].status
    OBVIOUS
<1> DEFINE stored == [play |-> p, status |-> status]
           q == [task[t] EXCEPT !.at = "stats"]
           n == Len(scores) + 1
<1>4. /\ task[t].at = "insert" /\ UNCHANGED <<loading, contended>>
      /\ current' \in {None, current}
      /\ scores' = Append(scores, stored)
      /\ Goes(t, q)
    BY <1>1, <1>3 DEF Insert
<1>5. /\ task[t] \in EarlyJob /\ t \in Early
      /\ p \in Play /\ p.pp \in Nat /\ status \in {"best", "submitted", "failed"}
    <2>1. task[t] \in EarlyJob /\ t \in Early
        BY <1>4 DEF ScoresInv, ScoresType, Stage, Early
    <2>2. p \in Play /\ status \in {"none", "best", "submitted", "failed"}
        BY <1>1, <1>3, <2>1 DEF EarlyJob
    <2>3. status # "none"
        BY <1>3, <1>4, <2>1 DEF ScoresInv, KnowsAnyway
    <2>4. QED  BY <2>1, <2>2, <2>3, PlaysHavePp
<1>6. q.at = "stats" /\ "at" \in DOMAIN q
    BY <1>5 DEF EarlyJob
<1> HIDE DEF q
<1>7. /\ task'[t] = q /\ DOMAIN task' = Task
      /\ \A u \in Task : u # t => task'[u] = task[u]
    BY <1>4, TaskGoes DEF ScoresInv, ScoresType
<1>8. /\ DOMAIN scores = 1..Len(scores) /\ Len(scores) \in Nat
      /\ \A i \in DOMAIN scores : scores[i].play.pp \in Nat
      /\ scores \in Seq(Row)
    BY RowsTyped DEF ScoresInv, ScoresType
<1>9. stored \in Row /\ stored.play = p /\ stored.status = status
    BY <1>5 DEF Row
<1> HIDE DEF stored
<1>10. /\ DOMAIN scores' = DOMAIN scores \cup {n} /\ n \notin DOMAIN scores
       /\ scores'[n] = stored
       /\ \A i \in DOMAIN scores : scores'[i] = scores[i]
       /\ scores' \in Seq(Row)
    BY <1>4, <1>8, <1>9
<1> HIDE DEF n
<1>11. ScoresType'
    <2>1. q.at \notin Stage
        BY <1>6 DEF Stage
    <2>2. \A u \in Task : "at" \in DOMAIN task'[u] /\ (task'[u].at \in Stage => task'[u] \in EarlyJob)
        BY <1>6, <1>7, <2>1 DEF ScoresInv, ScoresType
    <2>3. current' \in Session \cup {None} /\ loading' \in Session \cup {None}
        BY <1>4 DEF ScoresInv, ScoresType
    <2>4. QED  BY <1>7, <1>10, <2>2, <2>3 DEF ScoresType
<1>12. t \notin Early'
    BY <1>6, <1>7 DEF Early, Stage
<1>13. \A r : r # k => SameRows(r)
    BY <1>2, <1>9, <1>10 DEF SameRows
<1>14. \A u \in Early : u # t /\ Place(task[u].play) = k => k \in contended
    BY <1>1, <1>2, <1>5 DEF ScoresInv, MeetingsAreKnown
<1>15. k \notin contended => Knows(t)
    BY <1>1, <1>2, <1>5 DEF ScoresInv, SubmissionsKnow
<1>16. ASSUME NEW i \in Kept', scores'[i].status # "failed", Place(scores'[i].play) = k, k \notin contended
       PROVE  Ranks(i)'
    <2>1. i # n => i \in Kept /\ scores[i].status # "failed" /\ Place(scores[i].play) = k /\ scores'[i] = scores[i]
        BY <1>10, <1>16 DEF Kept
    <2>2. BestRows(scores[i].play)' = {j \in DOMAIN scores' : scores'[j].status = "best" /\ Place(scores'[j].play) = k}
        BY <1>16 DEF BestRows, Place
    <2>3. \A j \in DOMAIN scores : j \in BestRows(p) <=> scores[j].status = "best" /\ Place(scores[j].play) = k
        BY <1>2 DEF BestRows
    <2>4. BestRows(scores[i].play)' = BestRows(p) \cup (IF status = "best" THEN {n} ELSE {})
        <3>1. \A j : j \in BestRows(scores[i].play)' <=>
                     j \in BestRows(p) \/ (status = "best" /\ j = n)
            <4>1. BestRows(p) \subseteq DOMAIN scores
                BY DEF BestRows
            <4>2. QED  BY <1>2, <1>9, <1>10, <2>2, <2>3, <4>1
        <3>2. QED  BY <3>1
    <2>5. CASE status = "best"
        <3>1. BestRows(p) = {} /\ \A j \in Passed(k) : scores[j].play.pp =< p.pp
            BY <1>1, <1>2, <1>3, <1>4, <1>15, <1>16, <2>5 DEF Knows
        <3>2. BestRows(scores[i].play)' = {n}
            BY <2>4, <2>5, <3>1
        <3>3. n \in Kept' /\ scores'[n].play = p
            BY <1>9, <1>10, <2>5 DEF Kept
        <3>4. i # n => scores'[i].play.pp =< p.pp /\ scores'[i].play.pp \in Nat
            <4>1. i # n => i \in Passed(k) /\ i \in DOMAIN scores
                BY <2>1 DEF Passed, Kept
            <4>2. QED  BY <1>8, <2>1, <3>1, <4>1
        <3>5. scores'[n].play.pp >= scores'[i].play.pp
            BY <1>5, <3>3, <3>4
        <3>6. QED  BY <3>2, <3>3, <3>5 DEF Ranks
    <2>6. CASE status # "best"
        <3>1. ~Promoting(k)
            BY <1>1, <1>2, <1>3, <1>5, <1>16, <2>6, NobodyPromotes
        <3>2. BestRows(scores[i].play)' = BestRows(p)
            BY <2>4, <2>6
        <3>3. \E j \in BestRows(p) : BestRows(p) = {j} /\ scores[j].play.pp >= scores'[i].play.pp
            <4>1. CASE i # n
                <5>1. Ranks(i)
                    BY <1>16, <2>1, <3>1, <4>1 DEF ScoresInv, Ranking
                <5>2. PICK j \in Kept : BestRows(scores[i].play) = {j} /\ scores[j].play.pp >= scores[i].play.pp
                    BY <5>1 DEF Ranks
                <5>3. BestRows(scores[i].play) = BestRows(p)
                    BY <1>2, <2>1, <4>1 DEF BestRows
                <5>4. QED  BY <2>1, <4>1, <5>2, <5>3
            <4>2. CASE i = n
                <5>1. status = "submitted"
                    BY <1>5, <1>9, <1>10, <1>16, <2>6, <4>2
                <5>2. PICK j \in BestRows(p) : scores[j].play.pp >= p.pp
                    BY <1>1, <1>3, <1>4, <1>15, <1>16, <5>1 DEF Knows
                <5>3. BestRows(p) = {j}
                    BY <1>2, <1>16, <3>1, OneIsBest
                <5>4. scores'[i].play = p
                    BY <1>9, <1>10, <4>2
                <5>5. QED  BY <5>2, <5>3, <5>4
            <4>3. QED  BY <4>1, <4>2
        <3>4. PICK j \in BestRows(p) : BestRows(p) = {j} /\ scores[j].play.pp >= scores'[i].play.pp
            BY <3>3
        <3>5. j \in Kept' /\ scores'[j] = scores[j]
            BY <1>10 DEF BestRows, Kept
        <3>6. QED  BY <3>2, <3>4, <3>5 DEF Ranks
    <2>7. QED  BY <2>5, <2>6
<1>17. ASSUME NEW i \in Kept', NEW j \in Kept', scores'[i].play = scores'[j].play, Place(scores'[i].play) = k, k \notin contended
       PROVE  i = j
    <2>1. ~Duplicate(p)
        BY <1>1, <1>4, <1>15, <1>17 DEF Knows
    <2>2. \A x \in Kept' : x # n => x \in Kept /\ scores'[x] = scores[x] /\ scores[x].play # p
        BY <1>10, <2>1 DEF Kept, Duplicate
    <2>3. scores'[n].play = p
        BY <1>9, <1>10
    <2>4. CASE i # n /\ j # n
        BY <1>17, <2>2, <2>4 DEF ScoresInv, NoDuplicate
    <2>5. CASE i = n \/ j = n
        BY <1>17, <2>2, <2>3, <2>5
    <2>6. QED  BY <2>4, <2>5
<1>18. contended' = contended /\ DOMAIN scores \subseteq DOMAIN scores'
    BY <1>4, <1>10
<1>19. t \in Early => Place(task[t].play) = k
    BY <1>1, <1>2
<1>20. QED  BY <1>7, <1>11, <1>12, <1>13, <1>14, <1>16, <1>17, <1>18, <1>19, TaskStep

\* The row is there: the statistics are no matter of the scores.
LEMMA StatsKeep ==
    ASSUME ScoresInv, NEW t \in Task, AddToStats(t) \/ SelectBest(t) \/ UpdateStats(t)
    PROVE  ScoresInv'
<1>1. /\ task[t].at \in {"stats", "pp", "update"} /\ UNCHANGED <<scores, current, loading, contended>>
      /\ \E to : Goes(t, to) /\ "at" \in DOMAIN to /\ to.at \in {"pp", "update", "idle"}
    <2>1. CASE AddToStats(t)
        <3> DEFINE s == task[t].on
                   m == mode[s]
                   new == [mem[s][m] EXCEPT !.plays = @ + 1, !.rscore = @ + (IF Counts(t) THEN Gained(t) ELSE 0)]
                   at == IF Counts(t) THEN "pp" ELSE "update"
                   to == [at |-> at, play |-> task[t].play, on |-> s, counts |-> Counts(t), of |-> m, new |-> new]
        <3>1. Goes(t, to)
            BY <2>1 DEF AddToStats
        <3>2. at \in {"pp", "update"}
            OBVIOUS
        <3> HIDE DEF at, new, m, s
        <3>3. "at" \in DOMAIN to /\ to.at = at
            OBVIOUS
        <3>4. task[t].at = "stats" /\ UNCHANGED <<scores, current, loading, contended>>
            BY <2>1 DEF AddToStats
        <3> HIDE DEF to
        <3>5. QED  BY <3>1, <3>2, <3>3, <3>4
    <2>2. CASE SelectBest(t)
        <3>1. task[t].at = "pp" /\ UNCHANGED <<scores, current, loading, contended>>
            BY <2>2 DEF SelectBest
        <3>2. \/ Goes(t, Idle)
              \/ \E pp : Goes(t, [task[t] EXCEPT !.at = "update", !.new.pp = pp])
            BY <2>2 DEF SelectBest
        <3>3. "at" \in DOMAIN Idle /\ Idle.at = "idle"
            BY DEF Idle
        <3>4. ASSUME NEW pp PROVE LET to == [task[t] EXCEPT !.at = "update", !.new.pp = pp]
                                  IN  "at" \in DOMAIN to /\ to.at = "update"
            BY DEF ScoresInv, ScoresType
        <3>5. QED  BY <3>1, <3>2, <3>3, <3>4
    <2>3. CASE UpdateStats(t)
        BY <2>3 DEF UpdateStats, Idle
    <2>4. QED  BY <2>1, <2>2, <2>3
<1>2. PICK to : Goes(t, to) /\ "at" \in DOMAIN to /\ to.at \in {"pp", "update", "idle"}
    BY <1>1
<1>3. to.at \notin Stage
    BY <1>2 DEF Stage
<1>4. /\ ScoresType'
      /\ task'[t] = to
      /\ \A u \in Task : u # t => task'[u] = task[u]
    BY <1>1, <1>2, <1>3, GoesTyped DEF ScoresInv
<1>5. t \notin Early /\ t \notin Early'
    BY <1>1, <1>3, <1>4 DEF Early, Stage
<1>6. QED  BY <1>1, <1>4, <1>5, QuietStep

LEMMA TasksStay ==
    ASSUME ScoresInv, UNCHANGED <<scores, task, contended>>, current' \in Session \cup {None}, loading' \in Session \cup {None}
    PROVE  ScoresInv'
<1>1. ScoresType'
    BY DEF ScoresInv, ScoresType
<1>2. MeetingsAreKnown' /\ Ranking' /\ SubmissionsKnow'
    BY DEF ScoresInv, MeetingsAreKnown, Ranking, SubmissionsKnow, Early, Place, Kept, Promoting, Ranks, Knows,
           BestRows, Duplicate, Passed
<1>3. (\A t \in Early : KnowsAnyway(t))' /\ NoDuplicate'
    BY DEF ScoresInv, NoDuplicate, Early, Place, Kept, KnowsAnyway
<1>4. QED  BY <1>1, <1>2, <1>3 DEF ScoresInv

LEMMA WipeKeeps ==
    ASSUME ScoresInv, NEW map, wipemap(map)
    PROVE  ScoresInv'
<1>1. /\ scores' = [i \in DOMAIN scores |-> IF scores[i].play.map = map
                                            THEN [scores[i] EXCEPT !.status = "wiped"] ELSE scores[i]]
      /\ contended' = contended \cup {k \in Places(Busy) : k[1] = map}
      /\ UNCHANGED <<task, current, loading>>
    BY DEF wipemap
<1>2. DOMAIN scores' = DOMAIN scores
    BY <1>1
<1>3. \A i \in DOMAIN scores :
          /\ scores'[i] \in Row /\ scores'[i].play = scores[i].play
          /\ scores[i].play.map = map => scores'[i].status = "wiped"
          /\ scores[i].play.map # map => scores'[i] = scores[i]
    <2> SUFFICES ASSUME NEW i \in DOMAIN scores
                 PROVE  /\ scores'[i] \in Row /\ scores'[i].play = scores[i].play
                        /\ scores[i].play.map = map => scores'[i].status = "wiped"
                        /\ scores[i].play.map # map => scores'[i] = scores[i]
        OBVIOUS
    <2>1. scores[i] \in Row
        BY RowsTyped DEF ScoresInv
    <2> DEFINE q == [scores[i] EXCEPT !.status = "wiped"]
    <2>2. q \in Row /\ q.play = scores[i].play /\ q.status = "wiped"
        BY <2>1 DEF Row
    <2>3. scores'[i] = IF scores[i].play.map = map THEN q ELSE scores[i]
        BY <1>1
    <2> HIDE DEF q
    <2>4. QED  BY <2>1, <2>2, <2>3
<1>4. ScoresType'
    <2>1. DOMAIN scores = 1..Len(scores) /\ Len(scores) \in Nat
        BY RowsTyped DEF ScoresInv
    <2>2. scores' \in [1..Len(scores) -> Row]
        BY <1>1, <1>3, <2>1
    <2>3. scores' \in Seq(Row)
        BY <2>1, <2>2
    <2>4. QED  BY <1>1, <2>3 DEF ScoresInv, ScoresType
<1>5. \A p : Place(p)[1] = p.map
    BY DEF Place
<1>6. \A k : k[1] # map => SameRows(k)
    BY <1>2, <1>3, <1>5 DEF SameRows
<1>7. \A i \in Kept' : i \in Kept /\ scores'[i] = scores[i] /\ scores[i].play.map # map
    BY <1>2, <1>3 DEF Kept
<1>8. ASSUME NEW t \in Early, Place(task[t].play) \notin contended'
      PROVE  task[t].play.map # map
    <2>1. t \in Busy
        BY DEF Early, Busy, Idle, Stage
    <2>2. Place(task[t].play) \in Places(Busy)
        BY <2>1 DEF Places
    <2>3. QED  BY <1>1, <1>5, <1>8, <2>2
<1>9. contended \subseteq contended' /\ Early' = Early
    BY <1>1 DEF Early
<1>10. MeetingsAreKnown'
    BY <1>1, <1>9 DEF ScoresInv, MeetingsAreKnown, Place
<1>11. SubmissionsKnow'
    <2> SUFFICES ASSUME NEW t \in Early, Place(task[t].play) \notin contended'
                 PROVE  Knows(t)'
        BY <1>1, <1>9 DEF SubmissionsKnow, Place
    <2>1. Knows(t)
        BY <1>9 DEF ScoresInv, SubmissionsKnow
    <2>2. SameRows(Place(task[t].play))
        BY <1>5, <1>6, <1>8
    <2>3. t \in Task
        BY DEF Early
    <2>4. QED  BY <1>1, <2>1, <2>2, <2>3, StillKnows
<1>12. (\A t \in Early : KnowsAnyway(t))'
    BY <1>1, <1>2, <1>9 DEF ScoresInv, KnowsAnyway
<1>13. Ranking'
    <2> SUFFICES ASSUME NEW i \in Kept', scores'[i].status # "failed",
                        Place(scores'[i].play) \notin contended', ~Promoting(Place(scores[i].play))'
                 PROVE  Ranks(i)'
        BY DEF Ranking, Place
    <2>1. i \in Kept /\ scores'[i] = scores[i] /\ scores[i].play.map # map
        BY <1>7
    <2>2. ~Promoting(Place(scores[i].play))
        BY <1>1, <1>9, <2>1 DEF Promoting, Place
    <2>3. Ranks(i)
        BY <1>9, <2>1, <2>2 DEF ScoresInv, Ranking
    <2>4. SameRows(Place(scores[i].play))
        BY <1>5, <1>6, <2>1
    <2>5. QED  BY <2>1, <2>3, <2>4, StillRanks
<1>14. NoDuplicate'
    <2> SUFFICES ASSUME NEW i \in Kept', NEW j \in Kept', scores'[i].play = scores'[j].play,
                        Place(scores'[i].play) \notin contended'
                 PROVE  i = j
        BY DEF NoDuplicate, Place
    <2>1. i \in Kept /\ scores'[i] = scores[i] /\ j \in Kept /\ scores'[j] = scores[j]
        BY <1>7
    <2>2. QED  BY <1>9, <2>1 DEF ScoresInv, NoDuplicate
<1>15. QED  BY <1>4, <1>10, <1>11, <1>12, <1>13, <1>14 DEF ScoresInv

LEMMA RestartKeeps ==
    ASSUME ScoresInv, Restart
    PROVE  ScoresInv'
<1>1. /\ current' = None /\ loading' = None /\ scores' = scores
      /\ task' = [t \in Task |-> Idle]
      /\ contended' = contended \cup Places(Busy)
    BY DEF Restart
<1>2. ScoresType' /\ Early' = {}
    BY <1>1 DEF ScoresInv, ScoresType, Early, Idle, Stage
<1>3. \A q : SameRows(q)
    BY <1>1 DEF SameRows
<1>4. MeetingsAreKnown' /\ SubmissionsKnow' /\ (\A t \in Early : KnowsAnyway(t))'
    BY <1>2 DEF MeetingsAreKnown, SubmissionsKnow
<1>5. Ranking'
    <2> SUFFICES ASSUME NEW i \in Kept, scores[i].status # "failed", Place(scores[i].play) \notin contended'
                 PROVE  Ranks(i)'
        BY <1>1 DEF Ranking, Place, Kept
    <2>1. ~Promoting(Place(scores[i].play))
        <3> SUFFICES ASSUME NEW u \in Early, Place(task[u].play) = Place(scores[i].play)
                     PROVE  FALSE
            BY DEF Promoting
        <3>1. u \in Busy
            BY DEF Early, Busy, Idle, Stage
        <3>2. Place(task[u].play) \in Places(Busy)
            BY <3>1 DEF Places
        <3>3. QED  BY <1>1, <3>2
    <2>2. Ranks(i)
        BY <1>1, <2>1 DEF ScoresInv, Ranking
    <2>3. QED  BY <1>3, <2>2, StillRanks
<1>6. NoDuplicate'
    BY <1>1 DEF ScoresInv, NoDuplicate, Kept, Place
<1>7. QED  BY <1>2, <1>4, <1>5, <1>6 DEF ScoresInv

LEMMA ScoresBegin == SubmissionInit => ScoresInv
<1> SUFFICES ASSUME SubmissionInit PROVE ScoresInv
    OBVIOUS
<1>1. scores = <<>> /\ current = None /\ loading = None /\ task = [t \in Task |-> Idle]
    BY DEF SubmissionInit
<1>2. ScoresType /\ Early = {}
    BY <1>1 DEF ScoresType, Early, Idle, Stage
<1>3. Kept = {}
    BY <1>1 DEF Kept
<1>4. QED  BY <1>2, <1>3 DEF ScoresInv, MeetingsAreKnown, Ranking, SubmissionsKnow, NoDuplicate

LEMMA ScoresGoOn == ScoresInv /\ [SubmissionNext]_svars => ScoresInv'
<1> SUFFICES ASSUME ScoresInv, [SubmissionNext]_svars PROVE ScoresInv'
    OBVIOUS
<1>1. current \in Session \cup {None} /\ loading \in Session \cup {None}
    BY DEF ScoresInv, ScoresType
<1>2. CASE UNCHANGED svars
    BY <1>1, <1>2, TasksStay DEF svars
<1>3. ASSUME NEW t \in Task, TaskNext(t)
      PROVE  ScoresInv'
    BY <1>3, SubmitKeeps, StatusKeeps, PreviousKeeps, PlacementKeeps, DemoteKeeps, InsertKeeps, StatsKeep DEF TaskNext
<1>4. CASE \E m \in Mode : ChangeAction(m)
    BY <1>1, <1>4, TasksStay DEF ChangeAction
<1>5. CASE Logout
    BY <1>1, <1>5, TasksStay DEF Logout
<1>6. CASE LoginEnds
    BY <1>1, <1>6, TasksStay DEF LoginEnds
<1>7. CASE \E s \in Session : LoginLoads(s)
    BY <1>1, <1>7, TasksStay DEF LoginLoads
<1>8. CASE \E p \in Play : wipemap(p.map)
    BY <1>8, WipeKeeps
<1>9. CASE Restart
    BY <1>9, RestartKeeps
<1>10. QED  BY <1>2, <1>3, <1>4, <1>5, <1>6, <1>7, <1>8, <1>9 DEF SubmissionNext

\* With nothing at work nothing is promoted.
LEMMA ScoresAreBest == ScoresInv => OneBest
<1> SUFFICES ASSUME ScoresInv, Busy = {},
                    NEW i \in Kept, scores[i].status # "failed", Place(scores[i].play) \notin contended
             PROVE  Ranks(i)
    BY DEF OneBest, Ranks
<1>1. Early = {}
    BY DEF Early, Busy, Idle, Stage
<1>2. ~Promoting(Place(scores[i].play))
    BY <1>1 DEF Promoting
<1>3. QED  BY <1>2 DEF ScoresInv, Ranking

LEMMA ScoresPartInv == Spec => [](part = "scores" => ScoresInv)
<1>1. Init => (part = "scores" => ScoresInv)
    BY ScoresBegin DEF Init
<1>2. (part = "scores" => ScoresInv) /\ [Next]_contentVars => (part = "scores" => ScoresInv)'
    <2>1. SUFFICES ASSUME part = "scores" => ScoresInv, [Next]_contentVars, part' = "scores"
                   PROVE  ScoresInv'
        OBVIOUS
    <2>2. part = "scores"
        BY <2>1 DEF Next, contentVars
    <2>3. [SubmissionNext]_svars
        BY <2>1, <2>2 DEF Next, contentVars
    <2>4. QED  BY <2>1, <2>2, <2>3, ScoresGoOn
<1>3. QED  BY <1>1, <1>2, PTL DEF Spec

\* However many plays, submissions and sessions there are: a play is stored once,
\* though its client sends it again, where no two submissions meet
\* (osu.py:749, 840).
THEOREM ScoresOnceAlways == Spec => []ScoresOnce
<1>1. (part = "scores" => ScoresInv) => ScoresOnce
    BY DEF ScoresOnce, ScoresInv
<1>2. QED  BY <1>1, ScoresPartInv, PTL

\* However many plays, submissions and sessions there are: with nothing at work the
\* scores of a map and mode have exactly one best, and it has the most pp, where no
\* two submissions met (osu.py:830-840, score.py:404-440).
THEOREM ScoresBestAlways == Spec => []ScoresBest
<1>1. (part = "scores" => ScoresInv) => ScoresBest
    BY ScoresAreBest DEF ScoresBest
<1>2. QED  BY <1>1, ScoresPartInv, PTL

-----------------------------------------------------------------------------
(* Statistics.                                                              *)

\* What the statistics of a mode should be.
Truth(m) == [plays |-> PlaysOf(m), rscore |-> Total(RankedRows(m), "score"), pp |-> Total(RankedRows(m), "pp")]

Numbers  == [plays : Int, rscore : Int, pp : Int]
Result   == {"best", "submitted", "failed"}
StatsJob == [at : {"stats"}, play : Play, on : Session, prev : Play \cup {None}, status : Result]
LateJob  == [at : {"pp", "update"}, play : Play, on : Session, counts : BOOLEAN, of : Mode, new : Numbers]

LEMMA PlayNumbers ==
    ASSUME NEW p \in Play
    PROVE  p.pp \in Nat /\ p.score \in Nat /\ p["pp"] \in Nat /\ p["score"] \in Nat /\ p.mode \in Mode
BY PlayAssumption DEF Mode

LEMMA RowsFinite ==
    ASSUME ScoresType
    PROVE  /\ IsFiniteSet(DOMAIN scores) /\ IsFiniteSet(Kept)
           /\ \A m : IsFiniteSet(RankedRows(m)) /\ RankedRows(m) \subseteq DOMAIN scores
           /\ \A m : IsFiniteSet({i \in Kept : scores[i].play.mode = m})
<1>1. IsFiniteSet(DOMAIN scores)
    BY RowsTyped, FS_Interval
<1>2. IsFiniteSet(Kept)
    BY <1>1, FS_Subset DEF Kept
<1>3. \A m : RankedRows(m) \subseteq DOMAIN scores
    BY DEF RankedRows
<1>4. QED  BY <1>1, <1>2, <1>3, FS_Subset

LEMMA TotalTyped ==
    ASSUME ScoresType, NEW m, NEW what \in {"pp", "score"}
    PROVE  Total(RankedRows(m), what) \in Int
<1> DEFINE R == RankedRows(m)
           g == [i \in R |-> scores[i].play[what]]
<1>1. IsFiniteSet(R) /\ \A i \in R : scores[i].play \in Play
    BY RowsFinite, RowsTyped DEF RankedRows
<1>2. \A i \in R : g[i] \in Int
    BY <1>1, PlayNumbers
<1>3. Total(R, what) = SumFunctionOnSet(g, R)
    BY DEF Total, SumFunction
<1> HIDE DEF g, R
<1>4. QED  BY <1>1, <1>2, <1>3, SumInt DEF R

LEMMA TruthTyped ==
    ASSUME ScoresType, NEW m
    PROVE  /\ Truth(m) \in Numbers
           /\ Truth(m).plays = PlaysOf(m) /\ PlaysOf(m) \in Nat
           /\ Truth(m).rscore = Total(RankedRows(m), "score") /\ Truth(m).pp = Total(RankedRows(m), "pp")
<1>1. PlaysOf(m) \in Nat
    BY RowsFinite, FS_CardinalityType DEF PlaysOf
<1>2. QED  BY <1>1, TotalTyped DEF Truth, Numbers

-----------------------------------------------------------------------------
(* The rows, and what the statistics should be.                             *)

\* The rows that count for a mode stay, lose one, or have one more.
LEMMA RowsStay ==
    ASSUME NEW m, NEW what, RankedRows(m)' = RankedRows(m),
           \A i \in RankedRows(m) : scores'[i].play = scores[i].play
    PROVE  Total(RankedRows(m), what)' = Total(RankedRows(m), what)
<1>1. [i \in RankedRows(m)' |-> scores'[i].play[what]] = [i \in RankedRows(m) |-> scores[i].play[what]]
    OBVIOUS
<1>2. Total(RankedRows(m), what)' = SumFunction([i \in RankedRows(m)' |-> scores'[i].play[what]])
    BY DEF Total
<1>3. QED  BY <1>1, <1>2 DEF Total

LEMMA RowGoes ==
    ASSUME ScoresType, NEW m, NEW what \in {"pp", "score"}, NEW j \in RankedRows(m),
           RankedRows(m)' = RankedRows(m) \ {j},
           \A i \in RankedRows(m) : scores'[i].play = scores[i].play
    PROVE  Total(RankedRows(m), what)' = Total(RankedRows(m), what) - scores[j].play[what]
<1> DEFINE R == RankedRows(m)
           g == [i \in R |-> scores[i].play[what]]
           h == [i \in R \ {j} |-> scores'[i].play[what]]
<1>1. IsFiniteSet(R) /\ \A i \in R : scores[i].play \in Play
    BY RowsFinite, RowsTyped DEF RankedRows
<1>2. \A i \in R : g[i] \in Int
    BY <1>1, PlayNumbers
<1>3. Total(R, what) = SumFunctionOnSet(g, R)
    BY DEF Total, SumFunction
<1>4. Total(R, what)' = SumFunctionOnSet(h, R \ {j})
    BY DEF Total, SumFunction
<1>5. \A i \in R \ {j} : h[i] = g[i]
    OBVIOUS
<1>6. g[j] = scores[j].play[what] /\ j \in R
    OBVIOUS
<1> HIDE DEF g, h, R
<1>7. SumFunctionOnSet(g, R) = g[j] + SumFunctionOnSet(g, R \ {j})
    BY <1>1, <1>2, <1>6, SumWithout
<1>8. SumFunctionOnSet(h, R \ {j}) = SumFunctionOnSet(g, R \ {j})
    <2>1. IsFiniteSet(R \ {j})
        BY <1>1, FS_Subset
    <2>2. QED  BY <2>1, <1>5, SumSame
<1>9. SumFunctionOnSet(g, R \ {j}) \in Int /\ g[j] \in Int
    BY <1>1, <1>2, <1>6, SumInt
<1>10. Total(R, what)' = Total(R, what) - g[j]
    BY <1>3, <1>4, <1>7, <1>8, <1>9
<1>11. QED  BY <1>6, <1>10 DEF R

LEMMA RowComes ==
    ASSUME ScoresType, NEW m, NEW what \in {"pp", "score"}, NEW c,
           c \notin RankedRows(m), RankedRows(m)' = RankedRows(m) \cup {c}, scores'[c].play \in Play,
           \A i \in RankedRows(m) : scores'[i].play = scores[i].play
    PROVE  Total(RankedRows(m), what)' = Total(RankedRows(m), what) + scores'[c].play[what]
<1> DEFINE R == RankedRows(m)
           g == [i \in R |-> scores[i].play[what]]
           h == [i \in R \cup {c} |-> scores'[i].play[what]]
<1>1. IsFiniteSet(R) /\ \A i \in R : scores[i].play \in Play
    BY RowsFinite, RowsTyped DEF RankedRows
<1>2. \A i \in R : g[i] \in Int
    BY <1>1, PlayNumbers
<1>3. Total(R, what) = SumFunctionOnSet(g, R)
    BY DEF Total, SumFunction
<1>4. Total(R, what)' = SumFunctionOnSet(h, R \cup {c})
    BY DEF Total, SumFunction
<1>5. \A i \in R : h[i] = g[i]
    OBVIOUS
<1>6. h[c] = scores'[c].play[what] /\ h[c] \in Int /\ c \notin R
    BY PlayNumbers
<1> HIDE DEF g, h, R
<1>7. SumFunctionOnSet(h, R \cup {c}) = SumFunctionOnSet(g, R) + h[c]
    BY <1>1, <1>2, <1>5, <1>6, SumOneMore
<1>8. QED  BY <1>3, <1>4, <1>6, <1>7 DEF R

LEMMA TruthStays ==
    ASSUME NEW m, Kept' = Kept, \A i \in Kept : scores'[i].play = scores[i].play,
           RankedRows(m)' = RankedRows(m)
    PROVE  Truth(m)' = Truth(m)
<1>1. {i \in Kept : scores[i].play.mode = m}' = {i \in Kept : scores[i].play.mode = m}
    OBVIOUS
<1>2. PlaysOf(m)' = PlaysOf(m)
    BY <1>1 DEF PlaysOf
<1>3. \A i \in RankedRows(m) : scores'[i].play = scores[i].play
    BY DEF RankedRows, Kept
<1>4. Total(RankedRows(m), "score")' = Total(RankedRows(m), "score") /\ Total(RankedRows(m), "pp")' = Total(RankedRows(m), "pp")
    BY <1>3, RowsStay
<1>5. QED  BY <1>2, <1>4 DEF Truth

LEMMA SameTruth ==
    ASSUME UNCHANGED scores
    PROVE  /\ \A m : Truth(m)' = Truth(m) /\ RankedRows(m)' = RankedRows(m) /\ PlaysOf(m)' = PlaysOf(m)
           /\ Kept' = Kept /\ \A p : BestRows(p)' = BestRows(p)
<1>1. Kept' = Kept /\ \A p : BestRows(p)' = BestRows(p)
    BY DEF Kept, BestRows
<1>2. \A m : RankedRows(m)' = RankedRows(m)
    BY DEF RankedRows
<1>3. \A m : PlaysOf(m)' = PlaysOf(m)
    BY <1>1 DEF PlaysOf
<1>4. \A m : Truth(m)' = Truth(m)
    <2>1. TAKE m
    <2>2. \A i \in Kept : scores'[i].play = scores[i].play
        OBVIOUS
    <2>3. QED  BY <1>1, <1>2, <2>2, TruthStays
<1>5. QED  BY <1>1, <1>2, <1>3, <1>4

\* What becomes submitted no longer counts.
LEMMA DemoteTruth ==
    ASSUME ScoresType, NEW p \in Play,
           scores' = [i \in DOMAIN scores |-> IF i \in BestRows(p) THEN [scores[i] EXCEPT !.status = "submitted"] ELSE scores[i]]
    PROVE  /\ Kept' = Kept /\ \A m : PlaysOf(m)' = PlaysOf(m)
           /\ \A m : m # p.mode => Truth(m)' = Truth(m)
           /\ p.map \notin Ranked \/ BestRows(p) = {} => Truth(p.mode)' = Truth(p.mode)
           /\ \A j : p.map \in Ranked /\ BestRows(p) = {j} =>
                 Truth(p.mode)'.rscore = Truth(p.mode).rscore - scores[j].play.score
<1>1. /\ DOMAIN scores' = DOMAIN scores
      /\ \A i \in DOMAIN scores : /\ scores'[i].play = scores[i].play
                                  /\ i \in BestRows(p) => scores'[i].status = "submitted"
                                  /\ i \notin BestRows(p) => scores'[i].status = scores[i].status
    BY RowsTyped DEF Row
<1>2. \A i : i \in Kept' <=> i \in Kept
    BY <1>1 DEF Kept, BestRows
<1>3. Kept' = Kept /\ \A i \in Kept : scores'[i].play = scores[i].play
    BY <1>1, <1>2 DEF Kept
<1>4. \A m : {i \in Kept : scores[i].play.mode = m}' = {i \in Kept : scores[i].play.mode = m}
    BY <1>3
<1>5. \A m : PlaysOf(m)' = PlaysOf(m)
    BY <1>4 DEF PlaysOf
<1>6. \A m, i : i \in RankedRows(m)' <=> i \in RankedRows(m) /\ i \notin BestRows(p)
    BY <1>1 DEF RankedRows, BestRows
<1>7. \A m : m # p.mode \/ p.map \notin Ranked \/ BestRows(p) = {} => RankedRows(m)' = RankedRows(m)
    <2>1. \A m, i : i \in RankedRows(m) /\ i \in BestRows(p) => m = p.mode /\ p.map \in Ranked /\ BestRows(p) # {}
        BY DEF RankedRows, BestRows, Place
    <2>2. \A m : m # p.mode \/ p.map \notin Ranked \/ BestRows(p) = {} => \A i : i \in RankedRows(m)' <=> i \in RankedRows(m)
        BY <1>6, <2>1
    <2>3. QED  BY <2>2, ZenonT(30) DEF RankedRows
<1>8. \A m : m # p.mode \/ p.map \notin Ranked \/ BestRows(p) = {} => Truth(m)' = Truth(m)
    BY <1>3, <1>7, TruthStays
<1>9. ASSUME NEW j, p.map \in Ranked, BestRows(p) = {j}
      PROVE  Truth(p.mode)'.rscore = Truth(p.mode).rscore - scores[j].play.score
    <2> DEFINE m == p.mode
    <2>1. j \in RankedRows(m) /\ \A i \in RankedRows(m) : scores'[i].play = scores[i].play
        BY <1>1, <1>9 DEF RankedRows, BestRows, Place
    <2>2. RankedRows(m)' = RankedRows(m) \ {j}
        BY <1>6, <1>9
    <2>3. Total(RankedRows(m), "score")' = Total(RankedRows(m), "score") - scores[j].play["score"]
        BY <2>1, <2>2, RowGoes
    <2>4. QED  BY <2>3 DEF Truth
<1>10. QED  BY <1>3, <1>5, <1>8, <1>9

\* A row that is new counts as a play, and for the rest if it is best and ranked.
LEMMA InsertTruth ==
    ASSUME ScoresType, NEW p \in Play, NEW st \in Result,
           scores' = Append(scores, [play |-> p, status |-> st])
    PROVE  /\ Cardinality(Kept)' = Cardinality(Kept) + 1
           /\ \A m : m # p.mode => Truth(m)' = Truth(m) /\ PlaysOf(m)' = PlaysOf(m)
           /\ PlaysOf(p.mode)' = PlaysOf(p.mode) + 1
           /\ ~(st = "best" /\ p.map \in Ranked) =>
                 Truth(p.mode)' = [Truth(p.mode) EXCEPT !.plays = PlaysOf(p.mode) + 1]
           /\ st = "best" /\ p.map \in Ranked =>
                 RankedRows(p.mode)' # {} /\ Truth(p.mode)'.rscore = Truth(p.mode).rscore + p.score
<1> DEFINE c == Len(scores) + 1
           mine == p.mode
           InMode(m) == {i \in Kept : scores[i].play.mode = m}
<1>1. /\ DOMAIN scores' = DOMAIN scores \cup {c} /\ c \notin DOMAIN scores
      /\ \A i \in DOMAIN scores : scores'[i] = scores[i]
      /\ scores'[c] = [play |-> p, status |-> st]
    <2>1. scores \in Seq(Row)
        BY DEF ScoresType
    <2>2. DOMAIN scores = 1..Len(scores) /\ Len(scores) \in Nat
        BY <2>1
    <2>3. DOMAIN scores' = 1..(Len(scores) + 1)
        BY <2>1
    <2>4. \A i \in 1..Len(scores) : scores'[i] = scores[i]
        BY <2>1
    <2>5. scores'[c] = [play |-> p, status |-> st]
        BY <2>1
    <2>6. QED  BY <2>2, <2>3, <2>4, <2>5
<1>2. scores'[c].play = p /\ scores'[c].status = st /\ st # "wiped"
    BY <1>1 DEF Result
<1> HIDE DEF c
<1>3. Kept' = Kept \cup {c} /\ c \notin Kept
    <2>1. \A i : i \in Kept' <=> i \in Kept \/ i = c
        BY <1>1, <1>2 DEF Kept
    <2>2. QED  BY <1>1, <2>1 DEF Kept
<1>4. Cardinality(Kept)' = Cardinality(Kept) + 1
    BY <1>3, RowsFinite, FS_AddElement
<1>5. \A m, i : i \in InMode(m)' <=> i \in InMode(m) \/ (i = c /\ m = mine)
    BY <1>1, <1>2, <1>3 DEF Kept
<1>6. ASSUME NEW m, m # mine  PROVE PlaysOf(m)' = PlaysOf(m)
    <2>1. InMode(m)' = InMode(m)
        BY <1>5, <1>6
    <2>2. QED  BY <2>1 DEF PlaysOf
<1>7. PlaysOf(mine)' = PlaysOf(mine) + 1
    <2>1. InMode(mine)' = InMode(mine) \cup {c} /\ c \notin InMode(mine)
        BY <1>3, <1>5
    <2>2. IsFiniteSet(InMode(mine))
        BY RowsFinite
    <2> HIDE DEF InMode
    <2>3. Cardinality(InMode(mine))' = Cardinality(InMode(mine)) + 1
        BY <2>1, <2>2, FS_AddElement
    <2>4. QED  BY <2>3 DEF PlaysOf, InMode
<1>8. \A m, i : i \in RankedRows(m)' <=> \/ i \in RankedRows(m)
                                         \/ i = c /\ m = mine /\ st = "best" /\ p.map \in Ranked
    BY <1>1, <1>2 DEF RankedRows
<1>9. \A m : \A i \in RankedRows(m) : i \in DOMAIN scores /\ scores'[i].play = scores[i].play
    BY <1>1 DEF RankedRows
<1>10. \A m : m # mine \/ ~(st = "best" /\ p.map \in Ranked) =>
           /\ Total(RankedRows(m), "score")' = Total(RankedRows(m), "score")
           /\ Total(RankedRows(m), "pp")' = Total(RankedRows(m), "pp")
    <2>1. \A m : m # mine \/ ~(st = "best" /\ p.map \in Ranked) => RankedRows(m)' = RankedRows(m)
        BY <1>8 DEF RankedRows
    <2>2. QED  BY <2>1, <1>9, RowsStay
<1>11. \A m : m # mine => Truth(m)' = Truth(m)
    BY <1>6, <1>10 DEF Truth
<1>12. ~(st = "best" /\ p.map \in Ranked) => Truth(mine)' = [Truth(mine) EXCEPT !.plays = PlaysOf(mine) + 1]
    BY <1>7, <1>10 DEF Truth
<1>13. ASSUME st = "best", p.map \in Ranked
       PROVE  RankedRows(mine)' # {} /\ Truth(mine)'.rscore = Truth(mine).rscore + p.score
    <2>1. RankedRows(mine)' = RankedRows(mine) \cup {c} /\ c \notin RankedRows(mine)
        BY <1>1, <1>8, <1>9, <1>13
    <2>2. Total(RankedRows(mine), "score")' = Total(RankedRows(mine), "score") + p["score"]
        <3>1. scores'[c].play \in Play /\ \A i \in RankedRows(mine) : scores'[i].play = scores[i].play
            BY <1>2, <1>9
        <3>2. Total(RankedRows(mine), "score")' = Total(RankedRows(mine), "score") + scores'[c].play["score"]
            BY <2>1, <3>1, RowComes
        <3>3. QED  BY <1>2, <3>2
    <2>3. QED  BY <2>1, <2>2 DEF Truth
<1>14. QED  BY <1>4, <1>6, <1>7, <1>11, <1>12, <1>13

JobTyped(t) ==
    IF task[t].at \in Stage
    THEN /\ task[t].at = "status" => task[t].prev = None
         /\ task[t].at # "previous" => task[t].prev \in Play \cup {None}
    ELSE task[t] = Idle \/ task[t] \in StatsJob \cup LateJob

StatsType ==
    /\ stats \in [Mode -> Numbers] /\ mem \in [Session -> [Mode -> Numbers]] /\ mode \in [Session -> Mode]
    /\ IsFiniteSet(Busy)
    /\ \A t \in Task : JobTyped(t)
    /\ current # None => loading = None

\* Submissions came one at a time, and nothing in between.
Calm == trouble = {} =>
    /\ contended = {} /\ \A t, u \in Busy : t = u
    /\ \A i \in DOMAIN scores : scores[i].status # "wiped"

\* What a submission by itself has left to do to the statistics of its mode.
Earned(t) == IF task[t].prev = None THEN 0 ELSE task[t].prev.score
Owes(t) == LET p == task[t].play  s == task[t].on  m == p.mode  at == task[t].at IN
    /\ \A n \in Mode \ {m} : stats[n] = Truth(n) /\ mem[s][n] = stats[n]
    /\ at \in Stage \cup {"stats"} => mem[s][m] = stats[m]
    /\ at \in Stage \ {"insert"} => stats[m] = Truth(m)
    /\ at \in {"placement", "duplicate", "demote"} /\ task[t].status = "best" =>
          IF task[t].prev = None THEN BestRows(p) = {}
          ELSE \E i \in DOMAIN scores : BestRows(p) = {i} /\ scores[i].play = task[t].prev
    /\ at \in {"duplicate", "demote", "insert", "stats"} /\ task[t].status # "none" => mode[s] = m
    /\ at = "insert" => /\ stats[m].plays = Truth(m).plays
                        /\ ~Counts(t) => stats[m] = Truth(m)
                        /\ Counts(t) => stats[m].rscore = Truth(m).rscore + Earned(t)
    /\ at = "stats"  => /\ stats[m].plays + 1 = Truth(m).plays
                        /\ ~Counts(t) => Truth(m) = [stats[m] EXCEPT !.plays = @ + 1]
                        /\ Counts(t) => RankedRows(m) # {} /\ stats[m].rscore + Gained(t) = Truth(m).rscore
    /\ at \in {"pp", "update"} => task[t].of = m /\ task[t].new = mem[s][m]
    /\ at = "pp"     => /\ task[t].counts /\ RankedRows(m) # {}
                        /\ task[t].new.plays = Truth(m).plays /\ task[t].new.rscore = Truth(m).rscore
    /\ at = "update" => /\ task[t].new = Truth(m)
                        /\ ~task[t].counts => [stats[m] EXCEPT !.plays = Truth(m).plays] = Truth(m)

Live == {current, loading} \ {None}
InStep == /\ \A m \in Mode : stats[m] = Truth(m)
          /\ \A s \in Live : mem[s] = stats
StatsKnown == trouble = {} =>
    /\ Busy = {} => InStep
    /\ \A t \in Busy : Owes(t)

\* Every row is a play of some mode, and the session has counted all but those
\* whose submission comes to it next.
PlaysIn(s) == SumFunction([m \in Mode |-> mem[s][m].plays])
AtStats    == {t \in Task : task[t].at = "stats"}
Attached   == \A t \in Busy : loading = None /\ current \in {task[t].on, None}
Counted    == /\ SumFunction([m \in Mode |-> PlaysOf(m)]) = Cardinality(Kept)
              /\ \A s \in Live : PlaysIn(s) + Cardinality(AtStats) = Cardinality(Kept)
PlaysCounted == trouble \cap {"login", "wipe"} = {} => Attached /\ Counted

StatsInv == ScoresInv /\ StatsType /\ Calm /\ StatsKnown /\ PlaysCounted

LEMMA JobIs ==
    ASSUME ScoresType, StatsType, NEW t \in Task
    PROVE  /\ t \in Busy <=> task[t].at # "idle"
           /\ task[t].at \in Stage \cup {"stats", "pp", "update", "idle"}
           /\ task[t].at \in Stage => task[t] \in EarlyJob
           /\ task[t].at = "stats" => task[t] \in StatsJob
           /\ task[t].at \in {"pp", "update"} => task[t] \in LateJob
           /\ t \in Busy => task[t].play \in Play /\ task[t].play.mode \in Mode /\ task[t].on \in Session
<1>1. "at" \in DOMAIN task[t] /\ (task[t].at \in Stage => task[t] \in EarlyJob)
    BY DEF ScoresType
<1>2. JobTyped(t)
    BY DEF StatsType
<1>3. task[t] = Idle => task[t].at = "idle"
    BY DEF Idle
<1>4. task[t] \in StatsJob => task[t].at = "stats" /\ task[t].play \in Play /\ task[t].on \in Session
    BY DEF StatsJob
<1>5. task[t] \in LateJob => task[t].at \in {"pp", "update"} /\ task[t].play \in Play /\ task[t].on \in Session
    BY DEF LateJob
<1>6. task[t] \in EarlyJob => task[t].at \in Stage /\ task[t].play \in Play /\ task[t].on \in Session
    BY DEF EarlyJob
<1>7. t \in Busy <=> task[t] # Idle
    BY DEF Busy
<1>8. task[t].at \in Stage \/ task[t] = Idle \/ task[t] \in StatsJob \/ task[t] \in LateJob
    BY <1>2 DEF JobTyped
<1>9. \A p \in Play : p.mode \in Mode
    BY PlayNumbers
<1> DEFINE at == task[t].at
           j == task[t]
<1>10. at = task[t].at /\ j = task[t]
    OBVIOUS
<1> HIDE DEF at, j
<1>11. QED  BY <1>1, <1>3, <1>4, <1>5, <1>6, <1>7, <1>8, <1>9 DEF Stage

LEMMA FinitelyManyBusy ==
    ASSUME IsFiniteSet(Busy), NEW t \in Task, \A u \in Task : u # t => task'[u] = task[u]
    PROVE  IsFiniteSet(Busy)' /\ Busy' \subseteq Busy \cup {t}
<1>1. Busy' \subseteq Busy \cup {t}
    BY DEF Busy
<1>2. IsFiniteSet(Busy \cup {t})
    BY FS_AddElement
<1>3. QED  BY <1>1, <1>2, FS_Subset

LEMMA BlankTyped == NoStats \in [Mode -> Numbers] /\ FirstMode \in Mode
BY DEF NoStats, Numbers, Mode

\* What is held is not forgotten.
LEMMA Forgets ==
    ASSUME StatsType
    PROVE  /\ mem' = Forget(mem, NoStats) =>
                 mem' \in [Session -> [Mode -> Numbers]] /\ \A s \in Session : Held(s) => mem'[s] = mem[s]
           /\ mode' = Forget(mode, FirstMode) =>
                 mode' \in [Session -> Mode] /\ \A s \in Session : Held(s) => mode'[s] = mode[s]
<1>1. mem \in [Session -> [Mode -> Numbers]] /\ mode \in [Session -> Mode]
    BY DEF StatsType
<1>2. QED  BY <1>1, BlankTyped DEF Forget

\* A submission that goes on: what is to be shown is of it alone.
LEMMA TaskMoves ==
    ASSUME StatsInv, ScoresInv', StatsType', NEW t \in Busy,
           \A u \in Task : u # t => task'[u] = task[u],
           UNCHANGED <<contended, trouble, loading>>, current' \in {current, None},
           t \in Busy' => task'[t].on = task[t].on,
           trouble = {} => \A i \in DOMAIN scores' : scores'[i].status # "wiped",
           trouble = {} /\ t \in Busy' => Owes(t)',
           trouble = {} /\ t \notin Busy' => (\A m \in Mode : stats[m] = Truth(m))' /\ (current' # None => mem'[current'] = stats'),
           trouble \cap {"login", "wipe"} = {} => Counted'
    PROVE  StatsInv'
<1> USE DEF StatsInv
<1>0. t \in Task
    BY DEF Busy
<1>1. Busy' \subseteq Busy \cup {t} /\ \A u \in Busy' : u # t => u \in Busy /\ task'[u] = task[u]
    BY <1>0 DEF Busy
<1>2. Calm'
    BY <1>1 DEF Calm
<1>3. (Attached /\ loading = None) \/ trouble \cap {"login", "wipe"} # {}
    BY DEF PlaysCounted, Attached
<1>4. PlaysCounted'
    <2> SUFFICES ASSUME trouble \cap {"login", "wipe"} = {} PROVE Attached'
        BY DEF PlaysCounted
    <2>1. \A u \in Busy' : task'[u].on = task[u].on
        BY <1>1
    <2>2. QED  BY <1>1, <1>3, <2>1 DEF Attached
<1>5. StatsKnown'
    <2> SUFFICES ASSUME trouble = {} PROVE (Busy' = {} => InStep') /\ \A u \in Busy' : Owes(u)'
        BY DEF StatsKnown
    <2>1. \A u \in Busy : u = t
        BY DEF Calm
    <2>2. \A u \in Busy' : u = t
        BY <1>1, <2>1
    <2>3. loading' = None
        BY <1>3
    <2>4. ASSUME Busy' = {} PROVE InStep'
        <3>1. t \notin Busy'
            BY <2>4
        <3>2. \A s \in Live' : s = current' /\ current' # None
            BY <2>3 DEF Live
        <3>3. QED  BY <3>1, <3>2 DEF InStep
    <2>5. QED  BY <2>2, <2>4
<1>6. QED  BY <1>2, <1>4, <1>5

LEMMA SamePlays ==
    ASSUME Counted, NEW s, s \in Live' => s \in Live,
           Live' \subseteq {s}, Kept' = Kept, \A m : PlaysOf(m)' = PlaysOf(m), AtStats' = AtStats,
           s \in Live' => \A m \in Mode : mem'[s][m].plays = mem[s][m].plays
    PROVE  Counted'
<1>1. SumFunction([m \in Mode |-> PlaysOf(m)])' = SumFunction([m \in Mode |-> PlaysOf(m)])
    OBVIOUS
<1>2. Cardinality(Kept)' = Cardinality(Kept) /\ Cardinality(AtStats)' = Cardinality(AtStats)
    OBVIOUS
<1>3. ASSUME NEW r \in Live' PROVE (PlaysIn(r) + Cardinality(AtStats))' = Cardinality(Kept)'
    <2>1. r \in Live /\ \A m \in Mode : mem'[r][m].plays = mem[r][m].plays
        BY <1>3
    <2>2. [m \in Mode |-> mem'[r][m].plays] = [m \in Mode |-> mem[r][m].plays]
        BY <2>1
    <2>3. PlaysIn(r)' = PlaysIn(r)
        BY <2>2 DEF PlaysIn
    <2>4. QED  BY <1>2, <2>1, <2>3 DEF Counted
<1>4. QED  BY <1>1, <1>2, <1>3 DEF Counted

LEMMA TypeStep ==
    ASSUME StatsType, NEW t \in Task, \A u \in Task : u # t => task'[u] = task[u], JobTyped(t)',
           stats' \in [Mode -> Numbers], mem' \in [Session -> [Mode -> Numbers]], mode' \in [Session -> Mode],
           current' # None => loading' = None
    PROVE  StatsType'
<1>1. IsFiniteSet(Busy)'
    BY FinitelyManyBusy DEF StatsType
<1>2. \A u \in Task : JobTyped(u)'
    BY DEF StatsType, JobTyped
<1>3. QED  BY <1>1, <1>2 DEF StatsType

LEMMA SubmitStats ==
    ASSUME StatsInv, NEW t \in Task, NEW p \in Play, osuSubmit(t, p)
    PROVE  StatsInv'
<1> USE DEF StatsInv
<1>1. PICK file \in BOOLEAN :
          /\ Goes(t, [at     |-> IF file /\ p.passed THEN "status" ELSE "duplicate",
                      play   |-> p, on |-> current, prev |-> None,
                      status |-> IF file /\ ~p.passed THEN "failed" ELSE "none"])
          /\ mode' = IF file /\ p.passed THEN mode ELSE [mode EXCEPT ![current] = p.mode]
    BY DEF osuSubmit
<1>2. /\ task[t] = Idle /\ current # None /\ UNCHANGED <<scores, stats, current, loading, mem>>
      /\ contended' = contended \cup (Places(Busy) \cap {Place(p)})
      /\ trouble' = trouble \cup (IF Busy # {} THEN {"meeting"} ELSE {}) \cup (IF loading # None THEN {"login"} ELSE {})
    BY DEF osuSubmit
<1>3. /\ task'[t].at \in {"status", "duplicate"} /\ task'[t].play = p /\ task'[t].on = current /\ task'[t].prev = None
      /\ task'[t].at = "duplicate" /\ task'[t].status # "none" => mode' = [mode EXCEPT ![current] = p.mode]
      /\ task'[t].status # "best"
      /\ mode' = mode \/ mode' = [mode EXCEPT ![current] = p.mode]
      /\ \A u \in Task : u # t => task'[u] = task[u]
    <2>1. task'[t] = [at     |-> IF file /\ p.passed THEN "status" ELSE "duplicate",
                      play   |-> p, on |-> current, prev |-> None,
                      status |-> IF file /\ ~p.passed THEN "failed" ELSE "none"]
          /\ \A u \in Task : u # t => task'[u] = task[u]
        BY <1>1, TaskGoes DEF ScoresInv, ScoresType
    <2>2. QED  BY <1>1, <2>1
<1>4. /\ current \in Session /\ loading = None /\ p.mode \in Mode
      /\ stats \in [Mode -> Numbers] /\ mem \in [Session -> [Mode -> Numbers]] /\ mode \in [Session -> Mode]
    BY <1>2, PlayNumbers DEF ScoresInv, ScoresType, StatsType
<1>5. t \notin Busy /\ Busy' = Busy \cup {t} /\ \A u \in Busy : task'[u] = task[u]
    <2>1. task'[t] # Idle
        BY <1>3 DEF Idle
    <2>2. QED  BY <1>2, <1>3, <2>1 DEF Busy
<1>6. ScoresInv'
    BY SubmitKeeps
<1>7. StatsType'
    <2>1. JobTyped(t)'
        BY <1>3 DEF JobTyped, Stage
    <2>2. mode' \in [Session -> Mode]
        BY <1>3, <1>4
    <2>3. QED  BY <1>2, <1>3, <1>4, <2>1, <2>2, TypeStep
<1>8. trouble' = {} => trouble = {} /\ Busy = {}
    BY <1>2
<1>9. Calm'
    <2>1. trouble' = {} => contended' = {}
        BY <1>2, <1>8 DEF Calm, Places
    <2>2. QED  BY <1>2, <1>5, <1>8, <2>1 DEF Calm
<1>10. StatsKnown'
    <2> SUFFICES ASSUME trouble' = {} PROVE Owes(t)'
        BY <1>5, <1>8 DEF StatsKnown
    <2>1. (\A m \in Mode : stats[m] = Truth(m)) /\ mem[current] = stats
        BY <1>2, <1>4, <1>8 DEF StatsKnown, InStep, Live
    <2>2. \A m \in Mode : Truth(m)' = stats'[m] /\ mem'[current] = stats'
        BY <1>2, <2>1, SameTruth
    <2>3. task'[t].at = "duplicate" /\ task'[t].status # "none" => mode'[current] = p.mode
        BY <1>3, <1>4
    <2>4. QED  BY <1>3, <1>4, <2>2, <2>3 DEF Owes, Stage
<1>11. PlaysCounted'
    <2> SUFFICES ASSUME trouble' \cap {"login", "wipe"} = {} PROVE Attached' /\ Counted'
        BY DEF PlaysCounted
    <2>1. Attached /\ Counted
        BY <1>2 DEF PlaysCounted
    <2>2. Attached'
        BY <1>2, <1>3, <1>4, <1>5, <2>1 DEF Attached
    <2>3. AtStats' = AtStats
        <3>1. \A u \in Task : task'[u].at = "stats" <=> task[u].at = "stats"
            BY <1>2, <1>3 DEF Idle
        <3>2. QED  BY <3>1 DEF AtStats
    <2>4. Live' = Live /\ Live = {current}
        BY <1>2, <1>4 DEF Live
    <2>5. Kept' = Kept /\ \A m : PlaysOf(m)' = PlaysOf(m)
        BY <1>2, SameTruth
    <2>6. Counted'
        BY <1>2, <2>1, <2>3, <2>4, <2>5, SamePlays
    <2>7. QED  BY <2>2, <2>6
<1>12. QED  BY <1>6, <1>7, <1>9, <1>10, <1>11

\* One that goes on and leaves the rows, the statistics and its session's alone.
LEMMA QuietMove ==
    ASSUME StatsInv, ScoresInv', NEW t \in Busy, NEW to, Goes(t, to), JobTyped(t)',
           UNCHANGED <<scores, stats, current, loading, contended, trouble>>,
           task[t].at \in Stage, task'[t].at \in Stage \cup {"idle"},
           mem' = mem \/ mem' = Forget(mem, NoStats),
           mode' \in [Session -> Mode],
           task'[t].at # "idle" => task'[t].on = task[t].on,
           trouble = {} /\ task'[t].at # "idle" => Owes(t)',
           task'[t].at = "idle" => task[t].at # "insert"
    PROVE  StatsInv'
<1> USE DEF StatsInv
<1>1. t \in Task /\ task'[t] = to /\ \A u \in Task : u # t => task'[u] = task[u]
    BY TaskGoes DEF Busy, ScoresInv, ScoresType
<1>2. t \in Busy' <=> task'[t].at # "idle"
    <2>1. task'[t] # Idle => task'[t].at # "idle"
        BY DEF JobTyped, Stage, StatsJob, LateJob
    <2>2. QED  BY <1>1, <2>1 DEF Busy, Idle
<1>3. /\ mem \in [Session -> [Mode -> Numbers]] /\ stats \in [Mode -> Numbers]
      /\ current \in Session \cup {None} /\ (current # None => loading = None)
    BY DEF StatsType, ScoresInv, ScoresType
<1>4. mem' \in [Session -> [Mode -> Numbers]] /\ (current # None => mem'[current] = mem[current])
    <2>1. CASE mem' = mem
        BY <1>3, <2>1
    <2>2. CASE mem' = Forget(mem, NoStats)
        <3>1. current # None => Held(current)
            BY DEF Held
        <3>2. QED  BY <1>3, <2>2, <3>1, Forgets
    <2>3. QED  BY <2>1, <2>2
<1>5. StatsType'
    BY <1>1, <1>3, <1>4, TypeStep
<1>6. task[t].play.mode \in Mode /\ task[t].on \in Session
    BY <1>1, JobIs DEF ScoresInv
<1>7. ASSUME trouble = {}, t \notin Busy'
      PROVE  (\A m \in Mode : stats[m] = Truth(m))' /\ (current' # None => mem'[current'] = stats')
    <2>1. Owes(t) /\ task[t].at \in Stage \ {"insert"} /\ current \in {task[t].on, None}
        BY <1>2, <1>7 DEF StatsKnown, PlaysCounted, Attached
    <2>2. \A m \in Mode : stats[m] = Truth(m) /\ mem[task[t].on][m] = stats[m]
        BY <2>1 DEF Owes
    <2>3. mem[task[t].on] = stats
        BY <1>3, <1>6, <2>2
    <2>4. \A m \in Mode : stats'[m] = Truth(m)'
        BY <2>2, SameTruth
    <2>5. QED  BY <1>4, <2>1, <2>3, <2>4
<1>8. ASSUME trouble \cap {"login", "wipe"} = {} PROVE Counted'
    <2>1. Counted /\ Attached /\ loading = None
        BY <1>8 DEF PlaysCounted, Attached
    <2>2. AtStats' = AtStats
        <3>1. \A u \in Task : task'[u].at = "stats" <=> task[u].at = "stats"
            BY <1>1 DEF Stage
        <3>2. QED  BY <3>1 DEF AtStats
    <2>3. Live' = Live /\ Live \subseteq {current} /\ (current \in Live => current # None)
        BY <2>1 DEF Live
    <2>4. Kept' = Kept /\ \A m : PlaysOf(m)' = PlaysOf(m)
        BY SameTruth
    <2>5. QED  BY <1>4, <2>1, <2>2, <2>3, <2>4, SamePlays
<1>9. trouble = {} => \A i \in DOMAIN scores' : scores'[i].status # "wiped"
    BY DEF Calm
<1>10. trouble = {} /\ t \in Busy' => Owes(t)'
    BY <1>2
<1>11. t \in Busy' => task'[t].on = task[t].on
    BY <1>2
<1>12. QED  BY <1>1, <1>5, <1>7, <1>8, <1>9, <1>10, <1>11, TaskMoves

\* What it owes before its row is stored: nothing.
Even(t) == \A n \in Mode : stats[n] = Truth(n) /\ mem[task[t].on][n] = stats[n]
Replaces(t) == IF task[t].prev = None THEN BestRows(task[t].play) = {}
               ELSE \E i \in DOMAIN scores : BestRows(task[t].play) = {i} /\ scores[i].play = task[t].prev

LEMMA OwesNothing ==
    ASSUME NEW t, task'[t].at \in Stage \ {"insert"}, task'[t].play.mode \in Mode, Even(t)',
           task'[t].at \in {"placement", "duplicate", "demote"} /\ task'[t].status = "best" => Replaces(t)',
           task'[t].at \in {"duplicate", "demote"} /\ task'[t].status # "none" => mode'[task'[t].on] = task'[t].play.mode
    PROVE  Owes(t)'
BY DEF Owes, Even, Replaces, Stage

LEMMA OwedNothing ==
    ASSUME NEW t, task[t].at \in Stage \ {"insert"}, task[t].play.mode \in Mode, Owes(t)
    PROVE  /\ Even(t)
           /\ task[t].at \in {"placement", "duplicate", "demote"} /\ task[t].status = "best" => Replaces(t)
           /\ task[t].at \in {"duplicate", "demote"} /\ task[t].status # "none" => mode[task[t].on] = task[t].play.mode
BY DEF Owes, Even, Replaces, Stage

LEMMA StillReplaces ==
    ASSUME UNCHANGED scores, NEW t, Replaces(t), task'[t].play = task[t].play, task'[t].prev = task[t].prev
    PROVE  Replaces(t)'
<1>1. PICK p : p = task[t].play
    OBVIOUS
<1>2. BestRows(p)' = BestRows(p) /\ task'[t].play = p
    BY <1>1, SameTruth
<1>3. QED  BY <1>1, <1>2 DEF Replaces

LEMMA StatusStats ==
    ASSUME StatsInv, NEW t \in Task, calculate_status(t)
    PROVE  StatsInv'
<1> USE DEF StatsInv
<1>1. /\ task[t].at = "status" /\ UNCHANGED <<scores, stats, current, loading, mem, mode, contended, trouble>>
      /\ \/ BestRows(task[t].play) = {} /\ Goes(t, [task[t] EXCEPT !.at = "placement", !.status = "best"])
         \/ \E i \in BestRows(task[t].play) : Goes(t, [task[t] EXCEPT !.at = "previous", !.prev = i])
    BY DEF calculate_status
<1>2. t \in Busy /\ task[t] \in EarlyJob /\ task[t].prev = None /\ task[t].play.mode \in Mode /\ task[t].on \in Session
    BY <1>1, JobIs DEF ScoresInv, StatsType, JobTyped, Stage
<1>3. PICK to : Goes(t, to) /\ task'[t] = to
    BY <1>1, TaskGoes DEF ScoresInv, ScoresType
<1>4. /\ task'[t].at \in {"placement", "previous"} /\ task'[t].on = task[t].on /\ task'[t].play = task[t].play
      /\ task'[t].at = "placement" => task'[t].prev = None /\ BestRows(task[t].play) = {}
    <2>1. CASE BestRows(task[t].play) = {} /\ Goes(t, [task[t] EXCEPT !.at = "placement", !.status = "best"])
        <3>1. task'[t] = [task[t] EXCEPT !.at = "placement", !.status = "best"]
            BY <2>1, TaskGoes DEF ScoresInv, ScoresType
        <3>2. QED  BY <1>2, <2>1, <3>1 DEF EarlyJob
    <2>2. CASE \E i \in BestRows(task[t].play) : Goes(t, [task[t] EXCEPT !.at = "previous", !.prev = i])
        <3>1. PICK i \in BestRows(task[t].play) : task'[t] = [task[t] EXCEPT !.at = "previous", !.prev = i]
            BY <2>2, TaskGoes DEF ScoresInv, ScoresType
        <3>2. QED  BY <1>2, <2>2, <3>1 DEF EarlyJob
    <2>3. QED  BY <1>1, <2>1, <2>2
<1>5. JobTyped(t)'
    BY <1>4 DEF JobTyped, Stage
<1>6. ASSUME trouble = {} PROVE Owes(t)'
    <2>1. Even(t)
        BY <1>1, <1>2, <1>6, OwedNothing DEF StatsKnown, Stage
    <2>2. BestRows(task[t].play)' = BestRows(task[t].play) /\ \A m : Truth(m)' = Truth(m)
        BY <1>1, <1>4, SameTruth
    <2>3. Even(t)'
        BY <1>1, <1>4, <2>1, <2>2 DEF Even
    <2>4. task'[t].at = "placement" => Replaces(t)'
        BY <1>4, <2>2 DEF Replaces
    <2>5. QED  BY <1>2, <1>4, <2>3, <2>4, OwesNothing DEF Stage
<1>7. mode' \in [Session -> Mode]
    BY <1>1 DEF StatsType
<1>8. ScoresInv'
    BY StatusKeeps
<1>9. QED  BY <1>1, <1>2, <1>3, <1>4, <1>5, <1>6, <1>7, <1>8, QuietMove DEF Stage

LEMMA PreviousStats ==
    ASSUME StatsInv, NEW t \in Task, from_sql(t)
    PROVE  StatsInv'
<1> USE DEF StatsInv
<1> DEFINE p == task[t].play
           old == scores[task[t].prev]
           better == task[t].play.pp > old.play.pp
           to == [task[t] EXCEPT !.at = "placement", !.prev = IF old.status = "wiped" THEN None ELSE old.play,
                                 !.status = IF better THEN "best" ELSE "submitted"]
<1>1. /\ task[t].at = "previous" /\ UNCHANGED <<scores, stats, current, loading, contended, trouble>>
      /\ mem' = Forget(mem, NoStats) /\ mode' = Forget(mode, FirstMode)
      /\ \/ old.status = "wiped" /\ Goes(t, Idle)
         \/ Goes(t, to)
    BY DEF from_sql
<1>2. t \in Busy /\ t \in Early /\ task[t] \in EarlyJob /\ p \in Play /\ p.mode \in Mode /\ task[t].on \in Session
    BY <1>1, JobIs DEF ScoresInv, Stage, Early
<1>3. task[t].prev \in DOMAIN scores /\ old.play \in Play
    BY <1>1, <1>2, RowsTyped DEF ScoresInv, KnowsAnyway
<1>4. /\ to.at = "placement" /\ to.on = task[t].on /\ to.play = p
      /\ to.prev = IF old.status = "wiped" THEN None ELSE old.play
    BY <1>2 DEF EarlyJob
<1>5. /\ mode' \in [Session -> Mode] /\ \A s \in Session : Held(s) => mem'[s] = mem[s]
    BY <1>1, Forgets
<1>6. ScoresInv'
    BY PreviousKeeps
<1> HIDE DEF to
<1>7. CASE old.status = "wiped" /\ Goes(t, Idle)
    <2>1. task'[t] = Idle /\ Idle.at = "idle"
        BY <1>7, TaskGoes DEF ScoresInv, ScoresType, Idle
    <2>2. JobTyped(t)'
        BY <2>1 DEF JobTyped, Stage
    <2>3. QED  BY <1>1, <1>2, <1>5, <1>6, <1>7, <2>1, <2>2, QuietMove DEF Stage
<1>8. CASE Goes(t, to)
    <2>1. task'[t] = to
        BY <1>8, TaskGoes DEF ScoresInv, ScoresType
    <2>2. JobTyped(t)'
        BY <1>3, <1>4, <2>1 DEF JobTyped, Stage
    <2>3. ASSUME trouble = {} PROVE Owes(t)'
        <3>1. Even(t) /\ contended = {} /\ old.status # "wiped"
            BY <1>1, <1>2, <1>3, <2>3, OwedNothing DEF StatsKnown, Stage, Calm
        <3>2. task[t].prev \in BestRows(p)
            BY <1>1, <1>2, <3>1 DEF ScoresInv, SubmissionsKnow, Knows
        <3>3. BestRows(p) = {task[t].prev}
            BY <1>1, <1>2, <3>1, <3>2, OneIsBest, NobodyPromotes
        <3>4. mem'[task[t].on] = mem[task[t].on]
            <4>1. Held(task[t].on)
                BY <1>4, <2>1 DEF Held, Idle
            <4>2. QED  BY <1>2, <1>5, <4>1
        <3>5. \A m : Truth(m)' = Truth(m)
            BY <1>1, SameTruth
        <3>6. Even(t)'
            BY <1>1, <1>4, <2>1, <3>1, <3>4, <3>5 DEF Even
        <3>7. to.prev = old.play /\ to.prev # None
            BY <1>3, <1>4, <3>1, NoneAssumption
        <3>8. Replaces(t)'
            <4>0. PICK q : q = p
                OBVIOUS
            <4>1. task'[t].play = q /\ task'[t].prev = old.play /\ task'[t].prev # None
                BY <1>4, <2>1, <3>7, <4>0
            <4>2. BestRows(q)' = {task[t].prev}
                BY <1>1, <3>3, <4>0, SameTruth
            <4>3. scores'[task[t].prev].play = task'[t].prev /\ task[t].prev \in DOMAIN scores'
                BY <1>1, <1>3, <4>1
            <4>4. QED  BY <4>1, <4>2, <4>3 DEF Replaces
        <3>9. QED  BY <1>2, <1>4, <2>1, <3>6, <3>8, OwesNothing DEF Stage
    <2>4. QED  BY <1>1, <1>2, <1>4, <1>5, <1>6, <1>8, <2>1, <2>2, <2>3, QuietMove DEF Stage
<1>9. QED  BY <1>1, <1>7, <1>8

LEMMA PlacementStats ==
    ASSUME StatsInv, NEW t \in Task, calculate_placement(t)
    PROVE  StatsInv'
<1> USE DEF StatsInv
<1> DEFINE p == task[t].play
           to == [task[t] EXCEPT !.at = "duplicate"]
<1>1. /\ task[t].at = "placement" /\ UNCHANGED <<scores, stats, current, loading, mem, contended, trouble>>
      /\ mode' = [mode EXCEPT ![task[t].on] = p.mode] /\ Goes(t, to)
    BY DEF calculate_placement
<1>2. t \in Busy /\ task[t] \in EarlyJob /\ p.mode \in Mode /\ task[t].on \in Session /\ task[t].prev \in Play \cup {None}
    BY <1>1, JobIs DEF ScoresInv, Stage, StatsType, JobTyped
<1>3. task'[t] = to
    BY <1>1, TaskGoes DEF ScoresInv, ScoresType
<1>4. /\ task'[t].at = "duplicate" /\ task'[t].on = task[t].on /\ task'[t].play = p
      /\ task'[t].prev = task[t].prev /\ task'[t].status = task[t].status
    BY <1>2, <1>3 DEF EarlyJob
<1>5. mode' \in [Session -> Mode] /\ mode'[task[t].on] = p.mode
    BY <1>1, <1>2 DEF StatsType
<1>6. ScoresInv'
    BY PlacementKeeps
<1>7. JobTyped(t)'
    BY <1>2, <1>4 DEF JobTyped, Stage
<1>8. ASSUME trouble = {} PROVE Owes(t)'
    <2>1. Even(t) /\ (task[t].status = "best" => Replaces(t))
        BY <1>1, <1>2, <1>8, OwedNothing DEF StatsKnown, Stage
    <2>2. \A m : Truth(m)' = Truth(m)
        BY <1>1, SameTruth
    <2>3. Even(t)'
        BY <1>1, <1>4, <2>1, <2>2 DEF Even
    <2>4. task'[t].status = "best" => Replaces(t)'
        BY <1>1, <1>4, <2>1, StillReplaces
    <2>5. QED  BY <1>2, <1>4, <1>5, <2>3, <2>4, OwesNothing DEF Stage
<1>9. QED  BY <1>1, <1>2, <1>4, <1>5, <1>6, <1>7, <1>8, QuietMove DEF Stage

LEMMA DuplicateStats ==
    ASSUME StatsInv, NEW t \in Task, CheckDuplicate(t)
    PROVE  StatsInv'
<1> USE DEF StatsInv
<1> DEFINE p == task[t].play
           to == [task[t] EXCEPT !.at = IF task[t].status = "best" THEN "demote" ELSE "insert"]
<1>1. /\ task[t].at = "duplicate" /\ UNCHANGED <<scores, stats, current, loading, contended, trouble>>
      /\ mem' = Forget(mem, NoStats) /\ mode' = Forget(mode, FirstMode)
      /\ Goes(t, Idle) \/ (task[t].status # "none" /\ Goes(t, to))
    BY DEF CheckDuplicate
<1>2. t \in Busy /\ task[t] \in EarlyJob /\ p.mode \in Mode /\ task[t].on \in Session /\ task[t].prev \in Play \cup {None}
    BY <1>1, JobIs DEF ScoresInv, Stage, StatsType, JobTyped
<1>3. /\ mode' \in [Session -> Mode] /\ \A s \in Session : Held(s) => mem'[s] = mem[s] /\ mode'[s] = mode[s]
    BY <1>1, Forgets
<1>4. ScoresInv'
    BY PlacementKeeps
<1>5. /\ to.at = (IF task[t].status = "best" THEN "demote" ELSE "insert") /\ to.on = task[t].on /\ to.play = p
      /\ to.prev = task[t].prev /\ to.status = task[t].status
    BY <1>2 DEF EarlyJob
<1> HIDE DEF to
<1>6. CASE Goes(t, Idle)
    <2>1. task'[t] = Idle /\ Idle.at = "idle"
        BY <1>6, TaskGoes DEF ScoresInv, ScoresType, Idle
    <2>2. JobTyped(t)'
        BY <2>1 DEF JobTyped, Stage
    <2>3. QED  BY <1>1, <1>2, <1>3, <1>4, <1>6, <2>1, <2>2, QuietMove DEF Stage
<1>7. CASE task[t].status # "none" /\ Goes(t, to)
    <2>1. task'[t] = to
        BY <1>7, TaskGoes DEF ScoresInv, ScoresType
    <2>2. JobTyped(t)'
        BY <1>2, <1>5, <2>1 DEF JobTyped, Stage
    <2>3. ASSUME trouble = {} PROVE Owes(t)'
        <3>1. /\ Even(t) /\ (task[t].status = "best" => Replaces(t))
              /\ mode[task[t].on] = p.mode
            BY <1>1, <1>2, <1>7, <2>3, OwedNothing DEF StatsKnown, Stage
        <3>2. mem'[task[t].on] = mem[task[t].on] /\ mode'[task[t].on] = mode[task[t].on]
            <4>1. Held(task[t].on)
                BY <1>5, <2>1 DEF Held, Idle
            <4>2. QED  BY <1>2, <1>3, <4>1
        <3>3. \A m : Truth(m)' = Truth(m)
            BY <1>1, SameTruth
        <3>4. Even(t)'
            BY <1>1, <1>5, <2>1, <3>1, <3>2, <3>3 DEF Even
        <3>5. CASE task[t].status = "best"
            <4>1. Replaces(t)'
                BY <1>1, <1>5, <2>1, <3>1, <3>5, StillReplaces
            <4>2. QED  BY <1>2, <1>5, <2>1, <3>1, <3>2, <3>4, <3>5, <4>1, OwesNothing DEF Stage
        <3>6. CASE task[t].status # "best"
            <4>1. /\ task'[t].at = "insert" /\ task'[t].status # "best" /\ task'[t].play = p
                  /\ mode'[task'[t].on] = p.mode
                BY <1>5, <2>1, <3>1, <3>2, <3>6
            <4>2. \A n \in Mode : stats'[n] = Truth(n)' /\ mem'[task'[t].on][n] = stats'[n]
                BY <3>4 DEF Even
            <4>3. QED  BY <1>2, <4>1, <4>2 DEF Owes, Stage, Counts
        <3>7. QED  BY <3>5, <3>6
    <2>4. QED  BY <1>1, <1>2, <1>3, <1>4, <1>5, <1>7, <2>1, <2>2, <2>3, QuietMove DEF Stage
<1>8. QED  BY <1>1, <1>6, <1>7

LEMMA DemoteStats ==
    ASSUME StatsInv, NEW t \in Task, Demote(t)
    PROVE  StatsInv'
<1> USE DEF StatsInv
<1>0. PICK p : p = task[t].play
    OBVIOUS
<1>1. /\ task[t].at = "demote" /\ UNCHANGED <<stats, current, loading, mem, mode, contended, trouble>>
      /\ scores' = [i \in DOMAIN scores |-> IF i \in BestRows(p) THEN [scores[i] EXCEPT !.status = "submitted"] ELSE scores[i]]
      /\ Goes(t, [task[t] EXCEPT !.at = "insert"])
    BY <1>0 DEF Demote, DemotedRows
<1>2. /\ t \in Busy /\ t \in Early /\ task[t] \in EarlyJob /\ p \in Play /\ p.mode \in Mode /\ task[t].on \in Session
      /\ task[t].prev \in Play \cup {None} /\ task[t].status = "best"
    BY <1>0, <1>1, JobIs DEF ScoresInv, Stage, StatsType, JobTyped, Early, KnowsAnyway
<1>3. task'[t] = [task[t] EXCEPT !.at = "insert"] /\ \A u \in Task : u # t => task'[u] = task[u]
    BY <1>1, TaskGoes DEF ScoresInv, ScoresType
<1>4. /\ task'[t].at = "insert" /\ task'[t].on = task[t].on /\ task'[t].play = p
      /\ task'[t].prev = task[t].prev /\ task'[t].status = "best"
    BY <1>0, <1>2, <1>3 DEF EarlyJob
<1>5. ScoresInv'
    BY DemoteKeeps
<1>6. JobTyped(t)'
    BY <1>2, <1>4 DEF JobTyped, Stage
<1>7. StatsType'
    BY <1>1, <1>3, <1>6, TypeStep DEF StatsType
<1>8. /\ Kept' = Kept /\ \A m : PlaysOf(m)' = PlaysOf(m)
      /\ \A m : m # p.mode => Truth(m)' = Truth(m)
      /\ p.map \notin Ranked \/ BestRows(p) = {} => Truth(p.mode)' = Truth(p.mode)
      /\ \A j : p.map \in Ranked /\ BestRows(p) = {j} =>
            Truth(p.mode)'.rscore = Truth(p.mode).rscore - scores[j].play.score
    BY <1>1, <1>2, DemoteTruth DEF ScoresInv
<1>9. ASSUME trouble = {} PROVE Owes(t)'
    <2> DEFINE m == p.mode
               s == task[t].on
    <2>1. Even(t) /\ Replaces(t) /\ mode[s] = m
        BY <1>0, <1>1, <1>2, <1>9, OwedNothing DEF StatsKnown, Stage
    <2>2. (\A n \in Mode : stats[n] = Truth(n) /\ mem[s][n] = stats[n])
        BY <2>1 DEF Even
    <2>3. stats'[m].plays = Truth(m)'.plays
        BY <1>1, <1>2, <1>8, <2>2 DEF Truth
    <2>4. ~Counts(t)' => stats'[m] = Truth(m)'
        BY <1>1, <1>2, <1>4, <1>8, <2>2 DEF Counts
    <2>5. Counts(t)' => stats'[m].rscore = Truth(m)'.rscore + Earned(t)'
        <3> SUFFICES ASSUME p.map \in Ranked PROVE stats'[m].rscore = Truth(m)'.rscore + Earned(t)'
            BY <1>4 DEF Counts
        <3>1. stats'[m].rscore = Truth(m).rscore /\ Truth(m).rscore \in Int
            BY <1>1, <1>2, <2>2, TruthTyped DEF ScoresInv, Numbers
        <3>2. CASE task[t].prev = None
            <4>1. BestRows(p) = {} /\ Earned(t)' = 0
                BY <1>0, <1>4, <2>1, <3>2 DEF Replaces, Earned
            <4>2. QED  BY <1>8, <3>1, <4>1
        <3>3. CASE task[t].prev # None
            <4>1. PICK i \in DOMAIN scores : BestRows(p) = {i} /\ scores[i].play = task[t].prev
                BY <1>0, <2>1, <3>3 DEF Replaces
            <4>2. Earned(t)' = scores[i].play.score /\ Earned(t)' \in Int
                BY <1>2, <1>4, <3>3, <4>1, PlayNumbers DEF Earned
            <4>3. Truth(m)'.rscore = Truth(m).rscore - scores[i].play.score
                BY <1>8, <4>1
            <4>4. QED  BY <3>1, <4>2, <4>3
        <3>4. QED  BY <3>2, <3>3
    <2>6. \A n \in Mode \ {m} : stats'[n] = Truth(n)' /\ mem'[s][n] = stats'[n]
        BY <1>1, <1>8, <2>2
    <2>7. mem'[s][m] = stats'[m] /\ mode'[s] = m
        BY <1>1, <1>2, <2>1, <2>2
    <2> HIDE DEF m, s
    <2>8. task'[t].play.mode = m /\ task'[t].on = s
        BY <1>4 DEF m, s
    <2>9. QED  BY <1>4, <2>3, <2>4, <2>5, <2>6, <2>7, <2>8 DEF Owes, Stage
<1>10. ASSUME trouble \cap {"login", "wipe"} = {} PROVE Counted'
    <2>1. Counted
        BY <1>10 DEF PlaysCounted
    <2>2. AtStats' = AtStats
        <3>1. \A u \in Task : task'[u].at = "stats" <=> task[u].at = "stats"
            BY <1>1, <1>3, <1>4
        <3>2. QED  BY <3>1 DEF AtStats
    <2>3. Live' = Live /\ Live \subseteq {current}
        BY <1>1, <1>2, <1>10 DEF Live, PlaysCounted, Attached
    <2>4. QED  BY <1>1, <1>8, <2>1, <2>2, <2>3, SamePlays
<1>11. \A i \in DOMAIN scores' : scores'[i].status # "wiped" \/ (i \in DOMAIN scores /\ scores[i].status = "wiped")
    <2>1. \A i \in DOMAIN scores : scores[i] \in Row
        BY RowsTyped DEF ScoresInv
    <2>2. QED  BY <1>1, <2>1 DEF Row
<1>12. trouble = {} => \A i \in DOMAIN scores' : scores'[i].status # "wiped"
    BY <1>11 DEF Calm
<1>13. t \in Busy'
    BY <1>2, <1>4 DEF Busy, Idle
<1>14. QED  BY <1>1, <1>2, <1>3, <1>4, <1>5, <1>7, <1>9, <1>10, <1>12, <1>13, TaskMoves

\* The plays of all modes are those of the mode of a new row, and one more.
LEMMA PlaysOneMore ==
    ASSUME ScoresType, NEW m \in Mode, PlaysOf(m)' = PlaysOf(m) + 1, \A n : n # m => PlaysOf(n)' = PlaysOf(n)
    PROVE  /\ SumFunction([n \in Mode |-> PlaysOf(n)])' = SumFunction([n \in Mode |-> PlaysOf(n)]) + 1
           /\ SumFunction([n \in Mode |-> PlaysOf(n)]) \in Int
<1> DEFINE g == [n \in Mode |-> PlaysOf(n)]
           h == [n \in Mode |-> PlaysOf(n)']
<1>1. \A n \in Mode : g[n] \in Int
    BY TruthTyped
<1>2. h[m] = g[m] + 1 /\ h[m] \in Int /\ \A n \in Mode \ {m} : h[n] = g[n]
    BY <1>1
<1>3. SumFunction(g) = SumFunctionOnSet(g, Mode) /\ SumFunction(g)' = SumFunctionOnSet(h, Mode)
    BY DEF SumFunction
<1> HIDE DEF g, h
<1>4. SumFunctionOnSet(h, Mode) = SumFunctionOnSet(g, Mode) - g[m] + h[m]
    BY <1>1, <1>2, ModeAssumption, SumChanges
<1>5. SumFunctionOnSet(g, Mode) \in Int
    BY <1>1, ModeAssumption, SumInt
<1>6. SumFunction(g)' = SumFunction(g) + 1 /\ SumFunction(g) \in Int
    BY <1>1, <1>2, <1>3, <1>4, <1>5
<1>7. QED  BY <1>6 DEF g

LEMMA InsertStats ==
    ASSUME StatsInv, NEW t \in Task, Insert(t)
    PROVE  StatsInv'
<1> USE DEF StatsInv
<1>0. PICK p, st : p = task[t].play /\ st = task[t].status
    OBVIOUS
<1>1. /\ task[t].at = "insert" /\ UNCHANGED <<stats, loading, mem, mode, contended, trouble>>
      /\ scores' = Append(scores, [play |-> p, status |-> st])
      /\ current' \in {current, None}
      /\ Goes(t, [task[t] EXCEPT !.at = "stats"])
    BY <1>0 DEF Insert
<1>2. /\ t \in Busy /\ t \in Early /\ task[t] \in EarlyJob /\ p \in Play /\ p.mode \in Mode /\ task[t].on \in Session
      /\ task[t].prev \in Play \cup {None} /\ st \in Result
    <2>1. t \in Busy /\ t \in Early /\ task[t] \in EarlyJob /\ p \in Play /\ p.mode \in Mode /\ task[t].on \in Session
        BY <1>0, <1>1, JobIs DEF ScoresInv, Stage, Early
    <2>2. task[t].prev \in Play \cup {None}
        BY <1>1 DEF StatsType, JobTyped, Stage
    <2>3. st # "none"
        BY <1>0, <1>1, <2>1 DEF ScoresInv, KnowsAnyway
    <2>4. QED  BY <1>0, <2>1, <2>2, <2>3 DEF EarlyJob, Result
<1>3. task'[t] = [task[t] EXCEPT !.at = "stats"] /\ \A u \in Task : u # t => task'[u] = task[u]
    BY <1>1, TaskGoes DEF ScoresInv, ScoresType
<1>4. /\ task'[t].at = "stats" /\ task'[t].on = task[t].on /\ task'[t].play = p
      /\ task'[t].prev = task[t].prev /\ task'[t].status = st
      /\ task'[t] \in StatsJob
    BY <1>0, <1>2, <1>3 DEF EarlyJob, StatsJob
<1>5. ScoresInv'
    BY InsertKeeps
<1>6. JobTyped(t)'
    BY <1>4 DEF JobTyped, Stage
<1>7. StatsType'
    BY <1>1, <1>3, <1>6, TypeStep DEF StatsType
<1>8. /\ Cardinality(Kept)' = Cardinality(Kept) + 1
      /\ \A m : m # p.mode => Truth(m)' = Truth(m) /\ PlaysOf(m)' = PlaysOf(m)
      /\ PlaysOf(p.mode)' = PlaysOf(p.mode) + 1
      /\ ~(st = "best" /\ p.map \in Ranked) =>
            Truth(p.mode)' = [Truth(p.mode) EXCEPT !.plays = PlaysOf(p.mode) + 1]
      /\ st = "best" /\ p.map \in Ranked =>
            RankedRows(p.mode)' # {} /\ Truth(p.mode)'.rscore = Truth(p.mode).rscore + p.score
    BY <1>1, <1>2, InsertTruth DEF ScoresInv
<1>9. ASSUME trouble = {} PROVE Owes(t)'
    <2> DEFINE m == p.mode
               s == task[t].on
               c == st = "best" /\ p.map \in Ranked
    <2>1. /\ \A n \in Mode \ {m} : stats[n] = Truth(n) /\ mem[s][n] = stats[n]
          /\ mem[s][m] = stats[m] /\ mode[s] = m /\ stats[m].plays = Truth(m).plays
          /\ ~c => stats[m] = Truth(m)
          /\ c => stats[m].rscore = Truth(m).rscore + Earned(t)
        <3>1. Owes(t)
            BY <1>2, <1>9 DEF StatsKnown
        <3>2. st # "none"
            BY <1>2 DEF Result
        <3>3. QED  BY <1>0, <1>1, <3>1, <3>2 DEF Owes, Stage, Counts
    <2>2. /\ stats[m] \in Numbers /\ Truth(m) \in Numbers /\ Truth(m).plays = PlaysOf(m) /\ Truth(m)'.plays = PlaysOf(m)'
          /\ PlaysOf(m) \in Nat
        BY <1>2, TruthTyped DEF StatsType, ScoresInv, Truth
    <2>3. stats'[m].plays + 1 = Truth(m)'.plays
        BY <1>1, <1>8, <2>1, <2>2
    <2>4. ~c => Truth(m)' = [stats'[m] EXCEPT !.plays = @ + 1]
        BY <1>1, <1>8, <2>1, <2>2 DEF Numbers
    <2>5. c => RankedRows(m)' # {} /\ stats'[m].rscore + Gained(t)' = Truth(m)'.rscore
        <3> SUFFICES ASSUME c PROVE stats'[m].rscore + Gained(t)' = Truth(m)'.rscore
            BY <1>8
        <3>1. Earned(t) \in Int /\ p.score \in Int
            BY <1>2, PlayNumbers DEF Earned
        <3>2. Gained(t)' = p.score - Earned(t)
            BY <1>4 DEF Gained, Earned
        <3>3. Truth(m).rscore \in Int
            BY <2>2 DEF Numbers
        <3>4. QED  BY <1>1, <1>8, <2>1, <3>1, <3>2, <3>3
    <2>6. \A n \in Mode \ {m} : stats'[n] = Truth(n)' /\ mem'[s][n] = stats'[n]
        BY <1>1, <1>8, <2>1
    <2>7. mem'[s][m] = stats'[m] /\ mode'[s] = m
        BY <1>1, <2>1
    <2>8. Counts(t)' <=> c
        BY <1>4 DEF Counts
    <2> HIDE DEF m, s, c
    <2>9. task'[t].play.mode = m /\ task'[t].on = s
        BY <1>4 DEF m, s
    <2>10. QED  BY <1>4, <2>3, <2>4, <2>5, <2>6, <2>7, <2>8, <2>9 DEF Owes, Stage
<1>10. ASSUME trouble \cap {"login", "wipe"} = {} PROVE Counted'
    <2>1. Counted
        BY <1>10 DEF PlaysCounted
    <2>2. AtStats' = AtStats \cup {t} /\ t \notin AtStats /\ IsFiniteSet(AtStats)
        <3>1. \A u \in Task : task'[u].at = "stats" <=> task[u].at = "stats" \/ u = t
            BY <1>1, <1>3, <1>4
        <3>2. AtStats \subseteq Busy
            BY DEF AtStats, Busy, Idle
        <3>3. IsFiniteSet(AtStats)
            BY <3>2, FS_Subset DEF StatsType
        <3>4. QED  BY <1>1, <3>1, <3>3 DEF AtStats
    <2>3. Cardinality(AtStats)' = Cardinality(AtStats) + 1 /\ Cardinality(AtStats) \in Nat
        BY <2>2, FS_AddElement, FS_CardinalityType
    <2>4. Cardinality(Kept) \in Nat
        BY RowsFinite, FS_CardinalityType DEF ScoresInv
    <2>5. SumFunction([m \in Mode |-> PlaysOf(m)])' = SumFunction([m \in Mode |-> PlaysOf(m)]) + 1
        BY <1>2, <1>8, PlaysOneMore DEF ScoresInv
    <2>6. ASSUME NEW r \in Live' PROVE (PlaysIn(r) + Cardinality(AtStats))' = Cardinality(Kept)'
        <3>1. r \in Live /\ PlaysIn(r)' = PlaysIn(r)
            BY <1>1 DEF Live, PlaysIn
        <3>2. PlaysIn(r) + Cardinality(AtStats) = Cardinality(Kept)
            BY <2>1, <3>1 DEF Counted
        <3>3. PlaysIn(r) \in Int
            <4> DEFINE g == [m \in Mode |-> mem[r][m].plays]
            <4>1. \A m \in Mode : g[m] \in Int
                BY <3>1 DEF StatsType, Numbers, Live, ScoresInv, ScoresType
            <4>2. PlaysIn(r) = SumFunctionOnSet(g, Mode)
                BY DEF PlaysIn, SumFunction
            <4> HIDE DEF g
            <4>3. QED  BY <4>1, <4>2, ModeAssumption, SumInt
        <3>4. QED  BY <1>8, <2>3, <2>4, <3>1, <3>2, <3>3
    <2>7. QED  BY <1>8, <2>1, <2>5, <2>6 DEF Counted
<1>11. trouble = {} => \A i \in DOMAIN scores' : scores'[i].status # "wiped"
    <2>1. \A i \in DOMAIN scores' : (i \in DOMAIN scores /\ scores'[i] = scores[i]) \/ scores'[i].status = st
        BY <1>1, RowsTyped DEF ScoresInv, ScoresType
    <2>2. QED  BY <1>2, <2>1 DEF Calm, Result
<1>12. t \in Busy'
    BY <1>2, <1>4 DEF Busy, Idle
<1>13. QED  BY <1>1, <1>2, <1>3, <1>4, <1>5, <1>7, <1>9, <1>10, <1>11, <1>12, TaskMoves

\* The session counts one more play of mode m.
LEMMA CountsOneMore ==
    ASSUME StatsType, NEW s \in Session, NEW m \in Mode, mem'[s][m].plays = mem[s][m].plays + 1,
           \A n \in Mode \ {m} : mem'[s][n].plays = mem[s][n].plays
    PROVE  PlaysIn(s)' = PlaysIn(s) + 1 /\ PlaysIn(s) \in Int
<1> DEFINE g == [n \in Mode |-> mem[s][n].plays]
           h == [n \in Mode |-> mem'[s][n].plays]
<1>1. \A n \in Mode : g[n] \in Int
    BY DEF StatsType, Numbers
<1>2. h[m] = g[m] + 1 /\ h[m] \in Int /\ \A n \in Mode \ {m} : h[n] = g[n]
    BY <1>1
<1>3. PlaysIn(s) = SumFunctionOnSet(g, Mode) /\ PlaysIn(s)' = SumFunctionOnSet(h, Mode)
    BY DEF SumFunction, PlaysIn
<1> HIDE DEF g, h
<1>4. SumFunctionOnSet(h, Mode) = SumFunctionOnSet(g, Mode) - g[m] + h[m]
    BY <1>1, <1>2, ModeAssumption, SumChanges
<1>5. SumFunctionOnSet(g, Mode) \in Int
    BY <1>1, ModeAssumption, SumInt
<1>6. QED  BY <1>1, <1>2, <1>3, <1>4, <1>5

LEMMA AddStats ==
    ASSUME StatsInv, NEW t \in Task, AddToStats(t)
    PROVE  StatsInv'
<1> USE DEF StatsInv
<1>0. PICK p, s, m, c, gain : p = task[t].play /\ s = task[t].on /\ m = mode[s] /\ c = Counts(t) /\ gain = Gained(t)
    OBVIOUS
<1> DEFINE new == [mem[s][m] EXCEPT !.plays = @ + 1, !.rscore = @ + (IF c THEN gain ELSE 0)]
           to == [at |-> IF c THEN "pp" ELSE "update", play |-> p, on |-> s, counts |-> c, of |-> m, new |-> new]
<1>1. /\ task[t].at = "stats" /\ UNCHANGED <<scores, stats, current, loading, mode, contended, trouble>>
      /\ mem' = [mem EXCEPT ![s][m] = new] /\ Goes(t, to)
    BY <1>0 DEF AddToStats
<1>2. /\ t \in Busy /\ task[t] \in StatsJob /\ p \in Play /\ p.mode \in Mode /\ s \in Session /\ m \in Mode
      /\ c \in BOOLEAN /\ gain \in Int
    <2>1. t \in Busy /\ task[t] \in StatsJob /\ p \in Play /\ p.mode \in Mode /\ s \in Session /\ m \in Mode
        BY <1>0, <1>1, JobIs DEF ScoresInv, StatsType
    <2>2. gain \in Int
        BY <1>0, <2>1, PlayNumbers DEF Gained, StatsJob
    <2>3. c \in BOOLEAN
        BY <1>0 DEF Counts
    <2>4. QED  BY <2>1, <2>2, <2>3
<1>3. mem \in [Session -> [Mode -> Numbers]] /\ stats \in [Mode -> Numbers] /\ mem[s][m] \in Numbers
    BY <1>2 DEF StatsType
<1>4. /\ new \in Numbers /\ new.plays = mem[s][m].plays + 1 /\ new.pp = mem[s][m].pp
      /\ new.rscore = mem[s][m].rscore + (IF c THEN gain ELSE 0)
    <2>1. PICK old, more : old = mem[s][m] /\ more = (IF c THEN gain ELSE 0)
        OBVIOUS
    <2>2. old \in Numbers /\ more \in Int
        BY <1>2, <1>3, <2>1
    <2>3. new = [old EXCEPT !.plays = @ + 1, !.rscore = @ + more]
        BY <2>1
    <2> HIDE DEF new
    <2>4. old.plays \in Int /\ old.rscore \in Int /\ old.pp \in Int /\ DOMAIN old = {"plays", "rscore", "pp"}
        BY <2>2 DEF Numbers
    <2>5. PICK n, r : n = old.plays + 1 /\ r = old.rscore + more
        OBVIOUS
    <2>6. n \in Int /\ r \in Int
        BY <2>2, <2>4, <2>5
    <2>7. new = [old EXCEPT !.plays = n, !.rscore = r]
        BY <2>3, <2>5
    <2>8. new \in Numbers /\ new.plays = n /\ new.pp = old.pp /\ new.rscore = r
        BY <2>2, <2>4, <2>6, <2>7 DEF Numbers
    <2>9. QED  BY <2>1, <2>5, <2>8
<1> HIDE DEF new
<1>5. mem' \in [Session -> [Mode -> Numbers]] /\ mem'[s][m] = new /\ \A n \in Mode \ {m} : mem'[s][n] = mem[s][n]
    BY <1>1, <1>2, <1>3, <1>4
<1>6. /\ task'[t] = to /\ \A u \in Task : u # t => task'[u] = task[u]
    BY <1>1, TaskGoes DEF ScoresInv, ScoresType
<1>7. to \in LateJob
    BY <1>2, <1>4 DEF LateJob
<1>8. ScoresInv'
    BY StatsKeep
<1>9. JobTyped(t)'
    BY <1>6, <1>7 DEF JobTyped, Stage, LateJob
<1>10. StatsType'
    BY <1>1, <1>5, <1>6, <1>9, TypeStep DEF StatsType
<1>11. ASSUME trouble = {} PROVE Owes(t)'
    <2>1. /\ \A n \in Mode \ {p.mode} : stats[n] = Truth(n) /\ mem[s][n] = stats[n]
          /\ mem[s][m] = stats[m] /\ m = p.mode
          /\ stats[m].plays + 1 = Truth(m).plays
          /\ ~c => Truth(m) = [stats[m] EXCEPT !.plays = @ + 1]
          /\ c => RankedRows(m) # {} /\ stats[m].rscore + gain = Truth(m).rscore
        <3>1. Owes(t)
            BY <1>2, <1>11 DEF StatsKnown
        <3>2. task[t].status # "none"
            BY <1>2 DEF Result, StatsJob
        <3>3. m = p.mode
            BY <1>0, <1>1, <3>1, <3>2 DEF Owes, Stage
        <3>4. QED  BY <1>0, <1>1, <3>1, <3>3 DEF Owes, Stage
    <2>2. stats[m] \in Numbers /\ Truth(m) \in Numbers
        BY <1>2, <1>3, TruthTyped DEF ScoresInv
    <2>3. (\A n : Truth(n)' = Truth(n)) /\ RankedRows(m)' = RankedRows(m)
        BY <1>1, SameTruth
    <2>4. ~c => new = Truth(m) /\ [stats[m] EXCEPT !.plays = Truth(m).plays] = Truth(m)
        BY <1>4, <2>1, <2>2 DEF Numbers
    <2>5. c => new.plays = Truth(m).plays /\ new.rscore = Truth(m).rscore
        BY <1>4, <2>1, <2>2 DEF Numbers
    <2>6. /\ task'[t].at = (IF c THEN "pp" ELSE "update") /\ task'[t].play = p /\ task'[t].on = s
          /\ task'[t].counts = c /\ task'[t].of = m /\ task'[t].new = new
        BY <1>6
    <2> HIDE DEF to
    <2>7. stats' = stats
        BY <1>1
    <2>8. CASE c
        BY <1>5, <2>1, <2>3, <2>5, <2>6, <2>7, <2>8 DEF Owes, Stage
    <2>9. CASE ~c
        BY <1>5, <2>1, <2>3, <2>4, <2>6, <2>7, <2>9 DEF Owes, Stage
    <2>10. QED  BY <2>8, <2>9
<1>12. ASSUME trouble \cap {"login", "wipe"} = {} PROVE Counted'
    <2>1. Counted /\ Live \subseteq {s}
        BY <1>0, <1>2, <1>12 DEF PlaysCounted, Attached, Live
    <2>2. AtStats' = AtStats \ {t} /\ t \in AtStats /\ IsFiniteSet(AtStats)
        <3>1. \A u \in Task : task'[u].at = "stats" <=> task[u].at = "stats" /\ u # t
            BY <1>1, <1>6
        <3>2. AtStats \subseteq Busy
            BY DEF AtStats, Busy, Idle
        <3>3. IsFiniteSet(AtStats)
            BY <3>2, FS_Subset DEF StatsType
        <3>4. QED  BY <1>1, <1>2, <3>1, <3>3 DEF AtStats, Busy
    <2>3. Cardinality(AtStats)' = Cardinality(AtStats) - 1 /\ Cardinality(AtStats) \in Nat
        BY <2>2, FS_RemoveElement, FS_CardinalityType
    <2>4. Kept' = Kept /\ \A n : PlaysOf(n)' = PlaysOf(n)
        BY <1>1, SameTruth
    <2>5. PlaysIn(s)' = PlaysIn(s) + 1 /\ PlaysIn(s) \in Int
        BY <1>2, <1>4, <1>5, CountsOneMore
    <2>6. Live' = Live
        BY <1>1 DEF Live
    <2>7. \A r \in Live' : (PlaysIn(r) + Cardinality(AtStats))' = Cardinality(Kept)'
        BY <2>1, <2>3, <2>4, <2>5, <2>6 DEF Counted
    <2>8. QED  BY <2>1, <2>4, <2>7 DEF Counted
<1>13. trouble = {} => \A i \in DOMAIN scores' : scores'[i].status # "wiped"
    BY <1>1 DEF Calm
<1>14. t \in Busy' /\ task'[t].on = task[t].on
    <2>1. task'[t].at # "idle"
        BY <1>6
    <2>2. QED  BY <1>0, <1>2, <1>6, <2>1 DEF Busy, Idle
<1>15. QED  BY <1>1, <1>2, <1>6, <1>8, <1>10, <1>11, <1>12, <1>13, <1>14, TaskMoves

\* What the last steps leave alone is counted as it was.
LEMMA LastCounted ==
    ASSUME StatsInv, NEW t \in Task, UNCHANGED <<scores, current, loading>>, task[t].at \in {"pp", "update"},
           task'[t].at \in {"update", "idle"}, \A u \in Task : u # t => task'[u] = task[u],
           trouble \cap {"login", "wipe"} = {},
           current # None => \A m \in Mode : mem'[current][m].plays = mem[current][m].plays
    PROVE  Counted'
<1>1. t \in Busy
    BY DEF Busy, Idle
<1>2. Counted /\ loading = None
    BY <1>1 DEF StatsInv, PlaysCounted, Attached
<1>3. AtStats' = AtStats
    <2>1. \A u \in Task : task'[u].at = "stats" <=> task[u].at = "stats"
        OBVIOUS
    <2>2. QED  BY <2>1 DEF AtStats
<1>4. Live' = Live /\ Live \subseteq {current} /\ (current \in Live => current # None)
    BY <1>2 DEF Live
<1>5. Kept' = Kept /\ \A m : PlaysOf(m)' = PlaysOf(m)
    BY SameTruth
<1>6. QED  BY <1>2, <1>3, <1>4, <1>5, SamePlays

LEMMA BestStats ==
    ASSUME StatsInv, NEW t \in Task, SelectBest(t)
    PROVE  StatsInv'
<1> USE DEF StatsInv
<1>0. PICK p, s, m, rows, pp : p = task[t].play /\ s = task[t].on /\ m = task[t].of
                            /\ rows = RankedRows(p.mode) /\ pp = Total(rows, "pp")
    OBVIOUS
<1>1. /\ task[t].at = "pp" /\ UNCHANGED <<scores, stats, current, loading, contended, trouble>>
      /\ mode' = Forget(mode, FirstMode)
      /\ \/ rows = {} /\ Goes(t, Idle) /\ mem' = Forget(mem, NoStats)
         \/ mem' = [mem EXCEPT ![s][m].pp = pp] /\ Goes(t, [task[t] EXCEPT !.at = "update", !.new.pp = pp])
    BY <1>0 DEF SelectBest
<1>2. t \in Busy /\ task[t] \in LateJob /\ p \in Play /\ p.mode \in Mode /\ s \in Session /\ m \in Mode
    BY <1>0, <1>1, JobIs DEF ScoresInv, LateJob
<1>3. pp \in Int
    BY <1>0, TotalTyped DEF ScoresInv
<1>4. mem \in [Session -> [Mode -> Numbers]] /\ stats \in [Mode -> Numbers] /\ mem[s][m] \in Numbers
      /\ current \in Session \cup {None} /\ (current # None => loading = None)
    BY <1>2 DEF StatsType, ScoresInv, ScoresType
<1>5. mode' \in [Session -> Mode]
    BY <1>1, Forgets
<1>6. ScoresInv'
    BY StatsKeep
<1>7. CASE rows = {} /\ Goes(t, Idle) /\ mem' = Forget(mem, NoStats)
    <2>1. task'[t] = Idle /\ Idle.at = "idle" /\ \A u \in Task : u # t => task'[u] = task[u]
        BY <1>7, TaskGoes DEF ScoresInv, ScoresType, Idle
    <2>2. JobTyped(t)'
        BY <2>1 DEF JobTyped, Stage
    <2>3. /\ mem' \in [Session -> [Mode -> Numbers]] /\ (current # None => mem'[current] = mem[current])
        BY <1>1, <1>4, <1>7, Forgets DEF Held
    <2>4. StatsType'
        BY <1>1, <1>4, <1>5, <2>1, <2>2, <2>3, TypeStep
    <2>5. trouble # {}
        <3>1. Owes(t) => RankedRows(p.mode) # {}
            BY <1>0, <1>1 DEF Owes
        <3>2. QED  BY <1>0, <1>2, <1>7, <3>1 DEF StatsKnown
    <2>6. trouble \cap {"login", "wipe"} = {} => Counted'
        BY <1>1, <2>1, <2>3, LastCounted
    <2>7. t \notin Busy'
        BY <2>1 DEF Busy
    <2>8. QED  BY <1>1, <1>2, <1>6, <2>1, <2>4, <2>5, <2>6, <2>7, TaskMoves
<1>8. CASE mem' = [mem EXCEPT ![s][m].pp = pp] /\ Goes(t, [task[t] EXCEPT !.at = "update", !.new.pp = pp])
    <2> DEFINE new == [mem[s][m] EXCEPT !.pp = pp]
    <2>1. task'[t] = [task[t] EXCEPT !.at = "update", !.new.pp = pp] /\ \A u \in Task : u # t => task'[u] = task[u]
        BY <1>8, TaskGoes DEF ScoresInv, ScoresType
    <2>2. /\ task'[t] \in LateJob /\ task'[t].at = "update" /\ task'[t].play = p /\ task'[t].on = s /\ task'[t].of = m
          /\ task'[t].counts = task[t].counts /\ task'[t].new = [task[t].new EXCEPT !.pp = pp]
        <3>1. task[t].new \in Numbers
            BY <1>2 DEF LateJob
        <3>2. [task[t].new EXCEPT !.pp = pp] \in Numbers
            BY <1>3, <3>1 DEF Numbers
        <3>3. QED  BY <1>0, <1>2, <2>1, <3>2 DEF LateJob
    <2>3. new \in Numbers /\ new.plays = mem[s][m].plays /\ new.rscore = mem[s][m].rscore /\ new.pp = pp
        BY <1>3, <1>4 DEF Numbers
    <2>4. mem' = [mem EXCEPT ![s][m] = new]
        BY <1>2, <1>4, <1>8
    <2> HIDE DEF new
    <2>5. mem' \in [Session -> [Mode -> Numbers]] /\ mem'[s][m] = new /\ \A n \in Mode \ {m} : mem'[s][n] = mem[s][n]
        BY <1>2, <1>4, <2>3, <2>4
    <2>6. JobTyped(t)'
        BY <2>2 DEF JobTyped, Stage
    <2>7. StatsType'
        BY <1>1, <1>4, <1>5, <2>1, <2>5, <2>6, TypeStep
    <2>8. ASSUME trouble = {} PROVE Owes(t)'
        <3>1. /\ \A n \in Mode \ {p.mode} : stats[n] = Truth(n) /\ mem[s][n] = stats[n]
              /\ m = p.mode /\ task[t].new = mem[s][m] /\ task[t].counts
              /\ task[t].new.plays = Truth(m).plays /\ task[t].new.rscore = Truth(m).rscore
            <4>1. Owes(t)
                BY <1>2, <2>8 DEF StatsKnown
            <4>2. m = p.mode
                BY <1>0, <1>1, <4>1 DEF Owes
            <4>3. QED  BY <1>0, <1>1, <4>1, <4>2 DEF Owes
        <3>2. Truth(m) \in Numbers /\ Truth(m).pp = pp /\ mem[s][m] \in Numbers
            BY <1>0, <1>4, <3>1, TruthTyped DEF ScoresInv
        <3>3. \A n : Truth(n)' = Truth(n)
            BY <1>1, SameTruth
        <3>4. task'[t].new = Truth(m) /\ new = Truth(m)
            BY <1>3, <2>2, <2>3, <3>1, <3>2 DEF Numbers
        <3>5. /\ task'[t].new = Truth(m)' /\ task'[t].new = mem'[s][m] /\ task'[t].counts
              /\ \A n \in Mode \ {m} : stats'[n] = Truth(n)' /\ mem'[s][n] = stats'[n]
            BY <1>1, <2>2, <2>5, <3>1, <3>3, <3>4
        <3>6. QED  BY <2>2, <3>1, <3>5 DEF Owes, Stage
    <2>9. ASSUME trouble \cap {"login", "wipe"} = {} PROVE Counted'
        <3>1. current # None => current = s
            BY <1>0, <1>2, <2>9 DEF PlaysCounted, Attached
        <3>2. current # None => \A n \in Mode : mem'[current][n].plays = mem[current][n].plays
            BY <2>3, <2>5, <3>1
        <3>3. QED  BY <1>1, <2>1, <2>2, <2>9, <3>2, LastCounted
    <2>10. t \in Busy' /\ task'[t].on = task[t].on
        BY <1>0, <1>2, <2>2 DEF Busy, Idle
    <2>11. trouble = {} => \A i \in DOMAIN scores' : scores'[i].status # "wiped"
        BY <1>1 DEF Calm
    <2>12. QED  BY <1>1, <1>2, <1>6, <2>1, <2>7, <2>8, <2>9, <2>10, <2>11, TaskMoves
<1>9. QED  BY <1>1, <1>7, <1>8

LEMMA UpdateKeeps ==
    ASSUME StatsInv, NEW t \in Task, UpdateStats(t)
    PROVE  StatsInv'
<1> USE DEF StatsInv
<1>0. PICK p, s, m, new, c : /\ p = task[t].play /\ s = task[t].on /\ m = p.mode
                             /\ new = task[t].new /\ c = task[t].counts
    OBVIOUS
<1>1. /\ task[t].at = "update" /\ UNCHANGED <<scores, current, loading, contended, trouble>>
      /\ stats' = [stats EXCEPT ![m] = IF c THEN new ELSE [stats[m] EXCEPT !.plays = new.plays]]
      /\ mem' = Forget(mem, NoStats) /\ mode' = Forget(mode, FirstMode) /\ Goes(t, Idle)
    BY <1>0 DEF UpdateStats
<1>2. /\ t \in Busy /\ task[t] \in LateJob /\ p \in Play /\ m \in Mode /\ s \in Session /\ new \in Numbers
    BY <1>0, <1>1, JobIs DEF ScoresInv, LateJob
<1>3. mem \in [Session -> [Mode -> Numbers]] /\ stats \in [Mode -> Numbers]
      /\ current \in Session \cup {None} /\ (current # None => loading = None)
    BY DEF StatsType, ScoresInv, ScoresType
<1>4. stats' \in [Mode -> Numbers]
    <2>1. [stats[m] EXCEPT !.plays = new.plays] \in Numbers
        BY <1>2, <1>3 DEF Numbers
    <2>2. QED  BY <1>1, <1>2, <1>3, <2>1
<1>5. mem' \in [Session -> [Mode -> Numbers]] /\ mode' \in [Session -> Mode]
      /\ (current # None => mem'[current] = mem[current])
    BY <1>1, <1>3, Forgets DEF Held
<1>6. task'[t] = Idle /\ Idle.at = "idle" /\ \A u \in Task : u # t => task'[u] = task[u]
    BY <1>1, TaskGoes DEF ScoresInv, ScoresType, Idle
<1>7. JobTyped(t)'
    BY <1>6 DEF JobTyped, Stage
<1>8. StatsType'
    BY <1>1, <1>3, <1>4, <1>5, <1>6, <1>7, TypeStep
<1>9. ScoresInv'
    BY StatsKeep
<1>10. ASSUME trouble = {}
       PROVE  (\A n \in Mode : stats[n] = Truth(n))' /\ (current' # None => mem'[current'] = stats')
    <2>1. /\ \A n \in Mode \ {m} : stats[n] = Truth(n) /\ mem[s][n] = stats[n]
          /\ new = mem[s][m] /\ new = Truth(m)
          /\ ~c => [stats[m] EXCEPT !.plays = Truth(m).plays] = Truth(m)
        <3>1. Owes(t)
            BY <1>2, <1>10 DEF StatsKnown
        <3>2. QED  BY <1>0, <1>1, <3>1 DEF Owes
    <2>2. stats'[m] = Truth(m) /\ \A n \in Mode \ {m} : stats'[n] = stats[n]
        BY <1>1, <1>2, <1>3, <2>1
    <2>3. \A n \in Mode : stats'[n] = Truth(n)'
        BY <1>1, <2>1, <2>2, SameTruth
    <2>4. current # None => current = s
        BY <1>0, <1>2, <1>10 DEF PlaysCounted, Attached
    <2>5. \A n \in Mode : mem[s][n] = stats'[n]
        BY <2>1, <2>2
    <2>6. mem[s] = stats'
        BY <1>2, <1>3, <1>4, <2>5
    <2>7. QED  BY <1>1, <1>5, <2>3, <2>4, <2>6
<1>11. trouble \cap {"login", "wipe"} = {} => Counted'
    BY <1>1, <1>5, <1>6, LastCounted
<1>12. t \notin Busy'
    BY <1>6 DEF Busy
<1>13. trouble = {} => \A i \in DOMAIN scores' : scores'[i].status # "wiped"
    BY <1>1 DEF Calm
<1>14. QED  BY <1>1, <1>2, <1>6, <1>8, <1>9, <1>10, <1>11, <1>12, <1>13, TaskMoves

-----------------------------------------------------------------------------
(* What happens meanwhile.                                                  *)

\* Owes, of the values it depends on.
Owed(e, st, me, mo, true, truth, ranked, bests, rows, counts, gained, earned) ==
    LET m == e.play.mode IN
    /\ \A n \in Mode \ {m} : st[n] = true[n] /\ me[n] = st[n]
    /\ e.at \in Stage \cup {"stats"} => me[m] = st[m]
    /\ e.at \in Stage \ {"insert"} => st[m] = truth
    /\ e.at \in {"placement", "duplicate", "demote"} /\ e.status = "best" =>
          IF e.prev = None THEN bests = {}
          ELSE \E i \in DOMAIN rows : bests = {i} /\ rows[i].play = e.prev
    /\ e.at \in {"duplicate", "demote", "insert", "stats"} /\ e.status # "none" => mo = m
    /\ e.at = "insert" => /\ st[m].plays = truth.plays
                          /\ ~counts => st[m] = truth
                          /\ counts => st[m].rscore = truth.rscore + earned
    /\ e.at = "stats"  => /\ st[m].plays + 1 = truth.plays
                          /\ ~counts => truth = [st[m] EXCEPT !.plays = @ + 1]
                          /\ counts => ranked # {} /\ st[m].rscore + gained = truth.rscore
    /\ e.at \in {"pp", "update"} => e.of = m /\ e.new = me[m]
    /\ e.at = "pp"     => /\ e.counts /\ ranked # {}
                          /\ e.new.plays = truth.plays /\ e.new.rscore = truth.rscore
    /\ e.at = "update" => /\ e.new = truth
                          /\ ~e.counts => [st[m] EXCEPT !.plays = truth.plays] = truth

\* Owes depends on these values alone.
LEMMA OwesValues ==
    ASSUME NEW t, NEW p, p = task[t].play, NEW s, s = task[t].on
    PROVE  LET m == p.mode IN
           Owes(t) <=> Owed(task[t], stats, mem[s], mode[s], [n \in Mode |-> Truth(n)], Truth(m), RankedRows(m),
                            BestRows(p), scores, Counts(t), Gained(t), Earned(t))
BY DEF Owes, Owed

\* A step that leaves scores, statistics and what the session holds alone changes
\* nothing of what a submission owes.
LEMMA StillOwes ==
    ASSUME UNCHANGED <<scores, stats>>, NEW t, Owes(t), task'[t] = task[t],
           mem'[task[t].on] = mem[task[t].on], mode'[task[t].on] = mode[task[t].on]
    PROVE  Owes(t)'
<1>1. PICK p, s : p = task[t].play /\ s = task[t].on
    OBVIOUS
<1>2. /\ \A m : Truth(m)' = Truth(m) /\ RankedRows(m)' = RankedRows(m)
      /\ BestRows(p)' = BestRows(p)
    BY SameTruth
<1>3. (Counts(t)' <=> Counts(t)) /\ Gained(t)' = Gained(t) /\ Earned(t)' = Earned(t)
    BY DEF Counts, Gained, Earned
<1>4. task'[t].play = p /\ task'[t].on = s /\ mem'[s] = mem[s] /\ mode'[s] = mode[s]
    BY <1>1
<1> DEFINE m == p.mode
           e == task[t]
           true == [n \in Mode |-> Truth(n)]
<1>5. Owed(e, stats, mem[s], mode[s], true, Truth(m), RankedRows(m), BestRows(p), scores, Counts(t), Gained(t), Earned(t))
    BY <1>1, OwesValues
<1>6. Owed(task'[t], stats', mem'[s], mode'[s], true', Truth(m)', RankedRows(m)', BestRows(p)', scores', Counts(t)', Gained(t)', Earned(t)')
    <2>1. stats' = stats /\ scores' = scores /\ task'[t] = e
        OBVIOUS
    <2>2. true' = true /\ Truth(m)' = Truth(m) /\ RankedRows(m)' = RankedRows(m) /\ BestRows(p)' = BestRows(p)
        BY <1>2
    <2>3. Counts(t)' = Counts(t)
        BY <1>3 DEF Counts
    <2>4. Gained(t)' = Gained(t) /\ Earned(t)' = Earned(t) /\ mem'[s] = mem[s] /\ mode'[s] = mode[s]
        BY <1>3, <1>4
    <2> HIDE DEF e, true, m
    <2>5. QED  BY <1>5, <2>1, <2>2, <2>3, <2>4
<1>7. task'[t].play = p /\ task'[t].on = s
    BY <1>4
<1>8. Owes(t)' <=> Owed(task'[t], stats', mem'[s], mode'[s], true', Truth(m)', RankedRows(m)', BestRows(p)', scores', Counts(t)', Gained(t)', Earned(t)')
    BY <1>7 DEF Owes, Owed
<1>9. QED  BY <1>6, <1>8

LEMMA SameTasks ==
    ASSUME UNCHANGED task
    PROVE  Busy' = Busy /\ AtStats' = AtStats /\ \A t : JobTyped(t)' <=> JobTyped(t)
BY DEF Busy, AtStats, JobTyped

LEMMA CountedStays ==
    ASSUME StatsInv, UNCHANGED <<scores, task, mem>>, Live' \subseteq Live, Counted
    PROVE  Counted'
<1>1. Kept' = Kept /\ AtStats' = AtStats /\ \A m : PlaysOf(m)' = PlaysOf(m)
    BY SameTruth, SameTasks
<1>2. SumFunction([m \in Mode |-> PlaysOf(m)])' = SumFunction([m \in Mode |-> PlaysOf(m)])
    BY <1>1
<1>3. \A s : PlaysIn(s)' = PlaysIn(s)
    BY DEF PlaysIn
<1>4. QED  BY <1>1, <1>2, <1>3 DEF Counted

LEMMA ModeStats ==
    ASSUME StatsInv, NEW m \in Mode, ChangeAction(m)
    PROVE  StatsInv'
<1> USE DEF StatsInv
<1>1. /\ current # None /\ mode' = [mode EXCEPT ![current] = m]
      /\ trouble' = IF Busy = {} THEN trouble ELSE trouble \cup {"mode"}
      /\ UNCHANGED <<scores, stats, current, loading, mem, task, contended>>
    BY DEF ChangeAction
<1>2. ScoresInv'
    BY <1>1, TasksStay DEF ScoresInv, ScoresType
<1>3. StatsType'
    BY <1>1, SameTasks DEF StatsType, ScoresInv, ScoresType
<1>4. trouble' = {} => trouble = {} /\ Busy = {}
    BY <1>1
<1>5. Calm'
    BY <1>1, <1>4, SameTasks DEF Calm
<1>6. StatsKnown'
    <2>1. Live' = Live
        BY <1>1 DEF Live
    <2>2. InStep => InStep'
        BY <1>1, <2>1, SameTruth DEF InStep
    <2>3. QED  BY <1>1, <1>4, <2>2, SameTasks DEF StatsKnown
<1>7. PlaysCounted'
    <2> SUFFICES ASSUME trouble' \cap {"login", "wipe"} = {} PROVE Attached' /\ Counted'
        BY DEF PlaysCounted
    <2>1. Attached /\ Counted
        BY <1>1 DEF PlaysCounted
    <2>2. Counted'
        BY <1>1, <2>1, CountedStays DEF Live
    <2>3. QED  BY <1>1, <2>1, <2>2, SameTasks DEF Attached
<1>8. QED  BY <1>2, <1>3, <1>5, <1>6, <1>7

LEMMA LogoutStats ==
    ASSUME StatsInv, Logout
    PROVE  StatsInv'
<1> USE DEF StatsInv
<1>1. /\ current # None /\ current' = None /\ UNCHANGED <<scores, stats, loading, task, contended, trouble>>
      /\ mem' = Forget(mem, NoStats) /\ mode' = Forget(mode, FirstMode)
    BY DEF Logout
<1>2. ScoresInv'
    BY <1>1, TasksStay DEF ScoresInv, ScoresType
<1>3. /\ mem' \in [Session -> [Mode -> Numbers]] /\ mode' \in [Session -> Mode]
      /\ \A s \in Session : Held(s) => mem'[s] = mem[s] /\ mode'[s] = mode[s]
    BY <1>1, Forgets
<1>4. StatsType'
    BY <1>1, <1>3, SameTasks DEF StatsType
<1>5. Calm'
    BY <1>1, SameTasks DEF Calm
<1>6. Live' = {}
    BY <1>1 DEF Live, StatsType
<1>7. StatsKnown'
    <2> SUFFICES ASSUME trouble = {} PROVE (Busy' = {} => InStep') /\ \A t \in Busy' : Owes(t)'
        BY <1>1 DEF StatsKnown
    <2>1. Busy = {} => InStep'
        BY <1>1, <1>6, SameTruth DEF StatsKnown, InStep
    <2>2. ASSUME NEW t \in Busy PROVE Owes(t)'
        <3>1. Held(task[t].on) /\ task[t].on \in Session
            BY <1>1, JobIs DEF Held, Busy, ScoresInv
        <3>2. QED  BY <1>1, <1>3, <3>1, StillOwes DEF StatsKnown
    <2>3. QED  BY <1>1, <2>1, <2>2, SameTasks
<1>8. PlaysCounted'
    <2> SUFFICES ASSUME trouble \cap {"login", "wipe"} = {} PROVE Attached' /\ Counted'
        BY <1>1 DEF PlaysCounted
    <2>1. Attached /\ Counted
        BY DEF PlaysCounted
    <2>2. SumFunction([m \in Mode |-> PlaysOf(m)])' = SumFunction([m \in Mode |-> PlaysOf(m)]) /\ Kept' = Kept
        BY <1>1, SameTruth
    <2>3. Counted'
        BY <1>6, <2>1, <2>2 DEF Counted
    <2>4. QED  BY <1>1, <2>1, <2>3, SameTasks DEF Attached
<1>9. QED  BY <1>2, <1>4, <1>5, <1>7, <1>8

LEMMA LoadsStats ==
    ASSUME StatsInv, NEW s \in Session, LoginLoads(s)
    PROVE  StatsInv'
<1> USE DEF StatsInv
<1>1. /\ current = None /\ loading = None /\ loading' = s /\ mem' = [mem EXCEPT ![s] = stats]
      /\ trouble' = IF Busy = {} /\ trouble = {} THEN {} ELSE trouble \cup {"login"}
      /\ UNCHANGED <<scores, stats, current, mode, task, contended>>
    BY DEF LoginLoads
<1>2. ScoresInv'
    BY <1>1, TasksStay DEF ScoresInv, ScoresType
<1>3. mem'[s] = stats /\ mem' \in [Session -> [Mode -> Numbers]]
    BY <1>1 DEF StatsType
<1>4. StatsType'
    BY <1>1, <1>3, SameTasks DEF StatsType
<1>5. trouble' \cap {"login", "wipe"} = {} => trouble = {} /\ Busy = {}
    BY <1>1
<1>6. Calm'
    BY <1>1, <1>5, SameTasks DEF Calm
<1>7. Live' = {s}
    BY <1>1, NoneAssumption DEF Live
<1>8. StatsKnown'
    <2>1. InStep => InStep'
        BY <1>1, <1>3, <1>7, SameTruth DEF InStep
    <2>2. QED  BY <1>1, <1>5, <2>1, SameTasks DEF StatsKnown
<1>9. PlaysCounted'
    <2> SUFFICES ASSUME trouble = {}, Busy = {} PROVE Attached' /\ Counted'
        BY <1>5 DEF PlaysCounted
    <2>1. Counted /\ InStep
        BY DEF PlaysCounted, StatsKnown
    <2>2. AtStats' = {}
        BY <1>1, SameTasks DEF AtStats, Busy, Idle
    <2>3. Cardinality(AtStats)' = 0
        BY <2>2, FS_EmptySet
    <2>4. [m \in Mode |-> mem'[s][m].plays] = [m \in Mode |-> PlaysOf(m)]
        <3>1. \A m \in Mode : mem'[s][m].plays = PlaysOf(m)
            <4>1. \A m \in Mode : stats[m] = Truth(m)
                BY <2>1 DEF InStep
            <4>2. \A m : Truth(m).plays = PlaysOf(m)
                BY TruthTyped DEF ScoresInv
            <4>3. QED  BY <1>3, <4>1, <4>2
        <3>2. QED  BY <3>1
    <2>5. PlaysIn(s)' = Cardinality(Kept)
        BY <2>1, <2>4 DEF PlaysIn, Counted
    <2>6. SumFunction([m \in Mode |-> PlaysOf(m)])' = SumFunction([m \in Mode |-> PlaysOf(m)]) /\ Kept' = Kept
        BY <1>1, SameTruth
    <2>7. Cardinality(Kept) \in Nat
        BY RowsFinite, FS_CardinalityType DEF ScoresInv
    <2>8. Counted'
        BY <1>7, <2>1, <2>3, <2>5, <2>6, <2>7 DEF Counted
    <2>9. QED  BY <1>1, <2>8, SameTasks DEF Attached
<1>10. QED  BY <1>2, <1>4, <1>6, <1>8, <1>9

LEMMA EndsStats ==
    ASSUME StatsInv, LoginEnds
    PROVE  StatsInv'
<1> USE DEF StatsInv
<1>1. /\ loading # None /\ current' = loading /\ loading' = None
      /\ UNCHANGED <<scores, stats, mem, mode, task, contended, trouble>>
    BY DEF LoginEnds
<1>2. ScoresInv'
    BY <1>1, TasksStay DEF ScoresInv, ScoresType
<1>3. StatsType'
    BY <1>1, SameTasks DEF StatsType
<1>4. Live' = Live
    BY <1>1 DEF Live, StatsType
<1>5. Calm'
    BY <1>1, SameTasks DEF Calm
<1>6. trouble \cap {"login", "wipe"} = {} => Busy = {}
    BY <1>1 DEF PlaysCounted, Attached
<1>7. StatsKnown'
    <2>1. InStep => InStep'
        BY <1>1, <1>4, SameTruth DEF InStep
    <2>2. QED  BY <1>1, <1>6, <2>1, SameTasks DEF StatsKnown
<1>8. PlaysCounted'
    <2> SUFFICES ASSUME trouble \cap {"login", "wipe"} = {} PROVE Attached' /\ Counted'
        BY <1>1 DEF PlaysCounted
    <2>1. Counted'
        BY <1>1, <1>4, CountedStays DEF PlaysCounted
    <2>2. QED  BY <1>1, <1>6, <2>1, SameTasks DEF Attached
<1>9. QED  BY <1>2, <1>3, <1>5, <1>7, <1>8

LEMMA WipeStats ==
    ASSUME StatsInv, NEW map, wipemap(map)
    PROVE  StatsInv'
<1> USE DEF StatsInv
<1>1. trouble' = trouble \cup {"wipe"} /\ UNCHANGED <<stats, current, loading, mem, mode, task>>
    BY DEF wipemap
<1>2. ScoresInv'
    BY WipeKeeps
<1>3. StatsType'
    BY <1>1, SameTasks DEF StatsType
<1>4. QED  BY <1>1, <1>2, <1>3 DEF Calm, StatsKnown, PlaysCounted

LEMMA RestartStats ==
    ASSUME StatsInv, Restart
    PROVE  StatsInv'
<1> USE DEF StatsInv
<1>1. /\ current' = None /\ loading' = None /\ UNCHANGED <<scores, stats>>
      /\ task' = [t \in Task |-> Idle] /\ contended' = contended \cup Places(Busy)
      /\ trouble' = IF Busy = {} THEN trouble ELSE trouble \cup {"login"}
      /\ mem' = [s \in Session |-> NoStats] /\ mode' = [s \in Session |-> FirstMode]
    BY DEF Restart
<1>2. ScoresInv'
    BY RestartKeeps
<1>3. Busy' = {} /\ Live' = {}
    BY <1>1 DEF Busy, Live
<1>4. StatsType'
    <2>1. \A t \in Task : JobTyped(t)'
        BY <1>1 DEF JobTyped, Idle, Stage
    <2>2. IsFiniteSet(Busy)'
        BY <1>3, FS_EmptySet
    <2>3. QED  BY <1>1, <2>1, <2>2, BlankTyped DEF StatsType
<1>5. trouble' \cap {"login", "wipe"} = {} => Busy = {} /\ trouble' = trouble
    BY <1>1
<1>6. Calm'
    <2>1. Busy = {} => Places(Busy) = {}
        BY DEF Places
    <2>2. QED  BY <1>1, <1>3, <1>5, <2>1 DEF Calm
<1>7. StatsKnown'
    <2>1. InStep => InStep'
        BY <1>1, <1>3, SameTruth DEF InStep
    <2>2. QED  BY <1>3, <1>5, <2>1 DEF StatsKnown
<1>8. PlaysCounted'
    <2> SUFFICES ASSUME trouble \cap {"login", "wipe"} = {} PROVE Attached' /\ Counted'
        BY <1>5 DEF PlaysCounted
    <2>1. SumFunction([m \in Mode |-> PlaysOf(m)])' = SumFunction([m \in Mode |-> PlaysOf(m)]) /\ Kept' = Kept
        BY <1>1, SameTruth
    <2>2. QED  BY <1>3, <2>1 DEF PlaysCounted, Counted, Attached
<1>9. QED  BY <1>2, <1>4, <1>6, <1>7, <1>8

LEMMA StutterStats == StatsInv /\ UNCHANGED svars => StatsInv'
<1> SUFFICES ASSUME StatsInv, UNCHANGED svars PROVE StatsInv'
    OBVIOUS
<1> USE DEF StatsInv
<1>1. UNCHANGED <<scores, stats, current, loading, mem, mode, task, contended, trouble>>
    BY DEF svars
<1>2. ScoresInv'
    BY <1>1, TasksStay DEF ScoresInv, ScoresType
<1>3. StatsType' /\ Calm' /\ Live' = Live
    BY <1>1, SameTasks DEF StatsType, Calm, Live
<1>4. StatsKnown'
    <2>1. \A t \in Busy : Owes(t) => Owes(t)'
        BY <1>1, StillOwes
    <2>2. InStep => InStep'
        BY <1>1, <1>3, SameTruth DEF InStep
    <2>3. QED  BY <1>1, <2>1, <2>2, SameTasks DEF StatsKnown
<1>5. PlaysCounted'
    <2>1. Counted => Counted'
        BY <1>1, <1>3, CountedStays
    <2>2. QED  BY <1>1, <2>1, SameTasks DEF PlaysCounted, Attached
<1>6. QED  BY <1>2, <1>3, <1>4, <1>5

LEMMA StatsBegin == SubmissionInit => StatsInv
<1> SUFFICES ASSUME SubmissionInit PROVE StatsInv
    OBVIOUS
<1>1. /\ scores = <<>> /\ stats = NoStats /\ current = None /\ loading = None
      /\ mem = [s \in Session |-> NoStats] /\ mode = [s \in Session |-> FirstMode] /\ task = [t \in Task |-> Idle]
      /\ contended = {} /\ trouble = {}
    BY DEF SubmissionInit
<1>2. Busy = {} /\ Live = {} /\ Kept = {} /\ DOMAIN scores = {} /\ \A m : RankedRows(m) = {}
    BY <1>1 DEF Busy, Live, Kept, RankedRows
<1>3. StatsType
    <2>1. \A t \in Task : JobTyped(t)
        BY <1>1 DEF JobTyped, Idle, Stage
    <2>2. QED  BY <1>1, <1>2, <2>1, BlankTyped, FS_EmptySet DEF StatsType
<1>4. SumFunctionOnSet([i \in {} |-> 0], {}) = 0
    BY SumAdds, FS_EmptySet
<1>5. \A m : Total(RankedRows(m), "score") = 0 /\ Total(RankedRows(m), "pp") = 0
    <2>1. TAKE m
    <2>2. /\ [i \in RankedRows(m) |-> scores[i].play["score"]] = [i \in {} |-> 0]
          /\ [i \in RankedRows(m) |-> scores[i].play["pp"]] = [i \in {} |-> 0]
        BY <1>2
    <2>3. SumFunction([i \in {} |-> 0]) = 0
        BY <1>4 DEF SumFunction
    <2>4. QED  BY <2>2, <2>3 DEF Total
<1>6. Cardinality({}) = 0 /\ \A m : PlaysOf(m) = 0
    <2>1. \A m : {i \in Kept : scores[i].play.mode = m} = {}
        BY <1>2
    <2>2. QED  BY <2>1, FS_EmptySet DEF PlaysOf
<1>7. InStep
    BY <1>1, <1>2, <1>5, <1>6 DEF InStep, Truth, NoStats
<1>8. SumFunction([m \in Mode |-> PlaysOf(m)]) = 0
    <2> DEFINE g == [m \in Mode |-> PlaysOf(m)]
               T == {B \in SUBSET Mode : SumFunctionOnSet(g, B) # 0}
    <2>1. \A m \in Mode : g[m] = 0
        BY <1>6
    <2>2. SumFunction(g) = SumFunctionOnSet(g, Mode)
        BY DEF SumFunction
    <2> HIDE DEF g
    <2> SUFFICES ASSUME T # {}  PROVE FALSE
        BY <2>2 DEF g
    <2>3. T \in SUBSET SUBSET Mode
        OBVIOUS
    <2> HIDE DEF T
    <2>4. PICK A \in T : \A B \in T : ~(B \subseteq A /\ B # A)
        BY <2>3, ModeAssumption, LeastOfFinite
    <2> USE DEF T
    <2>5. SumFunctionOnSet(g, {}) = 0
        BY ModeAssumption, SumAdds
    <2>6. SumFunctionOnSet(g, A) = g[Some(A)] + SumFunctionOnSet(g, A \ {Some(A)}) /\ Some(A) \in A
        BY <2>4, <2>5, ModeAssumption, SumAdds, SomeIn
    <2>7. SumFunctionOnSet(g, A \ {Some(A)}) = 0
        BY <2>4, <2>6
    <2>8. QED  BY <2>1, <2>4, <2>6, <2>7
<1>9. PlaysCounted
    BY <1>2, <1>6, <1>8 DEF PlaysCounted, Attached, Counted
<1>10. Calm /\ StatsKnown
    BY <1>1, <1>2, <1>7 DEF Calm, StatsKnown
<1>11. QED  BY <1>3, <1>9, <1>10, ScoresBegin DEF StatsInv

LEMMA StatsGoOn == StatsInv /\ [SubmissionNext]_svars => StatsInv'
<1> SUFFICES ASSUME StatsInv, [SubmissionNext]_svars PROVE StatsInv'
    OBVIOUS
<1>1. ASSUME NEW t \in Task, TaskNext(t) PROVE StatsInv'
    BY <1>1, SubmitStats, StatusStats, PreviousStats, PlacementStats, DuplicateStats, DemoteStats, InsertStats,
       AddStats, BestStats, UpdateKeeps DEF TaskNext
<1>2. QED  BY <1>1, StutterStats, ModeStats, LogoutStats, EndsStats, LoadsStats, WipeStats, RestartStats DEF SubmissionNext

LEMMA StatsFollow == StatsInv => StatsFollowScores
<1> SUFFICES ASSUME StatsInv, Busy = {} PROVE
        /\ trouble = {} =>
             /\ current # None => mem[current] = stats
             /\ \A m \in Mode : stats[m] = Truth(m)
        /\ current # None /\ trouble \cap {"login", "wipe"} = {} =>
             SumFunction([m \in Mode |-> mem[current][m].plays]) = Cardinality(Kept)
    BY DEF StatsFollowScores, Truth
<1>1. trouble = {} => InStep
    BY DEF StatsInv, StatsKnown
<1>2. trouble = {} => (current # None => mem[current] = stats) /\ \A m \in Mode : stats[m] = Truth(m)
    BY <1>1 DEF InStep, Live
<1>3. ASSUME current # None, trouble \cap {"login", "wipe"} = {}
      PROVE  SumFunction([m \in Mode |-> mem[current][m].plays]) = Cardinality(Kept)
    <2>1. PlaysIn(current) + Cardinality(AtStats) = Cardinality(Kept)
        BY <1>3 DEF StatsInv, PlaysCounted, Counted, Live
    <2>2. AtStats = {}
        BY DEF AtStats, Busy, Idle
    <2>3. Cardinality(AtStats) = 0
        BY <2>2, FS_EmptySet
    <2>4. PlaysIn(current) \in Int
        <3> DEFINE g == [m \in Mode |-> mem[current][m].plays]
        <3>1. \A m \in Mode : g[m] \in Int
            BY <1>3 DEF StatsInv, StatsType, Numbers, ScoresInv, ScoresType
        <3>2. PlaysIn(current) = SumFunctionOnSet(g, Mode)
            BY DEF PlaysIn, SumFunction
        <3> HIDE DEF g
        <3>3. QED  BY <3>1, <3>2, ModeAssumption, SumInt
    <2>5. QED  BY <2>1, <2>3, <2>4 DEF PlaysIn
<1>4. QED  BY <1>2, <1>3

LEMMA StatsPartInv == Spec => [](part = "scores" => StatsInv)
<1>1. Init => (part = "scores" => StatsInv)
    BY StatsBegin DEF Init
<1>2. (part = "scores" => StatsInv) /\ [Next]_contentVars => (part = "scores" => StatsInv)'
    <2>1. SUFFICES ASSUME part = "scores" => StatsInv, [Next]_contentVars, part' = "scores"
                   PROVE  StatsInv'
        OBVIOUS
    <2>2. part = "scores"
        BY <2>1 DEF Next, contentVars
    <2>3. [SubmissionNext]_svars
        BY <2>1, <2>2 DEF Next, contentVars
    <2>4. QED  BY <2>1, <2>2, <2>3, StatsGoOn
<1>3. QED  BY <1>1, <1>2, PTL DEF Spec

\* However many plays, submissions and sessions there are: the statistics are those
\* of the scores, in the database and in the session, if submissions come one at a
\* time and nothing comes in between; and the session counts every play if no login
\* or wipe does (osu.py:877-1005).
THEOREM ScoresStatsAlways == Spec => []ScoresStats
<1>1. (part = "scores" => StatsInv) => ScoresStats
    BY StatsFollow DEF ScoresStats
<1>2. QED  BY <1>1, StatsPartInv, PTL

=============================================================================
