--------------------------- MODULE AccountProofs ---------------------------
(***************************************************************************)
(* One session of an account, no mail lost, and a cache that is true if    *)
(* care is taken: for any number of sessions, commands, messages and       *)
(* privileges.  Then the parts of MCAccount: what a session knows of its   *)
(* friends and achievements, which mods are left of a combination, whether *)
(* a leaderboard agrees with itself, and whether the wire carries what is  *)
(* meant, for any number of users, achievements, requests, keymods, scores *)
(* and packets.                                                            *)
(***************************************************************************)
EXTENDS MCAccount, WireProofs, FiniteSetTheorems

\* Whoever logs in holds the lock, and has taken the place of a former session.
SessionInv ==
    /\ players \subseteq Session
    /\ login \in [Session -> {"none", "row", "loading", "mail", "verify", "append"}]
    /\ \A s, t \in LoggingIn : s = t
    /\ LoggingIn # {} => players = {}
    /\ \A s, t \in players : s = t

\* The mail was looked at.
Seen == players # {} \/ \E s \in Session : login[s] \in {"verify", "append"}
MailInv ==
    /\ NoMailLost
    /\ Seen => unread \subseteq shown \cup late

-----------------------------------------------------------------------------

\* What commands, the ghost loop and logging out do to sessions and mail.
LEMMA FewerSessions ==
    ASSUME SessionInv, MailInv, players' \subseteq players, UNCHANGED <<login, unread, read, shown, late>>
    PROVE  SessionInv' /\ MailInv'
BY DEF SessionInv, LoggingIn, MailInv, NoMailLost, Seen

LEMMA LoginStep ==
    ASSUME SessionInv, MailInv, NEW s \in Session,
           \/ LoginStarts(s) \/ LoginReads(s) \/ LoginFails(s) \/ LoginLoads(s)
           \/ LoginMail(s) \/ LoginVerifies(s) \/ LoginEnds(s)
    PROVE  SessionInv' /\ MailInv'
<1> USE DEF SessionInv, LoggingIn, MailInv, NoMailLost, Seen
<1>1. CASE LoginStarts(s)
    BY <1>1 DEF LoginStarts, LockFree
<1>2. CASE LoginReads(s)
    BY <1>2 DEF LoginReads
<1>3. CASE LoginFails(s)
    BY <1>3 DEF LoginFails
<1>4. CASE LoginLoads(s)
    BY <1>4 DEF LoginLoads
<1>5. CASE LoginMail(s)
    BY <1>5 DEF LoginMail
<1>6. CASE LoginVerifies(s)
    BY <1>6 DEF LoginVerifies
<1>7. CASE LoginEnds(s)
    BY <1>7 DEF LoginEnds
<1>8. QED  BY <1>1, <1>2, <1>3, <1>4, <1>5, <1>6, <1>7

LEMMA SessionStep ==
    ASSUME SessionInv, MailInv, NEW s \in Session, SessionNext(s)
    PROVE  SessionInv' /\ MailInv'
<1>1. CASE Logout(s) \/ Vanish(s) \/ Disconnect(s) \/ update_rank(s)
    BY <1>1, FewerSessions DEF Logout, Vanish, Disconnect, update_rank, logout
<1>2. CASE osuMarkAsRead(s)
    BY <1>2 DEF osuMarkAsRead, SessionInv, LoggingIn, MailInv, NoMailLost, Seen
<1>3. QED  BY <1>1, <1>2, LoginStep DEF SessionNext

LEMMA CommandStep ==
    ASSUME SessionInv, MailInv, NEW t \in Task, CommandNext(t)
    PROVE  SessionInv' /\ MailInv'
<1>1. UNCHANGED <<login, unread, read, shown, late>> /\ players' \subseteq players
    <2>1. ASSUME NEW k, NEW o, NEW p, Starts(t, k, o, p)
          PROVE  UNCHANGED <<login, unread, read, shown, late, players>>
        BY <2>1 DEF Starts
    <2>2. CASE restrict(t) \/ unrestrict(t) \/ silence(t) \/ unsilence(t)
        BY <2>1, <2>2 DEF restrict, unrestrict, silence, unsilence
    <2>3. ASSUME NEW bits, addpriv(t, bits) \/ rmpriv(t, bits)
          PROVE  UNCHANGED <<login, unread, read, shown, late, players>>
        BY <2>1, <2>3 DEF addpriv, rmpriv
    <2>4. CASE CommandWrites(t) \/ CommandRanks(t) \/ CommandFinishes(t)
        BY <2>4 DEF CommandWrites, CommandRanks, CommandFinishes, logout
    <2>5. QED  BY <2>2, <2>3, <2>4 DEF CommandNext
<1>2. QED  BY <1>1, FewerSessions

LEMMA MailStep ==
    ASSUME SessionInv, MailInv, NEW m \in Msg, SendPrivateMessage(m) \/ MailArrives(m)
    PROVE  SessionInv' /\ MailInv'
BY DEF SendPrivateMessage, MailArrives, SessionInv, LoggingIn, MailInv, NoMailLost, Seen

LEMMA RestartStep ==
    ASSUME SessionInv, MailInv, Restart
    PROVE  SessionInv' /\ MailInv'
BY DEF Restart, SessionInv, LoggingIn, MailInv, NoMailLost, Seen

LEMMA SessionsAndMail == AccountSpec => [](SessionInv /\ MailInv)
<1>1. AccountInit => SessionInv /\ MailInv
    BY DEF AccountInit, SessionInv, LoggingIn, MailInv, NoMailLost, Seen
<1>2. SessionInv /\ MailInv /\ [AccountNext]_avars => (SessionInv /\ MailInv)'
    <2> SUFFICES ASSUME SessionInv, MailInv, [AccountNext]_avars  PROVE SessionInv' /\ MailInv'
        OBVIOUS
    <2>1. CASE UNCHANGED avars
        BY <2>1, FewerSessions DEF avars
    <2>2. QED  BY <2>1, SessionStep, CommandStep, MailStep, RestartStep DEF AccountNext
<1>3. QED  BY <1>1, <1>2, PTL DEF AccountSpec

\* An account never has two sessions (cho.py:524, 895): the lock is held from the
\* check for another one to the append.
THEOREM OneSessionAlways == AccountSpec => []OneSession
<1>1. ASSUME SessionInv  PROVE OneSession
    <2>1. CASE players = {}
        BY <2>1, FS_EmptySet DEF OneSession
    <2>2. CASE players # {}
        <3>1. PICK s \in players : players = {s}
            BY <1>1, <2>2 DEF SessionInv
        <3>2. QED  BY <3>1, FS_Singleton DEF OneSession
    <2>3. QED  BY <2>1, <2>2
<1>2. QED  BY <1>1, SessionsAndMail, PTL

\* Mail that is marked as read has been shown, or was kept back or came late
\* (cho.py:1072, osu.py:1583).
THEOREM NoMailLostAlways == AccountSpec => []NoMailLost
<1>1. MailInv => NoMailLost
    BY DEF MailInv
<1>2. QED  BY <1>1, SessionsAndMail, PTL

-----------------------------------------------------------------------------
(* What sessions know, while care is taken.                                 *)

Doing == [kind : {"restrict", "unrestrict", "priv", "silence"}, on : Object,
          at : {"write", "ranks", "finish"}, priv : SUBSET Priv, silenced : BOOLEAN]

DataOK ==
    /\ row \in [priv : SUBSET Priv, silenced : BOOLEAN]
    /\ obj \in [Object -> Player]
    /\ task \in [Task -> Doing \cup {Idle}]
    /\ ranked \in BOOLEAN /\ careful \in BOOLEAN

\* A command that works alone.  What it writes will be true of the session, or,
\* of a restriction, of none: it logs the session out.
Changes(kind) == kind \in {"restrict", "unrestrict"}
Half(t) == LET c == task[t] IN
    /\ players \subseteq {c.on}
    /\ Changes(c.kind) /\ c.at = "write" => ("NORMAL" \in c.priv <=> c.kind = "unrestrict")
    /\ c.at # "write" => Changes(c.kind) /\ ("NORMAL" \in row.priv <=> c.kind = "unrestrict")
    /\ c.at = "finish" => (ranked <=> c.kind = "unrestrict")
    /\ c.kind = "priv" => /\ "NORMAL" \in c.priv <=> "NORMAL" \in row.priv
                          /\ obj[c.on] = [Fresh(row) EXCEPT !.priv = c.priv]
    /\ c.kind = "silence" => obj[c.on] = [Fresh(row) EXCEPT !.silenced = c.silenced]

Alone == (\A t, u \in Busy : t = u) /\ (Busy # {} => LoggingIn = {})
SessionsKnow == Busy = {} => \A s \in players : obj[s] = Fresh(row)
LoginsKnow == \A s \in Session :
    /\ login[s] \in {"loading", "mail", "append"} => obj[s] = Fresh(row)
    /\ login[s] = "verify" => obj[s] = [Fresh(row) EXCEPT !.priv = @ \cup {"VERIFIED"}]
RanksKnow == ranked => \/ "NORMAL" \in row.priv
                       \/ \E t \in Busy : task[t].kind = "restrict" /\ task[t].at = "ranks"
CareInv == careful => Alone /\ SessionsKnow /\ LoginsKnow /\ RanksKnow /\ \A t \in Busy : Half(t)

CacheInv == DataOK /\ CareInv

LEMMA FreshPlayer == ASSUME DataOK  PROVE Fresh(row) \in Player
BY DEF DataOK, Fresh, Player

LEMMA CollectedPlayers ==
    ASSUME NEW objects \in [Object -> Player]
    PROVE  Collected(objects) \in [Object -> Player]
BY DEF Collected, Blank, Player

\* Sessions, commands and mail that go leave the others what they know.
LEMMA FewerKnow ==
    ASSUME SessionInv, CacheInv, players' \subseteq players, login' = login, task' = task, row' = row,
           ranked' = ranked, careful' = careful, obj' = Collected(obj) \/ obj' = obj
    PROVE  CacheInv'
<1> USE DEF CacheInv
<1>2. DataOK'
    BY CollectedPlayers DEF DataOK
<1>3. \A o \in Object : o \in players' \/ (o \in Session /\ login[o] # "none") \/ (\E t \in Task : task[t] # Idle /\ task[t].on = o)
        => obj'[o] = obj[o]
    <2>1. CASE obj' = Collected(obj)
        BY <2>1 DEF Collected
    <2>2. QED  BY <2>1
<1>4. ASSUME careful  PROVE Alone' /\ SessionsKnow' /\ LoginsKnow' /\ RanksKnow'
    BY <1>3, <1>4, ZenonT(30) DEF CareInv, Alone, SessionsKnow, LoginsKnow, RanksKnow, Busy, LoggingIn, Object, Fresh, SessionInv
<1>5. ASSUME careful, NEW t \in Busy  PROVE Half(t)'
    <2>1. t \in Task /\ task[t] \in Doing /\ task[t] # Idle
        BY DEF Busy, DataOK
    <2>2. obj'[task[t].on] = obj[task[t].on]
        BY <1>3, <2>1 DEF Doing
    <2>3. Half(t)
        BY <1>5 DEF CareInv
    <2>4. QED  BY <2>2, <2>3 DEF Half, Fresh
<1>6. QED  BY <1>2, <1>4, <1>5 DEF CareInv, Busy

LEMMA LoginKnows ==
    ASSUME SessionInv, CacheInv, NEW s \in Session,
           \/ LoginStarts(s) \/ LoginReads(s) \/ LoginFails(s) \/ LoginLoads(s)
           \/ LoginMail(s) \/ LoginVerifies(s) \/ LoginEnds(s)
    PROVE  CacheInv'
<1> USE DEF CacheInv
<1>1. CASE LoginStarts(s)
    <2>1. DataOK'
        BY <1>1, CollectedPlayers DEF LoginStarts, Careful, DataOK, account
    <2>2. ASSUME careful'
          PROVE  careful /\ Busy' = {} /\ players' = {} /\ UNCHANGED <<row, ranked>> /\ Busy = {}
        <3>0. careful /\ Busy = {}
            BY <1>1, <2>2, Zenon DEF LoginStarts, Careful
        <3>1. task' = task /\ players' = {} /\ UNCHANGED <<row, ranked>>
            BY <1>1 DEF LoginStarts, account
        <3>2. Busy' = Busy
            BY <3>1 DEF Busy
        <3>3. QED  BY <3>0, <3>1, <3>2
    <2>3. \A t \in Session : login'[t] \in {"none", "row"}
        BY <1>1 DEF LoginStarts, LockFree, LoggingIn, SessionInv
    <2>4. QED  BY <2>1, <2>2, <2>3 DEF CareInv, Alone, SessionsKnow, LoginsKnow, RanksKnow
<1> DEFINE steady == players' = players /\ task' = task /\ careful' = careful /\ ranked' = ranked
<1>2. ASSUME login[s] # "none", careful
      PROVE  Busy = {} /\ players = {} /\ \A t \in Session : login[t] # "none" => t = s
    BY <1>2 DEF CareInv, Alone, SessionInv, LoggingIn
<1>3. CASE LoginReads(s)
    <2>1. steady /\ row' = row /\ obj' = [obj EXCEPT ![s] = Fresh(row)] /\ login' = [login EXCEPT ![s] = "loading"]
        BY <1>3 DEF LoginReads, account
    <2>2. DataOK' /\ obj'[s] = Fresh(row)
        BY <2>1, FreshPlayer DEF DataOK, Object
    <2>3. login[s] # "none"
        BY <1>3 DEF LoginReads
    <2>4. QED  BY <1>2, <2>1, <2>2, <2>3
               DEF CareInv, Alone, SessionsKnow, LoginsKnow, RanksKnow, Busy, Fresh, SessionInv
<1>4. CASE LoginFails(s)
    <2>1. steady /\ row' = row /\ login' = [login EXCEPT ![s] = "none"] /\ login[s] # "none"
        BY <1>4 DEF LoginFails, account
    <2>2. DataOK'
        BY <1>4, <2>1, CollectedPlayers DEF LoginFails, DataOK
    <2>3. QED  BY <1>2, <2>1, <2>2
               DEF CareInv, Alone, SessionsKnow, LoginsKnow, RanksKnow, Busy, Fresh, SessionInv
<1>5. CASE LoginLoads(s)
    <2>1. /\ steady /\ row' = row /\ obj' = obj /\ login[s] = "loading"
          /\ \E at \in {"mail", "append"} : login' = [login EXCEPT ![s] = at]
        BY <1>5 DEF LoginLoads, account
    <2>2. DataOK'
        BY <2>1 DEF DataOK
    <2>3. QED  BY <1>2, <2>1, <2>2
               DEF CareInv, Alone, SessionsKnow, LoginsKnow, RanksKnow, Busy, Fresh, SessionInv
<1>6. CASE LoginMail(s)
    <2> DEFINE first == "VERIFIED" \notin obj[s].priv
    <2>1. /\ steady /\ row' = row /\ login[s] = "mail"
          /\ obj' = IF first THEN [obj EXCEPT ![s].priv = @ \cup {"VERIFIED"}] ELSE obj
          /\ login' = [login EXCEPT ![s] = IF first THEN "verify" ELSE "append"]
        BY <1>6 DEF LoginMail, account
    <2>2. DataOK'
        BY <2>1 DEF DataOK, Object, Player, Priv
    <2>3. careful => obj[s] = Fresh(row)
        BY <2>1 DEF CareInv, LoginsKnow
    <2>4. first => obj'[s] = [obj[s] EXCEPT !.priv = @ \cup {"VERIFIED"}]
        BY <2>1 DEF DataOK, Object
    <2>5. QED  BY <1>2, <2>1, <2>2, <2>3, <2>4
               DEF CareInv, Alone, SessionsKnow, LoginsKnow, RanksKnow, Busy, Fresh, SessionInv
<1>7. CASE LoginVerifies(s)
    <2>1. /\ steady /\ row' = [row EXCEPT !.priv = obj[s].priv] /\ obj' = obj /\ login[s] = "verify"
          /\ login' = [login EXCEPT ![s] = "append"]
        BY <1>7 DEF LoginVerifies
    <2>2. DataOK'
        BY <2>1 DEF DataOK, Object, Player
    <2>3. careful => obj[s] = [Fresh(row) EXCEPT !.priv = @ \cup {"VERIFIED"}]
        BY <2>1 DEF CareInv, LoginsKnow
    <2>4. careful => obj[s] = Fresh(row') /\ ("NORMAL" \in row.priv => "NORMAL" \in row'.priv)
        BY <2>1, <2>3 DEF Fresh, DataOK
    <2>5. QED  BY <1>2, <2>1, <2>2, <2>4
               DEF CareInv, Alone, SessionsKnow, LoginsKnow, RanksKnow, Busy, SessionInv
<1>8. CASE LoginEnds(s)
    <2>1. /\ players' = players \cup {s} /\ UNCHANGED <<task, careful, ranked, row, obj>> /\ login[s] = "append"
          /\ login' = [login EXCEPT ![s] = "none"]
        BY <1>8 DEF LoginEnds, account
    <2>2. DataOK'
        BY <2>1 DEF DataOK
    <2>3. QED  BY <1>2, <2>1, <2>2
               DEF CareInv, Alone, SessionsKnow, LoginsKnow, RanksKnow, Busy, Fresh, SessionInv
<1>9. QED  BY <1>1, <1>3, <1>4, <1>5, <1>6, <1>7, <1>8

LEMMA SessionKnows ==
    ASSUME SessionInv, CacheInv, NEW s \in Session, SessionNext(s)
    PROVE  CacheInv'
<1>1. CASE Logout(s) \/ Vanish(s) \/ Disconnect(s)
    BY <1>1, FewerKnow DEF Logout, Vanish, Disconnect, logout, account
<1>2. CASE osuMarkAsRead(s)
    BY <1>2, FewerKnow DEF osuMarkAsRead, account
<1>3. CASE update_rank(s)
    <2>0. careful' => careful /\ Busy = {} /\ ~obj[s].restricted
        BY <1>3, Zenon DEF update_rank, Careful
    <2>1. s \in players /\ ranked' = TRUE /\ UNCHANGED <<row, obj, players, login, task>>
        BY <1>3 DEF update_rank
    <2>2. DataOK'
        BY <1>3, <2>1 DEF update_rank, Careful, DataOK, CacheInv
    <2>3. careful' => "NORMAL" \in row.priv
        <3>1. Fresh(row).restricted <=> "NORMAL" \notin row.priv
            BY DEF Fresh
        <3>2. careful' => obj[s] = Fresh(row) /\ ~obj[s].restricted
            BY <2>0, <2>1 DEF CacheInv, CareInv, SessionsKnow
        <3>3. QED  BY <3>1, <3>2
    <2>4. QED  BY <2>0, <2>1, <2>2, <2>3
               DEF CacheInv, CareInv, Alone, SessionsKnow, LoginsKnow, RanksKnow, Busy, LoggingIn, Fresh
<1>4. QED  BY <1>1, <1>2, <1>3, LoginKnows DEF SessionNext

\* A command has found the account's session, or read the row.
LEMMA TargetKnows ==
    ASSUME SessionInv, CacheInv, careful, Settled, NEW t \in Task, NEW o \in Object,
           NEW p \in {obj[o], Fresh(row)}, Target(t, o, p)
    PROVE  p = Fresh(row) /\ players \subseteq {o}
BY DEF CacheInv, CareInv, SessionsKnow, Settled, Target, SessionInv

\* The changes of the object and of the row that a command may set out with.
SetsOut(kind, player) ==
    \/ kind = "restrict" /\ "NORMAL" \in row.priv /\ player = [Fresh(row) EXCEPT !.priv = @ \ {"NORMAL"}]
    \/ kind = "unrestrict" /\ player = [Fresh(row) EXCEPT !.priv = @ \cup {"NORMAL"}]
    \/ kind = "priv" /\ \E set \in SUBSET Priv : /\ "NORMAL" \in set <=> "NORMAL" \in row.priv
                                                 /\ player = [Fresh(row) EXCEPT !.priv = set]
    \/ kind = "silence" /\ \E b \in BOOLEAN : player = [Fresh(row) EXCEPT !.silenced = b]

LEMMA StartsKnow ==
    ASSUME SessionInv, CacheInv, NEW t \in Task, NEW o \in Object, NEW player \in Player,
           NEW kind \in {"restrict", "unrestrict", "priv", "silence"}, task[t] = Idle,
           Starts(t, kind, o, player), careful' \in BOOLEAN,
           careful' => careful /\ Settled /\ players \subseteq {o} /\ SetsOut(kind, player)
    PROVE  CacheInv'
<1> DEFINE new == [kind |-> kind, on |-> o, at |-> "write", priv |-> player.priv, silenced |-> player.silenced]
<1>1. /\ obj' = [obj EXCEPT ![o] = player] /\ task' = [task EXCEPT ![t] = new]
      /\ UNCHANGED <<row, ranked, players, login>>
    BY DEF Starts, account
<1>2. new \in Doing /\ new # Idle
    BY DEF Doing, Player, Idle
<1>3. DataOK'
    BY <1>1, <1>2 DEF CacheInv, DataOK
<1>4. ASSUME careful'
      PROVE  Alone' /\ SessionsKnow' /\ LoginsKnow' /\ RanksKnow' /\ \A u \in Busy' : Half(u)'
    <2>1. Busy = {} /\ LoggingIn = {} /\ careful /\ players \subseteq {o} /\ SetsOut(kind, player)
        BY <1>4 DEF Settled
    <2>2. Busy' = {t} /\ task'[t] = new /\ LoggingIn' = {} /\ obj'[o] = player
        BY <1>1, <1>2, <2>1 DEF Busy, LoggingIn, CacheInv, DataOK
    <2>3. RanksKnow'
        BY <1>1, <2>1 DEF CacheInv, CareInv, RanksKnow
    <2>4. LoginsKnow'
        BY <2>2 DEF LoginsKnow, LoggingIn
    <2>5. row.priv \in SUBSET Priv /\ Fresh(row)' = Fresh(row)
        BY <1>1 DEF CacheInv, DataOK, Fresh
    <2> HIDE DEF new
    <2>6. /\ new.kind = kind /\ new.on = o /\ new.at = "write" /\ new.priv = player.priv
          /\ new.silenced = player.silenced
        BY DEF new
    <2>7. Half(t)'
        <3>1. players' \subseteq {o}
            BY <1>1, <2>1
        <3>2. CASE kind \in {"restrict", "unrestrict"}
            <4>1. "NORMAL" \in player.priv <=> kind = "unrestrict"
                BY <2>1, <3>2 DEF SetsOut, Fresh
            <4>2. QED  BY <2>2, <2>6, <3>1, <3>2, <4>1 DEF Half, Changes
        <3>3. CASE kind = "priv"
            <4>1. PICK set \in SUBSET Priv : /\ "NORMAL" \in set <=> "NORMAL" \in row.priv
                                             /\ player = [Fresh(row) EXCEPT !.priv = set]
                BY <2>1, <3>3 DEF SetsOut
            <4>2. player.priv = set
                BY <4>1 DEF Fresh
            <4>3. QED  BY <1>1, <2>2, <2>5, <2>6, <3>1, <3>3, <4>1, <4>2 DEF Half, Changes
        <3>4. CASE kind = "silence"
            <4>1. PICK b \in BOOLEAN : player = [Fresh(row) EXCEPT !.silenced = b]
                BY <2>1, <3>4 DEF SetsOut
            <4>2. player.silenced = b
                BY <4>1 DEF Fresh
            <4>3. QED  BY <1>1, <2>2, <2>5, <2>6, <3>1, <3>4, <4>1, <4>2 DEF Half, Changes
        <3>5. QED  BY <3>2, <3>3, <3>4
    <2>8. QED  BY <2>2, <2>3, <2>4, <2>7 DEF Alone, SessionsKnow
<1>5. QED  BY <1>3, <1>4 DEF CacheInv, CareInv

LEMMA CommandStarts ==
    ASSUME SessionInv, CacheInv, NEW t \in Task,
           \/ restrict(t) \/ unrestrict(t) \/ silence(t) \/ unsilence(t)
           \/ \E bits \in {{b} : b \in Priv} : addpriv(t, bits) \/ rmpriv(t, bits)
    PROVE  CacheInv'
<1>1. ASSUME NEW o \in Object, NEW p \in {obj[o], Fresh(row)}
      PROVE  p \in Player
    BY <1>1, FreshPlayer DEF CacheInv, DataOK
<1>2. /\ careful \in BOOLEAN
      /\ row.priv \in SUBSET Priv
      /\ Fresh(row).priv = row.priv
      /\ Fresh(row).restricted <=> "NORMAL" \notin row.priv
    BY DEF CacheInv, DataOK, Fresh
<1>3. CASE restrict(t)
    <2>1. PICK o \in Object, p \in Player :
            /\ p \in {obj[o], Fresh(row)} /\ Target(t, o, p) /\ ~p.restricted
            /\ Starts(t, "restrict", o, [p EXCEPT !.priv = @ \ {"NORMAL"}])
            /\ Careful(Settled)
        BY <1>1, <1>3 DEF restrict
    <2>2. careful' \in BOOLEAN /\ (careful' => careful /\ Settled)
        BY <2>1, Zenon DEF Careful
    <2>3. ASSUME careful'  PROVE players \subseteq {o} /\ SetsOut("restrict", [p EXCEPT !.priv = @ \ {"NORMAL"}])
        BY <1>2, <2>1, <2>2, <2>3, TargetKnows DEF SetsOut
    <2>4. [p EXCEPT !.priv = @ \ {"NORMAL"}] \in Player
        BY <1>1 DEF Player
    <2>5. QED  BY <2>1, <2>2, <2>3, <2>4, StartsKnow DEF Target
<1>4. CASE unrestrict(t)
    <2>1. PICK o \in Object, p \in Player :
            /\ p \in {obj[o], Fresh(row)} /\ Target(t, o, p)
            /\ Starts(t, "unrestrict", o, [p EXCEPT !.priv = @ \cup {"NORMAL"}])
            /\ Careful(Settled)
        BY <1>1, <1>4 DEF unrestrict
    <2>2. careful' \in BOOLEAN /\ (careful' => careful /\ Settled)
        BY <2>1, Zenon DEF Careful
    <2>3. ASSUME careful'  PROVE players \subseteq {o} /\ SetsOut("unrestrict", [p EXCEPT !.priv = @ \cup {"NORMAL"}])
        BY <2>1, <2>2, <2>3, TargetKnows DEF SetsOut
    <2>4. [p EXCEPT !.priv = @ \cup {"NORMAL"}] \in Player
        BY <1>1 DEF Player, Priv
    <2>5. QED  BY <2>1, <2>2, <2>3, <2>4, StartsKnow DEF Target
<1>5. ASSUME NEW b \in BOOLEAN, NEW o \in Object, NEW p \in {obj[o], Fresh(row)}, Target(t, o, p),
             Starts(t, "silence", o, [p EXCEPT !.silenced = b]), Careful(Settled)
      PROVE  CacheInv'
    <2>2. careful' \in BOOLEAN /\ (careful' => careful /\ Settled)
        BY <1>5, Zenon DEF Careful
    <2>3. ASSUME careful'  PROVE players \subseteq {o} /\ SetsOut("silence", [p EXCEPT !.silenced = b])
        BY <1>5, <2>2, <2>3, TargetKnows DEF SetsOut
    <2>4. [p EXCEPT !.silenced = b] \in Player
        BY <1>1 DEF Player
    <2>5. QED  BY <1>5, <2>2, <2>3, <2>4, StartsKnow DEF Target
<1>6. ASSUME NEW set \in SUBSET Priv, NEW o \in Object, NEW p \in {obj[o], Fresh(row)}, Target(t, o, p),
             Starts(t, "priv", o, [p EXCEPT !.priv = set]), careful' \in BOOLEAN,
             careful' => careful /\ Settled /\ ("NORMAL" \in set <=> "NORMAL" \in p.priv)
      PROVE  CacheInv'
    <2>3. ASSUME careful'  PROVE players \subseteq {o} /\ SetsOut("priv", [p EXCEPT !.priv = set])
        BY <1>2, <1>6, <2>3, TargetKnows DEF SetsOut
    <2>4. [p EXCEPT !.priv = set] \in Player
        BY <1>1 DEF Player
    <2>5. QED  BY <1>6, <2>3, <2>4, StartsKnow DEF Target
<1>7. CASE silence(t) \/ unsilence(t)
    BY <1>5, <1>7 DEF silence, unsilence
<1>8. CASE \E bits \in {{b} : b \in Priv} : addpriv(t, bits) \/ rmpriv(t, bits)
    <2>1. PICK b \in Priv : addpriv(t, {b}) \/ rmpriv(t, {b})
        BY <1>8
    <2>2. PICK o \in Object, p \in Player :
            /\ p \in {obj[o], Fresh(row)} /\ Target(t, o, p) /\ Careful(Settled /\ "NORMAL" \notin {b})
            /\ \E set \in {p.priv \cup {b}, p.priv \ {b}} : Starts(t, "priv", o, [p EXCEPT !.priv = set])
        BY <1>1, <2>1 DEF addpriv, rmpriv
    <2>3. careful' \in BOOLEAN /\ (careful' => careful /\ Settled /\ "NORMAL" \notin {b})
        BY <2>2, Zenon DEF Careful
    <2>4. p.priv \in SUBSET Priv
        BY <1>1 DEF Player
    <2>5. QED  BY <1>6, <2>2, <2>3, <2>4
<1>9. QED  BY <1>3, <1>4, <1>7, <1>8

\* It is the only one, and what it works on is the only session there may be.
LEMMA CommandProceeds ==
    ASSUME SessionInv, CacheInv, NEW t \in Task, CommandWrites(t) \/ CommandRanks(t) \/ CommandFinishes(t)
    PROVE  CacheInv'
<1>1. /\ task[t] # Idle /\ task[t] \in Doing /\ task \in [Task -> Doing \cup {Idle}]
      /\ UNCHANGED <<login, careful>>
    BY DEF CommandWrites, CommandRanks, CommandFinishes, CacheInv, DataOK
<1>2. task[t].on \in Object /\ task[t].priv \in SUBSET Priv /\ task[t].silenced \in BOOLEAN
    BY <1>1 DEF Doing
<1>3. ASSUME careful
      PROVE  Busy = {t} /\ LoggingIn = {} /\ Half(t) /\ players \subseteq {task[t].on}
    <2>1. t \in Busy
        BY <1>1 DEF Busy
    <2>2. QED  BY <1>3, <2>1 DEF CacheInv, CareInv, Alone, Half
<1>4. ASSUME careful  PROVE LoginsKnow'
    BY <1>1, <1>3, <1>4 DEF LoginsKnow, LoggingIn
<1>5. ASSUME NEW u \in Busy', u # t, \E new \in Doing \cup {Idle} : task' = [task EXCEPT ![t] = new]
      PROVE  u \in Busy
    BY <1>1, <1>5 DEF Busy
<1>6. CASE CommandWrites(t)
    <2>1. /\ task[t].at = "write" /\ UNCHANGED <<ranked, players>> /\ obj' = Collected(obj)
          /\ row' = IF task[t].kind = "silence" THEN [row EXCEPT !.silenced = task[t].silenced]
                                                 ELSE [row EXCEPT !.priv = task[t].priv]
          /\ task' = IF Changes(task[t].kind) THEN [task EXCEPT ![t].at = "ranks"]
                                              ELSE [task EXCEPT ![t] = Idle]
        BY <1>6 DEF CommandWrites, Changes
    <2>2. row' \in [priv : SUBSET Priv, silenced : BOOLEAN]
        BY <1>2, <2>1 DEF CacheInv, DataOK
    <2>3. task' \in [Task -> Doing \cup {Idle}] /\ \E new \in Doing \cup {Idle} : task' = [task EXCEPT ![t] = new]
        BY <1>1, <2>1 DEF Doing
    <2>4. DataOK'
        BY <1>1, <2>1, <2>2, <2>3, CollectedPlayers DEF CacheInv, DataOK
    <2>5. ASSUME careful, ~Changes(task[t].kind)
          PROVE  Busy' = {} /\ SessionsKnow' /\ RanksKnow'
        <3>1. Busy' = {}
            BY <1>1, <1>3, <2>1, <2>5 DEF Busy
        <3>2. \A s \in players : s = task[t].on /\ obj'[s] = obj[s]
            BY <1>2, <1>3, <2>1, <2>5 DEF Collected
        <3>3. task[t].kind \in {"priv", "silence"}
            BY <1>1, <2>5 DEF Doing, Changes
        <3>4. obj[task[t].on] = Fresh(row') /\ ("NORMAL" \in row.priv <=> "NORMAL" \in row'.priv)
            BY <1>2, <1>3, <2>1, <2>5, <3>3 DEF Half, Fresh, CacheInv, DataOK
        <3>5. RanksKnow'
            BY <1>3, <2>1, <2>5, <3>4 DEF CacheInv, CareInv, RanksKnow
        <3>6. QED  BY <2>1, <3>1, <3>2, <3>4, <3>5 DEF SessionsKnow, Fresh
    <2>6. ASSUME careful, Changes(task[t].kind)
          PROVE  Busy' = {t} /\ Half(t)' /\ RanksKnow'
        <3>1. task'[t] = [task[t] EXCEPT !.at = "ranks"]
            BY <1>1, <2>1, <2>6
        <3>2. /\ task'[t].kind = task[t].kind /\ task'[t].at = "ranks" /\ task'[t].on = task[t].on
              /\ task'[t] # Idle
            BY <1>1, <3>1 DEF Doing, Idle
        <3>3. Busy' = {t}
            BY <1>3, <1>5, <2>3, <2>6, <3>2 DEF Busy
        <3>4. row'.priv = task[t].priv /\ ("NORMAL" \in row'.priv <=> task[t].kind = "unrestrict")
            BY <1>3, <2>1, <2>6 DEF Half, Changes, CacheInv, DataOK
        <3>5. Half(t)'
            BY <1>3, <2>1, <2>6, <3>2, <3>4 DEF Half, Changes
        <3>6. RanksKnow'
            BY <2>6, <3>2, <3>3, <3>4 DEF RanksKnow, Changes
        <3>7. QED  BY <3>3, <3>5, <3>6
    <2>7. QED  BY <1>1, <1>3, <1>4, <2>4, <2>5, <2>6 DEF CacheInv, CareInv, Alone, SessionsKnow, LoggingIn
<1>7. CASE CommandRanks(t)
    <2>1. /\ task[t].at = "ranks" /\ UNCHANGED <<row, obj, players>>
          /\ ranked' = (task[t].kind = "unrestrict") /\ task' = [task EXCEPT ![t].at = "finish"]
        BY <1>7 DEF CommandRanks
    <2>2. task' \in [Task -> Doing \cup {Idle}] /\ \E new \in Doing \cup {Idle} : task' = [task EXCEPT ![t] = new]
        BY <1>1, <2>1 DEF Doing
    <2>3. DataOK'
        BY <1>1, <2>1, <2>2 DEF CacheInv, DataOK
    <2>4. /\ task'[t].kind = task[t].kind /\ task'[t].at = "finish" /\ task'[t].on = task[t].on
          /\ task'[t] # Idle
        BY <1>1, <2>1 DEF Doing, Idle
    <2>5. careful => Busy' = {t}
        BY <1>3, <1>5, <2>2, <2>4 DEF Busy
    <2>6. careful => Changes(task[t].kind) /\ ("NORMAL" \in row.priv <=> task[t].kind = "unrestrict")
        BY <1>3, <2>1 DEF Half
    <2>7. careful => Half(t)' /\ RanksKnow'
        BY <1>3, <2>1, <2>4, <2>6 DEF Half, Changes, RanksKnow
    <2>8. QED  BY <1>1, <1>3, <1>4, <2>3, <2>5, <2>7 DEF CacheInv, CareInv, Alone, SessionsKnow, LoggingIn
<1>8. CASE CommandFinishes(t)
    <2> DEFINE o == task[t].on
    <2>1. /\ task[t].at = "finish" /\ UNCHANGED <<row, ranked>> /\ task' = [task EXCEPT ![t] = Idle]
          /\ players' = players \ {o}
          /\ obj' = Collected([obj EXCEPT ![o].restricted = "NORMAL" \notin obj[o].priv])
        BY <1>8 DEF CommandFinishes, account, logout
    <2>2. [obj EXCEPT ![o].restricted = "NORMAL" \notin obj[o].priv] \in [Object -> Player]
        BY <1>2, ZenonT(30) DEF CacheInv, DataOK, Player
    <2>3. DataOK'
        BY <1>1, <2>1, <2>2, CollectedPlayers DEF CacheInv, DataOK
    <2>4. careful => Busy' = {} /\ players' = {}
        BY <1>1, <1>3, <2>1 DEF Busy
    <2>5. careful => RanksKnow'
        BY <1>3, <2>1 DEF Half, RanksKnow
    <2>6. QED  BY <1>1, <1>4, <2>3, <2>4, <2>5 DEF CacheInv, CareInv, Alone, SessionsKnow
<1>9. QED  BY <1>6, <1>7, <1>8

LEMMA OthersKnow ==
    ASSUME SessionInv, CacheInv, Restart \/ \E m \in Msg : SendPrivateMessage(m) \/ MailArrives(m)
    PROVE  CacheInv'
<1>1. CASE \E m \in Msg : SendPrivateMessage(m) \/ MailArrives(m)
    BY <1>1, FewerKnow DEF SendPrivateMessage, MailArrives, account
<1>2. CASE Restart
    <2>1. /\ players' = {} /\ login' = [s \in Session |-> "none"] /\ task' = [t \in Task |-> Idle]
          /\ UNCHANGED <<row, ranked>> /\ obj' = Collected(obj)
        BY <1>2 DEF Restart, account
    <2>2. careful' \in BOOLEAN /\ (careful' => careful /\ Busy = {})
        BY <1>2, Zenon DEF Restart, Careful, CacheInv, DataOK
    <2>3. DataOK'
        BY <2>1, <2>2, CollectedPlayers DEF CacheInv, DataOK
    <2>4. Busy' = {}
        BY <2>1 DEF Busy
    <2>5. careful' => RanksKnow'
        BY <2>1, <2>2 DEF CacheInv, CareInv, RanksKnow
    <2>6. QED  BY <2>1, <2>3, <2>4, <2>5 DEF CacheInv, CareInv, Alone, SessionsKnow, LoginsKnow
<1>3. QED  BY <1>1, <1>2

\* When nothing is under way and care was taken, a session knows what the database
\* knows, and a restricted account is on no leaderboard (player.py:553-629).
THEOREM CacheIsTrueAlways == AccountSpec => []CacheIsTrue
<1>1. AccountInit => CacheInv
    <2> SUFFICES ASSUME AccountInit  PROVE CacheInv
        OBVIOUS
    <2>1. row \in [priv : SUBSET Priv, silenced : BOOLEAN] /\ obj \in [Object -> Player]
        BY DEF AccountInit, Player, Blank, Priv
    <2>2. ranked \in BOOLEAN /\ careful \in BOOLEAN /\ ~ranked
        BY DEF AccountInit
    <2>3. task \in [Task -> Doing \cup {Idle}] /\ Busy = {}
        BY DEF AccountInit, Busy
    <2>4. players = {} /\ \A s \in Session : login[s] = "none"
        BY DEF AccountInit
    <2>5. QED  BY <2>1, <2>2, <2>3, <2>4 DEF CacheInv, DataOK, CareInv, Alone, SessionsKnow, LoginsKnow, RanksKnow
<1>2. SessionInv /\ CacheInv /\ [AccountNext]_avars => CacheInv'
    <2> SUFFICES ASSUME SessionInv, CacheInv, [AccountNext]_avars  PROVE CacheInv'
        OBVIOUS
    <2>1. CASE UNCHANGED avars
        BY <2>1, FewerKnow DEF avars, account
    <2>2. QED  BY <2>1, SessionKnows, CommandStarts, CommandProceeds, OthersKnow DEF AccountNext, CommandNext
<1>3. CacheInv => CacheIsTrue
    BY DEF CacheInv, CareInv, CacheIsTrue, Settled, SessionsKnow, RanksKnow
<1>4. QED  BY <1>1, <1>2, <1>3, SessionsAndMail, PTL DEF AccountSpec

-----------------------------------------------------------------------------
(* Friends, blocks and achievements.                                        *)


\* What a session has, and what a request may be about to write.
Own == [friends : SUBSET Other, blocks : SUBSET Other, achievements : SUBSET Achievement]
Writing == [at : {"replace"}, who : Other, type : {"friend", "block"}, on : Session]
         \cup [at : {"delete"}, who : Other, on : Session]
         \cup [at : {"insert"}, what : Achievement, on : Session]

ProfileType ==
    /\ relationships \in [Other -> {"friend", "block", "none"}]
    /\ user_achievements \subseteq Achievement
    /\ current \in Session \cup {Nobody}
    /\ arriving \in [on : Session, at : {"achievements", "relationships", "append"}] \cup {Nobody}
    /\ mine \in [Session -> Own]
    /\ asking \in [PTask -> Writing \cup {ProfilePart!Idle}]
    /\ met \in BOOLEAN

\* What holds of every session, however requests meet.
Honest == \A s \in Session :
    /\ mine[s].friends \cap mine[s].blocks = {}
    /\ mine[s].achievements \subseteq user_achievements

\* The rows about others when w has been written.
RowsAfter(w) ==
    CASE w.at = "replace" -> [relationships EXCEPT ![w.who] = w.type]
      [] w.at = "delete" -> [relationships EXCEPT ![w.who] = "none"]
      [] OTHER -> relationships

Knows(s, rows) ==
    /\ mine[s].friends = {o \in Other : rows[o] = "friend"}
    /\ mine[s].blocks = {o \in Other : rows[o] = "block"}
    /\ mine[s].achievements = user_achievements

\* While requests do not meet there is one at most, of the current session,
\* which knows what will be stored; and a login reads what nobody is changing.
OneByOne == ~met =>
    /\ \A t, v \in ProfilePart!Busy : t = v
    /\ arriving # Nobody => ProfilePart!Busy = {}
    /\ arriving # Nobody /\ arriving.at # "achievements" => mine[arriving.on].achievements = user_achievements
    /\ arriving # Nobody /\ arriving.at = "append" => Knows(arriving.on, relationships)
    /\ current # Nobody /\ ProfilePart!Busy = {} => Knows(current, relationships)
    /\ current # Nobody => \A t \in ProfilePart!Busy : asking[t].on = current /\ Knows(current, RowsAfter(asking[t]))

ProfileInv == ProfileType /\ Honest /\ OneByOne /\ (arriving # Nobody => current = Nobody)

LEMMA ProfileInitInv == ProfilePart!ProfileInit => ProfileInv
<1> SUFFICES ASSUME ProfilePart!ProfileInit  PROVE ProfileInv
    OBVIOUS
<1>1. ProfileType /\ Honest
    BY DEF ProfilePart!ProfileInit, ProfileType, Own, ProfilePart!Empty, Honest
<1>2. OneByOne
    BY DEF ProfilePart!ProfileInit, OneByOne, ProfilePart!Busy
<1>3. QED  BY <1>1, <1>2 DEF ProfileInv, ProfilePart!ProfileInit

\* A request of the current session, of which `own` is new.
LEMMA AsksKeeps ==
    ASSUME ProfileInv, NEW t \in PTask, NEW w \in Writing, NEW own \in Own, ProfilePart!Asks(t, w, own), w.on = current,
           own.friends \cap own.blocks = {}, own.achievements = mine[current].achievements,
           ~met /\ ProfilePart!Busy = {} => /\ own.friends = {o \in Other : RowsAfter(w)[o] = "friend"}
                                /\ own.blocks = {o \in Other : RowsAfter(w)[o] = "block"}
    PROVE  ProfileInv'
<1> USE DEF ProfileInv
<1>1. /\ current \in Session /\ asking[t] = ProfilePart!Idle
      /\ asking' = [asking EXCEPT ![t] = w] /\ mine' = [mine EXCEPT ![current] = own]
      /\ UNCHANGED <<relationships, user_achievements, current, arriving>>
    BY DEF ProfilePart!Asks, ProfileType
<1>2. met' = (met \/ ProfilePart!Busy # {})
    BY DEF ProfilePart!Asks
<1>3. ProfileType'
    <2>1. met' \in BOOLEAN
        BY <1>2
    <2>2. QED  BY <1>1, <2>1 DEF ProfileType
<1>4. Honest'
    BY <1>1 DEF Honest, ProfileType
<1>5. arriving = Nobody
    BY <1>1, NobodyAssumption
<1>6. OneByOne'
    <2>1. SUFFICES ASSUME ~met'  PROVE OneByOne'
        BY DEF OneByOne
    <2>2. ~met /\ ProfilePart!Busy = {}
        BY <1>2, <2>1
    <2>3. ProfilePart!Busy' = {t} /\ asking'[t] = w
        <3>1. w # ProfilePart!Idle
            BY DEF Writing, ProfilePart!Idle
        <3>2. QED  BY <1>1, <2>2, <3>1 DEF ProfilePart!Busy, ProfileType
    <2>4. Knows(current, RowsAfter(w))'
        <3>1. Knows(current, relationships)
            BY <1>1, <2>2, NobodyAssumption DEF OneByOne
        <3>2. mine'[current] = own /\ RowsAfter(w)' = RowsAfter(w)
            BY <1>1 DEF ProfileType, RowsAfter
        <3>3. QED  BY <1>1, <2>2, <3>1, <3>2 DEF Knows
    <2>5. QED  BY <1>1, <1>5, <2>3, <2>4 DEF OneByOne
<1>7. QED  BY <1>1, <1>3, <1>4, <1>5, <1>6

LEMMA RequestKeeps ==
    ASSUME ProfileInv, NEW t \in PTask, NEW o \in Other,
           \/ ProfilePart!FriendAdd(t, o) \/ ProfilePart!FriendRemove(t, o)
           \/ ProfilePart!block(t, o) \/ ProfilePart!unblock(t, o)
    PROVE  ProfileInv'
<1> USE DEF ProfileInv
<1> DEFINE m == mine[current]
<1>0. current \in Session /\ current # Nobody /\ m \in Own
    BY DEF ProfilePart!FriendAdd, ProfilePart!FriendRemove, ProfilePart!block, ProfilePart!unblock, ProfileType
<1>1. /\ m.friends \subseteq Other /\ m.blocks \subseteq Other /\ m.achievements \subseteq Achievement
      /\ m.friends \cap m.blocks = {}
    BY <1>0 DEF Own, Honest
<1>2. ~met /\ ProfilePart!Busy = {} => /\ m.friends = {x \in Other : relationships[x] = "friend"}
                           /\ m.blocks = {x \in Other : relationships[x] = "block"}
    BY <1>0 DEF OneByOne, Knows
<1>3. relationships \in [Other -> {"friend", "block", "none"}]
    BY DEF ProfileType
<1> HIDE DEF ProfileInv
<1>4. CASE ProfilePart!FriendAdd(t, o)
    <2> DEFINE w == [at |-> "replace", who |-> o, type |-> "friend", on |-> current]
               own == [m EXCEPT !.blocks = @ \ {o}, !.friends = @ \cup {o}]
    <2>1. w \in Writing /\ w.on = current /\ RowsAfter(w) = [relationships EXCEPT ![o] = "friend"]
        BY <1>0 DEF Writing, RowsAfter
    <2>2. /\ own \in Own /\ own.achievements = m.achievements
          /\ own.friends = m.friends \cup {o} /\ own.blocks = m.blocks \ {o}
        BY <1>0 DEF Own
    <2>3. ProfilePart!Asks(t, w, own)
        BY <1>4 DEF ProfilePart!FriendAdd
    <2> HIDE DEF w, own
    <2>4. ~met /\ ProfilePart!Busy = {} => /\ own.friends = {x \in Other : RowsAfter(w)[x] = "friend"}
                               /\ own.blocks = {x \in Other : RowsAfter(w)[x] = "block"}
        BY <1>2, <1>3, <2>1, <2>2
    <2>5. QED  BY <1>1, <2>1, <2>2, <2>3, <2>4, AsksKeeps
<1>5. CASE ProfilePart!FriendRemove(t, o)
    <2> DEFINE w == [at |-> "delete", who |-> o, on |-> current]
               own == [m EXCEPT !.friends = @ \ {o}]
    <2>1. w \in Writing /\ w.on = current /\ RowsAfter(w) = [relationships EXCEPT ![o] = "none"]
        BY <1>0 DEF Writing, RowsAfter
    <2>2. /\ own \in Own /\ own.achievements = m.achievements
          /\ own.friends = m.friends \ {o} /\ own.blocks = m.blocks
        BY <1>0 DEF Own
    <2>3. ProfilePart!Asks(t, w, own) /\ o \in m.friends
        BY <1>5 DEF ProfilePart!FriendRemove
    <2> HIDE DEF w, own
    <2>4. ~met /\ ProfilePart!Busy = {} => /\ own.friends = {x \in Other : RowsAfter(w)[x] = "friend"}
                               /\ own.blocks = {x \in Other : RowsAfter(w)[x] = "block"}
        BY <1>1, <1>2, <1>3, <2>1, <2>2, <2>3
    <2>5. QED  BY <1>1, <2>1, <2>2, <2>3, <2>4, AsksKeeps
<1>6. CASE ProfilePart!block(t, o)
    <2> DEFINE w == [at |-> "replace", who |-> o, type |-> "block", on |-> current]
               own == ProfilePart!Blocked(m, o)
    <2>1. w \in Writing /\ w.on = current /\ RowsAfter(w) = [relationships EXCEPT ![o] = "block"]
        BY <1>0 DEF Writing, RowsAfter
    <2>2. /\ own \in Own /\ own.achievements = m.achievements
          /\ own.friends = m.friends \ {o} /\ own.blocks = m.blocks \cup {o}
        BY <1>0 DEF Own, ProfilePart!Blocked
    <2>3. ProfilePart!Asks(t, w, own)
        BY <1>6 DEF ProfilePart!block
    <2> HIDE DEF w, own
    <2>4. ~met /\ ProfilePart!Busy = {} => /\ own.friends = {x \in Other : RowsAfter(w)[x] = "friend"}
                               /\ own.blocks = {x \in Other : RowsAfter(w)[x] = "block"}
        BY <1>2, <1>3, <2>1, <2>2
    <2>5. QED  BY <1>1, <2>1, <2>2, <2>3, <2>4, AsksKeeps
<1>7. CASE ProfilePart!unblock(t, o)
    <2> DEFINE w == [at |-> "delete", who |-> o, on |-> current]
               own == [m EXCEPT !.blocks = @ \ {o}]
    <2>1. w \in Writing /\ w.on = current /\ RowsAfter(w) = [relationships EXCEPT ![o] = "none"]
        BY <1>0 DEF Writing, RowsAfter
    <2>2. /\ own \in Own /\ own.achievements = m.achievements
          /\ own.friends = m.friends /\ own.blocks = m.blocks \ {o}
        BY <1>0 DEF Own
    <2>3. ProfilePart!Asks(t, w, own) /\ o \in m.blocks
        BY <1>7 DEF ProfilePart!unblock
    <2> HIDE DEF w, own
    <2>4. ~met /\ ProfilePart!Busy = {} => /\ own.friends = {x \in Other : RowsAfter(w)[x] = "friend"}
                               /\ own.blocks = {x \in Other : RowsAfter(w)[x] = "block"}
        BY <1>1, <1>2, <1>3, <2>1, <2>2, <2>3
    <2>5. QED  BY <1>1, <2>1, <2>2, <2>3, <2>4, AsksKeeps
<1>8. QED  BY <1>4, <1>5, <1>6, <1>7

LEMMA EarnKeeps ==
    ASSUME ProfileInv, NEW t \in PTask, NEW a \in Achievement, ProfilePart!EarnsAchievement(t, a)
    PROVE  ProfileInv'
<1> DEFINE w == [at |-> "insert", what |-> a, on |-> current]
<1>1. current \in Session /\ current # Nobody /\ mine[current] \in Own
    BY DEF ProfilePart!EarnsAchievement, ProfileInv, ProfileType
<1>2. w \in Writing /\ w.on = current /\ RowsAfter(w) = relationships /\ ProfilePart!Asks(t, w, mine[current])
    BY <1>1 DEF Writing, RowsAfter, ProfilePart!EarnsAchievement
<1> HIDE DEF w
<1>3. mine[current].friends \cap mine[current].blocks = {}
    BY <1>1 DEF ProfileInv, Honest
<1>4. ~met /\ ProfilePart!Busy = {} => /\ mine[current].friends = {x \in Other : relationships[x] = "friend"}
                           /\ mine[current].blocks = {x \in Other : relationships[x] = "block"}
    BY <1>1 DEF ProfileInv, OneByOne, Knows
<1>5. QED  BY <1>1, <1>2, <1>3, <1>4, AsksKeeps

\* A request writes, and is over.
LEMMA EndsKeeps ==
    ASSUME ProfileInv, NEW t \in PTask, asking[t] # ProfilePart!Idle, NEW own, ProfilePart!Ends(t, own),
           UNCHANGED <<current, arriving, met>>,
           relationships' = RowsAfter(asking[t]),
           user_achievements \subseteq user_achievements', user_achievements' \subseteq Achievement,
           own \in [Session -> Own],
           \A s \in Session : /\ own[s].friends = mine[s].friends /\ own[s].blocks = mine[s].blocks
                              /\ own[s].achievements \subseteq user_achievements',
           current # Nobody /\ asking[t].on = current /\ mine[current].achievements = user_achievements
                => own[current].achievements = user_achievements'
    PROVE  ProfileInv'
<1> USE DEF ProfileInv
<1>1. /\ asking' = [asking EXCEPT ![t] = ProfilePart!Idle]
      /\ mine' = [s \in Session |-> IF ProfilePart!Held(s) THEN own[s] ELSE ProfilePart!Empty]
      /\ current \in Session => mine'[current] = own[current]
    BY DEF ProfilePart!Ends, ProfilePart!Held
<1>2. asking[t] \in Writing
    BY DEF ProfileType
<1>3. relationships' \in [Other -> {"friend", "block", "none"}]
    BY <1>2 DEF RowsAfter, Writing, ProfileType
<1>4. mine' \in [Session -> Own] /\ asking' \in [PTask -> Writing \cup {ProfilePart!Idle}]
    BY <1>1 DEF ProfileType, Own, ProfilePart!Empty
<1>5. ProfileType'
    BY <1>3, <1>4 DEF ProfileType
<1>6. Honest'
    BY <1>1 DEF Honest, ProfilePart!Empty
<1>7. ProfilePart!Busy' = ProfilePart!Busy \ {t} /\ t \in ProfilePart!Busy
    BY <1>1 DEF ProfilePart!Busy, ProfileType
<1>8. OneByOne'
    <2>1. SUFFICES ASSUME ~met  PROVE OneByOne'
        BY DEF OneByOne
    <2>2. ProfilePart!Busy' = {} /\ arriving = Nobody
        BY <1>7, <2>1 DEF OneByOne
    <2>3. ASSUME current # Nobody  PROVE Knows(current, relationships)'
        <3>1. asking[t].on = current /\ Knows(current, RowsAfter(asking[t])) /\ current \in Session
            BY <1>7, <2>1, <2>3 DEF OneByOne, ProfileType
        <3>2. QED  BY <1>1, <2>3, <3>1 DEF Knows
    <2>4. QED  BY <2>2, <2>3 DEF OneByOne
<1>9. QED  BY <1>5, <1>6, <1>8

LEMMA WriteKeeps ==
    ASSUME ProfileInv, NEW t \in PTask, ProfilePart!Replaces(t) \/ ProfilePart!Deletes(t) \/ ProfilePart!unlock_achievement(t)
    PROVE  ProfileInv'
<1> USE DEF ProfileInv
<1>1. /\ mine \in [Session -> Own] /\ asking[t] \in Writing \cup {ProfilePart!Idle} /\ user_achievements \subseteq Achievement
      /\ \A s \in Session : mine[s].achievements \subseteq user_achievements
    BY DEF ProfileType, Honest
<1>2. CASE ProfilePart!Replaces(t)
    <2>1. /\ asking[t] # ProfilePart!Idle /\ relationships' = RowsAfter(asking[t]) /\ ProfilePart!Ends(t, mine)
          /\ UNCHANGED <<current, arriving, met, user_achievements>>
        BY <1>2 DEF ProfilePart!Replaces, RowsAfter, ProfilePart!Idle
    <2>2. QED  BY <1>1, <2>1, EndsKeeps
<1>3. CASE ProfilePart!Deletes(t)
    <2>1. /\ asking[t] # ProfilePart!Idle /\ relationships' = RowsAfter(asking[t]) /\ ProfilePart!Ends(t, mine)
          /\ UNCHANGED <<current, arriving, met, user_achievements>>
        BY <1>3 DEF ProfilePart!Deletes, RowsAfter, ProfilePart!Idle
    <2>2. QED  BY <1>1, <2>1, EndsKeeps
<1>4. CASE ProfilePart!unlock_achievement(t)
    <2> DEFINE a == asking[t].what
               s == asking[t].on
               own == IF a \in user_achievements THEN mine ELSE [mine EXCEPT ![s].achievements = @ \cup {a}]
    <2>1. asking[t] \in [at : {"insert"}, what : Achievement, on : Session]
        BY <1>1, <1>4 DEF ProfilePart!unlock_achievement, Writing, ProfilePart!Idle
    <2>2. /\ asking[t] # ProfilePart!Idle /\ relationships' = RowsAfter(asking[t]) /\ ProfilePart!Ends(t, own)
          /\ UNCHANGED <<current, arriving, met>> /\ user_achievements' = user_achievements \cup {a}
        BY <1>4 DEF ProfilePart!unlock_achievement, RowsAfter, ProfilePart!Idle
    <2>3. a \in Achievement /\ s \in Session
        BY <2>1
    <2>4. /\ own \in [Session -> Own]
          /\ \A x \in Session : /\ own[x].friends = mine[x].friends /\ own[x].blocks = mine[x].blocks
                                /\ x # s => own[x].achievements = mine[x].achievements
          /\ own[s].achievements = IF a \in user_achievements THEN mine[s].achievements
                                   ELSE mine[s].achievements \cup {a}
        BY <1>1, <2>3 DEF Own
    <2> HIDE DEF own
    <2>5. \A x \in Session : own[x].achievements \subseteq user_achievements'
        BY <1>1, <2>2, <2>3, <2>4
    <2>6. s = current /\ mine[current].achievements = user_achievements
            => own[current].achievements = user_achievements'
        BY <2>2, <2>4
    <2>7. QED  BY <1>1, <2>2, <2>3, <2>4, <2>5, <2>6, EndsKeeps
<1>5. QED  BY <1>2, <1>3, <1>4

LEMMA SessionsKeep ==
    ASSUME ProfileInv,
           \/ \E s \in Session : ProfilePart!LoginStarts(s)
           \/ ProfilePart!achievements_from_sql \/ ProfilePart!relationships_from_sql
           \/ ProfilePart!LoginEnds \/ ProfilePart!Logout \/ ProfilePart!Restart
    PROVE  ProfileInv'
<1> USE DEF ProfileInv
<1>1. ASSUME NEW s \in Session, ProfilePart!LoginStarts(s)  PROVE ProfileInv'
    <2>0. met' = (ProfilePart!Busy # {})
        BY <1>1 DEF ProfilePart!LoginStarts
    <2>1. /\ arriving' = [on |-> s, at |-> "achievements"] /\ current = Nobody /\ ProfilePart!Busy' = ProfilePart!Busy
          /\ UNCHANGED <<relationships, user_achievements, current, mine, asking>>
        BY <1>1 DEF ProfilePart!LoginStarts, ProfilePart!Goes, ProfilePart!Busy
    <2>2. ProfileType'
        <3>1. met' \in BOOLEAN
            BY <2>0
        <3>2. QED  BY <2>1, <3>1 DEF ProfileType
    <2>3. Honest'
        BY <2>1 DEF Honest
    <2>4. OneByOne'
        BY <2>0, <2>1 DEF OneByOne
    <2>5. QED  BY <2>1, <2>2, <2>3, <2>4
<1>2. CASE ProfilePart!achievements_from_sql
    <2>1. /\ arriving # Nobody /\ arriving.on \in Session /\ current = Nobody /\ arriving' = [on |-> arriving.on, at |-> "relationships"]
          /\ mine' = [mine EXCEPT ![arriving.on].achievements = user_achievements]
          /\ UNCHANGED <<relationships, user_achievements, current, asking, met>>
        BY <1>2 DEF ProfilePart!achievements_from_sql, ProfilePart!Goes, ProfileType
    <2>2. /\ mine' \in [Session -> Own] /\ mine'[arriving.on].achievements = user_achievements
          /\ \A x \in Session : /\ mine'[x].friends = mine[x].friends /\ mine'[x].blocks = mine[x].blocks
                                /\ x # arriving.on => mine'[x].achievements = mine[x].achievements
        BY <2>1 DEF ProfileType, Own
    <2>3. ProfileType' /\ Honest'
        BY <2>1, <2>2 DEF ProfileType, Honest
    <2>4. OneByOne'
        BY <2>1, <2>2 DEF OneByOne, ProfilePart!Busy
    <2>5. QED  BY <2>1, <2>3, <2>4
<1>3. CASE ProfilePart!relationships_from_sql
    <2>1. /\ arriving # Nobody /\ arriving.on \in Session /\ current = Nobody /\ arriving' = [on |-> arriving.on, at |-> "append"]
          /\ arriving.at # "achievements"
          /\ mine' = [mine EXCEPT ![arriving.on].friends = ProfilePart!Related("friend"),
                                ![arriving.on].blocks = ProfilePart!Related("block")]
          /\ UNCHANGED <<relationships, user_achievements, current, asking, met>>
        BY <1>3 DEF ProfilePart!relationships_from_sql, ProfilePart!Goes, ProfileType
    <2>2. /\ mine' \in [Session -> Own]
          /\ mine'[arriving.on].friends = ProfilePart!Related("friend")
          /\ mine'[arriving.on].blocks = ProfilePart!Related("block")
          /\ \A x \in Session : mine'[x].achievements = mine[x].achievements /\ (x # arriving.on => mine'[x] = mine[x])
        BY <2>1 DEF ProfileType, Own, ProfilePart!Related
    <2>3. ProfileType' /\ Honest'
        BY <2>1, <2>2 DEF ProfileType, Honest, ProfilePart!Related
    <2>4. OneByOne'
        BY <2>1, <2>2 DEF OneByOne, ProfilePart!Busy, Knows, ProfilePart!Related
    <2>5. QED  BY <2>1, <2>3, <2>4
<1>4. CASE ProfilePart!LoginEnds
    <2>1. /\ arriving # Nobody /\ arriving.at = "append" /\ arriving.on \in Session
          /\ current' = arriving.on /\ arriving' = Nobody
          /\ UNCHANGED <<relationships, user_achievements, mine, asking, met>>
        BY <1>4 DEF ProfilePart!LoginEnds, ProfileType
    <2>2. ProfileType' /\ Honest'
        BY <2>1 DEF ProfileType, Honest
    <2>3. OneByOne'
        BY <2>1 DEF OneByOne, ProfilePart!Busy, Knows
    <2>4. QED  BY <2>1, <2>2, <2>3
<1>5. CASE ProfilePart!Logout
    <2>1. /\ current # Nobody /\ current' = Nobody /\ arriving = Nobody
          /\ UNCHANGED <<relationships, user_achievements, arriving, asking, met>>
          /\ mine' = [s \in Session |-> IF ProfilePart!Held(s) THEN mine[s] ELSE ProfilePart!Empty]
        BY <1>5 DEF ProfilePart!Logout
    <2>2. \A s \in Session : mine'[s] \in {mine[s], ProfilePart!Empty}
        BY <2>1
    <2>3. ProfileType'
        BY <2>1 DEF ProfileType, Own, ProfilePart!Empty
    <2>4. Honest'
        BY <2>1, <2>2 DEF Honest, ProfilePart!Empty
    <2>5. OneByOne'
        BY <2>1 DEF OneByOne, ProfilePart!Busy
    <2>6. QED  BY <2>1, <2>3, <2>4, <2>5
<1>6. CASE ProfilePart!Restart
    <2>1. ProfileType' /\ Honest'
        BY <1>6 DEF ProfilePart!Restart, ProfileType, Own, ProfilePart!Empty, Honest
    <2>2. OneByOne'
        BY <1>6 DEF ProfilePart!Restart, OneByOne, ProfilePart!Busy
    <2>3. QED  BY <1>6, <2>1, <2>2 DEF ProfilePart!Restart
<1>7. QED  BY <1>1, <1>2, <1>3, <1>4, <1>5, <1>6

LEMMA ProfileNextInv == ProfileInv /\ [ProfilePart!ProfileNext]_(ProfilePart!prvars) => ProfileInv'
<1> SUFFICES ASSUME ProfileInv, [ProfilePart!ProfileNext]_(ProfilePart!prvars)  PROVE ProfileInv'
    OBVIOUS
<1>1. CASE UNCHANGED ProfilePart!prvars
    BY <1>1 DEF ProfilePart!prvars, ProfileInv, ProfileType, Honest, OneByOne, ProfilePart!Busy, Knows, RowsAfter
<1>2. ASSUME NEW t \in PTask, ProfilePart!TaskNext(t)  PROVE ProfileInv'
    BY <1>2, RequestKeeps, EarnKeeps, WriteKeeps DEF ProfilePart!TaskNext
<1>3. QED  BY <1>1, <1>2, SessionsKeep DEF ProfilePart!ProfileNext

LEMMA ProfileHolds == ProfileInv => ProfilePart!ProfileIsTrue
<1> SUFFICES ASSUME ProfileInv  PROVE ProfilePart!ProfileIsTrue
    OBVIOUS
<1>1. ASSUME current # Nobody, ProfilePart!Busy = {}, ~met
      PROVE  mine[current] = [friends |-> ProfilePart!Related("friend"), blocks |-> ProfilePart!Related("block"),
                              achievements |-> user_achievements]
    BY <1>1 DEF ProfileInv, ProfileType, OneByOne, Knows, ProfilePart!Related, Own
<1>2. QED  BY <1>1 DEF ProfilePart!ProfileIsTrue, ProfileInv, Honest

-----------------------------------------------------------------------------
(* Friends, blocks and achievements, in MCAccount.                          *)

LEMMA ProfilePartInv == Spec => [](part = "profile" => ProfileInv)
<1>1. Init => (part = "profile" => ProfileInv)
    BY ProfileInitInv DEF Init
<1>2. (part = "profile" => ProfileInv) /\ [Next]_userVars => (part = "profile" => ProfileInv)'
    <2>1. SUFFICES ASSUME part = "profile" => ProfileInv, [Next]_userVars, part' = "profile"
                   PROVE  ProfileInv'
        OBVIOUS
    <2>2. part = "profile"
        BY <2>1 DEF Next, OthersStay, userVars
    <2>3. [ProfilePart!ProfileNext]_(ProfilePart!prvars)
        BY <2>1, <2>2 DEF Next, userVars, profileVars, ProfilePart!prvars
    <2>4. QED  BY <2>1, <2>2, <2>3, ProfileNextInv
<1>3. QED  BY <1>1, <1>2, PTL DEF Spec

\* However many users, achievements, sessions and requests there are: nobody is
\* a friend and blocked at once, what a session shows is stored, and a session
\* whose requests did not meet knows what is stored (player.py:936-1025).
THEOREM ProfileIsTrueAlways == Spec => []ProfileIsTrue
<1>1. (part = "profile" => ProfileInv) => ProfileIsTrue
    BY ProfileHolds DEF ProfileIsTrue
<1>2. QED  BY <1>1, ProfilePartInv, PTL

-----------------------------------------------------------------------------
(* What a combination may not have, one by one.                             *)

NotBoth(m, a, b) == ~(a \in m /\ b \in m)

NoConflict(m, v) ==
    /\ NotBoth(m, "DT", "NC") /\ NotBoth(m, "DT", "HT") /\ NotBoth(m, "NC", "HT")
    /\ NotBoth(m, "EZ", "HR") /\ NotBoth(m, "PF", "SD")
    /\ NotBoth(m, "RX", "NF") /\ NotBoth(m, "AP", "NF")
    /\ \A a \in {"NF", "RX", "AP"}, b \in {"SD", "PF"} : NotBoth(m, a, b)
    /\ v = 0 => NotBoth(m, "SO", "AP") /\ NotBoth(m, "RX", "AP")
    /\ v # 0 => m \cap ModsPart!ModeOnly = {}
    /\ v = 3 => "RX" \notin m /\ NotBoth(m, "HD", "FI")
    /\ v # 3 => m \cap ModsPart!ManiaOnly = {}

Free(C, m) == \A c \in C : ~(c \subseteq m)

LEMMA FreeOfBoth ==
    ASSUME NEW m, NEW C, NEW D
    PROVE  Free(C \cup D, m) <=> Free(C, m) /\ Free(D, m)
BY DEF Free

LEMMA FreeOfSingles ==
    ASSUME NEW m, NEW S
    PROVE  Free({{mod} : mod \in S}, m) <=> m \cap S = {}
<1>1. \A mod : {mod} \subseteq m <=> mod \in m
    OBVIOUS
<1>2. Free({{mod} : mod \in S}, m) <=> \A mod \in S : ~({mod} \subseteq m)
    <2>1. ASSUME Free({{mod} : mod \in S}, m), NEW mod \in S
          PROVE  ~({mod} \subseteq m)
        <3>1. {mod} \in {{x} : x \in S}
            OBVIOUS
        <3>2. QED  BY <2>1, <3>1, Zenon DEF Free
    <2>2. ASSUME \A mod \in S : ~({mod} \subseteq m), NEW c \in {{mod} : mod \in S}
          PROVE  ~(c \subseteq m)
        <3>1. PICK mod \in S : c = {mod}
            OBVIOUS
        <3>2. QED  BY <2>2, <3>1, Zenon
    <2>3. QED  BY <2>1, <2>2, Zenon DEF Free
<1>3. (\A mod \in S : mod \notin m) <=> m \cap S = {}
    OBVIOUS
<1>4. QED  BY <1>1, <1>2, <1>3

LEMMA ValidMeans ==
    ASSUME NEW m, NEW v
    PROVE  ModsPart!Valid(m, v) <=> NoConflict(m, v) /\ ~ModsPart!Raises(m)
<1> DEFINE Always == {{"DT", "NC"}, {"DT", "HT"}, {"NC", "HT"}, {"EZ", "HR"}, {"RX", "NF"}, {"AP", "NF"}, {"PF", "SD"}}
           Fails  == {{a, b} : a \in {"NF", "RX", "AP"}, b \in {"SD", "PF"}}
           Osu    == IF v = 0 THEN {{"SO", "AP"}, {"RX", "AP"}} ELSE {{mod} : mod \in ModsPart!ModeOnly}
           Mania  == IF v = 3 THEN {{"RX"}, {"HD", "FI"}} ELSE {{mod} : mod \in ModsPart!ManiaOnly}
           Keys   == {c \in SUBSET KeyMod : \E a, b \in c : a # b /\ c = {a, b}}
<1>1. ModsPart!Valid(m, v) <=> Free(Always, m) /\ Free(Fails, m) /\ Free(Osu, m) /\ Free(Mania, m) /\ Free(Keys, m)
    <2>1. ModsPart!Conflicts(v) = Always \cup Fails \cup Osu \cup Mania \cup Keys
        BY DEF ModsPart!Conflicts
    <2>2. ModsPart!Valid(m, v) <=> Free(ModsPart!Conflicts(v), m)
        BY DEF ModsPart!Valid, Free
    <2> HIDE DEF Always, Fails, Osu, Mania, Keys
    <2>3. Free(Always \cup Fails, m) <=> Free(Always, m) /\ Free(Fails, m)
        BY FreeOfBoth
    <2>4. Free(Always \cup Fails \cup Osu, m) <=> Free(Always \cup Fails, m) /\ Free(Osu, m)
        BY FreeOfBoth
    <2>5. Free(Always \cup Fails \cup Osu \cup Mania, m) <=> Free(Always \cup Fails \cup Osu, m) /\ Free(Mania, m)
        BY FreeOfBoth
    <2>6. Free(Always \cup Fails \cup Osu \cup Mania \cup Keys, m)
              <=> Free(Always \cup Fails \cup Osu \cup Mania, m) /\ Free(Keys, m)
        BY FreeOfBoth
    <2>7. QED  BY <2>1, <2>2, <2>3, <2>4, <2>5, <2>6
<1>2. Free(Always, m) <=> /\ NotBoth(m, "DT", "NC") /\ NotBoth(m, "DT", "HT") /\ NotBoth(m, "NC", "HT")
                          /\ NotBoth(m, "EZ", "HR") /\ NotBoth(m, "PF", "SD")
                          /\ NotBoth(m, "RX", "NF") /\ NotBoth(m, "AP", "NF")
    BY DEF NotBoth, Free
<1>3. Free(Fails, m) <=> \A a \in {"NF", "RX", "AP"}, b \in {"SD", "PF"} : NotBoth(m, a, b)
    <2>1. \A c : c \in Fails <=> \E a \in {"NF", "RX", "AP"}, b \in {"SD", "PF"} : c = {a, b}
        OBVIOUS
    <2>2. \A a, b : ({a, b} \subseteq m) <=> ~NotBoth(m, a, b)
        BY DEF NotBoth
    <2> HIDE DEF Fails
    <2>3. Free(Fails, m) <=> \A a \in {"NF", "RX", "AP"}, b \in {"SD", "PF"} : ~({a, b} \subseteq m)
        <3>1. ASSUME Free(Fails, m), NEW a \in {"NF", "RX", "AP"}, NEW b \in {"SD", "PF"}
              PROVE  ~({a, b} \subseteq m)
            <4>1. {a, b} \in Fails
                BY <2>1, Zenon
            <4>2. QED  BY <3>1, <4>1, Zenon DEF Free
        <3>2. ASSUME \A a \in {"NF", "RX", "AP"}, b \in {"SD", "PF"} : ~({a, b} \subseteq m), NEW c \in Fails
              PROVE  ~(c \subseteq m)
            <4>1. PICK a \in {"NF", "RX", "AP"}, b \in {"SD", "PF"} : c = {a, b}
                BY <2>1, Zenon
            <4>2. ~({a, b} \subseteq m)
                BY <3>2, Zenon
            <4>3. QED  BY <4>1, <4>2, Zenon
        <3>3. QED  BY <3>1, <3>2, Zenon DEF Free
    <2>4. QED  BY <2>2, <2>3
<1>4. Free(Osu, m) <=> /\ v = 0 => NotBoth(m, "SO", "AP") /\ NotBoth(m, "RX", "AP")
                       /\ v # 0 => m \cap ModsPart!ModeOnly = {}
    <2>1. CASE v = 0
        BY <2>1 DEF NotBoth, Free
    <2>2. CASE v # 0
        <3>1. Osu = {{mod} : mod \in ModsPart!ModeOnly}
            BY <2>2
        <3> HIDE DEF Osu
        <3>2. QED  BY <2>2, <3>1, FreeOfSingles
    <2>3. QED  BY <2>1, <2>2
<1>5. Free(Mania, m) <=> /\ v = 3 => "RX" \notin m /\ NotBoth(m, "HD", "FI")
                         /\ v # 3 => m \cap ModsPart!ManiaOnly = {}
    <2>1. CASE v = 3
        BY <2>1 DEF NotBoth, Free
    <2>2. CASE v # 3
        <3>1. Mania = {{mod} : mod \in ModsPart!ManiaOnly}
            BY <2>2
        <3> HIDE DEF Mania
        <3>2. QED  BY <2>2, <3>1, FreeOfSingles
    <2>3. QED  BY <2>1, <2>2
<1>6. Free(Keys, m) <=> ~ModsPart!Raises(m)
    <2>1. \A c : c \in Keys <=> \E a \in KeyMod, b \in KeyMod : a # b /\ c = {a, b}
        <3>1. ASSUME NEW c \in Keys  PROVE \E a \in KeyMod, b \in KeyMod : a # b /\ c = {a, b}
            <4>1. PICK a \in c, b \in c : a # b /\ c = {a, b}
                OBVIOUS
            <4>2. QED  BY <4>1
        <3>2. ASSUME NEW a \in KeyMod, NEW b \in KeyMod, a # b  PROVE {a, b} \in Keys
            BY <3>2
        <3>3. QED  BY <3>1, <3>2, Zenon
    <2> HIDE DEF Keys
    <2>2. ASSUME Free(Keys, m)  PROVE ~ModsPart!Raises(m)
        <3>1. ASSUME NEW a \in m \cap KeyMod, NEW b \in m \cap KeyMod, a # b  PROVE FALSE
            <4>1. {a, b} \in Keys
                BY <2>1, <3>1, Zenon
            <4>2. {a, b} \subseteq m
                OBVIOUS
            <4>3. QED  BY <2>2, <4>1, <4>2, Zenon DEF Free
        <3>2. QED  BY <3>1 DEF ModsPart!Raises
    <2>3. ASSUME ~ModsPart!Raises(m), NEW c \in Keys, c \subseteq m  PROVE FALSE
        <3>1. PICK a \in KeyMod, b \in KeyMod : a # b /\ c = {a, b}
            BY <2>1, Zenon
        <3>2. QED  BY <2>3, <3>1 DEF ModsPart!Raises
    <2>4. QED  BY <2>2, <2>3, Zenon DEF Free
<1> HIDE DEF Always, Fails, Osu, Mania, Keys
<1>7. QED  BY <1>1, <1>2, <1>3, <1>4, <1>5, <1>6 DEF NoConflict

-----------------------------------------------------------------------------
(* filter_invalid_combos: what each of its parts leaves.                    *)

LEMMA FilterTakes ==
    ASSUME NEW m, NEW v
    PROVE  ModsPart!filter_invalid_combos(m, v) \subseteq m
<1>1. \A x : ModsPart!Speed(x) \subseteq x /\ ModsPart!Difficulty(x) \subseteq x
    BY DEF ModsPart!Speed, ModsPart!Difficulty, ModsPart!Without
<1>2. \A x : ModsPart!Failing(x) \subseteq x
    BY DEF ModsPart!Failing, ModsPart!Without
<1>3. \A x : ModsPart!OfMode(x, v) \subseteq x /\ ModsPart!InMode(x, v) \subseteq x
    BY DEF ModsPart!OfMode, ModsPart!InMode, ModsPart!Without
<1> HIDE DEF ModsPart!Speed, ModsPart!Difficulty, ModsPart!Failing, ModsPart!OfMode, ModsPart!InMode
<1>4. QED  BY <1>1, <1>2, <1>3 DEF ModsPart!filter_invalid_combos

LEMMA FilterRemoves ==
    ASSUME NEW m, NEW v \in 0..3, ~({"DT", "NC", "HT"} \subseteq m)
    PROVE  NoConflict(ModsPart!filter_invalid_combos(m, v), v)
<1> DEFINE m1 == ModsPart!Speed(m)
           m2 == ModsPart!Difficulty(m1)
           m3 == ModsPart!Failing(m2)
           m4 == ModsPart!OfMode(m3, v)
           m5 == ModsPart!InMode(m4, v)
<1>1. NotBoth(m1, "DT", "NC") /\ NotBoth(m1, "DT", "HT") /\ NotBoth(m1, "NC", "HT")
    BY DEF ModsPart!Speed, ModsPart!Without, ModsPart!Has, NotBoth
<1>2. m2 \subseteq m1 /\ NotBoth(m2, "EZ", "HR")
    BY DEF ModsPart!Difficulty, ModsPart!Without, NotBoth
<1>3. /\ m3 \subseteq m2
      /\ NotBoth(m3, "RX", "NF") /\ NotBoth(m3, "AP", "NF") /\ NotBoth(m3, "PF", "SD")
      /\ \A a \in {"NF", "RX", "AP"}, b \in {"SD", "PF"} : NotBoth(m3, a, b)
    BY DEF ModsPart!Failing, ModsPart!Without, ModsPart!Has, NotBoth
<1>4. m4 \subseteq m3 /\ (v # 0 => m4 \cap ModsPart!ModeOnly = {}) /\ (v # 3 => m4 \cap ModsPart!ManiaOnly = {})
    BY DEF ModsPart!OfMode
<1>5. /\ m5 \subseteq m4
      /\ v = 0 => NotBoth(m5, "SO", "AP") /\ NotBoth(m5, "RX", "AP")
      /\ v = 3 => "RX" \notin m5 /\ NotBoth(m5, "HD", "FI")
    BY DEF ModsPart!InMode, ModsPart!Without, ModsPart!Has, NotBoth
<1>6. ModsPart!filter_invalid_combos(m, v) = m5
    BY DEF ModsPart!filter_invalid_combos
<1> HIDE DEF m1, m2, m3, m4, m5
<1>7. \A a, b : /\ NotBoth(m1, a, b) => NotBoth(m5, a, b)
                /\ NotBoth(m2, a, b) => NotBoth(m5, a, b)
                /\ NotBoth(m3, a, b) => NotBoth(m5, a, b)
    BY <1>2, <1>3, <1>4, <1>5 DEF NotBoth
<1>8. /\ NotBoth(m5, "DT", "NC") /\ NotBoth(m5, "DT", "HT") /\ NotBoth(m5, "NC", "HT")
      /\ NotBoth(m5, "EZ", "HR") /\ NotBoth(m5, "PF", "SD")
      /\ NotBoth(m5, "RX", "NF") /\ NotBoth(m5, "AP", "NF")
      /\ \A a \in {"NF", "RX", "AP"}, b \in {"SD", "PF"} : NotBoth(m5, a, b)
    BY <1>1, <1>2, <1>3, <1>7
<1>9. (v # 0 => m5 \cap ModsPart!ModeOnly = {}) /\ (v # 3 => m5 \cap ModsPart!ManiaOnly = {})
    BY <1>4, <1>5
<1>10. QED  BY <1>5, <1>6, <1>8, <1>9 DEF NoConflict

LEMMA FilterKeeps ==
    ASSUME NEW m, NEW v \in 0..3, NoConflict(m, v)
    PROVE  ModsPart!filter_invalid_combos(m, v) = m
<1>1. ModsPart!Speed(m) = m
    BY DEF ModsPart!Speed, ModsPart!Without, ModsPart!Has, NotBoth, NoConflict
<1>2. ModsPart!Difficulty(m) = m
    BY DEF ModsPart!Difficulty, ModsPart!Without, NotBoth, NoConflict
<1>3. ModsPart!Failing(m) = m
    <2>1. /\ m \cap {"NF", "RX", "AP"} # {} => "SD" \notin m /\ "PF" \notin m
          /\ m \cap {"RX", "AP"} # {} => "NF" \notin m
          /\ "PF" \in m => "SD" \notin m
        BY DEF NoConflict, NotBoth
    <2>2. QED  BY <2>1 DEF ModsPart!Failing, ModsPart!Without, ModsPart!Has
<1>4. ModsPart!OfMode(m, v) = m
    BY DEF ModsPart!OfMode, NoConflict
<1>5. ModsPart!InMode(m, v) = m
    BY DEF ModsPart!InMode, ModsPart!Without, ModsPart!Has, NotBoth, NoConflict
<1>6. QED  BY <1>1, <1>2, <1>3, <1>4, <1>5 DEF ModsPart!filter_invalid_combos

-----------------------------------------------------------------------------
(* CHANGE_ACTION: the mode that is shown is used, and is that of the mods.  *)

LEMMA ActionFits ==
    ASSUME NEW m, NEW v \in 0..3
    PROVE  LET p == ModsPart!ChangeAction(m, v)
           IN  /\ p.mode \in (0..6) \cup {8}
               /\ ModsPart!as_vanilla(p.mode) = v
               /\ ModsPart!from_params(v, p.mods) = p.mode \/ {"RX", "AP"} \subseteq m
<1>1. CASE "RX" \in m
    BY <1>1 DEF ModsPart!ChangeAction, ModsPart!as_vanilla, ModsPart!from_params
<1>2. CASE "RX" \notin m /\ "AP" \in m
    BY <1>2 DEF ModsPart!ChangeAction, ModsPart!as_vanilla, ModsPart!from_params
<1>3. CASE "RX" \notin m /\ "AP" \notin m
    BY <1>3 DEF ModsPart!ChangeAction, ModsPart!as_vanilla, ModsPart!from_params
<1>4. QED  BY <1>1, <1>2, <1>3

\* What was answered is what the filter and CHANGE_ACTION make of what was asked.
ModsInv ==
    /\ asked \in [mods : SUBSET ModsPart!Mod, mode : 0..3]
    /\ filtered.mods \subseteq asked.mods
    /\ filtered.now # "asked" =>
          LET kept == ModsPart!filter_invalid_combos(asked.mods, asked.mode)
          IN  /\ filtered = [now |-> IF ModsPart!Raises(kept) THEN "raised" ELSE "returned", mods |-> kept]
              /\ played = ModsPart!ChangeAction(asked.mods, asked.mode)

LEMMA ModsInitInv == ModsPart!ModsInit => ModsInv
BY DEF ModsPart!ModsInit, ModsInv

LEMMA ModsNextInv == ModsInv /\ [ModsPart!ModsNext]_(ModsPart!modvars) => ModsInv'
<1> SUFFICES ASSUME ModsInv, [ModsPart!ModsNext]_(ModsPart!modvars)  PROVE ModsInv'
    OBVIOUS
<1>1. CASE UNCHANGED ModsPart!modvars
    BY <1>1 DEF ModsPart!modvars, ModsInv
<1>2. CASE ModsPart!Asks
    <2> DEFINE kept == ModsPart!filter_invalid_combos(asked.mods, asked.mode)
    <2>1. kept \subseteq asked.mods
        BY FilterTakes
    <2>2. /\ filtered' = [now |-> IF ModsPart!Raises(kept) THEN "raised" ELSE "returned", mods |-> kept]
          /\ played' = ModsPart!ChangeAction(asked.mods, asked.mode) /\ asked' = asked
        BY <1>2 DEF ModsPart!Asks
    <2>3. filtered'.mods = kept
        BY <2>2
    <2>4. QED  BY <2>1, <2>2, <2>3 DEF ModsInv
<1>3. CASE ModsPart!AsksAgain
    <2>1. /\ asked' = [asked EXCEPT !.mods = filtered.mods] /\ filtered' = [now |-> "asked", mods |-> filtered.mods]
        BY <1>3 DEF ModsPart!AsksAgain
    <2>2. asked' \in [mods : SUBSET ModsPart!Mod, mode : 0..3] /\ asked'.mods = filtered.mods
        BY <2>1 DEF ModsInv
    <2>3. QED  BY <2>1, <2>2 DEF ModsInv
<1>4. QED  BY <1>1, <1>2, <1>3 DEF ModsPart!ModsNext

LEMMA ModsHold == ModsInv => ModsPart!ModsAreValid
<1> SUFFICES ASSUME ModsInv, filtered.now # "asked"
             PROVE  /\ filtered.now = "returned" /\ ~({"DT", "NC", "HT"} \subseteq asked.mods)
                       => ModsPart!Valid(filtered.mods, asked.mode)
                    /\ ModsPart!Valid(asked.mods, asked.mode) => filtered = [now |-> "returned", mods |-> asked.mods]
                    /\ played.mode \in (0..6) \cup {8}
                    /\ ModsPart!as_vanilla(played.mode) = asked.mode
                    /\ ModsPart!from_params(asked.mode, played.mods) = played.mode \/ {"RX", "AP"} \subseteq asked.mods
    BY DEF ModsPart!ModsAreValid
<1> DEFINE m == asked.mods
           v == asked.mode
           kept == ModsPart!filter_invalid_combos(m, v)
<1>1. /\ v \in 0..3 /\ played = ModsPart!ChangeAction(m, v)
      /\ filtered = [now |-> IF ModsPart!Raises(kept) THEN "raised" ELSE "returned", mods |-> kept]
    BY DEF ModsInv
<1>2. filtered.now = (IF ModsPart!Raises(kept) THEN "raised" ELSE "returned") /\ filtered.mods = kept
    BY <1>1
<1> HIDE DEF m, v, kept
<1>3. ASSUME filtered.now = "returned", ~({"DT", "NC", "HT"} \subseteq m)
      PROVE  ModsPart!Valid(filtered.mods, v)
    <2>1. ~ModsPart!Raises(kept)
        BY <1>2, <1>3
    <2>2. NoConflict(kept, v)
        BY <1>1, <1>3, FilterRemoves DEF kept
    <2>3. QED  BY <1>2, <2>1, <2>2, ValidMeans
<1>4. ASSUME ModsPart!Valid(m, v)
      PROVE  filtered = [now |-> "returned", mods |-> m]
    <2>1. NoConflict(m, v) /\ ~ModsPart!Raises(m)
        BY <1>4, ValidMeans
    <2>2. kept = m
        BY <1>1, <2>1, FilterKeeps DEF kept
    <2>3. QED  BY <1>1, <2>1, <2>2
<1>5. /\ played.mode \in (0..6) \cup {8} /\ ModsPart!as_vanilla(played.mode) = v
      /\ ModsPart!from_params(v, played.mods) = played.mode \/ {"RX", "AP"} \subseteq m
    BY <1>1, ActionFits
<1>6. QED  BY <1>3, <1>4, <1>5 DEF m, v

-----------------------------------------------------------------------------
(* The mods, in MCAccount.                                                  *)

LEMMA ModsPartInv == Spec => [](part = "mods" => ModsInv)
<1>1. Init => (part = "mods" => ModsInv)
    BY ModsInitInv DEF Init
<1>2. (part = "mods" => ModsInv) /\ [Next]_userVars => (part = "mods" => ModsInv)'
    <2>1. SUFFICES ASSUME part = "mods" => ModsInv, [Next]_userVars, part' = "mods"
                   PROVE  ModsInv'
        OBVIOUS
    <2>2. part = "mods"
        BY <2>1 DEF Next, OthersStay, userVars
    <2>3. [ModsPart!ModsNext]_(ModsPart!modvars)
        BY <2>1, <2>2 DEF Next, userVars, modVars, ModsPart!modvars
    <2>4. QED  BY <2>1, <2>2, <2>3, ModsNextInv
<1>3. QED  BY <1>1, <1>2, PTL DEF Spec

\* However many keymods there are: what the filter leaves of a combination is
\* valid, a valid one is left alone, and what a session shows is a mode that is
\* used, with the mods that make it (mods.py:65-126, gamemodes.py:50-66).
THEOREM ModsAreValidAlways == Spec => []ModsAreValid
<1>1. (part = "mods" => ModsInv) => ModsAreValid
    BY ModsHold DEF ModsAreValid
<1>2. QED  BY <1>1, ModsPartInv, PTL

-----------------------------------------------------------------------------
(* Leaderboards.                                                            *)

\* What a request has found is what the queries give now, unless it was disturbed.
Listed(q) == \E l \in BoardPart!Ordered(BoardPart!Rows(q)) : q.rows = BoardPart!Shown(l)
Shape == {"at", "user", "board", "mods", "rows", "value", "rank", "steady"}
Underway(q) ==
    /\ DOMAIN q = Shape
    /\ q.user \in User /\ q.board \in BoardPart!Board
    /\ q.at \in {"find", "filename", "list", "best", "rank", "replied"}
    /\ q.at # "replied" => q.rank = 0
    /\ q.at \in {"best", "rank"} /\ q.steady => Listed(q)
    /\ q.at = "rank" /\ q.steady => best[q.user] # Nothing /\ q.value = best[q.user].value
    /\ q.at = "replied" /\ q.rank > 0 /\ q.steady => BoardPart!Fits(q)

BoardInv ==
    /\ best \in [User -> Score \cup {Nothing}] /\ banned \subseteq User
    /\ DOMAIN request = Request
    /\ \A r \in Request : request[r] = BoardPart!Idle \/ Underway(request[r])

\* The instance counts as FiniteSets does.
LEMMA BoardCounts == \A S : BoardPart!Cardinality(S) = Cardinality(S)
BY DEF BoardPart!Cardinality, Cardinality

\* ORDER BY gives every row once.
LEMMA OrderedIsAll ==
    ASSUME NEW U, IsFiniteSet(U), NEW l \in BoardPart!Ordered(U)
    PROVE  /\ Cardinality(U) \in Nat /\ DOMAIN l = 1..Cardinality(U)
           /\ \A i \in DOMAIN l : l[i] \in U
           /\ \A i, j \in DOMAIN l : l[i] = l[j] => i = j
           /\ \A u \in U : \E i \in DOMAIN l : l[i] = u
<1>1. PICK n : n = Cardinality(U)
    OBVIOUS
<1>2. n \in Nat
    BY <1>1, FS_CardinalityType
<1>3. l \in [1..n -> U] /\ DOMAIN l = 1..n
    BY <1>1, BoardCounts DEF BoardPart!Ordered
<1>4. \A i, j \in 1..n : i < j => l[i] # l[j]
    BY <1>1, <1>3, BoardCounts DEF BoardPart!Ordered
<1>5. \A i, j \in 1..n : l[i] = l[j] => i = j
    BY <1>2, <1>4
<1>6. l \in Injection(1..n, U)
    BY <1>3, <1>5 DEF Injection, IsInjective
<1>7. Cardinality(1..n) = n
    BY <1>2, FS_Interval
<1>8. l \in Surjection(1..n, U)
    BY <1>1, <1>6, <1>7, FS_Injection
<1>9. QED  BY <1>1, <1>2, <1>3, <1>5, <1>8 DEF Surjection

\* The queries of an undisturbed request fit.
LEMMA QueriesFit ==
    ASSUME BoardInv, NEW q, Listed(q), q.user \in User, q.board \in BoardPart!Board, best[q.user] # Nothing,
           q.value = best[q.user].value, q.rank = 1 + Cardinality(BoardPart!Before(q.value))
    PROVE  BoardPart!Fits(q)
<1>1. PICK U : U = BoardPart!Rows(q)
    OBVIOUS
<1>2. PICK l \in BoardPart!Ordered(U) : q.rows = BoardPart!Shown(l)
    BY <1>1 DEF Listed
<1>3. U \subseteq User /\ \A u \in U : best[u] \in Score /\ best[u].value \in Nat
    BY <1>1, BoardAssumption DEF BoardPart!Rows, BoardPart!Ranked, BoardInv
<1>4. IsFiniteSet(U)
    BY <1>3, BoardAssumption, FS_Subset
<1>5. PICK n \in Nat : n = Cardinality(U)
    BY <1>4, FS_CardinalityType
<1>6. /\ DOMAIN l = 1..n
      /\ \A i \in 1..n : l[i] \in U
      /\ \A i, j \in 1..n : l[i] = l[j] => i = j
      /\ \A u \in U : \E i \in 1..n : l[i] = u
    BY <1>4, <1>5, OrderedIsAll
<1>7. \A i, j \in 1..n : i < j => ~(best[l[j]].value > best[l[i]].value)
    BY <1>6 DEF BoardPart!Ordered, BoardPart!Beats
<1>8. PICK v \in Nat : v = q.value
    BY BoardAssumption DEF BoardInv
<1>9. PICK D : D = {i \in 1..n : i =< Limit}
    OBVIOUS
<1>10. /\ DOMAIN q.rows = D
       /\ \A i \in D : q.rows[i].user = l[i] /\ q.rows[i].value = best[l[i]].value
    BY <1>2, <1>6, <1>9 DEF BoardPart!Shown
<1> DEFINE Mine  == {i \in DOMAIN q.rows : q.rows[i].user = q.user}
           Over == {i \in DOMAIN q.rows : q.rows[i].value > q.value}
           Bef == BoardPart!Before(q.value)
<1>11. \A i \in Mine : q.rows[i].value = q.value
    BY <1>10
<1>12. Bef \subseteq User /\ IsFiniteSet(Bef) /\ Cardinality(Bef) \in Nat
    <2>1. Bef \subseteq User
        BY DEF BoardPart!Before, BoardPart!Ranked
    <2> HIDE DEF Bef
    <2>2. QED  BY <2>1, BoardAssumption, FS_Subset, FS_CardinalityType
<1>13. \A i \in Over : i \in D /\ i \in 1..n /\ l[i] \in Bef
    <2> SUFFICES ASSUME NEW i \in Over PROVE i \in D /\ i \in 1..n /\ l[i] \in Bef
        OBVIOUS
    <2>1. i \in D /\ i \in 1..n /\ l[i] \in U /\ best[l[i]].value > v
        BY <1>6, <1>8, <1>9, <1>10
    <2>2. l[i] # q.user
        BY <1>8, <2>1
    <2>3. l[i] \in BoardPart!Ranked /\ l[i] \notin banned
        BY <1>1, <2>1, <2>2 DEF BoardPart!Rows
    <2>4. QED  BY <1>8, <2>1, <2>3 DEF BoardPart!Before, BoardPart!Beats
<1> DEFINE f == [i \in Over |-> l[i]]
<1>14. f \in Injection(Over, Bef)
    <2> HIDE DEF Over, Bef
    <2>1. f \in [Over -> Bef]
        BY <1>13
    <2>2. \A i, j \in Over : f[i] = f[j] => i = j
        BY <1>6, <1>13
    <2>3. QED  BY <2>1, <2>2 DEF Injection, IsInjective
<1> HIDE DEF f
<1>15. /\ IsFiniteSet(Over) /\ Cardinality(Over) \in Nat /\ Cardinality(Over) =< Cardinality(Bef)
       /\ f \in Surjection(Over, Bef) => Cardinality(Over) = Cardinality(Bef)
    <2> HIDE DEF Over, Bef
    <2>1. IsFiniteSet(Over) /\ Cardinality(Over) =< Cardinality(Bef)
        BY <1>12, <1>14, FS_Injection
    <2>2. f \in Surjection(Over, Bef) => Cardinality(Over) = Cardinality(Bef)
        BY <1>12, <1>14, FS_Injection
    <2>3. QED  BY <2>1, <2>2, FS_CardinalityType
<1>16. \A i \in Mine : Cardinality(Over) < q.rank
    <2> HIDE DEF Over, Bef, Mine
    <2>1. q.rank = 1 + Cardinality(Bef)
        BY DEF Bef
    <2>2. QED  BY <1>12, <1>15, <2>1
<1>17. ASSUME q.board = "top" PROVE q.user \in U /\ \A u \in Bef : u \in U
    BY <1>1, <1>17 DEF BoardPart!Rows, BoardPart!OnBoard, BoardPart!Before, BoardPart!Ranked
<1>18. ASSUME q.board = "top", Mine # {} PROVE Cardinality(Over) = q.rank - 1
    <2>1. PICK i \in D : l[i] = q.user /\ i \in 1..n
        BY <1>9, <1>10, <1>18
    <2>2. ASSUME NEW u \in Bef PROVE \E j \in Over : f[j] = u
        <3>1. u \in U
            BY <1>17, <1>18
        <3>2. best[u].value > v
            BY <1>8 DEF BoardPart!Before, BoardPart!Beats
        <3>3. PICK j \in 1..n : l[j] = u
            BY <1>6, <3>1
        <3>4. best[u].value \in Nat /\ best[q.user].value = v
            BY <1>3, <1>8, <3>1
        <3>5. j < i
            <4>1. i \in Int /\ j \in Int
                BY <2>1, <3>3
            <4>2. ~(i < j)
                BY <1>7, <2>1, <3>2, <3>3, <3>4
            <4>3. i # j
                BY <2>1, <3>2, <3>3, <3>4
            <4>4. QED  BY <4>1, <4>2, <4>3
        <3>6. j \in D
            BY <1>9, <2>1, <3>5, BoardAssumption
        <3>7. j \in Over
            BY <1>8, <1>10, <3>2, <3>3, <3>6
        <3>8. QED  BY <3>3, <3>7 DEF f
    <2>3. f \in Surjection(Over, Bef)
        <3> HIDE DEF Over, Bef
        <3>1. f \in [Over -> Bef]
            BY <1>14 DEF Injection
        <3>2. QED  BY <2>2, <3>1 DEF Surjection
    <2>4. q.rank = 1 + Cardinality(Bef)
        OBVIOUS
    <2> HIDE DEF Over, Bef
    <2>5. QED  BY <1>12, <1>15, <2>3, <2>4
<1>19. ASSUME q.board = "top", Mine = {} PROVE Len(q.rows) = Limit
    <2>1. PICK k \in 1..n : l[k] = q.user
        BY <1>6, <1>17, <1>19
    <2>2. k \notin D
        BY <1>10, <1>19, <2>1
    <2>3. k > Limit
        BY <1>9, <2>1, <2>2, BoardAssumption
    <2>4. D = 1..Limit
        BY <1>9, <2>1, <2>3, BoardAssumption
    <2>5. PICK list : list = q.rows
        OBVIOUS
    <2>6. DOMAIN list = 1..Limit
        BY <1>10, <2>4, <2>5
    <2>7. list = [i \in 1..Limit |-> list[i]]
        <3>1. q.rows = [i \in {m \in DOMAIN l : m <= Limit} |-> [user |-> l[i], value |-> best[l[i]].value]]
            BY <1>2 DEF BoardPart!Shown
        <3>2. {m \in DOMAIN l : m <= Limit} = 1..Limit
            BY <1>6, <1>9, <2>4
        <3>3. QED  BY <2>5, <3>1, <3>2
    <2>8. list \in [1..Limit -> {list[i] : i \in 1..Limit}]
        BY <2>7
    <2>9. Len(list) = Limit
        BY <2>8, BoardAssumption
    <2>10. QED  BY <2>5, <2>9
<1>20. QED  BY <1>11, <1>16, <1>18, <1>19, BoardCounts DEF BoardPart!Fits

\* What is listed stays so while neither scores nor restrictions change.
LEMMA ListedStays ==
    ASSUME UNCHANGED <<best, banned>>, NEW q, NEW o, Listed(q),
           o.rows = q.rows, o.user = q.user, o.board = q.board, o.mods = q.mods
    PROVE  Listed(o)'
<1>1. BoardPart!Rows(o)' = BoardPart!Rows(q)
    BY DEF BoardPart!Rows, BoardPart!OnBoard, BoardPart!Ranked
<1>2. \A U : BoardPart!Ordered(U)' = BoardPart!Ordered(U)
    BY DEF BoardPart!Ordered, BoardPart!Beats
<1>3. PICK l \in BoardPart!Ordered(BoardPart!Rows(q)) : q.rows = BoardPart!Shown(l)
    BY DEF Listed
<1>4. BoardPart!Shown(l)' = BoardPart!Shown(l)
    BY DEF BoardPart!Shown
<1>5. l \in BoardPart!Ordered(BoardPart!Rows(o))'
    BY <1>1, <1>2, <1>3
<1>6. QED  BY <1>3, <1>4, <1>5 DEF Listed

\* A step of one request that is still under way.
LEMMA RequestStep ==
    ASSUME BoardInv, NEW r \in Request, UNCHANGED <<best, banned>>, NEW to,
           request' = [request EXCEPT ![r] = to], Underway(to)'
    PROVE  BoardInv'
<1>1. DOMAIN request' = Request /\ request'[r] = to /\ \A s \in Request \ {r} : request'[s] = request[s]
    BY DEF BoardInv
<1>2. ASSUME NEW s \in Request, s # r, Underway(request[s]) PROVE Underway(request[s])'
    <2>1. PICK q : q = request[s] /\ q = request'[s]
        BY <1>1, <1>2
    <2>2. Underway(q)
        BY <1>2, <2>1
    <2>3. Listed(q) => Listed(q)'
        BY ListedStays
    <2>4. BoardPart!Fits(q) => BoardPart!Fits(q)'
        BY DEF BoardPart!Fits
    <2>5. Underway(q)'
        BY <2>2, <2>3, <2>4 DEF Underway
    <2>6. QED  BY <2>1, <2>5
<1>3. ASSUME NEW s \in Request PROVE request'[s] = BoardPart!Idle \/ Underway(request[s])'
    <2>1. CASE s = r
        BY <1>1, <2>1
    <2>2. CASE s # r
        BY <1>1, <1>2, <2>2 DEF BoardInv
    <2>3. QED  BY <2>1, <2>2
<1>4. BoardPart!Idle' = BoardPart!Idle
    BY DEF BoardPart!Idle
<1>5. QED  BY <1>1, <1>3, <1>4 DEF BoardInv

\* A request that goes on without anything to show for it.
LEMMA PlainStep ==
    ASSUME BoardInv, NEW r \in Request, UNCHANGED <<best, banned>>,
           request[r].at \in {"find", "filename", "list", "best"}, NEW at \in {"filename", "list", "replied"},
           BoardPart!Goes(r, at)
    PROVE  BoardInv'
<1>1. Underway(request[r])
    BY DEF BoardInv, BoardPart!Idle
<1>2. PICK q : q = request[r]
    OBVIOUS
<1>3. PICK o : o = [q EXCEPT !.at = at]
    OBVIOUS
<1>4. Underway(q)
    BY <1>1, <1>2
<1>5. /\ DOMAIN o = Shape /\ o.at = at /\ o.user = q.user /\ o.board = q.board /\ o.rank = q.rank
      /\ q.rank = 0
    BY <1>2, <1>3, <1>4 DEF Underway, Shape
<1>6. Underway(o)'
    BY <1>4, <1>5 DEF Underway
<1>7. request' = [request EXCEPT ![r] = o]
    BY <1>2, <1>3 DEF BoardPart!Goes, BoardInv
<1>8. QED  BY <1>6, <1>7, RequestStep

LEMMA ListsKeeps ==
    ASSUME BoardInv, NEW r \in Request, BoardPart!Lists(r)
    PROVE  BoardInv'
<1>1. PICK q : q = request[r]
    OBVIOUS
<1>2. Underway(q) /\ q.at = "list"
    BY <1>1 DEF BoardInv, BoardPart!Idle, BoardPart!Lists
<1>3. PICK l \in BoardPart!Ordered(BoardPart!Rows(q)) :
          request' = [request EXCEPT ![r] =
              [@ EXCEPT !.at = IF l = <<>> THEN "replied" ELSE "best", !.rows = BoardPart!Shown(l), !.steady = TRUE]]
    BY <1>1 DEF BoardPart!Lists
<1>4. PICK at \in {"replied", "best"} : at = IF l = <<>> THEN "replied" ELSE "best"
    OBVIOUS
<1>5. PICK list : list = BoardPart!Shown(l)
    OBVIOUS
<1>6. PICK o : o = [q EXCEPT !.at = at, !.rows = list, !.steady = TRUE]
    OBVIOUS
<1>7. /\ DOMAIN o = Shape /\ o.at = at /\ o.user = q.user /\ o.board = q.board /\ o.rank = q.rank
      /\ o.mods = q.mods /\ o.rows = list
    BY <1>2, <1>6 DEF Underway, Shape
<1>8. Listed(o)
    <2>1. BoardPart!Rows(o) = BoardPart!Rows(q)
        BY <1>7 DEF BoardPart!Rows, BoardPart!OnBoard
    <2>2. QED  BY <1>5, <1>7, <2>1 DEF Listed
<1>9. UNCHANGED <<best, banned>>
    BY DEF BoardPart!Lists
<1>10. Listed(o)'
    BY <1>8, <1>9, ListedStays
<1>11. q.rank = 0
    BY <1>2 DEF Underway
<1>12. Underway(o)'
    BY <1>2, <1>7, <1>10, <1>11 DEF Underway
<1>13. request' = [request EXCEPT ![r] = o]
    BY <1>1, <1>3, <1>4, <1>5, <1>6 DEF BoardInv
<1>14. QED  BY <1>9, <1>12, <1>13, RequestStep

LEMMA BestKeeps ==
    ASSUME BoardInv, NEW r \in Request, BoardPart!PersonalBest(r)
    PROVE  BoardInv'
<1>1. PICK q : q = request[r]
    OBVIOUS
<1>2. Underway(q) /\ q.at = "best" /\ UNCHANGED <<best, banned>>
    BY <1>1 DEF BoardInv, BoardPart!Idle, BoardPart!PersonalBest
<1>3. CASE best[q.user] = Nothing
    <2>1. BoardPart!Goes(r, "replied")
        BY <1>1, <1>3 DEF BoardPart!PersonalBest
    <2>2. QED  BY <1>1, <1>2, <2>1, PlainStep
<1>4. CASE best[q.user] # Nothing
    <2>1. PICK v : v = best[q.user].value
        OBVIOUS
    <2>2. PICK o : o = [q EXCEPT !.at = "rank", !.value = v]
        OBVIOUS
    <2>3. /\ DOMAIN o = Shape /\ o.at = "rank" /\ o.user = q.user /\ o.board = q.board /\ o.rank = q.rank
          /\ o.mods = q.mods /\ o.rows = q.rows /\ o.value = v /\ o.steady = q.steady
        BY <1>2, <2>2 DEF Underway, Shape
    <2>4. request' = [request EXCEPT ![r] = o]
        BY <1>1, <1>4, <2>1, <2>2 DEF BoardPart!PersonalBest, BoardInv
    <2>5. q.steady => Listed(o)'
        BY <1>2, <2>3, ListedStays DEF Underway
    <2>6. q.rank = 0
        BY <1>2 DEF Underway
    <2>7. Underway(o)'
        BY <1>2, <1>4, <2>1, <2>3, <2>5, <2>6 DEF Underway
    <2>8. QED  BY <1>2, <2>4, <2>7, RequestStep
<1>5. QED  BY <1>3, <1>4

LEMMA RanksKeeps ==
    ASSUME BoardInv, NEW r \in Request, BoardPart!Ranks(r)
    PROVE  BoardInv'
<1>1. PICK q : q = request[r]
    OBVIOUS
<1>2. Underway(q) /\ q.at = "rank" /\ UNCHANGED <<best, banned>>
    BY <1>1 DEF BoardInv, BoardPart!Idle, BoardPart!Ranks
<1>3. PICK n : n = 1 + Cardinality(BoardPart!Before(q.value))
    OBVIOUS
<1>4. PICK o : o = [q EXCEPT !.at = "replied", !.rank = n]
    OBVIOUS
<1>5. /\ DOMAIN o = Shape /\ o.at = "replied" /\ o.user = q.user /\ o.board = q.board /\ o.rank = n
      /\ o.mods = q.mods /\ o.rows = q.rows /\ o.value = q.value /\ o.steady = q.steady
    BY <1>2, <1>4 DEF Underway, Shape
<1>6. request' = [request EXCEPT ![r] = o]
    BY <1>1, <1>3, <1>4, BoardCounts DEF BoardPart!Ranks, BoardInv
<1>7. o.steady => BoardPart!Fits(o)
    <2> SUFFICES ASSUME q.steady PROVE BoardPart!Fits(o)
        BY <1>5
    <2>1. Listed(q) /\ best[q.user] # Nothing /\ q.value = best[q.user].value
        BY <1>2 DEF Underway
    <2>2. Listed(o)
        <3>1. BoardPart!Rows(o) = BoardPart!Rows(q)
            BY <1>5 DEF BoardPart!Rows, BoardPart!OnBoard
        <3>2. QED  BY <1>5, <2>1, <3>1 DEF Listed
    <2>3. o.rank = 1 + Cardinality(BoardPart!Before(o.value))
        BY <1>3, <1>5
    <2>4. o.user \in User /\ o.board \in BoardPart!Board
        BY <1>2, <1>5 DEF Underway
    <2>5. QED  BY <1>5, <2>1, <2>2, <2>3, <2>4, QueriesFit
<1>8. o.steady => BoardPart!Fits(o)'
    BY <1>7 DEF BoardPart!Fits
<1>9. Underway(o)'
    BY <1>2, <1>5, <1>8 DEF Underway
<1>10. QED  BY <1>2, <1>6, <1>9, RequestStep

LEMMA AskKeeps ==
    ASSUME BoardInv, NEW r \in Request, NEW u \in User, NEW b \in BoardPart!Board, NEW m \in Mods, BoardPart!getScores(r, u, b, m)
    PROVE  BoardInv'
<1>1. PICK o : o = [at |-> "find", user |-> u, board |-> b, mods |-> m, rows |-> <<>>, value |-> Nothing,
                    rank |-> 0, steady |-> FALSE]
    OBVIOUS
<1>2. Underway(o)'
    BY <1>1 DEF Underway, Shape
<1>3. request' = [request EXCEPT ![r] = o] /\ UNCHANGED <<best, banned>>
    BY <1>1 DEF BoardPart!getScores
<1>4. QED  BY <1>2, <1>3, RequestStep

\* Whoever is at work has been disturbed, and who has an answer has it.
LEMMA DisturbedKeeps ==
    ASSUME BoardInv, BoardPart!Disturbed, best' \in [User -> Score \cup {Nothing}], banned' \subseteq User
    PROVE  BoardInv'
<1>1. DOMAIN request' = Request
    BY DEF BoardPart!Disturbed
<1>2. ASSUME NEW s \in Request, request[s] # BoardPart!Idle PROVE Underway(request[s])'
    <2>1. PICK q : q = request[s]
        OBVIOUS
    <2>2. Underway(q) /\ q.at # "idle"
        BY <1>2, <2>1 DEF BoardInv, Underway
    <2>3. CASE q.at = "replied"
        <3>1. request'[s] = q
            BY <2>1, <2>3 DEF BoardPart!Disturbed, BoardPart!Busy
        <3>2. BoardPart!Fits(q) => BoardPart!Fits(q)'
            BY DEF BoardPart!Fits
        <3>3. Underway(q)'
            BY <2>2, <2>3, <3>2 DEF Underway
        <3>4. QED  BY <3>1, <3>3
    <2>4. CASE q.at # "replied"
        <3>1. PICK o : o = [q EXCEPT !.steady = FALSE]
            OBVIOUS
        <3>2. request'[s] = o
            BY <2>1, <2>2, <2>4, <3>1 DEF BoardPart!Disturbed, BoardPart!Busy
        <3>3. /\ DOMAIN o = Shape /\ o.at = q.at /\ o.user = q.user /\ o.board = q.board /\ o.rank = q.rank
              /\ o.steady = FALSE
            BY <2>2, <3>1 DEF Underway, Shape
        <3>4. Underway(o)'
            BY <2>2, <2>4, <3>3 DEF Underway
        <3>5. QED  BY <3>2, <3>4
    <2>5. QED  BY <2>3, <2>4
<1>3. ASSUME NEW s \in Request, request[s] = BoardPart!Idle PROVE request'[s] = BoardPart!Idle
    BY <1>3 DEF BoardPart!Disturbed, BoardPart!Busy, BoardPart!Idle
<1>4. BoardPart!Idle' = BoardPart!Idle
    BY DEF BoardPart!Idle
<1>5. QED  BY <1>1, <1>2, <1>3, <1>4 DEF BoardInv

LEMMA BoardInitInv == BoardPart!LeaderboardsInit => BoardInv
BY DEF BoardPart!LeaderboardsInit, BoardInv

LEMMA BoardNextInv == BoardInv /\ [BoardPart!LeaderboardsNext]_(BoardPart!lvars) => BoardInv'
<1> SUFFICES ASSUME BoardInv, [BoardPart!LeaderboardsNext]_(BoardPart!lvars) PROVE BoardInv'
    OBVIOUS
<1>1. CASE UNCHANGED BoardPart!lvars
    <2>1. UNCHANGED <<best, banned, request>>
        BY <1>1 DEF BoardPart!lvars
    <2>2. ASSUME NEW s \in Request, Underway(request[s]) PROVE Underway(request[s])'
        <3>1. PICK q : q = request[s] /\ q = request'[s]
            BY <2>1
        <3>2. Underway(q) /\ (Listed(q) => Listed(q)') /\ (BoardPart!Fits(q) => BoardPart!Fits(q)')
            BY <2>1, <2>2, <3>1, ListedStays DEF BoardPart!Fits
        <3>3. Underway(q)'
            BY <2>1, <3>2 DEF Underway
        <3>4. QED  BY <3>1, <3>3
    <2>3. BoardPart!Idle' = BoardPart!Idle
        BY DEF BoardPart!Idle
    <2>4. QED  BY <2>1, <2>2, <2>3 DEF BoardInv
<1>2. ASSUME NEW r \in Request, BoardPart!FindsMap(r) \/ BoardPart!FindsNothing(r) \/ BoardPart!FindsFilename(r) PROVE BoardInv'
    <2>1. /\ UNCHANGED <<best, banned>> /\ request[r].at \in {"find", "filename"}
          /\ \E at \in {"filename", "list", "replied"} : BoardPart!Goes(r, at)
        BY <1>2 DEF BoardPart!FindsMap, BoardPart!FindsNothing, BoardPart!FindsFilename, BoardPart!Remembers
    <2>2. QED  BY <2>1, PlainStep
<1>3. ASSUME NEW r \in Request, BoardPart!RequestNext(r) PROVE BoardInv'
    BY <1>2, <1>3, AskKeeps, ListsKeeps, BestKeeps, RanksKeeps DEF BoardPart!RequestNext
<1>4. ASSUME NEW u \in User, BoardPart!Submits(u) PROVE BoardInv'
    <2>1. best' \in [User -> Score \cup {Nothing}] /\ banned' \subseteq User /\ BoardPart!Disturbed
        BY <1>4 DEF BoardPart!Submits, BoardInv
    <2>2. QED  BY <2>1, DisturbedKeeps
<1>5. ASSUME NEW u \in User, BoardPart!Restricts(u) PROVE BoardInv'
    <2>1. best' \in [User -> Score \cup {Nothing}] /\ banned' \subseteq User /\ BoardPart!Disturbed
        BY <1>5 DEF BoardPart!Restricts, BoardInv
    <2>2. QED  BY <2>1, DisturbedKeeps
<1>6. CASE BoardPart!Restart
    <2>1. request' = [r \in Request |-> BoardPart!Idle] /\ UNCHANGED <<best, banned>>
        BY <1>6 DEF BoardPart!Restart
    <2>2. QED  BY <2>1 DEF BoardInv, BoardPart!Idle
<1>7. QED  BY <1>1, <1>3, <1>4, <1>5, <1>6 DEF BoardPart!LeaderboardsNext

LEMMA BoardHolds == BoardInv => BoardPart!BoardsAgree
<1> SUFFICES ASSUME BoardInv, NEW r \in Request, request[r].at = "replied", request[r].steady, request[r].rank > 0
             PROVE  BoardPart!Fits(request[r])
    BY DEF BoardPart!BoardsAgree
<1>1. Underway(request[r])
    BY DEF BoardInv, BoardPart!Idle
<1>2. QED  BY <1>1 DEF Underway

-----------------------------------------------------------------------------
(* The leaderboard, in MCAccount.                                           *)

LEMMA BoardPartInv == Spec => [](part = "board" => BoardInv)
<1>1. Init => (part = "board" => BoardInv)
    BY BoardInitInv DEF Init
<1>2. (part = "board" => BoardInv) /\ [Next]_userVars => (part = "board" => BoardInv)'
    <2>1. SUFFICES ASSUME part = "board" => BoardInv, [Next]_userVars, part' = "board"
                   PROVE  BoardInv'
        OBVIOUS
    <2>2. part = "board"
        BY <2>1 DEF Next, OthersStay, userVars
    <2>3. [BoardPart!LeaderboardsNext]_(BoardPart!lvars)
        BY <2>1, <2>2 DEF Next, userVars, boardVars, BoardPart!lvars
    <2>4. QED  BY <2>1, <2>2, <2>3, BoardNextInv
<1>3. QED  BY <1>1, <1>2, PTL DEF Spec

\* However many users, scores and requests there are, and however short the board:
\* the rows, the personal best and the rank that a player is shown fit, unless
\* scores or restrictions changed between the queries (osu.py:1223-1312).
THEOREM BoardsAgreeAlways == Spec => []BoardsAgree
<1>1. (part = "board" => BoardInv) => BoardsAgree
    BY BoardHolds DEF BoardsAgree
<1>2. QED  BY <1>1, BoardPartInv, PTL

-----------------------------------------------------------------------------
(* The wire.                                                                *)

LEMMA WirePartInv == Spec => [](part = "wire" => WireInv)
<1>1. Init => (part = "wire" => WireInv)
    BY WireInvInit DEF Init
<1>2. (part = "wire" => WireInv) /\ [Next]_userVars => (part = "wire" => WireInv)'
    <2>1. SUFFICES ASSUME part = "wire" => WireInv, [Next]_userVars, part' = "wire"
                   PROVE  WireInv'
        OBVIOUS
    <2>2. part = "wire"
        BY <2>1 DEF Next, OthersStay, userVars
    <2>3. [PacketsNext]_wvars
        BY <2>1, <2>2 DEF Next, userVars
    <2>4. WireInv
        BY <2>1, <2>2
    <2>5. QED  BY <2>3, <2>4, WireAssumption, WireInvNext, WireInvStutters
<1>3. QED  BY <1>1, <1>2, PTL DEF Spec

\* Whatever clients put into a request whose values have room in their fields,
\* however many packets, slots and frames there are: every packet is read as it
\* was meant, and what is written of it is read as what it is about
\* (packets.py:294-820, cho.py:966, 1548).
THEOREM WireIsReadAlways == Spec => []WireIsRead
<1>1. (part = "wire" => WireInv) => WireIsRead
    BY WireInvReads DEF WireIsRead
<1>2. QED  BY <1>1, WirePartInv, PTL

=============================================================================
