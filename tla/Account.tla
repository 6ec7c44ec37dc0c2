------------------------------ MODULE Account ------------------------------
(***************************************************************************)
(* One account: its row in the database, the sessions that cache the row,  *)
(* the commands of the staff that change both, its mail and its place on   *)
(* the leaderboards.                                                       *)
(*                                                                         *)
(* A login, a command and a private message are tasks that give way at     *)
(* every await.  A command works on the session it found in `players`, or  *)
(* on a player it read from the database; the latter is named after the    *)
(* task that holds it.  An object nobody refers to any more is collected   *)
(* and used again.                                                         *)
(*                                                                         *)
(* Left out: passwords and hardware (a login may fail whenever they are    *)
(* looked at), tournament clients, how long a silence lasts, and the audit  *)
(* webhook.                                                                *)
(***************************************************************************)
EXTENDS Naturals, FiniteSets

CONSTANTS
    Session,       \* player objects of logins
    Task,          \* commands at work, and the player each may have read
    Msg,           \* private messages to the account, from one sender
    OtherPriv      \* privileges that nothing here looks at

ASSUME ObjectAssumption == Session \cap Task = {}

Priv   == {"NORMAL", "VERIFIED"} \cup OtherPriv
Object == Session \cup Task
Player == [priv : SUBSET Priv, restricted : BOOLEAN, silenced : BOOLEAN]

VARIABLES
    row,           \* of `users`: priv, and silence_end as `silenced`
    obj,           \* player objects; `restricted` as it is cached
    players,       \* the account's sessions in `players`
    gone,          \* sessions whose client has stopped sending
    login,         \* where the login that makes a session has come to
    task,          \* what the commands are doing
    ranked,        \* the account is on the leaderboards
    sending,       \* messages on their way into the database
    unread, read,  \* the rows of `mail`
    shown,         \* messages that were sent to a session (history)
    late,          \* messages stored or kept back behind a session's back (history)
    careful        \* see Careful (history)

account == <<row, ranked>>
avars   == <<account, obj, players, gone, login, task, sending, unread, read, shown, late, careful>>

Idle == [kind |-> "idle"]
AccountTypeOK ==
    /\ row \in [priv : SUBSET Priv, silenced : BOOLEAN]
    /\ obj \in [Object -> Player]
    /\ players \subseteq Session /\ gone \subseteq Session
    /\ login \in [Session -> {"none", "row", "loading", "mail", "verify", "append"}]
    /\ ranked \in BOOLEAN /\ careful \in BOOLEAN
    /\ \A set \in {sending, unread, read, shown, late} : set \subseteq Msg

LoggingIn == {s \in Session : login[s] # "none"}
Busy      == {t \in Task : task[t] # Idle}
Settled   == LoggingIn = {} /\ Busy = {}

\* Care is taken while commands about the account come one at a time, with no
\* login, score or restart meanwhile, nobody uses !addpriv or !rmpriv for
\* NORMAL, which tell neither the cached `restricted` nor the leaderboards, and
\* restricted players submit no scores, which bring them back on the latter.
Careful(otherwise) == careful' = (careful /\ otherwise)

Fresh(r) == [priv |-> r.priv, restricted |-> "NORMAL" \notin r.priv, silenced |-> r.silenced]

Blank == [priv |-> {}, restricted |-> TRUE, silenced |-> FALSE]
Collected(objects) == [o \in Object |->
    IF o \in players' \/ (o \in Session /\ login'[o] # "none") \/ \E t \in Task : task'[t] # Idle /\ task'[t].on = o
    THEN objects[o] ELSE Blank]

-----------------------------------------------------------------------------
(* Sessions.                                                                *)

logout(s) == players' = players \ {s} /\ gone' = gone \ {s}

\* LOGOUT, !reconnect, !changename.
Logout(s) ==
    /\ s \in players \ gone
    /\ logout(s)
    /\ UNCHANGED <<account, login, task, sending, unread, read, shown, late, careful>>
    /\ obj' = Collected(obj)

\* The client crashes or loses its network.
Vanish(s) ==
    /\ s \in players
    /\ gone' = gone \cup {s}
    /\ UNCHANGED <<account, obj, players, login, task, sending, unread, read, shown, late, careful>>

\* Mutant: restricted players are overlooked.
Disconnect_Unrestricted(s) ==
    /\ s \in players \cap gone /\ ~obj[s].restricted
    /\ logout(s)
    /\ UNCHANGED <<account, login, task, sending, unread, read, shown, late, careful>>
    /\ obj' = Collected(obj)
\* A pass of the loop may step over a ghost, the next one does not.
Disconnect(s) ==
    /\ s \in players \cap gone
    /\ logout(s)
    /\ UNCHANGED <<account, login, task, sending, unread, read, shown, late, careful>>
    /\ obj' = Collected(obj)

-----------------------------------------------------------------------------
(* Logging in.                                                              *)

\* Mutant: without players._lock.
LockFree_Always == TRUE
\* players._lock, held from before login to its end.
LockFree == LoggingIn = {}

\* A session that has been silent gives way to the new one.
LoginStarts(s) ==
    /\ LockFree /\ login[s] = "none" /\ s \notin players
    /\ \A t \in Busy : task[t].on # s
    /\ players \subseteq gone
    /\ players' = {} /\ gone' = {}
    /\ login' = [login EXCEPT ![s] = "row"]
    /\ Careful(Busy = {})
    /\ UNCHANGED <<account, task, sending, unread, read, shown, late>>
    /\ obj' = Collected(obj)

LoginReads(s) ==
    /\ login[s] = "row"
    /\ obj' = [obj EXCEPT ![s] = Fresh(row)]
    /\ login' = [login EXCEPT ![s] = "loading"]
    /\ UNCHANGED <<account, players, gone, task, sending, unread, read, shown, late, careful>>

\* Unknown name, wrong password, hardware of a banned account.
LoginFails(s) ==
    /\ login[s] \in {"row", "loading"}
    /\ login' = [login EXCEPT ![s] = "none"]
    /\ UNCHANGED <<account, players, gone, task, sending, unread, read, shown, late, careful>>
    /\ obj' = Collected(obj)

\* Achievements, stats and relationships are there.
LoginLoads(s) ==
    /\ login[s] = "loading"
    /\ login' = [login EXCEPT ![s] = IF obj[s].restricted THEN "append" ELSE "mail"]
    /\ late' = IF obj[s].restricted THEN late \cup unread ELSE late
    /\ UNCHANGED <<account, obj, players, gone, task, sending, unread, read, shown, careful>>

\* The first login verifies: add_privs.  Mutant: mail is for the verified.
LoginMail_Verified(s) ==
    /\ login[s] = "mail"
    /\ LET first == "VERIFIED" \notin obj[s].priv
       IN  /\ obj' = IF first THEN [obj EXCEPT ![s].priv = @ \cup {"VERIFIED"}] ELSE obj
           /\ login' = [login EXCEPT ![s] = IF first THEN "verify" ELSE "append"]
           /\ shown' = IF first THEN shown ELSE shown \cup unread
    /\ UNCHANGED <<account, players, gone, task, sending, unread, read, late, careful>>
LoginMail(s) ==
    /\ login[s] = "mail"
    /\ shown' = shown \cup unread
    /\ LET first == "VERIFIED" \notin obj[s].priv
       IN  /\ obj' = IF first THEN [obj EXCEPT ![s].priv = @ \cup {"VERIFIED"}] ELSE obj
           /\ login' = [login EXCEPT ![s] = IF first THEN "verify" ELSE "append"]
    /\ UNCHANGED <<account, players, gone, task, sending, unread, read, late, careful>>

\* All of the row's privileges are written as this session has them.
LoginVerifies(s) ==
    /\ login[s] = "verify"
    /\ row' = [row EXCEPT !.priv = obj[s].priv]
    /\ login' = [login EXCEPT ![s] = "append"]
    /\ UNCHANGED <<ranked, obj, players, gone, task, sending, unread, read, shown, late, careful>>

LoginEnds(s) ==
    /\ login[s] = "append"
    /\ players' = players \cup {s}
    /\ login' = [login EXCEPT ![s] = "none"]
    /\ UNCHANGED <<account, obj, gone, task, sending, unread, read, shown, late, careful>>

-----------------------------------------------------------------------------
(* Commands.  `o` is the player the command works on: from_cache_or_sql.    *)

Target(t, o, player) ==
    /\ task[t] = Idle
    /\ IF players # {} THEN o \in players /\ player = obj[o]
                       ELSE o = t /\ player = Fresh(row)

\* The task writes `priv` or `silenced` when its first await gets through.
Starts(t, kind, o, player) ==
    /\ obj' = [obj EXCEPT ![o] = player]
    /\ task' = [task EXCEPT ![t] = [kind |-> kind, on |-> o, at |-> "write",
                                    priv |-> player.priv, silenced |-> player.silenced]]
    /\ UNCHANGED <<account, players, gone, login, sending, unread, read, shown, late>>

restrict(t) == \E o \in Object : \E p \in {obj[o], Fresh(row)} :
    /\ Target(t, o, p) /\ ~p.restricted
    /\ Starts(t, "restrict", o, [p EXCEPT !.priv = @ \ {"NORMAL"}])
    /\ Careful(Settled)

unrestrict(t) == \E o \in Object : \E p \in {obj[o], Fresh(row)} :
    /\ Target(t, o, p) /\ p.restricted
    /\ Starts(t, "unrestrict", o, [p EXCEPT !.priv = @ \cup {"NORMAL"}])
    /\ Careful(Settled)

addpriv(t, bits) == \E o \in Object : \E p \in {obj[o], Fresh(row)} :
    /\ Target(t, o, p)
    /\ Starts(t, "priv", o, [p EXCEPT !.priv = @ \cup bits])
    /\ Careful(Settled /\ "NORMAL" \notin bits)

\* Of DONATOR this is also what happens when a donation expires.
rmpriv(t, bits) == \E o \in Object : \E p \in {obj[o], Fresh(row)} :
    /\ Target(t, o, p)
    /\ Starts(t, "priv", o, [p EXCEPT !.priv = @ \ bits])
    /\ Careful(Settled /\ "NORMAL" \notin bits)

silence(t) == \E o \in Object : \E p \in {obj[o], Fresh(row)} :
    /\ Target(t, o, p)
    /\ Starts(t, "silence", o, [p EXCEPT !.silenced = TRUE])
    /\ Careful(Settled)

unsilence(t) == \E o \in Object : \E p \in {obj[o], Fresh(row)} :
    /\ Target(t, o, p) /\ p.silenced
    /\ Starts(t, "silence", o, [p EXCEPT !.silenced = FALSE])
    /\ Careful(Settled)

CommandWrites(t) ==
    /\ task[t] # Idle /\ task[t].at = "write"
    /\ row' = IF task[t].kind = "silence" THEN [row EXCEPT !.silenced = task[t].silenced]
                                          ELSE [row EXCEPT !.priv = task[t].priv]
    /\ task' = IF task[t].kind \in {"restrict", "unrestrict"}
               THEN [task EXCEPT ![t].at = "ranks"] ELSE [task EXCEPT ![t] = Idle]
    /\ UNCHANGED <<ranked, players, gone, login, sending, unread, read, shown, late, careful>>
    /\ obj' = Collected(obj)

\* Off the leaderboards, or on them again.
CommandRanks(t) ==
    /\ task[t] # Idle /\ task[t].at = "ranks"
    /\ ranked' = (task[t].kind = "unrestrict")
    /\ task' = [task EXCEPT ![t].at = "finish"]
    /\ UNCHANGED <<row, obj, players, gone, login, sending, unread, read, shown, late, careful>>

\* Only now is the cached `restricted` wiped; the client logs in again.
\* Mutant: the client is not logged out.
CommandFinishes_Quietly(t) ==
    /\ task[t] # Idle /\ task[t].at = "finish"
    /\ task' = [task EXCEPT ![t] = Idle]
    /\ UNCHANGED <<account, players, gone, login, sending, unread, read, shown, late, careful>>
    /\ obj' = Collected(obj)
CommandFinishes(t) == LET o == task[t].on IN
    /\ task[t] # Idle /\ task[t].at = "finish"
    /\ IF o \in players THEN logout(o) ELSE UNCHANGED <<players, gone>>
    /\ task' = [task EXCEPT ![t] = Idle]
    /\ UNCHANGED <<account, login, sending, unread, read, shown, late, careful>>
    /\ obj' = Collected([obj EXCEPT ![o].restricted = "NORMAL" \notin obj[o].priv])

\* A score updates the player's rank, a restricted player's, too.
update_rank(s) ==
    /\ s \in players \ gone
    /\ ranked' = TRUE
    /\ Careful(Busy = {} /\ ~obj[s].restricted)
    /\ UNCHANGED <<row, obj, players, gone, login, task, sending, unread, read, shown, late>>

-----------------------------------------------------------------------------
(* Mail.                                                                    *)

\* To a session at once; the database gets the message either way.
SendPrivateMessage(m) ==
    /\ m \notin sending \cup unread \cup read \cup shown
    /\ IF players # {}
       THEN \E s \in players : ~obj[s].silenced /\ shown' = shown \cup {m}
       ELSE ~row.silenced /\ UNCHANGED shown
    /\ sending' = sending \cup {m}
    /\ UNCHANGED <<account, obj, players, gone, login, task, unread, read, late, careful>>

\* If the account has logged in meanwhile, the mail was looked at before.
MailArrives(m) ==
    /\ m \in sending
    /\ sending' = sending \ {m}
    /\ unread' = unread \cup {m}
    /\ late' = IF m \notin shown /\ (players # {} \/ \E s \in Session : login[s] \in {"verify", "append"})
               THEN late \cup {m} ELSE late
    /\ UNCHANGED <<account, obj, players, gone, login, task, read, shown, careful>>

\* osu-markasread: the client opens the chat with the sender.
osuMarkAsRead(s) ==
    /\ s \in players \ gone
    /\ read' = read \cup unread /\ unread' = {}
    /\ UNCHANGED <<account, obj, players, gone, login, task, sending, shown, late, careful>>

-----------------------------------------------------------------------------

\* The server stops, and starts again with the database alone.
Restart ==
    /\ players' = {} /\ gone' = {}
    /\ login' = [s \in Session |-> "none"]
    /\ task' = [t \in Task |-> Idle]
    /\ sending' = {}
    /\ Careful(Busy = {})
    /\ UNCHANGED <<account, unread, read, shown, late>>
    /\ obj' = Collected(obj)

AccountInit ==
    /\ row = [priv |-> {"NORMAL"}, silenced |-> FALSE]
    /\ obj = [o \in Object |-> Blank]
    /\ players = {} /\ gone = {}
    /\ login = [s \in Session |-> "none"]
    /\ task = [t \in Task |-> Idle]
    /\ ranked = FALSE
    /\ sending = {} /\ unread = {} /\ read = {} /\ shown = {} /\ late = {}
    /\ careful = TRUE

SessionNext(s) ==
    \/ Logout(s) \/ Vanish(s) \/ Disconnect(s) \/ update_rank(s) \/ osuMarkAsRead(s)
    \/ LoginStarts(s) \/ LoginReads(s) \/ LoginFails(s) \/ LoginLoads(s)
    \/ LoginMail(s) \/ LoginVerifies(s) \/ LoginEnds(s)

CommandNext(t) ==
    \/ restrict(t) \/ unrestrict(t) \/ silence(t) \/ unsilence(t)
    \/ \E bits \in {{b} : b \in Priv} : addpriv(t, bits) \/ rmpriv(t, bits)
    \/ CommandWrites(t) \/ CommandRanks(t) \/ CommandFinishes(t)

AccountNext ==
    \/ \E s \in Session : SessionNext(s)
    \/ \E t \in Task : CommandNext(t)
    \/ \E m \in Msg : SendPrivateMessage(m) \/ MailArrives(m)
    \/ Restart

\* The ghost loop runs for ever.
AccountSpec == AccountInit /\ [][AccountNext]_avars /\ \A s \in Session : WF_avars(Disconnect(s))

-----------------------------------------------------------------------------
(* Properties.                                                              *)

\* An account has one session.  The check for another one and the append are
\* far apart, with many awaits between them (cho.py:524, 895).
OneSession == Cardinality(players) <= 1

\* When nothing is under way, a session knows what the database knows, and a
\* restricted account is on no leaderboard, if care was taken
\* (player.py:553-629).
CacheIsTrue == Settled /\ careful =>
    /\ \A s \in players : obj[s] = Fresh(row)
    /\ ranked => "NORMAL" \in row.priv

\* Mail that is marked as read has been shown, unless it was kept back from a
\* restricted session or stored behind the back of a new one (cho.py:1072,
\* osu.py:1583).
NoMailLost == read \subseteq shown \cup late

\* A client that has disappeared does not stay online (bg_loops.py:97-107).
GhostsLeave == \A s \in Session : s \in gone ~> s \notin players

=============================================================================
