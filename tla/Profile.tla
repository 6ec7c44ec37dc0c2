------------------------------ MODULE Profile ------------------------------
(***************************************************************************)
(* One user's friends, blocks and achievements: their rows, and what the   *)
(* user's session believes about them.                                     *)
(*                                                                         *)
(* The session changes its friends and blocks first and writes then; an    *)
(* achievement is written first.  Who writes gives way, and goes on with   *)
(* the session it began with.  The bot is a friend of everybody and has no *)
(* row; it is left out, as are the scores that achievements are for.       *)
(***************************************************************************)

CONSTANTS
    Other,         \* users to befriend or block
    Achievement,
    Session,       \* player objects of the user's logins
    Task,          \* requests at work
    Nobody

VARIABLES
    relationships, \* the type of the row about each other user
    user_achievements, \* the rows of achievements
    current,       \* the session in `players`, or Nobody
    login,         \* the session a login is making, and where it is, or Nobody
    mine,          \* friends, blocks and achievements of each session
    task,          \* what the requests are about to write
    met            \* requests met each other or a login (history)

prvars == <<relationships, user_achievements, current, login, mine, task, met>>

Idle == [at |-> "idle"]
Busy == {t \in Task : task[t] # Idle}
Empty == [friends |-> {}, blocks |-> {}, achievements |-> {}]

ProfileTypeOK ==
    /\ relationships \in [Other -> {"friend", "block", "none"}]
    /\ user_achievements \subseteq Achievement
    /\ current \in Session \cup {Nobody}
    /\ mine \in [Session -> [friends : SUBSET Other, blocks : SUBSET Other, achievements : SUBSET Achievement]]
    /\ met \in BOOLEAN

Related(type) == {o \in Other : relationships[o] = type}

\* t goes on to write `what`; `mine` of the session is new.
Asks(t, what, own) ==
    /\ task[t] = Idle /\ current # Nobody
    /\ task' = [task EXCEPT ![t] = what]
    /\ mine' = [mine EXCEPT ![current] = own]
    /\ met' = (met \/ Busy # {})
    /\ UNCHANGED <<relationships, user_achievements, current, login>>

\* An object that nobody holds is forgotten.
Held(s) == s = current' \/ (login' # Nobody /\ login'.on = s) \/ \E t \in Task : task'[t] # Idle /\ task'[t].on = s
Ends(t, own) ==
    /\ task' = [task EXCEPT ![t] = Idle]
    /\ mine' = [s \in Session |-> IF Held(s) THEN own[s] ELSE Empty]

-----------------------------------------------------------------------------
(* Friends and blocks.                                                      *)

FriendAdd(t, o) == LET m == mine[current] IN
    /\ current # Nobody /\ o \notin m.friends
    /\ Asks(t, [at |-> "replace", who |-> o, type |-> "friend", on |-> current],
            [m EXCEPT !.blocks = @ \ {o}, !.friends = @ \cup {o}])

FriendRemove(t, o) == LET m == mine[current] IN
    /\ current # Nobody /\ o \in m.friends
    /\ Asks(t, [at |-> "delete", who |-> o, on |-> current], [m EXCEPT !.friends = @ \ {o}])

\* Mutant: whoever is blocked stays a friend.
Blocked_Only(m, o) == [m EXCEPT !.blocks = @ \cup {o}]
Blocked(m, o) == [m EXCEPT !.friends = @ \ {o}, !.blocks = @ \cup {o}]

block(t, o) ==
    /\ current # Nobody /\ o \notin mine[current].blocks
    /\ Asks(t, [at |-> "replace", who |-> o, type |-> "block", on |-> current], Blocked(mine[current], o))

unblock(t, o) == LET m == mine[current] IN
    /\ current # Nobody /\ o \in m.blocks
    /\ Asks(t, [at |-> "delete", who |-> o, on |-> current], [m EXCEPT !.blocks = @ \ {o}])

\* REPLACE: a user has one row about another.
Replaces(t) ==
    /\ task[t].at = "replace"
    /\ relationships' = [relationships EXCEPT ![task[t].who] = task[t].type]
    /\ UNCHANGED <<user_achievements, current, login, met>>
    /\ Ends(t, mine)

Deletes(t) ==
    /\ task[t].at = "delete"
    /\ relationships' = [relationships EXCEPT ![task[t].who] = "none"]
    /\ UNCHANGED <<user_achievements, current, login, met>>
    /\ Ends(t, mine)

-----------------------------------------------------------------------------
(* Achievements.                                                            *)

\* A score earns an achievement the session does not have.
EarnsAchievement(t, a) ==
    /\ current # Nobody /\ a \notin mine[current].achievements
    /\ Asks(t, [at |-> "insert", what |-> a, on |-> current], mine[current])

\* The second INSERT of a row raises.
unlock_achievement(t) == LET a == task[t].what IN
    /\ task[t].at = "insert"
    /\ user_achievements' = user_achievements \cup {a}
    /\ UNCHANGED <<relationships, current, login, met>>
    /\ Ends(t, IF a \in user_achievements THEN mine
               ELSE [mine EXCEPT ![task[t].on].achievements = @ \cup {a}])

-----------------------------------------------------------------------------
(* Sessions.                                                                *)

Goes(s, at) == login' = [on |-> s, at |-> at]

LoginStarts(s) ==
    /\ current = Nobody /\ login = Nobody
    /\ \A t \in Busy : task[t].on # s
    /\ Goes(s, "achievements")
    /\ met' = (Busy # {})
    /\ UNCHANGED <<relationships, user_achievements, current, mine, task>>

achievements_from_sql ==
    /\ login # Nobody /\ login.at = "achievements"
    /\ mine' = [mine EXCEPT ![login.on].achievements = user_achievements]
    /\ Goes(login.on, "relationships")
    /\ UNCHANGED <<relationships, user_achievements, current, task, met>>

relationships_from_sql ==
    /\ login # Nobody /\ login.at = "relationships"
    /\ mine' = [mine EXCEPT ![login.on].friends = Related("friend"), ![login.on].blocks = Related("block")]
    /\ Goes(login.on, "append")
    /\ UNCHANGED <<relationships, user_achievements, current, task, met>>

LoginEnds ==
    /\ login # Nobody /\ login.at = "append"
    /\ current' = login.on /\ login' = Nobody
    /\ UNCHANGED <<relationships, user_achievements, mine, task, met>>

Logout ==
    /\ current # Nobody
    /\ current' = Nobody
    /\ UNCHANGED <<relationships, user_achievements, login, task, met>>
    /\ mine' = [s \in Session |-> IF Held(s) THEN mine[s] ELSE Empty]

Restart ==
    /\ current' = Nobody /\ login' = Nobody
    /\ task' = [t \in Task |-> Idle] /\ mine' = [s \in Session |-> Empty]
    /\ met' = FALSE
    /\ UNCHANGED <<relationships, user_achievements>>

ProfileInit ==
    /\ relationships = [o \in Other |-> "none"] /\ user_achievements = {}
    /\ current = Nobody /\ login = Nobody
    /\ mine = [s \in Session |-> Empty]
    /\ task = [t \in Task |-> Idle]
    /\ met = FALSE

TaskNext(t) ==
    \/ \E o \in Other : FriendAdd(t, o) \/ FriendRemove(t, o) \/ block(t, o) \/ unblock(t, o)
    \/ \E a \in Achievement : EarnsAchievement(t, a)
    \/ Replaces(t) \/ Deletes(t) \/ unlock_achievement(t)

ProfileNext ==
    \/ \E t \in Task : TaskNext(t)
    \/ \E s \in Session : LoginStarts(s)
    \/ achievements_from_sql \/ relationships_from_sql \/ LoginEnds \/ Logout \/ Restart

ProfileSpec == ProfileInit /\ [][ProfileNext]_prvars

-----------------------------------------------------------------------------
(* Properties.                                                              *)

\* However requests and logins meet, nobody is a friend and blocked at once, and
\* every achievement a session shows is stored.  A session whose requests did
\* not meet, and that no request of an earlier session met, knows what is stored
\* (player.py:936-1025).
ProfileIsTrue ==
    /\ \A s \in Session :
          /\ mine[s].friends \cap mine[s].blocks = {}
          /\ mine[s].achievements \subseteq user_achievements
    /\ current # Nobody /\ Busy = {} /\ ~met =>
          mine[current] = [friends |-> Related("friend"), blocks |-> Related("block"),
                           achievements |-> user_achievements]

=============================================================================
