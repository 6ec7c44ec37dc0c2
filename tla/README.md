# A formal model of the bancho.py server

TLA+ specifications of `src/app`, the osu! server: TLC configurations that
check them on small instances, and TLAPS proofs for every instance. Line
numbers in comments are those of the file named, under `src/app/`
(`cho.py` is `api/domains/cho.py`, `player.py`, `match.py`, `channel.py` and
`collections.py` are in `objects/`).

## The system

One process, one asyncio event loop, all state in memory (`app.state.sessions`)
with a MySQL database behind it. A client polls with HTTP requests that carry
its token and any number of packets; each packet has a handler. Chat messages
that start with `!` are commands. Handlers run without interruption **between
awaits**: one that does not await is one atomic step, one that does is several,
and anything may happen in between. A handler that raises stops where it is and
keeps what it has assigned.

| component | state | operations | what makes it hard | what makes it correct |
|---|---|---|---|---|
| match (`match.py`, `player.py` 680-790, `cho.py` 1202-1990) | slots (player, status, loaded, skipped, team, mods), `host_id`, `in_progress`, `p.match` | create, join, part, change slot, ready / not ready / no map / has map, lock, transfer host, settings, mods, team, start, load complete, skip, complete, logout | three places say who is in the match (`p.match`, `slot.player`, `slot.status`) and different handlers look at different ones; a kicked player stays in the locked slot until the client leaves; host is an id looked up on every use; a match is taken as its creator describes it | one slot per player and one player per slot; host is seated; an empty match is gone |
| referee commands (`commands.py` 1596-2285) | `_refs`, `starting` timer | start, abort, host, addref, rmref, lock, unlock, force, teams, freemods, mods, map, condition, pools, bans | act on the same slots through chat; the timer fires on its own | referees are in the match; a timer never outlives it |
| scrims (`match.py` 458-655) | `is_scrimming`, `match_points`, `winners`, `winning_pts`, `bans` | scrim, endscrim, rematch, end of a round, the task that awards | the task runs for up to ten seconds while anything happens | points are rounds won; first to N wins |
| match registry and lobby (`collections.py` 131-176) | 64 places, `#multi_<id>` channels, `tourney_clients`, `in_lobby` | append, remove, list, tournament join and leave | ids and chat names reused; chat and match have separate lives; the list goes by slots, membership by `p.match` | a match whose members have their slots is listed, once; its players reach each other |
| channels (`channel.py`, `player.py` 810-871) | `c.players`, `p.channels` | join, leave, send; instance channels vanish with their last member | removal from several places by different handlers; anyone may join and part an instance channel by its real name | an instance channel exists exactly while it has members; nobody else hears by accident |
| spectating (`player.py` 873-934) | `p.spectating`, `p.spectators`, `#spec_<id>` | start, stop, logout of either | logging out tells no spectator; a user comes back as another session | who watches one player is in one room, and nobody else is |
| sessions and accounts (`cho.py` 99-149, 337-908, `player.py` 475-630, `bg_loops.py`) | `players`, token, privileges, cached `restricted`, `users`, `mail` | login, logout, ghost removal, restrict, silence, privileges, private messages | login awaits a dozen times between reading the row and adding the session; commands write rows and caches in different steps | at most one session per account; a session's rights are the database's; no mail is lost |
| profile (`player.py` 936-1025) | friends, blocks, achievements: rows and sets of the session | add, remove, block, unblock, unlock, login | memory first or row first, with a login in between | they agree |
| packets (`packets.py`) | request body, handler table, response | read, write | no separator but the length; conditional fields | what is read is what was meant |
| mods and modes (`mods.py`, `gamemodes.py`) | - | filter, from_params, as_vanilla | the order of the filters | what is left is valid |
| score submission (`osu.py` 600-1137, `score.py`) | `scores`, `stats`, `p.stats` | submit, wipe | check, queries, insert and statistics are apart, and the client retries | one row per play, one best per map and mode, statistics that follow |
| leaderboards (`osu.py` 1175-1450) | two caches of missing maps | getscores | three queries with conditions of their own | they agree |
| beatmaps (`beatmap.py`, `commands.py` 651-728) | osu!api, `maps` and `mapsets`, three caches | fetch, update, remove, rank | no lock; one shared object; a failed request looks like a removed map | cache and database agree; scores are kept |
| clans (`clan.py`, `commands.py` 2473-2700) | `clans`, `users.clan_id`, memory, `p.clan` | create, disband, leave, login | rows, memory and sessions change in different steps | they agree |
| map pools (`match.py` 88-131, `commands.py` 2287-2470) | two tables, `MapPool` objects | create, delete, add, remove, start-up | the same | they agree |
| menus, web api, services, discord bot, tools | - | - | - | not modelled, see below |

`PROJECT.json` lists every component with what is modelled of it, and every
hazard met while reading, at its line.

## Modules

| module | models | state |
|---|---|---|
| `Match` | one match: every packet that changes slots, host, membership or the round; sessions as far as a match sees them | `slots`, `host` (`host_id`), `inProgress`, `members` (the players whose `p.match` it is), `session`, `stage` (in `matches` or not) |
| `MatchCourteous` | `Match` under the three assumptions the code makes about clients | as `Match` |
| `MatchReferee` | the `!mp` commands and the start timer on top of `MatchCourteous` | and `refs`, `timer` |
| `MatchRounds` | the loaded and skipped barriers, with a history of what clients answered | and the history |
| `Seating` | abstract: what a match promises its players | `seat`, `host` |
| `MatchSettings` | mods, freemods, teams and choosing a map, on top of `MatchCourteous` | and `freemods`, `mods`, `slotMods`, `teamType`, `slotTeam`, `choosing` (`map_id` is -1), `waiting` (handlers in the middle of their await) |
| `Scrim` | the score of a scrim and the tasks that award points | `is_scrimming`, `match_points`, `winners`, `winning_pts`, `team_type`, `task` |
| `Registry` | the list of matches with their chats, the lobby, tournament clients, spectators and ordinary channels, over the sessions of several users | `players`, `dead` (logouts that raised), `matches` (by id), `match` (`p.match`), `standing` (members in no slot), `rooms` (`open`: the list of channels, `in`: each `c.players`), `names` (which open chats have the name of each place), `tourney` (`m.tourney_clients`), `spectating`, `inLobby`, and the history `came` (who entered a room by its real name) |
| `Rooms` | abstract: what a chat channel promises | `open`, `in` |
| `Account` | one account: its row, the sessions that cache it, the staff's commands, mail, the leaderboards, the ghost loop | `row`, `obj` (player objects), `players`, `login` (where each login has come to), `task` (commands at an await), `ranked`, `unread`, `read`, ... |
| `Profile` | friends, blocks and achievements of one user, through logins | `relationships`, `user_achievements`, `mine` (what each session believes), `task` |
| `Packets` | the wire: the reader, the layouts the handlers read, and what they write | `sent`, `body` (bytes left), `handled`, `out`, `restricted` |
| `Mods` | `filter_invalid_combos`, `from_params`, `as_vanilla` | what was asked for and what came of it |
| `Leaderboards` | osu-osz2-getscores, query by query | `best`, `banned`, `remembered` (the caches), `request` |
| `Submission` | plays of one user on their way into `scores` and `stats` | `scores`, `stats`, `current`, `mem`, `mode`, `task` |
| `Beatmaps` | one beatmap set between osu!api, database and cache | `api`, `row`, `mapset`, `maps`, `byMd5`, `byId`, `beatmapset`, `request` |
| `Clans` | clans in the database, in memory, and in players | `owner`, `users`, `clans`, `member_ids`, `player`, `work` |
| `MapPools` | pools in the database and in memory | `tourney_pools`, `pool_maps`, `pools`, `command` |
| `MC*` | instances for TLC: symmetry sets and inputs; `MCAccount` and `MCContent` put several components side by side | |
| `MatchProofs` | theorems of `Match`, `MatchCourteous`, `Seating`, `MatchRounds` | |
| `CommandProofs`, `ScrimProofs`, `RegistryProofs` | theorems of `MatchReferee` and `MatchSettings`; of `Scrim`; of `Registry` | |
| `WireProofs` | theorems of `Packets` | |
| `AccountProofs` | theorems of `Account`, `Profile`, `Mods`, `Leaderboards`, and of `Packets` as `MCAccount` runs it | |
| `BeatmapsProofs`, `ContentProofs` | theorems of `Beatmaps`; of `Clans`, `MapPools`, `Submission`, and of the two instances of `Beatmaps` | |

Actions have the names of the packet handlers and commands they model. One
action is one whole handler call that changes something; a call that returns
early or raises before its first assignment is a stutter. Where a handler raises
halfway there is an action, or a disjunct, for what it leaves behind
(`LeaveRaises`, `LogoutRaises`). `get_slot(p)` is `SlotsOf(p)`, a set; `OneSeat`
says it has at most one element.

Sessions in `Match` have three states. A "zombie" is a session whose logout
raised: its token is cleared, so no request finds it, but it is still in
`players`, and every later attempt to log it out raises again.

**Creating a match.** `from_parsed_match` takes the statuses of the slots and
the host from the packet, unchecked ("TODO: match validation..?", `cho.py` 1208;
"validate there is no hole here?", `match.py` 305), and `MatchCreate` in `Match`
does as much: any status in any slot, any host, and the creator in the slot that
`join_match` finds, or in none. (`in_progress` is parsed and not copied.) What
holds of that is `OneSeat` and `SeatedAreMembers`; no more, because a slot that says
it has a player and has none makes `write_match`, a handing over of the host and
the end of a round raise (`Hole`, `CannotName`, `LeaveRaises`). `CreatesAsTheGame`
says what the game sends: its sender is the host and takes the first slot, the
others are open or locked. `GameSpec` is `Spec` with that assumption, and the
theorems about statuses and rounds are theorems of `GameSpec`.

**Courteous clients.** MATCH_LOCK on a slot that holds a player locks the slot
and leaves the player in it (`cho.py` 1402: "uggggggh i hate trusting the osu!
client"). The client is expected to notice and leave. Two things may go wrong
before it does: the slot is opened again, with the player in it, and the next
player to come takes it over; or the host leaves, and there is nobody with an
unlocked slot to hand over to. `MatchCourteous` adds to each step that neither
happens (`NoKickedSlotReopens`, `HostNotLeftWithKicked`), and `CreatesAsTheGame`.
Most of what the handlers assert is true exactly then; run `match_member_slot`
shows the first failure with `CreatesAsTheGame` alone. Every module on top of
`MatchCourteous` (`MatchReferee`, `MatchRounds`, `MatchSettings`) has all three
assumptions but where `MatchRounds` is said to need less.

**Seating.** `MatchCourteous!SeatingSpec` maps slots to seats and says that
every handler is a step of `Seating` or a stutter: a seat is one player's, only
that player gives it up, and one of the seated is the host.

**Scrims.** `update_matchpoints` runs as a task of its own. It reads the team
type, waits for a score of each player, and awards. In `Scrim` it is the steps
`TaskBegins`, `FindsScore` (any number) and one of `NoScore`, `PointIsTie` and
`PointIsAwarded`; commands, settings and the ends of other rounds come in
between. `patient` is a history variable: no command and no end of a round has
come while a task was pending.

**Settings.** `MatchSettings` adds the data of the slots and of the match to the
steps of `MatchCourteous`: a seat packet carries mods and team along as
`copy_from`, `reset` and `join_match` do (`CarryMods`, `CarryTeams`), every other
packet and command is an action of its own. MATCH_CHANGE_SETTINGS and `!mp map`
await the map; each is two actions, with `waiting[p]` in between, and the second
looks neither at the host nor at the membership again, as the code does not.
The packet sets freemods before its await and the team type after it. Mods are
split into those that change speed (`Speed`) and the rest. It assumes, beyond
`MatchCourteous`, that

- a client being kicked only leaves (otherwise `get_host_slot`, "should always
  exist", finds none when the host is the one being kicked; the referee command
  can still meet that, which is `mp_freemods_raises`);
- a client creates a match as the game does: with a map, no mods, no freemods, no
  teams in the slots (`from_parsed_match` believes what it is sent);
- a player has one awaiting handler at a time;
- any member may be a referee (a superset of what `MatchReferee` allows).

Not refuted and not promised: `!mp freemods on` while they are on wipes the
slots' mods, and `off` while they are off drops the match's mods that do not
change speed, since unlike the packet the command does not look whether anything
changes; and a host who handed over during the await still changes the team type.

**Registry.** Matches, channels, tournament clients and spectators are one
module, because one handler touches all of them: logging out leaves the match
(which may close it, with its chat), the channels and the host that was
spectated. `p.channels` mirrors `c.players` and changes in the same step, as
`p.spectators` mirrors `p.spectating`; each pair is one relation here.
A session is one login; the session of a user who comes back is
another one, while the old one may still be somebody's `spectating`: `logout` does
not tell its spectators. `Rooms` is the promise of a channel, and `RoomsSpec` says
that every handler keeps it.

A match has places here and no slots. What slots do to it is one set: `standing`,
the members whose slot another player has taken (run `match_member_slot`) or who
have left their slot in a `leave_match` that then raised. A match goes when its
last *seated* player leaves (`player.py` 753), so one with only standing members
is not listed, their `leave_match` raises at once (`player.py` 740), and so does their
logout, after the token has gone (`dead`). `MatchesAreListed` says until when a
match is listed, and `MessagesReach` speaks of those who have a slot.

CHANNEL_JOIN and CHANNEL_PART take the real names of channels, and an instance
channel asks for no more than NORMAL: `/join #multi_0` works for anybody, and is
`EntersByName`. Names are found in the order of the list (`ByName`): the chat of a
match that has left the list bears the name of the next match's while somebody is
in it. `NobodyElseHears` is about those who did not ask for the room by its name
(`came`). Assumed of clients is what the game does: a match is created as
`CreatesAsTheGame` says, by somebody who is in none (`join_match` would refuse, and
leave an empty match behind that is never removed); nobody parts, by its real
name, the chat of its own match or the room of the player it watches
(`OwnRooms`); a tournament client does not play, and no other client sends
tournament packets; nobody spectates themselves.
What the model shows besides its properties: a tournament client in
the chat of a match keeps `#multi_<id>` open after its last player has gone,
though a comment says the chat is removed (`player.py` 752); `tourney_clients`
keeps the id of one who logged out.

**Account.** Login, command and private message are tasks that give way at every
await. Objects are named: a session's by the session, a player read from the
database by the task that read it, and one that nobody refers to is collected.
The lock of login is held from the check for another session to the append, so
`OneSession` needs no condition. `CacheIsTrue` does: it holds while "care is
taken" (`careful`, a history variable; `Careful` says what for). Without it the code
does lose updates: `!addpriv` and `!rmpriv` of NORMAL leave the cached
`restricted` as it was; a login that verifies writes all privileges back as it read
them; two commands on one offline player each write their own copy; and a score
puts a restricted player back on the leaderboard. `NoMailLost` names the two
cases in which mail may be marked as read though nobody saw it: a restricted
session is not shown its mail, and a message may be stored after its recipient, who
was offline when it was sent, has looked. That expired donations are removed is
`rmpriv`; nothing in the code sets `donor_end` for `!addpriv donator`, so the next
pass of the loop undoes it (`bg_loops.py` 62-95).

**Profile, Packets, Mods and Leaderboards** are other things of one user, each
with a state of its own. `Profile` lets requests of an earlier session end in a
later one. In `Packets` a request is bytes, and the handlers' reads are those of
`packets.py` down to signs and widths; the client is external and writes what the
game writes. The handler table is chosen once for a request, so `restricted` is
what it was then. `Mods` filters every set of mods in every mode; two
disagreements with what its comments want are excluded by name, DT with NC and HT
(of which NC and HT are left, `mods.py` 69-73) and two keymods in mania (KEY_MODS
cannot be iterated over on the Python the project asks for). In `Leaderboards`
the rank is always that on everybody's board, and what a failed request to osu!
said of a map is remembered until the server stops.

**Submission.** A submission is cut at each query: duplicate check, previous
best, demotion, insert, statistics. Its client sends it again when no answer
comes. Two history variables say when the code promises nothing: `contended` holds
the maps and modes where two submissions met (both pass the check; both find, or
neither finds, the previous best), `trouble` what else came in between (a change
of mode, a login, a wipe, a restart between two writes). The properties are about
everything else, and about what survives even then.

**Beatmaps, Clans, MapPools.** Rows, caches and the copies that sessions hold.
`Beatmaps` follows a map through `from_md5`, `from_bid`, the set's update from the
osu!api and `!map`. A request that fails is taken for a map that is gone, and its
scores are deleted: `ScoresKept` names that case. `raced` says that two requests
met, after which cache and database may differ: none of them holds the lock that a
comment asks for (`beatmap.py` 356). The deletes of one update (maps, scores, the set's row) are one
step, and a second attempt at an update that failed (946) is left out. In `Clans` any member may
disband (the code does not ask for the owner), all clans share one default set of members
(`clan.py` 29), and a restart between INSERT and UPDATE leaves an owner outside
(`cut`). In `MapPools`, `!pool remove` deletes by mods and slot alone (`spilled`),
and two creations of one name both insert (`clash`).

## Runs

| run | instance | states | shows |
|---|---|---|---|
| `match` | 3 players, 3 slots, created in any way | 412,906 | nobody sits twice or without being a member, whatever clients send |
| `match_referee` | 3 players, 2 slots, one of the players staff, courteous | 13,846 | the handlers' assertions, statuses and round, no eviction, referees and timer, refinement of `Seating` |
| `rounds_first` | 3 players, 2 slots, 1 round | 42,220 | the barriers of a first round open when they should |
| `match_settings` | 2 players, 2 slots, one mod that changes speed and one that does not, courteous | 203,267 | mods follow freemods, free slots are clean, everyone in a team match has a team |
| `scrim` | 2 players, 2 tasks, up to best of 3, 4 rounds | 13,806 | points are wins; the announcement is true if nobody interferes |
| `registry` | 2 users with 2 sessions each, one of a tournament client, 2 matches, 2 ids, 2 seats; one may `!mp force`, the other enters rooms by their real names and may lose its slot | 255,251 | messages reach whom they are for and nobody overhears them by accident, matches are listed, refinement of `Rooms` |
| `account` | parts: account (2 sessions, 1 command, 1 message), profile (1 other user, 1 achievement, 2 tasks), packets (2 in a request), mods (all), leaderboards (3 users, 1 request) | 671,210 | what one user logs into, sends and is shown; ghosts leave |
| `content` | parts: scores (2 tasks, 2 rows, 4 plays), beatmaps (2 maps, or 2 requests), clans (2), pools (2) | 1,233,851 | what is stored and what is in memory agree |
| `match_member_slot` | 3 players, 2 slots, created as the game does | | *violated*: `assert slot is not None` |
| `rounds_loaded` | 2 players, 2 slots, 2 rounds | | *violated*: "if all players are loaded, tell all players to begin" |
| `scrim_impatient` | 2 players, 1 task, 3 rounds | | *violated*: "first to N points wins" |
| `beatmaps_ruling` | 1 request, 2 maps, 2 versions | | *violated*: a frozen status is kept after an update |

Bounds. Two slots make a match full and let a host, a kicked player and a
newcomer collide; the third slot of `match` gives them somewhere to move. The
code's 16 slots are interchangeable but for their order, which is kept. The
referee run multiplies the state by the referees and the timer, so it has two
slots. The settings run multiplies it by mods and teams of every slot: two players
are a host and another one, who referees, joins, leaves and takes over, and the two
mods are all the code tells apart. Staff is one player, so both a staff referee and
plain ones occur. `MaxRounds` bounds the rounds (one is the point of
`rounds_first`; four in `scrim` are enough to win a best of three, roll back and
start over); `MaxBestOf` the target. In `registry` two ids and two matches make an
id be used again; of the two users one logs in again while the former session is
still spectated, and the other has a tournament client besides. Who visits the lobby
(`Lounge`), uses real names (`Curious`), may lose a slot (`Evicted`) or force
others (`Admin`) are constants, since each multiplies the states: alice enters by
name and is left without a slot, bob has the lobby and the command. The theorems
hold for any such sets. In `account` and `content` the components share no state, so a product
of them would show nothing new: each behaviour belongs to one part, the variables
of the others are `None`, and each property speaks of its part. Two sessions of an
account are one that ends and one that begins; two tasks are needed, and enough,
for every property about requests that meet. `MaxRows`, `MaxSent`, `MaxClans`,
`MaxPools` and `Limit` are 2: an old one and a new one, or one and a duplicate.
`MaxVersion` is 2 where a set is updated and 1 where two requests race. The plays
of `content` are one mode twice, with the higher pp at the lower score, another
mode, and a failed one.

Symmetry is used for players, sessions, tasks, ids and objects where no constant
names one of them, and only in runs without liveness.

Fairness. One property is liveness, `GhostsLeave`, under weak fairness of
`Disconnect` for each session: the ghost loop runs for ever (`bg_loops.py` 97-107),
and while a client stays silent every pass is an attempt. A pass may step over one
ghost while it removes another from the list it iterates, the next pass does not.
That an exception would end the loop is another matter: a logout that raises is
what `NoZombie` excludes. Nothing else is fair: clients owe the server nothing, and
a request that waits for the database or the osu!api may wait for ever or be cut
off. CHECK_DEADLOCK is off in the runs of a match, because a match is created
once: when it is closed, or all sessions are zombies, nothing is left to do.

### The four disagreements

1. A kicked slot reopened and taken by another player leaves a member without
   slot: every packet of that member trips an assertion, and the logout does.
2. `Match.start` does not clear `loaded` and `skipped`: from the second round on
   the first player to load starts the round for all.
3. The point of a round is compared with == after an await: a change of team
   type meanwhile makes it pass the target unnoticed.
4. `!map` freezes the row of a map and not its cached Beatmap, which the next
   update from the osu!api writes back, status and `frozen` both.

## Proofs

Everything in this list holds for any finite or infinite set of players, sessions
and tasks, any number of slots, ids and rounds, under the named assumptions on the
constants (`NumSlotsAssumption`, `NoneAssumption`, `PlayerAssumption`, ...), which
TLC also evaluates in the runs. They say that sets which the code keeps apart do
not overlap (`None` is not a player, a user's channel is not a match's) and that
bounds are naturals. `BoardAssumption` says more: a leaderboard has finitely many
users, its limit is a natural, and so is what a score is worth; `ModeAssumption`
and `PlayAssumption`, that there are finitely many modes and that what plays are
worth are naturals; and `WireAssumption` (`PacketsConstants`), that every value a client sends
or the server shows has room in its field, and all the data of a packet in its
length. Some packets of the run hold the least or the greatest value of a field.
What a client sends as MATCH_CHANGE_SETTINGS must also have room in signed fields,
because the reader reads as signed what is written as unsigned (`packets.py` 489,
630); of slot statuses that excludes only `quit`, which the code never sets.

What is defined along a sequence or a number (digits, ULEB128, fields one after
another, sums over rows) is proved about without a principle of induction over
formulas, which would take an operator as a parameter: the set of numbers, or of
finite sets, for which a fact fails is written down as a set, and if it were not
empty it would have a least element, which it does not (`LeastNat` of `WireProofs`,
`LeastOfFinite` of `ContentProofs`, from `WFMin`).

* `MatchProofs`, the match: `TypeCorrect` first, then, under `Spec`, `SlotsInv`:
  `OneSeat`, `SeatedAreMembers` and `MembersHaveSession`, however a match is created.
  They are inductive together with the type invariant: `OneSeat` needs
  `SeatedAreMembers` (a player who joins sits nowhere), and a move needs both.
  Under `GameSpec`, `MatchInv` adds `StatusHasPlayer`, `ClosedIsEmpty` and
  `PlayingInProgress`; `ClosedIsEmpty` needs to know that nobody who is a member of
  nothing sits anywhere. One lemma per operator and per group of actions. A
  theorem for each conjunct.
* `MatchProofs`, courteous clients: under `CourteousSpec` the invariant is
  strengthened by `MemberHasSlot`, `HostIsSeated`, `NoZombie`, `OpenIsEmpty` (a slot
  with a player is never open) and `OnlyOpenIsSeated` (nobody sits in a match that is
  not in `matches`). `OpenIsEmpty` is what the assumptions buy, and it makes
  the others inductive. `NoEvictionAlways` is the action property, from the same
  invariant.
* `MatchProofs`, seating: `ImplementsSeating`, step by step: each action maps to
  a step of `Seating` (join to `Open` or `Sit`, change slot to `Move`, leave and
  logout to `Rise`, transfer to `HandOver`) or to a stutter.
* `MatchProofs`, rounds: `RoundsInv` relates the flags of the slots to the history
  of what clients answered. In every round who has answered has the flag
  (`AnswersHaveFlags`), so `BegunWhenAllLoadedAlways` holds of all of them: when all
  have loaded, the round was begun. The other way round (`FlagsAreAnswers`) is
  inductive only from a start without flags, because `Match.start` does not clear
  them: `FirstRoundBegins` and `FirstRoundSkips` are about a first round, and run
  `rounds_loaded` shows what becomes of the second. Of a step that belongs to no
  barrier it is enough that it sets no flag and lets nobody play (`BarrierStays`).
* `CommandProofs`, referees: a command is a packet the host might have sent (starting a
  round, handing over, letting in), or changes statuses and leaves everyone where
  they sit (`StatusesKeep`: abort, lock, unlock), so `CourteousInv` is an invariant
  under commands and the timer too. From it follow `RefsInMatchAlways` (reading
  the referees adds the host, who is seated and so a member; whoever leaves loses
  the right) and `ClosedHasNoTimerAlways` (a command needs a member, and a match
  with a member is open). What was true without commands stays true with them:
  `PlayingInProgressRefereed`, `NoEvictionRefereed`, and `RefereesImplementSeating`,
  for which a command is a step that maps as its packet does or a stutter.
* `CommandProofs`, settings: each step of `MatchSettings` is one of `MatchCourteous` or
  leaves the seats alone (`!mp host` is a transfer by the host, whoever sent it),
  so `CourteousInv` is an invariant here too (`SeatsKeepInv`). On top of it the
  four invariants are inductive together: clean free slots need that a slot whose
  status says so holds a player (`StatusHasPlayer`), colours need that a player in
  an occupied slot stayed there, came from one or is new (`OccupiedAfter`), which
  `OneSeat` and `OpenIsEmpty` give. `FreemodsKeepModsAlways` is the action
  property.
* `ScrimProofs`: `PointsAreWinsAlways` alone is inductive with the type of the
  state (adding to or taking from the end of a sequence changes one count by one).
  The three properties under `patient` need `ScrimInv`: what each pending
  task has read agrees with the team type, at most one task is pending, and
  every score is below the target while the scrim goes on.
* `RegistryProofs`: `RegistryInv` is inductive. Its core is `Live`, that a channel
  for an occasion is open exactly while somebody is in it; since every step keeps
  it, and a step from `Live` to `Live` is a step of `Rooms` whatever it did, the
  refinement `ImplementsRooms` follows at once. `MembersTalk` (whoever is in
  a slot of a match is in its chat) and `Inhabited` (a listed match has somebody in
  a slot) make it inductive and give `MatchesAreListedAlways` and
  `MatchesAreHeardAlways`. Who hears what is said needs two more, each inductive
  on top of it, and each with an exception for who came by name: one who stays in a
  room came to it as it did before the step. `WatchInv`: who spectates is in the
  room of the one who is watched (`WatchersTalk`), and in it are, but for those who
  came by name, only those and the one who is watched, while somebody watches
  (`OnlyTheirs`). `GuestInv`: whoever is in the chat of a match without being a
  member, and did not come by name, is a tournament client, whose user the match
  knows while it is the only one of that user (`Guests`), and nobody sits in a match
  that knows the user as a guest (`Apart`). They give `MessagesReachAlways` and
  `NobodyElseHearsAlways`. What is assumed of clients is in the actions
  (`OwnRooms`, `MatchCreate`, `Tourney`).
* `AccountProofs`: `SessionInv` (one login at a time, and none while a session is
  there) gives `OneSessionAlways`; `MailInv` adds that after the mail was looked at
  whatever is unread was shown or is accounted for, and gives `NoMailLostAlways`.
  `CacheIsTrueAlways` needs to know what is true in between: `CareInv` says, while
  care is taken, that a command works alone and on the only session there may be
  (`Half`), that each login knows the row, or the row and its own change, and that a
  restricted account is ranked only while the command that restricts it is on its
  way to take it off.
  `ProfileIsTrueAlways`: `Honest` holds however requests meet (friends and blocks
  do not overlap, an achievement that is shown is stored), `OneByOne` says what is
  known while they do not, including what the rows will be when the one request
  under way has written (`RowsAfter`). `ModsAreValidAlways` has no state to induct
  over; it is a proof that each filter of `filter_invalid_combos` keeps what the
  filters before it established, one lemma per filter, and that `from_params` only
  yields modes that are used. `BoardsAgreeAlways`: `BoardInv` says that what a
  request has found so far is what the query would give now unless scores or
  restrictions changed (`steady`); that the rank then fits the list is a lemma about
  an order of finitely many rows and how many of them are better.
* `BeatmapsProofs`, about `Beatmaps` under `BeatmapsConstants` (at least one version;
  `Nothing` is none of the things it stands for the absence of). `KeepsInv` holds
  however requests meet: what is cached or at work has Beatmaps, whatever is known
  of a map osu! had once (`Born`), and a request that deletes has seen a failure or
  a removal (`GoneAreRemoved`); it gives `ScoresKeptAlways`. `StoredInv` adds, while
  none have met, that there is one request and one set object, and how rows and
  Beatmaps differ at each of its awaits (`Prepares`), down to the status that
  `!map` has written to one and not yet to the other (`AgreesButFor`); it gives
  `CacheIsStoredAlways`.
* `ContentProofs`: an invariant for each part of `MCContent`. For the clans,
  `ClansInv` is layered by what may go wrong: every clan that is named was founded,
  always; memory has the stored clans, and the owner of a clan with others in it leads it and
  does not leave, unless a restart `cut` a command; users, players and commands agree unless two of them `met`. For the pools,
  `PoolsInv` pairs each cached object with its row, but for the one that is being
  created or deleted, as long as no two commands `clash`. For scores, `ScoresInv` says
  that submissions of one map and mode that are under way together are known to be
  (`MeetingsAreKnown`), that what one has found out is still so (`SubmissionsKnow`),
  and that the best row has the most pp except between demotion and insert
  (`Ranking`); with `NoDuplicate` it is inductive, and gives `ScoresOnceAlways` and
  `ScoresBestAlways` for any number of submissions, plays and sessions. The two
  instances of `Beatmaps` are those of `BeatmapsProofs`, constants and all
  (`SameMaps`, `SameRaces`), so what it proves carries over.
* `ContentProofs`, statistics: first what a sum over finitely many rows does when a
  row comes, goes or changes its worth. `StatsInv` then puts three things on top of
  `ScoresInv`. `Calm`: without trouble, at most one submission is under way and no
  row has been wiped. `StatsKnown`: at rest rows, statistics and sessions agree
  (`InStep`); in between `Owes` says, at each await, which of the three is behind
  and by how much, down to the score that the last best loses when it is demoted.
  `PlaysCounted`: whatever meets, or changes mode, as long as nobody logs in and
  nothing is wiped the session has counted every row but those whose submission
  comes to the statistics next. They give `ScoresStatsAlways`.
* `WireProofs`: `Reads(b, t, v)` says that the bytes b are read by the types t as
  the values v, and are used up, whatever comes after them. It holds of each field
  that fits (`IntIsRead`, `StringIsRead`) and of fields one after another
  (`ReadsMore`), so it can be followed through a match, whose ids and mods are there
  or not depending on what was read before, a score frame and a bundle of frames.
  Hence every handler reads exactly the data of its packet (`DataIsRead`), the
  header of a packet says where it ends (`PacketIsRead`), and what is enqueued is
  read as what it is about (`HandledTold`): pp that do not fit, the byte of a frame
  that becomes the slot. `WireInv` says where the reader stands in a request and
  what it has given to handlers; `PacketsAreRead` follows for requests of any
  length, and `WireIsReadAlways` says it of the composition that the run checks.

Only model-checked:

* `GhostsLeave`: fairness and ENABLED are beyond the prover.
* `rounds_first` checks `BeginsWhenAllLoaded` in a run of one round, which the theorem
  has as `rounds =< 1`; beyond that it is false.

## What is left

In the order in which it would be added:

1. The pool a match has loaded, picks and bans, and the win condition.
2. Several matches with their slots in one model with `Registry`, whose
   matches have places but no slots.
3. A match whose creator does not sit in it, which nobody removes: `Match` has
   it, `Registry` assumes that clients do not, as it does of a player who parts the
   chat of its own match.

## Not modelled

Formatting, logging and wording; the database beyond rows that a hazard is about.
The web api and the other endpoints of osu.py (ratings, comments, favourites,
replays, direct search) are single queries; the registration of accounts is
commented out in the source (`osu.py` 1790-1947). Menus are sequential and of one
player. The calculation of pp, recalculation, the discord webhooks, start-up,
geolocation, migrations and the tools are I/O or arithmetic without state of the
server. What each privilege allows is left out: a refused packet or command is a
stutter, and so is a join refused for a password, a silence or a restriction. In
the settings, the win condition, the name, the password and which map it is,
which nothing else depends on. Which pool a match has loaded and what it has
banned are assignments without an await.
