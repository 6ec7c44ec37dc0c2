------------------------------ MODULE MapPools ------------------------------
(***************************************************************************)
(* Map pools: the rows of tourney_pools and tourney_pool_maps, and the     *)
(* MapPool objects in memory, under the !pool commands.                    *)
(*                                                                         *)
(* MapPool objects are numbered in the order in which they were appended,  *)
(* so that get_by_name finds the least one.  A pick is a combination of    *)
(* mods and a slot.  Left out: who created a pool and when, and the        *)
(* matches that have a pool loaded.                                        *)
(***************************************************************************)
EXTENDS Naturals, FiniteSetsExt

CONSTANTS
    Name, Pick, BMap,
    Command,       \* !pool commands under way
    MaxPools,      \* bound: ids that tourney_pools gives out, and objects made
    NoPool

PoolId == 1..MaxPools

VARIABLES
    ids,           \* how many ids were given out
    tourney_pools, \* the name of each stored pool
    pool_maps,     \* the rows of tourney_pool_maps
    objects,       \* how many MapPools were appended since the start
    pools,         \* the MapPools in memory
    command,
    clash,         \* two commands met (history)
    spilled        \* a pick was removed that another pool has too (history)

pvars == <<ids, tourney_pools, pool_maps, objects, pools, command, clash, spilled>>

MapRow  == [map : BMap, pool : PoolId, pick : Pick]
MapPool == [id : PoolId, name : Name, maps : SUBSET (Pick \X BMap)]
Unused  == [at |-> "unused"]

MapPoolsTypeOK ==
    /\ ids \in 0..MaxPools /\ objects \in 0..MaxPools
    /\ tourney_pools \in [PoolId -> Name \cup {NoPool}] /\ pool_maps \subseteq MapRow
    /\ pools \in [PoolId -> MapPool \cup {NoPool}]
    /\ clash \in BOOLEAN /\ spilled \in BOOLEAN

Cached == {o \in PoolId : pools[o] # NoPool}
Busies == {c \in Command : command[c] # Unused}
Rows(id) == {r \in pool_maps : r.pool = id}
Named(name) == {o \in Cached : pools[o].name = name}
get_by_name(name) == Min(Named(name))
Picks(o) == {p[1] : p \in pools[o].maps}
Maps(o)  == {p[2] : p \in pools[o].maps}

Asks(c, what) ==
    /\ command[c] = Unused
    /\ command' = [command EXCEPT ![c] = what]
    /\ clash' = (clash \/ Busies # {})
    /\ UNCHANGED <<ids, tourney_pools, pool_maps, objects, pools, spilled>>
Proceeds(c, at) == command' = [command EXCEPT ![c].at = at]
Over(c) == command' = [command EXCEPT ![c] = Unused]

-----------------------------------------------------------------------------
(* !pool create: INSERT, then SELECT by name for the id.                    *)

pool_create(c, name) ==
    /\ Named(name) = {} /\ ids < MaxPools /\ objects < MaxPools
    /\ Asks(c, [at |-> "insert", name |-> name])

CreateInserts(c) ==
    /\ command[c].at = "insert" /\ ids < MaxPools
    /\ ids' = ids + 1
    /\ tourney_pools' = [tourney_pools EXCEPT ![ids'] = command[c].name]
    /\ Proceeds(c, "select")
    /\ UNCHANGED <<pool_maps, objects, pools, clash, spilled>>

\* The name is no key: the first row with it.  None is left if it was deleted
\* meanwhile, and dict(None) raises.
Selected(name) == {id \in PoolId : tourney_pools[id] = name}

CreateAppends(c) == LET found == Selected(command[c].name) IN
    /\ command[c].at = "select" /\ objects < MaxPools
    /\ IF found = {} THEN UNCHANGED <<objects, pools>>
       ELSE /\ objects' = objects + 1
            /\ pools' = [pools EXCEPT ![objects'] = [id |-> Min(found), name |-> command[c].name, maps |-> {}]]
    /\ Over(c)
    /\ UNCHANGED <<ids, tourney_pools, pool_maps, clash, spilled>>

-----------------------------------------------------------------------------
(* !pool delete.                                                            *)

pool_delete(c, name) ==
    /\ Named(name) # {}
    /\ Asks(c, [at |-> "delete", pool |-> get_by_name(name), id |-> pools[get_by_name(name)].id])

DeletePool(c) ==
    /\ command[c].at = "delete"
    /\ tourney_pools' = [tourney_pools EXCEPT ![command[c].id] = NoPool]
    /\ Proceeds(c, "delete_maps")
    /\ UNCHANGED <<ids, pool_maps, objects, pools, clash, spilled>>

DeleteRows(c) ==
    /\ command[c].at = "delete_maps"
    /\ pool_maps' = pool_maps \ Rows(command[c].id)
    /\ pools' = [pools EXCEPT ![command[c].pool] = NoPool]
    /\ Over(c)
    /\ UNCHANGED <<ids, tourney_pools, objects, clash, spilled>>

-----------------------------------------------------------------------------
(* !pool add and !pool remove.                                              *)

pool_add(c, name, pick, map) ==
    /\ Named(name) # {}
    /\ LET o == get_by_name(name) IN
          /\ pick \notin Picks(o) /\ map \notin Maps(o)
          /\ Asks(c, [at |-> "add", pool |-> o, id |-> pools[o].id, pick |-> pick, map |-> map])

\* The row's key is the map and the pool.  The object may be gone by now.
AddInserts(c) == LET new == command[c] IN
    /\ new.at = "add"
    /\ IF \E r \in Rows(new.id) : r.map = new.map
       THEN UNCHANGED <<pool_maps, pools>>
       ELSE /\ pool_maps' = pool_maps \cup {[map |-> new.map, pool |-> new.id, pick |-> new.pick]}
            /\ pools' = IF pools[new.pool] = NoPool THEN pools
                        ELSE [pools EXCEPT ![new.pool].maps =
                                {p \in @ : p[1] # new.pick} \cup {<<new.pick, new.map>>}]
    /\ Over(c)
    /\ UNCHANGED <<ids, tourney_pools, objects, clash, spilled>>

pool_remove(c, name, pick) ==
    /\ Named(name) # {} /\ pick \in Picks(get_by_name(name))
    /\ Asks(c, [at |-> "remove", pool |-> get_by_name(name), pick |-> pick])

\* DELETE by mods and slot alone.  Mutant: memory alone forgets the pick.
Removed_None(o, pick) == {}
Removed(o, pick) == {r \in pool_maps : r.pick = pick}

\* A pick that is no longer there raises.
RemoveDeletes(c) == LET o == command[c].pool  pick == command[c].pick IN
    /\ command[c].at = "remove"
    /\ pool_maps' = pool_maps \ Removed(o, pick)
    /\ spilled' = (spilled \/ \E r \in pool_maps \ pool_maps' : pools[o] # NoPool /\ r.pool # pools[o].id)
    /\ pools' = IF pools[o] = NoPool THEN pools ELSE [pools EXCEPT ![o].maps = {p \in @ : p[1] # pick}]
    /\ Over(c)
    /\ UNCHANGED <<ids, tourney_pools, objects, clash>>

-----------------------------------------------------------------------------

\* MapPools.prepare after a restart, with maps_from_sql: of the maps of stored
\* pools, those that are not found leave all pools.
prepare == LET stored == {id \in PoolId : tourney_pools[id] # NoPool} IN
    \E lost \in SUBSET {r.map : r \in {row \in pool_maps : row.pool \in stored}} :
    /\ pool_maps' = {r \in pool_maps : r.map \notin lost}
    /\ objects' = ids
    /\ pools' = [id \in PoolId |-> IF id \notin stored THEN NoPool
          ELSE [id |-> id, name |-> tourney_pools[id],
                maps |-> {<<r.pick, r.map>> : r \in {row \in pool_maps' : row.pool = id}}]]
    /\ command' = [c \in Command |-> Unused]
    /\ UNCHANGED <<ids, tourney_pools, clash, spilled>>

MapPoolsInit ==
    /\ ids = 0 /\ tourney_pools = [id \in PoolId |-> NoPool] /\ pool_maps = {}
    /\ objects = 0 /\ pools = [o \in PoolId |-> NoPool]
    /\ command = [c \in Command |-> Unused]
    /\ clash = FALSE /\ spilled = FALSE

CommandNext(c) ==
    \/ \E name \in Name : pool_create(c, name) \/ pool_delete(c, name)
    \/ \E name \in Name, pick \in Pick : pool_remove(c, name, pick) \/ \E map \in BMap : pool_add(c, name, pick, map)
    \/ CreateInserts(c) \/ CreateAppends(c) \/ DeletePool(c) \/ DeleteRows(c)
    \/ AddInserts(c) \/ RemoveDeletes(c)

MapPoolsNext == prepare \/ \E c \in Command : CommandNext(c)

MapPoolsSpec == MapPoolsInit /\ [][MapPoolsNext]_pvars

-----------------------------------------------------------------------------
(* Properties.                                                              *)

\* With no command under way, and if none met another, memory has the stored
\* pools under their names with all the picks stored for them; and no other
\* picks, unless one was removed that another pool has too (commands.py:2440-2443).
PoolsAreStored == Busies = {} /\ ~clash =>
    /\ {pools[o].id : o \in Cached} = {id \in PoolId : tourney_pools[id] # NoPool}
    /\ \A o \in Cached :
          /\ pools[o].name = tourney_pools[pools[o].id]
          /\ {<<r.pick, r.map>> : r \in Rows(pools[o].id)} \subseteq pools[o].maps
          /\ spilled \/ \A p \in pools[o].maps : \E r \in Rows(pools[o].id) : p = <<r.pick, r.map>>

=============================================================================
