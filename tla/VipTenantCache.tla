---------------------------- MODULE VipTenantCache ----------------------------
(***************************************************************************)
(* ObVipTenantCache (src/obproxy/obutils/ob_vip_tenant_cache.cpp): two     *)
(* hash maps from VIP address to ObVipTenant*, vt_cache_map_ pointing at   *)
(* one of them (or NULL after destroy), and rwlock_ guarding all of it.   *)
(* Threads call get, set, update_cache_map, get_vt_cache_count and         *)
(* destroy concurrently.                                                   *)
(*                                                                         *)
(* A lock acquisition is a step of its own (the thread may wait there); a *)
(* writer's critical section is one step, since no other thread can       *)
(* observe it; a reader's lookup and its copy of the entry are two, since *)
(* the tenant read at the first is dereferenced at the second.            *)
(*                                                                         *)
(* set is handed a tenant the caller allocated (ObVipTenant objects are   *)
(* named <<thread, call>>); the map owns what it stores and              *)
(* clear_cache_map frees it with ObVipTenant::destroy() (declared in the *)
(* header, which is not in src/).                                         *)
(***************************************************************************)
EXTENDS Integers, Sequences, FiniteSets

CONSTANTS
    Threads,    \* threads calling into the cache
    Vips,       \* VIP addresses
    Ops,        \* calls the threads make: "get", "set", "update", "count", "destroy"
    MaxCalls,   \* bound: calls per thread
    None        \* NULL

ASSUME MaxCalls \in Nat

Objs == Threads \X (1..MaxCalls)
MapIds == {0, 1}

VARIABLES
    maps,       \* vt_cache_map_array_[i]: [Vips -> Objs \cup {None}]
    cur,        \* vt_cache_map_: 0, 1 or None
    writer,     \* rwlock_ held for writing by this thread, or None
    readers,    \* threads holding rwlock_ for reading
    pc,         \* [Threads -> where the thread is]
    tmp,        \* [Threads -> tmp_vt of get]
    calls,      \* [Threads -> calls made]
    destroyed,  \* tenants ObVipTenant::destroy() has run on
    held,       \* tenants their caller still owns
    created,    \* ghost: tenants built for set calls
    fresh       \* ghost: tenants stored since the last update_cache_map

vars == <<maps, cur, writer, readers, pc, tmp, calls, destroyed, held, created, fresh>>

\* The tenant thread t passes to its current set call.
NewObj(t) == <<t, calls[t]>>

Init ==
    /\ maps = [i \in MapIds |-> [v \in Vips |-> None]]
    /\ cur = 0
    /\ writer = None
    /\ readers = {}
    /\ pc = [t \in Threads |-> "idle"]
    /\ tmp = [t \in Threads |-> None]
    /\ calls = [t \in Threads |-> 0]
    /\ destroyed = {}
    /\ held = {}
    /\ created = {}
    /\ fresh = {}

\* A thread starts a call; set first builds the tenant it will pass.
Call(t) ==
    /\ pc[t] = "idle" /\ calls[t] < MaxCalls
    /\ \E op \in Ops :
         /\ pc' = [pc EXCEPT ![t] = op]
         /\ calls' = [calls EXCEPT ![t] = @ + 1]
         /\ held' = IF op = "set" THEN held \cup {<<t, calls[t] + 1>>} ELSE held
         /\ created' = IF op = "set" THEN created \cup {<<t, calls[t] + 1>>} ELSE created
    /\ UNCHANGED <<maps, cur, writer, readers, tmp, destroyed, fresh>>

\* CRLockGuard / CWLockGuard: wait until the lock is free for this mode.
ReadLock(t) ==
    /\ pc[t] \in {"get", "count"} /\ writer = None
    /\ readers' = readers \cup {t}
    /\ pc' = [pc EXCEPT ![t] = IF pc[t] = "get" THEN "get_lookup" ELSE "count_read"]
    /\ UNCHANGED <<maps, cur, writer, tmp, calls, destroyed, held, created, fresh>>

WriteLock(t) ==
    /\ pc[t] \in {"set", "update", "destroy"} /\ writer = None /\ readers = {}
    /\ writer' = t
    /\ pc' = [pc EXCEPT ![t] = pc[t] \o "_locked"]
    /\ UNCHANGED <<maps, cur, readers, tmp, calls, destroyed, held, created, fresh>>

Return(t) == pc' = [pc EXCEPT ![t] = "idle"]

Entries(i) == {maps[i][v] : v \in Vips} \ {None}

\* Variant of clear_cache_map that destroys the entries but keeps them
\* (missing reset).
ClearMap_no_reset(i) == maps[i]

\* clear_cache_map, lines 281-288: destroy every entry (the caller adds
\* Entries(i) to destroyed), then reset the map.
ClearMap(i) == [v \in Vips |-> None]

\* Variant that releases rwlock_ after the lookup, before the copy.
GetLookup_unlocked(t) ==
    /\ pc[t] = "get_lookup"
    /\ readers' = readers \ {t}
    /\ \E v \in Vips :
         IF cur = None \/ maps[cur][v] = None
         THEN Return(t) /\ UNCHANGED tmp
         ELSE /\ tmp' = [tmp EXCEPT ![t] = maps[cur][v]]
              /\ pc' = [pc EXCEPT ![t] = "get_copy"]
    /\ UNCHANGED <<maps, cur, writer, calls, destroyed, held, created, fresh>>

\* get, lines 217-223: NULL map or a miss return with the lock released;
\* a hit reads tmp_vt.
GetLookup(t) ==
    /\ pc[t] = "get_lookup"
    /\ \E v \in Vips :
         IF cur = None \/ maps[cur][v] = None
         THEN /\ readers' = readers \ {t}
              /\ Return(t) /\ UNCHANGED tmp
         ELSE /\ tmp' = [tmp EXCEPT ![t] = maps[cur][v]]
              /\ pc' = [pc EXCEPT ![t] = "get_copy"]
              /\ UNCHANGED readers
    /\ UNCHANGED <<maps, cur, writer, calls, destroyed, held, created, fresh>>

\* get, lines 224-232: copy the tenant's fields into vt; the guard
\* releases the lock on return.
GetCopy(t) ==
    /\ pc[t] = "get_copy"
    /\ readers' = readers \ {t}
    /\ tmp' = [tmp EXCEPT ![t] = None]
    /\ Return(t)
    /\ UNCHANGED <<maps, cur, writer, calls, destroyed, held, created, fresh>>

\* get_vt_cache_count, lines 198-206.
CountRead(t) ==
    /\ pc[t] = "count_read"
    /\ readers' = readers \ {t}
    /\ Return(t)
    /\ UNCHANGED <<maps, cur, writer, tmp, calls, destroyed, held, created, fresh>>

\* Variant of set whose NULL-map error path returns with rwlock_ still
\* write-locked (an unlock missed on an early return).
SetInsert_keep_lock(t) ==
    /\ pc[t] = "set_locked"
    /\ \E v \in Vips :
         CASE cur = None ->
                UNCHANGED <<maps, fresh, held, writer>>
           [] maps[cur][v] = None ->
                /\ maps' = [maps EXCEPT ![cur][v] = NewObj(t)]
                /\ fresh' = fresh \cup {NewObj(t)}
                /\ held' = held \ {NewObj(t)}
                /\ writer' = None
           [] OTHER ->
                /\ held' = held \ {NewObj(t)}
                /\ writer' = None
                /\ UNCHANGED <<maps, fresh>>
    /\ Return(t)
    /\ UNCHANGED <<cur, readers, tmp, calls, destroyed, created>>

\* set, lines 237-261: unique_set of the caller's tenant.  A tenant already
\* mapped for the VIP makes unique_set return OB_HASH_EXIST, which set turns
\* into OB_SUCCESS.  On OB_SUCCESS the caller has handed vt to the cache;
\* on an error (NULL map) it still owns it.
SetInsert(t) ==
    /\ pc[t] = "set_locked"
    /\ \E v \in Vips :
         CASE cur = None ->
                UNCHANGED <<maps, fresh, held>>
           [] maps[cur][v] = None ->
                /\ maps' = [maps EXCEPT ![cur][v] = NewObj(t)]
                /\ fresh' = fresh \cup {NewObj(t)}
                /\ held' = held \ {NewObj(t)}
           [] OTHER ->
                /\ held' = held \ {NewObj(t)}
                /\ UNCHANGED <<maps, fresh>>
    /\ writer' = None
    /\ Return(t)
    /\ UNCHANGED <<cur, readers, tmp, calls, destroyed, created>>

\* Variant of update_cache_map that switches maps without clearing the
\* live one (missing reset).
UpdateCacheMap_no_clear(t) ==
    /\ pc[t] = "update_locked"
    /\ cur' = IF cur = None THEN None ELSE 1 - cur
    /\ fresh' = IF cur = None THEN fresh ELSE {}
    /\ writer' = None
    /\ Return(t)
    /\ UNCHANGED <<maps, readers, tmp, calls, destroyed, held, created>>

\* Variant of update_cache_map that advances vt_cache_map_ instead of
\* toggling it between the two maps.
UpdateCacheMap_advance(t) ==
    /\ pc[t] = "update_locked"
    /\ IF cur = None
       THEN UNCHANGED <<maps, cur, destroyed, fresh>>
       ELSE /\ destroyed' = destroyed \cup Entries(cur)
            /\ maps' = [maps EXCEPT ![cur] = ClearMap(cur)]
            /\ cur' = cur + 1
            /\ fresh' = {}
    /\ writer' = None
    /\ Return(t)
    /\ UNCHANGED <<readers, tmp, calls, held, created>>

\* update_cache_map, lines 263-279: clear the live map, then point
\* vt_cache_map_ at the other one.
UpdateCacheMap(t) ==
    /\ pc[t] = "update_locked"
    /\ IF cur = None
       THEN UNCHANGED <<maps, cur, destroyed, fresh>>
       ELSE /\ destroyed' = destroyed \cup Entries(cur)
            /\ maps' = [maps EXCEPT ![cur] = ClearMap(cur)]
            /\ cur' = 1 - cur
            /\ fresh' = {}
    /\ writer' = None
    /\ Return(t)
    /\ UNCHANGED <<readers, tmp, calls, held, created>>

\* destroy, lines 190-196: vt_cache_map_ = NULL, clear both maps.
Destroy(t) ==
    /\ pc[t] = "destroy_locked"
    /\ cur' = None
    /\ destroyed' = destroyed \cup Entries(0) \cup Entries(1)
    /\ maps' = [i \in MapIds |-> ClearMap(i)]
    /\ writer' = None
    /\ Return(t)
    /\ UNCHANGED <<readers, tmp, calls, held, created, fresh>>

\* Every thread has made its calls.
Done ==
    /\ \A t \in Threads : pc[t] = "idle" /\ calls[t] = MaxCalls
    /\ UNCHANGED vars

Step(t) ==
    \/ Call(t) \/ ReadLock(t) \/ WriteLock(t)
    \/ GetLookup(t) \/ GetCopy(t) \/ CountRead(t)
    \/ SetInsert(t) \/ UpdateCacheMap(t) \/ Destroy(t)

Next == (\E t \in Threads : Step(t)) \/ Done

\* A thread inside a call: every step but starting the next call.
InCall(t) == Step(t) /\ pc[t] # "idle"

\* The OS runs every runnable thread, so a thread inside a call keeps
\* running; whether it makes another call is up to its caller.
Spec == Init /\ [][Next]_vars /\ \A t \in Threads : WF_vars(InCall(t))

-----------------------------------------------------------------------------
Locs == {"idle", "get", "count", "set", "update", "destroy", "get_lookup",
         "get_copy", "count_read", "set_locked", "update_locked", "destroy_locked"}

TypeOK ==
    /\ maps \in [MapIds -> [Vips -> Objs \cup {None}]]
    /\ cur \in MapIds \cup {None}
    /\ writer \in Threads \cup {None} /\ readers \subseteq Threads
    /\ pc \in [Threads -> Locs] /\ tmp \in [Threads -> Objs \cup {None}]
    /\ calls \in [Threads -> 0..MaxCalls]
    /\ destroyed \cup held \cup fresh \subseteq created /\ created \subseteq Objs

\* get dereferences tmp_vt (lines 224-225) after update_cache_map or destroy
\* may have run clear_cache_map on other threads: the read lock held from
\* the lookup to the copy must keep the tenant it found alive.
NoTenantReadAfterDestroy ==
    \A t \in Threads : pc[t] = "get_copy" => tmp[t] \notin destroyed

\* The maps never hold a tenant clear_cache_map has destroyed, and no tenant
\* is both stored and still owned by its caller (so freed twice).
MapsHoldOnlyLiveTenants ==
    \A i \in MapIds :
        /\ Entries(i) \cap (destroyed \cup held) = {}
        /\ \A j \in MapIds \ {i} : Entries(i) \cap Entries(j) = {}

\* update_cache_map is a refresh: after it, get finds only tenants set since
\* then.  The map it switches to must therefore have been emptied when it
\* was last left.
LiveMapFresh == cur # None => Entries(cur) \subseteq fresh

\* Every tenant built for set is stored, still owned by its caller, or
\* destroyed: a tenant set returns OB_SUCCESS for is never lost.
TenantsAccountedFor ==
    \A o \in created :
        o \in held \/ o \in destroyed \/ \E i \in MapIds : o \in Entries(i)

\* Every call returns: readers and writers of rwlock_ never wait forever
\* once the other threads stop making calls.
CallsReturn == \A t \in Threads : pc[t] # "idle" ~> pc[t] = "idle"

====
