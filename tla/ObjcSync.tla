------------------------------ MODULE ObjcSync ------------------------------
(***************************************************************************)
(* The implementation of @synchronized in objc4-818.2, objc-sync.mm: the   *)
(* striped lists of SyncData, the two per-thread caches, id2data, and      *)
(* objc_sync_enter, objc_sync_try_enter and objc_sync_exit on top of it.   *)
(*                                                                         *)
(* A SyncData is named <<s, k>>: the k-th one allocated on the list of     *)
(* stripe s.  New ones are pushed at the head and none is ever freed, so   *)
(* the list of s is, from head to tail, <<s, len[s]>>, ..., <<s, 1>> and   *)
(* nextData of <<s, k>> is <<s, k-1>>.                                     *)
(*                                                                         *)
(* Steps are the accesses to memory that another thread can see.  What a   *)
(* thread does to its own caches is part of the neighbouring step.         *)
(* Clients are arbitrary: they may exit what they never entered, ignore    *)
(* the answer of try_enter, and die while inside.  Calls with nil change   *)
(* nothing and are left out; the CHECK usage has no caller.                *)
(***************************************************************************)
EXTENDS Integers, FiniteSets

CONSTANTS
    Threads,         \* the threads of the process
    Objects,         \* the objects that clients synchronize on
    Stripes,         \* the lists of StripedMap<SyncList> sDataLists
    StripeOf,        \* the address hash of StripedMap: object -> stripe
    SyncCacheCount,  \* initial capacity of a SyncCache (4 in the code)
    nil,             \* the null pointer
    MaxSyncData,     \* bound: SyncData per list
    MaxLockCount,    \* bound: how deep a thread nests one object
    MaxStray         \* bound: unmatched exits that touch one SyncData

Ranks == 1..MaxSyncData
SyncDatas == Stripes \X Ranks

ASSUME ThreadsAssumption == IsFiniteSet(Threads) /\ nil \notin Threads
ASSUME ObjectsAssumption == nil \notin Objects
ASSUME StripesAssumption == IsFiniteSet(Stripes) /\ StripeOf \in [Objects -> Stripes]
ASSUME NilAssumption     == nil \notin SyncDatas
ASSUME CacheAssumption   == SyncCacheCount \in Nat \ {0}
ASSUME BoundsAssumption  == /\ MaxSyncData \in Nat
                            /\ MaxLockCount \in Nat
                            /\ MaxStray \in Nat

VARIABLES
    \* shared: the SyncData and their lists
    object,       \* SyncData.object
    threadCount,  \* SyncData.threadCount
    owner,        \* the thread inside SyncData.mutex, or nil
    depth,        \* how often the owner has locked it
    len,          \* how many SyncData are on the list of a stripe
    listLock,     \* SyncList.lock: the thread inside, or nil
    \* per thread: the fast cache (two TLS keys) and the SyncCache
    fastData,     \* SYNC_DATA_DIRECT_KEY
    fastCount,    \* SYNC_COUNT_DIRECT_KEY
    cacheCount,   \* lockCount of the SyncCache item of a SyncData, 0: no item
    used,         \* SyncCache.used
    allocated,    \* SyncCache.allocated, 0: no SyncCache
    \* per thread: the activation of the function being executed
    pc,           \* where the thread is
    func,         \* the function that the client called
    arg,          \* its argument
    p,            \* rank of the SyncData under the walk, 0: NULL
    firstUnused,  \* local of id2data
    result,       \* local of id2data
    \* history: the client's view
    held,         \* held[t][o]: enters that succeeded, less exits called
    releasing,    \* the threads executing an exit they called while inside
    stray         \* stray[d]: increments of threadCount[d] nobody will undo

pool    == <<object, threadCount, len>>
mutexes == <<owner, depth>>
caches  == <<fastData, fastCount, cacheCount, used, allocated>>
frame   == <<func, arg, p, firstUnused, result>>
vars    == <<object, threadCount, owner, depth, len, listLock, fastData,
             fastCount, cacheCount, used, allocated, pc, func, arg, p,
             firstUnused, result, held, releasing, stray>>

Funcs == {"enter", "try_enter", "exit"}
Places == {"idle", "lockList", "walk", "done", "save", "mutex", "exited",
           "fatal"}

Init ==
    /\ object = [d \in SyncDatas |-> nil]
    /\ threadCount = [d \in SyncDatas |-> 0]
    /\ owner = [d \in SyncDatas |-> nil]
    /\ depth = [d \in SyncDatas |-> 0]
    /\ len = [s \in Stripes |-> 0]
    /\ listLock = [s \in Stripes |-> nil]
    /\ fastData = [t \in Threads |-> nil]
    /\ fastCount = [t \in Threads |-> 0]
    /\ cacheCount = [t \in Threads |-> [d \in SyncDatas |-> 0]]
    /\ used = [t \in Threads |-> 0]
    /\ allocated = [t \in Threads |-> 0]
    /\ pc = [t \in Threads |-> "idle"]
    /\ func = [t \in Threads |-> "exit"]
    /\ arg = [t \in Threads |-> nil]
    /\ p = [t \in Threads |-> 0]
    /\ firstUnused = [t \in Threads |-> nil]
    /\ result = [t \in Threads |-> nil]
    /\ held = [t \in Threads |-> [o \in Objects |-> 0]]
    /\ releasing = {}
    /\ stray = [d \in SyncDatas |-> 0]

-----------------------------------------------------------------------------
(* The caches                                                              *)

\* The SyncData t has in its fast cache, or in its SyncCache, for object o.
InFastCache(t, o) == fastData[t] # nil /\ object[fastData[t]] = o
InCache(t, o, d)  == cacheCount[t][d] > 0 /\ object[d] = o

\* Mutant: a full SyncCache is used as it is.
GrownNever(t) == allocated[t]

\* fetch_cache(NO) leaves at least one open slot in a SyncCache that exists.
Grown(t) == IF used[t] = allocated[t] THEN 2 * allocated[t] ELSE allocated[t]

\* The call begins: the frame is set up, and the client's view of an exit is
\* that its critical section ends here.
Call(t, f, o, d, place) ==
    /\ pc' = [pc EXCEPT ![t] = place]
    /\ func' = [func EXCEPT ![t] = f]
    /\ arg' = [arg EXCEPT ![t] = o]
    /\ result' = [result EXCEPT ![t] = d]
    /\ IF f = "exit" /\ held[t][o] > 0
       THEN /\ held' = [held EXCEPT ![t][o] = @ - 1]
            /\ releasing' = releasing \cup {t}
       ELSE UNCHANGED <<held, releasing>>
    /\ UNCHANGED <<p, firstUnused>>

\* The function returns to the client; its locals are gone.
Return(t) ==
    /\ pc' = [pc EXCEPT ![t] = "idle"]
    /\ func' = [func EXCEPT ![t] = "exit"]
    /\ arg' = [arg EXCEPT ![t] = nil]
    /\ p' = [p EXCEPT ![t] = 0]
    /\ firstUnused' = [firstUnused EXCEPT ![t] = nil]
    /\ result' = [result EXCEPT ![t] = nil]
    /\ releasing' = releasing \ {t}

\* Mutant: no RELEASE gives it up.
LeaveSyncDataNever(f, count, d) == UNCHANGED threadCount

\* The last RELEASE of an item gives up the thread's use of the SyncData.
LeaveSyncData(f, count, d) ==
    threadCount' = IF f = "exit" /\ count = 1
                   THEN [threadCount EXCEPT ![d] = @ - 1] ELSE threadCount

Counted(f, count) == IF f = "exit" THEN count - 1 ELSE count + 1

\* id2data finds the object in the single-entry fast cache.
FastCacheHit(t, f, o) ==
    /\ pc[t] = "idle"
    /\ InFastCache(t, o)
    /\ f # "exit" => fastCount[t] < MaxLockCount
    /\ LET d == fastData[t]
           buggy == threadCount[d] <= 0 \/ fastCount[t] <= 0 IN
       /\ Call(t, f, o, d, IF buggy THEN "fatal" ELSE "mutex")
       /\ fastCount' = [fastCount EXCEPT ![t] = Counted(f, fastCount[t])]
       /\ fastData' = IF f = "exit" /\ fastCount[t] = 1
                      THEN [fastData EXCEPT ![t] = nil] ELSE fastData
       /\ LeaveSyncData(f, fastCount[t], d)
    /\ UNCHANGED <<object, len, mutexes, listLock, cacheCount, used, allocated,
                   stray>>

\* id2data finds the object in the thread's SyncCache.
CacheHit(t, f, o) ==
    /\ pc[t] = "idle"
    /\ ~ InFastCache(t, o)
    /\ \E d \in SyncDatas :
       /\ InCache(t, o, d)
       /\ f # "exit" => cacheCount[t][d] < MaxLockCount
       /\ Call(t, f, o, d, IF threadCount[d] <= 0 THEN "fatal" ELSE "mutex")
       /\ cacheCount' = [cacheCount EXCEPT ![t][d] = Counted(f, @)]
       /\ used' = IF f = "exit" /\ cacheCount[t][d] = 1
                  THEN [used EXCEPT ![t] = @ - 1] ELSE used
       /\ LeaveSyncData(f, cacheCount[t][d], d)
    /\ allocated' = [allocated EXCEPT ![t] = Grown(t)]
    /\ UNCHANGED <<object, len, mutexes, listLock, fastData, fastCount, stray>>

\* Neither cache knows the object: id2data goes to the list.
CacheMiss(t, f, o) ==
    /\ pc[t] = "idle"
    /\ ~ InFastCache(t, o)
    /\ \A d \in SyncDatas : ~ InCache(t, o, d)
    /\ f # "exit" => MaxLockCount > 0
    /\ f = "exit" => \A d \in SyncDatas : stray[d] < MaxStray
    /\ Call(t, f, o, nil, "lockList")
    /\ allocated' = [allocated EXCEPT ![t] = Grown(t)]
    /\ UNCHANGED <<pool, mutexes, listLock, fastData, fastCount, cacheCount,
                   used, stray>>

-----------------------------------------------------------------------------
(* The list of the object's stripe                                         *)

ListOf(t) == StripeOf[arg[t]]

\* Mutant: nobody waits for the list lock.
LockListUnguarded(t) ==
    /\ pc[t] = "lockList"
    /\ listLock' = [listLock EXCEPT ![ListOf(t)] = t]
    /\ p' = [p EXCEPT ![t] = len[ListOf(t)]]
    /\ firstUnused' = [firstUnused EXCEPT ![t] = nil]
    /\ pc' = [pc EXCEPT ![t] = "walk"]
    /\ UNCHANGED <<pool, mutexes, caches, func, arg, result, held, releasing, stray>>

\* lockp->lock(), and the walk starts at the head.
LockList(t) ==
    /\ pc[t] = "lockList"
    /\ listLock[ListOf(t)] = nil
    /\ listLock' = [listLock EXCEPT ![ListOf(t)] = t]
    /\ p' = [p EXCEPT ![t] = len[ListOf(t)]]
    /\ firstUnused' = [firstUnused EXCEPT ![t] = nil]
    /\ pc' = [pc EXCEPT ![t] = "walk"]
    /\ UNCHANGED <<pool, mutexes, caches, func, arg, result, held, releasing, stray>>

\* The SyncData under the walk is the object's: count this thread, whatever it
\* came for.  Nobody will undo the increment of a RELEASE.
WalkFound(t) ==
    LET d == <<ListOf(t), p[t]>> IN
    /\ pc[t] = "walk"
    /\ p[t] > 0
    /\ object[d] = arg[t]
    /\ threadCount' = [threadCount EXCEPT ![d] = @ + 1]
    /\ result' = [result EXCEPT ![t] = d]
    /\ pc' = [pc EXCEPT ![t] = "done"]
    /\ stray' = IF func[t] = "exit" THEN [stray EXCEPT ![d] = @ + 1] ELSE stray
    /\ UNCHANGED <<object, len, mutexes, listLock, caches, func, arg, p,
                   firstUnused, held, releasing>>

\* Mutant: any SyncData counts as unused.
WalkNextAny(t) ==
    LET d == <<ListOf(t), p[t]>> IN
    /\ pc[t] = "walk"
    /\ p[t] > 0
    /\ object[d] # arg[t]
    /\ firstUnused' = IF firstUnused[t] = nil
                      THEN [firstUnused EXCEPT ![t] = d] ELSE firstUnused
    /\ p' = [p EXCEPT ![t] = @ - 1]
    /\ UNCHANGED <<pool, mutexes, listLock, caches, pc, func, arg, result, held,
                   releasing, stray>>

\* It is not: remember the first unused one, go on to nextData.
WalkNext(t) ==
    LET d == <<ListOf(t), p[t]>> IN
    /\ pc[t] = "walk"
    /\ p[t] > 0
    /\ object[d] # arg[t]
    /\ firstUnused' = IF firstUnused[t] = nil /\ threadCount[d] = 0
                      THEN [firstUnused EXCEPT ![t] = d] ELSE firstUnused
    /\ p' = [p EXCEPT ![t] = @ - 1]
    /\ UNCHANGED <<pool, mutexes, listLock, caches, pc, func, arg, result, held,
                   releasing, stray>>

\* The end of the list, and a RELEASE: there is nothing to release.
WalkFails(t) ==
    /\ pc[t] = "walk"
    /\ p[t] = 0
    /\ func[t] = "exit"
    /\ pc' = [pc EXCEPT ![t] = "done"]
    /\ UNCHANGED <<pool, mutexes, listLock, caches, frame, held, releasing, stray>>

\* result becomes the SyncData of the object, with one user.
TakeSyncData(t, d) ==
    /\ object' = [object EXCEPT ![d] = arg[t]]
    /\ threadCount' = [threadCount EXCEPT ![d] = 1]
    /\ result' = [result EXCEPT ![t] = d]
    /\ pc' = [pc EXCEPT ![t] = "done"]

\* Mutant: a reused SyncData gets a new mutex, as an allocated one does.
ReuseSyncDataAnew(t) ==
    /\ pc[t] = "walk"
    /\ p[t] = 0
    /\ func[t] # "exit"
    /\ firstUnused[t] # nil
    /\ TakeSyncData(t, firstUnused[t])
    /\ owner' = [owner EXCEPT ![firstUnused[t]] = nil]
    /\ depth' = [depth EXCEPT ![firstUnused[t]] = 0]
    /\ UNCHANGED <<len, listLock, caches, func, arg, p, firstUnused, held,
                   releasing, stray>>

\* The end of the list, and an unused SyncData was seen on the way.
ReuseSyncData(t) ==
    /\ pc[t] = "walk"
    /\ p[t] = 0
    /\ func[t] # "exit"
    /\ firstUnused[t] # nil
    /\ TakeSyncData(t, firstUnused[t])
    /\ UNCHANGED <<len, mutexes, listLock, caches, func, arg, p, firstUnused,
                   held, releasing, stray>>

\* The end of the list, and none was seen: push a new one at the head.
AllocateSyncData(t) ==
    LET s == ListOf(t)
        d == <<s, len[s] + 1>> IN
    /\ pc[t] = "walk"
    /\ p[t] = 0
    /\ func[t] # "exit"
    /\ firstUnused[t] = nil
    /\ len[s] < MaxSyncData
    /\ TakeSyncData(t, d)
    /\ owner' = [owner EXCEPT ![d] = nil]
    /\ depth' = [depth EXCEPT ![d] = 0]
    /\ len' = [len EXCEPT ![s] = @ + 1]
    /\ UNCHANGED <<listLock, caches, func, arg, p, firstUnused, held, releasing,
                   stray>>

\* lockp->unlock() of a RELEASE: id2data returns nil, found or not, and
\* objc_sync_exit returns OBJC_SYNC_NOT_OWNING_THREAD_ERROR.
UnlockListAndReturn(t) ==
    /\ pc[t] = "done"
    /\ func[t] = "exit"
    /\ listLock' = [listLock EXCEPT ![ListOf(t)] = nil]
    /\ Return(t)
    /\ UNCHANGED <<pool, mutexes, caches, held, stray>>

\* Mutant: an ACQUIRE keeps the list lock.
KeepListAndSave(t) ==
    /\ pc[t] = "done"
    /\ func[t] # "exit"
    /\ pc' = [pc EXCEPT ![t] = "save"]
    /\ UNCHANGED <<pool, mutexes, listLock, caches, frame, held, releasing, stray>>

\* lockp->unlock() of an ACQUIRE.
UnlockListAndSave(t) ==
    /\ pc[t] = "done"
    /\ func[t] # "exit"
    /\ listLock' = [listLock EXCEPT ![ListOf(t)] = nil]
    /\ pc' = [pc EXCEPT ![t] = "save"]
    /\ UNCHANGED <<pool, mutexes, caches, frame, held, releasing, stray>>

\* The last of the "is buggy" checks, without the list lock.
AfterCheck(t) == IF object[result[t]] # arg[t] THEN "fatal" ELSE "mutex"

\* Remember the SyncData in the fast cache ...
SaveInFastCache(t) ==
    /\ pc[t] = "save"
    /\ fastData[t] = nil
    /\ pc' = [pc EXCEPT ![t] = AfterCheck(t)]
    /\ fastData' = [fastData EXCEPT ![t] = result[t]]
    /\ fastCount' = [fastCount EXCEPT ![t] = 1]
    /\ UNCHANGED <<pool, mutexes, listLock, cacheCount, used, allocated, frame,
                   held, releasing, stray>>

\* ... or, when that is occupied, in the SyncCache, creating it if there is none.
SaveInCache(t) ==
    /\ pc[t] = "save"
    /\ fastData[t] # nil
    /\ pc' = [pc EXCEPT ![t] = AfterCheck(t)]
    /\ cacheCount' = [cacheCount EXCEPT ![t][result[t]] = 1]
    /\ used' = [used EXCEPT ![t] = @ + 1]
    /\ allocated' = [allocated EXCEPT ![t] = IF @ = 0 THEN SyncCacheCount ELSE @]
    /\ UNCHANGED <<pool, mutexes, listLock, fastData, fastCount, frame, held,
                   releasing, stray>>

-----------------------------------------------------------------------------
(* The recursive mutex of the SyncData                                     *)

CanLock(t, d) == owner[d] \in {nil, t}

\* mutex.lock() of objc_sync_enter returns, or mutex.tryLock() of
\* objc_sync_try_enter answers YES.
MutexLock(t) ==
    LET d == result[t] IN
    /\ pc[t] = "mutex"
    /\ func[t] # "exit"
    /\ CanLock(t, d)
    /\ owner' = [owner EXCEPT ![d] = t]
    /\ depth' = [depth EXCEPT ![d] = @ + 1]
    /\ held' = [held EXCEPT ![t][arg[t]] = @ + 1]
    /\ Return(t)
    /\ UNCHANGED <<pool, listLock, caches, stray>>

\* mutex.tryLock() answers NO; the caches keep counting the attempt.
TryLockFails(t) ==
    /\ pc[t] = "mutex"
    /\ func[t] = "try_enter"
    /\ ~ CanLock(t, result[t])
    /\ Return(t)
    /\ UNCHANGED <<pool, mutexes, listLock, caches, held, stray>>

\* mutex.tryUnlock() of objc_sync_exit by the owner: OBJC_SYNC_SUCCESS.
TryUnlock(t) ==
    LET d == result[t] IN
    /\ pc[t] = "mutex"
    /\ func[t] = "exit"
    /\ owner[d] = t
    /\ depth' = [depth EXCEPT ![d] = @ - 1]
    /\ owner' = [owner EXCEPT ![d] = IF depth[d] = 1 THEN nil ELSE t]
    /\ Return(t)
    /\ UNCHANGED <<pool, listLock, caches, held, stray>>

\* ... and by anybody else: OBJC_SYNC_NOT_OWNING_THREAD_ERROR.
TryUnlockFails(t) ==
    /\ pc[t] = "mutex"
    /\ func[t] = "exit"
    /\ owner[result[t]] # t
    /\ Return(t)
    /\ UNCHANGED <<pool, mutexes, listLock, caches, held, stray>>

\* Does t count as a user of d in one of its caches?
HasItem(t, d) == fastData[t] = d \/ cacheCount[t][d] > 0

\* The thread ends: _destroySyncCache frees its SyncCache and its TLS slots are
\* gone.  The SyncData keep counting it, and keep their mutex.
ThreadExit(t) ==
    /\ pc[t] = "idle"
    /\ pc' = [pc EXCEPT ![t] = "exited"]
    /\ fastData' = [fastData EXCEPT ![t] = nil]
    /\ fastCount' = [fastCount EXCEPT ![t] = 0]
    /\ cacheCount' = [cacheCount EXCEPT ![t] = [d \in SyncDatas |-> 0]]
    /\ used' = [used EXCEPT ![t] = 0]
    /\ allocated' = [allocated EXCEPT ![t] = 0]
    /\ stray' = [d \in SyncDatas |->
                   IF HasItem(t, d) THEN stray[d] + 1 ELSE stray[d]]
    /\ UNCHANGED <<pool, mutexes, listLock, frame, held, releasing>>

-----------------------------------------------------------------------------

\* The client calls a function.
Begin(t) ==
    \E f \in Funcs, o \in Objects :
        FastCacheHit(t, f, o) \/ CacheHit(t, f, o) \/ CacheMiss(t, f, o)

\* The runtime carries it on.
Step(t) ==
    \/ LockList(t) \/ WalkFound(t) \/ WalkNext(t) \/ WalkFails(t)
    \/ ReuseSyncData(t) \/ AllocateSyncData(t)
    \/ UnlockListAndReturn(t) \/ UnlockListAndSave(t)
    \/ SaveInFastCache(t) \/ SaveInCache(t)
    \/ MutexLock(t) \/ TryLockFails(t) \/ TryUnlock(t) \/ TryUnlockFails(t)

Next == \E t \in Threads : Begin(t) \/ Step(t) \/ ThreadExit(t)

Spec == Init /\ [][Next]_vars

-----------------------------------------------------------------------------
(* Properties                                                              *)

TypeOK ==
    /\ object \in [SyncDatas -> Objects \cup {nil}]
    /\ threadCount \in [SyncDatas -> Nat]
    /\ owner \in [SyncDatas -> Threads \cup {nil}]
    /\ depth \in [SyncDatas -> Nat]
    /\ len \in [Stripes -> 0..MaxSyncData]
    /\ listLock \in [Stripes -> Threads \cup {nil}]
    /\ fastData \in [Threads -> SyncDatas \cup {nil}]
    /\ fastCount \in [Threads -> Nat]
    /\ cacheCount \in [Threads -> [SyncDatas -> Nat]]
    /\ used \in [Threads -> Nat]
    /\ allocated \in [Threads -> Nat]
    /\ pc \in [Threads -> Places]
    /\ func \in [Threads -> Funcs]
    /\ arg \in [Threads -> Objects \cup {nil}]
    /\ p \in [Threads -> 0..MaxSyncData]
    /\ firstUnused \in [Threads -> SyncDatas \cup {nil}]
    /\ result \in [Threads -> SyncDatas \cup {nil}]
    /\ held \in [Threads -> [Objects -> Nat]]
    /\ releasing \in SUBSET Threads
    /\ stray \in [SyncDatas -> Nat]

\* Two threads are never inside @synchronized on the same object, whatever
\* else clients do: exits without enters, failed attempts, dying inside.  An
\* object's SyncData must neither be duplicated nor reassigned under a holder.
MutualExclusion ==
    \A t, u \in Threads, o \in Objects :
        held[t][o] > 0 /\ held[u][o] > 0 => t = u

\* No object has two SyncData on its list.  The list lock must cover the walk
\* and the assignment together (the comment at objc-sync.mm:197).
UniqueSyncData ==
    \A s \in Stripes : \A j, k \in 1..len[s] :
        object[<<s, j>>] = object[<<s, k>>] => j = k

\* None of the "is buggy" checks of id2data ever stops the process, although
\* they read shared memory after the list lock is gone (or without it).
NoFatal == \A t \in Threads : pc[t] # "fatal"

\* The users of a SyncData: the threads with an item for it in a cache, and
\* those on their way to save one.
IsUser(t, d) ==
    \/ HasItem(t, d)
    \/ pc[t] \in {"done", "save"} /\ func[t] # "exit" /\ result[t] = d
Users(d) == {t \in Threads : IsUser(t, d)}

\* threadCount is exactly the number of users plus the increments that were
\* leaked: atomic decrements of RELEASE race with the list-locked increments of
\* ACQUIRE and none is lost or counted twice.
ThreadCountExact ==
    \A d \in SyncDatas : threadCount[d] = Cardinality(Users(d)) + stray[d]

\* Save always has an open slot, although fetch_cache makes room only during
\* the lookup, and no SyncData gets two items in one SyncCache.
Items(t) == {d \in SyncDatas : cacheCount[t][d] > 0}
CacheInBounds ==
    \A t \in Threads : used[t] <= allocated[t] /\ used[t] = Cardinality(Items(t))

\* objc_sync_exit succeeds exactly for a thread that was inside when it called:
\* a RELEASE gives up its use of the SyncData before it unlocks the mutex, so
\* by then the SyncData may already belong to another object, whose first user
\* must find the mutex as it is.
ExitReportsOwnership ==
    \A t \in Threads : func[t] = "exit" =>
        /\ pc[t] = "mutex" => (t \in releasing <=> owner[result[t]] = t)
        /\ pc[t] \in {"lockList", "walk", "done"} => t \notin releasing

\* A SyncData changes its object only when no thread uses it and no thread is
\* inside the object it had.
InUseKeepsObject ==
    [][\A d \in SyncDatas : object'[d] # object[d] =>
           /\ Users(d) = {}
           /\ \A t \in Threads, o \in Objects :
                  object[d] = o => held[t][o] = 0]_vars

=============================================================================
