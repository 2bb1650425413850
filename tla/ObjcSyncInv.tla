---------------------------- MODULE ObjcSyncInv ----------------------------
(***************************************************************************)
(* The inductive invariant of ObjcSync, one operator per idea.  The proofs *)
(* are in ObjcSyncProofs; TLC checks IndInv as an invariant of a run.      *)
(***************************************************************************)
EXTENDS ObjcSync

\* A call is being executed, so the thread's arg is its argument.
Busy(t) == pc[t] \in {"lockList", "walk", "done", "save", "mutex"}
\* ... between lockp->lock() and lockp->unlock().
InList(t) == pc[t] \in {"walk", "done"}
\* ... and it will save its result in a cache.
Saving(t) == pc[t] \in {"done", "save"} /\ func[t] # "exit"

\* The arguments of a call, and who is in the process.
CallInv == \A t \in Threads :
    /\ pc[t] # "fatal"
    /\ Busy(t) => arg[t] \in Objects
    /\ InList(t) => listLock[ListOf(t)] = t

\* Every SyncData on a list has an object of that stripe; the others are blank.
ListAt(s, k) ==
    /\ k <= len[s] => /\ object[<<s, k>>] \in Objects
                      /\ StripeOf[object[<<s, k>>]] = s
    /\ k > len[s] => /\ object[<<s, k>>] = nil
                     /\ owner[<<s, k>>] = nil
                     /\ threadCount[<<s, k>>] = 0
ListInv == \A s \in Stripes, k \in Ranks : ListAt(s, k)

\* No two SyncData have the same object.
UniqueObject == \A d, e \in SyncDatas :
    object[d] = object[e] /\ object[d] # nil => d = e

\* What a walk knows: the SyncData already passed are not the object's, and the
\* one set aside is on the list and still unused.
WalkOf(t) == pc[t] = "walk" =>
    /\ p[t] <= len[ListOf(t)]
    /\ \A k \in Ranks : k > p[t] => object[<<ListOf(t), k>>] # arg[t]
    /\ firstUnused[t] # nil =>
           /\ \E k \in Ranks : /\ k <= len[ListOf(t)]
                               /\ firstUnused[t] = <<ListOf(t), k>>
           /\ threadCount[firstUnused[t]] = 0
WalkInv == \A t \in Threads : WalkOf(t)

\* The items of the caches: counts are positive, none is in both caches, and
\* each is for a SyncData that has an object.
ItemInv == \A t \in Threads :
    /\ fastData[t] # nil => fastCount[t] > 0
    /\ pc[t] = "exited" => \A d \in SyncDatas : ~ HasItem(t, d)
    /\ \A d \in SyncDatas :
       /\ fastData[t] = d => cacheCount[t][d] = 0
       /\ HasItem(t, d) => object[d] # nil

\* A thread that missed its caches has no item for its argument; one that saves
\* a SyncData, or is about to lock its mutex, has the right one.
ResultInv == \A t \in Threads :
    /\ pc[t] \in {"lockList", "walk"} =>
           \A d \in SyncDatas : HasItem(t, d) => object[d] # arg[t]
    /\ pc[t] = "save" => func[t] # "exit"
    /\ Saving(t) => /\ result[t] \in SyncDatas
                    /\ object[result[t]] = arg[t]
                    /\ ~ HasItem(t, result[t])
    /\ pc[t] = "mutex" => result[t] \in SyncDatas
    /\ pc[t] = "mutex" /\ func[t] # "exit" => /\ HasItem(t, result[t])
                                              /\ object[result[t]] = arg[t]

\* How often t has counted itself on d in its caches, how often it has locked
\* the mutex, and whether it is about to unlock it.
LockCount(t, d) == IF fastData[t] = d THEN fastCount[t] ELSE cacheCount[t][d]
Depth(t, d) == IF owner[d] = t THEN depth[d] ELSE 0
Pending(t, d) == IF /\ pc[t] = "mutex" /\ func[t] = "exit"
                    /\ result[t] = d /\ t \in releasing THEN 1 ELSE 0

\* Only a thread that is about to unlock is releasing.
ReleasingInv == \A t \in releasing : pc[t] = "mutex" /\ func[t] = "exit"

\* A mutex is free, or its owner has locked it.
MutexInv == \A d \in SyncDatas : owner[d] = nil <=> depth[d] = 0

\* The client's view is what the mutexes say.
HeldInv == \A t \in Threads :
    /\ \A d \in SyncDatas : object[d] # nil =>
           Depth(t, d) = held[t][object[d]] + Pending(t, d)
    /\ \A o \in Objects : held[t][o] > 0 =>
           \E d \in SyncDatas : object[d] = o

\* A thread inside an object is a user of its SyncData.
UseInv == \A t \in Threads, d \in SyncDatas : object[d] # nil =>
    /\ pc[t] # "exited" => held[t][object[d]] <= LockCount(t, d)
    /\ pc[t] = "exited" /\ held[t][object[d]] > 0 => stray[d] > 0
    /\ pc[t] = "mutex" /\ func[t] # "exit" /\ result[t] = d =>
           held[t][object[d]] < LockCount(t, d)

\* A SyncCache that was looked up has room for one more item.
RoomInv == \A t \in Threads :
    /\ allocated[t] = 0 => used[t] = 0
    /\ pc[t] \in {"lockList", "walk", "done", "save"} /\ allocated[t] > 0 =>
           used[t] < allocated[t]

\* The inductive invariant: it implies every safety invariant of ObjcSync.
IndInv ==
    /\ TypeOK
    /\ CallInv
    /\ ListInv
    /\ UniqueObject
    /\ WalkInv
    /\ ItemInv
    /\ ResultInv
    /\ ReleasingInv
    /\ MutexInv
    /\ HeldInv
    /\ UseInv
    /\ RoomInv
    /\ ThreadCountExact
    /\ CacheInBounds
    /\ ExitReportsOwnership

=============================================================================
