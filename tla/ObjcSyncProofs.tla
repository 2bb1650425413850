--------------------------- MODULE ObjcSyncProofs ---------------------------
(***************************************************************************)
(* The safety of ObjcSync for every set of threads, objects and stripes:   *)
(* IndInv (module ObjcSyncInv) is inductive and implies the invariants.    *)
(* What the programs of ObjcSyncClient leave behind follows in the last    *)
(* section.                                                                *)
(***************************************************************************)
EXTENDS ObjcSyncInv, ObjcSyncClient, FiniteSetTheorems, TLAPS

\* The SyncData are finitely many.
LEMMA SyncDatasFinite == IsFiniteSet(SyncDatas)
<1>1. IsFiniteSet(Ranks)
    BY FS_Interval, BoundsAssumption DEF Ranks
<1> QED BY <1>1, FS_Product, StripesAssumption DEF SyncDatas

\* So are the users of one, and it has none exactly when their number is zero.
LEMMA UsersFinite ==
    ASSUME NEW d
    PROVE  /\ IsFiniteSet(Users(d))
           /\ Cardinality(Users(d)) \in Nat
           /\ Cardinality(Users(d)) = 0 <=> Users(d) = {}
<1>1. Users(d) \in SUBSET Threads
    BY DEF Users
<1>2. IsFiniteSet(Users(d))
    BY <1>1, FS_Subset, ThreadsAssumption
<1> QED BY <1>2, FS_CardinalityType, FS_EmptySet

\* A SyncData that a thread uses has a positive threadCount.
LEMMA UsedIsCounted ==
    ASSUME TypeOK, ThreadCountExact, NEW d \in SyncDatas,
           NEW t \in Users(d)
    PROVE  threadCount[d] > 0
<1>1. Cardinality(Users(d)) \in Nat /\ Cardinality(Users(d)) # 0
    BY UsersFinite
<1>2. stray[d] \in Nat /\ threadCount[d] = Cardinality(Users(d)) + stray[d]
    BY DEF TypeOK, ThreadCountExact
<1> QED BY <1>1, <1>2

\* One whose threadCount is zero has no user and no leaked increment.
LEMMA UncountedIsUnused ==
    ASSUME TypeOK, ThreadCountExact, NEW d \in SyncDatas, threadCount[d] = 0
    PROVE  /\ Users(d) = {}
           /\ stray[d] = 0
           /\ \A u \in Threads : ~ HasItem(u, d)
<1>1. stray[d] \in Nat /\ 0 = Cardinality(Users(d)) + stray[d]
    BY DEF TypeOK, ThreadCountExact
<1>2. Cardinality(Users(d)) = 0 /\ stray[d] = 0
    BY <1>1, UsersFinite
<1>3. Users(d) = {}
    BY <1>2, UsersFinite
<1> QED BY <1>2, <1>3 DEF Users, IsUser

\* What a place on a list is.
LEMMA Located ==
    /\ \A s \in Stripes, k \in Ranks : <<s, k>> \in SyncDatas
    /\ \A d \in SyncDatas : \E s \in Stripes, k \in Ranks : d = <<s, k>>
    /\ \A d \in SyncDatas : d # nil
BY NilAssumption DEF SyncDatas

\* A step that changes the users, the counter and the leaks of one SyncData
\* only, and keeps its balance.
LEMMA BalanceStep ==
    ASSUME ThreadCountExact, NEW d \in SyncDatas,
           \A e \in SyncDatas \ {d} : /\ \A u \in Threads : IsUser(u, e)' <=> IsUser(u, e)
                                      /\ threadCount'[e] = threadCount[e]
                                      /\ stray'[e] = stray[e],
           threadCount'[d] = Cardinality(Users(d)') + stray'[d]
    PROVE  ThreadCountExact'
<1>1. \A e \in SyncDatas \ {d} : Users(e)' = Users(e)
    BY DEF Users
<1> QED BY <1>1 DEF ThreadCountExact

\* A step that changes none of them.
LEMMA BalanceKept ==
    ASSUME ThreadCountExact,
           \A d \in SyncDatas, u \in Threads : IsUser(u, d)' <=> IsUser(u, d),
           UNCHANGED <<threadCount, stray>>
    PROVE  ThreadCountExact'
<1>1. \A d \in SyncDatas : Users(d)' = Users(d)
    BY DEF Users
<1> QED BY <1>1 DEF ThreadCountExact

\* So are the items of a SyncCache.
LEMMA ItemsFinite ==
    ASSUME NEW t
    PROVE  IsFiniteSet(Items(t)) /\ Cardinality(Items(t)) \in Nat
<1>1. Items(t) \in SUBSET SyncDatas
    BY DEF Items
<1> QED BY <1>1, SyncDatasFinite, FS_Subset, FS_CardinalityType

\* A step that leaves the SyncCaches of other threads alone.
LEMMA ItemsStep ==
    ASSUME CacheInBounds, NEW t \in Threads,
           \A u \in Threads \ {t} :
               /\ used'[u] = used[u]
               /\ allocated'[u] = allocated[u]
               /\ \A e \in SyncDatas : cacheCount'[u][e] = cacheCount[u][e],
           used'[t] <= allocated'[t],
           used'[t] = Cardinality(Items(t)')
    PROVE  CacheInBounds'
<1>1. \A u \in Threads \ {t} : Items(u)' = Items(u)
    BY DEF Items
<1> QED BY <1>1 DEF CacheInBounds

-----------------------------------------------------------------------------
(* The list: walking it                                                    *)

\* Taking the list lock preserves the invariant: the walk starts before the head.
LEMMA LockListPreserves ==
    ASSUME IndInv, NEW t \in Threads,
           LockList(t)
    PROVE  IndInv'
<1> USE DEF IndInv
<1>1. TypeOK'
    BY StripesAssumption, BoundsAssumption DEF TypeOK, Places, Funcs,
       LockList, pool, mutexes, caches, CallInv, Busy, ListOf, SyncDatas,
       Ranks
<1>2. CallInv'
    BY StripesAssumption, ThreadsAssumption DEF CallInv, Busy, InList, ListOf,
       LockList, pool, mutexes, caches, TypeOK
<1>3. ListInv'
    BY DEF ListInv, ListAt, LockList, pool, mutexes, caches
<1>4. UniqueObject'
    BY DEF UniqueObject, LockList, pool, mutexes, caches
<1>5. WalkInv'
    BY StripesAssumption, BoundsAssumption, ObjectsAssumption DEF WalkInv,
       WalkOf, ListOf, LockList, pool, mutexes, caches, TypeOK, CallInv, Busy,
       InList, ListInv, ListAt, SyncDatas, Ranks
<1>6. ItemInv'
    BY DEF ItemInv, HasItem, LockList, pool, mutexes, caches, TypeOK
<1>7. ResultInv'
    BY DEF ResultInv, HasItem, Saving, LockList, pool, mutexes, caches, TypeOK
<1>8. ReleasingInv'
    BY DEF ReleasingInv, LockList, pool, mutexes, caches, TypeOK
<1>9. MutexInv'
    BY DEF MutexInv, LockList, pool, mutexes, caches, TypeOK
<1>10. HeldInv'
    BY DEF HeldInv, Depth, Pending, LockList, pool, mutexes, caches, TypeOK
<1>11. UseInv'
    BY DEF UseInv, LockCount, LockList, pool, mutexes, caches, TypeOK
<1>12. RoomInv'
    BY DEF RoomInv, LockList, pool, mutexes, caches, TypeOK
<1>13. ThreadCountExact'
    BY BalanceKept DEF IsUser, HasItem, LockList, pool, mutexes, caches, TypeOK
<1>14. CacheInBounds'
    BY DEF CacheInBounds, Items, LockList, pool, mutexes, caches, TypeOK
<1>15. ExitReportsOwnership'
    BY DEF ExitReportsOwnership, LockList, pool, mutexes, caches, TypeOK
<1> QED BY <1>1, <1>2, <1>3, <1>4, <1>5, <1>6, <1>7, <1>8, <1>9, <1>10, <1>11,
       <1>12, <1>13, <1>14, <1>15

\* Finding the object preserves the invariant: one more user, or one more leak.
LEMMA WalkFoundPreserves ==
    ASSUME IndInv, NEW t \in Threads,
           WalkFound(t)
    PROVE  IndInv'
<1> USE DEF IndInv
<1>0. PICK d \in SyncDatas : d = <<ListOf(t), p[t]>>
    BY StripesAssumption DEF WalkFound, TypeOK, CallInv, Busy, ListOf, SyncDatas, Ranks
<1>a. /\ arg[t] \in Objects /\ object[d] = arg[t]
      /\ d # nil /\ arg[t] # nil
    BY <1>0, NilAssumption, ObjectsAssumption
       DEF WalkFound, TypeOK, CallInv, Busy
<1>b. /\ pc[t] = "walk"
      /\ threadCount' = [threadCount EXCEPT ![d] = @ + 1]
      /\ result' = [result EXCEPT ![t] = d]
      /\ pc' = [pc EXCEPT ![t] = "done"]
      /\ stray' = IF func[t] = "exit" THEN [stray EXCEPT ![d] = @ + 1] ELSE stray
      /\ UNCHANGED <<object, len, owner>>
    BY <1>0 DEF WalkFound, mutexes
<1>c. /\ UNCHANGED caches
      /\ UNCHANGED <<arg, func, p, firstUnused, held>>
    BY DEF WalkFound
<1>d. \A s \in Stripes, k \in Ranks : k > len[s] => <<s, k>> # d
    BY <1>a, ObjectsAssumption DEF ListInv, ListAt
<1>e. ASSUME NEW u \in Threads, u # t, pc[u] = "walk", firstUnused[u] # nil
      PROVE  firstUnused[u] \in SyncDatas \ {d}
    <2>1. ListOf(u) # ListOf(t)
        BY <1>e DEF WalkFound, CallInv, InList
    <2>2. PICK k \in Ranks : firstUnused[u] = <<ListOf(u), k>>
        BY <1>e DEF WalkInv, WalkOf
    <2>3. firstUnused[u] # d
        BY <1>0, <2>1, <2>2
    <2> QED BY <2>3, <1>e DEF TypeOK
<1>1. TypeOK'
    BY StripesAssumption, BoundsAssumption DEF TypeOK, Places, Funcs,
       WalkFound, mutexes, caches, CallInv, Busy, ListOf, SyncDatas, Ranks
<1>2. CallInv'
    BY DEF CallInv, Busy, InList, ListOf, WalkFound, mutexes, caches, TypeOK
<1>3. ListInv'
    <2> SUFFICES ASSUME NEW s \in Stripes, NEW k \in Ranks
                 PROVE  ListAt(s, k)'
        BY DEF ListInv
    <2>1. <<s, k>> \in SyncDatas
        BY Located
    <2>2. k > len[s] => threadCount'[<<s, k>>] = threadCount[<<s, k>>]
        BY <2>1, <1>b, <1>d DEF TypeOK
    <2> QED BY <2>2, <1>b DEF ListInv, ListAt
<1>4. UniqueObject'
    BY DEF UniqueObject, WalkFound, mutexes, caches
<1>5. WalkInv'
    <2>1. \A u \in Threads : pc'[u] = "walk" => u # t /\ pc[u] = "walk"
        BY <1>b DEF TypeOK
    <2> QED BY <2>1, <1>a, <1>b, <1>c, <1>e DEF WalkInv, WalkOf, ListOf, TypeOK
<1>6. ItemInv'
    BY DEF ItemInv, HasItem, WalkFound, mutexes, caches, TypeOK
<1>7. ResultInv'
    BY <1>a, <1>b, <1>c DEF ResultInv, HasItem, Saving, TypeOK, caches
<1>8. ReleasingInv'
    BY DEF ReleasingInv, WalkFound, mutexes, caches, TypeOK
<1>9. MutexInv'
    BY DEF MutexInv, WalkFound, mutexes, caches, TypeOK
<1>10. HeldInv'
    BY DEF HeldInv, Depth, Pending, WalkFound, mutexes, caches, TypeOK
<1>11. UseInv'
    BY <1>a, <1>b, <1>c DEF UseInv, LockCount, TypeOK, caches
<1>12. RoomInv'
    BY DEF RoomInv, WalkFound, mutexes, caches, TypeOK
<1>13. ThreadCountExact'
    <2>1. \A e \in SyncDatas \ {d} :
              /\ \A u \in Threads : IsUser(u, e)' <=> IsUser(u, e)
              /\ threadCount'[e] = threadCount[e]
              /\ stray'[e] = stray[e]
        BY <1>a, <1>b, <1>c DEF IsUser, HasItem, caches, TypeOK
    <2>2. /\ threadCount'[d] = threadCount[d] + 1
          /\ threadCount[d] = Cardinality(Users(d)) + stray[d]
          /\ stray[d] \in Nat
        BY <1>a, <1>b DEF ThreadCountExact, TypeOK
    <2>3. CASE func[t] = "exit"
        <3>1. \A u \in Threads : IsUser(u, d)' <=> IsUser(u, d)
            BY <2>3, <1>b, <1>c DEF IsUser, HasItem, caches, TypeOK
        <3>2. Users(d)' = Users(d)
            BY <3>1 DEF Users
        <3>3. stray'[d] = stray[d] + 1
            BY <2>3, <1>a, <1>b DEF TypeOK
        <3> QED BY <2>1, <2>2, <3>2, <3>3, <1>a, UsersFinite, BalanceStep
    <2>4. CASE func[t] # "exit"
        <3>1. \A u \in Threads : IsUser(u, d)' <=> IsUser(u, d) \/ u = t
            BY <2>4, <1>a, <1>b, <1>c DEF IsUser, HasItem, caches, TypeOK
        <3>2. Users(d)' = Users(d) \cup {t}
            BY <3>1 DEF Users
        <3>3. t \notin Users(d)
            BY <2>4, <1>a, <1>b DEF Users, IsUser, ResultInv
        <3>4. Cardinality(Users(d)') = Cardinality(Users(d)) + 1
            BY <3>2, <3>3, UsersFinite, FS_AddElement
        <3>5. stray'[d] = stray[d]
            BY <2>4, <1>a, <1>b DEF TypeOK
        <3> QED BY <2>1, <2>2, <3>4, <3>5, <1>a, UsersFinite, BalanceStep
    <2> QED BY <2>3, <2>4
<1>14. CacheInBounds'
    BY DEF CacheInBounds, Items, WalkFound, mutexes, caches, TypeOK
<1>15. ExitReportsOwnership'
    BY DEF ExitReportsOwnership, WalkFound, mutexes, caches, TypeOK
<1> QED BY <1>1, <1>2, <1>3, <1>4, <1>5, <1>6, <1>7, <1>8, <1>9, <1>10, <1>11,
       <1>12, <1>13, <1>14, <1>15

\* Passing a SyncData preserves the invariant: it is not the object's.
LEMMA WalkNextPreserves ==
    ASSUME IndInv, NEW t \in Threads,
           WalkNext(t)
    PROVE  IndInv'
<1> USE DEF IndInv
<1>1. TypeOK'
    BY StripesAssumption, BoundsAssumption DEF TypeOK, Places, Funcs,
       WalkNext, pool, mutexes, caches, CallInv, Busy, ListOf, SyncDatas,
       Ranks
<1>2. CallInv'
    BY DEF CallInv, Busy, InList, ListOf, WalkNext, pool, mutexes, caches,
       TypeOK
<1>3. ListInv'
    BY DEF ListInv, ListAt, WalkNext, pool, mutexes, caches
<1>4. UniqueObject'
    BY DEF UniqueObject, WalkNext, pool, mutexes, caches
<1>5. WalkInv'
    <2>1. \A u \in Threads \ {t} : WalkOf(u)'
        BY DEF WalkInv, WalkOf, WalkNext, pool, TypeOK, ListOf
    <2> DEFINE d == <<ListOf(t), p[t]>>
    <2>2. /\ ListOf(t) \in Stripes /\ p[t] \in Ranks /\ d # nil
          /\ p[t] <= len[ListOf(t)] /\ len[ListOf(t)] \in Nat
        BY Located, StripesAssumption, BoundsAssumption
           DEF WalkNext, WalkInv, WalkOf, TypeOK, CallInv, Busy, ListOf, Ranks
    <2>3. /\ p'[t] = p[t] - 1
          /\ UNCHANGED <<pool, arg, pc>>
          /\ ListOf(t)' = ListOf(t)
          /\ object[d] # arg[t]
        BY DEF WalkNext, TypeOK, ListOf
    <2>10. \/ firstUnused'[t] = firstUnused[t]
           \/ firstUnused'[t] = d /\ threadCount[d] = 0
        BY DEF WalkNext, TypeOK
    <2>4. \A k \in Ranks : k > p[t] - 1 => k = p[t] \/ k > p[t]
        BY <2>2, BoundsAssumption DEF Ranks
    <2>5. WalkOf(t) /\ pc[t] = "walk"
        BY DEF WalkInv, WalkNext
    <2> HIDE DEF d
    <2>7. p'[t] <= len'[ListOf(t)']
        BY <2>2, <2>3, BoundsAssumption DEF pool, Ranks
    <2>8. \A k \in Ranks : k > p'[t] => object'[<<ListOf(t)', k>>] # arg'[t]
        BY <2>2, <2>3, <2>4, <2>5 DEF pool, WalkOf, d
    <2>9. firstUnused'[t] # nil =>
              /\ \E k \in Ranks : /\ k <= len'[ListOf(t)']
                                  /\ firstUnused'[t] = <<ListOf(t)', k>>
              /\ threadCount'[firstUnused'[t]] = 0
        BY <2>2, <2>3, <2>5, <2>10 DEF pool, WalkOf, d
    <2>6. WalkOf(t)'
        BY <2>7, <2>8, <2>9 DEF WalkOf
    <2> QED BY <2>1, <2>6 DEF WalkInv
<1>6. ItemInv'
    BY DEF ItemInv, HasItem, WalkNext, pool, mutexes, caches, TypeOK
<1>7. ResultInv'
    BY DEF ResultInv, HasItem, Saving, WalkNext, pool, mutexes, caches, TypeOK
<1>8. ReleasingInv'
    BY DEF ReleasingInv, WalkNext, pool, mutexes, caches, TypeOK
<1>9. MutexInv'
    BY DEF MutexInv, WalkNext, pool, mutexes, caches, TypeOK
<1>10. HeldInv'
    BY DEF HeldInv, Depth, Pending, WalkNext, pool, mutexes, caches, TypeOK
<1>11. UseInv'
    BY DEF UseInv, LockCount, WalkNext, pool, mutexes, caches, TypeOK
<1>12. RoomInv'
    BY DEF RoomInv, WalkNext, pool, mutexes, caches, TypeOK
<1>13. ThreadCountExact'
    BY BalanceKept DEF IsUser, HasItem, WalkNext, pool, mutexes, caches, TypeOK
<1>14. CacheInBounds'
    BY DEF CacheInBounds, Items, WalkNext, pool, mutexes, caches, TypeOK
<1>15. ExitReportsOwnership'
    BY DEF ExitReportsOwnership, WalkNext, pool, mutexes, caches, TypeOK
<1> QED BY <1>1, <1>2, <1>3, <1>4, <1>5, <1>6, <1>7, <1>8, <1>9, <1>10, <1>11,
       <1>12, <1>13, <1>14, <1>15

\* A RELEASE that finds nothing preserves the invariant.
LEMMA WalkFailsPreserves ==
    ASSUME IndInv, NEW t \in Threads,
           WalkFails(t)
    PROVE  IndInv'
<1> USE DEF IndInv
<1>1. TypeOK'
    BY StripesAssumption, BoundsAssumption DEF TypeOK, Places, Funcs,
       WalkFails, pool, mutexes, caches, frame, CallInv, Busy, ListOf,
       SyncDatas, Ranks
<1>2. CallInv'
    BY DEF CallInv, Busy, InList, ListOf, WalkFails, pool, mutexes, caches,
       frame, TypeOK
<1>3. ListInv'
    BY DEF ListInv, ListAt, WalkFails, pool, mutexes, caches, frame
<1>4. UniqueObject'
    BY DEF UniqueObject, WalkFails, pool, mutexes, caches, frame
<1>5. WalkInv'
    BY DEF WalkInv, WalkOf, ListOf, WalkFails, pool, mutexes, caches, frame,
       TypeOK
<1>6. ItemInv'
    BY DEF ItemInv, HasItem, WalkFails, pool, mutexes, caches, frame, TypeOK
<1>7. ResultInv'
    BY DEF ResultInv, HasItem, Saving, WalkFails, pool, mutexes, caches,
       frame, TypeOK
<1>8. ReleasingInv'
    BY DEF ReleasingInv, WalkFails, pool, mutexes, caches, frame, TypeOK
<1>9. MutexInv'
    BY DEF MutexInv, WalkFails, pool, mutexes, caches, frame, TypeOK
<1>10. HeldInv'
    BY DEF HeldInv, Depth, Pending, WalkFails, pool, mutexes, caches, frame,
       TypeOK
<1>11. UseInv'
    BY DEF UseInv, LockCount, WalkFails, pool, mutexes, caches, frame, TypeOK
<1>12. RoomInv'
    BY DEF RoomInv, WalkFails, pool, mutexes, caches, frame, TypeOK
<1>13. ThreadCountExact'
    BY BalanceKept DEF IsUser, HasItem, WalkFails, pool, mutexes, caches, frame, TypeOK
<1>14. CacheInBounds'
    BY DEF CacheInBounds, Items, WalkFails, pool, mutexes, caches, frame,
       TypeOK
<1>15. ExitReportsOwnership'
    BY DEF ExitReportsOwnership, WalkFails, pool, mutexes, caches, frame,
       TypeOK
<1> QED BY <1>1, <1>2, <1>3, <1>4, <1>5, <1>6, <1>7, <1>8, <1>9, <1>10, <1>11,
       <1>12, <1>13, <1>14, <1>15

-----------------------------------------------------------------------------
(* Taking a SyncData for a new object                                      *)

\* At the end of a walk no SyncData of any list is the object's.
LEMMA WalkedAll ==
    ASSUME IndInv, NEW t \in Threads, pc[t] = "walk", p[t] = 0
    PROVE  /\ arg[t] \in Objects /\ ListOf(t) \in Stripes
           /\ \A e \in SyncDatas : object[e] # arg[t]
<1>1. arg[t] \in Objects /\ arg[t] # nil /\ ListOf(t) \in Stripes
    BY ObjectsAssumption, StripesAssumption DEF IndInv, CallInv, Busy, ListOf
<1>2. SUFFICES ASSUME NEW s \in Stripes, NEW k \in Ranks,
                      object[<<s, k>>] = arg[t]
               PROVE  FALSE
    BY <1>1, Located
<1>3. k \in Nat /\ k > 0 /\ len[s] \in Nat
    BY BoundsAssumption DEF IndInv, TypeOK, Ranks
<1>4. s = ListOf(t)
    BY <1>1, <1>2, <1>3 DEF IndInv, ListInv, ListAt, ListOf
<1> QED BY <1>2, <1>3, <1>4 DEF IndInv, WalkInv, WalkOf

\* What ReuseSyncData and AllocateSyncData have in common.
TakeStep(t, d) ==
    /\ pc[t] = "walk" /\ func[t] # "exit" /\ arg[t] \in Objects
    /\ threadCount[d] = 0
    /\ \A e \in SyncDatas : object[e] # arg[t]
    /\ object' = [object EXCEPT ![d] = arg[t]]
    /\ threadCount' = [threadCount EXCEPT ![d] = 1]
    /\ result' = [result EXCEPT ![t] = d]
    /\ pc' = [pc EXCEPT ![t] = "done"]
    /\ UNCHANGED <<owner, depth, listLock, func, arg, held, releasing, stray>>
    /\ UNCHANGED caches

\* No thread is inside the object of a SyncData whose threadCount is zero.
LEMMA UncountedIsFree ==
    ASSUME IndInv, NEW d \in SyncDatas, threadCount[d] = 0,
           NEW u \in Threads
    PROVE  /\ LockCount(u, d) = 0
           /\ object[d] # nil => held[u][object[d]] = 0
           /\ Depth(u, d) = Pending(u, d)
<1>1. ~ HasItem(u, d) /\ stray[d] = 0
    BY UncountedIsUnused DEF IndInv
<1>2. LockCount(u, d) = 0
    BY <1>1 DEF LockCount, HasItem, IndInv, TypeOK
<1>3. ASSUME object[d] # nil
      PROVE  held[u][object[d]] = 0 /\ Depth(u, d) = Pending(u, d)
    <2>1. object[d] \in Objects /\ held[u][object[d]] \in Nat
        BY <1>3 DEF IndInv, TypeOK
    <2>2. held[u][object[d]] = 0
        BY <1>1, <1>2, <1>3, <2>1 DEF IndInv, UseInv
    <2>3. Depth(u, d) = held[u][object[d]] + Pending(u, d)
        BY <1>3 DEF IndInv, HeldInv
    <2> QED BY <2>2, <2>3 DEF Pending
<1>4. ASSUME object[d] = nil
      PROVE  Depth(u, d) = Pending(u, d)
    <2>1. owner[d] = nil
        <3>1. PICK s \in Stripes, k \in Ranks : d = <<s, k>>
            BY Located
        <3>2. k > len[s]
            BY <3>1, <1>4, BoundsAssumption, ObjectsAssumption
               DEF IndInv, ListInv, ListAt, TypeOK, Ranks
        <3> QED BY <3>1, <3>2 DEF IndInv, ListInv, ListAt
    <2> QED BY <2>1, ThreadsAssumption DEF Depth, Pending, IndInv, ExitReportsOwnership
<1> QED BY <1>2, <1>3, <1>4

\* Such a step preserves all that is not about the shape of the lists.
LEMMA TakePreserves ==
    ASSUME IndInv, NEW t \in Threads, NEW d \in SyncDatas, TakeStep(t, d)
    PROVE  /\ UniqueObject'
           /\ ItemInv'
           /\ ResultInv'
           /\ ReleasingInv'
           /\ MutexInv'
           /\ HeldInv'
           /\ UseInv'
           /\ RoomInv'
           /\ ThreadCountExact'
           /\ CacheInBounds'
           /\ ExitReportsOwnership'
<1> USE DEF IndInv
<1>a. /\ Users(d) = {} /\ stray[d] = 0
      /\ \A u \in Threads : ~ HasItem(u, d)
    BY UncountedIsUnused DEF TakeStep
<1>b. \A e \in SyncDatas : object'[e] = IF e = d THEN arg[t] ELSE object[e]
    BY DEF TakeStep, TypeOK
<1>c. \A u \in Threads : pc'[u] = IF u = t THEN "done" ELSE pc[u]
    BY DEF TakeStep, TypeOK
<1>d. \A u \in Threads : result'[u] = IF u = t THEN d ELSE result[u]
    BY DEF TakeStep, TypeOK
<1>e. arg[t] # nil
    BY ObjectsAssumption DEF TakeStep
<1>f. \A u \in Threads, e \in SyncDatas : HasItem(u, e)' <=> HasItem(u, e)
    BY DEF TakeStep, caches, HasItem
<1>g. \A u \in Threads, e \in SyncDatas : /\ LockCount(u, e)' = LockCount(u, e)
                                          /\ Depth(u, e)' = Depth(u, e)
    BY DEF TakeStep, caches, LockCount, Depth
<1>h. \A u \in Threads, e \in SyncDatas : Pending(u, e)' = Pending(u, e)
    BY <1>c, <1>d DEF TakeStep, Pending
<1>i. ASSUME NEW u \in Threads
      PROVE  held[u][arg[t]] = 0
    <2>1. held[u][arg[t]] \in Nat
        BY DEF TakeStep, TypeOK
    <2>2. ~ held[u][arg[t]] > 0
        BY DEF TakeStep, HeldInv
    <2> QED BY <2>1, <2>2
<1>1. UniqueObject'
    BY <1>b DEF UniqueObject, TakeStep
<1>2. ItemInv'
    <2>1. \A u \in Threads, e \in SyncDatas : HasItem(u, e)' => object'[e] # nil
        BY <1>b, <1>e, <1>f DEF ItemInv
    <2> QED BY <1>c, <1>f, <2>1 DEF ItemInv, TakeStep, caches
<1>3. ResultInv'
    <2>1. ASSUME NEW u \in Threads, u # t
          PROVE  \A e \in SyncDatas : HasItem(u, e) => object'[e] = object[e]
        BY <1>a, <1>b
    <2>2. ASSUME NEW u \in Threads, u # t, Saving(u)
          PROVE  result[u] # d
        BY <2>2, <1>a DEF Saving, Users, IsUser, ResultInv
    <2> QED BY <2>1, <2>2, <1>a, <1>b, <1>c, <1>d, <1>f DEF ResultInv, Saving, TakeStep
<1>11. ReleasingInv'
    BY <1>c DEF ReleasingInv, TakeStep
<1>4. MutexInv'
    BY DEF MutexInv, TakeStep
<1>5. HeldInv'
    <2>2. ASSUME NEW u \in Threads
          PROVE  Depth(u, d) = held[u][arg[t]] + Pending(u, d)
        BY <1>i, UncountedIsFree DEF TakeStep, Pending
    <2>3. ASSUME NEW u \in Threads, NEW q \in Objects, held[u][q] > 0
          PROVE  \E e \in SyncDatas : object'[e] = q
        <3>1. PICK e \in SyncDatas : object[e] = q
            BY <2>3 DEF HeldInv
        <3>2. e # d
            BY <2>3, <3>1, UncountedIsFree, ObjectsAssumption DEF TakeStep
        <3> QED BY <3>1, <3>2, <1>b
    <2>4. ASSUME NEW u \in Threads, NEW e \in SyncDatas, object'[e] # nil
          PROVE  Depth(u, e)' = held'[u][object'[e]] + Pending(u, e)'
        BY <2>2, <2>4, <1>b, <1>g, <1>h DEF HeldInv, TakeStep
    <2> QED BY <2>3, <2>4 DEF HeldInv, TakeStep
<1>6. UseInv'
    <2>2. ASSUME NEW u \in Threads
          PROVE  ~ (pc[u] = "mutex" /\ func[u] # "exit" /\ result[u] = d)
        BY <1>a DEF ResultInv
    <2>3. \A u \in Threads : LockCount(u, d) = 0
        BY UncountedIsFree DEF TakeStep
    <2> QED BY <1>i, <2>2, <2>3, <1>b, <1>c, <1>d, <1>g DEF UseInv, TakeStep
<1>7. RoomInv'
    BY <1>c DEF RoomInv, TakeStep, caches
<1>8. ThreadCountExact'
    <2>1. ASSUME NEW u \in Threads, NEW e \in SyncDatas
          PROVE  IsUser(u, e)' <=> IsUser(u, e) \/ (u = t /\ e = d)
        BY <1>c, <1>d, <1>f DEF IsUser, TakeStep
    <2>2. Users(d)' = {t}
        BY <2>1, <1>a DEF Users
    <2>3. Cardinality({t}) = 1
        BY FS_Singleton
    <2>4. threadCount'[d] = Cardinality(Users(d)') + stray'[d]
        BY <2>2, <2>3, <1>a DEF TakeStep, TypeOK
    <2>5. \A e \in SyncDatas \ {d} : threadCount'[e] = threadCount[e] /\ stray'[e] = stray[e]
        BY DEF TakeStep, TypeOK
    <2> QED BY <2>1, <2>4, <2>5, BalanceStep
<1>9. CacheInBounds'
    BY DEF CacheInBounds, Items, TakeStep, caches
<1>10. ExitReportsOwnership'
    BY <1>c, <1>d DEF ExitReportsOwnership, TakeStep
<1> QED BY <1>1, <1>2, <1>3, <1>4, <1>5, <1>6, <1>7, <1>8, <1>9, <1>10,
          <1>11

\* ReuseSyncData preserves the invariant.
LEMMA ReuseSyncDataPreserves ==
    ASSUME IndInv, NEW t \in Threads, ReuseSyncData(t)
    PROVE  IndInv'
<1> USE DEF IndInv
<1>0. PICK k \in Ranks : /\ k <= len[ListOf(t)]
                         /\ firstUnused[t] = <<ListOf(t), k>>
                         /\ threadCount[firstUnused[t]] = 0
    BY DEF ReuseSyncData, WalkInv, WalkOf
<1>a. /\ arg[t] \in Objects /\ ListOf(t) \in Stripes
      /\ \A e \in SyncDatas : object[e] # arg[t]
    BY WalkedAll DEF ReuseSyncData
<1>b. PICK d \in SyncDatas : d = <<ListOf(t), k>> /\ d = firstUnused[t]
    BY <1>0, <1>a, Located
<1>c. TakeStep(t, d) /\ UNCHANGED <<len, p, firstUnused>>
    BY <1>0, <1>a, <1>b DEF ReuseSyncData, TakeSyncData, TakeStep, mutexes
<1>1. TypeOK'
    BY <1>b, <1>c DEF TypeOK, TakeStep, Places, caches
<1>2. CallInv'
    BY <1>c DEF CallInv, Busy, InList, ListOf, TakeStep, TypeOK
<1>3. ListInv'
    <2> SUFFICES ASSUME NEW s \in Stripes, NEW j \in Ranks
                 PROVE  ListAt(s, j)'
        BY DEF ListInv
    <2>1. CASE <<s, j>> = d
        <3>1. s = ListOf(t) /\ j = k /\ object'[d] = arg[t]
            BY <2>1, <1>b, <1>c DEF TakeStep, TypeOK
        <3>2. ~ k > len[ListOf(t)]
            BY <1>0, <1>a, BoundsAssumption DEF TypeOK, Ranks
        <3> QED BY <3>1, <3>2, <2>1, <1>a, <1>c DEF ListAt, ListOf
    <2>2. CASE <<s, j>> # d
        <3>1. <<s, j>> \in SyncDatas
            BY Located
        <3>2. /\ object'[<<s, j>>] = object[<<s, j>>]
              /\ threadCount'[<<s, j>>] = threadCount[<<s, j>>]
            BY <3>1, <2>2, <1>c DEF TakeStep, TypeOK
        <3> QED BY <3>2, <1>c DEF ListInv, ListAt, TakeStep
    <2> QED BY <2>1, <2>2
<1>4. WalkInv'
    <2> SUFFICES ASSUME NEW u \in Threads \ {t}, pc[u] = "walk"
                 PROVE  WalkOf(u)'
        BY <1>c DEF WalkInv, WalkOf, TakeStep, TypeOK
    <2>1. ListOf(u) # ListOf(t) /\ ListOf(u)' = ListOf(u) /\ ListOf(u) \in Stripes
        BY <1>c, StripesAssumption
           DEF ReuseSyncData, CallInv, InList, Busy, TakeStep, ListOf
    <2>2. \A j \in Ranks : /\ <<ListOf(u), j>> \in SyncDatas
                           /\ <<ListOf(u), j>> # d
        BY <2>1, <1>b, Located
    <2>3. \A j \in Ranks :
              /\ object'[<<ListOf(u), j>>] = object[<<ListOf(u), j>>]
              /\ threadCount'[<<ListOf(u), j>>] = threadCount[<<ListOf(u), j>>]
        BY <2>2, <1>c DEF TakeStep, TypeOK
    <2>5. WalkOf(u)
        BY DEF WalkInv
    <2>6. firstUnused[u] # nil =>
              /\ \E j \in Ranks : j <= len[ListOf(u)] /\ firstUnused[u] = <<ListOf(u), j>>
              /\ threadCount'[firstUnused[u]] = 0
        BY <2>3, <2>5 DEF WalkOf
    <2> QED BY <2>1, <2>3, <2>5, <2>6, <1>c DEF WalkOf, TakeStep
<1> QED BY <1>1, <1>2, <1>3, <1>4, <1>c, TakePreserves

\* AllocateSyncData preserves the invariant.
LEMMA AllocateSyncDataPreserves ==
    ASSUME IndInv, NEW t \in Threads, AllocateSyncData(t)
    PROVE  IndInv'
<1> USE DEF IndInv
<1> DEFINE k == len[ListOf(t)] + 1
<1>a. /\ arg[t] \in Objects /\ ListOf(t) \in Stripes
      /\ \A e \in SyncDatas : object[e] # arg[t]
    BY WalkedAll DEF AllocateSyncData
<1>0. k \in Ranks /\ len[ListOf(t)] \in Nat
    BY <1>a, BoundsAssumption DEF AllocateSyncData, TypeOK, Ranks
<1>b. PICK d \in SyncDatas : d = <<ListOf(t), k>>
    BY <1>0, <1>a, Located
<1>d. owner[d] = nil /\ depth[d] = 0 /\ threadCount[d] = 0
    BY <1>0, <1>a, <1>b DEF ListInv, ListAt, MutexInv
<1>e. owner' = owner /\ depth' = depth
    BY <1>b, <1>d DEF AllocateSyncData, TypeOK
<1>c. TakeStep(t, d) /\ UNCHANGED <<p, firstUnused>>
    BY <1>a, <1>b, <1>d, <1>e DEF AllocateSyncData, TakeSyncData, TakeStep
<1>f. len' = [len EXCEPT ![ListOf(t)] = k]
    BY DEF AllocateSyncData
<1>g. \A s \in Stripes : len'[s] = IF s = ListOf(t) THEN k ELSE len[s]
    BY <1>f DEF TypeOK
<1>1. TypeOK'
    <2>1. len' \in [Stripes -> 0..MaxSyncData]
        <3>1. k \in 0..MaxSyncData
            BY <1>0, BoundsAssumption DEF Ranks
        <3> QED BY <3>1, <1>f DEF TypeOK
    <2> QED BY <2>1, <1>b, <1>c DEF TypeOK, TakeStep, Places, caches
<1>2. CallInv'
    BY <1>c DEF CallInv, Busy, InList, ListOf, TakeStep, TypeOK
<1>3. ListInv'
    <2> SUFFICES ASSUME NEW s \in Stripes, NEW j \in Ranks
                 PROVE  ListAt(s, j)'
        BY DEF ListInv
    <2>1. CASE <<s, j>> = d
        <3>1. s = ListOf(t) /\ j = k /\ object'[d] = arg[t]
            BY <2>1, <1>b, <1>c DEF TakeStep, TypeOK
        <3> QED BY <3>1, <2>1, <1>0, <1>a, <1>g DEF ListAt, ListOf
    <2>2. CASE <<s, j>> # d
        <3>1. <<s, j>> \in SyncDatas
            BY Located
        <3>2. /\ object'[<<s, j>>] = object[<<s, j>>]
              /\ threadCount'[<<s, j>>] = threadCount[<<s, j>>]
            BY <3>1, <2>2, <1>c DEF TakeStep, TypeOK
        <3>3. /\ j <= len'[s] <=> j <= len[s]
              /\ j > len'[s] => j > len[s]
            <4>1. s = ListOf(t) => j # k
                BY <2>2, <1>b
            <4>2. j \in Nat /\ len[s] \in Nat
                BY BoundsAssumption DEF TypeOK, Ranks
            <4> QED BY <4>1, <4>2, <1>0, <1>g
        <3> QED BY <3>2, <3>3, <1>c DEF ListInv, ListAt, TakeStep
    <2> QED BY <2>1, <2>2
<1>4. WalkInv'
    <2> SUFFICES ASSUME NEW u \in Threads \ {t}, pc[u] = "walk"
                 PROVE  WalkOf(u)'
        BY <1>c DEF WalkInv, WalkOf, TakeStep, TypeOK
    <2>1. ListOf(u) # ListOf(t) /\ ListOf(u)' = ListOf(u) /\ ListOf(u) \in Stripes
        BY <1>c, StripesAssumption
           DEF AllocateSyncData, CallInv, InList, Busy, TakeStep, ListOf
    <2>2. \A j \in Ranks : /\ <<ListOf(u), j>> \in SyncDatas
                           /\ <<ListOf(u), j>> # d
        BY <2>1, <1>b, Located
    <2>3. \A j \in Ranks :
              /\ object'[<<ListOf(u), j>>] = object[<<ListOf(u), j>>]
              /\ threadCount'[<<ListOf(u), j>>] = threadCount[<<ListOf(u), j>>]
        BY <2>2, <1>c DEF TakeStep, TypeOK
    <2>4. len'[ListOf(u)] = len[ListOf(u)]
        BY <2>1, <1>g
    <2>5. WalkOf(u)
        BY DEF WalkInv
    <2>6. firstUnused[u] # nil =>
              /\ \E j \in Ranks : j <= len[ListOf(u)] /\ firstUnused[u] = <<ListOf(u), j>>
              /\ threadCount'[firstUnused[u]] = 0
        BY <2>3, <2>5 DEF WalkOf
    <2> QED BY <2>1, <2>3, <2>4, <2>5, <2>6, <1>c DEF WalkOf, TakeStep
<1> QED BY <1>1, <1>2, <1>3, <1>4, <1>c, TakePreserves

-----------------------------------------------------------------------------
(* Leaving the list                                                        *)

\* Unlocking the list for a RELEASE preserves the invariant.
LEMMA UnlockListAndReturnPreserves ==
    ASSUME IndInv, NEW t \in Threads,
           UnlockListAndReturn(t)
    PROVE  IndInv'
<1> USE DEF IndInv
<1>1. TypeOK'
    BY StripesAssumption, BoundsAssumption DEF TypeOK, Places, Funcs,
       UnlockListAndReturn, Return, pool, mutexes, caches, CallInv, Busy,
       ListOf, SyncDatas, Ranks
<1>2. CallInv'
    BY DEF CallInv, Busy, InList, ListOf, UnlockListAndReturn, Return, pool,
       mutexes, caches, TypeOK
<1>3. ListInv'
    BY DEF ListInv, ListAt, UnlockListAndReturn, Return, pool, mutexes, caches
<1>4. UniqueObject'
    BY DEF UniqueObject, UnlockListAndReturn, Return, pool, mutexes, caches
<1>5. WalkInv'
    BY DEF WalkInv, WalkOf, ListOf, UnlockListAndReturn, Return, pool,
       mutexes, caches, TypeOK
<1>6. ItemInv'
    BY DEF ItemInv, HasItem, UnlockListAndReturn, Return, pool, mutexes,
       caches, TypeOK
<1>7. ResultInv'
    BY DEF ResultInv, HasItem, Saving, UnlockListAndReturn, Return, pool,
       mutexes, caches, TypeOK
<1>8. ReleasingInv'
    BY DEF ReleasingInv, UnlockListAndReturn, Return, pool, mutexes, caches,
       TypeOK
<1>9. MutexInv'
    BY DEF MutexInv, UnlockListAndReturn, Return, pool, mutexes, caches,
       TypeOK
<1>10. HeldInv'
    BY DEF HeldInv, Depth, Pending, UnlockListAndReturn, Return, pool,
       mutexes, caches, TypeOK
<1>11. UseInv'
    BY DEF UseInv, LockCount, UnlockListAndReturn, Return, pool, mutexes,
       caches, TypeOK
<1>12. RoomInv'
    BY DEF RoomInv, UnlockListAndReturn, Return, pool, mutexes, caches, TypeOK
<1>13. ThreadCountExact'
    BY BalanceKept DEF IsUser, HasItem, UnlockListAndReturn, Return, pool, mutexes, caches, TypeOK
<1>14. CacheInBounds'
    BY DEF CacheInBounds, Items, UnlockListAndReturn, Return, pool, mutexes,
       caches, TypeOK
<1>15. ExitReportsOwnership'
    BY DEF ExitReportsOwnership, UnlockListAndReturn, Return, pool, mutexes,
       caches, TypeOK
<1> QED BY <1>1, <1>2, <1>3, <1>4, <1>5, <1>6, <1>7, <1>8, <1>9, <1>10, <1>11,
       <1>12, <1>13, <1>14, <1>15

\* Unlocking the list for an ACQUIRE preserves the invariant.
LEMMA UnlockListAndSavePreserves ==
    ASSUME IndInv, NEW t \in Threads,
           UnlockListAndSave(t)
    PROVE  IndInv'
<1> USE DEF IndInv
<1>1. TypeOK'
    BY StripesAssumption, BoundsAssumption DEF TypeOK, Places, Funcs,
       UnlockListAndSave, pool, mutexes, caches, frame, CallInv, Busy, ListOf,
       SyncDatas, Ranks
<1>2. CallInv'
    BY DEF CallInv, Busy, InList, ListOf, UnlockListAndSave, pool, mutexes,
       caches, frame, TypeOK
<1>3. ListInv'
    BY DEF ListInv, ListAt, UnlockListAndSave, pool, mutexes, caches, frame
<1>4. UniqueObject'
    BY DEF UniqueObject, UnlockListAndSave, pool, mutexes, caches, frame
<1>5. WalkInv'
    BY DEF WalkInv, WalkOf, ListOf, UnlockListAndSave, pool, mutexes, caches,
       frame, TypeOK
<1>6. ItemInv'
    BY DEF ItemInv, HasItem, UnlockListAndSave, pool, mutexes, caches, frame,
       TypeOK
<1>7. ResultInv'
    BY DEF ResultInv, HasItem, Saving, UnlockListAndSave, pool, mutexes,
       caches, frame, TypeOK
<1>8. ReleasingInv'
    BY DEF ReleasingInv, UnlockListAndSave, pool, mutexes, caches, frame,
       TypeOK
<1>9. MutexInv'
    BY DEF MutexInv, UnlockListAndSave, pool, mutexes, caches, frame, TypeOK
<1>10. HeldInv'
    BY DEF HeldInv, Depth, Pending, UnlockListAndSave, pool, mutexes, caches,
       frame, TypeOK
<1>11. UseInv'
    BY DEF UseInv, LockCount, UnlockListAndSave, pool, mutexes, caches, frame,
       TypeOK
<1>12. RoomInv'
    BY DEF RoomInv, UnlockListAndSave, pool, mutexes, caches, frame, TypeOK
<1>13. ThreadCountExact'
    BY BalanceKept DEF IsUser, HasItem, UnlockListAndSave, pool, mutexes, caches, frame, TypeOK
<1>14. CacheInBounds'
    BY DEF CacheInBounds, Items, UnlockListAndSave, pool, mutexes, caches,
       frame, TypeOK
<1>15. ExitReportsOwnership'
    BY DEF ExitReportsOwnership, UnlockListAndSave, pool, mutexes, caches,
       frame, TypeOK
<1> QED BY <1>1, <1>2, <1>3, <1>4, <1>5, <1>6, <1>7, <1>8, <1>9, <1>10, <1>11,
       <1>12, <1>13, <1>14, <1>15

\* Saving in the fast cache preserves the invariant: the use becomes an item.
LEMMA SaveInFastCachePreserves ==
    ASSUME IndInv, NEW t \in Threads,
           SaveInFastCache(t)
    PROVE  IndInv'
<1> USE DEF IndInv
<1>0. PICK d \in SyncDatas : d = result[t]
    BY DEF SaveInFastCache, ResultInv, Saving
<1>a. /\ pc[t] = "save" /\ func[t] # "exit"
      /\ object[d] = arg[t] /\ arg[t] \in Objects /\ d # nil
      /\ ~ HasItem(t, d)
    BY <1>0, Located DEF SaveInFastCache, ResultInv, Saving, CallInv, Busy
<1>b. /\ pc' = [pc EXCEPT ![t] = "mutex"]
      /\ UNCHANGED <<object, threadCount, len, owner, depth, listLock>>
      /\ UNCHANGED <<held, releasing, stray>>
      /\ UNCHANGED <<func, arg, p, firstUnused, result>>
    BY <1>0, <1>a DEF SaveInFastCache, AfterCheck, pool, mutexes, frame
<1>c. /\ fastData[t] = nil
      /\ fastData' = [fastData EXCEPT ![t] = d]
      /\ fastCount' = [fastCount EXCEPT ![t] = 1]
      /\ UNCHANGED <<cacheCount, used, allocated>>
    BY <1>0 DEF SaveInFastCache
<1>e. \A u \in Threads : /\ fastData'[u] = IF u = t THEN d ELSE fastData[u]
                         /\ fastCount'[u] = IF u = t THEN 1 ELSE fastCount[u]
    BY <1>c DEF TypeOK
<1>d. \A u \in Threads, e \in SyncDatas :
          HasItem(u, e)' <=> HasItem(u, e) \/ (u = t /\ e = d)
    BY <1>c, <1>e, Located DEF HasItem
<1>1. TypeOK'
    BY <1>b, <1>c, CacheAssumption DEF TypeOK, Places
<1>2. CallInv'
    BY <1>a, <1>b DEF CallInv, Busy, InList, ListOf, TypeOK
<1>3. ListInv'
    BY <1>b DEF ListInv, ListAt
<1>4. UniqueObject'
    BY <1>b DEF UniqueObject
<1>5. WalkInv'
    BY <1>b DEF WalkInv, WalkOf, ListOf, TypeOK
<1>6. ItemInv'
    BY <1>a, <1>b, <1>c, <1>d, ObjectsAssumption, Located DEF ItemInv, HasItem, TypeOK
<1>7. ResultInv'
    <2>1. ASSUME NEW u \in Threads \ {t}
          PROVE  /\ pc'[u] = pc[u]
                 /\ \A e \in SyncDatas : HasItem(u, e)' <=> HasItem(u, e)
        BY <1>b, <1>d DEF TypeOK
    <2>2. pc'[t] = "mutex" /\ HasItem(t, d)'
        BY <1>b, <1>d DEF TypeOK
    <2> QED BY <2>1, <2>2, <1>0, <1>a, <1>b DEF ResultInv, Saving
<1>8. ReleasingInv'
    BY DEF ReleasingInv, SaveInFastCache, AfterCheck, pool, mutexes, frame,
       TypeOK
<1>9. MutexInv'
    BY <1>b DEF MutexInv
<1>10. HeldInv'
    <2>1. \A u \in Threads, e \in SyncDatas : Pending(u, e)' = Pending(u, e)
        BY <1>a, <1>b DEF Pending, TypeOK
    <2> QED BY <2>1, <1>b DEF HeldInv, Depth
<1>11. UseInv'
    <2>1. LockCount(t, d) = 0 /\ LockCount(t, d)' = 1
        BY <1>a, <1>c, <1>e DEF LockCount, HasItem, TypeOK
    <2>2. \A u \in Threads, e \in SyncDatas : ~ (u = t /\ e = d) =>
              LockCount(u, e)' = LockCount(u, e)
        BY <1>a, <1>c, <1>e, Located DEF LockCount, HasItem
    <2>3. held[t][object[d]] \in Nat
        BY <1>a DEF TypeOK
    <2> QED BY <2>1, <2>2, <2>3, <1>0, <1>a, <1>b, ObjectsAssumption DEF UseInv, TypeOK
<1>12. RoomInv'
    BY <1>a, <1>b, <1>c, CacheAssumption DEF RoomInv, TypeOK
<1>13. ThreadCountExact'
    <2>1. ASSUME NEW u \in Threads, NEW e \in SyncDatas
          PROVE  IsUser(u, e)' <=> IsUser(u, e)
        <3>1. CASE u = t
            <4>1. pc'[t] = "mutex"
                BY <1>b DEF TypeOK
            <4> QED BY <4>1, <3>1, <1>0, <1>a, <1>d DEF IsUser
        <3>2. CASE u # t
            <4>1. pc'[u] = pc[u]
                BY <3>2, <1>b DEF TypeOK
            <4> QED BY <4>1, <3>2, <1>b, <1>d DEF IsUser
        <3> QED BY <3>1, <3>2
    <2> QED BY <2>1, <1>b, BalanceKept
<1>14. CacheInBounds'
    BY <1>c DEF CacheInBounds, Items
<1>15. ExitReportsOwnership'
    BY <1>a, <1>b DEF ExitReportsOwnership, TypeOK
<1> QED BY <1>1, <1>2, <1>3, <1>4, <1>5, <1>6, <1>7, <1>8, <1>9, <1>10, <1>11,
       <1>12, <1>13, <1>14, <1>15

\* Saving in the SyncCache preserves the invariant: the slot is free.
LEMMA SaveInCachePreserves ==
    ASSUME IndInv, NEW t \in Threads,
           SaveInCache(t)
    PROVE  IndInv'
<1> USE DEF IndInv
<1>0. PICK d \in SyncDatas : d = result[t]
    BY DEF SaveInCache, ResultInv, Saving
<1>a. /\ pc[t] = "save" /\ func[t] # "exit"
      /\ object[d] = arg[t] /\ arg[t] \in Objects /\ d # nil
      /\ ~ HasItem(t, d)
    BY <1>0, Located DEF SaveInCache, ResultInv, Saving, CallInv, Busy
<1>b. /\ pc' = [pc EXCEPT ![t] = "mutex"]
      /\ UNCHANGED <<object, threadCount, len, owner, depth, listLock>>
      /\ UNCHANGED <<held, releasing, stray>>
      /\ UNCHANGED <<func, arg, p, firstUnused, result>>
    BY <1>0, <1>a DEF SaveInCache, AfterCheck, pool, mutexes, frame
<1>c. /\ fastData[t] # nil
      /\ UNCHANGED <<fastData, fastCount>>
      /\ cacheCount' = [cacheCount EXCEPT ![t][d] = 1]
      /\ used' = [used EXCEPT ![t] = @ + 1]
      /\ allocated' = [allocated EXCEPT ![t] = IF @ = 0 THEN SyncCacheCount ELSE @]
    BY <1>0 DEF SaveInCache
<1>e. \A u \in Threads, e \in SyncDatas :
          cacheCount'[u][e] = IF u = t /\ e = d THEN 1 ELSE cacheCount[u][e]
    BY <1>c DEF TypeOK
<1>d. \A u \in Threads, e \in SyncDatas :
          HasItem(u, e)' <=> HasItem(u, e) \/ (u = t /\ e = d)
    BY <1>c, <1>e DEF HasItem
<1>1. TypeOK'
    BY <1>b, <1>c, CacheAssumption DEF TypeOK, Places
<1>2. CallInv'
    BY <1>a, <1>b DEF CallInv, Busy, InList, ListOf, TypeOK
<1>3. ListInv'
    BY <1>b DEF ListInv, ListAt
<1>4. UniqueObject'
    BY <1>b DEF UniqueObject
<1>5. WalkInv'
    BY <1>b DEF WalkInv, WalkOf, ListOf, TypeOK
<1>6. ItemInv'
    BY <1>a, <1>b, <1>c, <1>d, ObjectsAssumption, Located DEF ItemInv, HasItem, TypeOK
<1>7. ResultInv'
    <2>1. ASSUME NEW u \in Threads \ {t}
          PROVE  /\ pc'[u] = pc[u]
                 /\ \A e \in SyncDatas : HasItem(u, e)' <=> HasItem(u, e)
        BY <1>b, <1>d DEF TypeOK
    <2>2. pc'[t] = "mutex" /\ HasItem(t, d)'
        BY <1>b, <1>d DEF TypeOK
    <2> QED BY <2>1, <2>2, <1>0, <1>a, <1>b DEF ResultInv, Saving
<1>8. ReleasingInv'
    BY DEF ReleasingInv, SaveInCache, AfterCheck, pool, mutexes, frame, TypeOK
<1>9. MutexInv'
    BY <1>b DEF MutexInv
<1>10. HeldInv'
    <2>1. \A u \in Threads, e \in SyncDatas : Pending(u, e)' = Pending(u, e)
        BY <1>a, <1>b DEF Pending, TypeOK
    <2> QED BY <2>1, <1>b DEF HeldInv, Depth
<1>11. UseInv'
    <2>1. LockCount(t, d) = 0 /\ LockCount(t, d)' = 1
        BY <1>a, <1>c, <1>e DEF LockCount, HasItem, TypeOK
    <2>2. \A u \in Threads, e \in SyncDatas : ~ (u = t /\ e = d) =>
              LockCount(u, e)' = LockCount(u, e)
        BY <1>a, <1>c, <1>e, Located DEF LockCount, HasItem
    <2>3. held[t][object[d]] \in Nat
        BY <1>a DEF TypeOK
    <2> QED BY <2>1, <2>2, <2>3, <1>0, <1>a, <1>b, ObjectsAssumption DEF UseInv, TypeOK
<1>12. RoomInv'
    BY <1>a, <1>b, <1>c, CacheAssumption DEF RoomInv, TypeOK
<1>13. ThreadCountExact'
    <2>1. ASSUME NEW u \in Threads, NEW e \in SyncDatas
          PROVE  IsUser(u, e)' <=> IsUser(u, e)
        <3>1. CASE u = t
            <4>1. pc'[t] = "mutex"
                BY <1>b DEF TypeOK
            <4> QED BY <4>1, <3>1, <1>0, <1>a, <1>d DEF IsUser
        <3>2. CASE u # t
            <4>1. pc'[u] = pc[u]
                BY <3>2, <1>b DEF TypeOK
            <4> QED BY <4>1, <3>2, <1>b, <1>d DEF IsUser
        <3> QED BY <3>1, <3>2
    <2> QED BY <2>1, <1>b, BalanceKept
<1>14. CacheInBounds'
    <2>1. Items(t)' = Items(t) \cup {d} /\ d \notin Items(t)
        BY <1>a, <1>c DEF Items, HasItem, TypeOK
    <2>2. Cardinality(Items(t)') = Cardinality(Items(t)) + 1
        BY <2>1, ItemsFinite, FS_AddElement
    <2>3. used'[t] = Cardinality(Items(t)')
        BY <2>2, <1>c DEF CacheInBounds, TypeOK
    <2>4. used'[t] <= allocated'[t]
        <3>1. /\ used[t] \in Nat /\ allocated[t] \in Nat
              /\ used'[t] = used[t] + 1
              /\ allocated'[t] = IF allocated[t] = 0 THEN SyncCacheCount ELSE allocated[t]
            BY <1>c DEF TypeOK
        <3>2. IF allocated[t] = 0 THEN used[t] = 0 ELSE used[t] < allocated[t]
            BY <3>1, <1>a DEF RoomInv
        <3> QED BY <3>1, <3>2, CacheAssumption
    <2> QED BY <2>3, <2>4, <1>c, <1>e, ItemsStep DEF TypeOK
<1>15. ExitReportsOwnership'
    BY <1>a, <1>b DEF ExitReportsOwnership, TypeOK
<1> QED BY <1>1, <1>2, <1>3, <1>4, <1>5, <1>6, <1>7, <1>8, <1>9, <1>10, <1>11,
       <1>12, <1>13, <1>14, <1>15

-----------------------------------------------------------------------------
(* The mutex                                                               *)

\* Locking the mutex preserves the invariant: the client is now inside.
LEMMA MutexLockPreserves ==
    ASSUME IndInv, NEW t \in Threads,
           MutexLock(t)
    PROVE  IndInv'
<1> USE DEF IndInv
<1>0. PICK d \in SyncDatas : d = result[t]
    BY DEF MutexLock, ResultInv
<1>a. /\ arg[t] \in Objects /\ object[d] = arg[t] /\ arg[t] # nil
      /\ owner[d] \in {nil, t} /\ HasItem(t, d)
      /\ depth[d] \in Nat /\ (owner[d] = nil => depth[d] = 0)
      /\ t # nil
    BY <1>0, ObjectsAssumption, ThreadsAssumption
       DEF MutexLock, CanLock, TypeOK, CallInv, Busy, ResultInv, MutexInv
<1>b. /\ pc[t] = "mutex" /\ func[t] # "exit"
      /\ owner' = [owner EXCEPT ![d] = t]
      /\ depth' = [depth EXCEPT ![d] = @ + 1]
      /\ held' = [held EXCEPT ![t][arg[t]] = @ + 1]
      /\ pc' = [pc EXCEPT ![t] = "idle"]
      /\ func' = [func EXCEPT ![t] = "exit"]
      /\ releasing' = releasing \ {t}
      /\ result' = [result EXCEPT ![t] = nil]
      /\ UNCHANGED <<object, len, threadCount, stray>>
      /\ UNCHANGED caches
    BY <1>0 DEF MutexLock, Return, pool
<1>c. \A s \in Stripes, k \in Ranks : k > len[s] => <<s, k>> # d
    BY <1>a, ObjectsAssumption DEF ListInv, ListAt
<1>d. \A u \in Threads, e \in SyncDatas :
          /\ Depth(u, e)' = IF u = t /\ e = d THEN Depth(u, e) + 1 ELSE Depth(u, e)
          /\ Pending(u, e)' = Pending(u, e)
    BY <1>a, <1>b DEF Depth, Pending, TypeOK
<1>e. \A e \in SyncDatas : object[e] = arg[t] => e = d
    BY <1>a DEF UniqueObject
<1>f. /\ arg' = [arg EXCEPT ![t] = nil]
      /\ p' = [p EXCEPT ![t] = 0]
      /\ firstUnused' = [firstUnused EXCEPT ![t] = nil]
      /\ UNCHANGED listLock
    BY DEF MutexLock, Return
<1>1. TypeOK'
    BY <1>a, <1>b, <1>f, BoundsAssumption DEF TypeOK, Places, Funcs, caches
<1>2. CallInv'
    BY DEF CallInv, Busy, InList, ListOf, MutexLock, Return, pool, caches,
       TypeOK
<1>3. ListInv'
    <2> SUFFICES ASSUME NEW s \in Stripes, NEW k \in Ranks
                 PROVE  ListAt(s, k)'
        BY DEF ListInv
    <2>1. <<s, k>> \in SyncDatas
        BY Located
    <2>2. k > len[s] => owner'[<<s, k>>] = owner[<<s, k>>]
        BY <2>1, <1>b, <1>c DEF TypeOK
    <2> QED BY <2>2, <1>b DEF ListInv, ListAt
<1>4. UniqueObject'
    BY DEF UniqueObject, MutexLock, Return, pool, caches
<1>5. WalkInv'
    BY DEF WalkInv, WalkOf, ListOf, MutexLock, Return, pool, caches, TypeOK
<1>6. ItemInv'
    BY DEF ItemInv, HasItem, MutexLock, Return, pool, caches, TypeOK
<1>7. ResultInv'
    BY DEF ResultInv, HasItem, Saving, MutexLock, Return, pool, caches, TypeOK
<1>8. ReleasingInv'
    BY DEF ReleasingInv, MutexLock, Return, pool, caches, TypeOK
<1>9. MutexInv'
    BY <1>a, <1>b DEF MutexInv, TypeOK
<1>10. HeldInv'
    <2>1. \A u \in Threads, e \in SyncDatas : object[e] # nil =>
              /\ object[e] \in Objects
              /\ Depth(u, e) = held[u][object[e]] + Pending(u, e)
              /\ held[u][object[e]] \in Nat /\ Pending(u, e) \in Nat
        BY DEF HeldInv, TypeOK, Pending
    <2>2. \A u \in Threads, o \in Objects :
              held'[u][o] = IF u = t /\ o = arg[t] THEN held[u][o] + 1 ELSE held[u][o]
        BY <1>a, <1>b DEF TypeOK
    <2>3. \A u \in Threads, e \in SyncDatas : object'[e] # nil =>
              Depth(u, e)' = held'[u][object'[e]] + Pending(u, e)'
        BY <2>1, <2>2, <1>a, <1>b, <1>d, <1>e
    <2>4. \A u \in Threads, o \in Objects : held'[u][o] > 0 =>
              \E e \in SyncDatas : object'[e] = o
        BY <2>2, <1>a, <1>b DEF HeldInv, TypeOK
    <2> QED BY <2>3, <2>4 DEF HeldInv
<1>11. UseInv'
    <2>1. \A u \in Threads, o \in Objects :
              /\ held[u][o] \in Nat
              /\ held'[u][o] = IF u = t /\ o = arg[t] THEN held[u][o] + 1 ELSE held[u][o]
        BY <1>a, <1>b DEF TypeOK
    <2>2. \A u \in Threads, e \in SyncDatas :
              /\ LockCount(u, e)' = LockCount(u, e)
              /\ LockCount(u, e) \in Nat
        BY <1>b DEF LockCount, TypeOK, caches
    <2>3. held[t][arg[t]] < LockCount(t, d)
        BY <1>0, <1>a, <1>b, ObjectsAssumption DEF UseInv
    <2>4. \A e \in SyncDatas : object[e] # nil => object[e] \in Objects
        BY DEF TypeOK
    <2> QED BY <2>1, <2>2, <2>3, <2>4, <1>a, <1>b, <1>e DEF UseInv, TypeOK
<1>12. RoomInv'
    BY DEF RoomInv, MutexLock, Return, pool, caches, TypeOK
<1>13. ThreadCountExact'
    BY BalanceKept DEF IsUser, HasItem, MutexLock, Return, pool, caches, TypeOK
<1>14. CacheInBounds'
    BY DEF CacheInBounds, Items, MutexLock, Return, pool, caches, TypeOK
<1>15. ExitReportsOwnership'
    <2>1. ASSUME NEW u \in Threads \ {t}
          PROVE  /\ pc'[u] = pc[u] /\ func'[u] = func[u] /\ result'[u] = result[u]
                 /\ u \in releasing' <=> u \in releasing
        BY <1>b DEF TypeOK
    <2>2. ASSUME NEW u \in Threads \ {t}, NEW e \in SyncDatas
          PROVE  owner'[e] = u <=> owner[e] = u
        BY <1>a, <1>b, ThreadsAssumption DEF TypeOK
    <2>3. pc'[t] = "idle"
        BY <1>b DEF TypeOK
    <2>4. \A u \in Threads : pc[u] = "mutex" => result[u] \in SyncDatas
        BY DEF ResultInv
    <2> QED BY <2>1, <2>2, <2>3, <2>4 DEF ExitReportsOwnership
<1> QED BY <1>1, <1>2, <1>3, <1>4, <1>5, <1>6, <1>7, <1>8, <1>9, <1>10, <1>11,
       <1>12, <1>13, <1>14, <1>15

\* A refused tryLock preserves the invariant.
LEMMA TryLockFailsPreserves ==
    ASSUME IndInv, NEW t \in Threads,
           TryLockFails(t)
    PROVE  IndInv'
<1> USE DEF IndInv
<1>1. TypeOK'
    BY StripesAssumption, BoundsAssumption DEF TypeOK, Places, Funcs,
       TryLockFails, Return, pool, mutexes, caches, CallInv, Busy, ListOf,
       SyncDatas, Ranks
<1>2. CallInv'
    BY DEF CallInv, Busy, InList, ListOf, TryLockFails, Return, pool, mutexes,
       caches, TypeOK
<1>3. ListInv'
    BY DEF ListInv, ListAt, TryLockFails, Return, pool, mutexes, caches
<1>4. UniqueObject'
    BY DEF UniqueObject, TryLockFails, Return, pool, mutexes, caches
<1>5. WalkInv'
    BY DEF WalkInv, WalkOf, ListOf, TryLockFails, Return, pool, mutexes,
       caches, TypeOK
<1>6. ItemInv'
    BY DEF ItemInv, HasItem, TryLockFails, Return, pool, mutexes, caches,
       TypeOK
<1>7. ResultInv'
    BY DEF ResultInv, HasItem, Saving, TryLockFails, Return, pool, mutexes,
       caches, TypeOK
<1>8. ReleasingInv'
    BY DEF ReleasingInv, TryLockFails, Return, pool, mutexes, caches, TypeOK
<1>9. MutexInv'
    BY DEF MutexInv, TryLockFails, Return, pool, mutexes, caches, TypeOK
<1>10. HeldInv'
    BY DEF HeldInv, Depth, Pending, TryLockFails, Return, pool, mutexes,
       caches, TypeOK
<1>11. UseInv'
    BY DEF UseInv, LockCount, TryLockFails, Return, pool, mutexes, caches,
       TypeOK
<1>12. RoomInv'
    BY DEF RoomInv, TryLockFails, Return, pool, mutexes, caches, TypeOK
<1>13. ThreadCountExact'
    BY BalanceKept DEF IsUser, HasItem, TryLockFails, Return, pool, mutexes, caches, TypeOK
<1>14. CacheInBounds'
    BY DEF CacheInBounds, Items, TryLockFails, Return, pool, mutexes, caches,
       TypeOK
<1>15. ExitReportsOwnership'
    BY DEF ExitReportsOwnership, TryLockFails, Return, pool, mutexes, caches,
       TypeOK
<1> QED BY <1>1, <1>2, <1>3, <1>4, <1>5, <1>6, <1>7, <1>8, <1>9, <1>10, <1>11,
       <1>12, <1>13, <1>14, <1>15

\* Unlocking the mutex preserves the invariant: the pending exit is done.
LEMMA TryUnlockPreserves ==
    ASSUME IndInv, NEW t \in Threads,
           TryUnlock(t)
    PROVE  IndInv'
<1> USE DEF IndInv
<1>0. PICK d \in SyncDatas : d = result[t]
    BY DEF TryUnlock, ResultInv
<1>a. /\ owner[d] = t /\ t # nil /\ t \in releasing
      /\ depth[d] \in Nat \ {0}
    BY <1>0, ThreadsAssumption
       DEF TryUnlock, TypeOK, MutexInv, ExitReportsOwnership
<1>b. /\ pc[t] = "mutex" /\ func[t] = "exit"
      /\ owner' = [owner EXCEPT ![d] = IF depth[d] = 1 THEN nil ELSE t]
      /\ depth' = [depth EXCEPT ![d] = @ - 1]
      /\ held' = held
      /\ pc' = [pc EXCEPT ![t] = "idle"]
      /\ func' = [func EXCEPT ![t] = "exit"]
      /\ releasing' = releasing \ {t}
      /\ result' = [result EXCEPT ![t] = nil]
      /\ UNCHANGED <<object, len, threadCount, stray>>
      /\ UNCHANGED caches
    BY <1>0 DEF TryUnlock, Return, pool
<1>c. \A s \in Stripes, k \in Ranks : k > len[s] => <<s, k>> # d
    BY <1>a DEF ListInv, ListAt
<1>d. \A u \in Threads, e \in SyncDatas :
          IF u = t /\ e = d
          THEN Depth(u, e)' = Depth(u, e) - 1 /\ Pending(u, e)' = Pending(u, e) - 1
          ELSE Depth(u, e)' = Depth(u, e) /\ Pending(u, e)' = Pending(u, e)
    BY <1>0, <1>a, <1>b DEF Depth, Pending, TypeOK
<1>f. /\ arg' = [arg EXCEPT ![t] = nil]
      /\ p' = [p EXCEPT ![t] = 0]
      /\ firstUnused' = [firstUnused EXCEPT ![t] = nil]
      /\ UNCHANGED listLock
    BY DEF TryUnlock, Return
<1>1. TypeOK'
    <2>1. depth[d] - 1 \in Nat
        BY <1>a
    <2>2. depth' \in [SyncDatas -> Nat]
        BY <2>1, <1>b DEF TypeOK
    <2>3. owner' \in [SyncDatas -> Threads \cup {nil}]
        BY <1>b DEF TypeOK
    <2> QED BY <2>2, <2>3, <1>b, <1>f, BoundsAssumption DEF TypeOK, Places, Funcs, caches
<1>2. CallInv'
    BY DEF CallInv, Busy, InList, ListOf, TryUnlock, Return, pool, caches,
       TypeOK
<1>3. ListInv'
    <2> SUFFICES ASSUME NEW s \in Stripes, NEW k \in Ranks
                 PROVE  ListAt(s, k)'
        BY DEF ListInv
    <2>1. <<s, k>> \in SyncDatas
        BY Located
    <2>2. k > len[s] => owner'[<<s, k>>] = owner[<<s, k>>]
        BY <2>1, <1>b, <1>c DEF TypeOK
    <2> QED BY <2>2, <1>b DEF ListInv, ListAt
<1>4. UniqueObject'
    BY DEF UniqueObject, TryUnlock, Return, pool, caches
<1>5. WalkInv'
    BY DEF WalkInv, WalkOf, ListOf, TryUnlock, Return, pool, caches, TypeOK
<1>6. ItemInv'
    BY DEF ItemInv, HasItem, TryUnlock, Return, pool, caches, TypeOK
<1>7. ResultInv'
    BY DEF ResultInv, HasItem, Saving, TryUnlock, Return, pool, caches, TypeOK
<1>8. ReleasingInv'
    BY DEF ReleasingInv, TryUnlock, Return, pool, caches, TypeOK
<1>9. MutexInv'
    BY <1>a, <1>b DEF MutexInv, TypeOK
<1>10. HeldInv'
    <2>1. \A u \in Threads, e \in SyncDatas : object[e] # nil =>
              /\ Depth(u, e) = held[u][object[e]] + Pending(u, e)
              /\ held[u][object[e]] \in Nat /\ Pending(u, e) \in Nat
        BY DEF HeldInv, TypeOK, Pending
    <2>2. \A u \in Threads, e \in SyncDatas : object[e] # nil =>
              Depth(u, e)' = held[u][object[e]] + Pending(u, e)'
        BY <2>1, <1>d
    <2> QED BY <2>2, <1>b DEF HeldInv
<1>11. UseInv'
    BY DEF UseInv, LockCount, TryUnlock, Return, pool, caches, TypeOK
<1>12. RoomInv'
    BY DEF RoomInv, TryUnlock, Return, pool, caches, TypeOK
<1>13. ThreadCountExact'
    BY BalanceKept DEF IsUser, HasItem, TryUnlock, Return, pool, caches, TypeOK
<1>14. CacheInBounds'
    BY <1>b DEF CacheInBounds, Items, caches
<1>15. ExitReportsOwnership'
    <2>1. ASSUME NEW u \in Threads \ {t}
          PROVE  /\ pc'[u] = pc[u] /\ func'[u] = func[u] /\ result'[u] = result[u]
                 /\ u \in releasing' <=> u \in releasing
        BY <1>b DEF TypeOK
    <2>2. ASSUME NEW u \in Threads \ {t}, NEW e \in SyncDatas
          PROVE  owner'[e] = u <=> owner[e] = u
        BY <1>a, <1>b, ThreadsAssumption DEF TypeOK
    <2>3. pc'[t] = "idle"
        BY <1>b DEF TypeOK
    <2>4. \A u \in Threads : pc[u] = "mutex" => result[u] \in SyncDatas
        BY DEF ResultInv
    <2> QED BY <2>1, <2>2, <2>3, <2>4 DEF ExitReportsOwnership
<1> QED BY <1>1, <1>2, <1>3, <1>4, <1>5, <1>6, <1>7, <1>8, <1>9, <1>10, <1>11,
       <1>12, <1>13, <1>14, <1>15

\* A refused tryUnlock preserves the invariant.
LEMMA TryUnlockFailsPreserves ==
    ASSUME IndInv, NEW t \in Threads,
           TryUnlockFails(t)
    PROVE  IndInv'
<1> USE DEF IndInv
<1>1. TypeOK'
    BY StripesAssumption, BoundsAssumption DEF TypeOK, Places, Funcs,
       TryUnlockFails, Return, pool, mutexes, caches, CallInv, Busy, ListOf,
       SyncDatas, Ranks
<1>2. CallInv'
    BY DEF CallInv, Busy, InList, ListOf, TryUnlockFails, Return, pool,
       mutexes, caches, TypeOK
<1>3. ListInv'
    BY DEF ListInv, ListAt, TryUnlockFails, Return, pool, mutexes, caches
<1>4. UniqueObject'
    BY DEF UniqueObject, TryUnlockFails, Return, pool, mutexes, caches
<1>5. WalkInv'
    BY DEF WalkInv, WalkOf, ListOf, TryUnlockFails, Return, pool, mutexes,
       caches, TypeOK
<1>6. ItemInv'
    BY DEF ItemInv, HasItem, TryUnlockFails, Return, pool, mutexes, caches,
       TypeOK
<1>7. ResultInv'
    BY DEF ResultInv, HasItem, Saving, TryUnlockFails, Return, pool, mutexes,
       caches, TypeOK
<1>8. ReleasingInv'
    BY DEF ReleasingInv, TryUnlockFails, Return, pool, mutexes, caches, TypeOK
<1>9. MutexInv'
    BY DEF MutexInv, TryUnlockFails, Return, pool, mutexes, caches, TypeOK
<1>10. HeldInv'
    BY DEF HeldInv, Depth, Pending, TryUnlockFails, Return, pool, mutexes,
       caches, TypeOK
<1>11. UseInv'
    BY DEF UseInv, LockCount, TryUnlockFails, Return, pool, mutexes, caches,
       TypeOK
<1>12. RoomInv'
    BY DEF RoomInv, TryUnlockFails, Return, pool, mutexes, caches, TypeOK
<1>13. ThreadCountExact'
    BY BalanceKept DEF IsUser, HasItem, TryUnlockFails, Return, pool, mutexes, caches, TypeOK
<1>14. CacheInBounds'
    BY DEF CacheInBounds, Items, TryUnlockFails, Return, pool, mutexes,
       caches, TypeOK
<1>15. ExitReportsOwnership'
    BY DEF ExitReportsOwnership, TryUnlockFails, Return, pool, mutexes,
       caches, TypeOK
<1> QED BY <1>1, <1>2, <1>3, <1>4, <1>5, <1>6, <1>7, <1>8, <1>9, <1>10, <1>11,
       <1>12, <1>13, <1>14, <1>15

-----------------------------------------------------------------------------
(* A hit in one of the caches                                              *)

\* The call is an exit that removes the item.
Last(t, f, d) == f = "exit" /\ LockCount(t, d) = 1

\* What FastCacheHit and CacheHit have in common.
HitStep(t, f, o, d) ==
    /\ pc[t] = "idle" /\ object[d] = o /\ HasItem(t, d)
    /\ pc' = [pc EXCEPT ![t] = "mutex"]
    /\ func' = [func EXCEPT ![t] = f]
    /\ arg' = [arg EXCEPT ![t] = o]
    /\ result' = [result EXCEPT ![t] = d]
    /\ IF f = "exit" /\ held[t][o] > 0
       THEN /\ held' = [held EXCEPT ![t][o] = @ - 1]
            /\ releasing' = releasing \cup {t}
       ELSE UNCHANGED <<held, releasing>>
    /\ threadCount' = IF Last(t, f, d) THEN [threadCount EXCEPT ![d] = @ - 1]
                                       ELSE threadCount
    /\ \A u \in Threads, e \in SyncDatas :
          /\ HasItem(u, e)' <=> HasItem(u, e) /\ ~ (u = t /\ e = d /\ Last(t, f, d))
          /\ LockCount(u, e)' = IF u = t /\ e = d THEN Counted(f, LockCount(t, d))
                                                  ELSE LockCount(u, e)
    /\ UNCHANGED <<object, owner, depth, len, listLock, p, firstUnused, stray>>

\* An item has a positive count, and its SyncData is counted.
LEMMA ItemIsCounted ==
    ASSUME IndInv, NEW t \in Threads, NEW d \in SyncDatas, HasItem(t, d)
    PROVE  /\ LockCount(t, d) \in Nat \ {0}
           /\ threadCount[d] \in Nat \ {0}
           /\ t \in Users(d)
           /\ object[d] \in Objects
<1>1. t \in Users(d)
    BY DEF Users, IsUser
<1>2. threadCount[d] > 0
    BY <1>1, UsedIsCounted DEF IndInv
<1>3. LockCount(t, d) > 0
    BY Located DEF LockCount, HasItem, IndInv, ItemInv
<1> QED BY <1>1, <1>2, <1>3 DEF IndInv, TypeOK, LockCount, ItemInv

\* A hit preserves all that is not about the layout of the caches.
LEMMA HitPreserves ==
    ASSUME IndInv, NEW t \in Threads, NEW f \in Funcs, NEW o \in Objects,
           NEW d \in SyncDatas, HitStep(t, f, o, d)
    PROVE  /\ threadCount' \in [SyncDatas -> Nat]
           /\ held' \in [Threads -> [Objects -> Nat]]
           /\ releasing' \in SUBSET Threads
           /\ CallInv'
           /\ ListInv'
           /\ UniqueObject'
           /\ WalkInv'
           /\ ResultInv'
           /\ ReleasingInv'
           /\ MutexInv'
           /\ HeldInv'
           /\ UseInv'
           /\ ThreadCountExact'
           /\ ExitReportsOwnership'
<1> USE DEF IndInv
<1> DEFINE ending == f = "exit" /\ held[t][o] > 0
<1>a. /\ LockCount(t, d) \in Nat \ {0} /\ threadCount[d] \in Nat \ {0}
      /\ t \in Users(d) /\ o # nil
    BY ItemIsCounted, ObjectsAssumption DEF HitStep
<1>b. \A u \in Threads : /\ pc'[u] = IF u = t THEN "mutex" ELSE pc[u]
                         /\ func'[u] = IF u = t THEN f ELSE func[u]
                         /\ arg'[u] = IF u = t THEN o ELSE arg[u]
                         /\ result'[u] = IF u = t THEN d ELSE result[u]
    BY DEF HitStep, TypeOK
<1>c. \A e \in SyncDatas :
          /\ threadCount[e] \in Nat
          /\ threadCount'[e] = IF e = d /\ Last(t, f, d) THEN threadCount[e] - 1
                                                         ELSE threadCount[e]
    BY DEF HitStep, TypeOK
<1>d. \A u \in Threads, q \in Objects :
          /\ held[u][q] \in Nat
          /\ held'[u][q] = IF u = t /\ q = o /\ ending THEN held[u][q] - 1
                                                       ELSE held[u][q]
    BY DEF HitStep, TypeOK
<1>e. \A u \in Threads : u \in releasing' <=> u \in releasing \/ (u = t /\ ending)
    BY DEF HitStep
<1>f. \A e \in SyncDatas : object[e] = o => e = d
    BY <1>a DEF UniqueObject, HitStep
<1>1. threadCount' \in [SyncDatas -> Nat]
    <2>1. threadCount[d] - 1 \in Nat
        BY <1>a
    <2> QED BY <2>1 DEF HitStep, TypeOK
<1>2. held' \in [Threads -> [Objects -> Nat]]
    <2>1. ending => held[t][o] - 1 \in Nat
        BY <1>d
    <2> QED BY <2>1 DEF HitStep, TypeOK
<1>3. releasing' \in SUBSET Threads
    BY DEF HitStep, TypeOK
<1>4. CallInv'
    BY <1>b DEF CallInv, Busy, InList, ListOf, HitStep
<1>5. ListInv'
    <2> SUFFICES ASSUME NEW s \in Stripes, NEW k \in Ranks
                 PROVE  ListAt(s, k)'
        BY DEF ListInv
    <2>1. <<s, k>> \in SyncDatas
        BY Located
    <2>2. k > len[s] => <<s, k>> # d
        BY <1>a DEF ListInv, ListAt, HitStep
    <2>3. k > len[s] => threadCount'[<<s, k>>] = threadCount[<<s, k>>]
        BY <2>1, <2>2, <1>c
    <2> QED BY <2>3 DEF ListInv, ListAt, HitStep
<1>6. UniqueObject'
    BY DEF UniqueObject, HitStep
<1>7. WalkInv'
    <2> SUFFICES ASSUME NEW u \in Threads \ {t}, pc[u] = "walk"
                 PROVE  WalkOf(u)'
        BY <1>b DEF WalkInv, WalkOf
    <2>1. WalkOf(u)
        BY DEF WalkInv
    <2>2. firstUnused[u] # nil => threadCount'[firstUnused[u]] = 0
        <3>1. firstUnused[u] # nil => /\ firstUnused[u] \in SyncDatas
                                      /\ threadCount[firstUnused[u]] = 0
            BY <2>1 DEF WalkOf, TypeOK
        <3> QED BY <3>1, <1>a, <1>c
    <2> QED BY <2>1, <2>2, <1>b DEF WalkOf, ListOf, HitStep
<1>8. ResultInv'
    <2>1. ASSUME f # "exit"
          PROVE  HasItem(t, d)'
        BY <2>1 DEF HitStep, Last
    <2> QED BY <2>1, <1>b DEF ResultInv, Saving, HitStep
<1>9. MutexInv'
    BY DEF MutexInv, HitStep
<1>14. ReleasingInv'
    BY <1>b, <1>e DEF ReleasingInv, HitStep, TypeOK
<1>10. HeldInv'
    <2>1. \A u \in Threads, e \in SyncDatas :
              /\ Depth(u, e)' = Depth(u, e)
              /\ Pending(u, e)' = IF u = t /\ e = d /\ ending THEN 1 ELSE Pending(u, e)
        <3>2. ASSUME NEW e \in SyncDatas
              PROVE  Pending(t, e)' = IF e = d /\ ending THEN 1 ELSE Pending(t, e)
            <4>1. Pending(t, e) = 0
                BY DEF Pending, HitStep
            <4>2. t \in releasing' <=> ending
                BY <1>e DEF HitStep, ReleasingInv
            <4> QED BY <4>1, <4>2, <1>b DEF Pending
        <3>3. ASSUME NEW u \in Threads \ {t}, NEW e \in SyncDatas
              PROVE  Pending(u, e)' = Pending(u, e)
            BY <1>b, <1>e DEF Pending
        <3> QED BY <3>2, <3>3 DEF Depth, HitStep
    <2>2. ASSUME NEW u \in Threads, NEW e \in SyncDatas, object[e] # nil
          PROVE  Depth(u, e)' = held'[u][object[e]] + Pending(u, e)'
        <3>1. /\ Depth(u, e) = held[u][object[e]] + Pending(u, e)
              /\ object[e] \in Objects
            BY <2>2 DEF HeldInv, TypeOK
        <3>2. Pending(u, e) \in Nat /\ (u = t => Pending(u, e) = 0)
            BY DEF Pending, HitStep
        <3> QED BY <3>1, <3>2, <2>1, <1>d, <1>f DEF HitStep
    <2>3. ASSUME NEW u \in Threads, NEW q \in Objects, held'[u][q] > 0
          PROVE  \E e \in SyncDatas : object[e] = q
        <3>1. held[u][q] > 0
            BY <2>3, <1>d
        <3> QED BY <3>1 DEF HeldInv
    <2> QED BY <2>2, <2>3 DEF HeldInv, HitStep
<1>11. UseInv'
    <2>1. ASSUME NEW u \in Threads, NEW e \in SyncDatas, object[e] # nil
          PROVE  /\ pc'[u] # "exited" => held'[u][object[e]] <= LockCount(u, e)'
                 /\ pc'[u] = "exited" /\ held'[u][object[e]] > 0 => stray[e] > 0
                 /\ pc'[u] = "mutex" /\ func'[u] # "exit" /\ result'[u] = e =>
                        held'[u][object[e]] < LockCount(u, e)'
        <3>1. /\ object[e] \in Objects /\ held[u][object[e]] \in Nat
              /\ LockCount(u, e) \in Nat
            BY <2>1 DEF TypeOK, LockCount
        <3>2. CASE u = t /\ e = d
            <4>1. held[t][o] <= LockCount(t, d)
                BY <3>2, <2>1 DEF UseInv, HitStep
            <4>2. LockCount(t, d)' = Counted(f, LockCount(t, d))
                BY DEF HitStep
            <4> QED BY <3>1, <3>2, <4>1, <4>2, <1>a, <1>b, <1>d DEF Counted, HitStep
        <3>3. CASE ~ (u = t /\ e = d)
            <4>1. LockCount(u, e)' = LockCount(u, e)
                BY <3>3 DEF HitStep
            <4>2. held'[u][object[e]] = held[u][object[e]]
                BY <3>1, <3>3, <1>d, <1>f
            <4> QED BY <2>1, <3>3, <4>1, <4>2, <1>b DEF UseInv, HitStep
        <3> QED BY <3>2, <3>3
    <2> QED BY <2>1 DEF UseInv, HitStep
<1>12. ThreadCountExact'
    <2>1. ASSUME NEW u \in Threads, NEW e \in SyncDatas
          PROVE  IsUser(u, e)' <=> IsUser(u, e) /\ ~ (u = t /\ e = d /\ Last(t, f, d))
        BY <1>b DEF IsUser, HitStep
    <2>2. threadCount[d] = Cardinality(Users(d)) + stray[d] /\ stray[d] \in Nat
        BY DEF ThreadCountExact, TypeOK
    <2>3. CASE Last(t, f, d)
        <3>1. Users(d)' = Users(d) \ {t}
            BY <2>1, <2>3 DEF Users
        <3>2. Cardinality(Users(d)') = Cardinality(Users(d)) - 1
            <4>1. Cardinality(Users(d) \ {t}) = Cardinality(Users(d)) - 1
                BY <1>a, UsersFinite, FS_RemoveElement
            <4> QED BY <3>1, <4>1
        <3>3. threadCount'[d] = Cardinality(Users(d)') + stray'[d]
            BY <3>2, <2>2, <2>3, <1>c, UsersFinite DEF HitStep
        <3> QED BY <3>3, <2>1, <1>c, BalanceStep DEF HitStep
    <2>4. CASE ~ Last(t, f, d)
        BY <2>1, <2>4, BalanceKept DEF HitStep
    <2> QED BY <2>3, <2>4
<1>13. ExitReportsOwnership'
    <2>1. ASSUME f = "exit"
          PROVE  t \in releasing' <=> owner[d] = t
        <3>1. Depth(t, d) = held[t][o] + 0
            BY <1>a DEF HeldInv, Pending, HitStep
        <3>2. Depth(t, d) > 0 <=> owner[d] = t
            BY ThreadsAssumption DEF Depth, MutexInv, TypeOK
        <3>3. t \in releasing' <=> ending
            BY <1>e DEF ReleasingInv, HitStep
        <3> QED BY <2>1, <3>1, <3>2, <3>3, <1>d
    <2> QED BY <2>1, <1>b, <1>e DEF ExitReportsOwnership, HitStep
<1> QED BY <1>1, <1>2, <1>3, <1>4, <1>5, <1>6, <1>7, <1>8, <1>9, <1>10, <1>11,
          <1>12, <1>13, <1>14

\* FastCacheHit preserves the invariant.
LEMMA FastCacheHitPreserves ==
    ASSUME IndInv, NEW t \in Threads, NEW f \in Funcs, NEW o \in Objects,
           FastCacheHit(t, f, o)
    PROVE  IndInv'
<1> USE DEF IndInv
<1>0. PICK d \in SyncDatas : d = fastData[t]
    BY DEF FastCacheHit, InFastCache, TypeOK
<1>a. /\ HasItem(t, d) /\ LockCount(t, d) = fastCount[t] /\ cacheCount[t][d] = 0
      /\ d # nil
    BY <1>0, Located DEF HasItem, LockCount, ItemInv
<1>b. fastCount[t] \in Nat \ {0} /\ threadCount[d] \in Nat \ {0}
    BY <1>a, ItemIsCounted
<1>c. /\ fastCount' = [fastCount EXCEPT ![t] = Counted(f, fastCount[t])]
      /\ fastData' = IF Last(t, f, d) THEN [fastData EXCEPT ![t] = nil] ELSE fastData
      /\ UNCHANGED <<cacheCount, used, allocated>>
    BY <1>0, <1>a DEF FastCacheHit, Last
<1>d. \A u \in Threads :
          /\ fastCount'[u] = IF u = t THEN Counted(f, fastCount[t]) ELSE fastCount[u]
          /\ fastData'[u] = IF u = t /\ Last(t, f, d) THEN nil ELSE fastData[u]
    BY <1>c DEF TypeOK
<1>e. \A u \in Threads, e \in SyncDatas :
          /\ HasItem(u, e)' <=> HasItem(u, e) /\ ~ (u = t /\ e = d /\ Last(t, f, d))
          /\ LockCount(u, e)' = IF u = t /\ e = d THEN Counted(f, LockCount(t, d))
                                                  ELSE LockCount(u, e)
    <2>1. \A u \in Threads, e \in SyncDatas :
              HasItem(u, e)' <=> HasItem(u, e) /\ ~ (u = t /\ e = d /\ Last(t, f, d))
        BY <1>0, <1>a, <1>c, <1>d, Located DEF HasItem
    <2>2. Last(t, f, d) => Counted(f, LockCount(t, d)) = 0
        BY <1>a DEF Last, Counted
    <2>3. \A u \in Threads, e \in SyncDatas :
              LockCount(u, e)' = IF u = t /\ e = d THEN Counted(f, LockCount(t, d))
                                                   ELSE LockCount(u, e)
        BY <2>2, <1>0, <1>a, <1>c, <1>d, Located DEF LockCount
    <2> QED BY <2>1, <2>3
<1>f. HitStep(t, f, o, d)
    <2>1. Call(t, f, o, d, "mutex")
        BY <1>0, <1>b DEF FastCacheHit
    <2>2. threadCount' = IF Last(t, f, d) THEN [threadCount EXCEPT ![d] = @ - 1]
                                          ELSE threadCount
        BY <1>0, <1>a DEF FastCacheHit, LeaveSyncData, Last
    <2>3. /\ pc[t] = "idle" /\ object[d] = o
          /\ UNCHANGED <<object, owner, depth, len, listLock, stray>>
        BY <1>0 DEF FastCacheHit, InFastCache, mutexes
    <2> QED BY <2>1, <2>2, <2>3, <1>a, <1>e DEF Call, HitStep
<1>g. Counted(f, fastCount[t]) \in Nat
    BY <1>b DEF Counted
<1>1. TypeOK'
    <2>1. fastCount' \in [Threads -> Nat] /\ fastData' \in [Threads -> SyncDatas \cup {nil}]
        BY <1>c, <1>g DEF TypeOK
    <2>2. /\ threadCount' \in [SyncDatas -> Nat]
          /\ held' \in [Threads -> [Objects -> Nat]]
          /\ releasing' \in SUBSET Threads
        BY <1>f, HitPreserves
    <2> QED BY <2>1, <2>2, <1>c, <1>f DEF TypeOK, HitStep, Places
<1>2. ItemInv'
    <2>1. \A u \in Threads : fastData'[u] # nil => fastCount'[u] > 0
        BY <1>a, <1>b, <1>d, <1>g DEF ItemInv, Last, Counted
    <2>2. \A u \in Threads : pc'[u] = "exited" => pc[u] = "exited"
        BY <1>f DEF HitStep, TypeOK
    <2> QED BY <2>1, <2>2, <1>c, <1>d, <1>e, <1>f, Located DEF ItemInv, HitStep
<1>3. RoomInv'
    BY <1>c, <1>f DEF RoomInv, HitStep, TypeOK
<1>4. CacheInBounds'
    BY <1>c DEF CacheInBounds, Items
<1> QED BY <1>1, <1>2, <1>3, <1>4, <1>f, HitPreserves

\* CacheHit preserves the invariant.
LEMMA CacheHitPreserves ==
    ASSUME IndInv, NEW t \in Threads, NEW f \in Funcs, NEW o \in Objects,
           CacheHit(t, f, o)
    PROVE  IndInv'
<1> USE DEF IndInv
<1>0. PICK d \in SyncDatas :
          /\ InCache(t, o, d)
          /\ Call(t, f, o, d, IF threadCount[d] <= 0 THEN "fatal" ELSE "mutex")
          /\ cacheCount' = [cacheCount EXCEPT ![t][d] = Counted(f, @)]
          /\ used' = IF f = "exit" /\ cacheCount[t][d] = 1
                     THEN [used EXCEPT ![t] = @ - 1] ELSE used
          /\ LeaveSyncData(f, cacheCount[t][d], d)
    BY DEF CacheHit
<1>a. /\ HasItem(t, d) /\ LockCount(t, d) = cacheCount[t][d] /\ fastData[t] # d
      /\ object[d] = o
    BY <1>0 DEF HasItem, LockCount, ItemInv, InCache
<1>b. cacheCount[t][d] \in Nat \ {0} /\ threadCount[d] \in Nat \ {0}
    BY <1>a, ItemIsCounted
<1>c. /\ allocated' = [allocated EXCEPT ![t] = Grown(t)]
      /\ UNCHANGED <<fastData, fastCount>>
      /\ pc[t] = "idle"
    BY DEF CacheHit
<1>d. \A u \in Threads, e \in SyncDatas :
          cacheCount'[u][e] = IF u = t /\ e = d THEN Counted(f, cacheCount[t][d])
                                                ELSE cacheCount[u][e]
    BY <1>0 DEF TypeOK
<1>g. /\ Counted(f, cacheCount[t][d]) \in Nat
      /\ Last(t, f, d) <=> Counted(f, cacheCount[t][d]) = 0
    BY <1>a, <1>b DEF Counted, Last
<1>e. \A u \in Threads, e \in SyncDatas :
          /\ HasItem(u, e)' <=> HasItem(u, e) /\ ~ (u = t /\ e = d /\ Last(t, f, d))
          /\ LockCount(u, e)' = IF u = t /\ e = d THEN Counted(f, LockCount(t, d))
                                                  ELSE LockCount(u, e)
    <2>1. \A u \in Threads, e \in SyncDatas :
              LockCount(u, e)' = IF u = t /\ e = d THEN Counted(f, LockCount(t, d))
                                                   ELSE LockCount(u, e)
        BY <1>a, <1>c, <1>d DEF LockCount
    <2>2. \A u \in Threads, e \in SyncDatas :
              HasItem(u, e)' <=> HasItem(u, e) /\ ~ (u = t /\ e = d /\ Last(t, f, d))
        BY <1>a, <1>b, <1>c, <1>d, <1>g DEF HasItem
    <2> QED BY <2>1, <2>2
<1>f. HitStep(t, f, o, d)
    <2>1. Call(t, f, o, d, "mutex")
        BY <1>0, <1>b
    <2>2. threadCount' = IF Last(t, f, d) THEN [threadCount EXCEPT ![d] = @ - 1]
                                          ELSE threadCount
        BY <1>0, <1>a DEF LeaveSyncData, Last
    <2>3. UNCHANGED <<object, owner, depth, len, listLock, stray>>
        BY DEF CacheHit, mutexes
    <2> QED BY <2>1, <2>2, <2>3, <1>a, <1>c, <1>e DEF Call, HitStep
<1>h. /\ used[t] \in Nat /\ allocated[t] \in Nat /\ used[t] <= allocated[t]
      /\ Grown(t) \in Nat /\ allocated[t] <= Grown(t)
    BY DEF CacheInBounds, TypeOK, Grown
<1>i. \A u \in Threads :
          /\ used'[u] = IF u = t /\ Last(t, f, d) THEN used[u] - 1 ELSE used[u]
          /\ allocated'[u] = IF u = t THEN Grown(t) ELSE allocated[u]
    BY <1>0, <1>a, <1>c DEF Last, TypeOK
<1>j. d \in Items(t) /\ used[t] = Cardinality(Items(t)) /\ used[t] > 0
    <2>1. d \in Items(t) /\ used[t] = Cardinality(Items(t))
        BY <1>b DEF Items, CacheInBounds
    <2> QED BY <2>1, ItemsFinite, FS_EmptySet
<1>1. TypeOK'
    <2>1. /\ cacheCount' \in [Threads -> [SyncDatas -> Nat]]
        BY <1>0, <1>g DEF TypeOK
    <2>2. /\ threadCount' \in [SyncDatas -> Nat]
          /\ held' \in [Threads -> [Objects -> Nat]]
          /\ releasing' \in SUBSET Threads
        BY <1>f, HitPreserves
    <2>3. used[t] - 1 \in Nat
        BY <1>h, <1>j
    <2>4. used' \in [Threads -> Nat] /\ allocated' \in [Threads -> Nat]
        BY <2>3, <1>0, <1>c, <1>h DEF TypeOK
    <2> QED BY <2>1, <2>2, <2>4, <1>c, <1>f DEF TypeOK, HitStep, Places
<1>2. ItemInv'
    <2>1. \A u \in Threads : pc'[u] = "exited" => pc[u] = "exited"
        BY <1>f DEF HitStep, TypeOK
    <2> QED BY <2>1, <1>a, <1>c, <1>d, <1>e, <1>f DEF ItemInv, HitStep
<1>3. RoomInv'
    <2>1. pc'[t] = "mutex" /\ \A u \in Threads \ {t} : pc'[u] = pc[u]
        BY <1>f DEF HitStep, TypeOK
    <2>2. allocated[t] # 0 /\ Grown(t) # 0
        BY <1>h, <1>j
    <2> QED BY <2>1, <2>2, <1>i DEF RoomInv
<1>4. CacheInBounds'
    <2>1. CASE Last(t, f, d)
        <3>1. Items(t)' = Items(t) \ {d}
            BY <2>1, <1>d, <1>g DEF Items
        <3>2. Cardinality(Items(t)') = Cardinality(Items(t)) - 1
            <4>1. Cardinality(Items(t) \ {d}) = Cardinality(Items(t)) - 1
                BY <1>j, ItemsFinite, FS_RemoveElement
            <4> QED BY <3>1, <4>1
        <3>3. used'[t] = Cardinality(Items(t)')
            BY <3>2, <2>1, <1>i, <1>j
        <3> QED BY <3>3, <2>1, <1>d, <1>h, <1>i, ItemsStep
    <2>2. CASE ~ Last(t, f, d)
        <3>1. Items(t)' = Items(t)
            BY <2>2, <1>b, <1>d, <1>g DEF Items
        <3> QED BY <3>1, <2>2, <1>d, <1>h, <1>i, <1>j, ItemsStep
    <2> QED BY <2>1, <2>2
<1> QED BY <1>1, <1>2, <1>3, <1>4, <1>f, HitPreserves

\* A thread that finds the object in neither cache is not inside it.
LEMMA MissIsOutside ==
    ASSUME IndInv, NEW t \in Threads, NEW o \in Objects, pc[t] # "exited",
           ~ InFastCache(t, o), \A d \in SyncDatas : ~ InCache(t, o, d)
    PROVE  /\ held[t][o] = 0
           /\ \A d \in SyncDatas : HasItem(t, d) => object[d] # o
<1> USE DEF IndInv
<1>1. \A d \in SyncDatas : HasItem(t, d) => object[d] # o
    BY Located DEF HasItem, InFastCache, InCache
<1>2. held[t][o] \in Nat
    BY DEF TypeOK
<1>3. ASSUME held[t][o] > 0
      PROVE  FALSE
    <2>1. PICK d \in SyncDatas : object[d] = o
        BY <1>3 DEF HeldInv
    <2>2. held[t][o] <= LockCount(t, d)
        BY <2>1, ObjectsAssumption DEF UseInv
    <2>3. LockCount(t, d) = 0
        BY <1>1, <2>1 DEF HasItem, LockCount, TypeOK
    <2> QED BY <2>2, <2>3, <1>2, <1>3
<1> QED BY <1>1, <1>2, <1>3

\* CacheMiss preserves the invariant.
LEMMA CacheMissPreserves ==
    ASSUME IndInv, NEW t \in Threads, NEW f \in Funcs, NEW o \in Objects,
           CacheMiss(t, f, o)
    PROVE  IndInv'
<1> USE DEF IndInv
<1>a. /\ held[t][o] = 0
      /\ \A d \in SyncDatas : HasItem(t, d) => object[d] # o
    BY MissIsOutside DEF CacheMiss
<1>b. /\ pc[t] = "idle"
      /\ pc' = [pc EXCEPT ![t] = "lockList"]
      /\ func' = [func EXCEPT ![t] = f]
      /\ arg' = [arg EXCEPT ![t] = o]
      /\ result' = [result EXCEPT ![t] = nil]
      /\ UNCHANGED <<object, threadCount, len, owner, depth, listLock>>
      /\ UNCHANGED <<held, releasing, p, firstUnused, stray>>
    BY <1>a DEF CacheMiss, Call, pool, mutexes
<1>c. /\ UNCHANGED <<fastData, fastCount, cacheCount, used>>
      /\ allocated' = [allocated EXCEPT ![t] = Grown(t)]
    BY DEF CacheMiss
<1>d. /\ used[t] \in Nat /\ allocated[t] \in Nat /\ used[t] <= allocated[t]
      /\ Grown(t) \in Nat /\ allocated[t] <= Grown(t)
      /\ Grown(t) > 0 => used[t] < Grown(t)
    <2>1. used[t] \in Nat /\ allocated[t] \in Nat /\ used[t] <= allocated[t]
        BY DEF CacheInBounds, TypeOK
    <2> QED BY <2>1 DEF Grown
<1>e. \A u \in Threads : /\ pc'[u] = IF u = t THEN "lockList" ELSE pc[u]
                         /\ func'[u] = IF u = t THEN f ELSE func[u]
                         /\ arg'[u] = IF u = t THEN o ELSE arg[u]
                         /\ result'[u] = IF u = t THEN nil ELSE result[u]
                         /\ allocated'[u] = IF u = t THEN Grown(t) ELSE allocated[u]
    BY <1>b, <1>c DEF TypeOK
<1>f. \A u \in Threads, e \in SyncDatas :
          /\ HasItem(u, e)' <=> HasItem(u, e)
          /\ LockCount(u, e)' = LockCount(u, e)
          /\ Depth(u, e)' = Depth(u, e)
          /\ Pending(u, e)' = Pending(u, e)
    BY <1>b, <1>c, <1>e DEF HasItem, LockCount, Depth, Pending
<1>1. TypeOK'
    BY <1>b, <1>c, <1>d DEF TypeOK, Places
<1>2. CallInv'
    BY <1>b, <1>e DEF CallInv, Busy, InList, ListOf
<1>3. ListInv'
    BY <1>b DEF ListInv, ListAt
<1>4. UniqueObject'
    BY <1>b DEF UniqueObject
<1>5. WalkInv'
    BY <1>b, <1>e DEF WalkInv, WalkOf, ListOf
<1>6. ItemInv'
    BY <1>b, <1>c, <1>e DEF ItemInv, HasItem
<1>7. ResultInv'
    BY <1>a, <1>b, <1>e, <1>f DEF ResultInv, Saving
<1>8. ReleasingInv'
    BY <1>b, <1>e DEF ReleasingInv, TypeOK
<1>9. MutexInv'
    BY <1>b DEF MutexInv
<1>10. HeldInv'
    BY <1>b, <1>f DEF HeldInv
<1>11. UseInv'
    BY <1>b, <1>e, <1>f DEF UseInv
<1>12. RoomInv'
    BY <1>b, <1>c, <1>d, <1>e DEF RoomInv
<1>13. ThreadCountExact'
    <2>1. \A u \in Threads, e \in SyncDatas : IsUser(u, e)' <=> IsUser(u, e)
        BY <1>b, <1>e, <1>f DEF IsUser
    <2> QED BY <2>1, <1>b, BalanceKept
<1>14. CacheInBounds'
    <2>1. \A u \in Threads : Items(u)' = Items(u) /\ used'[u] = used[u]
        BY <1>c DEF Items
    <2>2. used[t] <= allocated'[t]
        <3>1. used[t] \in Nat /\ allocated'[t] \in Nat
            BY <1>1, <1>c DEF TypeOK
        <3> QED BY <3>1, <1>d, <1>e
    <2>3. \A u \in Threads : used[u] <= allocated'[u]
        BY <2>2, <1>e DEF CacheInBounds
    <2> QED BY <2>1, <2>3 DEF CacheInBounds
<1>15. ExitReportsOwnership'
    BY <1>b, <1>e DEF ExitReportsOwnership, ReleasingInv
<1> QED BY <1>1, <1>2, <1>3, <1>4, <1>5, <1>6, <1>7, <1>8, <1>9, <1>10, <1>11,
          <1>12, <1>13, <1>14, <1>15

-----------------------------------------------------------------------------
(* The end of a thread                                                     *)

\* ThreadExit preserves the invariant.
LEMMA ThreadExitPreserves ==
    ASSUME IndInv, NEW t \in Threads, ThreadExit(t)
    PROVE  IndInv'
<1> USE DEF IndInv
<1>b. /\ pc[t] = "idle"
      /\ pc' = [pc EXCEPT ![t] = "exited"]
      /\ UNCHANGED <<object, threadCount, len, owner, depth, listLock>>
      /\ UNCHANGED <<held, releasing, p, firstUnused, func, arg, result>>
    BY DEF ThreadExit, pool, mutexes, frame
<1>c. \A u \in Threads : /\ pc'[u] = IF u = t THEN "exited" ELSE pc[u]
                         /\ fastData'[u] = IF u = t THEN nil ELSE fastData[u]
                         /\ fastCount'[u] = IF u = t THEN 0 ELSE fastCount[u]
                         /\ used'[u] = IF u = t THEN 0 ELSE used[u]
                         /\ allocated'[u] = IF u = t THEN 0 ELSE allocated[u]
    BY DEF ThreadExit, TypeOK
<1>d. \A u \in Threads, e \in SyncDatas :
          cacheCount'[u][e] = IF u = t THEN 0 ELSE cacheCount[u][e]
    BY DEF ThreadExit, TypeOK
<1>e. \A e \in SyncDatas :
          stray'[e] = IF HasItem(t, e) THEN stray[e] + 1 ELSE stray[e]
    BY DEF ThreadExit
<1>f. \A u \in Threads, e \in SyncDatas :
          /\ HasItem(u, e)' <=> HasItem(u, e) /\ u # t
          /\ Depth(u, e)' = Depth(u, e)
          /\ Pending(u, e)' = Pending(u, e)
    BY <1>b, <1>c, <1>d, Located DEF HasItem, Depth, Pending
<1>1. TypeOK'
    <2>1. /\ stray' \in [SyncDatas -> Nat]
          /\ cacheCount' \in [Threads -> [SyncDatas -> Nat]]
        BY DEF ThreadExit, TypeOK
    <2> QED BY <2>1, <1>b DEF TypeOK, ThreadExit, Places
<1>2. CallInv'
    BY <1>b, <1>c DEF CallInv, Busy, InList, ListOf
<1>3. ListInv'
    BY <1>b DEF ListInv, ListAt
<1>4. UniqueObject'
    BY <1>b DEF UniqueObject
<1>5. WalkInv'
    BY <1>b, <1>c DEF WalkInv, WalkOf, ListOf
<1>6. ItemInv'
    BY <1>b, <1>c, <1>d, <1>f, Located DEF ItemInv
<1>7. ResultInv'
    BY <1>b, <1>c, <1>f DEF ResultInv, Saving
<1>8. ReleasingInv'
    BY <1>b, <1>c DEF ReleasingInv, TypeOK
<1>9. MutexInv'
    BY <1>b DEF MutexInv
<1>10. HeldInv'
    BY <1>b, <1>f DEF HeldInv
<1>11. UseInv'
    <2>1. ASSUME NEW e \in SyncDatas, object[e] # nil, held[t][object[e]] > 0
          PROVE  stray'[e] > 0
        <3>1. held[t][object[e]] <= LockCount(t, e)
            BY <2>1, <1>b DEF UseInv
        <3>2. HasItem(t, e)
            BY <2>1, <3>1 DEF HasItem, LockCount, TypeOK
        <3> QED BY <3>2, <1>e DEF TypeOK
    <2>2. ASSUME NEW u \in Threads \ {t}, NEW e \in SyncDatas
          PROVE  /\ LockCount(u, e)' = LockCount(u, e)
                 /\ stray[e] > 0 => stray'[e] > 0
        <3>1. LockCount(u, e)' = LockCount(u, e)
            BY <1>c, <1>d DEF LockCount
        <3>2. stray[e] \in Nat
            BY DEF TypeOK
        <3> QED BY <3>1, <3>2, <1>e
    <2> QED BY <2>1, <2>2, <1>b, <1>c DEF UseInv
<1>12. RoomInv'
    BY <1>c DEF RoomInv
<1>13. ThreadCountExact'
    <2> SUFFICES ASSUME NEW e \in SyncDatas
                 PROVE  threadCount[e] = Cardinality(Users(e)') + stray'[e]
        BY <1>b DEF ThreadCountExact
    <2>1. \A u \in Threads : IsUser(u, e)' <=> IsUser(u, e) /\ u # t
        BY <1>b, <1>c, <1>f DEF IsUser
    <2>2. Users(e)' = Users(e) \ {t} /\ (t \in Users(e) <=> HasItem(t, e))
        BY <2>1, <1>b DEF Users, IsUser
    <2>3. Cardinality(Users(e)') = IF HasItem(t, e) THEN Cardinality(Users(e)) - 1
                                                    ELSE Cardinality(Users(e))
        BY <2>2, UsersFinite, FS_RemoveElement
    <2>4. threadCount[e] = Cardinality(Users(e)) + stray[e] /\ stray[e] \in Nat
        BY DEF ThreadCountExact, TypeOK
    <2> QED BY <2>3, <2>4, <1>e, UsersFinite
<1>14. CacheInBounds'
    <2>1. Items(t)' = {}
        BY <1>d DEF Items
    <2>2. used'[t] = Cardinality(Items(t)') /\ used'[t] <= allocated'[t]
        BY <2>1, <1>c, FS_EmptySet
    <2> QED BY <2>2, <1>c, <1>d, ItemsStep
<1>15. ExitReportsOwnership'
    BY <1>b, <1>c DEF ExitReportsOwnership
<1> QED BY <1>1, <1>2, <1>3, <1>4, <1>5, <1>6, <1>7, <1>8, <1>9, <1>10, <1>11,
          <1>12, <1>13, <1>14, <1>15

-----------------------------------------------------------------------------
(* Theorems                                                                *)

\* Nothing is in use at the start.
LEMMA InitEstablishes == Init => IndInv
<1> SUFFICES ASSUME Init PROVE IndInv
    OBVIOUS
<1>1. \A d \in SyncDatas : Users(d) = {}
    BY NilAssumption DEF Init, Users, IsUser, HasItem
<1>2. \A t \in Threads : Items(t) = {}
    BY DEF Init, Items
<1>3. TypeOK
    BY BoundsAssumption DEF Init, TypeOK, Places, Funcs
<1>4. CallInv /\ UniqueObject /\ WalkInv /\ ResultInv /\ ReleasingInv /\ RoomInv
    BY DEF Init, CallInv, Busy, InList, UniqueObject, WalkInv, WalkOf, ResultInv,
           Saving, ReleasingInv, RoomInv
<1>5. ListInv
    <2> SUFFICES ASSUME NEW s \in Stripes, NEW k \in Ranks PROVE ListAt(s, k)
        BY DEF ListInv
    <2>1. k \in Nat /\ k > 0 /\ len[s] = 0
        BY BoundsAssumption DEF Init, Ranks
    <2>2. <<s, k>> \in SyncDatas
        BY DEF SyncDatas
    <2>3. /\ object[<<s, k>>] = nil
          /\ owner[<<s, k>>] = nil
          /\ threadCount[<<s, k>>] = 0
        BY <2>2 DEF Init
    <2> QED BY <2>1, <2>3 DEF ListAt
<1>6. ItemInv /\ MutexInv
    BY Located DEF Init, ItemInv, HasItem, MutexInv
<1>7. HeldInv /\ UseInv
    BY DEF Init, HeldInv, UseInv
<1>8. ThreadCountExact
    <2> SUFFICES ASSUME NEW d \in SyncDatas
                 PROVE  threadCount[d] = Cardinality(Users(d)) + stray[d]
        BY DEF ThreadCountExact
    <2>1. threadCount[d] = 0 /\ stray[d] = 0
        BY DEF Init
    <2>2. Cardinality(Users(d)) = 0
        BY <1>1, FS_EmptySet
    <2> QED BY <2>1, <2>2
<1>9. CacheInBounds
    <2>1. \A t \in Threads : Cardinality(Items(t)) = 0
        BY <1>2, FS_EmptySet
    <2> QED BY <2>1 DEF Init, CacheInBounds
<1>10. ExitReportsOwnership
    BY DEF Init, ExitReportsOwnership
<1> QED BY <1>3, <1>4, <1>5, <1>6, <1>7, <1>8, <1>9, <1>10 DEF IndInv

\* A step that changes nothing keeps it.
LEMMA StutterPreserves ==
    ASSUME IndInv, UNCHANGED vars
    PROVE  IndInv'
<1> USE DEF IndInv, vars
<1>1. TypeOK'
    BY DEF TypeOK
<1>2. CallInv' /\ ListInv' /\ UniqueObject'
    BY DEF CallInv, Busy, InList, ListOf, ListInv, ListAt, UniqueObject
<1>3. WalkInv' /\ ItemInv' /\ ResultInv'
    BY DEF WalkInv, WalkOf, ListOf, ItemInv, ResultInv, HasItem, Saving
<1>4. ReleasingInv' /\ MutexInv' /\ HeldInv'
    BY DEF ReleasingInv, MutexInv, HeldInv, Depth, Pending
<1>5. UseInv' /\ RoomInv' /\ ExitReportsOwnership'
    BY DEF UseInv, LockCount, RoomInv, ExitReportsOwnership
<1>6. ThreadCountExact'
    BY BalanceKept DEF IsUser, HasItem
<1>7. CacheInBounds'
    BY DEF CacheInBounds, Items
<1> QED BY <1>1, <1>2, <1>3, <1>4, <1>5, <1>6, <1>7

\* Every step of every thread preserves the invariant.
LEMMA NextPreserves ==
    ASSUME IndInv, Next
    PROVE  IndInv'
<1>1. PICK t \in Threads : Begin(t) \/ Step(t) \/ ThreadExit(t)
    BY DEF Next
<1>2. CASE Begin(t)
    BY <1>2, FastCacheHitPreserves, CacheHitPreserves, CacheMissPreserves DEF Begin
<1>3. CASE Step(t)
    BY <1>3, LockListPreserves, WalkFoundPreserves, WalkNextPreserves,
       WalkFailsPreserves, ReuseSyncDataPreserves, AllocateSyncDataPreserves,
       UnlockListAndReturnPreserves, UnlockListAndSavePreserves,
       SaveInFastCachePreserves, SaveInCachePreserves, MutexLockPreserves,
       TryLockFailsPreserves, TryUnlockPreserves, TryUnlockFailsPreserves
       DEF Step
<1>4. CASE ThreadExit(t)
    BY <1>4, ThreadExitPreserves
<1> QED BY <1>1, <1>2, <1>3, <1>4

\* IndInv holds in every reachable state, for any threads, objects and stripes.
THEOREM Invariance == Spec => []IndInv
<1>1. IndInv /\ [Next]_vars => IndInv'
    BY NextPreserves, StutterPreserves
<1> QED BY <1>1, InitEstablishes, PTL DEF Spec

\* The variables keep their types; in particular no counter of a SyncData or a
\* cache ever drops below zero.
THEOREM TypeCorrectness == Spec => []TypeOK
<1>1. IndInv => TypeOK
    BY DEF IndInv
<1> QED BY <1>1, Invariance, PTL

\* Two threads inside one object own the mutex of the one SyncData it has.
LEMMA HolderOwns ==
    ASSUME IndInv, NEW t \in Threads, NEW o \in Objects, held[t][o] > 0
    PROVE  \E d \in SyncDatas : object[d] = o /\ owner[d] = t
<1>1. PICK d \in SyncDatas : object[d] = o
    BY DEF IndInv, HeldInv
<1>2. Depth(t, d) = held[t][o] + Pending(t, d)
    BY <1>1, ObjectsAssumption DEF IndInv, HeldInv
<1>3. held[t][o] \in Nat /\ Pending(t, d) \in Nat
    BY DEF IndInv, TypeOK, Pending
<1>4. Depth(t, d) > 0
    BY <1>2, <1>3
<1> QED BY <1>1, <1>4 DEF Depth

\* An object someone is inside is entered by nobody else (objc_sync_enter,
\* whatever the clients do).
THEOREM MutualExclusionHolds == Spec => []MutualExclusion
<1>1. IndInv => MutualExclusion
    <2> SUFFICES ASSUME IndInv, NEW t \in Threads, NEW u \in Threads,
                        NEW o \in Objects, held[t][o] > 0, held[u][o] > 0
                 PROVE  t = u
        BY DEF MutualExclusion
    <2>1. PICK d \in SyncDatas : object[d] = o /\ owner[d] = t
        BY HolderOwns
    <2>2. PICK e \in SyncDatas : object[e] = o /\ owner[e] = u
        BY HolderOwns
    <2>3. d = e
        BY <2>1, <2>2, ObjectsAssumption DEF IndInv, UniqueObject
    <2> QED BY <2>1, <2>2, <2>3
<1> QED BY <1>1, Invariance, PTL

\* The list lock keeps an object from getting two SyncData.
THEOREM UniqueSyncDataHolds == Spec => []UniqueSyncData
<1>1. IndInv => UniqueSyncData
    <2> SUFFICES ASSUME IndInv, NEW s \in Stripes, NEW j \in 1..len[s],
                        NEW k \in 1..len[s], object[<<s, j>>] = object[<<s, k>>]
                 PROVE  j = k
        BY DEF UniqueSyncData
    <2>1. j \in Ranks /\ k \in Ranks /\ j <= len[s]
        BY BoundsAssumption DEF IndInv, TypeOK, Ranks
    <2>2. object[<<s, j>>] # nil
        BY <2>1, ObjectsAssumption DEF IndInv, ListInv, ListAt
    <2>3. <<s, j>> = <<s, k>>
        BY <2>1, <2>2, Located DEF IndInv, UniqueObject
    <2> QED BY <2>3
<1> QED BY <1>1, Invariance, PTL

\* The "is buggy" checks of id2data never fire.
THEOREM NoFatalHolds == Spec => []NoFatal
<1>1. IndInv => NoFatal
    BY DEF IndInv, CallInv, NoFatal
<1> QED BY <1>1, Invariance, PTL

\* threadCount is the number of users plus the leaked increments, in spite of
\* the decrements made without the list lock.
THEOREM ThreadCountExactHolds == Spec => []ThreadCountExact
<1>1. IndInv => ThreadCountExact
    BY DEF IndInv
<1> QED BY <1>1, Invariance, PTL

\* Saving an item never writes past the end of a SyncCache.
THEOREM CacheInBoundsHolds == Spec => []CacheInBounds
<1>1. IndInv => CacheInBounds
    BY DEF IndInv
<1> QED BY <1>1, Invariance, PTL

\* objc_sync_exit reports success exactly to those who were inside.
THEOREM ExitReportsOwnershipHolds == Spec => []ExitReportsOwnership
<1>1. IndInv => ExitReportsOwnership
    BY DEF IndInv
<1> QED BY <1>1, Invariance, PTL

\* Only ReuseSyncData and AllocateSyncData change the object of a SyncData, and
\* only of one that nobody uses.
LEMMA ObjectChange ==
    ASSUME IndInv, [Next]_vars, NEW d \in SyncDatas, object'[d] # object[d]
    PROVE  threadCount[d] = 0
<1>1. PICK t \in Threads : ReuseSyncData(t) \/ AllocateSyncData(t)
    <2>1. PICK t \in Threads : Begin(t) \/ Step(t) \/ ThreadExit(t)
        BY DEF Next, vars
    <2>2. ASSUME NEW f \in Funcs, NEW o \in Objects
          PROVE  ~ FastCacheHit(t, f, o)
        BY DEF FastCacheHit
    <2>3. ASSUME NEW f \in Funcs, NEW o \in Objects
          PROVE  ~ CacheHit(t, f, o)
        BY DEF CacheHit
    <2>4. ASSUME NEW f \in Funcs, NEW o \in Objects
          PROVE  ~ CacheMiss(t, f, o)
        BY DEF CacheMiss, pool
    <2>5. ~ Begin(t)
        BY <2>2, <2>3, <2>4 DEF Begin
    <2>6. /\ ~ LockList(t) /\ ~ WalkFound(t) /\ ~ WalkNext(t) /\ ~ WalkFails(t)
          /\ ~ UnlockListAndReturn(t) /\ ~ UnlockListAndSave(t)
        BY DEF pool, LockList, WalkFound, WalkNext, WalkFails,
               UnlockListAndReturn, UnlockListAndSave
    <2>7. /\ ~ SaveInFastCache(t) /\ ~ SaveInCache(t) /\ ~ ThreadExit(t)
        BY DEF pool, SaveInFastCache, SaveInCache, ThreadExit
    <2>8. /\ ~ MutexLock(t) /\ ~ TryLockFails(t) /\ ~ TryUnlock(t)
          /\ ~ TryUnlockFails(t)
        BY DEF pool, MutexLock, TryLockFails, TryUnlock, TryUnlockFails
    <2> QED BY <2>1, <2>5, <2>6, <2>7, <2>8 DEF Step
<1>2. CASE ReuseSyncData(t)
    <2>1. d = firstUnused[t]
        BY <1>2 DEF ReuseSyncData, TakeSyncData, IndInv, TypeOK
    <2> QED BY <1>2, <2>1, Located DEF ReuseSyncData, IndInv, WalkInv, WalkOf
<1>3. CASE AllocateSyncData(t)
    <2>1. ListOf(t) \in Stripes
        BY <1>3, WalkedAll DEF AllocateSyncData
    <2>2. d = <<ListOf(t), len[ListOf(t)] + 1>>
        BY <1>3 DEF AllocateSyncData, TakeSyncData, IndInv, TypeOK
    <2>3. len[ListOf(t)] + 1 \in Ranks /\ len[ListOf(t)] \in Nat
        BY <1>3, <2>1, BoundsAssumption DEF AllocateSyncData, IndInv, TypeOK, Ranks
    <2> QED BY <2>1, <2>2, <2>3 DEF IndInv, ListInv, ListAt
<1> QED BY <1>1, <1>2, <1>3

\* A SyncData is never given to another object while a thread uses it or is
\* inside the object it has.
THEOREM InUseKeepsObjectHolds == Spec => InUseKeepsObject
<1>1. ASSUME IndInv, [Next]_vars, NEW d \in SyncDatas, object'[d] # object[d]
      PROVE  /\ Users(d) = {}
             /\ \A t \in Threads, o \in Objects : object[d] = o => held[t][o] = 0
    <2>1. threadCount[d] = 0
        BY <1>1, ObjectChange
    <2>2. Users(d) = {}
        BY <1>1, <2>1, UncountedIsUnused DEF IndInv
    <2> QED BY <1>1, <2>1, <2>2, UncountedIsFree, ObjectsAssumption
<1>2. IndInv /\ [Next]_vars =>
          [\A d \in SyncDatas : object'[d] # object[d] =>
               /\ Users(d) = {}
               /\ \A t \in Threads, o \in Objects :
                      object[d] = o => held[t][o] = 0]_vars
    BY <1>1
<1> QED BY <1>2, Invariance, PTL DEF Spec, InUseKeepsObject

-----------------------------------------------------------------------------
(* The clients of the tests                                                *)

\* The thread has counted the enter that it is about to finish.
Entering(t, d) ==
    IF pc[t] = "mutex" /\ func[t] = "enter" /\ result[t] = d THEN 1 ELSE 0

\* A thread only goes to a list to enter, and ends outside.
ClientCalls(t) ==
    /\ func[t] # "try_enter"
    /\ pc[t] \in {"lockList", "walk", "done", "save"} => func[t] = "enter"
    /\ pc[t] = "exited" => Outside(t)

\* The caches count no more than what the thread is inside of, which with UseInv
\* makes them exact.
ClientCounts(t) ==
    \A d \in SyncDatas : object[d] # nil =>
        LockCount(t, d) <= held[t][object[d]] + Entering(t, d)

\* What clients that leave exactly what they entered add to IndInv.
ClientInv ==
    /\ \A t \in Threads : ClientCalls(t) /\ ClientCounts(t)
    /\ \A d \in SyncDatas : stray[d] = 0

\* A step of t changes nothing that is of other threads.
OnlyOf(t) ==
    \A u \in Threads \ {t} :
        /\ pc'[u] = pc[u] /\ func'[u] = func[u] /\ result'[u] = result[u]
        /\ fastData'[u] = fastData[u] /\ fastCount'[u] = fastCount[u]
        /\ cacheCount'[u] = cacheCount[u] /\ held'[u] = held[u]

\* A SyncData gets another object when nobody has an item for it.
ObjectsKept ==
    \A d \in SyncDatas : object'[d] = object[d] \/ \A u \in Threads : LockCount(u, d)' = 0

LEMMA ClientOthers ==
    ASSUME TypeOK, TypeOK', ClientInv, NEW t \in Threads, OnlyOf(t), ObjectsKept,
           NEW u \in Threads \ {t}
    PROVE  ClientCalls(u)' /\ ClientCounts(u)'
<1>1. ClientCalls(u)'
    BY DEF OnlyOf, ClientInv, ClientCalls, Outside
<1>2. SUFFICES ASSUME NEW d \in SyncDatas, object'[d] # nil
               PROVE  LockCount(u, d)' <= held'[u][object'[d]] + Entering(u, d)'
    BY <1>1 DEF ClientCounts
<1>3. held'[u][object'[d]] \in Nat /\ Entering(u, d)' \in {0, 1}
    BY <1>2 DEF TypeOK, Entering
<1>4. CASE LockCount(u, d)' = 0
    BY <1>3, <1>4
<1>5. CASE object'[d] = object[d]
    <2>1. LockCount(u, d)' = LockCount(u, d) /\ Entering(u, d)' = Entering(u, d)
        BY DEF OnlyOf, LockCount, Entering
    <2>2. LockCount(u, d) <= held[u][object[d]] + Entering(u, d)
        BY <1>2, <1>5 DEF ClientInv, ClientCounts
    <2> QED BY <2>1, <2>2, <1>5 DEF OnlyOf
<1> QED BY <1>4, <1>5 DEF ObjectsKept

\* A thread that is outside, and not about to finish an enter, has no item.
LEMMA OutsideHasNoItem ==
    ASSUME IndInv, ClientInv, NEW t \in Threads, Outside(t), pc[t] # "mutex"
    PROVE  \A d \in SyncDatas : ~ HasItem(t, d)
<1> SUFFICES ASSUME NEW d \in SyncDatas, HasItem(t, d)
             PROVE  FALSE
    OBVIOUS
<1>1. LockCount(t, d) \in Nat \ {0} /\ object[d] \in Objects
    BY ItemIsCounted
<1>2. held[t][object[d]] = 0 /\ Entering(t, d) = 0 /\ object[d] # nil
    BY <1>1, ObjectsAssumption DEF Outside, Entering
<1> QED BY <1>1, <1>2 DEF ClientInv, ClientCounts

\* The thread's step leaves its counts alone and does not bring it to a mutex.
LEMMA ClientSteady ==
    ASSUME IndInv, TypeOK', ClientInv, NEW t \in Threads, OnlyOf(t),
           UNCHANGED <<object, fastData, fastCount, cacheCount, held, stray>>,
           \A d \in SyncDatas : Entering(t, d) = 0,
           ClientCalls(t)'
    PROVE  ClientInv'
<1>1. ObjectsKept
    BY DEF ObjectsKept
<1>2. \A u \in Threads \ {t} : ClientCalls(u)' /\ ClientCounts(u)'
    BY <1>1, ClientOthers DEF IndInv
<1>3. ClientCounts(t)'
    <2> SUFFICES ASSUME NEW d \in SyncDatas, object[d] # nil
                 PROVE  LockCount(t, d)' <= held'[t][object'[d]] + Entering(t, d)'
        BY DEF ClientCounts
    <2>1. LockCount(t, d)' = LockCount(t, d)
        BY DEF LockCount
    <2>2. LockCount(t, d) <= held[t][object[d]] + 0
        BY DEF ClientInv, ClientCounts
    <2>3. Entering(t, d)' \in {0, 1} /\ held[t][object[d]] \in Nat /\ LockCount(t, d) \in Nat
        BY DEF Entering, IndInv, TypeOK, LockCount
    <2> QED BY <2>1, <2>2, <2>3
<1>4. \A d \in SyncDatas : stray'[d] = 0
    BY DEF ClientInv
<1> QED BY <1>2, <1>3, <1>4 DEF ClientInv

\* The steps along the list that leave objects and items alone.
LEMMA ClientListSteps ==
    ASSUME IndInv, TypeOK', ClientInv, NEW t \in Threads,
           LockList(t) \/ WalkFound(t) \/ WalkNext(t) \/ WalkFails(t)
               \/ UnlockListAndReturn(t) \/ UnlockListAndSave(t)
    PROVE  ClientInv'
<1>1. ClientCalls(t) /\ pc \in [Threads -> Places]
    BY DEF ClientInv, IndInv, TypeOK
<1>2. /\ pc[t] \in {"lockList", "walk", "done"} /\ func[t] = "enter"
      /\ pc'[t] \in {"walk", "done", "save"}
      /\ \A u \in Threads \ {t} : pc'[u] = pc[u] /\ result'[u] = result[u]
      /\ UNCHANGED <<object, fastData, fastCount, cacheCount, func, held>>
    <2>1. CASE LockList(t) BY <2>1, <1>1 DEF LockList, ClientCalls, caches, pool
    <2>2. CASE WalkFound(t)
        BY <2>2, <1>1 DEF WalkFound, ClientCalls, caches, IndInv, TypeOK
    <2>3. CASE WalkNext(t) BY <2>3, <1>1 DEF WalkNext, ClientCalls, caches, pool
    <2>4. CASE WalkFails(t) BY <2>4, <1>1 DEF WalkFails, ClientCalls
    <2>5. CASE UnlockListAndReturn(t) BY <2>5, <1>1 DEF UnlockListAndReturn, ClientCalls
    <2>6. CASE UnlockListAndSave(t)
        BY <2>6, <1>1 DEF UnlockListAndSave, ClientCalls, caches, pool, frame
    <2> QED BY <2>1, <2>2, <2>3, <2>4, <2>5, <2>6
<1>3. UNCHANGED stray
    BY <1>2 DEF LockList, WalkFound, WalkNext, WalkFails, UnlockListAndReturn,
                UnlockListAndSave
<1>4. OnlyOf(t)
    BY <1>2 DEF OnlyOf
<1>5. ClientCalls(t)' /\ \A d \in SyncDatas : Entering(t, d) = 0
    BY <1>1, <1>2 DEF ClientCalls, Entering
<1> QED BY <1>2, <1>3, <1>4, <1>5, ClientSteady

\* A SyncData is reused or allocated when nobody has an item for it.
LEMMA ClientTakes ==
    ASSUME IndInv, IndInv', ClientInv, NEW t \in Threads,
           ReuseSyncData(t) \/ AllocateSyncData(t)
    PROVE  ClientInv'
<1>1. PICK d \in SyncDatas :
          /\ TakeSyncData(t, d) /\ pc[t] = "walk" /\ func[t] # "exit"
          /\ \A u \in Threads : LockCount(u, d) = 0
          /\ UNCHANGED <<fastData, fastCount, cacheCount, func, held, stray>>
    <2>1. CASE ReuseSyncData(t)
        <3>1. WalkOf(t) /\ firstUnused[t] # nil /\ pc[t] = "walk"
            BY <2>1 DEF ReuseSyncData, IndInv, WalkInv
        <3>2. firstUnused[t] \in SyncDatas /\ threadCount[firstUnused[t]] = 0
            BY <3>1 DEF WalkOf, IndInv, TypeOK
        <3> QED BY <2>1, <3>2, UncountedIsFree DEF ReuseSyncData, caches
    <2>2. CASE AllocateSyncData(t)
        <3> DEFINE s == ListOf(t)
                   d == <<s, len[s] + 1>>
        <3>1. s \in Stripes /\ len[s] \in Nat /\ len[s] < MaxSyncData
            BY <2>2, StripesAssumption, BoundsAssumption
               DEF AllocateSyncData, IndInv, TypeOK, CallInv, Busy, ListOf
        <3>2. len[s] + 1 \in Ranks /\ len[s] + 1 > len[s]
            BY <3>1, BoundsAssumption DEF Ranks
        <3>3. d \in SyncDatas /\ object[d] = nil
            BY <3>1, <3>2, Located DEF IndInv, ListInv, ListAt
        <3>4. \A u \in Threads : LockCount(u, d) = 0
            <4> TAKE u \in Threads
            <4>1. ~ HasItem(u, d) BY <3>3 DEF IndInv, ItemInv
            <4> HIDE DEF d
            <4> QED BY <3>3, <4>1 DEF LockCount, HasItem, IndInv, TypeOK
        <3> QED BY <2>2, <3>3, <3>4 DEF AllocateSyncData, caches
    <2> QED BY <2>1, <2>2
<1>2. pc \in [Threads -> Places] /\ object \in [SyncDatas -> Objects \cup {nil}]
      /\ result \in [Threads -> SyncDatas \cup {nil}]
    BY DEF IndInv, TypeOK
<1>3. OnlyOf(t)
    BY <1>1, <1>2 DEF OnlyOf, TakeSyncData
<1>4. \A u \in Threads, e \in SyncDatas : LockCount(u, e)' = LockCount(u, e)
    BY <1>1 DEF LockCount
<1>5. ObjectsKept
    BY <1>1, <1>2, <1>4 DEF ObjectsKept, TakeSyncData
<1>6. \A u \in Threads \ {t} : ClientCalls(u)' /\ ClientCounts(u)'
    BY <1>3, <1>5, ClientOthers DEF IndInv
<1>7. ClientCalls(t) /\ pc'[t] = "done"
    BY <1>1, <1>2 DEF ClientInv, TakeSyncData
<1>8. ClientCalls(t)'
    BY <1>1, <1>7 DEF ClientCalls
<1>9. ClientCounts(t)'
    <2> SUFFICES ASSUME NEW e \in SyncDatas, object'[e] # nil
                 PROVE  LockCount(t, e)' <= held'[t][object'[e]] + Entering(t, e)'
        BY DEF ClientCounts
    <2>1. held'[t][object'[e]] \in Nat /\ Entering(t, e)' = 0
        BY <1>7 DEF IndInv, TypeOK, Entering
    <2>2. CASE e = d
        BY <1>1, <1>4, <2>1, <2>2
    <2>3. CASE e # d
        <3>1. object'[e] = object[e] /\ Entering(t, e) = 0
            BY <1>1, <1>2, <2>3 DEF TakeSyncData, Entering
        <3>2. LockCount(t, e) <= held[t][object[e]] + Entering(t, e)
            BY <3>1 DEF ClientInv, ClientCounts
        <3> QED BY <1>1, <1>4, <2>1, <3>1, <3>2
    <2> QED BY <2>2, <2>3
<1> QED BY <1>1, <1>6, <1>8, <1>9 DEF ClientInv

\* A new item is of a thread that is about to lock the mutex.
LEMMA ClientSaves ==
    ASSUME IndInv, IndInv', ClientInv, NEW t \in Threads,
           SaveInFastCache(t) \/ SaveInCache(t)
    PROVE  ClientInv'
<1> DEFINE d == result[t]
<1>1. /\ func[t] # "exit" /\ d \in SyncDatas /\ ~ HasItem(t, d)
      /\ pc[t] = "save" /\ pc'[t] = "mutex" /\ func[t] = "enter"
      /\ UNCHANGED <<object, func, result, held, stray>>
      /\ OnlyOf(t)
    <2>1. pc[t] = "save" /\ pc \in [Threads -> Places] /\ TypeOK
        BY DEF SaveInFastCache, SaveInCache, IndInv, TypeOK
    <2>2. ResultInv /\ pc'[t] # "fatal" /\ ClientCalls(t)
        BY DEF IndInv, CallInv, ClientInv
    <2>3. func[t] # "exit" /\ d \in SyncDatas /\ ~ HasItem(t, d) /\ func[t] = "enter"
        BY <2>1, <2>2 DEF ResultInv, Saving, ClientCalls
    <2>4. CASE SaveInFastCache(t)
        BY <2>1, <2>2, <2>3, <2>4 DEF SaveInFastCache, AfterCheck, pool, frame, OnlyOf, TypeOK
    <2>5. CASE SaveInCache(t)
        BY <2>1, <2>2, <2>3, <2>5 DEF SaveInCache, AfterCheck, pool, frame, OnlyOf, TypeOK
    <2> QED BY <2>4, <2>5
<1>2. \A e \in SyncDatas : LockCount(t, e)' = IF e = d THEN 1 ELSE LockCount(t, e)
    <2>1. CASE SaveInFastCache(t)
        BY <1>1, <2>1, Located DEF SaveInFastCache, LockCount, HasItem, IndInv, TypeOK
    <2>2. CASE SaveInCache(t)
        BY <1>1, <2>2, Located DEF SaveInCache, LockCount, HasItem, IndInv, TypeOK
    <2> QED BY <2>1, <2>2
<1>3. \A u \in Threads \ {t} : ClientCalls(u)' /\ ClientCounts(u)'
    BY <1>1, ClientOthers DEF IndInv, ObjectsKept
<1>4. ClientCalls(t)'
    BY <1>1 DEF ClientCalls
<1>5. ClientCounts(t)'
    <2> SUFFICES ASSUME NEW e \in SyncDatas, object[e] # nil
                 PROVE  LockCount(t, e)' <= held[t][object[e]] + Entering(t, e)'
        BY <1>1 DEF ClientCounts
    <2>1. held[t][object[e]] \in Nat
        BY DEF IndInv, TypeOK
    <2>2. CASE e = d
        BY <1>1, <1>2, <2>1, <2>2 DEF Entering
    <2>3. CASE e # d
        <3>1. Entering(t, e)' = 0 /\ Entering(t, e) = 0
            BY <1>1, <2>3 DEF Entering
        <3>2. LockCount(t, e) <= held[t][object[e]] + Entering(t, e)
            BY DEF ClientInv, ClientCounts
        <3> QED BY <1>2, <2>3, <3>1, <3>2
    <2> QED BY <2>2, <2>3
<1> QED BY <1>1, <1>3, <1>4, <1>5 DEF ClientInv

\* Where the mutex is locked the count of the enter becomes what is held.
LEMMA ClientMutex ==
    ASSUME IndInv, IndInv', ClientInv, NEW t \in Threads,
           MutexLock(t) \/ TryLockFails(t) \/ TryUnlock(t) \/ TryUnlockFails(t)
    PROVE  ClientInv'
<1>1. TypeOK /\ TypeOK' /\ ClientCalls(t)
    BY DEF IndInv, ClientInv
<1>2. CASE MutexLock(t)
    <2> DEFINE d == result[t]
    <2>1. /\ pc[t] = "mutex" /\ func[t] # "exit" /\ pc' = [pc EXCEPT ![t] = "idle"]
          /\ func' = [func EXCEPT ![t] = "exit"] /\ result' = [result EXCEPT ![t] = nil]
          /\ held' = [held EXCEPT ![t][arg[t]] = @ + 1]
          /\ UNCHANGED <<object, fastData, fastCount, cacheCount, stray>>
        BY <1>2 DEF MutexLock, Return, pool, caches
    <2>2. d \in SyncDatas /\ object[d] = arg[t] /\ arg[t] \in Objects /\ func[t] = "enter"
        BY <1>1, <2>1 DEF IndInv, ResultInv, CallInv, Busy, ClientCalls, TypeOK, Funcs
    <2>3. OnlyOf(t) /\ ObjectsKept /\ ClientCalls(t)'
        BY <1>1, <2>1 DEF OnlyOf, ObjectsKept, ClientCalls, TypeOK
    <2>4. \A u \in Threads \ {t} : ClientCalls(u)' /\ ClientCounts(u)'
        BY <1>1, <2>3, ClientOthers
    <2>5. ClientCounts(t)'
        <3> SUFFICES ASSUME NEW e \in SyncDatas, object[e] # nil
                     PROVE  LockCount(t, e)' <= held'[t][object[e]] + Entering(t, e)'
            BY <2>1 DEF ClientCounts
        <3>1. /\ LockCount(t, e)' = LockCount(t, e) /\ LockCount(t, e) \in Nat
              /\ held[t] \in [Objects -> Nat] /\ object[e] \in Objects
            BY <1>1, <2>1 DEF LockCount, TypeOK
        <3>2. LockCount(t, e) <= held[t][object[e]] + Entering(t, e)
            BY DEF ClientInv, ClientCounts
        <3>3. Entering(t, e)' = 0
            BY <1>1, <2>1 DEF Entering, TypeOK
        <3>4. held'[t] = [held[t] EXCEPT ![arg[t]] = @ + 1]
            BY <1>1, <2>1 DEF TypeOK
        <3>5. CASE e = d
            <4>1. held'[t][object[e]] = held[t][object[e]] + 1
                BY <2>2, <3>1, <3>4, <3>5
            <4> QED BY <3>1, <3>2, <3>3, <4>1 DEF Entering
        <3>6. CASE e # d
            <4>1. held'[t][object[e]] >= held[t][object[e]] /\ held'[t][object[e]] \in Nat
                BY <2>2, <3>1, <3>4
            <4>2. Entering(t, e) = 0 BY <3>6 DEF Entering
            <4> QED BY <3>1, <3>2, <3>3, <4>1, <4>2
        <3> QED BY <3>5, <3>6
    <2> QED BY <2>1, <2>3, <2>4, <2>5 DEF ClientInv
<1>3. CASE TryLockFails(t)
    BY <1>1, <1>3 DEF TryLockFails, ClientCalls
<1>4. CASE TryUnlock(t) \/ TryUnlockFails(t)
    <2>1. /\ func[t] = "exit" /\ pc' = [pc EXCEPT ![t] = "idle"]
          /\ func' = [func EXCEPT ![t] = "exit"] /\ result' = [result EXCEPT ![t] = nil]
          /\ UNCHANGED <<object, fastData, fastCount, cacheCount, held, stray>>
        BY <1>4 DEF TryUnlock, TryUnlockFails, Return, pool, caches
    <2>2. OnlyOf(t) /\ ClientCalls(t)' /\ \A d \in SyncDatas : Entering(t, d) = 0
        BY <1>1, <2>1 DEF OnlyOf, ClientCalls, TypeOK, Entering
    <2> QED BY <1>1, <2>1, <2>2, ClientSteady
<1> QED BY <1>2, <1>3, <1>4

\* A call counts with the item that it finds: an enter before the client is
\* inside, an exit when its critical section ends.  Only an enter finds none.
LEMMA ClientCall ==
    ASSUME IndInv, IndInv', ClientInv, NEW t \in Threads, NEW o \in Objects,
           NEW f \in {"enter", "exit"}, f = "exit" => held[t][o] > 0,
           Lookup(t, f, o)
    PROVE  ClientInv'
<1>1. TypeOK /\ TypeOK' /\ pc[t] = "idle"
    BY DEF Lookup, FastCacheHit, CacheHit, CacheMiss, IndInv
<1>2. CASE CacheMiss(t, f, o)
    <2>1. held[t][o] = 0
        BY <1>1, <1>2, MissIsOutside DEF CacheMiss
    <2>2. /\ f = "enter" /\ pc' = [pc EXCEPT ![t] = "lockList"]
          /\ func' = [func EXCEPT ![t] = f] /\ result' = [result EXCEPT ![t] = nil]
          /\ UNCHANGED <<object, fastData, fastCount, cacheCount, held, stray>>
        BY <1>2, <2>1 DEF CacheMiss, Call, pool
    <2>3. OnlyOf(t) /\ ClientCalls(t)' /\ \A d \in SyncDatas : Entering(t, d) = 0
        BY <1>1, <2>2 DEF OnlyOf, ClientCalls, TypeOK, Entering
    <2> QED BY <1>1, <2>2, <2>3, ClientSteady
<1>3. CASE FastCacheHit(t, f, o) \/ CacheHit(t, f, o)
    <2>1. PICK d \in SyncDatas :
              /\ object[d] = o /\ HasItem(t, d)
              /\ pc'[t] # "fatal" => pc' = [pc EXCEPT ![t] = "mutex"]
              /\ func' = [func EXCEPT ![t] = f] /\ result' = [result EXCEPT ![t] = d]
              /\ held' = IF f = "exit" THEN [held EXCEPT ![t][o] = @ - 1] ELSE held
              /\ UNCHANGED <<object, stray>>
              /\ \A e \in SyncDatas :
                     LockCount(t, e)' = IF e = d THEN Counted(f, LockCount(t, d))
                                                 ELSE LockCount(t, e)
        <3>1. CASE FastCacheHit(t, f, o)
            <4> DEFINE d == fastData[t]
            <4>1. d \in SyncDatas /\ object[d] = o /\ HasItem(t, d) /\ d # nil
                BY <1>1, <3>1 DEF FastCacheHit, InFastCache, TypeOK, HasItem
            <4>2. cacheCount[t][d] = 0 /\ fastCount[t] > 0 /\ fastCount[t] \in Nat
                BY <1>1, <4>1 DEF IndInv, ItemInv, TypeOK
            <4>3. /\ pc'[t] # "fatal" => pc' = [pc EXCEPT ![t] = "mutex"]
                  /\ func' = [func EXCEPT ![t] = f] /\ result' = [result EXCEPT ![t] = d]
                  /\ held' = IF f = "exit" THEN [held EXCEPT ![t][o] = @ - 1] ELSE held
                  /\ UNCHANGED <<object, stray, cacheCount>>
                BY <1>1, <3>1 DEF FastCacheHit, Call, TypeOK
            <4>4. /\ fastCount' = [fastCount EXCEPT ![t] = Counted(f, fastCount[t])]
                  /\ fastData' = IF f = "exit" /\ fastCount[t] = 1
                                 THEN [fastData EXCEPT ![t] = nil] ELSE fastData
                BY <3>1 DEF FastCacheHit
            <4>5. \A e \in SyncDatas :
                      LockCount(t, e)' = IF e = d THEN Counted(f, LockCount(t, d))
                                                  ELSE LockCount(t, e)
                BY <1>1, <4>1, <4>2, <4>3, <4>4, Located DEF LockCount, Counted, TypeOK
            <4> QED BY <4>1, <4>3, <4>5
        <3>2. CASE CacheHit(t, f, o)
            <4>1. PICK d \in SyncDatas :
                      /\ InCache(t, o, d)
                      /\ Call(t, f, o, d, IF threadCount[d] <= 0 THEN "fatal" ELSE "mutex")
                      /\ cacheCount' = [cacheCount EXCEPT ![t][d] = Counted(f, @)]
                BY <3>2 DEF CacheHit
            <4>2. object[d] = o /\ HasItem(t, d) /\ fastData[t] # d
                BY <1>1, <4>1 DEF InCache, HasItem, IndInv, ItemInv, TypeOK
            <4>3. /\ pc'[t] # "fatal" => pc' = [pc EXCEPT ![t] = "mutex"]
                  /\ func' = [func EXCEPT ![t] = f] /\ result' = [result EXCEPT ![t] = d]
                  /\ held' = IF f = "exit" THEN [held EXCEPT ![t][o] = @ - 1] ELSE held
                BY <1>1, <4>1 DEF Call, TypeOK
            <4>4. UNCHANGED <<object, stray, fastData, fastCount>>
                BY <3>2 DEF CacheHit
            <4>5. \A e \in SyncDatas :
                      LockCount(t, e)' = IF e = d THEN Counted(f, LockCount(t, d))
                                                  ELSE LockCount(t, e)
                BY <1>1, <4>1, <4>2, <4>4 DEF LockCount, TypeOK
            <4> QED BY <4>2, <4>3, <4>4, <4>5
        <3> QED BY <1>3, <3>1, <3>2
    <2>2. pc' = [pc EXCEPT ![t] = "mutex"]
        BY <2>1 DEF IndInv, CallInv
    <2>3. OnlyOf(t)
        BY <1>1, <1>3, <2>1, <2>2 DEF OnlyOf, FastCacheHit, CacheHit, TypeOK
    <2>4. \A u \in Threads \ {t} : ClientCalls(u)' /\ ClientCounts(u)'
        BY <1>1, <2>1, <2>3, ClientOthers DEF ObjectsKept
    <2>5. ClientCalls(t)'
        BY <1>1, <2>1, <2>2 DEF ClientCalls, TypeOK
    <2>6. ClientCounts(t)'
        <3> SUFFICES ASSUME NEW e \in SyncDatas, object[e] # nil
                     PROVE  LockCount(t, e)' <= held'[t][object[e]] + Entering(t, e)'
            BY <2>1 DEF ClientCounts
        <3>1. /\ LockCount(t, e) \in Nat /\ held[t] \in [Objects -> Nat]
              /\ object[e] \in Objects
            BY <1>1 DEF LockCount, TypeOK
        <3>2. LockCount(t, e) <= held[t][object[e]]
            BY <1>1, <3>1 DEF ClientInv, ClientCounts, Entering
        <3>3. held'[t] = IF f = "exit" THEN [held[t] EXCEPT ![o] = @ - 1] ELSE held[t]
            BY <1>1, <2>1 DEF TypeOK
        <3>4. Entering(t, e)' = IF f = "enter" /\ e = d THEN 1 ELSE 0
            BY <1>1, <2>1, <2>2 DEF Entering, TypeOK
        <3>5. CASE e = d
            <4>1. LockCount(t, e)' = Counted(f, LockCount(t, e)) BY <2>1, <3>5
            <4>2. object[e] = o BY <2>1, <3>5
            <4>3. CASE f = "enter"
                BY <3>1, <3>2, <3>3, <3>4, <3>5, <4>1, <4>3 DEF Counted
            <4>4. CASE f = "exit"
                <5>1. held'[t][object[e]] = held[t][object[e]] - 1
                    BY <3>1, <3>3, <4>2, <4>4
                <5> QED BY <3>1, <3>2, <3>4, <4>1, <4>4, <5>1 DEF Counted
            <4> QED BY <4>3, <4>4
        <3>6. CASE e # d
            <4>1. object[e] # o
                BY <2>1, <3>6 DEF IndInv, UniqueObject
            <4>2. held'[t][object[e]] = held[t][object[e]]
                BY <3>1, <3>3, <4>1
            <4> QED BY <2>1, <3>1, <3>2, <3>4, <3>6, <4>2
        <3> QED BY <3>5, <3>6
    <2> QED BY <2>1, <2>4, <2>5, <2>6 DEF ClientInv
<1> QED BY <1>2, <1>3 DEF Lookup

\* A thread that ends outside leaves no item, so no count that nobody undoes.
LEMMA ClientEnds ==
    ASSUME IndInv, IndInv', ClientInv, NEW t \in Threads, ClientEnd(t)
    PROVE  ClientInv'
<1>1. TypeOK /\ TypeOK' /\ pc[t] = "idle" /\ Outside(t) /\ ThreadExit(t)
    BY DEF ClientEnd, ThreadExit, IndInv
<1>2. \A d \in SyncDatas : ~ HasItem(t, d)
    BY <1>1, OutsideHasNoItem
<1>3. \A d \in SyncDatas : stray'[d] = 0
    BY <1>1, <1>2 DEF ThreadExit, ClientInv
<1>4. /\ pc' = [pc EXCEPT ![t] = "exited"] /\ UNCHANGED <<object, func, result, held>>
      /\ OnlyOf(t)
    BY <1>1 DEF ThreadExit, pool, frame, OnlyOf, TypeOK
<1>5. \A u \in Threads \ {t} : ClientCalls(u)' /\ ClientCounts(u)'
    BY <1>1, <1>4, ClientOthers DEF ObjectsKept
<1>6. ClientCalls(t)'
    BY <1>1, <1>4 DEF ClientCalls, Outside, ClientInv, TypeOK
<1>7. ClientCounts(t)'
    <2> SUFFICES ASSUME NEW d \in SyncDatas, object'[d] # nil
                 PROVE  LockCount(t, d)' <= held'[t][object'[d]] + Entering(t, d)'
        BY DEF ClientCounts
    <2>1. LockCount(t, d)' = 0
        BY <1>1 DEF ThreadExit, LockCount, TypeOK
    <2>2. held'[t][object'[d]] \in Nat /\ Entering(t, d)' \in {0, 1}
        BY <1>1 DEF TypeOK, Entering
    <2> QED BY <2>1, <2>2
<1> QED BY <1>3, <1>5, <1>6, <1>7 DEF ClientInv

\* The programs use the runtime as any client may.
LEMMA ClientNextIsNext == [ClientNext]_clientVars => [Next]_vars
<1> SUFFICES ASSUME [ClientNext]_clientVars
             PROVE  [Next]_vars
    OBVIOUS
<1>1. CASE UNCHANGED vars
    BY <1>1
<1>2. CASE \E t \in Threads : ClientThread(t)
    BY <1>2 DEF ClientThread, ClientEnter, ClientExit, ClientStep, ClientEnd, Lookup,
                Next, Begin, Funcs
<1> QED BY <1>1, <1>2 DEF ClientNext, Joined, clientVars

LEMMA ClientInvInit == ClientInit => ClientInv
BY DEF ClientInit, Init, ClientInv, ClientCalls, ClientCounts, Outside

LEMMA ClientInvStep ==
    ASSUME IndInv, IndInv', ClientInv, [ClientNext]_clientVars
    PROVE  ClientInv'
<1>1. CASE UNCHANGED vars
    BY <1>1 DEF vars, ClientInv, ClientCalls, ClientCounts, Outside, LockCount, Entering
<1>2. CASE \E t \in Threads : ClientThread(t)
    <2>1. PICK t \in Threads : ClientThread(t)
        BY <1>2
    <2>2. CASE \E o \in Objects : ClientEnter(t, o) \/ ClientExit(t, o)
        BY <2>2, ClientCall DEF ClientEnter, ClientExit
    <2>3. CASE Step(t)
        BY <2>3, ClientListSteps, ClientTakes, ClientSaves, ClientMutex DEF Step, IndInv
    <2>4. CASE ClientEnd(t)
        BY <2>4, ClientEnds
    <2> QED BY <2>1, <2>2, <2>3, <2>4 DEF ClientThread, ClientStep
<1> QED BY <1>1, <1>2 DEF ClientNext, Joined, clientVars

\* Threads that are outside have no items, so that no SyncData counts a user,
\* and none owns a mutex.
LEMMA ClientInvImplies ==
    ASSUME IndInv, ClientInv
    PROVE  AllAvailable
<1> SUFFICES ASSUME \A t \in Threads : Outside(t) /\ pc[t] \in {"idle", "exited"},
                    NEW d \in SyncDatas
             PROVE  threadCount[d] = 0 /\ owner[d] = nil
    BY DEF AllAvailable
<1>1. TypeOK /\ ThreadCountExact /\ stray[d] = 0
    BY DEF IndInv, ClientInv
<1>2. \A t \in Threads : ~ HasItem(t, d)
    BY OutsideHasNoItem
<1>3. Users(d) = {}
    BY <1>2 DEF Users, IsUser
<1>4. threadCount[d] = 0
    BY <1>1, <1>3, UsersFinite DEF ThreadCountExact
<1>5. ASSUME NEW t \in Threads, owner[d] = t PROVE FALSE
    <2>1. Depth(t, d) = 0
        BY <1>4, UncountedIsFree DEF Pending
    <2>2. owner[d] = nil
        BY <1>5, <2>1 DEF Depth, IndInv, MutexInv
    <2> QED BY <1>5, <2>2, ThreadsAssumption
<1> QED BY <1>1, <1>4, <1>5 DEF TypeOK

\* Whatever the programs of the threads and the order of their objects, when all
\* of them are outside nothing is left behind in the SyncData: "Verify locks: all
\* should be available" of synchronized-grid.m.
THEOREM AllAvailableHolds == ClientSpec => []AllAvailable
<1>1. ClientInit => IndInv /\ ClientInv
    BY InitEstablishes, ClientInvInit DEF ClientInit
<1>2. (IndInv /\ ClientInv) /\ [ClientNext]_clientVars => (IndInv /\ ClientInv)'
    BY ClientNextIsNext, NextPreserves, StutterPreserves, ClientInvStep
<1>3. IndInv /\ ClientInv => AllAvailable
    BY ClientInvImplies
<1> QED BY <1>1, <1>2, <1>3, PTL DEF ClientSpec

=============================================================================
