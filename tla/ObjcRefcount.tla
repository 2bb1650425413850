---------------------------- MODULE ObjcRefcount ----------------------------
(***************************************************************************)
(* Reference counts and weak variables of objc4-818.2: rootRetain and      *)
(* rootRelease on the isa word of an object (objc-object.h), the counts    *)
(* that do not fit there and the weak tables in the side tables, and       *)
(* objc_storeWeak and objc_loadWeakRetained (NSObject.mm, objc-weak.mm).   *)
(*                                                                         *)
(* Objects have a nonpointer isa and no retain or release of their own;    *)
(* their classes are initialized.  The clients own references: a thread    *)
(* retains, releases and stores weakly only what it holds a reference to.  *)
(* A step is one access to shared memory without a lock, or what is done   *)
(* under the lock of a side table up to the next such access.              *)
(***************************************************************************)
EXTENDS Naturals, FiniteSets, FiniteSetsExt

CONSTANTS
    Threads,     \* the threads of the process
    Objects,     \* the objects they share
    Locations,   \* the weak variables they share
    nil,         \* the null pointer
    StripeOf,    \* SideTables()[x]: object or nil -> the place of its side table
    RC_HALF,     \* half the range of extra_rc (1 << 7 or 1 << 18 in the code)
    Creator,     \* the thread that allocates an object
    MaxRefs      \* bound: references to an object

ASSUME NilAssumption    == nil \notin Objects \cup Threads
ASSUME StripeAssumption == StripeOf \in [Objects \cup {nil} -> Nat]
ASSUME HalfAssumption   == RC_HALF \in Nat /\ RC_HALF > 1
ASSUME ClientAssumption == Creator \in [Objects -> Threads] /\ MaxRefs \in [Objects -> Nat]

VARIABLES
    isa,         \* the bits of the isa word that count
    refcnts,     \* SideTable.refcnts: the counts moved out of the isa, 0: none
    referrers,   \* SideTable.weak_table: the weak variables of an object
    location,    \* what a weak variable holds
    lock,        \* SideTable.slock: the thread inside, or nil
    pc,          \* where a thread is
    frame,       \* its arguments and locals
    aborted,     \* the process has been halted
    \* history
    refs,        \* refs[t][o]: the references thread t owns
    life         \* whether an object is live, deallocating or freed

vars == <<isa, refcnts, referrers, location, lock, pc, frame, aborted, refs, life>>
tables == <<refcnts, referrers, location>>
client == <<refs, life>>

ExtraMax == 2 * RC_HALF - 1
Tables == {StripeOf[x] : x \in Objects \cup {nil}}
IsaWords == [extra_rc : 0..ExtraMax, has_sidetable_rc : BOOLEAN, weakly_referenced : BOOLEAN]
\* Mutant: the counts in the side table are forgotten.
isDeallocatingInline(i) == i.extra_rc = 0

isDeallocating(i) == i.extra_rc = 0 /\ ~ i.has_sidetable_rc

Idle == [obj |-> nil, loc |-> nil, old |-> nil, try |-> FALSE, full |-> FALSE,
         locked |-> FALSE, borrowed |-> 0, oldObj |-> nil]

Init ==
    /\ isa = [o \in Objects |-> [extra_rc |-> 1, has_sidetable_rc |-> FALSE,
                                 weakly_referenced |-> FALSE]]
    /\ refcnts = [o \in Objects |-> 0]
    /\ referrers = [o \in Objects |-> {}]
    /\ location = [l \in Locations |-> nil]
    /\ lock = [s \in Tables |-> nil]
    /\ pc = [t \in Threads |-> "idle"]
    /\ frame = [t \in Threads |-> Idle]
    /\ aborted = FALSE
    /\ refs = [t \in Threads |-> [o \in Objects |-> IF Creator[o] = t THEN 1 ELSE 0]]
    /\ life = [o \in Objects |-> "live"]

-----------------------------------------------------------------------------
(* Helpers                                                                 *)

TableOf(t) == StripeOf[frame[t].obj]

\* t goes on at place with frame f.
Goto(t, place, f) ==
    /\ pc' = [pc EXCEPT ![t] = place]
    /\ frame' = [frame EXCEPT ![t] = f]

Return(t) == Goto(t, "idle", Idle)

Own(t, o) == refs' = [refs EXCEPT ![t][o] = @ + 1]
Disown(t, o) == refs' = [refs EXCEPT ![t][o] = @ - 1]

LockTable(t, s) == lock[s] = nil /\ lock' = [lock EXCEPT ![s] = t]

\* Unlock the tables S.  A lock that the caller does not own halts the process.
UnlockTables(t, S) ==
    IF \A s \in S : lock[s] = t
    THEN lock' = [s \in Tables |-> IF s \in S THEN nil ELSE lock[s]] /\ UNCHANGED aborted
    ELSE aborted' = TRUE /\ UNCHANGED lock

\* StoreExclusive(&isa.bits, &oldisa.bits, new): either the word is as it was
\* read and becomes new, and then Success; or oldisa is read again.
Exclusive(t, o, new, Success) ==
    \/ /\ isa[o] = frame[t].old
       /\ isa' = [isa EXCEPT ![o] = new]
       /\ Success
    \/ /\ isa[o] # frame[t].old
       /\ Goto(t, pc[t], [frame[t] EXCEPT !.old = isa[o]])
       /\ UNCHANGED <<isa, lock, aborted, refs>>

-----------------------------------------------------------------------------
(* The clients                                                             *)

\* The references that threads own to an object: each counts its own.
Refs(o) == UNION {{t} \X (1..refs[t][o]) : t \in Threads}
Total(o) == Cardinality(Refs(o))

\* The bound: every thread that is busy may be about to add a reference.
Room(o) == Total(o) + Cardinality({t \in Threads : pc[t] # "idle"}) < MaxRefs[o]

\* objc_retain, by an owner.
Retain(t, o) ==
    /\ pc[t] = "idle" /\ refs[t][o] > 0 /\ Room(o)
    /\ Goto(t, "retain", [Idle EXCEPT !.obj = o])
    /\ UNCHANGED <<isa, tables, lock, aborted, client>>

\* objc_release, by an owner.
Release(t, o) ==
    /\ pc[t] = "idle" /\ refs[t][o] > 0
    /\ Goto(t, "release", [Idle EXCEPT !.obj = o])
    /\ UNCHANGED <<isa, tables, lock, aborted, client>>

\* objc_loadWeakRetained.
LoadWeakRetained(t, l) ==
    /\ pc[t] = "idle" /\ \A o \in Objects : Room(o)
    /\ Goto(t, "load", [Idle EXCEPT !.loc = l, !.try = TRUE])
    /\ UNCHANGED <<isa, tables, lock, aborted, client>>

\* objc_storeWeak, of nil or of an object the caller owns.
StoreWeak(t, l, o) ==
    /\ pc[t] = "idle" /\ (o # nil => refs[t][o] > 0)
    /\ Goto(t, "store", [Idle EXCEPT !.loc = l, !.obj = o])
    /\ UNCHANGED <<isa, tables, lock, aborted, client>>

-----------------------------------------------------------------------------
(* rootRetain                                                              *)

RetainLoad(t) ==
    /\ pc[t] = "retain"
    /\ Goto(t, "retaining", [frame[t] EXCEPT !.old = isa[frame[t].obj]])
    /\ UNCHANGED <<isa, tables, lock, aborted, client>>

Retaining(t) == pc[t] = "retaining" /\ ~ isDeallocating(frame[t].old)

Carry(i) == i.extra_rc = ExtraMax

\* The object is deallocating: a load of a weak variable answers nil.  Only
\* such a load comes here: who retains otherwise owns a reference.
RetainDeallocating(t) ==
    /\ pc[t] = "retaining" /\ isDeallocating(frame[t].old)
    /\ IF frame[t].locked THEN UnlockTables(t, {TableOf(t)}) ELSE UNCHANGED <<lock, aborted>>
    /\ IF frame[t].try THEN Goto(t, "loaded", frame[t]) ELSE Return(t)
    /\ UNCHANGED <<isa, tables, client>>

\* extra_rc overflows on the fast path: start again in rootRetain_overflow.
RetainOverflow(t) ==
    /\ Retaining(t) /\ Carry(frame[t].old) /\ ~ frame[t].full
    /\ Goto(t, "retain", [frame[t] EXCEPT !.full = TRUE])
    /\ UNCHANGED <<isa, tables, lock, aborted, client>>

\* It overflows on the slow path, and sideTableLocked is not set yet.
RetainLock(t) ==
    /\ Retaining(t) /\ Carry(frame[t].old) /\ frame[t].full /\ ~ frame[t].locked
    /\ IF frame[t].try THEN UNCHANGED lock ELSE LockTable(t, TableOf(t))
    /\ Goto(t, "retaining", [frame[t] EXCEPT !.locked = TRUE])
    /\ UNCHANGED <<isa, tables, aborted, client>>

\* Behind the end of rootRetain: the lock it took is released, and a load of a
\* weak variable goes on.
RetainDone(t) ==
    IF frame[t].try
    THEN Goto(t, "loaded", frame[t]) /\ UNCHANGED <<lock, aborted>>
    ELSE /\ Return(t)
         /\ IF frame[t].locked THEN UnlockTables(t, {TableOf(t)})
                               ELSE UNCHANGED <<lock, aborted>>

RetainStore(t) ==
    LET o == frame[t].obj
        old == frame[t].old IN
    /\ Retaining(t) /\ ~ Carry(old)
    /\ Exclusive(t, o, [old EXCEPT !.extra_rc = @ + 1], RetainDone(t) /\ Own(t, o))
    /\ UNCHANGED <<tables, life>>

\* Half of the count stays inline.
RetainStoreHalf(t) ==
    LET o == frame[t].obj
        old == frame[t].old IN
    /\ Retaining(t) /\ Carry(old) /\ frame[t].locked
    /\ Exclusive(t, o, [old EXCEPT !.extra_rc = RC_HALF, !.has_sidetable_rc = TRUE],
                 Goto(t, "transcribe", frame[t]) /\ Own(t, o) /\ UNCHANGED <<lock, aborted>>)
    /\ UNCHANGED <<tables, life>>

\* The other half goes to the side table.
Transcribe(t) ==
    /\ pc[t] = "transcribe"
    /\ refcnts' = [refcnts EXCEPT ![frame[t].obj] = @ + RC_HALF]
    /\ RetainDone(t)
    /\ UNCHANGED <<isa, referrers, location, client>>

-----------------------------------------------------------------------------
(* rootRelease                                                             *)

ReleaseLoad(t) ==
    /\ pc[t] = "release"
    /\ Goto(t, "releasing", [frame[t] EXCEPT !.old = isa[frame[t].obj]])
    /\ UNCHANGED <<isa, tables, lock, aborted, client>>

\* Behind the decrement that stored new.
ReleaseDone(t, transition) ==
    /\ IF transition THEN Goto(t, "dealloc", [Idle EXCEPT !.obj = frame[t].obj]) ELSE Return(t)
    /\ IF frame[t].locked THEN UnlockTables(t, {TableOf(t)}) ELSE UNCHANGED <<lock, aborted>>
    /\ Disown(t, frame[t].obj)

ReleaseStore(t) ==
    LET old == frame[t].old
        new == [old EXCEPT !.extra_rc = @ - 1] IN
    /\ pc[t] = "releasing" /\ old.extra_rc > 0
    /\ Exclusive(t, frame[t].obj, new, ReleaseDone(t, isDeallocating(new)))
    /\ UNCHANGED <<tables, life>>

Underflow(t) == pc[t] = "releasing" /\ frame[t].old.extra_rc = 0 /\ frame[t].old.has_sidetable_rc

\* extra_rc underflows on the fast path: start again in rootRelease_underflow.
ReleaseUnderflow(t) ==
    /\ Underflow(t) /\ ~ frame[t].full
    /\ Goto(t, "release", [frame[t] EXCEPT !.full = TRUE])
    /\ UNCHANGED <<isa, tables, lock, aborted, client>>

\* On the slow path: take the lock and start over.
ReleaseLock(t) ==
    /\ Underflow(t) /\ frame[t].full /\ ~ frame[t].locked
    /\ LockTable(t, TableOf(t))
    /\ Goto(t, "release", [frame[t] EXCEPT !.locked = TRUE])
    /\ UNCHANGED <<isa, tables, aborted, client>>

\* Remove half a range from the side table.
Borrow(t) ==
    LET o == frame[t].obj IN
    /\ Underflow(t) /\ frame[t].locked
    /\ refcnts[o] >= RC_HALF
    /\ refcnts' = [refcnts EXCEPT ![o] = @ - RC_HALF]
    /\ Goto(t, "borrowed", [frame[t] EXCEPT !.borrowed = RC_HALF])
    /\ UNCHANGED <<isa, referrers, location, lock, aborted, client>>

emptySideTable(t) == refcnts[frame[t].obj] = 0

\* Put it in the isa, without the reference to be released; when the word has
\* changed, or the processor lost the reservation, read it again.
BorrowStore(t) ==
    LET f == frame[t] IN
    /\ pc[t] = "borrowed"
    /\ \/ /\ isa[f.obj] = f.old
          /\ isa' = [isa EXCEPT ![f.obj].extra_rc = f.borrowed - 1,
                                ![f.obj].has_sidetable_rc = ~ emptySideTable(t)]
          /\ ReleaseDone(t, FALSE)
       \/ /\ Goto(t, "borrowed2", [f EXCEPT !.old = isa[f.obj]])
          /\ UNCHANGED <<isa, lock, aborted, refs>>
    /\ UNCHANGED <<tables, life>>

\* Try it right now a second time, on top of what others retained.
BorrowStoreAgain(t) ==
    LET f == frame[t]
        sum == f.old.extra_rc + f.borrowed - 1
        new == [f.old EXCEPT !.extra_rc = sum, !.has_sidetable_rc = ~ emptySideTable(t)] IN
    /\ pc[t] = "borrowed2"
    /\ IF sum <= ExtraMax /\ isa[f.obj] = f.old
       THEN /\ isa' = [isa EXCEPT ![f.obj] = new]
            /\ ReleaseDone(t, isDeallocating(new))
       ELSE /\ Goto(t, "putBack", f)
            /\ UNCHANGED <<isa, lock, aborted, refs>>
    /\ UNCHANGED <<tables, life>>

\* Mutant: the retains are put back only when the side table is empty.
PutBackIfEmpty(t) ==
    LET f == frame[t] IN
    /\ pc[t] = "putBack"
    /\ refcnts' = [refcnts EXCEPT ![f.obj] = IF @ = 0 THEN f.borrowed ELSE @]
    /\ Goto(t, "release", [f EXCEPT !.borrowed = 0])
    /\ UNCHANGED <<isa, referrers, location, lock, aborted, client>>

\* Put the retains back in the side table, and start over.
PutBack(t) ==
    LET f == frame[t] IN
    /\ pc[t] = "putBack"
    /\ refcnts' = [refcnts EXCEPT ![f.obj] = @ + f.borrowed]
    /\ Goto(t, "release", [f EXCEPT !.borrowed = 0])
    /\ UNCHANGED <<isa, referrers, location, lock, aborted, client>>

-----------------------------------------------------------------------------
(* Deallocation                                                            *)

\* The message dealloc; -[NSObject dealloc] comes to rootDealloc.
Dealloc(t) ==
    /\ pc[t] = "dealloc"
    /\ life' = [life EXCEPT ![frame[t].obj] = "deallocating"]
    /\ Goto(t, "rootDealloc", frame[t])
    /\ UNCHANGED <<isa, tables, lock, aborted, refs>>

\* clearDeallocating_slow, for an object that was ever weakly referenced or
\* ever had a count in the side table.
ClearDeallocating(t) ==
    LET o == frame[t].obj IN
    /\ pc[t] = "rootDealloc" /\ (isa[o].weakly_referenced \/ isa[o].has_sidetable_rc)
    /\ lock[StripeOf[o]] = nil
    /\ IF isa[o].weakly_referenced
       THEN /\ location' = [l \in Locations |-> IF l \in referrers[o] /\ location[l] = o
                                                THEN nil ELSE location[l]]
            /\ referrers' = [referrers EXCEPT ![o] = {}]
       ELSE UNCHANGED <<location, referrers>>
    /\ refcnts' = IF isa[o].has_sidetable_rc THEN [refcnts EXCEPT ![o] = 0] ELSE refcnts
    /\ Goto(t, "free", frame[t])
    /\ UNCHANGED <<isa, lock, aborted, client>>

\* free(this), at once when there is nothing to clear.
Free(t) ==
    LET o == frame[t].obj IN
    /\ \/ pc[t] = "free"
       \/ /\ pc[t] = "rootDealloc"
          /\ ~ isa[o].weakly_referenced /\ ~ isa[o].has_sidetable_rc
    /\ life' = [life EXCEPT ![o] = "freed"]
    /\ Return(t)
    /\ UNCHANGED <<isa, tables, lock, aborted, refs>>

-----------------------------------------------------------------------------
(* objc_loadWeakRetained                                                   *)

LoadLocation(t) ==
    LET o == location[frame[t].loc] IN
    /\ pc[t] = "load"
    /\ IF o = nil THEN Return(t) ELSE Goto(t, "lockLoad", [frame[t] EXCEPT !.obj = o])
    /\ UNCHANGED <<isa, tables, lock, aborted, client>>

\* Mutant: the variable is not read again under the lock.
LoadLockBlind(t) ==
    /\ pc[t] = "lockLoad"
    /\ LockTable(t, TableOf(t))
    /\ Goto(t, "retain", frame[t])
    /\ UNCHANGED <<isa, tables, aborted, client>>

\* Lock the table of the object read; if the variable changed meanwhile, retry.
LoadLock(t) ==
    LET f == frame[t] IN
    /\ pc[t] = "lockLoad"
    /\ IF location[f.loc] = f.obj
       THEN LockTable(t, TableOf(t)) /\ Goto(t, "retain", f)
       ELSE lock[TableOf(t)] = nil /\ UNCHANGED lock /\ Goto(t, "load", f)
    /\ UNCHANGED <<isa, tables, aborted, client>>

LoadUnlock(t) ==
    /\ pc[t] = "loaded"
    /\ UnlockTables(t, {TableOf(t)})
    /\ Return(t)
    /\ UNCHANGED <<isa, tables, client>>

-----------------------------------------------------------------------------
(* objc_storeWeak                                                          *)

StoreLoad(t) ==
    /\ pc[t] = "store"
    /\ Goto(t, "lockFirst", [frame[t] EXCEPT !.oldObj = location[frame[t].loc]])
    /\ UNCHANGED <<isa, tables, lock, aborted, client>>

StoreTables(t) == {StripeOf[frame[t].oldObj], StripeOf[frame[t].obj]}

\* Mutant: the table of the old value is always the first.
LockOrderAsGiven(t) == <<StripeOf[frame[t].oldObj], StripeOf[frame[t].obj]>>

\* SideTable::lockTwo locks the table with the lower address first.
LockOrder(t) == <<Min(StoreTables(t)), Max(StoreTables(t))>>
First(t) == LockOrder(t)[1]
Second(t) == LockOrder(t)[2]

StoreLockFirst(t) ==
    /\ pc[t] = "lockFirst"
    /\ LockTable(t, First(t))
    /\ Goto(t, "lockSecond", frame[t])
    /\ UNCHANGED <<isa, tables, aborted, client>>

StoreLockSecond(t) ==
    /\ pc[t] = "lockSecond"
    /\ IF First(t) = Second(t) THEN UNCHANGED lock ELSE LockTable(t, Second(t))
    /\ Goto(t, "register", frame[t])
    /\ UNCHANGED <<isa, tables, aborted, client>>

\* The variable changed before it was locked: retry.
StoreRetry(t) ==
    /\ pc[t] = "register" /\ location[frame[t].loc] # frame[t].oldObj
    /\ UnlockTables(t, StoreTables(t))
    /\ Goto(t, "store", frame[t])
    /\ UNCHANGED <<isa, tables, client>>

\* The variable refers to the new value and no longer to the old one.
Register(f) ==
    referrers' = [o \in Objects |-> (referrers[o] \ (IF o = f.oldObj THEN {f.loc} ELSE {}))
                                    \cup (IF o = f.obj THEN {f.loc} ELSE {})]

\* A new value that was never weakly referenced has to be marked.
GotoMark(t, f) ==
    IF f.obj = nil THEN Goto(t, "assign", f)
    ELSE Goto(t, IF isa[f.obj].weakly_referenced THEN "assign" ELSE "mark",
              [f EXCEPT !.old = isa[f.obj]])

\* Mutant: the variable may have changed before it was locked.
StoreRegisterBlind(t) ==
    LET f == frame[t] IN
    /\ pc[t] = "register"
    /\ Register(f)
    /\ GotoMark(t, f)
    /\ UNCHANGED <<isa, refcnts, location, lock, aborted, client>>

\* Unregister the old value and register the new one.  One that is deallocating
\* is fatal.
StoreRegister(t) ==
    LET f == frame[t] IN
    /\ pc[t] = "register" /\ location[f.loc] = f.oldObj
    /\ Register(f)
    /\ aborted' = IF f.obj = nil THEN FALSE ELSE isDeallocating(isa[f.obj])
    /\ GotoMark(t, f)
    /\ UNCHANGED <<isa, refcnts, location, lock, client>>

\* setWeaklyReferenced_nolock.
StoreMark(t) ==
    LET f == frame[t] IN
    /\ pc[t] = "mark"
    /\ Exclusive(t, f.obj, [f.old EXCEPT !.weakly_referenced = TRUE],
                 Goto(t, "assign", f) /\ UNCHANGED <<lock, aborted, refs>>)
    /\ UNCHANGED <<tables, life>>

StoreAssign(t) ==
    LET f == frame[t] IN
    /\ pc[t] = "assign"
    /\ location' = [location EXCEPT ![f.loc] = f.obj]
    /\ UnlockTables(t, StoreTables(t))
    /\ Return(t)
    /\ UNCHANGED <<isa, refcnts, referrers, client>>

-----------------------------------------------------------------------------

Step(t) ==
    \/ RetainLoad(t) \/ RetainDeallocating(t) \/ RetainOverflow(t) \/ RetainLock(t)
    \/ RetainStore(t) \/ RetainStoreHalf(t) \/ Transcribe(t)
    \/ ReleaseLoad(t) \/ ReleaseStore(t) \/ ReleaseUnderflow(t) \/ ReleaseLock(t)
    \/ Borrow(t) \/ BorrowStore(t) \/ BorrowStoreAgain(t) \/ PutBack(t)
    \/ Dealloc(t) \/ ClearDeallocating(t) \/ Free(t)
    \/ LoadLocation(t) \/ LoadLock(t) \/ LoadUnlock(t)
    \/ StoreLoad(t) \/ StoreLockFirst(t) \/ StoreLockSecond(t) \/ StoreRetry(t)
    \/ StoreRegister(t) \/ StoreMark(t) \/ StoreAssign(t)

Call(t) ==
    \/ \E o \in Objects : Retain(t, o) \/ Release(t, o)
    \/ \E l \in Locations : LoadWeakRetained(t, l)
    \/ \E l \in Locations, o \in Objects \cup {nil} : StoreWeak(t, l, o)

\* Nothing runs in a process that has been halted.
Halted == aborted /\ UNCHANGED vars

Next ==
    \/ Halted
    \/ ~ aborted /\ \E t \in Threads : Call(t) \/ Step(t)

Spec == Init /\ [][Next]_vars

-----------------------------------------------------------------------------
(* Properties                                                              *)

Frames == [obj : Objects \cup {nil}, loc : Locations \cup {nil}, old : IsaWords \cup {nil},
           try : BOOLEAN, full : BOOLEAN, locked : BOOLEAN, borrowed : {0, RC_HALF},
           oldObj : Objects \cup {nil}]
Places == {"idle", "retain", "retaining", "transcribe", "release", "releasing",
           "borrowed", "borrowed2", "putBack", "dealloc", "rootDealloc", "free", "load",
           "lockLoad", "loaded", "store", "lockFirst", "lockSecond", "register", "mark",
           "assign"}

TypeOK ==
    /\ isa \in [Objects -> IsaWords]
    /\ refcnts \in [Objects -> Nat]
    /\ referrers \in [Objects -> SUBSET Locations]
    /\ location \in [Locations -> Objects \cup {nil}]
    /\ lock \in [Tables -> Threads \cup {nil}]
    /\ pc \in [Threads -> Places]
    /\ frame \in [Threads -> Frames]
    /\ aborted \in BOOLEAN
    /\ refs \in [Threads -> [Objects -> Nat]]
    /\ life \in [Objects -> {"live", "deallocating", "freed"}]

\* The count that the thread inside the side table of o has on its way between
\* the isa and the table.
InTransit(o) ==
    LET t == lock[StripeOf[o]] IN
    IF t = nil THEN 0
    ELSE IF frame[t].obj # o THEN 0
    ELSE IF pc[t] = "transcribe" THEN RC_HALF
    ELSE frame[t].borrowed

Count(o) == isa[o].extra_rc + refcnts[o] + InTransit(o)

\* Whatever threads retain, release and load at once, the isa, the side table
\* and what is on its way between them add up to the references there are: no
\* half of the range is lost, or counted twice, when extra_rc over- or
\* underflows while others change it.
CountExact == \A o \in Objects : Count(o) = Total(o)

\* The code's objects that a thread reads the isa word of.
Reads(t) ==
    IF pc[t] \in {"retain", "retaining", "transcribe", "release", "releasing", "borrowed",
                  "borrowed2", "putBack", "dealloc", "rootDealloc", "register", "mark"}
    THEN {frame[t].obj} \ {nil} ELSE {}

\* No thread touches an object that is freed: a weak variable can be read while
\* its object goes away, because the second look at it is under the lock that
\* clearing it needs.
NoUseAfterFree == \A t \in Threads : \A o \in Reads(t) : life[o] # "freed"

\* A weak variable and the table of its object agree whenever no thread is at
\* work on the table, and what a weak variable holds knows that it has to be
\* cleared.
WeakTableExact ==
    \A o \in Objects : lock[StripeOf[o]] = nil =>
        \A l \in Locations : (location[l] = o) = (l \in referrers[o])
                             /\ (location[l] = o => isa[o].weakly_referenced)

\* A thread waits for the lock of a side table only while it holds none, or
\* only ones below it; so threads never wait for each other.
WaitsFor(t) ==
    CASE pc[t] = "lockFirst" -> {First(t)}
      [] pc[t] = "lockSecond" -> {Second(t)} \ {First(t)}
      [] pc[t] = "lockLoad" -> {TableOf(t)}
      [] pc[t] = "rootDealloc" -> {TableOf(t)}
      [] pc[t] \in {"retaining", "releasing"} ->
             IF frame[t].full /\ ~ frame[t].locked /\ ~ frame[t].try THEN {TableOf(t)} ELSE {}
      [] OTHER -> {}
LocksInOrder ==
    \A t \in Threads : \A s \in WaitsFor(t) : \A r \in Tables : lock[r] = t => r < s

\* The counts, the weak variables and the deallocations that clients see are
\* those of RetainCount.
Promised == INSTANCE RetainCount WITH count <- [o \in Objects |-> Count(o)],
                                      weak <- location
RefinesRetainCount == Promised!Spec

\* The assertion of objc-lockdebug.mm:374, "unlocking unowned mutex".
UnlocksOnlyOwned == ~ aborted

\* objc_loadWeakRetained is about to unlock the table that rootRetain has
\* unlocked: its slow path set sideTableLocked, and then the object was found
\* deallocating (objc-object.h:664, and NSObject.mm:590 once more).
UnlocksAgain(t) ==
    /\ pc[t] = "loaded" /\ lock[TableOf(t)] # t
    /\ frame[t].locked /\ isDeallocating(frame[t].old)

\* Nothing else halts the process: every other unlock of a side table, on any
\* path of rootRetain, rootRelease, objc_loadWeakRetained and objc_storeWeak, is
\* by the thread that locked it, and no weak reference is formed to an object
\* that is deallocating.
OnlyUnlockingAgainHalts == [][aborted' # aborted => \E t \in Threads : UnlocksAgain(t)]_vars
=============================================================================
