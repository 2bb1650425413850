# Verification of LearningProjects

LearningProjects is a collection of demonstration projects (GCD, run loops,
networking, animation, KVO, the runtime) kept next to the sources its author
studies with them: objc4-818.2, CF-1153.18 and dyld-832.7.3 under `base course/`.
Most demos are single calls of a framework. The parts with a protocol of their
own, where several threads or callbacks work on shared state, are the
synchronization and reference counting machinery of objc4, the run loop of
CoreFoundation, which most of the demos are about, and a few of the demos
themselves, above all the three-thread upload of a large file. This project
models those in TLA+, checks them with TLC and proves theorems about them with
TLAPS.

All paths below are relative to `src/`; `R/` stands for
`base course/objc4-818.2/runtime/` and `CF/` for `base course/CF-1153.18/`.

## 1. Inventory

| component | state it keeps | operations | who interacts, and how |
|---|---|---|---|
| @synchronized (`R/objc-sync.mm`) | striped lists of `SyncData` (object, threadCount, recursive mutex), per-thread fast cache and `SyncCache` | `objc_sync_enter`, `_try_enter`, `_exit`, end of a thread | threads share the lists under one lock per stripe, `threadCount` also without it, and the mutexes |
| +initialize (`R/objc-initialize.mm`, entered from `R/objc-runtime-new.mm`) | class flags, per-thread list of classes being initialized, `pendingInitializeMap`, callbacks | `initializeNonMetaClass`, `_finishInitializing`, `_objc_addWillInitializeClassFunc` | `classInitLock` is a monitor; +initialize methods re-enter through messages, and may throw |
| upload (`NSURLSession/OC-Demo/jjjj/JYUpdataTool.m`) | `currentIndex`, `fragmentStatus`, one file handle | `upOne` in three threads | shared properties without synchronization |
| cutting a file (`FileStreamOperation.m`, `ClipFileService.swift`) | the fragments | `cutFileForFragments`, `clipFile`, `readDateOfFragment:` | the upload uses the first |
| reference counts (`R/objc-object.h`, `R/NSObject.mm`) | `extra_rc`, `has_sidetable_rc`, `weakly_referenced` in the isa; side tables | retain, release, tried retain, dealloc | load-exclusive and store-exclusive loops, side table locks |
| weak references (`R/NSObject.mm`, `R/objc-weak.mm`) | weak tables of the side tables | `storeWeak`, `objc_loadWeakRetained`, `weak_clear_no_lock` | two side table locks in address order, retry when the variable changed, deallocation clears |
| autorelease pools (`R/NSObject.mm`) | list of pages, hot page, placeholder | push, autorelease, pop | one thread, but pops re-enter through releases |
| associated objects (`R/objc-references.mm`) | map of maps under one lock | set, get, remove | releases happen outside the lock |
| +load (`R/objc-loadmethod.mm`) | lists of classes and categories that wait for +load | `call_load_methods` and the `add_` and `remove_` functions | a +load may load images and come back |
| atomic accessors (`R/objc-accessors.mm`) | striped spin locks | get, set, copyStruct | retain and release outside the lock |
| method caches (`R/objc-cache.mm`) | buckets, mask, garbage | insert, expand, collect | readers without a lock |
| classes and categories (`R/objc-runtime-new.mm`) | the class graph | realize, attach, look up | one `runtimeLock` |
| task queue (`RunLoop/RunLoop/RunLoop/OptimizeListController.swift`) | bounded array of blocks | enqueue on cell display, drain in a `beforeWaiting` observer | main thread callbacks; cells are reused |
| download (`NSURLSession/NSURLSession/ViewController.swift`, `SandBoxManager.swift`) | resume data in a file | start, cancel after a timeout, resume, completion | delegate callbacks against a timer, across restarts |
| CFRunLoop (`CF/CFRunLoop.c`) | a stack of runs, modes with sources, observers and timers, a list of blocks, a wake-up port | run, stop, wake up, perform a block, signal, add, remove, invalidate, set a date | other threads under the run loop's lock; callouts outside it, which call back and run the loop again; the kernel's ports and alarms |
| other CF, dyld, demos of GCD, blocks, KVO, animation, AvoidCrash, UI | | | vendored library, kernel interface, or demonstrations without state between calls |

What makes each of them correct, and the lines where it could go wrong, is the
list `hazards` of `PROJECT.json`; each hazard names the properties that watch it,
or says that its module is still to come.

How they interact: every Objective-C object has the reference count of
`ObjcRefcount`, the first message to its class goes through `ObjcInitialize`, and
`@synchronized` compiles to the calls of `ObjcSync`. None of these reads the state
of another, and each takes its own locks only; so they are modelled side by
side. `CFRunLoop` and `CFRunLoopTimers` share the stack of runs and the run loop's
lock: the second keeps, of the first, the part of a run that waits for an alarm.
`JYUpdataTool` uses the fragments of `FileFragments`.

## 2. Modules

```
ObjcSync             objc-sync.mm
  ObjcSyncInv        its inductive invariant
    ObjcSyncProofs   the proofs, those about ObjcSyncClient included
    MCObjcSync       instances for TLC
  ObjcSyncClient     ObjcSync under the programs of the repository's tests
    MCObjcSyncClient instance for TLC
ObjcInitialize       objc-initialize.mm
  ObjcInitializeProofs
  MCObjcInitialize   instances for TLC
FileFragments        how a file is cut
  FileFragmentsProofs
  JYUpdataTool       the three upload threads
    JYUpdataToolProofs, MCJYUpdataTool
RetainCount          the promise of retain, release and weak variables
ObjcRefcount         objc-object.h, NSObject.mm, objc-weak.mm -- refines RetainCount
  ObjcRefcountProofs locals, locks and their order, weak variables against weak tables
    ObjcCountProofs  the counts, no use after free, the refinement
  MCObjcRefcount     instance for TLC
CFRunLoop            the passes, callouts and wake-ups of CFRunLoop.c
  CFRunLoopProofs    the stack of runs, the main queue, the block list and its order,
                     observers, sleep
  MCCFRunLoop        instances for TLC
CFRunLoopTimers      its timers
  CFRunLoopTimersProofs   the binary search, the sorted arrays, the alarms, the callouts
  MCCFRunLoopTimers  instance for TLC
```

Names follow the source: `threadCount`, `fetch_cache`'s `used` and `allocated`,
`firstUnused`, `pendingInitializeMap` as `pending`, `currentIndex`. A definition
under a comment `Mutant:` is no part of a model; it is the same operator with a
plausible bug in it and shows that a property notices.

### ObjcSync

A step is an access to memory that another thread can see; what a thread does to
its own caches belongs to the neighbouring step. `SyncData` are never freed and
new ones go to the head, so a list is described by its length, and a `SyncData`
by its stripe and its rank. The two variables of the fast cache and the
`lockCount` of every `SyncCache` item are kept per thread; the position of an
item in the cache is not, only how many slots are used and allocated.

`FastCacheHit`, `CacheHit` and `CacheMiss` are the ways `id2data` begins. A miss
goes through `LockList`, `WalkNext` per element, then `WalkFound`,
`ReuseSyncData`, `AllocateSyncData` or `WalkFails`, the unlocking of the list,
and one of the two saves. `MutexLock`, `TryLockFails`, `TryUnlock` and
`TryUnlockFails` are what `objc_sync_enter`, `_try_enter` and `_exit` do with the
result. `ThreadExit` is `_objc_pthread_destroyspecific`: caches go, counts and
mutexes stay.

Clients may do anything: nest, leave what they never entered, ignore the answer
of `objc_sync_try_enter`, end inside. Three history variables carry their view:
`held` (enters that succeeded, less exits called), `releasing` (exits called
while inside and not finished) and `stray` (increments of `threadCount` that
nobody will undo: an unmatched exit, a thread that ended). A client's critical
section ends when it calls `objc_sync_exit`.

Calls with nil only return, and `id2data(obj, CHECK)` has no caller; both are left
out. The recursive mutex is `os_unfair_recursive_lock` and external. Memory is
sequentially consistent: the reads without a lock are of aligned words, and the
one whose value matters (the fast cache comparing `object`) is proved to see only
values that cannot change.

### ObjcInitialize

A thread's stack has a frame per activation of `initializeNonMetaClass`, because
it recurs into the superclass and because +initialize methods send messages. A
section under `classInitLock` is one step, and each later read of the flags
without it is one. (`_finishInitializing` marks several classes in one
section, and a reader without the lock could see some marked and others not yet; but
between two such reads of different classes a thread always passes through a section,
so it acts as if the section had been atomic. The section marks a superclass before
the subclasses parked on it, so such a reader never sees an initialized class below one
that is not.) A body sends its messages in any order, any part of them, and
returns or throws at any time; a throw finishes the class as a return does and
unwinds to the next body, which may catch it, or to the bottom. The monitor's
`wait` is a place of its own that only `notifyAll` leaves. `Finished(c)` is what
the recursion of `_finishInitializingAfter` marks. `fatal` stands for every
`_objc_fatal` and ASSERT on the way. Left out: a process after fork.

### FileFragments and JYUpdataTool

`Chunks` and `ClipCount` are the two formulas for the number of fragments,
`FragementOffset` and `FragmentSize` what the loops assign. `JYUpdataTool` has one
step per access in `upOne`: the range check, the status test, the assignment of the
status, the choice of the fragment, the seek and the read of the shared handle,
the upload, the load and the store of `currentIndex++`. The commented out
`@synchronized` stays commented out. An index past the end raises
`NSRangeException`, which nobody catches.

### RetainCount and ObjcRefcount

The isa word is what counts in it: `extra_rc` with the width given by `RC_HALF`,
`has_sidetable_rc` and `weakly_referenced`. A side table has a lock, the counts moved
out of the isa (`refcnts`) and the weak table (`referrers`). A step is one access to
shared memory without a lock, or what is done under the lock of a side table up to
the next such access. `Exclusive` is the store of an LL/SC pair: it succeeds
when the word is what was read, or reads it again.

`rootRetain` is `RetainLoad`, then `RetainStore`; on overflow `RetainOverflow`
(start again on the slow path), `RetainLock`, `RetainStoreHalf` and `Transcribe`,
which moves half of the count to the side table after the store. `rootRelease` is
`ReleaseLoad` and `ReleaseStore`; on underflow `ReleaseUnderflow`, `ReleaseLock`,
`Borrow` from the side table, `BorrowStore`, a second attempt `BorrowStoreAgain`
on top of what others retained, or `PutBack` and start over. The one that
stores a zero sends `dealloc` and goes through `ClearDeallocating` and `Free`.
`objc_loadWeakRetained` reads the variable, locks the table of what it found
(`LoadLock`, with a second look), tries to retain and unlocks (`LoadUnlock`).
`objc_storeWeak` reads the old value, locks both tables in the order of their
addresses, looks again (`StoreRetry`), registers, marks the isa, assigns and unlocks.

Clients own references (`refs`) and retain, release and store only what they own:
over-releasing is outside the model. Which reference is whose does not matter to the
code, so their number is the size of a set (`Refs`, `Total`), not a sum. `life` is the fate of the memory. A lock
released by a thread that does not own it halts the process (`os_unfair_lock` does),
which is `aborted`. The branch of `rootRelease` for a side table that turns out
empty after all (`R/objc-object.h:883`) is left out because it is never
reached: there a model without it would stop, and the run `refcount` checks for
deadlock.

### CFRunLoop and CFRunLoopTimers

`runs` is the stack of activations of `CFRunLoopRunSpecific`, each with the locals
of `__CFRunLoopRun` and its own `_per_run_data` (`stopped`, `ignoring`). A pass is
`NewPass`, three rounds of observers (`Notify`), `DoBlocks`, the version 0 sources,
`PollDispatch` (the main queue's port alone), `BeforeWaiting`, `Receive` (any one
message of the mode's port set), `Woken`, `HandleMsg`, `DoBlocks` and `Check`. The observers
collected for a round are a set that `FireObserver` empties in the order of the array
(`First`). The run
loop's lock is released in the states `Unlocked`, so the action boundaries are those
places; calls of other threads that need the lock wait for them (`LockFree`). A
callout does nothing but return or start a run (`Run` in one of `NestIn`); what it
calls is what a client thread calls at that moment. `CFRunLoopWakeUp` is an
action of its own, after the call that asks for it, and is dropped while the
innermost run ignores wake-ups. The wake-up port holds one message, as in the code.

`CFRunLoopTimers` models per mode the array sorted by fire date with its binary
search (`InsertionIndex`, whose loop is a function iterated by `Iterate`), the soft and hard deadlines last armed for, and the
alarm. `DoTimers`, `DoTimer`, the callout and `TimerDone` are
`__CFRunLoopDoTimers` and `__CFRunLoopDoTimer`. `SetNextFireDate`, `AddTimer` and
`Invalidate` are two actions each, because the code reads the timer (its modes, its
validity) before it locks the run loop. So is the invalidation of a timer that fires once, after its
callout: `InvalidateFired` takes it out of the modes it had when `CalloutReturns` made it invalid. Time is an integer up to `MaxTime`.

## 3. What the runs check

| run | instance | what it shows |
|---|---|---|
| `sync` | 2 threads, 2 objects, 1 list, cache capacity 1, at most 2 `SyncData`, nesting 2, 1 stray count per `SyncData` | the safety properties of `ObjcSync`, for arbitrary clients |
| `sync_client` | 2 threads with up to 3 enters each, 3 objects on 1 list, capacity 1 | for the clients of `test/synchronized-grid.m`: no deadlock, every program finishes, everything is available afterwards; a thread fills its `SyncCache`, grows it twice and refills freed slots |
| `initialize` | 2 threads, 4 classes (root, post, mid, leaf below mid), 1 callback, +initialize methods that message up, down, across and in a circle, and may throw | all safety properties of `ObjcInitialize` |
| `initialize_fair` | the same classes and messages, no callback | every message returns, or its thread is in a circle that a message up or across the hierarchy closed (`AllReturn`) |
| `upload` | 3 threads, fragments of 2 bytes, every file size from 0 to 5 | the file is partitioned; what holds without synchronization |
| `upload_once` | as `upload` | what does not (section 6) |
| `runloop` | 2 common modes, 2 blocks (one for the first mode, one for both), an observer that repeats and one that does not, runs inside observers, blocks and the main queue with a timeout and `stopAfterHandle`, one client that queues blocks and stops modes | no block lost, doubled or overtaken, nothing re-entered, no sleep with work pending |
| `runloop_fair` | 2 modes, a source of each version, the main queue, a client that signals, removes, invalidates and stops | stops end runs; sources and the main queue are served |
| `runloop_lost_wakeup` | a version 0 source, an observer whose callout runs the loop in another mode | the wake-up that is lost (section 6) |
| `timers` | 2 modes, a timer that repeats in both and one that fires once, 1 client that moves, adds, removes and invalidates them, 2 nested runs, time 0 and 1 | sorted arrays, armed alarms, no timer re-entered |
| `refcount` | 2 threads, 1 object with up to 6 references, `extra_rc` from 0 to 3 (`RC_HALF` 2), 2 weak variables, a table for the object and one for nil | no count lost, one dealloc, no use of freed memory, weak tables exact, no deadlock, refinement of `RetainCount` |
| `refcount_unlock` | the same with one weak variable | the lock that is released twice (section 6) |

**Why the bounds suffice.** The errors `objc-sync.mm` could make need a `SyncData`
that one thread looks at while another takes, gives up or reassigns it: two
threads and two objects on one list. No more than two `SyncData` can come up (a third
never does when there is room for it), and two are enough for one object to have a
duplicate if it could. Nesting 2 tells a first and a last enter from the
others. `MaxStray` and `MaxLockCount` only disable calls and `MaxSyncData` an
allocation; no other action tests them. The theorems of section 5 hold for all their values, which is
the stronger answer. In `ObjcInitialize` two threads and a chain of three classes
with a sibling give every pair of (begun by me, begun by the other, pending)
along a chain, and the superclass deadlock that the source describes. In the upload
three threads are the code's number. In `ObjcRefcount` six references overflow
an `extra_rc` of 0 to 3 twice, so that the side table holds more than one half and a
borrow may leave some of it there; two threads are a release and whoever interferes
with it; `MaxRefs` only disables new calls. In `CFRunLoop` a second activation is
where every hazard of re-entrance appears, and a third repeats it; one client
makes one call at a time, which is enough because every call is atomic
up to its wake-up. `runloop` and `runloop_fair` share out the features (blocks and
nested runs; sources, liveness) to keep each small. In `CFRunLoopTimers` two timers
are an array with an order to get wrong, and one unit of time passes a date
while a tolerance of one still lasts.

**Symmetry** is used in safety runs only: threads, and objects where all
are on one list.

**Deadlock** is checked in `sync_client`, where threads that have all ended may
stutter, in `refcount`, where somebody
can always call something, and in the run loop's runs. Elsewhere the system may stop:
all threads may end in `ObjcSync` and in the upload, arbitrary clients may
deadlock each other by taking objects in opposite orders, a circle of +initialize
methods can deadlock two threads (the source knows: it solves the circle between
a class and its superclass only).

**Fairness.** `ClientSpec` has weak fairness of each thread: a thread that can run
does run. Nothing is assumed about who gets a contended lock, since
`os_unfair_lock` promises nothing; programs are finite, so nobody can be overtaken
for ever. `FairSpec` of `ObjcInitialize` has weak fairness of `Step(t)`: a thread
inside the runtime or in a +initialize method goes on, and the bodies end because each
sends finitely many messages. A thread outside need not send any message.
`FairSpec` of `CFRunLoop`: the thread that owns the loop goes on and its callouts
return; it runs the loop again when a run is over (that is what an application's
main thread does, and without it a signalled source has nobody to serve it); a
call that a client has begun is finished; timeouts come. No client has to call
anything, no message has to arrive, and which of several messages `mach_msg`
receives is not constrained. `stopMode` is not among the calls of `runloop_fair`: a
client that stops the mode again before every first pass keeps the loop from its sources for
ever. `MainQueueServed` is about a single run for the same reason: each run
starts as if the queue had just been served.

## 4. The properties

`ObjcSync`:
- `MutualExclusion`, `UniqueSyncData`: never two threads in one object, never two
  `SyncData` for it.
- `InUseKeepsObject`: a `SyncData` is reassigned only when unused, and nobody is
  inside the object it had.
- `ThreadCountExact`: decrements without the list lock and increments with it add up
  to the number of users, plus `stray`.
- `NoFatal`: no "id2data is buggy". `CacheInBounds`: no write past the end of a
  `SyncCache`, although `fetch_cache` makes room long before the write.
- `ExitReportsOwnership`: `objc_sync_exit` answers OBJC_SYNC_SUCCESS exactly when its
  caller was inside, also while the `SyncData` is being given to another object.
- `AllAvailable`, `EveryProgramFinishes`, for the test's clients.

One consequence of the order in `id2data` is worth knowing and harmless to these
promises: since RELEASE lowers `threadCount` before the mutex is unlocked, a
`SyncData` can be given to another object with its mutex still locked for a
moment, so `objc_sync_try_enter` of an object nobody is inside may answer NO.
No property says when an attempt has to succeed.

`ObjcInitialize`: `InitializeOnce`, `ContiguousSubtree`, `SuperclassFirst`,
`PendingExact` (no class whose +initialize is over is forgotten), `NotifiedOnce`
(each callback once per class, whenever it is registered), `NoFatal`, and `AllReturn`.
`DoneMeansUsable`: whenever a message is let through (`LetThrough`), on the return of
`initializeNonMetaClass` or because the read of the flags without `classInitLock`
(`R/objc-runtime-new.mm:2196`) finds the class initialized, the +initialize methods of the
class and of all its superclasses are over, or are on the list of the thread itself.
The unlocked read pops no frame, so the property is about every state in which
it would answer yes. A subclass whose +initialize ends inside its superclass's, and which was
marked at once instead of parked, would break it (mutant `FinishAtOnce`).

`JYUpdataTool`: `IndexBehindUploads` and `FirstFragmentUploaded` are what remains
true without synchronization; `UploadedOnce` is what the comment claims.

`ObjcRefcount`:
- `CountExact`: the isa, the side table and what a thread carries between them add up
  to the references there are.
- `RefinesRetainCount`: clients see one count that stays zero once it is zero, one
  dealloc, weak variables that are nil before the memory goes, and loads that
  answer an object only by retaining it.
- `NoUseAfterFree`: nobody reads the isa of a freed object, although a weak load
  finds the object in memory that anybody may change.
- `WeakTableExact`: when no thread is inside a side table, its weak table and the
  variables agree, and whatever is weakly referenced is marked so in its isa.
- `LocksInOrder`: whoever waits for a side table holds none above it.

`CFRunLoop`:
- `SleepsOnlyWhenIdle`: a run that sleeps, and that nobody is about to wake, has no
  signalled source, block, stop or timeout, unless a callout of this pass ran the loop
  (`ranNested`). Without that exemption it is `NoWakeUpLost`, which does not hold.
- `BlocksConserved`, `BlocksInOrder`: a queued block is in one place until it is
  called, and blocks for the same mode are called in the order of the queue.
- `ObserverNotReentered`, `MainQueueNotReentered`: across nested runs.
- `StopReturns`, `SourceServed`, `MainQueueServed`, each for a single activation of the
  loop: a stop at any moment of a pass ends the run it found, and no source nor the main
  queue is put off for ever by what else arrives.
- `TypeOK` carries the facts the others are built on: only the innermost activation is
  outside a callout, and nothing is in hand outside `__CFRunLoopDoBlocks`.

`CFRunLoopTimers`: `TimersSorted` (what `__CFArmNextTimerInMode` relies on),
`TimersArmed` (the alarm of a mode, set only when the deadlines change, is never
missing nor too late for any timer of the mode), `TimerNotReentered`. Two history
variables mark the modes for which the code keeps less than that: `stale` those whose
array a call has missed, `missed` these and the ones whose alarm passes a timer
over; section 6 says how they come about.

## 5. What is proved

`ObjcSyncProofs`, for any finite sets of threads and stripes, any objects and
hash, and any bounds: `Invariance` (`Spec => []IndInv`), and from it
`TypeCorrectness`, `MutualExclusionHolds`, `UniqueSyncDataHolds`, `NoFatalHolds`,
`ThreadCountExactHolds`, `CacheInBoundsHolds`, `ExitReportsOwnershipHolds` and
`InUseKeepsObjectHolds`; and, for the programs of `ObjcSyncClient`, `AllAvailableHolds`.

The argument: mutual exclusion of clients is the exclusion of one mutex, if an object
has one `SyncData` and keeps it as long as somebody is inside. It keeps it because
`threadCount` is positive then, and that needs four things the code never states
together: `threadCount` counts users exactly (`ThreadCountExact`); who is inside
has an item in a cache, or has died and left a stray count (`UseInv`); the depth of a
mutex is `held`, plus one for an exit on its way (`HeldInv`); and what a walk knows
stays true until its end (`WalkInv`): `threadCount` of an unused `SyncData` rises
only under the list lock. `IndInv` is the conjunction of these with the
bookkeeping (`CallInv`, `ListInv`, `UniqueObject`, `ItemInv`, `ResultInv`,
`ReleasingInv`, `MutexInv`, `RoomInv`). One lemma per action shows that it
preserves each part. A thread acts only on its own caches and frame; facts about
others follow from what the `SyncData` says. For clients that leave exactly what they
entered, `ClientInv` adds that nothing is stray and that a cache counts no more than its
thread is inside of, so that a thread which is outside has no item, and a
`SyncData` whose threads all are has no user and no owner. Assumed: `nil` is none of the
objects, threads or `SyncData`, `Threads` and `Stripes` are finite, every object
has a stripe, and `SyncCacheCount` is positive.

`FileFragmentsProofs`: `ClipCountIsChunks` (both formulas agree, for every size
and maximum) and `CuttingPartitions` (the fragments partition the file).

`JYUpdataToolProofs`: `UploadTypeCorrect`, `IndexBehindUploadsHolds`,
`FirstFragmentUploadedHolds` and `CutFileForFragmentsHolds`, for any number of threads and fragments. The
invariant adds that a loaded `index` is also behind the increments, and what a
thread that has picked the first fragment implies for the index.

`ObjcRefcountProofs`, for any threads, objects, weak variables, any hash to side
tables and any width of `extra_rc`: `LockOrderTheorem`
(`Spec => []LocksInOrder`, with which no threads can wait for each other in a
circle). The invariant `IInv` says, for each place in the code, what the locals hold
there (`Local`) and exactly which side tables the thread has locked (`Holding`):
none, the one of its object, or the one or two of a weak store. It has to know
the double unlock of section 6, because a halted process keeps its locks.

`WeakTableExactHolds`, in the same module: a store first registers the variable with the
new object and then marks that object's isa and assigns, so between these steps (`Midway`)
the table is ahead of the variable. The invariant `IWeak` says that meanwhile the variable
still holds the old object and only the new one refers to it (`Registered`), that every
other variable agrees with all tables (`Agree`), and that what a variable holds, or is
about to, is marked (`MarkedWeak`). Two threads are never midway with one variable: each
would hold the lock of the side table of what the variable holds, which is why
`storeWeak` reads the variable again once it has the locks. A deallocation clears under the
same lock, and no step removes the mark from an isa: what the counting loops
store is made from the word that is there.

`ObjcCountProofs`: `CountExactHolds`, `NoUseAfterFreeHolds`,
`OnlyUnlockingAgainHaltsHolds` and `RefinesRetainCountHolds` (`Spec => Promised!Spec`). The argument is one of ownership.
A thread that retains, releases or stores owns a reference, or it loads a weak
variable inside the side table of the object, which the variable then still holds
(`Knows`); so the last release is of one thread, which alone goes on to dealloc and
free (`Ends`), and it clears the variables under that same lock (`Mortal`). A borrowed
or transcribed half range exists only inside the table, and `has_sidetable_rc` says
whether the table and what is on its way have any of the count (`Balanced`); this is
what makes an underflow of `extra_rc` without the bit a zero. Only one object's count
changes in a step, and by as much as its references (`Moves`), so the size of
`Refs` is compared with itself, one element more or less, and no sum over the threads is
needed. Assumed: `RC_HALF` is more than 1, as the widths in `isa.h` are. Each
step of the refinement is a step of `RetainCount` or a stutter.
`OnlyUnlockingAgainHaltsHolds` turns the counterexample of `refcount_unlock` around: the
double unlock is all there is. A thread that comes to one of the other unlocks
is inside the table (`Knows`, `Holding`); a weak load whose retain is over still has its
table unless the retain took the slow path and then found the object deallocating
(`LoadHolds`); and a weak store owns its new object, which therefore is not deallocating.

`ObjcInitializeProofs`, for any class hierarchy, threads, callbacks and messages:
`TypeCorrectness`, `NoFatalHolds`, `InitializeOnceHolds`, `ContiguousSubtreeHolds`,
`SuperclassFirstHolds`, `PendingExactHolds`, `NotifiedOnceHolds` and
`DoneMeansUsableHolds`. The invariant ties the flags of a class to the thread that is
at it: a class is CLS_INITIALIZING exactly when it is in the list of one thread
(`Listed`); on the stack of that thread one activation sends its +initialize (`OneOwner`),
and each one below the top is in a body or waits for its superclass (`Nested`); one that
is about to set the flag has a superclass that is done or its own (`SuperDone`),
which is where `SuperclassFirst` and the comment "initialized in a contiguous subtree"
come from. `PendingOK` says of the pending map that it holds direct subclasses of a
class that is still being initialized, which is why the recursion that finishes them
finds each once. Induction up the hierarchy uses that `Ancestors` is the least
set closed under `Super`. Assumed: no class is its own ancestor.

The run loop's theorems hold for any modes, sources, blocks, observers, timers, clients
and any depth of nested runs. `CFRunLoopProofs`, from parts that build on each other:

- `MainQueueNotReenteredHolds`. `IInv` says that a run below another is in a callout
  (`Stack`), and that a run that serves the main queue's port has none in the
  queue's callout below it (`MainQueue`): the port is chosen once, when a run starts, so
  what has to be carried is that the run still knows it (`dispatch`) when the
  message arrives. Assumed: no source is named as one of the places a message can come
  from.
- `BlocksConservedHolds`. `BInv` says that the list and what each run has taken, kept
  or is calling have no block in common (`Apart`), and that a run outside
  `__CFRunLoopDoBlocks` has none; without the latter, taking the list would overwrite
  blocks in hand.
- `BlocksInOrderHolds`. `OInv` compares the list and what each run took with the order
  in which blocks were queued: what a run took is earlier than the list and than what
  any run inside it took, and what it kept for other modes is earlier than what it
  still holds. So a run that calls a block has no earlier one for its mode.
- `SleepsOnlyWhenIdleHolds`. `SInv` follows the innermost run from the reset of its
  ignoring wake-ups to its sleep (`Heard`): whatever it has already looked at in this pass
  is either still empty, or a wake-up is there or on its way. It needs that only the
  innermost run can be in a pass in which no callout ran the loop.
- `TypeCorrectness` and `ObserverNotReenteredHolds`. `Firing` says that the observer of
  a callout has its firing bit set and that no run inside the callout has collected it.

`CFRunLoopTimersProofs`, for any intervals, tolerances and dates:

- `InsertionIndexCorrect`: the binary search of
  `__CFRunLoopInsertionIndexInTimerArray` ends, with the short cuts for long arrays,
  between two neighbours that the date fits. Its loop halves `add` from twice the
  power of two above the length; the invariant is that `idx` was tested with a date not
  after the new one, and `idx + add` was not, or is outside.
- `TimersSortedHolds` and `TimerNotReenteredHolds`, from `IInv`: the arrays agree with what
  the timers believe and are sorted where no call missed them (`TimersSorted`), what
  clients have yet to do is about timers and dates there are (`Promised`), and two
  runs never have marked the same timer, which is marked until its run is done (`CallOK`).
  `CallOK` also knows that the date a timer had when it was called is not before its
  date in other modes, so that moving it leaves their arrays sorted.
- `TimersArmedHolds`, if alarms are never early (`Early = 0`, what the kernel and libdispatch
  promise; section 6 says what an early one does). `WInv` says for each mode that
  was not missed that the hard deadline last armed for suits each timer that may be called
  (`InTime`), and that an alarm which has gone off is not forgotten (`Waking`): its message
  waits at the port, or the run that received it has collected every timer whose date is
  not after that deadline. The first of them to be called resets the deadlines,
  so that equal ones are armed again; that is the one assignment the mutant of
  `TimersArmed` takes out. That the loop over the array may stop early is
  `DeadlinesCorrect`, and needs the array to be sorted.

Assumed of the timers: there are finitely many, and no date reaches `UINT64_MAX`
(`Never`). The bounds of the model (`MaxDepth`, `MaxTime`) only disable actions and are
arbitrary in the theorems.

Two kinds of induction are needed and fit: over the steps of a loop (`Iterate`), by
applying the well-foundedness of the numbers to a set instead of an operator
(`SetInduction`), and over a hierarchy by least sets. The definitions are written with
functions, sets and CHOOSE for that reason, not with recursive operators.

Every invariant and action property that a run checks is stated by a theorem. `TimersSorted` and
`TimersArmed` exempt the modes in `stale` and `missed`, which more than one client can bring about and
the one client of the run partly cannot; the theorems are for any number of clients. Only
model-checked are the liveness properties and the absence of deadlock, which are
outside what TLAPS proves here, and the counterexamples of section 6.

## 6. Where the code and its words differ

With a run that shows it:

- `JYUpdataTool.m:66` says the loop is thread safe and uploads no range twice. It
  tests and sets the status in two steps, and with three threads a fragment
  can be uploaded four times. Fragments can also be skipped, `currentIndex` can run
  past the end between its check and its use, and when an overwritten
  increment leaves it on a marked fragment every thread spins.
  (`upload_once`)
- `R/objc-lockdebug.mm:374` asserts that no lock is released by a thread that does not
  own it. `objc_loadWeakRetained` calls `rootTryRetain` with the side table locked. When
  `extra_rc` is full, `rootRetain` sets `sideTableLocked` without locking, to
  transcribe half of the count; if the store then fails because the last
  references were released meanwhile, `R/objc-object.h:666` unlocks the table
  and `R/NSObject.mm:590` unlocks it again. (`refcount_unlock`)
- `CF/CFRunLoop.c:2718` says "we don't want to lose a wakeup". The wake-up port holds
  one message, for all runs of the thread. A source is signalled after the outer run
  has passed the sources; the wake-up is sent; an observer (or any callout) of the
  same pass runs the loop in a mode without that source, and receives the
  message. The outer run then sleeps on the signalled source. (`runloop_lost_wakeup`)

Found while modelling, without a run of their own:

- `R/objc-sync.mm:36` calls `threadCount` the "number of THREADS using this block".
  An `objc_sync_exit` of an object that another thread is inside increments it for
  ever, because `id2data` counts before it looks at `why`. The block is then
  never reused. `stray` in `ThreadCountExact` is that difference.
- `R/objc-sync.mm:42` calls `lockCount` the "number of times THIS THREAD locked this
  block". A failed `objc_sync_try_enter` is counted too.
- `FileStreamOperation.m:146` says the data of the given fragment is read. The three
  threads share the handle's position, so a seek of one between the seek and the read
  of another makes it upload a different range.
- A timer that is being called is passed over when alarms are set. If its callout
  sets a later date and the timer is in two modes, only the mode it was called in is
  armed again (`CF/CFRunLoop.c:2078`); the other stays without an alarm for it.
  Such a mode is `missed`.
- `CFRunLoopTimerSetNextFireDate` moves the timer in the modes that it read before it
  took the run loop's lock (`CF/CFRunLoop.c:3802`): a mode added in between keeps an
  array that is not sorted any more. Such a mode is `stale`, and `missed`.
- With two clients an alarm can be lost. `CFRunLoopTimerInvalidate` makes the timer invalid
  first and takes it out of the arrays later, under the run loop's lock
  (`CF/CFRunLoop.c:3884`). If the alarm goes off in between, `__CFRunLoopDoTimers` finds
  nobody to call, and `__CFArmNextTimerInMode` sees the invalid timer, hence the same
  deadlines as before, and sets no alarm. A timer with the same
  deadlines that another thread adds before the removal is left without alarm after it too,
  because nothing changes. This came up in the proof of `TimersArmed`: the one client of
  the run cannot add a timer while it invalidates another. Such a mode is `missed`.
- `CFRunLoopAddTimer` and `CFRunLoopAddSource` test for validity before they lock
  anything: against an invalidation in between, the mode keeps an invalid item.
- An alarm that goes off early (`Early` = 1) finds no timer due and leaves the
  deadlines as they are, so the alarm is not set again (`CF/CFRunLoop.c:2567` says
  it will be).
- `CF/CFRunLoop.c:2948` says that callouts are made without the lock. Adding or
  removing a source in the common modes calls its schedule or cancel function with the
  run loop locked.
- Blocks that an outer run holds while it calls one of them are not seen by a run
  inside that block; a stop that arrives in the Exit observers, or with a timeout or a
  handled source, is lost; `_CFRunLoopStopMode` of a mode that is not running
  ends its next run.

## 7. Not modelled, and the plan

Not modelled on purpose: dyld, CoreFoundation apart from its run loop, the UI
and single-call demos, AvoidCrash (method swizzling without state), and the
lock-free readers of the method cache (their correctness is a matter of the
order of loads in assembly).

Left out of the modelled parts:

- `ObjcSync`: nil arguments, `id2data(obj, CHECK)`.
- `ObjcInitialize`: a process after fork; growth of the per-thread class array.
- `ObjcRefcount`: raw isa words, tagged pointers, classes with their own retain and
  release, over-release, autorelease, `object_dispose` (associated objects, C++
  destructors), `objc_initWeak`, `objc_destroyWeak`, copy and move of weak
  variables, the branch of `storeWeak` that initializes the class and starts over, and
  the spinning of `slock`.
- `CFRunLoop`: adding sources and observers while the loop runs, the set of common
  mode items and changes of the set of common modes, the Windows branches, vouchers and
  the making and joining of port sets. `CFRunLoopTimers`: the choice between mach and
  dispatch timers (both are the alarm), leeway beyond the hard deadline, and the order of
  timers with equal dates beyond what the binary search gives.
- The upload: opening the file, errors of the handle, archiving the fragments.

Memory is sequentially consistent in all modules.

Next, in this order: `AutoreleasePool` (the page list against a plain stack),
`LoadMethods` and `AssociatedObjects` (order and reentrancy of +load; set, get and remove
against deallocation), `OptimizeList` and `VideoDownload` (the bounded task
queue, the resume protocol with its timer). The invariants of these modules are
to be proved with them.
