----------------------------- MODULE CFRunLoop -----------------------------
(***************************************************************************)
(* The run loop of CoreFoundation (CF-1153.18/CFRunLoop.c): the passes of  *)
(* __CFRunLoopRun on the thread that owns the loop, the runs it makes      *)
(* inside its own callouts, and the calls other threads make into it.      *)
(*                                                                         *)
(* The run loop's lock is held in every state of the innermost activation  *)
(* but those of Unlocked; a call from another thread that takes the lock   *)
(* holds it for one action.  Mode locks are only taken with the run loop's *)
(* lock held, and source and observer locks are held for one action.  What *)
(* a callback does to the run loop while it runs is what another thread    *)
(* does at that moment, so callouts themselves only return or start a run. *)
(* Timers are in CFRunLoopTimers.                                          *)
(***************************************************************************)
EXTENDS Naturals, Sequences, SequencesExt

CONSTANTS
    Modes,          \* names of the modes
    CommonModes,    \* those in _commonModes
    Sources0,       \* version 0 sources: signalled by hand
    Sources1,       \* version 1 sources: each with its mach port
    InModes,        \* InModes[s]: the modes source s was added to
    Blocks,         \* blocks given to CFRunLoopPerformBlock, each once
    RunsIn,         \* RunsIn[b]: the modes a block was queued for
    Observers,      \* the observers, in the order of _observers
    ObservesAt,     \* ObservesAt[o]: the activities o observes
    OneShot,        \* the observers that do not repeat
    Clients,        \* threads that call into the run loop
    Calls,          \* the calls they make
    MainThread,     \* whether the loop is the main thread's
    BaseRuns,       \* arguments of the runs made outside callouts
    NestedRuns,     \* arguments of the runs made inside callouts
    NestIn,         \* the callouts that make one
    MaxDepth        \* bound: activations on the stack

Sources == Sources0 \cup Sources1
Activities == {"Entry", "BeforeTimers", "BeforeSources", "BeforeWaiting",
               "AfterWaiting", "Exit"}
Callouts == {"InObserver", "InBlock", "InSource0", "InSource1", "InMainQueue"}
RunArgs == [mode : Modes, seconds : {"never", "armed", "fired"},
            stopAfterHandle : BOOLEAN]

ASSUME RunLoopAssumption ==
    /\ CommonModes \subseteq Modes
    /\ RunsIn \in [Blocks -> SUBSET Modes]
    /\ Observers \in Seq(DOMAIN ObservesAt)
    /\ \A o \in DOMAIN ObservesAt : ObservesAt[o] \subseteq Activities
    /\ OneShot \subseteq DOMAIN ObservesAt
    /\ InModes \in [Sources -> SUBSET Modes]
    /\ Calls \subseteq {"signal", "block", "stop", "stopMode", "remove", "invalidate"}
    /\ MainThread \in BOOLEAN
    /\ BaseRuns \subseteq RunArgs /\ NestedRuns \subseteq RunArgs
    /\ NestIn \subseteq Callouts
    /\ MaxDepth \in Nat \ {0}
    /\ Sources0 \cap Sources1 = {}
    /\ Sources \cap {"null", "none", "wake", "main"} = {}

VARIABLES
    runs,           \* activations of the loop, innermost last
    sources,        \* sources[m]: _sources0 and _sources1 of mode m
    valid,          \* sources that are valid
    signaled,       \* sources whose signalled bit is set
    modeStopped,    \* modes whose _stopped is set
    blocks,         \* the list from _blocks_head to _blocks_tail
    posted,         \* history: the blocks ever queued, in order
    obsValid,       \* observers that are valid
    firing,         \* observers whose firing bit is set
    wakeUpPort,     \* a message waits on _wakeUpPort, whose queue holds one
    msgs,           \* version 1 sources with a message on their port
    mainPort,       \* a message waits on the port of the main dispatch queue
    mainTasks,      \* the main dispatch queue has work
    doing,          \* doing[t]: what client t has yet to do of its call
    timerWake       \* timeout handlers that have yet to wake the loop

vars == <<runs, sources, valid, signaled, modeStopped, blocks, posted, obsValid,
          firing, wakeUpPort, msgs, mainPort, mainTasks, doing, timerWake>>
lists == <<blocks, posted>>
ports == <<wakeUpPort, msgs, mainPort, mainTasks>>
srcs == <<sources, valid, signaled>>
obs == <<obsValid, firing>>
calls == <<doing, timerWake>>

Top == runs[Len(runs)]
SetTop(f) == runs' = [runs EXCEPT ![Len(runs)] = f]
At(pc) == runs # <<>> /\ Top.pc = pc

\* Where the innermost activation has released the run loop's lock.
Unlocked == Callouts \cup
            {"Observers", "Blocks", "Sources", "Source1", "Wait", "Woken"}
LockFree == runs # <<>> => Top.pc \in Unlocked

\* A fresh run loop ignores wake-ups until it runs (__CFRunLoopCreate).
IgnoringWakeUps == IF runs = <<>> THEN TRUE ELSE Top.ignoring

Idle == "none"
Waking == "wake"

Init ==
    /\ runs = <<>>
    /\ sources = [m \in Modes |-> {s \in Sources : m \in InModes[s]}]
    /\ valid = Sources
    /\ signaled = {} /\ modeStopped = {}
    /\ blocks = <<>> /\ posted = <<>>
    /\ obsValid = DOMAIN ObservesAt /\ firing = {}
    /\ wakeUpPort = FALSE /\ msgs = {} /\ mainPort = FALSE /\ mainTasks = FALSE
    /\ doing = [t \in Clients |-> Idle]
    /\ timerWake = {}

-----------------------------------------------------------------------------
(* Starting and ending a run.                                              *)

\* Mutant: HANDLE_DISPATCH_ON_BASE_INVOCATION_ONLY is off and the thread's
\* __CFTSDKeyIsInGCDMainQ is not looked at.
DispatchQAlways == MainThread

\* The main queue is served unless the thread is already inside its callout.
DispatchQSafe == MainThread /\ \A i \in DOMAIN runs : runs[i].pc # "InMainQueue"

ServesMainQueue(m) == DispatchQSafe /\ m \in CommonModes

ModeIsEmpty(m) ==
    /\ ~ServesMainQueue(m)
    /\ sources[m] = {}
    /\ \A b \in ToSet(blocks) : m \notin RunsIn[b]

\* An activation: the arguments and locals of CFRunLoopRunSpecific and
\* __CFRunLoopRun, its _per_run_data, and ranNested, which remembers that a
\* callout of this pass started another run.
Activation(a) ==
    [mode |-> a.mode, stopAfterHandle |-> a.stopAfterHandle,
     timeout |-> a.seconds, stopped |-> FALSE, ignoring |-> FALSE,
     pc |-> "Entry", ret |-> "Entry", call |-> "none",
     toFire |-> {}, toPerform |-> {}, held |-> <<>>, kept |-> <<>>,
     handled |-> FALSE, poll |-> FALSE, live |-> "null",
     dispatch |-> FALSE, didDispatch |-> TRUE, ranNested |-> FALSE]

\* CFRunLoopRunSpecific up to the Entry observers.  In an empty mode it
\* returns kCFRunLoopRunFinished and changes nothing.
Run(a) ==
    /\ ~ModeIsEmpty(a.mode)
    /\ \/ runs = <<>> /\ a \in BaseRuns /\ runs' = <<Activation(a)>>
       \/ /\ runs # <<>> /\ Len(runs) < MaxDepth /\ a \in NestedRuns
          /\ Top.pc \in NestIn /\ ~Top.ranNested
          /\ runs' = Append([runs EXCEPT ![Len(runs)].ranNested = TRUE],
                            Activation(a))
    /\ UNCHANGED <<srcs, modeStopped, lists, obs, ports, calls>>

\* PopPerRunData and the previous _currentMode: the activation below resumes.
Return ==
    /\ At("Return")
    /\ runs' = Front(runs)
    /\ UNCHANGED <<srcs, modeStopped, lists, obs, ports, calls>>

\* Mutant: a pass goes on ignoring wake-ups.
NewPassIgnoring(f) ==
    [f EXCEPT !.pc = "BeforeTimers", !.handled = FALSE,
              !.poll = FALSE, !.live = "null", !.ranNested = FALSE]

\* A pass begins with UnsetIgnoreWakeUps.
NewPass(f) ==
    [f EXCEPT !.pc = "BeforeTimers", !.ignoring = FALSE, !.handled = FALSE,
              !.poll = FALSE, !.live = "null", !.ranNested = FALSE]

\* The head of __CFRunLoopRun: a pending stop ends the run before its first
\* pass; otherwise the timeout starts and the main queue's port is chosen.
Start ==
    /\ At("Start")
    /\ IF Top.stopped \/ Top.mode \in modeStopped
       THEN /\ SetTop([Top EXCEPT !.pc = "Exit", !.stopped = FALSE])
            /\ modeStopped' = IF Top.stopped THEN modeStopped
                              ELSE modeStopped \ {Top.mode}
       ELSE /\ SetTop([NewPass(Top) EXCEPT !.dispatch = ServesMainQueue(Top.mode)])
            /\ UNCHANGED modeStopped
    /\ UNCHANGED <<srcs, lists, obs, ports, calls>>

\* The end of a pass: the reasons to return, in the order of the code.
Check ==
    /\ At("Check")
    /\ LET f == Top
           handled == f.handled /\ f.stopAfterHandle
           timedOut == f.timeout \in {"passed", "fired"}
           over == [f EXCEPT !.pc = "Exit"] IN
       /\ SetTop(IF handled \/ timedOut THEN over
                 ELSE IF f.stopped THEN [over EXCEPT !.stopped = FALSE]
                 ELSE IF f.mode \in modeStopped \/ ModeIsEmpty(f.mode) THEN over
                 ELSE NewPass(f))
       /\ modeStopped' = IF handled \/ timedOut \/ f.stopped THEN modeStopped
                         ELSE modeStopped \ {f.mode}
    /\ UNCHANGED <<srcs, lists, obs, ports, calls>>

-----------------------------------------------------------------------------
(* Observers.                                                              *)

\* Mutant: observers that are firing are collected again.
CollectedFiring(activity) ==
    {o \in ToSet(Observers) : activity \in ObservesAt[o] /\ o \in obsValid}

Collected(activity) ==
    {o \in ToSet(Observers) : activity \in ObservesAt[o] /\ o \in obsValid /\ o \notin firing}

\* __CFRunLoopDoObservers(activity), after which the activation f is at ret.
DoObservers(f, activity, ret) ==
    IF Collected(activity) = {} THEN [f EXCEPT !.pc = ret]
    ELSE [f EXCEPT !.pc = "Observers", !.ret = ret, !.toFire = Collected(activity)]

Notify(activity, ret) ==
    /\ At(activity)
    /\ SetTop(DoObservers(Top, activity, ret))
    /\ UNCHANGED <<srcs, modeStopped, lists, obs, ports, calls>>

\* o is the first of the observers in S.
First(o, S) ==
    \E i \in DOMAIN Observers :
        Observers[i] = o /\ o \in S /\ \A j \in 1..(i - 1) : Observers[j] \notin S

\* The next collected observer is called if it is still valid.
FireObserver(o) ==
    /\ At("Observers") /\ First(o, Top.toFire)
    /\ IF o \in obsValid
       THEN /\ SetTop([Top EXCEPT !.pc = "InObserver", !.call = o, !.toFire = @ \ {o}])
            /\ firing' = firing \cup {o}
       ELSE SetTop([Top EXCEPT !.toFire = @ \ {o}]) /\ UNCHANGED firing
    /\ UNCHANGED <<srcs, modeStopped, lists, obsValid, ports, calls>>

\* The observer's callout returns; one that does not repeat is invalidated.
ObserverReturns ==
    /\ At("InObserver")
    /\ obsValid' = IF Top.call \in OneShot THEN obsValid \ {Top.call} ELSE obsValid
    /\ firing' = firing \ {Top.call}
    /\ SetTop([Top EXCEPT !.pc = "Observers", !.call = "none"])
    /\ UNCHANGED <<srcs, modeStopped, lists, ports, calls>>

\* When none is left the locks are taken again.
ObserversDone ==
    /\ At("Observers") /\ Top.toFire = {}
    /\ SetTop([Top EXCEPT !.pc = Top.ret])
    /\ UNCHANGED <<srcs, modeStopped, lists, obs, ports, calls>>

-----------------------------------------------------------------------------
(* Blocks.                                                                 *)

\* __CFRunLoopDoBlocks takes the whole list and releases the locks.
DoBlocks(pc, ret) ==
    /\ At(pc)
    /\ IF blocks = <<>> THEN SetTop([Top EXCEPT !.pc = ret])
       ELSE SetTop([Top EXCEPT !.pc = "Blocks", !.ret = ret, !.held = blocks])
    /\ blocks' = <<>>
    /\ UNCHANGED <<srcs, modeStopped, posted, obs, ports, calls>>

\* The activation f past the first block of the list it took: the block is
\* called if it was queued for this mode, kept if not.
Scanned(f) ==
    LET b == Head(f.held) IN
    IF f.mode \in RunsIn[b]
    THEN [f EXCEPT !.pc = "InBlock", !.call = b, !.held = Tail(@)]
    ELSE [f EXCEPT !.kept = Append(@, b), !.held = Tail(@)]

\* Mutants: the blocks kept replace the list, go behind it, or stay in hand.
ScanBlockReplaces ==
    /\ At("Blocks")
    /\ IF Top.held = <<>>
       THEN blocks' = Top.kept /\ SetTop([Top EXCEPT !.pc = Top.ret, !.kept = <<>>])
       ELSE UNCHANGED blocks /\ SetTop(Scanned(Top))
    /\ UNCHANGED <<srcs, modeStopped, posted, obs, ports, calls>>
ScanBlockAppends ==
    /\ At("Blocks")
    /\ IF Top.held = <<>>
       THEN blocks' = blocks \o Top.kept /\ SetTop([Top EXCEPT !.pc = Top.ret, !.kept = <<>>])
       ELSE UNCHANGED blocks /\ SetTop(Scanned(Top))
    /\ UNCHANGED <<srcs, modeStopped, posted, obs, ports, calls>>
ScanBlockHoldsOn ==
    /\ At("Blocks")
    /\ IF Top.held = <<>>
       THEN blocks' = Top.kept \o blocks /\ SetTop([Top EXCEPT !.pc = Top.ret])
       ELSE UNCHANGED blocks /\ SetTop(Scanned(Top))
    /\ UNCHANGED <<srcs, modeStopped, posted, obs, ports, calls>>

\* The next block of the list taken, or the end, where the blocks kept go back
\* in front of the list.
ScanBlock ==
    /\ At("Blocks")
    /\ IF Top.held = <<>>
       THEN blocks' = Top.kept \o blocks /\ SetTop([Top EXCEPT !.pc = Top.ret, !.kept = <<>>])
       ELSE UNCHANGED blocks /\ SetTop(Scanned(Top))
    /\ UNCHANGED <<srcs, modeStopped, posted, obs, ports, calls>>

BlockReturns ==
    /\ At("InBlock")
    /\ SetTop([Top EXCEPT !.pc = "Blocks", !.call = "none"])
    /\ UNCHANGED <<srcs, modeStopped, lists, obs, ports, calls>>

-----------------------------------------------------------------------------
(* Version 0 sources.                                                      *)

\* __CFRunLoopDoSources0 collects the valid, signalled sources of the mode.
CollectSources0 ==
    /\ At("Sources0")
    /\ LET C == sources[Top.mode] \cap Sources0 \cap valid \cap signaled IN
       SetTop([Top EXCEPT !.pc = IF C = {} THEN "PollDispatch" ELSE "Sources",
                          !.toPerform = C])
    /\ UNCHANGED <<srcs, modeStopped, lists, obs, ports, calls>>

\* A collected source is performed if it is still signalled and valid.  With
\* stopAfterHandle the first one performed is the last.
PerformSource0(s) ==
    /\ At("Sources")
    /\ s \in Top.toPerform
    /\ ~(Top.stopAfterHandle /\ Top.handled)
    /\ SetTop(IF s \in signaled \cap valid
              THEN [Top EXCEPT !.pc = "InSource0", !.call = s, !.toPerform = @ \ {s}]
              ELSE [Top EXCEPT !.toPerform = @ \ {s}])
    /\ signaled' = signaled \ {s}
    /\ UNCHANGED <<sources, valid, modeStopped, lists, obs, ports, calls>>

Source0Returns ==
    /\ At("InSource0")
    /\ SetTop([Top EXCEPT !.pc = "Sources", !.call = "none", !.handled = TRUE])
    /\ UNCHANGED <<srcs, modeStopped, lists, obs, ports, calls>>

SourcesDone ==
    /\ At("Sources")
    /\ Top.toPerform = {} \/ (Top.stopAfterHandle /\ Top.handled)
    /\ SetTop([Top EXCEPT !.toPerform = {},
                          !.pc = IF Top.handled THEN "Blocks2" ELSE "PollDispatch"])
    /\ UNCHANGED <<srcs, modeStopped, lists, obs, ports, calls>>

-----------------------------------------------------------------------------
(* Waiting for a message and handling it.                                  *)

\* Mutant: the main queue's port is never tried alone.
PollDispatchNever ==
    /\ At("PollDispatch")
    /\ SetTop([Top EXCEPT !.poll = Top.handled \/ Top.timeout = "fired",
                          !.pc = "BeforeWaiting", !.didDispatch = FALSE])
    /\ UNCHANGED <<srcs, modeStopped, lists, obs, ports, calls>>

\* The pass polls if it handled a source or its timeout has fired.  Unless
\* the last message was the main queue's, its port is tried first.
PollDispatch ==
    /\ At("PollDispatch")
    /\ LET f == [Top EXCEPT !.poll = Top.handled \/ Top.timeout = "fired"] IN
       IF Top.dispatch /\ ~Top.didDispatch /\ mainPort
       THEN /\ SetTop([f EXCEPT !.pc = "HandleMsg", !.live = "main"])
            /\ mainPort' = FALSE
       ELSE /\ SetTop([f EXCEPT !.pc = "BeforeWaiting", !.didDispatch = FALSE])
            /\ UNCHANGED mainPort
    /\ UNCHANGED <<srcs, modeStopped, lists, obs, wakeUpPort, msgs, mainTasks, calls>>

\* The BeforeWaiting observers are told unless the pass polls; then the
\* activation counts as sleeping and releases the locks.
BeforeWaiting ==
    /\ At("BeforeWaiting")
    /\ SetTop(IF Top.poll THEN [Top EXCEPT !.pc = "Wait"]
              ELSE DoObservers(Top, "BeforeWaiting", "Wait"))
    /\ UNCHANGED <<srcs, modeStopped, lists, obs, ports, calls>>

\* The ports of the mode's set that hold a message.
LivePorts ==
    (IF wakeUpPort THEN {"wake"} ELSE {})
    \cup (IF mainPort /\ Top.dispatch THEN {"main"} ELSE {})
    \cup (msgs \cap sources[Top.mode])

\* mach_msg receives one message of the port set, any of them; a polling
\* activation returns without one when there is none.
Receive(p) ==
    /\ At("Wait")
    /\ p \in IF LivePorts = {} /\ Top.poll THEN {"null"} ELSE LivePorts
    /\ SetTop([Top EXCEPT !.pc = "Woken", !.live = p])
    /\ wakeUpPort' = (wakeUpPort /\ p # "wake")
    /\ mainPort' = (mainPort /\ p # "main")
    /\ msgs' = msgs \ {p}
    /\ UNCHANGED <<srcs, modeStopped, lists, obs, mainTasks, calls>>

\* Back under the locks, wake-ups are ignored from here on: the activation
\* is awake and will look at everything before it sleeps again.
Woken ==
    /\ At("Woken")
    /\ LET f == [Top EXCEPT !.ignoring = TRUE] IN
       SetTop(IF Top.poll THEN [f EXCEPT !.pc = "HandleMsg"]
              ELSE DoObservers(f, "AfterWaiting", "HandleMsg"))
    /\ UNCHANGED <<srcs, modeStopped, lists, obs, ports, calls>>

\* Nothing to do for no message or a wake-up; the main queue and version 1
\* sources are called.  A source that left the mode is no longer found.
HandleMsg ==
    /\ At("HandleMsg")
    /\ LET f == [Top EXCEPT !.ignoring = TRUE, !.poll = FALSE] IN
       SetTop(IF f.live = "main" THEN [f EXCEPT !.pc = "InMainQueue"]
              ELSE IF f.live \in sources[f.mode] THEN [f EXCEPT !.pc = "Source1"]
              ELSE [f EXCEPT !.pc = "Blocks3", !.live = "null"])
    /\ mainTasks' = (mainTasks /\ Top.live # "main")
    /\ UNCHANGED <<srcs, modeStopped, lists, obs, wakeUpPort, msgs, mainPort, calls>>

MainQueueReturns ==
    /\ At("InMainQueue")
    /\ SetTop([Top EXCEPT !.pc = "Blocks3", !.live = "null", !.handled = TRUE,
                          !.didDispatch = TRUE])
    /\ UNCHANGED <<srcs, modeStopped, lists, obs, ports, calls>>

\* __CFRunLoopDoSource1 once it has released the locks.
PerformSource1 ==
    /\ At("Source1")
    /\ IF Top.live \in valid
       THEN /\ SetTop([Top EXCEPT !.pc = "InSource1"])
            /\ signaled' = signaled \ {Top.live}
       ELSE /\ SetTop([Top EXCEPT !.pc = "Blocks3", !.live = "null"])
            /\ UNCHANGED signaled
    /\ UNCHANGED <<sources, valid, modeStopped, lists, obs, ports, calls>>

Source1Returns ==
    /\ At("InSource1")
    /\ SetTop([Top EXCEPT !.pc = "Blocks3", !.live = "null", !.handled = TRUE])
    /\ UNCHANGED <<srcs, modeStopped, lists, obs, ports, calls>>

\* One step of the thread that owns the loop, other than a new run.
RunnerStep ==
    \/ Start \/ Check \/ Return
    \/ Notify("Entry", "Start") \/ Notify("Exit", "Return")
    \/ Notify("BeforeTimers", "BeforeSources") \/ Notify("BeforeSources", "Blocks1")
    \/ \E o \in DOMAIN ObservesAt : FireObserver(o)
    \/ ObserverReturns \/ ObserversDone
    \/ DoBlocks("Blocks1", "Sources0") \/ DoBlocks("Blocks2", "PollDispatch")
    \/ DoBlocks("Blocks3", "Check")
    \/ ScanBlock \/ BlockReturns
    \/ CollectSources0 \/ Source0Returns \/ SourcesDone
    \/ \E s \in Sources0 : PerformSource0(s)
    \/ PollDispatch \/ BeforeWaiting \/ Woken \/ HandleMsg
    \/ \E p \in {"null", "wake", "main"} \cup Sources1 : Receive(p)
    \/ MainQueueReturns \/ PerformSource1 \/ Source1Returns

-----------------------------------------------------------------------------
(* Calls of other threads.                                                 *)

\* CFRunLoopWakeUp, under the run loop's lock.
WakeUp ==
    /\ LockFree
    /\ wakeUpPort' = (wakeUpPort \/ ~IgnoringWakeUps)

\* CFRunLoopSourceSignal; the caller goes on to call CFRunLoopWakeUp.
SourceSignal(t, s) ==
    /\ "signal" \in Calls /\ doing[t] = Idle /\ s \in valid \cap Sources0
    /\ signaled' = signaled \cup {s}
    /\ doing' = [doing EXCEPT ![t] = Waking]
    /\ UNCHANGED <<runs, sources, valid, modeStopped, lists, obs, ports, timerWake>>

\* CFRunLoopPerformBlock; it does not wake the loop, the caller does.
PerformBlock(t, b) ==
    /\ "block" \in Calls /\ doing[t] = Idle /\ LockFree
    /\ b \notin ToSet(posted)
    /\ blocks' = Append(blocks, b) /\ posted' = Append(posted, b)
    /\ doing' = [doing EXCEPT ![t] = Waking]
    /\ UNCHANGED <<runs, srcs, modeStopped, obs, ports, timerWake>>

\* Mutant: CFRunLoopStop does not wake the loop.
StopSilently(t) ==
    /\ "stop" \in Calls /\ doing[t] = Idle /\ LockFree /\ runs # <<>>
    /\ SetTop([Top EXCEPT !.stopped = TRUE])
    /\ UNCHANGED <<srcs, modeStopped, lists, obs, ports, calls>>

\* CFRunLoopStop stops the innermost run, then wakes the loop; without a
\* run it does nothing.
Stop(t) ==
    /\ "stop" \in Calls /\ doing[t] = Idle /\ LockFree /\ runs # <<>>
    /\ SetTop([Top EXCEPT !.stopped = TRUE])
    /\ doing' = [doing EXCEPT ![t] = Waking]
    /\ UNCHANGED <<srcs, modeStopped, lists, obs, ports, timerWake>>

\* _CFRunLoopStopMode marks the mode, whether it runs or not.
StopMode(t, m) ==
    /\ "stopMode" \in Calls /\ doing[t] = Idle /\ LockFree
    /\ modeStopped' = modeStopped \cup {m}
    /\ doing' = [doing EXCEPT ![t] = Waking]
    /\ UNCHANGED <<runs, srcs, lists, obs, ports, timerWake>>

\* The CFRunLoopWakeUp that ends each of the four.
ClientWakeUp(t) ==
    /\ doing[t] = Waking /\ WakeUp
    /\ doing' = [doing EXCEPT ![t] = Idle]
    /\ UNCHANGED <<runs, srcs, modeStopped, lists, obs, msgs, mainPort, mainTasks, timerWake>>

RemoveSource(t, s, m) ==
    /\ "remove" \in Calls /\ doing[t] = Idle /\ LockFree
    /\ s \in sources[m]
    /\ sources' = [sources EXCEPT ![m] = @ \ {s}]
    /\ UNCHANGED <<runs, valid, signaled, modeStopped, lists, obs, ports, calls>>

\* CFRunLoopSourceInvalidate under the source's lock, which it releases
\* before it takes the run loop's.
SourceInvalidate(t, s) ==
    /\ "invalidate" \in Calls /\ doing[t] = Idle /\ s \in valid
    /\ valid' = valid \ {s} /\ signaled' = signaled \ {s}
    /\ doing' = [doing EXCEPT ![t] = s]
    /\ UNCHANGED <<runs, sources, modeStopped, lists, obs, ports, timerWake>>

\* __CFRunLoopSourceRemoveFromRunLoop: out of every mode in one hold of the lock.
RemoveFromRunLoop(t) ==
    /\ doing[t] \in Sources /\ LockFree
    /\ sources' = [m \in Modes |-> sources[m] \ {doing[t]}]
    /\ doing' = [doing EXCEPT ![t] = Idle]
    /\ UNCHANGED <<runs, valid, signaled, modeStopped, lists, obs, ports, timerWake>>

\* The dispatch timer of an activation lives from Start to the end of
\* __CFRunLoopRun.  Its date passes, its handler (__CFRunLoopTimeout) sets
\* termTSR to 0, then wakes the loop.
Timed(f) == ~(f.pc \in {"Entry", "Start", "Exit", "Return"} \/
              (f.pc \in {"Observers", "InObserver"} /\ f.ret \in {"Start", "Return"}))

TimePasses(i) ==
    /\ i \in DOMAIN runs /\ runs[i].timeout = "armed" /\ Timed(runs[i])
    /\ runs' = [runs EXCEPT ![i].timeout = "passed"]
    /\ UNCHANGED <<srcs, modeStopped, lists, obs, ports, calls>>

Timeout(i) ==
    /\ i \in DOMAIN runs /\ runs[i].timeout = "passed" /\ Timed(runs[i])
    /\ i \notin timerWake
    /\ runs' = [runs EXCEPT ![i].timeout = "fired"]
    /\ timerWake' = timerWake \cup {i}
    /\ UNCHANGED <<srcs, modeStopped, lists, obs, ports, doing>>

TimeoutWakeUp(i) ==
    /\ i \in timerWake /\ WakeUp
    /\ timerWake' = timerWake \ {i}
    /\ UNCHANGED <<runs, srcs, modeStopped, lists, obs, msgs, mainPort, mainTasks, doing>>

\* A message for a version 1 source; the model's port holds one.
SendMessage(s) ==
    /\ s \in Sources1 \ msgs
    /\ msgs' = msgs \cup {s}
    /\ UNCHANGED <<runs, srcs, modeStopped, lists, obs, wakeUpPort, mainPort, mainTasks, calls>>

\* dispatch_async to the main queue: the first task sends the port a message.
DispatchToMain ==
    /\ MainThread /\ ~mainTasks
    /\ mainTasks' = TRUE /\ mainPort' = TRUE
    /\ UNCHANGED <<runs, srcs, modeStopped, lists, obs, wakeUpPort, msgs, calls>>

Client(t) ==
    \/ \E s \in Sources : SourceSignal(t, s) \/ SourceInvalidate(t, s)
    \/ \E b \in Blocks : PerformBlock(t, b)
    \/ Stop(t) \/ \E m \in Modes : StopMode(t, m)
    \/ \E s \in Sources, m \in Modes : RemoveSource(t, s, m)
    \/ ClientWakeUp(t) \/ RemoveFromRunLoop(t)

Timers == \E i \in 1..MaxDepth : TimePasses(i) \/ Timeout(i) \/ TimeoutWakeUp(i)

Next ==
    \/ RunnerStep
    \/ \E a \in RunArgs : Run(a)
    \/ \E t \in Clients : Client(t)
    \/ Timers
    \/ \E s \in Sources1 : SendMessage(s)
    \/ DispatchToMain

Spec == Init /\ [][Next]_vars

\* Callouts return, the owning thread runs its loop again, every call that
\* was begun is finished, and timeouts come.
Fairness ==
    /\ WF_vars(RunnerStep)
    /\ WF_vars(runs = <<>> /\ \E a \in BaseRuns : Run(a))
    /\ \A t \in Clients : WF_vars(ClientWakeUp(t) \/ RemoveFromRunLoop(t))
    /\ \A i \in 1..MaxDepth : /\ WF_vars(TimePasses(i) \/ Timeout(i))
                              /\ WF_vars(TimeoutWakeUp(i))

FairSpec == Spec /\ Fairness

-----------------------------------------------------------------------------
(* Properties.                                                             *)

PCs == Activities \cup Unlocked \cup
       {"Start", "Return", "Blocks1", "Blocks2", "Blocks3", "Sources0",
        "PollDispatch", "HandleMsg", "Check"}

\* The values the state of the run loop takes.
TypeOK ==
    /\ Len(runs) <= MaxDepth
    /\ \A i \in DOMAIN runs :
          LET f == runs[i] IN
          /\ f.mode \in Modes /\ {f.pc, f.ret} \subseteq PCs
          /\ f.timeout \in {"never", "armed", "passed", "fired"}
          /\ {f.stopAfterHandle, f.stopped, f.ignoring, f.handled, f.poll,
              f.dispatch, f.didDispatch, f.ranNested} \subseteq BOOLEAN
          /\ f.toFire \subseteq DOMAIN ObservesAt /\ f.toPerform \subseteq Sources0
          /\ f.held \in Seq(Blocks) /\ f.kept \in Seq(Blocks)
          /\ f.call \in Blocks \cup Sources0 \cup DOMAIN ObservesAt \cup {"none"}
          /\ f.live \in {"null", "wake", "main"} \cup Sources1
          /\ f.held \o f.kept # <<>> => f.pc \in {"Blocks", "InBlock"}
          /\ i < Len(runs) => f.pc \in Callouts
    /\ sources \in [Modes -> SUBSET Sources]
    /\ valid \subseteq Sources /\ signaled \subseteq valid
    /\ modeStopped \subseteq Modes
    /\ blocks \in Seq(Blocks) /\ posted \in Seq(Blocks)
    /\ firing \subseteq DOMAIN ObservesAt /\ obsValid \subseteq DOMAIN ObservesAt
    /\ {wakeUpPort, mainPort, mainTasks} \subseteq BOOLEAN
    /\ msgs \subseteq Sources1
    /\ doing \in [Clients -> {Idle, Waking} \cup Sources]
    /\ timerWake \subseteq 1..MaxDepth

\* The loop sleeps and no message will wake it: none waits, no thread is
\* about to send one.
Asleep ==
    /\ At("Wait") /\ ~Top.poll /\ LivePorts = {}
    /\ \A t \in Clients : doing[t] # Waking
    /\ timerWake = {}

\* What a caller of CFRunLoopWakeUp wants the innermost run to see.
HasWork(f) ==
    \/ sources[f.mode] \cap Sources0 \cap signaled # {}
    \/ \E b \in ToSet(blocks) : f.mode \in RunsIn[b]
    \/ f.stopped \/ f.mode \in modeStopped \/ f.timeout = "fired"

\* No wake-up is lost (CFRunLoop.c:2710, 2718): a run that sleeps for good has
\* no signalled source, no block, no stop and no timeout that somebody woke it
\* for, although wake-ups are ignored while it is awake and the port holds a
\* single one.
NoWakeUpLost == Asleep => ~HasWork(Top)

\* The same where it does hold: unless a callout of the pass that went to
\* sleep ran the loop in between and took the message.
SleepsOnlyWhenIdle == Asleep => ~HasWork(Top) \/ Top.ranNested

\* Where block b is: in the list, or taken by activation i and still to be
\* scanned, kept or being called.
InList(b) == b \in ToSet(blocks)
TakenBy(i, b) == b \in ToSet(runs[i].held) \cup ToSet(runs[i].kept)
Called(i, b) == runs[i].pc = "InBlock" /\ runs[i].call = b

\* A block that was queued stays somewhere until it is called, in one place
\* only: taking the list, queueing behind it and putting back the rest neither
\* loses nor doubles a block, whatever runs inside the callouts.
BlocksConserved ==
    [][\A b \in Blocks :
        LET places == {i \in DOMAIN runs' : TakenBy(i, b)' \/ Called(i, b)'} IN
        /\ \A i, j \in places : i = j
        /\ InList(b)' => places = {}
        /\ InList(b) \/ (\E i \in DOMAIN runs : TakenBy(i, b))
             => InList(b)' \/ places # {}]_vars

\* Blocks for one mode are called in the order they were queued; one is only
\* overtaken while an outer activation that is in a callout holds it.
BlocksInOrder ==
    [][\A j \in DOMAIN posted :
        LET d == Len(runs) IN
        (d > 0 /\ ~Called(d, posted[j]) /\ Len(runs') = d /\ Called(d, posted[j])')
        => \A i \in 1..(j - 1) :
             Top.mode \in RunsIn[posted[i]] => ~InList(posted[i]) /\ ~TakenBy(d, posted[i])]_vars

\* No observer is called while it is being called, by an inner run either.
ObserverNotReentered ==
    \A i, j \in DOMAIN runs :
        i # j /\ runs[i].pc = "InObserver" /\ runs[j].pc = "InObserver"
        => runs[i].call # runs[j].call

\* Nor is the main dispatch queue drained inside its own callout, although runs
\* made there serve a common mode too.
MainQueueNotReentered ==
    \A i, j \in DOMAIN runs :
        runs[i].pc = "InMainQueue" /\ runs[j].pc = "InMainQueue" => i = j

Ending(f) == f.pc \in {"Exit", "Return"} \/
             (f.pc \in {"Observers", "InObserver"} /\ f.ret = "Return")

\* CFRunLoopStop ends the run it found: the innermost activation returns, or
\* runs the loop once more inside a callout, in which case its caller decides.
StopReturns ==
    \A i \in 1..MaxDepth :
        (i \in DOMAIN runs /\ runs[i].stopped)
        ~> (i \in DOMAIN runs => Ending(runs[i]) \/ runs[i].ranNested)

\* A signalled source of a mode that the thread keeps running is performed or
\* taken out, unless callouts of the outermost run keep running the loop.
SourceServed ==
    \A s \in Sources0 :
        (s \in signaled /\ \A a \in BaseRuns : s \in sources[a.mode])
        ~> \/ s \notin signaled \/ \E a \in BaseRuns : s \notin sources[a.mode]
           \/ runs # <<>> /\ runs[1].ranNested

\* A run of the loop serves the main queue before it returns, however many
\* messages and wake-ups compete for its passes and whichever of them mach_msg
\* prefers.  A run that is stopped in its first pass may leave the queue alone.
MainQueueServed == (mainTasks /\ runs # <<>>) ~> (~mainTasks \/ runs = <<>>)
=============================================================================
