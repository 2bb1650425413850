--------------------------- MODULE ObjcInitialize ---------------------------
(***************************************************************************)
(* Thread-safe +initialize of objc4-818.2, objc-initialize.mm.             *)
(*                                                                         *)
(* A message to a class that is not initialized enters                     *)
(* initializeNonMetaClass, which recurs: into the superclass, and into     *)
(* whatever classes the +initialize methods send messages to.  The stack   *)
(* of a thread has one frame for each activation.  A section under         *)
(* classInitLock is one step, and so is each read of the flags without it. *)
(*                                                                         *)
(* The process has not forked, so performForkChildInitialize is left out.  *)
(***************************************************************************)
EXTENDS Naturals, Sequences

CONSTANTS
    Threads,
    Classes,
    Super,      \* superclass: class -> class, or nil for a root class
    Sends,      \* class -> the classes its +initialize may send messages to
    Callbacks,  \* what clients pass to _objc_addWillInitializeClassFunc
    nil

\* S has the superclass of c and of each of its own members.
Upward(c, S) == \A e \in S \cup {c} : Super[e] # nil => Super[e] \in S

\* The superclasses of c up to the root: the least such set.
Ancestors == [c \in Classes |->
    {d \in Classes : \A S \in SUBSET Classes : Upward(c, S) => d \in S}]

ASSUME SuperAssumption ==
    /\ nil \notin Classes
    /\ Super \in [Classes -> Classes \cup {nil}]
    /\ Sends \in [Classes -> SUBSET Classes]
    /\ \A c \in Classes : c \notin Ancestors[c]

VARIABLES
    state,          \* the flags of a class: "none", "initializing"
                    \* (CLS_INITIALIZING) or "initialized" (CLS_INITIALIZED)
    initializing,   \* the _objc_initializing_classes of a thread
    pending,        \* pendingInitializeMap: class -> subclasses that finish
                    \* when it does
    stack,          \* the activations of initializeNonMetaClass in a thread
    willInitializeFuncs,  \* the callbacks registered
    toNotify,       \* class list that _objc_addWillInitializeClassFunc still
                    \* has to go through, for each callback
    fatal,          \* a call of _objc_fatal or a failed ASSERT
    started,        \* history: how often +initialize was sent to a class
    notified        \* history: how often a callback was called for a class

vars == <<state, initializing, pending, stack, willInitializeFuncs, toNotify,
          fatal, started, notified>>
registry == <<willInitializeFuncs, toNotify>>

\* An activation: the class, where it is, the copy of the callbacks it has to
\* call, and the classes its +initialize has not messaged yet.
Frame(c) == [cls |-> c, pc |-> "super", funcs |-> {}, todo |-> {}]

Init ==
    /\ state = [c \in Classes |-> "none"]
    /\ initializing = [t \in Threads |-> {}]
    /\ pending = [c \in Classes |-> {}]
    /\ stack = [t \in Threads |-> <<>>]
    /\ willInitializeFuncs = {}
    /\ toNotify = [f \in Callbacks |-> {}]
    /\ fatal = FALSE
    /\ started = [c \in Classes |-> 0]
    /\ notified = [f \in Callbacks |-> [c \in Classes |-> 0]]

-----------------------------------------------------------------------------
(* Frames                                                                  *)

Active(t) == stack[t] # <<>>
Top(t) == stack[t][Len(stack[t])]
Below(t) == SubSeq(stack[t], 1, Len(stack[t]) - 1)
At(t, place) == Active(t) /\ Top(t).pc = place

\* The top frame of t goes on to a place, or becomes another frame, or returns.
Become(t, frame) == stack' = [stack EXCEPT ![t] = Below(t) \o <<frame>>]
Goto(t, place) == Become(t, [Top(t) EXCEPT !.pc = place])
Return(t) == stack' = [stack EXCEPT ![t] = Below(t)]

\* A message to c finds it not initialized: lookUpImpOrForward goes to
\* initializeNonMetaClass.
Enter(t, frame, c) ==
    stack' = [stack EXCEPT ![t] = Below(t) \o <<frame, Frame(c)>>]

-----------------------------------------------------------------------------
(* initializeNonMetaClass                                                  *)

\* A thread outside of all +initialize methods sends a message to c.
Message(t, c) ==
    /\ ~ Active(t)
    /\ state[c] # "initialized"
    /\ stack' = [stack EXCEPT ![t] = <<Frame(c)>>]
    /\ UNCHANGED <<state, initializing, pending, registry, fatal, started, notified>>

\* Mutant: the superclass is left to initialize itself later.
SuperLater(t) ==
    /\ At(t, "super")
    /\ Goto(t, "set")
    /\ UNCHANGED <<state, initializing, pending, registry, fatal, started, notified>>

\* Make sure super is done initializing before beginning to initialize cls.
SuperFirst(t) ==
    /\ At(t, "super")
    /\ LET s == Super[Top(t).cls] IN
       IF s # nil /\ state[s] # "initialized"
       THEN Enter(t, [Top(t) EXCEPT !.pc = "set"], s)
       ELSE Goto(t, "set")
    /\ UNCHANGED <<state, initializing, pending, registry, fatal, started, notified>>

\* Mutant: only CLS_INITIALIZED is tested.
SetInitializingAgain(t) ==
    LET c == Top(t).cls IN
    /\ At(t, "set")
    /\ state[c] # "initialized"
    /\ state' = [state EXCEPT ![c] = "initializing"]
    /\ initializing' = [initializing EXCEPT ![t] = @ \cup {c}]
    /\ Become(t, [Top(t) EXCEPT !.pc = "start", !.funcs = willInitializeFuncs])
    /\ UNCHANGED <<pending, registry, fatal, started, notified>>

\* Try to atomically set CLS_INITIALIZING, and take a copy of the callbacks.
SetInitializing(t) ==
    LET c == Top(t).cls IN
    /\ At(t, "set")
    /\ state[c] = "none"
    /\ state' = [state EXCEPT ![c] = "initializing"]
    /\ initializing' = [initializing EXCEPT ![t] = @ \cup {c}]
    /\ fatal' = (fatal \/ c \in initializing[t])
    /\ Become(t, [Top(t) EXCEPT !.pc = "start", !.funcs = willInitializeFuncs])
    /\ UNCHANGED <<pending, registry, started, notified>>

AlreadySet(t) ==
    /\ At(t, "set")
    /\ state[Top(t).cls] # "none"
    /\ Goto(t, "test")
    /\ UNCHANGED <<state, initializing, pending, registry, fatal, started, notified>>

\* Call the callbacks, then +initialize; that message enters here again.
CallInitialize(t) ==
    LET c == Top(t).cls IN
    /\ At(t, "start")
    /\ notified' = [f \in Callbacks |->
                      IF f \in Top(t).funcs THEN [notified[f] EXCEPT ![c] = @ + 1]
                      ELSE notified[f]]
    /\ started' = [started EXCEPT ![c] = @ + 1]
    /\ Enter(t, [Top(t) EXCEPT !.pc = "body", !.funcs = {}, !.todo = Sends[c]], c)
    /\ UNCHANGED <<state, initializing, pending, registry, fatal>>

\* +initialize sends a message to a class.
SendMessage(t) ==
    /\ At(t, "body")
    /\ \E d \in Top(t).todo :
       LET frame == [Top(t) EXCEPT !.todo = @ \ {d}] IN
       IF state[d] = "initialized" THEN Become(t, frame) ELSE Enter(t, frame, d)
    /\ UNCHANGED <<state, initializing, pending, registry, fatal, started, notified>>

\* CLS_INITIALIZING was set already: by this thread ...
IsInitializing(t) ==
    LET c == Top(t).cls IN
    /\ At(t, "test")
    /\ state[c] = "initializing"
    /\ IF c \in initializing[t] THEN Return(t) ELSE Goto(t, "wait")
    /\ UNCHANGED <<state, initializing, pending, registry, fatal, started, notified>>

\* ... or by another that has finished since.
NotInitializing(t) ==
    /\ At(t, "test")
    /\ state[Top(t).cls] # "initializing"
    /\ Goto(t, "retest")
    /\ UNCHANGED <<state, initializing, pending, registry, fatal, started, notified>>

IsInitialized(t) ==
    /\ At(t, "retest")
    /\ fatal' = (fatal \/ state[Top(t).cls] # "initialized")
    /\ Return(t)
    /\ UNCHANGED <<state, initializing, pending, registry, started, notified>>

\* waitForInitializeToComplete: test and wait are one section.
WaitForInitialize(t) ==
    /\ At(t, "wait")
    /\ IF state[Top(t).cls] = "initialized" THEN Return(t) ELSE Goto(t, "waiting")
    /\ UNCHANGED <<state, initializing, pending, registry, fatal, started, notified>>

-----------------------------------------------------------------------------
(* lockAndFinishInitializing                                               *)

\* Mutant: the pending subclasses are not marked.
FinishedAlone(c) == {c}

\* The classes that _finishInitializing(c) marks: c, and every subclass that is
\* pending for a class it marks.
Finished(c) == {d \in Classes :
    \/ d = c
    \/ /\ c \in Ancestors[d]
       /\ \A e \in {d} \cup Ancestors[d] :
              c \in Ancestors[e] => e \in pending[Super[e]]}

\* Mutant: the waiters are not woken.
NotifyNobody(s) == s

\* classInitLock.notifyAll(): whoever waits tests again.
NotifyAll(s) == [t \in Threads |->
    IF s[t] # <<>> /\ s[t][Len(s[t])].pc = "waiting"
    THEN [s[t] EXCEPT ![Len(s[t])].pc = "wait"] ELSE s[t]]

\* Mutant: a class does not wait for its superclass.
FinishAtOnce(t, rest) ==
    LET c == Top(t).cls IN
    /\ state' = [d \in Classes |-> IF d \in Finished(c) THEN "initialized" ELSE state[d]]
    /\ initializing' = [initializing EXCEPT ![t] = @ \ Finished(c)]
    /\ pending' = [d \in Classes |-> IF d \in Finished(c) THEN {} ELSE pending[d]]
    /\ stack' = NotifyAll([stack EXCEPT ![t] = rest])
    /\ UNCHANGED fatal

\* The body of +initialize is over and the frames of t become rest.
Finish(t, rest) ==
    LET c == Top(t).cls
        s == Super[c] IN
    IF s = nil \/ state[s] = "initialized"
    THEN /\ state' = [d \in Classes |->
                        IF d \in Finished(c) THEN "initialized" ELSE state[d]]
         /\ initializing' = [initializing EXCEPT ![t] = @ \ Finished(c)]
         /\ fatal' = (fatal \/ ~ Finished(c) \subseteq initializing[t])
         /\ pending' = [d \in Classes |->
                          IF d \in Finished(c) THEN {} ELSE pending[d]]
         /\ stack' = NotifyAll([stack EXCEPT ![t] = rest])
    ELSE /\ pending' = [pending EXCEPT ![s] = @ \cup {c}]
         /\ stack' = [stack EXCEPT ![t] = rest]
         /\ UNCHANGED <<state, initializing, fatal>>

\* +initialize returns ...
InitializeReturns(t) ==
    /\ At(t, "body")
    /\ Finish(t, Below(t))
    /\ UNCHANGED <<registry, started, notified>>

\* ... or throws an exception: that too is a complete +initialize.  The frames
\* below go as well, up to a +initialize method that may catch it.
Bodies(t) == {i \in DOMAIN Below(t) : Below(t)[i].pc = "body"}
InitializeThrows(t) ==
    /\ At(t, "body")
    /\ Finish(t, IF Bodies(t) = {} THEN <<>>
                 ELSE SubSeq(Below(t), 1, CHOOSE i \in Bodies(t) :
                                              \A j \in Bodies(t) : j <= i))
    /\ UNCHANGED <<registry, started, notified>>

-----------------------------------------------------------------------------
(* _objc_addWillInitializeClassFunc                                        *)

\* Mutant: the classes that have begun, but not finished, are left out.
AddForInitialized(f) ==
    /\ f \notin willInitializeFuncs
    /\ willInitializeFuncs' = willInitializeFuncs \cup {f}
    /\ toNotify' = [toNotify EXCEPT ![f] =
                       {c \in Classes : state[c] = "initialized"}]
    /\ UNCHANGED <<state, initializing, pending, stack, fatal, started, notified>>

\* Under classInitLock: register the callback, and list the classes for which
\* it is too late to be called before they begin.
AddWillInitializeFunc(f) ==
    /\ f \notin willInitializeFuncs
    /\ willInitializeFuncs' = willInitializeFuncs \cup {f}
    /\ toNotify' = [toNotify EXCEPT ![f] = {c \in Classes : state[c] # "none"}]
    /\ UNCHANGED <<state, initializing, pending, stack, fatal, started, notified>>

\* Without it: call the callback for each of them.
NotifyExisting(f) ==
    /\ \E c \in toNotify[f] :
       /\ notified' = [notified EXCEPT ![f][c] = @ + 1]
       /\ toNotify' = [toNotify EXCEPT ![f] = @ \ {c}]
    /\ UNCHANGED <<state, initializing, pending, stack, willInitializeFuncs,
                   fatal, started>>

-----------------------------------------------------------------------------

Step(t) ==
    \/ SuperFirst(t) \/ SetInitializing(t) \/ AlreadySet(t)
    \/ CallInitialize(t) \/ SendMessage(t)
    \/ IsInitializing(t) \/ NotInitializing(t) \/ IsInitialized(t)
    \/ WaitForInitialize(t)
    \/ InitializeReturns(t) \/ InitializeThrows(t)

Next ==
    /\ ~ fatal
    /\ \/ \E t \in Threads : Step(t) \/ \E c \in Classes : Message(t, c)
       \/ \E f \in Callbacks : AddWillInitializeFunc(f) \/ NotifyExisting(f)

Spec == Init /\ [][Next]_vars

\* A thread inside the runtime or inside a +initialize method runs on.
FairSpec == Spec /\ \A t \in Threads : WF_vars(Step(t))

-----------------------------------------------------------------------------
(* Properties                                                              *)

Places == {"super", "set", "start", "body", "test", "retest", "wait", "waiting"}
Frames == [cls : Classes, pc : Places, funcs : SUBSET Callbacks, todo : SUBSET Classes]

TypeOK ==
    /\ state \in [Classes -> {"none", "initializing", "initialized"}]
    /\ initializing \in [Threads -> SUBSET Classes]
    /\ pending \in [Classes -> SUBSET Classes]
    /\ stack \in [Threads -> Seq(Frames)]
    /\ willInitializeFuncs \subseteq Callbacks
    /\ toNotify \in [Callbacks -> SUBSET Classes]
    /\ fatal \in BOOLEAN
    /\ started \in [Classes -> Nat]
    /\ notified \in [Callbacks -> [Classes -> Nat]]

\* None of the _objc_fatal calls is reached: the flags change between the reads
\* without the lock only in the order that the code's comment relies on, and
\* who finishes a class, pending ones included, is the thread that began it.
NoFatal == ~ fatal

\* +initialize is sent at most once for each class, by one thread, and a class
\* is in the list of exactly one thread as long as it is being initialized.
InitializeOnce ==
    \A c \in Classes :
        /\ started[c] <= 1
        /\ (state[c] = "initializing") = (\E t \in Threads : c \in initializing[t])
        /\ \A t, u \in Threads :
               c \in initializing[t] /\ c \in initializing[u] => t = u

\* objc-initialize.mm:87, "the initializing+initialized part of the class
\* hierarchy will be a contiguous subtree starting at the root"; and within
\* it, nothing is initialized below something that is not.
ContiguousSubtree ==
    \A c \in Classes : Super[c] # nil =>
        /\ state[c] # "none" => state[Super[c]] # "none"
        /\ state[c] = "initialized" => state[Super[c]] = "initialized"

\* A thread begins a class only when the superclass is done, or is one that it
\* is initializing itself.
SuperclassFirst ==
    \A t \in Threads : \A c \in initializing[t] :
        Super[c] # nil =>
            state[Super[c]] = "initialized" \/ Super[c] \in initializing[t]

\* A class whose +initialize is over is never forgotten: as long as it is not
\* marked it is pending for a superclass that is still being initialized.
InBody(c) == \E t \in Threads : \E i \in DOMAIN stack[t] :
    stack[t][i].cls = c /\ stack[t][i].pc \in {"start", "body"}
PendingExact ==
    \A c \in Classes :
        (state[c] = "initializing" /\ ~ InBody(c)) =
            (Super[c] # nil /\ c \in pending[Super[c]])

\* The runtime lets a message of t to c through: initializeNonMetaClass returns,
\* or c is found initialized by a read without any lock, which any thread may
\* make at any moment (objc-runtime-new.mm:2196, 6330).
LetThrough(t, c) ==
    \/ Len(stack'[t]) < Len(stack[t]) /\ Top(t).cls = c
    \/ state[c] = "initialized"

\* Each +initialize method that has to precede a message to c, that of c and
\* those of all superclasses, is over, or is the business of thread t itself.
InitializedFor(t, c) ==
    \A d \in {c} \cup Ancestors[c] :
        \/ state[d] = "initialized" /\ ~ InBody(d)
        \/ d \in initializing[t]

\* When a message is let through, by whichever way and although another thread
\* may be parking, finishing or unwinding classes of the same hierarchy, the
\* class is ready for it.
DoneMeansUsable ==
    [][\A t \in Threads, c \in Classes :
           LetThrough(t, c) => InitializedFor(t, c)']_vars

\* A callback is called once for each class that begins, whether it was
\* registered before, in the middle or after.
AboutToNotify(f, c) == \E t \in Threads : \E i \in DOMAIN stack[t] :
    stack[t][i].cls = c /\ stack[t][i].pc = "start" /\ f \in stack[t][i].funcs
NotifiedOnce ==
    \A f \in willInitializeFuncs, c \in Classes :
        notified[f][c] + (IF c \in toNotify[f] THEN 1 ELSE 0) =
        IF state[c] = "none" \/ AboutToNotify(f, c) THEN 0 ELSE 1

\* t waits, directly or not, for threads that all wait for each other.
WaitsInCircle(t, S) ==
    /\ t \in S
    /\ \A x \in S : At(x, "waiting") /\ \E u \in S : Top(x).cls \in initializing[u]

\* A +initialize method on the stack of t messages a class other than its own
\* and its subclasses.
MessagesAcross(t) ==
    \E i \in 1..(Len(stack[t]) - 1) :
        /\ stack[t][i].pc = "body"
        /\ stack[t][i].cls \notin {stack[t][i + 1].cls} \cup Ancestors[stack[t][i + 1].cls]

\* Every thread returns from the runtime, unless it waits in a circle of
\* threads and one of them got there by a message from a +initialize method up
\* or across the hierarchy: the superclass deadlock of objc-initialize.mm:61 is
\* solved, and nothing else makes a thread wait forever.
AllReturn ==
    \A t \in Threads :
        Active(t) ~> \/ ~ Active(t)
                     \/ \E S \in SUBSET Threads :
                           WaitsInCircle(t, S) /\ \E x \in S : MessagesAcross(x)

=============================================================================
