-------------------------- MODULE CFRunLoopProofs --------------------------
(***************************************************************************)
(* Theorems about CFRunLoop, for any modes, sources, blocks, observers,    *)
(* clients and depth of runs: its types; the main dispatch queue and the   *)
(* observers are not called inside their own callouts; a block that was    *)
(* queued is in one place until it is called, in the order of its mode;    *)
(* and the loop sleeps only when it has nothing to do.                     *)
(***************************************************************************)
EXTENDS CFRunLoop, TLAPS

Fields == {"mode", "stopAfterHandle", "timeout", "stopped", "ignoring", "pc", "ret", "call",
           "toFire", "toPerform", "held", "kept", "handled", "poll", "live", "dispatch",
           "didDispatch", "ranNested"}

\* Places that no callout and no other pass of observers comes back to.
NotReturnedTo == {"InMainQueue", "Blocks", "InBlock", "InObserver"}

USE DEF NotReturnedTo

\* The stack of runs: a run below another is in a callout.
Stack ==
    /\ \E S : runs \in Seq(S)
    /\ \A i \in 1..Len(runs) : DOMAIN runs[i] = Fields
    /\ \A i \in 1..Len(runs) : i < Len(runs) => runs[i].pc \in Callouts

\* A run that serves the main queue's port has none in the queue's callout
\* below it; only such a run receives the port's message and makes the callout.
MainQueue ==
    /\ \A i, j \in 1..Len(runs) :
           i < j /\ runs[j].dispatch => runs[i].pc # "InMainQueue"
    /\ \A i \in 1..Len(runs) :
           runs[i].live = "main" \/ runs[i].pc = "InMainQueue" => runs[i].dispatch
    /\ \A i \in 1..Len(runs) : runs[i].ret \notin NotReturnedTo

IInv == Stack /\ MainQueue

\* Messages of version 1 sources are not mistaken for the main queue's.
Messages == msgs \subseteq Sources1

-----------------------------------------------------------------------------
(* How the stack of runs changes.                                          *)

LEMMA TopOfStack ==
    ASSUME Stack, runs # <<>>
    PROVE  /\ Len(runs) \in Nat /\ Len(runs) \in 1..Len(runs)
           /\ DOMAIN Top = Fields
BY DEF Stack, Top

\* The innermost run becomes f.
LEMMA TopBecomes ==
    ASSUME IInv, runs # <<>>, NEW f, SetTop(f)
    PROVE  /\ Top' = f /\ Len(runs') = Len(runs) /\ runs' # <<>>
           /\ \A i \in 1..Len(runs) : i < Len(runs) => runs'[i] = runs[i]
PROOF
<1> PICK S : runs \in Seq(S) BY DEF IInv, Stack
<1>1. Len(runs) \in Nat /\ Len(runs) > 0 /\ runs' = [runs EXCEPT ![Len(runs)] = f]
    BY DEF SetTop
<1>2. runs' \in Seq(S \cup {f}) /\ Len(runs') = Len(runs) BY <1>1
<1>3. \A i \in 1..Len(runs) : runs'[i] = IF i = Len(runs) THEN f ELSE runs[i] BY <1>1
<1>4. runs'[Len(runs')] = f BY <1>1, <1>2, <1>3
<1>5. \A i \in 1..Len(runs) : i < Len(runs) => runs'[i] = runs[i] BY <1>1, <1>3
<1>6. runs' # <<>> BY <1>1, <1>2
<1> QED BY <1>2, <1>4, <1>5, <1>6 DEF Top

LEMMA TopChanges ==
    ASSUME IInv, runs # <<>>, NEW f, DOMAIN f = Fields, SetTop(f),
           f.live = "main" \/ f.pc = "InMainQueue" => f.dispatch,
           f.dispatch => Top.dispatch \/ DispatchQSafe,
           f.ret \notin NotReturnedTo
    PROVE  IInv'
PROOF
<1> PICK S : runs \in Seq(S) BY DEF IInv, Stack
<1>0. DOMAIN runs = 1..Len(runs) OBVIOUS
<1>1. Len(runs) \in Nat /\ Len(runs) > 0 OBVIOUS
<1>2. runs' \in Seq(S \cup {f}) /\ Len(runs') = Len(runs) BY <1>1 DEF SetTop
<1>3. \A i \in 1..Len(runs) : runs'[i] = IF i = Len(runs) THEN f ELSE runs[i]
    BY <1>1 DEF SetTop
<1>4. Stack'
    <2>1. \A i \in 1..Len(runs') : DOMAIN runs'[i] = Fields
        BY <1>1, <1>2, <1>3 DEF IInv, Stack
    <2>2. \A i \in 1..Len(runs') : i < Len(runs') => runs'[i].pc \in Callouts
        <3> SUFFICES ASSUME NEW i \in 1..Len(runs), i < Len(runs)
                     PROVE  runs'[i].pc \in Callouts
            BY <1>2
        <3>1. runs'[i] = runs[i] BY <1>1, <1>3
        <3> QED BY <3>1 DEF IInv, Stack
    <2> QED BY <1>2, <2>1, <2>2 DEF Stack
<1>5. f.dispatch => \A i \in 1..Len(runs) : i < Len(runs) => runs[i].pc # "InMainQueue"
    BY <1>0, <1>1 DEF IInv, MainQueue, DispatchQSafe, Top
<1>6. MainQueue'
    <2>1. \A i, j \in 1..Len(runs') :
              i < j /\ runs'[j].dispatch => runs'[i].pc # "InMainQueue"
        <3> SUFFICES ASSUME NEW i \in 1..Len(runs), NEW j \in 1..Len(runs),
                            i < j, runs'[j].dispatch
                     PROVE  runs'[i].pc # "InMainQueue"
            BY <1>2
        <3>1. runs'[i] = runs[i] /\ i < Len(runs) BY <1>1, <1>3
        <3>2. CASE j = Len(runs) BY <1>1, <1>3, <1>5, <3>1, <3>2
        <3>3. CASE j # Len(runs)
            <4>1. runs'[j] = runs[j] BY <1>3, <3>3
            <4> QED BY <3>1, <4>1 DEF IInv, MainQueue
        <3> QED BY <3>2, <3>3
    <2>2. \A i \in 1..Len(runs') : runs'[i].live = "main" \/ runs'[i].pc = "InMainQueue"
                                   => runs'[i].dispatch
        BY <1>1, <1>2, <1>3 DEF IInv, MainQueue
    <2>3. \A i \in 1..Len(runs') : runs'[i].ret \notin NotReturnedTo
        BY <1>1, <1>2, <1>3 DEF IInv, MainQueue
    <2> QED BY <2>1, <2>2, <2>3 DEF MainQueue
<1> QED BY <1>4, <1>6 DEF IInv

\* The same, when f receives nothing from the main queue's port.
Quiet(f) ==
    /\ DOMAIN f = Fields /\ f.dispatch = Top.dispatch
    /\ f.live = Top.live \/ f.live # "main"
    /\ f.pc = Top.pc \/ f.pc # "InMainQueue"
    /\ f.ret \notin NotReturnedTo

LEMMA QuietChange ==
    ASSUME IInv, runs # <<>>, NEW f, Quiet(f), SetTop(f)
    PROVE  IInv'
PROOF
<1>1. Top.live = "main" \/ Top.pc = "InMainQueue" => Top.dispatch
    BY TopOfStack DEF IInv, MainQueue, Top
<1> QED BY <1>1, TopChanges DEF Quiet

\* A run begins, on the empty stack or in a callout.
LEMMA RunStep ==
    ASSUME IInv, NEW a \in RunArgs, Run(a) PROVE IInv'
PROOF
<1> DEFINE f == Activation(a)
<1>1. DOMAIN f = Fields /\ f.pc = "Entry" /\ f.live = "null" /\ f.dispatch = FALSE
      /\ f.ret = "Entry"
    BY DEF Activation, Fields
<1> HIDE DEF f
<1>2. CASE runs = <<>> /\ runs' = <<f>>
    <2>1. runs' \in Seq({f}) /\ Len(runs') = 1 /\ runs'[1] = f BY <1>2
    <2>2. Stack' BY <1>1, <2>1 DEF Stack
    <2>3. MainQueue' BY <1>1, <2>1 DEF MainQueue
    <2> QED BY <2>2, <2>3 DEF IInv
<1>3. CASE /\ runs # <<>> /\ Top.pc \in NestIn
           /\ runs' = Append([runs EXCEPT ![Len(runs)].ranNested = TRUE], f)
    <2> DEFINE g == [runs[Len(runs)] EXCEPT !.ranNested = TRUE]
               n == Len(runs)
    <2> PICK S : runs \in Seq(S) BY DEF IInv, Stack
    <2>1. n \in Nat /\ n > 0 /\ runs' = Append([runs EXCEPT ![n] = g], f) BY <1>3
    <2>2. DOMAIN g = Fields /\ g.pc = Top.pc /\ g.live = Top.live /\ g.dispatch = Top.dispatch
          /\ g.ret = Top.ret
        BY <1>3, TopOfStack DEF IInv, Fields, Top
    <2> HIDE DEF g
    <2>3. [runs EXCEPT ![n] = g] \in Seq(S \cup {g}) /\ Len([runs EXCEPT ![n] = g]) = n
        BY <2>1
    <2>4. runs' \in Seq(S \cup {f, g}) /\ Len(runs') = n + 1 BY <2>1, <2>3
    <2>5. \A i \in 1..Len(runs') :
              runs'[i] = IF i = n + 1 THEN f ELSE IF i = n THEN g ELSE runs[i]
        <3> DEFINE r == [runs EXCEPT ![n] = g]
        <3>1. \A i \in 1..n : r[i] = IF i = n THEN g ELSE runs[i] BY <2>1
        <3> HIDE DEF r
        <3>2. runs' = Append(r, f) /\ r \in Seq(S \cup {g}) /\ Len(r) = n BY <2>1, <2>3 DEF r
        <3>3. \A i \in 1..(n + 1) : runs'[i] = IF i = n + 1 THEN f ELSE r[i] BY <2>1, <3>2
        <3> QED BY <2>1, <2>4, <3>1, <3>3
    <2>6. g.pc \in Callouts BY <1>3, <2>2, RunLoopAssumption DEF RunLoopAssumption
    <2>7. Stack'
        <3>1. \A i \in 1..Len(runs') : DOMAIN runs'[i] = Fields
            BY <1>1, <2>1, <2>2, <2>4, <2>5 DEF IInv, Stack
        <3>2. \A i \in 1..Len(runs') : i < Len(runs') => runs'[i].pc \in Callouts
            BY <2>1, <2>4, <2>5, <2>6 DEF IInv, Stack
        <3> QED BY <2>4, <3>1, <3>2 DEF Stack
    <2>8. MainQueue'
        <3>1. \A i \in 1..n : /\ runs'[i].pc = runs[i].pc /\ runs'[i].live = runs[i].live
                              /\ runs'[i].dispatch = runs[i].dispatch
                              /\ runs'[i].ret = runs[i].ret
            BY <2>1, <2>2, <2>4, <2>5 DEF Top
        <3> QED BY <1>1, <2>1, <2>4, <2>5, <3>1 DEF IInv, MainQueue
    <2> QED BY <2>7, <2>8 DEF IInv
<1> QED BY <1>2, <1>3 DEF Run, f

\* The innermost run returns.
LEMMA ReturnStep ==
    ASSUME IInv, Return PROVE IInv'
PROOF
<1> PICK S : runs \in Seq(S) BY DEF IInv, Stack
<1>1. runs # <<>> /\ runs' = Front(runs) BY DEF Return, At
<1> DEFINE n == Len(runs) - 1
<1>2. runs' = SubSeq(runs, 1, n) BY <1>1 DEF Front
<1>n. n \in Nat /\ Len(runs) = n + 1 BY <1>1
<1>r. \A i \in 1..n : runs[i] \in S BY <1>n
<1> HIDE DEF n
<1>3. runs' \in Seq(S) /\ Len(runs') = n
    <2>1. SubSeq(runs, 1, n) \in Seq(S) BY <1>n, <1>r
    <2>2. Len(SubSeq(runs, 1, n)) = n BY <1>n, <1>r
    <2> QED BY <2>1, <2>2, <1>2
<1>4. \A i \in 1..Len(runs') : runs'[i] = runs[i] BY <1>2, <1>3, <1>n
<1>5. Stack' BY <1>3, <1>4, <1>n DEF IInv, Stack
<1>6. MainQueue' BY <1>3, <1>4, <1>n DEF IInv, MainQueue
<1> QED BY <1>5, <1>6 DEF IInv

-----------------------------------------------------------------------------
(* The steps of a pass that leave the main queue alone.                    *)

\* f is the innermost run but for fields of no interest here and a place
\* outside the main queue's callout.
LEMMA QuietObservers ==
    ASSUME Stack, runs # <<>>, NEW f, Quiet(f), NEW activity, NEW ret,
           ret \notin NotReturnedTo
    PROVE  Quiet(DoObservers(f, activity, ret))
BY DEF DoObservers, Quiet, Fields

LEMMA Innermost ==
    ASSUME IInv, runs # <<>>
    PROVE  DOMAIN Top = Fields /\ Top.ret \notin NotReturnedTo
BY TopOfStack DEF IInv, MainQueue, Top

LEMMA ObserverSteps ==
    ASSUME IInv,
           \/ Notify("Entry", "Start") \/ Notify("Exit", "Return")
           \/ Notify("BeforeTimers", "BeforeSources") \/ Notify("BeforeSources", "Blocks1")
           \/ \E o \in DOMAIN ObservesAt : FireObserver(o)
           \/ ObserverReturns \/ ObserversDone
    PROVE  IInv'
PROOF
<1>1. ASSUME NEW activity, NEW ret, ret \notin NotReturnedTo, Notify(activity, ret)
      PROVE  IInv'
    <2>1. Quiet(Top) BY <1>1, Innermost DEF Notify, At, Quiet
    <2>2. Quiet(DoObservers(Top, activity, ret))
        BY <1>1, <2>1, QuietObservers DEF Notify, At, IInv
    <2> QED BY <1>1, <2>2, QuietChange DEF Notify, At
<1>2. CASE \E o \in DOMAIN ObservesAt : FireObserver(o)
    <2> PICK o \in DOMAIN ObservesAt : FireObserver(o) BY <1>2
    <2> DEFINE f == [Top EXCEPT !.pc = "InObserver", !.call = o, !.toFire = @ \ {o}]
               g == [Top EXCEPT !.toFire = @ \ {o}]
    <2>1. runs # <<>> /\ (SetTop(f) \/ SetTop(g)) BY DEF FireObserver, At
    <2>2. Quiet(f) /\ Quiet(g) BY <2>1, Innermost DEF Quiet, Fields
    <2> HIDE DEF f, g
    <2> QED BY <2>1, <2>2, QuietChange
<1>3. CASE ObserverReturns \/ ObserversDone
    <2> DEFINE f == [Top EXCEPT !.pc = "Observers", !.call = "none"]
               g == [Top EXCEPT !.pc = Top.ret]
    <2>1. runs # <<>> /\ (SetTop(f) \/ SetTop(g)) BY <1>3 DEF ObserverReturns, ObserversDone, At
    <2>2. Quiet(f) /\ Quiet(g) BY <2>1, Innermost DEF Quiet, Fields
    <2> HIDE DEF f, g
    <2> QED BY <2>1, <2>2, QuietChange
<1> QED BY <1>1, <1>2, <1>3

LEMMA BlockSteps ==
    ASSUME IInv,
           \/ DoBlocks("Blocks1", "Sources0") \/ DoBlocks("Blocks2", "PollDispatch")
           \/ DoBlocks("Blocks3", "Check")
           \/ ScanBlock \/ BlockReturns
    PROVE  IInv'
PROOF
<1>1. ASSUME NEW pc, NEW ret, ret \notin NotReturnedTo, DoBlocks(pc, ret)
      PROVE  IInv'
    <2> DEFINE f == [Top EXCEPT !.pc = ret]
               g == [Top EXCEPT !.pc = "Blocks", !.ret = ret, !.held = blocks]
    <2>1. runs # <<>> /\ (SetTop(f) \/ SetTop(g)) BY <1>1 DEF DoBlocks, At
    <2>2. Quiet(f) /\ Quiet(g) BY <1>1, <2>1, Innermost DEF Quiet, Fields
    <2> HIDE DEF f, g
    <2> QED BY <2>1, <2>2, QuietChange
<1>2. CASE ScanBlock
    <2> DEFINE f == [Top EXCEPT !.pc = Top.ret, !.kept = <<>>]
               g == [Top EXCEPT !.pc = "InBlock", !.call = Head(Top.held), !.held = Tail(@)]
               h == [Top EXCEPT !.kept = Append(@, Head(Top.held)), !.held = Tail(@)]
    <2>1. runs # <<>> /\ (SetTop(f) \/ SetTop(g) \/ SetTop(h))
        BY <1>2 DEF ScanBlock, Scanned, At
    <2>2. Quiet(f) /\ Quiet(g) /\ Quiet(h) BY <2>1, Innermost DEF Quiet, Fields
    <2> HIDE DEF f, g, h
    <2> QED BY <2>1, <2>2, QuietChange
<1>3. CASE BlockReturns
    <2> DEFINE f == [Top EXCEPT !.pc = "Blocks", !.call = "none"]
    <2>1. runs # <<>> /\ (SetTop(f)) BY <1>3 DEF BlockReturns, At
    <2>2. Quiet(f) BY <2>1, Innermost DEF Quiet, Fields
    <2> HIDE DEF f
    <2> QED BY <2>1, <2>2, QuietChange
<1> QED BY <1>1, <1>2, <1>3

LEMMA SourceSteps ==
    ASSUME IInv,
           \/ CollectSources0 \/ Source0Returns \/ SourcesDone
           \/ \E s \in Sources0 : PerformSource0(s)
           \/ PerformSource1 \/ Source1Returns
    PROVE  IInv'
PROOF
<1>1. CASE CollectSources0
    <2> DEFINE f == [Top EXCEPT !.pc = "PollDispatch", !.toPerform = {}]
               C == sources[Top.mode] \cap Sources0 \cap valid \cap signaled
               g == [Top EXCEPT !.pc = "Sources", !.toPerform = C]
    <2>1. runs # <<>> /\ (SetTop(f) \/ SetTop(g)) BY <1>1 DEF CollectSources0, At
    <2>2. Quiet(f) /\ Quiet(g) BY <2>1, Innermost DEF Quiet, Fields
    <2> HIDE DEF f, g
    <2> QED BY <2>1, <2>2, QuietChange
<1>2. CASE Source0Returns
    <2> DEFINE f == [Top EXCEPT !.pc = "Sources", !.call = "none", !.handled = TRUE]
    <2>1. runs # <<>> /\ (SetTop(f)) BY <1>2 DEF Source0Returns, At
    <2>2. Quiet(f) BY <2>1, Innermost DEF Quiet, Fields
    <2> HIDE DEF f
    <2> QED BY <2>1, <2>2, QuietChange
<1>3. CASE SourcesDone
    <2> DEFINE f == [Top EXCEPT !.toPerform = {}, !.pc = "Blocks2"]
               g == [Top EXCEPT !.toPerform = {}, !.pc = "PollDispatch"]
    <2>1. runs # <<>> /\ (SetTop(f) \/ SetTop(g)) BY <1>3 DEF SourcesDone, At
    <2>2. Quiet(f) /\ Quiet(g) BY <2>1, Innermost DEF Quiet, Fields
    <2> HIDE DEF f, g
    <2> QED BY <2>1, <2>2, QuietChange
<1>4. ASSUME NEW s \in Sources0, PerformSource0(s) PROVE IInv'
    <2> DEFINE f == [Top EXCEPT !.pc = "InSource0", !.call = s, !.toPerform = @ \ {s}]
               g == [Top EXCEPT !.toPerform = @ \ {s}]
    <2>1. runs # <<>> /\ (SetTop(f) \/ SetTop(g)) BY <1>4 DEF PerformSource0, At
    <2>2. Quiet(f) /\ Quiet(g) BY <2>1, Innermost DEF Quiet, Fields
    <2> HIDE DEF f, g
    <2> QED BY <2>1, <2>2, QuietChange
<1>5. CASE PerformSource1
    <2> DEFINE f == [Top EXCEPT !.pc = "InSource1"]
               g == [Top EXCEPT !.pc = "Blocks3", !.live = "null"]
    <2>1. runs # <<>> /\ (SetTop(f) \/ SetTop(g)) BY <1>5 DEF PerformSource1, At
    <2>2. Quiet(f) /\ Quiet(g) BY <2>1, Innermost DEF Quiet, Fields
    <2> HIDE DEF f, g
    <2> QED BY <2>1, <2>2, QuietChange
<1>6. CASE Source1Returns
    <2> DEFINE f == [Top EXCEPT !.pc = "Blocks3", !.live = "null", !.handled = TRUE]
    <2>1. runs # <<>> /\ (SetTop(f)) BY <1>6 DEF Source1Returns, At
    <2>2. Quiet(f) BY <2>1, Innermost DEF Quiet, Fields
    <2> HIDE DEF f
    <2> QED BY <2>1, <2>2, QuietChange
<1> QED BY <1>1, <1>2, <1>3, <1>4, <1>5, <1>6

-----------------------------------------------------------------------------
(* The steps of a pass that wait for messages and handle them.             *)

\* A pass begins with no message in hand.
LEMMA QuietPass ==
    ASSUME IInv, runs # <<>>
    PROVE  /\ DOMAIN NewPass(Top) = Fields /\ NewPass(Top).dispatch = Top.dispatch
           /\ NewPass(Top).live = "null" /\ NewPass(Top).pc = "BeforeTimers"
           /\ NewPass(Top).ret = Top.ret
BY Innermost DEF NewPass, Fields

\* The main queue's port is chosen while nobody is in its callout.
LEMMA StartStep == ASSUME IInv, Start PROVE IInv'
PROOF
<1> DEFINE f == [Top EXCEPT !.pc = "Exit", !.stopped = FALSE]
           n == NewPass(Top)
           g == [n EXCEPT !.dispatch = ServesMainQueue(Top.mode)]
<1>1. runs # <<>> /\ (SetTop(f) \/ SetTop(g)) BY DEF Start, At
<1>2. Quiet(f) BY <1>1, Innermost DEF Quiet, Fields
<1>3. /\ DOMAIN n = Fields /\ n.live = "null" /\ n.pc = "BeforeTimers"
      /\ n.ret \notin NotReturnedTo
    BY <1>1, QuietPass, Innermost
<1> HIDE DEF n
<1>4. /\ DOMAIN g = Fields /\ g.dispatch = ServesMainQueue(Top.mode)
      /\ g.live = "null" /\ g.pc = "BeforeTimers" /\ g.ret \notin NotReturnedTo
    BY <1>3 DEF Fields
<1> HIDE DEF f, g
<1>5. CASE SetTop(f) BY <1>1, <1>2, <1>5, QuietChange
<1>6. CASE SetTop(g)
    <2>1. g.dispatch => DispatchQSafe BY <1>4 DEF ServesMainQueue
    <2> QED BY <1>1, <1>4, <1>6, <2>1, TopChanges
<1> QED BY <1>1, <1>5, <1>6

LEMMA CheckStep == ASSUME IInv, Check PROVE IInv'
PROOF
<1> DEFINE f == [Top EXCEPT !.pc = "Exit"]
           g == [f EXCEPT !.stopped = FALSE]
           n == NewPass(Top)
<1>1. runs # <<>> /\ (SetTop(f) \/ SetTop(g) \/ SetTop(n)) BY DEF Check, At
<1>2. Quiet(f) /\ Quiet(g) BY <1>1, Innermost DEF Quiet, Fields
<1>3. Quiet(n) BY <1>1, QuietPass, Innermost DEF Quiet
<1> HIDE DEF f, g, n
<1> QED BY <1>1, <1>2, <1>3, QuietChange

\* The message taken from the main queue's port is for a run that serves it.
LEMMA PollDispatchStep == ASSUME IInv, PollDispatch PROVE IInv'
PROOF
<1> DEFINE f == [Top EXCEPT !.poll = Top.handled \/ Top.timeout = "fired"]
           g == [f EXCEPT !.pc = "HandleMsg", !.live = "main"]
           h == [f EXCEPT !.pc = "BeforeWaiting", !.didDispatch = FALSE]
<1>1. runs # <<>> /\ ((Top.dispatch /\ SetTop(g)) \/ SetTop(h)) BY DEF PollDispatch, At
<1>2. Quiet(h) BY <1>1, Innermost DEF Quiet, Fields
<1>3. DOMAIN g = Fields /\ g.dispatch = Top.dispatch /\ g.ret \notin NotReturnedTo
    BY <1>1, Innermost DEF Fields
<1> HIDE DEF g, h
<1>4. CASE SetTop(h) BY <1>1, <1>2, <1>4, QuietChange
<1>5. CASE Top.dispatch /\ SetTop(g) BY <1>1, <1>3, <1>5, TopChanges
<1> QED BY <1>1, <1>4, <1>5

LEMMA ReceiveStep ==
    ASSUME IInv, Messages, NEW p \in {"null", "wake", "main"} \cup Sources1, Receive(p)
    PROVE  IInv'
PROOF
<1> DEFINE f == [Top EXCEPT !.pc = "Woken", !.live = p]
<1>1. /\ runs # <<>> /\ SetTop(f)
      /\ p \in IF LivePorts = {} /\ Top.poll THEN {"null"} ELSE LivePorts
    BY DEF Receive, At
<1>2. p = "main" => Top.dispatch
    <2>1. "main" \notin Sources1 BY RunLoopAssumption DEF RunLoopAssumption, Sources
    <2>2. p = "main" => p \in LivePorts BY <1>1
    <2> QED BY <2>1, <2>2 DEF LivePorts, Messages
<1>3. /\ DOMAIN f = Fields /\ f.dispatch = Top.dispatch /\ f.ret \notin NotReturnedTo
      /\ f.live = p /\ f.pc = "Woken"
    BY <1>1, Innermost DEF Fields
<1> HIDE DEF f
<1> QED BY <1>1, <1>2, <1>3, TopChanges

LEMMA WaitingSteps ==
    ASSUME IInv, BeforeWaiting \/ Woken \/ MainQueueReturns PROVE IInv'
PROOF
<1>1. CASE BeforeWaiting
    <2> DEFINE f == [Top EXCEPT !.pc = "Wait"]
               g == DoObservers(Top, "BeforeWaiting", "Wait")
    <2>1. runs # <<>> /\ (SetTop(f) \/ SetTop(g)) BY <1>1 DEF BeforeWaiting, At
    <2>2. Quiet(f) /\ Quiet(Top) BY <2>1, Innermost DEF Quiet, Fields
    <2>3. Quiet(g) BY <2>1, <2>2, QuietObservers DEF IInv
    <2> HIDE DEF f, g
    <2> QED BY <2>1, <2>2, <2>3, QuietChange
<1>2. CASE Woken
    <2> DEFINE f == [Top EXCEPT !.ignoring = TRUE]
               g == [f EXCEPT !.pc = "HandleMsg"]
               h == DoObservers(f, "AfterWaiting", "HandleMsg")
    <2>1. runs # <<>> /\ (SetTop(g) \/ SetTop(h)) BY <1>2 DEF Woken, At
    <2>2. Quiet(f) /\ Quiet(g) BY <2>1, Innermost DEF Quiet, Fields
    <2> HIDE DEF f
    <2>3. Quiet(h) BY <2>1, <2>2, QuietObservers DEF IInv
    <2> HIDE DEF g, h
    <2> QED BY <2>1, <2>2, <2>3, QuietChange
<1>3. CASE MainQueueReturns
    <2> DEFINE f == [Top EXCEPT !.pc = "Blocks3", !.live = "null", !.handled = TRUE,
                              !.didDispatch = TRUE]
    <2>1. runs # <<>> /\ (SetTop(f)) BY <1>3 DEF MainQueueReturns, At
    <2>2. Quiet(f) BY <2>1, Innermost DEF Quiet, Fields
    <2> HIDE DEF f
    <2> QED BY <2>1, <2>2, QuietChange
<1> QED BY <1>1, <1>2, <1>3

\* The callout of the main queue is made with its message in hand.
LEMMA HandleMsgStep == ASSUME IInv, HandleMsg PROVE IInv'
PROOF
<1> DEFINE f == [Top EXCEPT !.ignoring = TRUE, !.poll = FALSE]
           g == [f EXCEPT !.pc = "InMainQueue"]
           h == [f EXCEPT !.pc = "Source1"]
           k == [f EXCEPT !.pc = "Blocks3", !.live = "null"]
<1>1. runs # <<>> /\ ((f.live = "main" /\ SetTop(g)) \/ SetTop(h) \/ SetTop(k))
    BY DEF HandleMsg, At
<1>2. Quiet(h) /\ Quiet(k) BY <1>1, Innermost DEF Quiet, Fields
<1>3. /\ DOMAIN g = Fields /\ g.dispatch = Top.dispatch /\ g.ret \notin NotReturnedTo
      /\ f.live = Top.live
    BY <1>1, Innermost DEF Fields
<1>4. Top.live = "main" => Top.dispatch BY <1>1, TopOfStack DEF IInv, MainQueue, Top
<1> HIDE DEF f, g, h, k
<1>5. CASE SetTop(h) \/ SetTop(k) BY <1>1, <1>2, <1>5, QuietChange
<1>6. CASE f.live = "main" /\ SetTop(g) BY <1>1, <1>3, <1>4, <1>6, TopChanges
<1> QED BY <1>1, <1>5, <1>6

-----------------------------------------------------------------------------
(* What other threads do.                                                  *)

LEMMA StopStep == ASSUME IInv, NEW t \in Clients, Stop(t) PROVE IInv'
PROOF
<1> DEFINE f == [Top EXCEPT !.stopped = TRUE]
<1>1. runs # <<>> /\ SetTop(f) BY DEF Stop
<1>2. Quiet(f) BY <1>1, Innermost DEF Quiet, Fields
<1> HIDE DEF f
<1> QED BY <1>1, <1>2, QuietChange

\* A timeout changes one run, which goes on being where it is.
LEMMA TimeoutSteps ==
    ASSUME IInv, NEW i \in 1..MaxDepth, TimePasses(i) \/ Timeout(i) PROVE IInv'
PROOF
<1> PICK S : runs \in Seq(S) BY DEF IInv, Stack
<1>1. PICK v : i \in DOMAIN runs /\ runs' = [runs EXCEPT ![i].timeout = v]
    BY DEF TimePasses, Timeout
<1> DEFINE g == [runs[i] EXCEPT !.timeout = v]
<1>2. i \in 1..Len(runs) /\ runs' = [runs EXCEPT ![i] = g] BY <1>1
<1>3. /\ DOMAIN g = Fields /\ g.pc = runs[i].pc /\ g.live = runs[i].live
      /\ g.dispatch = runs[i].dispatch /\ g.ret = runs[i].ret
    BY <1>2 DEF IInv, Stack, Fields
<1> HIDE DEF g
<1>4. runs' \in Seq(S \cup {g}) /\ Len(runs') = Len(runs) BY <1>2
<1>5. \A j \in 1..Len(runs) : runs'[j] = IF j = i THEN g ELSE runs[j] BY <1>2
<1>6. \A j \in 1..Len(runs) :
          /\ (DOMAIN runs[j] = Fields => DOMAIN runs'[j] = Fields)
          /\ runs'[j].pc = runs[j].pc /\ runs'[j].live = runs[j].live
          /\ runs'[j].dispatch = runs[j].dispatch /\ runs'[j].ret = runs[j].ret
    BY <1>3, <1>5
<1>7. Stack'
    <2>1. \A j \in 1..Len(runs') : DOMAIN runs'[j] = Fields BY <1>4, <1>6 DEF IInv, Stack
    <2>2. \A j \in 1..Len(runs') : j < Len(runs') => runs'[j].pc \in Callouts
        BY <1>4, <1>6 DEF IInv, Stack
    <2> QED BY <1>4, <2>1, <2>2 DEF Stack
<1>8. MainQueue' BY <1>4, <1>6 DEF IInv, MainQueue
<1> QED BY <1>7, <1>8 DEF IInv

LEMMA OtherSteps == ASSUME IInv, UNCHANGED runs PROVE IInv'
BY DEF IInv, Stack, MainQueue

LEMMA Others ==
    ASSUME \/ \E t \in Clients : Client(t) /\ ~Stop(t)
           \/ \E i \in 1..MaxDepth : TimeoutWakeUp(i)
           \/ \E s \in Sources1 : SendMessage(s)
           \/ DispatchToMain
           \/ UNCHANGED vars
    PROVE  UNCHANGED runs
BY DEF Client, SourceSignal, SourceInvalidate, PerformBlock, StopMode, RemoveSource,
       ClientWakeUp, RemoveFromRunLoop, TimeoutWakeUp, SendMessage, DispatchToMain, vars

-----------------------------------------------------------------------------

LEMMA MessagesInductive == Messages /\ [Next]_vars => Messages'
PROOF
<1> SUFFICES ASSUME Messages, [Next]_vars PROVE Messages' OBVIOUS
<1>1. CASE RunnerStep
    <2>1. msgs' = msgs \/ \E p : msgs' = msgs \ {p}
        BY <1>1 DEF RunnerStep, Start, Check, Return, Notify, FireObserver, ObserverReturns, ObserversDone,
                    DoBlocks, ScanBlock, BlockReturns, CollectSources0, Source0Returns,
                    SourcesDone, PerformSource0, PollDispatch, BeforeWaiting, Woken, HandleMsg,
                    Receive, MainQueueReturns, PerformSource1, Source1Returns, ports
    <2> QED BY <2>1 DEF Messages
<1>2. CASE \E a \in RunArgs : Run(a) BY <1>2 DEF Run, ports, Messages
<1>3. CASE \E t \in Clients : Client(t)
    BY <1>3 DEF Client, SourceSignal, SourceInvalidate, PerformBlock, Stop, StopMode,
                RemoveSource, ClientWakeUp, RemoveFromRunLoop, ports, Messages
<1>4. CASE Timers BY <1>4 DEF Timers, TimePasses, Timeout, TimeoutWakeUp, ports, Messages
<1>5. CASE (\E s \in Sources1 : SendMessage(s)) \/ DispatchToMain \/ UNCHANGED vars
    BY <1>5 DEF SendMessage, DispatchToMain, vars, Messages
<1> QED BY <1>1, <1>2, <1>3, <1>4, <1>5 DEF Next

LEMMA Inductive == IInv /\ Messages /\ [Next]_vars => IInv'
PROOF
<1> SUFFICES ASSUME IInv, Messages, [Next]_vars PROVE IInv' OBVIOUS
<1>1. CASE RunnerStep
    BY <1>1, StartStep, CheckStep, ReturnStep, ObserverSteps, BlockSteps, SourceSteps,
       PollDispatchStep, WaitingSteps, HandleMsgStep, ReceiveStep DEF RunnerStep
<1>2. CASE \E a \in RunArgs : Run(a) BY <1>2, RunStep
<1>3. CASE \E t \in Clients : Client(t)
    <2>1. PICK t \in Clients : Client(t) BY <1>3
    <2>2. CASE Stop(t) BY <2>2, StopStep
    <2>3. CASE ~Stop(t) BY <2>1, <2>3, Others, OtherSteps
    <2> QED BY <2>2, <2>3
<1>4. CASE Timers BY <1>4, TimeoutSteps, Others, OtherSteps DEF Timers
<1>5. CASE (\E s \in Sources1 : SendMessage(s)) \/ DispatchToMain \/ UNCHANGED vars
    BY <1>5, Others, OtherSteps
<1> QED BY <1>1, <1>2, <1>3, <1>4, <1>5 DEF Next

LEMMA Initially == Init => IInv /\ Messages
BY DEF Init, IInv, Stack, MainQueue, Messages

LEMMA Implied == IInv => MainQueueNotReentered
PROOF
<1> SUFFICES ASSUME IInv, NEW i \in DOMAIN runs, NEW j \in DOMAIN runs,
                    runs[i].pc = "InMainQueue", runs[j].pc = "InMainQueue"
             PROVE  i = j
    BY DEF MainQueueNotReentered
<1> PICK S : runs \in Seq(S) BY DEF IInv, Stack
<1>1. i \in 1..Len(runs) /\ j \in 1..Len(runs) /\ Len(runs) \in Nat OBVIOUS
<1>2. runs[i].dispatch /\ runs[j].dispatch BY <1>1 DEF IInv, MainQueue
<1>3. ~(i < j) /\ ~(j < i) BY <1>1, <1>2 DEF IInv, MainQueue
<1> QED BY <1>1, <1>3

\* A run inside the callout of the main dispatch queue, or inside a run inside
\* it, never drains the queue again, whichever modes, messages and timeouts
\* bring it there: the port is chosen once, when a run starts.
THEOREM MainQueueNotReenteredHolds == Spec => []MainQueueNotReentered
PROOF
<1>1. Init => IInv /\ Messages BY Initially
<1>2. IInv /\ Messages /\ [Next]_vars => (IInv /\ Messages)'
    BY Inductive, MessagesInductive
<1>3. IInv => MainQueueNotReentered BY Implied
<1> QED BY <1>1, <1>2, <1>3, PTL DEF Spec

-----------------------------------------------------------------------------
(* The block list                                                          *)

\* The blocks a run took and has not called, and with them the one it calls.
Takes(f) == ToSet(f.held) \cup ToSet(f.kept)
Has(f) == Takes(f) \cup (IF f.pc = "InBlock" THEN {f.call} ELSE {})

Listed == ToSet(blocks)
InBlocks == {"Blocks", "InBlock"}

\* A run only holds blocks where it goes through them.
HandsOf(f) ==
    /\ f.held \in Seq(Blocks) /\ f.kept \in Seq(Blocks)
    /\ f.pc \notin InBlocks => f.held = <<>> /\ f.kept = <<>>

Lists ==
    /\ blocks \in Seq(Blocks) /\ posted \in Seq(Blocks)
    /\ Listed \subseteq ToSet(posted)

\* The list and what each run has are apart, and of the blocks queued so far.
Apart ==
    /\ \A i \in 1..Len(runs) : /\ Has(runs[i]) \subseteq ToSet(posted)
                               /\ Has(runs[i]) \cap Listed = {}
    /\ \A i, j \in 1..Len(runs) : i # j => Has(runs[i]) \cap Has(runs[j]) = {}

BInv == Lists /\ (\A i \in 1..Len(runs) : HandsOf(runs[i])) /\ Apart

\* What a step leaves somewhere: every block listed or taken before it.
NothingLost ==
    \A b \in Blocks :
        b \in Listed \/ (\E i \in 1..Len(runs) : b \in Takes(runs[i]))
        => b \in Listed' \/ (\E i \in 1..Len(runs') : b \in Has(runs'[i]))

\* The property's action, for a step between states of the invariant.
Conserved ==
    \A b \in Blocks :
        LET places == {i \in DOMAIN runs' : TakenBy(i, b)' \/ Called(i, b)'} IN
        /\ \A i, j \in places : i = j
        /\ InList(b)' => places = {}
        /\ InList(b) \/ (\E i \in DOMAIN runs : TakenBy(i, b))
             => InList(b)' \/ places # {}

-----------------------------------------------------------------------------
(* The elements of a sequence.                                             *)

LEMMA NoElements == ToSet(<<>>) = {}
BY DEF ToSet

LEMMA Elements ==
    ASSUME NEW B, NEW s \in Seq(B)
    PROVE  \A x : x \in ToSet(s) <=> \E i \in 1..Len(s) : x = s[i]
BY DEF ToSet

LEMMA ElementsOfAppend ==
    ASSUME NEW B, NEW s \in Seq(B), NEW b \in B
    PROVE  ToSet(Append(s, b)) = ToSet(s) \cup {b}
PROOF
<1> DEFINE t == Append(s, b)
<1>1. /\ t \in Seq(B) /\ Len(t) = Len(s) + 1 /\ Len(s) \in Nat
      /\ \A i \in 1..Len(s) : t[i] = s[i]
      /\ t[Len(s) + 1] = b
    OBVIOUS
<1>2. \A x : x \in ToSet(s) <=> \E i \in 1..Len(s) : x = s[i] BY Elements
<1> HIDE DEF t
<1>3. \A x : x \in ToSet(t) <=> \E i \in 1..Len(t) : x = t[i] BY <1>1, Elements
<1>4. ASSUME NEW i \in 1..Len(t) PROVE t[i] \in ToSet(s) \cup {b}
    <2>1. CASE i = Len(s) + 1 BY <1>1, <2>1
    <2>2. CASE i # Len(s) + 1
        <3>1. i \in 1..Len(s) BY <1>1, <2>2
        <3> QED BY <1>1, <1>2, <3>1
    <2> QED BY <2>1, <2>2
<1>5. ASSUME NEW i \in 1..Len(s) PROVE s[i] \in ToSet(t)
    <2>1. i \in 1..Len(t) /\ t[i] = s[i] BY <1>1
    <2> QED BY <1>3, <2>1
<1>6. b \in ToSet(t)
    <2>1. Len(s) + 1 \in 1..Len(t) BY <1>1
    <2> QED BY <1>1, <1>3, <2>1
<1> QED BY <1>2, <1>3, <1>4, <1>5, <1>6 DEF t

LEMMA ElementsOfConcat ==
    ASSUME NEW B, NEW s \in Seq(B), NEW t \in Seq(B)
    PROVE  ToSet(s \o t) = ToSet(s) \cup ToSet(t)
PROOF
<1> DEFINE u == s \o t
<1>1. /\ u \in Seq(B) /\ Len(u) = Len(s) + Len(t) /\ Len(s) \in Nat /\ Len(t) \in Nat
      /\ \A i \in 1..Len(s) : u[i] = s[i]
      /\ \A i \in 1..Len(t) : u[Len(s) + i] = t[i]
    OBVIOUS
<1>2. /\ \A x : x \in ToSet(s) <=> \E i \in 1..Len(s) : x = s[i]
      /\ \A x : x \in ToSet(t) <=> \E i \in 1..Len(t) : x = t[i]
    BY Elements
<1> HIDE DEF u
<1>3. \A x : x \in ToSet(u) <=> \E i \in 1..Len(u) : x = u[i] BY <1>1, Elements
<1>4. ASSUME NEW i \in 1..Len(u) PROVE u[i] \in ToSet(s) \cup ToSet(t)
    <2>1. CASE i <= Len(s)
        <3>1. i \in 1..Len(s) BY <1>1, <2>1
        <3> QED BY <1>1, <1>2, <3>1
    <2>2. CASE i > Len(s)
        <3>1. PICK j \in 1..Len(t) : i = Len(s) + j
            <4>1. i - Len(s) \in 1..Len(t) /\ i = Len(s) + (i - Len(s)) BY <1>1, <2>2
            <4> QED BY <4>1
        <3> QED BY <1>1, <1>2, <3>1
    <2> QED BY <1>1, <2>1, <2>2
<1>5. ASSUME NEW i \in 1..Len(s) PROVE s[i] \in ToSet(u)
    <2>1. i \in 1..Len(u) BY <1>1
    <2> QED BY <1>1, <1>3, <2>1
<1>6. ASSUME NEW i \in 1..Len(t) PROVE t[i] \in ToSet(u)
    <2>1. Len(s) + i \in 1..Len(u) BY <1>1
    <2> QED BY <1>1, <1>3, <2>1
<1> QED BY <1>2, <1>3, <1>4, <1>5, <1>6 DEF u

LEMMA ElementsOfHeadTail ==
    ASSUME NEW B, NEW s \in Seq(B), s # <<>>
    PROVE  /\ Tail(s) \in Seq(B) /\ Head(s) \in B
           /\ ToSet(s) = {Head(s)} \cup ToSet(Tail(s))
PROOF
<1> DEFINE t == Tail(s)
<1>1. /\ t \in Seq(B) /\ Head(s) \in B /\ Head(s) = s[1] /\ Len(s) \in Nat \ {0}
      /\ Len(t) = Len(s) - 1
      /\ \A i \in 1..(Len(s) - 1) : t[i] = s[i + 1]
    OBVIOUS
<1>2. \A x : x \in ToSet(s) <=> \E i \in 1..Len(s) : x = s[i] BY Elements
<1> HIDE DEF t
<1>3. \A x : x \in ToSet(t) <=> \E i \in 1..Len(t) : x = t[i] BY <1>1, Elements
<1>4. ASSUME NEW i \in 1..Len(s) PROVE s[i] \in {Head(s)} \cup ToSet(t)
    <2>1. CASE i = 1 BY <1>1, <2>1
    <2>2. CASE i # 1
        <3>1. PICK j \in 1..Len(t) : i = j + 1
            <4>1. i - 1 \in 1..Len(t) /\ i = (i - 1) + 1 BY <1>1, <2>2
            <4> QED BY <4>1
        <3> QED BY <1>1, <1>3, <3>1
    <2> QED BY <2>1, <2>2
<1>5. ASSUME NEW i \in 1..Len(t) PROVE t[i] \in ToSet(s)
    <2>1. i + 1 \in 1..Len(s) BY <1>1
    <2> QED BY <1>1, <1>2, <2>1
<1>6. Head(s) \in ToSet(s)
    <2>1. 1 \in 1..Len(s) BY <1>1
    <2> QED BY <1>1, <1>2, <2>1
<1> QED BY <1>1, <1>2, <1>3, <1>4, <1>5, <1>6 DEF t

-----------------------------------------------------------------------------
(* How blocks move.                                                        *)

\* The invariant after the step, and nothing lost by it, are the property.
LEMMA StepConserves ==
    ASSUME IInv, IInv', BInv', NothingLost PROVE Conserved
PROOF
<1> PICK S : runs \in Seq(S) BY DEF IInv, Stack
<1> PICK T : runs' \in Seq(T) BY DEF IInv, Stack
<1>1. DOMAIN runs = 1..Len(runs) /\ DOMAIN runs' = 1..Len(runs') OBVIOUS
<1> SUFFICES ASSUME NEW b \in Blocks
             PROVE  LET places == {i \in DOMAIN runs' : TakenBy(i, b)' \/ Called(i, b)'} IN
                    /\ \A i, j \in places : i = j
                    /\ InList(b)' => places = {}
                    /\ InList(b) \/ (\E i \in DOMAIN runs : TakenBy(i, b))
                         => InList(b)' \/ places # {}
    BY DEF Conserved
<1> DEFINE places == {i \in DOMAIN runs' : TakenBy(i, b)' \/ Called(i, b)'}
<1>2. \A i \in 1..Len(runs') : i \in places <=> b \in Has(runs'[i])
    BY <1>1 DEF TakenBy, Called, Has, Takes
<1>3. InList(b)' <=> b \in Listed' BY DEF InList, Listed
<1>4. InList(b) <=> b \in Listed BY DEF InList, Listed
<1>5. \A i \in 1..Len(runs) : TakenBy(i, b) <=> b \in Takes(runs[i]) BY DEF TakenBy, Takes
<1>6. places \subseteq 1..Len(runs') BY <1>1
<1> HIDE DEF places
<1>7. \A i, j \in places : i = j BY <1>2, <1>6 DEF BInv, Apart
<1>8. InList(b)' => places = {} BY <1>2, <1>3, <1>6 DEF BInv, Apart
<1>9. InList(b) \/ (\E i \in DOMAIN runs : TakenBy(i, b)) => InList(b)' \/ places # {}
    BY <1>1, <1>2, <1>3, <1>4, <1>5 DEF NothingLost
<1> QED BY <1>7, <1>8, <1>9 DEF places

\* The innermost run becomes f and blocks move between it and the list.
LEMMA BlocksMove ==
    ASSUME IInv, BInv, runs # <<>>, NEW f, SetTop(f), HandsOf(f),
           blocks' \in Seq(Blocks), posted' = posted,
           Has(f) \cup Listed' \subseteq Has(Top) \cup Listed,
           Has(f) \cap Listed' = {},
           Takes(Top) \cup Listed \subseteq Has(f) \cup Listed'
    PROVE  BInv' /\ NothingLost
PROOF
<1> PICK S : runs \in Seq(S) BY DEF IInv, Stack
<1> DEFINE n == Len(runs)
<1>1. n \in Nat /\ n \in 1..n /\ Top = runs[n] BY DEF Top
<1>2. runs' \in Seq(S \cup {f}) /\ Len(runs') = n BY DEF SetTop
<1>3. \A i \in 1..n : runs'[i] = IF i = n THEN f ELSE runs[i] BY <1>1 DEF SetTop
<1> HIDE DEF n
<1>a. \A i \in 1..n : Has(runs[i]) \subseteq ToSet(posted) /\ Has(runs[i]) \cap Listed = {}
    BY DEF BInv, Apart, n
<1>b. \A i, j \in 1..n : i # j => Has(runs[i]) \cap Has(runs[j]) = {}
    BY DEF BInv, Apart, n
<1>4. Lists'
    <2>1. Listed' \subseteq ToSet(posted) BY <1>1, <1>a DEF BInv, Lists
    <2> QED BY <2>1 DEF BInv, Lists
<1>5. \A i \in 1..Len(runs') : HandsOf(runs'[i])
    BY <1>2, <1>3 DEF BInv, n
<1>6. Apart'
    <2>1. ASSUME NEW i \in 1..n
          PROVE  Has(runs'[i]) \subseteq ToSet(posted) /\ Has(runs'[i]) \cap Listed' = {}
        <3>1. CASE i = n BY <1>1, <1>3, <1>a, <3>1 DEF BInv, Lists
        <3>2. CASE i # n
            <4>1. Has(runs[i]) \cap Has(Top) = {} BY <1>1, <1>b, <3>2
            <4> QED BY <1>3, <1>a, <3>2, <4>1
        <3> QED BY <3>1, <3>2
    <2>2. ASSUME NEW i \in 1..n, NEW j \in 1..n, i # j
          PROVE  Has(runs'[i]) \cap Has(runs'[j]) = {}
        <3>1. ASSUME NEW k \in 1..n, k # n PROVE Has(runs[k]) \cap Has(f) = {}
            BY <1>1, <1>a, <1>b, <3>1
        <3>2. CASE i = n
            <4>1. runs'[i] = f /\ runs'[j] = runs[j] /\ j # n BY <1>3, <2>2, <3>2
            <4> QED BY <3>1, <4>1
        <3>3. CASE j = n
            <4>1. runs'[j] = f /\ runs'[i] = runs[i] /\ i # n BY <1>3, <2>2, <3>3
            <4> QED BY <3>1, <4>1
        <3>4. CASE i # n /\ j # n BY <1>3, <1>b, <2>2, <3>4
        <3> QED BY <3>2, <3>3, <3>4
    <2> QED BY <1>2, <2>1, <2>2 DEF Apart
<1>7. NothingLost
    <2> SUFFICES ASSUME NEW b \in Blocks,
                        b \in Listed \/ (\E i \in 1..n : b \in Takes(runs[i]))
                 PROVE  b \in Listed' \/ (\E i \in 1..n : b \in Has(runs'[i]))
        BY <1>2 DEF NothingLost, n
    <2>1. CASE b \in Listed BY <1>1, <1>3, <2>1
    <2>2. ASSUME NEW i \in 1..n, b \in Takes(runs[i])
          PROVE  b \in Listed' \/ (\E k \in 1..n : b \in Has(runs'[k]))
        <3>1. CASE i = n BY <1>1, <1>3, <2>2, <3>1
        <3>2. CASE i # n BY <1>3, <2>2, <3>2 DEF Has
        <3> QED BY <3>1, <3>2
    <2> QED BY <2>1, <2>2
<1> QED BY <1>4, <1>5, <1>6, <1>7 DEF BInv

\* No block moves and none is called.
Steady ==
    /\ UNCHANGED lists
    /\ \A i \in 1..Len(runs') :
           \/ /\ runs'[i].held = <<>> /\ runs'[i].kept = <<>>
              /\ runs'[i].pc # "InBlock"
           \/ /\ i \in 1..Len(runs)
              /\ runs'[i].held = runs[i].held /\ runs'[i].kept = runs[i].kept
              /\ runs'[i].mode = runs[i].mode
              /\ runs'[i].pc = "InBlock" =>
                     runs[i].pc = "InBlock" /\ runs'[i].call = runs[i].call

\* The innermost run becomes f, which has the same blocks.
HandsOff(f) ==
    /\ f.held = Top.held /\ f.kept = Top.kept /\ f.mode = Top.mode
    /\ \/ f.pc = Top.pc /\ f.call = Top.call
       \/ f.pc \notin InBlocks /\ Top.pc \notin InBlocks

LEMMA NoBlockMoves ==
    ASSUME IInv, BInv, runs # <<>>, NEW f, SetTop(f), HandsOff(f), UNCHANGED lists
    PROVE  BInv' /\ NothingLost /\ Steady
PROOF
<1>1. HandsOf(Top) /\ Has(Top) \cap Listed = {}
    <2> PICK S : runs \in Seq(S) BY DEF IInv, Stack
    <2>1. Len(runs) \in 1..Len(runs) OBVIOUS
    <2> QED BY <2>1 DEF BInv, Apart, Top
<1>2. HandsOf(f) BY <1>1 DEF HandsOf, HandsOff
<1>3. Takes(f) = Takes(Top) /\ Has(f) = Has(Top)
    BY DEF HandsOff, Has, Takes, InBlocks
<1>4. Listed' = Listed /\ blocks' = blocks /\ posted' = posted BY DEF lists, Listed
<1>5. blocks \in Seq(Blocks) BY DEF BInv, Lists
<1>6. Takes(Top) \subseteq Has(Top) BY DEF Has
<1>7. Steady
    <2>1. /\ Top' = f /\ Len(runs') = Len(runs)
          /\ \A i \in 1..Len(runs) : i < Len(runs) => runs'[i] = runs[i]
        BY TopBecomes
    <2>2. Len(runs) \in Nat /\ Top = runs[Len(runs)] /\ Top' = runs'[Len(runs)]
        BY <2>1, TopOfStack DEF IInv, Top
    <2>3. f.pc = "InBlock" => Top.pc = "InBlock" /\ f.call = Top.call
        BY DEF HandsOff, InBlocks
    <2>4. ASSUME NEW i \in 1..Len(runs)
          PROVE  /\ runs'[i].held = runs[i].held /\ runs'[i].kept = runs[i].kept
                 /\ runs'[i].mode = runs[i].mode
                 /\ runs'[i].pc = "InBlock" =>
                        runs[i].pc = "InBlock" /\ runs'[i].call = runs[i].call
        <3>1. CASE i = Len(runs) BY <2>1, <2>2, <2>3, <3>1 DEF HandsOff
        <3>2. CASE i # Len(runs) BY <2>1, <2>2, <3>2
        <3> QED BY <3>1, <3>2
    <2> QED BY <2>1, <2>4 DEF Steady
<1> QED BY <1>1, <1>2, <1>3, <1>4, <1>5, <1>6, <1>7, BlocksMove

-----------------------------------------------------------------------------
(* The steps of a pass that move no block.                                 *)

LEMMA StartAndCheckKeep ==
    ASSUME IInv, BInv, Start \/ Check PROVE BInv' /\ NothingLost /\ Steady
PROOF
<1>1. CASE Start
    <2> DEFINE f == [Top EXCEPT !.pc = "Exit", !.stopped = FALSE]
               g == [NewPass(Top) EXCEPT !.dispatch = ServesMainQueue(Top.mode)]
    <2>1. runs # <<>> /\ (SetTop(f) \/ SetTop(g)) /\ UNCHANGED lists
        BY <1>1 DEF Start, At, lists
    <2>2. HandsOff(f) /\ HandsOff(g)
        BY <1>1, <2>1, Innermost DEF Start, NewPass, At, HandsOff, InBlocks, Fields
    <2> HIDE DEF f, g
    <2> QED BY <2>1, <2>2, NoBlockMoves
<1>2. CASE Check
    <2> DEFINE f == [Top EXCEPT !.pc = "Exit"]
               g == [f EXCEPT !.stopped = FALSE]
               h == NewPass(Top)
    <2>1. runs # <<>> /\ (SetTop(f) \/ SetTop(g) \/ SetTop(h)) /\ UNCHANGED lists
        BY <1>2 DEF Check, At, lists
    <2>2. HandsOff(f) /\ HandsOff(g) /\ HandsOff(h)
        BY <1>2, <2>1, Innermost DEF Check, NewPass, At, HandsOff, InBlocks, Fields
    <2> HIDE DEF f, g, h
    <2> QED BY <2>1, <2>2, NoBlockMoves
<1> QED BY <1>1, <1>2

\* f is the innermost run at a place where observers are called.
LEMMA ObserversKeep ==
    ASSUME runs # <<>>, NEW f, HandsOff(f), DOMAIN f = Fields, Top.pc \notin InBlocks,
           NEW activity, NEW ret, ret \notin NotReturnedTo
    PROVE  HandsOff(DoObservers(f, activity, ret))
BY DEF DoObservers, HandsOff, InBlocks, Fields

LEMMA ObserverStepsKeep ==
    ASSUME IInv, BInv,
           \/ Notify("Entry", "Start") \/ Notify("Exit", "Return")
           \/ Notify("BeforeTimers", "BeforeSources") \/ Notify("BeforeSources", "Blocks1")
           \/ \E o \in DOMAIN ObservesAt : FireObserver(o)
           \/ ObserverReturns \/ ObserversDone
    PROVE  BInv' /\ NothingLost /\ Steady
PROOF
<1>1. ASSUME NEW activity, NEW ret, ret \notin NotReturnedTo, activity \notin InBlocks,
             Notify(activity, ret)
      PROVE  BInv' /\ NothingLost /\ Steady
    <2> DEFINE f == DoObservers(Top, activity, ret)
    <2>1. runs # <<>> /\ SetTop(f) /\ UNCHANGED lists BY <1>1 DEF Notify, At, lists
    <2>2. HandsOff(Top) /\ Top.pc \notin InBlocks BY <1>1 DEF Notify, At, HandsOff
    <2>3. HandsOff(f) BY <1>1, <2>1, <2>2, Innermost, ObserversKeep
    <2> HIDE DEF f
    <2> QED BY <2>1, <2>3, NoBlockMoves
<1>2. CASE \E o \in DOMAIN ObservesAt : FireObserver(o)
    <2> PICK o \in DOMAIN ObservesAt : FireObserver(o) BY <1>2
    <2> DEFINE f == [Top EXCEPT !.pc = "InObserver", !.call = o, !.toFire = @ \ {o}]
               g == [Top EXCEPT !.toFire = @ \ {o}]
    <2>1. /\ runs # <<>> /\ (SetTop(f) \/ SetTop(g)) /\ UNCHANGED lists
          /\ Top.pc = "Observers"
        BY DEF FireObserver, At, lists
    <2>2. HandsOff(f) /\ HandsOff(g)
        BY <2>1, Innermost DEF HandsOff, InBlocks, Fields
    <2> HIDE DEF f, g
    <2> QED BY <2>1, <2>2, NoBlockMoves
<1>3. CASE ObserverReturns \/ ObserversDone
    <2> DEFINE f == [Top EXCEPT !.pc = "Observers", !.call = "none"]
               g == [Top EXCEPT !.pc = Top.ret]
    <2>1. /\ runs # <<>> /\ (SetTop(f) \/ SetTop(g)) /\ UNCHANGED lists
          /\ Top.pc \in {"Observers", "InObserver"}
        BY <1>3 DEF ObserverReturns, ObserversDone, At, lists
    <2>2. HandsOff(f) /\ HandsOff(g)
        BY <2>1, Innermost DEF HandsOff, InBlocks, Fields
    <2> HIDE DEF f, g
    <2> QED BY <2>1, <2>2, NoBlockMoves
<1> QED BY <1>1, <1>2, <1>3 DEF InBlocks

LEMMA SourceStepsKeep ==
    ASSUME IInv, BInv,
           \/ CollectSources0 \/ Source0Returns \/ SourcesDone
           \/ \E s \in Sources0 : PerformSource0(s)
           \/ PerformSource1 \/ Source1Returns
    PROVE  BInv' /\ NothingLost /\ Steady
PROOF
<1>1. CASE CollectSources0
    <2> DEFINE f == [Top EXCEPT !.pc = "PollDispatch", !.toPerform = {}]
               C == sources[Top.mode] \cap Sources0 \cap valid \cap signaled
               g == [Top EXCEPT !.pc = "Sources", !.toPerform = C]
    <2>1. runs # <<>> /\ (SetTop(f) \/ SetTop(g)) /\ UNCHANGED lists
        BY <1>1 DEF CollectSources0, At, lists
    <2>2. HandsOff(f) /\ HandsOff(g)
        BY <1>1, <2>1, Innermost DEF CollectSources0, At, HandsOff, InBlocks, Fields
    <2> HIDE DEF f, g
    <2> QED BY <2>1, <2>2, NoBlockMoves
<1>2. CASE Source0Returns
    <2> DEFINE f == [Top EXCEPT !.pc = "Sources", !.call = "none", !.handled = TRUE]
    <2>1. runs # <<>> /\ SetTop(f) /\ UNCHANGED lists
        BY <1>2 DEF Source0Returns, At, lists
    <2>2. HandsOff(f)
        BY <1>2, <2>1, Innermost DEF Source0Returns, At, HandsOff, InBlocks, Fields
    <2> HIDE DEF f
    <2> QED BY <2>1, <2>2, NoBlockMoves
<1>3. CASE SourcesDone
    <2> DEFINE f == [Top EXCEPT !.toPerform = {}, !.pc = "Blocks2"]
               g == [Top EXCEPT !.toPerform = {}, !.pc = "PollDispatch"]
    <2>1. runs # <<>> /\ (SetTop(f) \/ SetTop(g)) /\ UNCHANGED lists
        BY <1>3 DEF SourcesDone, At, lists
    <2>2. HandsOff(f) /\ HandsOff(g)
        BY <1>3, <2>1, Innermost DEF SourcesDone, At, HandsOff, InBlocks, Fields
    <2> HIDE DEF f, g
    <2> QED BY <2>1, <2>2, NoBlockMoves
<1>4. ASSUME NEW s \in Sources0, PerformSource0(s) PROVE BInv' /\ NothingLost /\ Steady
    <2> DEFINE f == [Top EXCEPT !.pc = "InSource0", !.call = s, !.toPerform = @ \ {s}]
               g == [Top EXCEPT !.toPerform = @ \ {s}]
    <2>1. runs # <<>> /\ (SetTop(f) \/ SetTop(g)) /\ UNCHANGED lists
        BY <1>4 DEF PerformSource0, At, lists
    <2>2. HandsOff(f) /\ HandsOff(g)
        BY <1>4, <2>1, Innermost DEF PerformSource0, At, HandsOff, InBlocks, Fields
    <2> HIDE DEF f, g
    <2> QED BY <2>1, <2>2, NoBlockMoves
<1>5. CASE PerformSource1
    <2> DEFINE f == [Top EXCEPT !.pc = "InSource1"]
               g == [Top EXCEPT !.pc = "Blocks3", !.live = "null"]
    <2>1. runs # <<>> /\ (SetTop(f) \/ SetTop(g)) /\ UNCHANGED lists
        BY <1>5 DEF PerformSource1, At, lists
    <2>2. HandsOff(f) /\ HandsOff(g)
        BY <1>5, <2>1, Innermost DEF PerformSource1, At, HandsOff, InBlocks, Fields
    <2> HIDE DEF f, g
    <2> QED BY <2>1, <2>2, NoBlockMoves
<1>6. CASE Source1Returns
    <2> DEFINE f == [Top EXCEPT !.pc = "Blocks3", !.live = "null", !.handled = TRUE]
    <2>1. runs # <<>> /\ SetTop(f) /\ UNCHANGED lists
        BY <1>6 DEF Source1Returns, At, lists
    <2>2. HandsOff(f)
        BY <1>6, <2>1, Innermost DEF Source1Returns, At, HandsOff, InBlocks, Fields
    <2> HIDE DEF f
    <2> QED BY <2>1, <2>2, NoBlockMoves
<1> QED BY <1>1, <1>2, <1>3, <1>4, <1>5, <1>6

LEMMA MessageStepsKeep ==
    ASSUME IInv, BInv,
           \/ PollDispatch \/ BeforeWaiting \/ Woken \/ HandleMsg \/ MainQueueReturns
           \/ \E p \in {"null", "wake", "main"} \cup Sources1 : Receive(p)
    PROVE  BInv' /\ NothingLost /\ Steady
PROOF
<1>1. CASE PollDispatch
    <2> DEFINE f == [Top EXCEPT !.poll = Top.handled \/ Top.timeout = "fired"]
               g == [f EXCEPT !.pc = "HandleMsg", !.live = "main"]
               h == [f EXCEPT !.pc = "BeforeWaiting", !.didDispatch = FALSE]
    <2>1. runs # <<>> /\ (SetTop(g) \/ SetTop(h)) /\ UNCHANGED lists
        BY <1>1 DEF PollDispatch, At, lists
    <2>2. HandsOff(g) /\ HandsOff(h)
        BY <1>1, <2>1, Innermost DEF PollDispatch, At, HandsOff, InBlocks, Fields
    <2> HIDE DEF f, g, h
    <2> QED BY <2>1, <2>2, NoBlockMoves
<1>2. CASE BeforeWaiting
    <2> DEFINE f == [Top EXCEPT !.pc = "Wait"]
               g == DoObservers(Top, "BeforeWaiting", "Wait")
    <2>1. runs # <<>> /\ (SetTop(f) \/ SetTop(g)) /\ UNCHANGED lists
        BY <1>2 DEF BeforeWaiting, At, lists
    <2>2. HandsOff(f) /\ HandsOff(Top) /\ Top.pc \notin InBlocks
        BY <1>2, <2>1, Innermost DEF BeforeWaiting, At, HandsOff, InBlocks, Fields
    <2>3. HandsOff(g) BY <2>1, <2>2, Innermost, ObserversKeep
    <2> HIDE DEF f, g
    <2> QED BY <2>1, <2>2, <2>3, NoBlockMoves
<1>3. CASE Woken
    <2> DEFINE f == [Top EXCEPT !.ignoring = TRUE]
               g == [f EXCEPT !.pc = "HandleMsg"]
               h == DoObservers(f, "AfterWaiting", "HandleMsg")
    <2>1. runs # <<>> /\ (SetTop(g) \/ SetTop(h)) /\ UNCHANGED lists
        BY <1>3 DEF Woken, At, lists
    <2>2. HandsOff(f) /\ HandsOff(g) /\ DOMAIN f = Fields /\ Top.pc \notin InBlocks
        BY <1>3, <2>1, Innermost DEF Woken, At, HandsOff, InBlocks, Fields
    <2> HIDE DEF f
    <2>3. HandsOff(h) BY <2>1, <2>2, ObserversKeep
    <2> HIDE DEF g, h
    <2> QED BY <2>1, <2>2, <2>3, NoBlockMoves
<1>4. CASE HandleMsg
    <2> DEFINE f == [Top EXCEPT !.ignoring = TRUE, !.poll = FALSE]
               g == [f EXCEPT !.pc = "InMainQueue"]
               h == [f EXCEPT !.pc = "Source1"]
               k == [f EXCEPT !.pc = "Blocks3", !.live = "null"]
    <2>1. runs # <<>> /\ (SetTop(g) \/ SetTop(h) \/ SetTop(k)) /\ UNCHANGED lists
        BY <1>4 DEF HandleMsg, At, lists
    <2>2. HandsOff(g) /\ HandsOff(h) /\ HandsOff(k)
        BY <1>4, <2>1, Innermost DEF HandleMsg, At, HandsOff, InBlocks, Fields
    <2> HIDE DEF f, g, h, k
    <2> QED BY <2>1, <2>2, NoBlockMoves
<1>5. CASE MainQueueReturns
    <2> DEFINE f == [Top EXCEPT !.pc = "Blocks3", !.live = "null", !.handled = TRUE,
                              !.didDispatch = TRUE]
    <2>1. runs # <<>> /\ SetTop(f) /\ UNCHANGED lists
        BY <1>5 DEF MainQueueReturns, At, lists
    <2>2. HandsOff(f)
        BY <1>5, <2>1, Innermost DEF MainQueueReturns, At, HandsOff, InBlocks, Fields
    <2> HIDE DEF f
    <2> QED BY <2>1, <2>2, NoBlockMoves
<1>6. ASSUME NEW p, Receive(p) PROVE BInv' /\ NothingLost /\ Steady
    <2> DEFINE f == [Top EXCEPT !.pc = "Woken", !.live = p]
    <2>1. runs # <<>> /\ SetTop(f) /\ UNCHANGED lists
        BY <1>6 DEF Receive, At, lists
    <2>2. HandsOff(f)
        BY <1>6, <2>1, Innermost DEF Receive, At, HandsOff, InBlocks, Fields
    <2> HIDE DEF f
    <2> QED BY <2>1, <2>2, NoBlockMoves
<1> QED BY <1>1, <1>2, <1>3, <1>4, <1>5, <1>6

-----------------------------------------------------------------------------
(* The steps of a pass that move blocks.                                   *)

LEMMA InnermostHands ==
    ASSUME IInv, BInv, runs # <<>>
    PROVE  HandsOf(Top) /\ Has(Top) \cap Listed = {}
PROOF
<1> PICK S : runs \in Seq(S) BY DEF IInv, Stack
<1>1. Len(runs) \in 1..Len(runs) OBVIOUS
<1> QED BY <1>1 DEF BInv, Apart, Top

\* The whole list is taken.
LEMMA DoBlocksMoves ==
    ASSUME IInv, BInv, NEW pc, NEW ret, pc \notin InBlocks, ret \notin NotReturnedTo,
           DoBlocks(pc, ret)
    PROVE  BInv' /\ NothingLost
PROOF
<1> DEFINE f == [Top EXCEPT !.pc = ret]
           g == [Top EXCEPT !.pc = "Blocks", !.ret = ret, !.held = blocks]
<1>1. /\ runs # <<>> /\ blocks' = <<>> /\ posted' = posted
      /\ (blocks = <<>> /\ SetTop(f)) \/ SetTop(g)
    BY DEF DoBlocks, At
<1>2. /\ DOMAIN Top = Fields /\ Top.held = <<>> /\ Top.kept = <<>>
      /\ Has(Top) = {} /\ Takes(Top) = {}
    BY <1>1, Innermost, InnermostHands, NoElements
       DEF DoBlocks, At, HandsOf, Has, Takes, InBlocks
<1>3. /\ f.held = <<>> /\ f.kept = <<>> /\ f.pc = ret
      /\ g.held = blocks /\ g.kept = <<>> /\ g.pc = "Blocks"
    BY <1>2 DEF Fields
<1> HIDE DEF f, g
<1>4. Has(f) = {} /\ Has(g) = Listed /\ Listed' = {}
    BY <1>1, <1>3, NoElements DEF Has, Takes, Listed
<1>5. HandsOf(f) /\ HandsOf(g) BY <1>3 DEF HandsOf, InBlocks, BInv, Lists
<1>6. blocks' \in Seq(Blocks) BY <1>1
<1>7. blocks = <<>> => Listed = {} BY NoElements DEF Listed
<1>8. CASE blocks = <<>> /\ SetTop(f) BY <1>1, <1>2, <1>4, <1>5, <1>6, <1>7, <1>8, BlocksMove
<1>9. CASE SetTop(g) BY <1>1, <1>2, <1>4, <1>5, <1>6, <1>9, BlocksMove
<1> QED BY <1>1, <1>8, <1>9

\* A block is called or kept, or the blocks kept go back to the list.
LEMMA ScanBlockMoves ==
    ASSUME IInv, BInv, ScanBlock PROVE BInv' /\ NothingLost
PROOF
<1> DEFINE b == Head(Top.held)
           f == [Top EXCEPT !.pc = Top.ret, !.kept = <<>>]
           g == [Top EXCEPT !.pc = "InBlock", !.call = b, !.held = Tail(@)]
           h == [Top EXCEPT !.kept = Append(@, b), !.held = Tail(@)]
<1>1. /\ runs # <<>> /\ Top.pc = "Blocks" /\ posted' = posted
      /\ \/ Top.held = <<>> /\ blocks' = Top.kept \o blocks /\ SetTop(f)
         \/ Top.held # <<>> /\ blocks' = blocks /\ (SetTop(g) \/ SetTop(h))
    BY DEF ScanBlock, Scanned, At
<1>2. /\ DOMAIN Top = Fields /\ Top.held \in Seq(Blocks) /\ Top.kept \in Seq(Blocks)
      /\ Has(Top) = ToSet(Top.held) \cup ToSet(Top.kept) /\ Takes(Top) = Has(Top)
      /\ Has(Top) \cap Listed = {} /\ blocks \in Seq(Blocks)
      /\ Top.ret \notin NotReturnedTo
    BY <1>1, Innermost, InnermostHands DEF HandsOf, Has, Takes, BInv, Lists
<1>3. CASE Top.held = <<>> /\ blocks' = Top.kept \o blocks /\ SetTop(f)
    <2>1. f.held = <<>> /\ f.kept = <<>> /\ f.pc = Top.ret BY <1>2, <1>3 DEF Fields
    <2> HIDE DEF f
    <2>2. Has(f) = {} /\ HandsOf(f)
        BY <1>2, <2>1, NoElements DEF Has, Takes, HandsOf
    <2>3. Has(Top) = ToSet(Top.kept) BY <1>2, <1>3, NoElements
    <2>4. Listed' = ToSet(Top.kept) \cup Listed BY <1>2, <1>3, ElementsOfConcat DEF Listed
    <2>5. blocks' \in Seq(Blocks) BY <1>2, <1>3
    <2> QED BY <1>1, <1>2, <1>3, <2>2, <2>3, <2>4, <2>5, BlocksMove
<1>4. CASE Top.held # <<>> /\ blocks' = blocks /\ (SetTop(g) \/ SetTop(h))
    <2>1. /\ Tail(Top.held) \in Seq(Blocks) /\ b \in Blocks
          /\ ToSet(Top.held) = {b} \cup ToSet(Tail(Top.held))
        BY <1>2, <1>4, ElementsOfHeadTail
    <2>2. /\ Append(Top.kept, b) \in Seq(Blocks)
          /\ ToSet(Append(Top.kept, b)) = ToSet(Top.kept) \cup {b}
        BY <1>2, <2>1, ElementsOfAppend
    <2> HIDE DEF b
    <2>3. /\ g.held = Tail(Top.held) /\ g.kept = Top.kept /\ g.pc = "InBlock" /\ g.call = b
          /\ h.held = Tail(Top.held) /\ h.kept = Append(Top.kept, b) /\ h.pc = "Blocks"
        BY <1>1, <1>2 DEF Fields
    <2> HIDE DEF g, h
    <2>4. Has(g) = Has(Top) /\ Has(h) = Has(Top)
        BY <1>2, <2>1, <2>2, <2>3 DEF Has, Takes
    <2>5. HandsOf(g) /\ HandsOf(h) BY <1>2, <2>1, <2>2, <2>3 DEF HandsOf, InBlocks
    <2>6. Listed' = Listed /\ blocks' \in Seq(Blocks) BY <1>2, <1>4 DEF Listed
    <2>7. CASE SetTop(g) BY <1>1, <1>2, <2>4, <2>5, <2>6, <2>7, BlocksMove
    <2>8. CASE SetTop(h) BY <1>1, <1>2, <2>4, <2>5, <2>6, <2>8, BlocksMove
    <2> QED BY <1>4, <2>7, <2>8
<1> QED BY <1>1, <1>3, <1>4

\* The block that was called is gone; those taken stay.
LEMMA BlockReturnsMoves ==
    ASSUME IInv, BInv, BlockReturns PROVE BInv' /\ NothingLost /\ Steady
PROOF
<1> DEFINE f == [Top EXCEPT !.pc = "Blocks", !.call = "none"]
<1>1. /\ runs # <<>> /\ SetTop(f) /\ blocks' = blocks /\ posted' = posted
    BY DEF BlockReturns, At, lists
<1>2. f.held = Top.held /\ f.kept = Top.kept /\ f.pc = "Blocks" /\ f.mode = Top.mode
    BY <1>1, Innermost DEF Fields
<1> HIDE DEF f
<1>3. Has(f) = Takes(Top) /\ Takes(Top) \subseteq Has(Top) BY <1>2 DEF Has, Takes
<1>4. HandsOf(f) BY <1>1, <1>2, InnermostHands DEF HandsOf, InBlocks
<1>5. Listed' = Listed /\ blocks' \in Seq(Blocks) BY <1>1 DEF Listed, BInv, Lists
<1>6. Steady
    <2>1. /\ Top' = f /\ Len(runs') = Len(runs)
          /\ \A i \in 1..Len(runs) : i < Len(runs) => runs'[i] = runs[i]
        BY <1>1, TopBecomes
    <2>2. Len(runs) \in Nat /\ Top = runs[Len(runs)] /\ Top' = runs'[Len(runs)]
        BY <1>1, <2>1, TopOfStack DEF IInv, Top
    <2>3. ASSUME NEW i \in 1..Len(runs)
          PROVE  /\ runs'[i].held = runs[i].held /\ runs'[i].kept = runs[i].kept
                 /\ runs'[i].mode = runs[i].mode
                 /\ runs'[i].pc = "InBlock" =>
                        runs[i].pc = "InBlock" /\ runs'[i].call = runs[i].call
        <3>1. CASE i = Len(runs) BY <1>2, <2>1, <2>2, <3>1
        <3>2. CASE i # Len(runs) BY <2>1, <2>2, <3>2
        <3> QED BY <3>1, <3>2
    <2>4. UNCHANGED lists BY <1>1 DEF lists
    <2> QED BY <2>1, <2>3, <2>4 DEF Steady
<1> QED BY <1>1, <1>3, <1>4, <1>5, <1>6, InnermostHands, BlocksMove

-----------------------------------------------------------------------------
(* Runs begin and end; timeouts; other threads.                            *)

\* Runs whose hands and blocks are as before, with a new one that has none.
LEMMA SameHands ==
    ASSUME BInv, NEW n \in Nat, n <= Len(runs), UNCHANGED lists, Len(runs') \in Nat,
           Len(runs) \in Nat, n <= Len(runs'),
           \A i \in 1..n : Has(runs'[i]) = Has(runs[i]) /\ HandsOf(runs'[i]),
           \A i \in 1..Len(runs') : i > n => Has(runs'[i]) = {} /\ HandsOf(runs'[i]),
           \A i \in 1..Len(runs) : i > n => Has(runs[i]) = {}
    PROVE  BInv' /\ NothingLost
PROOF
<1>1. Lists' /\ Listed' = Listed /\ posted' = posted BY DEF BInv, Lists, Listed, lists
<1>2. \A i \in 1..Len(runs') : HandsOf(runs'[i]) OBVIOUS
<1>3. \A i \in 1..Len(runs') : i <= n => i \in 1..n /\ i \in 1..Len(runs) OBVIOUS
<1>4. \A i \in 1..Len(runs') : /\ Has(runs'[i]) \subseteq ToSet(posted)
                               /\ Has(runs'[i]) \cap Listed = {}
    <2> SUFFICES ASSUME NEW i \in 1..Len(runs')
                 PROVE  Has(runs'[i]) \subseteq ToSet(posted) /\ Has(runs'[i]) \cap Listed = {}
        OBVIOUS
    <2>1. CASE i <= n BY <1>3, <2>1 DEF BInv, Apart
    <2>2. CASE ~(i <= n)
        <3>1. i > n BY <2>2
        <3> QED BY <3>1
    <2> QED BY <2>1, <2>2
<1>5. \A i, j \in 1..Len(runs') : i # j => Has(runs'[i]) \cap Has(runs'[j]) = {}
    <2> SUFFICES ASSUME NEW i \in 1..Len(runs'), NEW j \in 1..Len(runs'), i # j
                 PROVE  Has(runs'[i]) \cap Has(runs'[j]) = {}
        OBVIOUS
    <2>1. CASE i <= n /\ j <= n BY <1>3, <2>1 DEF BInv, Apart
    <2>2. CASE i > n \/ j > n BY <2>2
    <2> QED BY <2>1, <2>2
<1>6. Apart' BY <1>1, <1>4, <1>5 DEF Apart
<1>7. NothingLost
    <2> SUFFICES ASSUME NEW i \in 1..Len(runs), NEW b \in Takes(runs[i])
                 PROVE  \E k \in 1..Len(runs') : b \in Has(runs'[k])
        BY <1>1 DEF NothingLost
    <2>1. b \in Has(runs[i]) BY DEF Has
    <2>2. i <= n
        <3>1. ~(i > n) BY <2>1
        <3> QED BY <3>1
    <2>3. i \in 1..n /\ i \in 1..Len(runs') BY <2>2
    <2> QED BY <2>1, <2>3
<1> QED BY <1>1, <1>2, <1>6, <1>7 DEF BInv

\* A new run has no block, and the one below it keeps its own.
LEMMA RunKeeps ==
    ASSUME IInv, BInv, NEW a \in RunArgs, Run(a) PROVE BInv' /\ NothingLost /\ Steady
PROOF
<1> DEFINE f == Activation(a)
<1>1. f.held = <<>> /\ f.kept = <<>> /\ f.pc = "Entry" BY DEF Activation
<1> HIDE DEF f
<1>2. Has(f) = {} /\ HandsOf(f) BY <1>1, NoElements DEF Has, Takes, HandsOf
<1>3. UNCHANGED lists BY DEF Run
<1>4. CASE runs = <<>> /\ runs' = <<f>>
    <2>1. Len(runs) = 0 /\ Len(runs') = 1 /\ runs'[1] = f BY <1>4
    <2>2. \A i \in 1..Len(runs') : runs'[i] = f BY <2>1
    <2>3. Lists' /\ Listed' = Listed BY <1>3 DEF BInv, Lists, Listed, lists
    <2>4. Apart'
        <3>1. \A i \in 1..Len(runs') : /\ Has(runs'[i]) \subseteq ToSet(posted')
                                       /\ Has(runs'[i]) \cap Listed' = {}
            BY <1>2, <2>2
        <3>2. \A i, j \in 1..Len(runs') : i # j => Has(runs'[i]) \cap Has(runs'[j]) = {}
            BY <1>2, <2>2
        <3> QED BY <3>1, <3>2 DEF Apart
    <2>5. \A i \in 1..Len(runs') : HandsOf(runs'[i]) BY <1>2, <2>2
    <2>6. NothingLost
        <3>1. \A i \in 1..Len(runs) : FALSE BY <2>1
        <3> QED BY <2>3, <3>1 DEF NothingLost
    <2>7. Steady BY <1>1, <1>3, <2>2 DEF Steady
    <2> QED BY <2>3, <2>4, <2>5, <2>6, <2>7 DEF BInv
<1>5. CASE runs # <<>> /\ runs' = Append([runs EXCEPT ![Len(runs)].ranNested = TRUE], f)
    <2> DEFINE g == [runs[Len(runs)] EXCEPT !.ranNested = TRUE]
               n == Len(runs)
               r == [runs EXCEPT ![n] = g]
    <2> PICK S : runs \in Seq(S) BY DEF IInv, Stack
    <2>1. n \in Nat /\ n \in 1..n /\ runs' = Append(r, f) BY <1>5
    <2>2. /\ g.held = Top.held /\ g.kept = Top.kept /\ g.pc = Top.pc /\ g.call = Top.call
          /\ g.mode = Top.mode
        BY <1>5, TopOfStack DEF IInv, Fields, Top
    <2> HIDE DEF g
    <2>3. /\ r \in Seq(S \cup {g}) /\ Len(r) = n
          /\ \A i \in 1..n : r[i] = IF i = n THEN g ELSE runs[i]
        BY <2>1
    <2>4. Top = runs[n] BY DEF Top
    <2> HIDE DEF n, r
    <2>5. /\ Len(runs') = n + 1 /\ runs'[n + 1] = f
          /\ \A i \in 1..n : runs'[i] = IF i = n THEN g ELSE runs[i]
        BY <2>1, <2>3
    <2>6. Has(g) = Has(Top) /\ (HandsOf(Top) => HandsOf(g))
        BY <2>2 DEF Has, Takes, HandsOf
    <2>7. \A i \in 1..n : HandsOf(runs[i]) BY DEF BInv, n
    <2>8. \A i \in 1..n : Has(runs'[i]) = Has(runs[i]) /\ HandsOf(runs'[i])
        BY <2>1, <2>4, <2>5, <2>6, <2>7
    <2>9. \A i \in 1..Len(runs') : i > n => Has(runs'[i]) = {} /\ HandsOf(runs'[i])
        <3>1. \A i \in 1..Len(runs') : i > n => i = n + 1 BY <2>1, <2>5
        <3> QED BY <1>2, <2>5, <3>1
    <2>10. n = Len(runs) BY DEF n
    <2>11. /\ Len(runs) \in Nat /\ n <= Len(runs)
           /\ Len(runs') \in Nat /\ n <= Len(runs')
        BY <2>1, <2>5, <2>10
    <2>12. \A i \in 1..Len(runs) : i > n => Has(runs[i]) = {} BY <2>1, <2>10
    <2>13. Steady
        <3>1. ASSUME NEW i \in 1..n
              PROVE  /\ runs'[i].held = runs[i].held /\ runs'[i].kept = runs[i].kept
                     /\ runs'[i].mode = runs[i].mode /\ runs'[i].pc = runs[i].pc
                     /\ runs'[i].call = runs[i].call
            BY <2>2, <2>4, <2>5
        <3>2. \A i \in 1..Len(runs') : i \in 1..n \/ runs'[i] = f BY <2>1, <2>5
        <3> QED BY <1>1, <1>3, <2>10, <3>1, <3>2 DEF Steady
    <2> HIDE <2>10
    <2> QED BY <1>3, <2>1, <2>8, <2>9, <2>11, <2>12, <2>13, SameHands
<1> QED BY <1>4, <1>5 DEF Run, f

\* A run that returns has no block left.
LEMMA ReturnKeeps ==
    ASSUME IInv, BInv, Return PROVE BInv' /\ NothingLost /\ Steady
PROOF
<1> PICK S : runs \in Seq(S) BY DEF IInv, Stack
<1>1. runs # <<>> /\ runs' = Front(runs) /\ Top.pc = "Return" /\ UNCHANGED lists
    BY DEF Return, At
<1>2. Has(Top) = {}
    BY <1>1, InnermostHands, NoElements DEF HandsOf, Has, Takes, InBlocks
<1> DEFINE n == Len(runs) - 1
<1>3. runs' = SubSeq(runs, 1, n) BY <1>1 DEF Front
<1>4. n \in Nat /\ Len(runs) = n + 1 BY <1>1
<1>5. \A i \in 1..n : runs[i] \in S /\ HandsOf(runs[i]) BY <1>4 DEF BInv
<1>6. Top = runs[n + 1] BY <1>4 DEF Top
<1> HIDE DEF n
<1>7. Len(runs') = n /\ \A i \in 1..n : runs'[i] = runs[i]
    BY <1>3, <1>4, <1>5
<1>8. \A i \in 1..Len(runs) : i > n => Has(runs[i]) = {}
    <2>1. \A i \in 1..Len(runs) : i > n => i = n + 1 BY <1>4
    <2> QED BY <1>2, <1>6, <2>1
<1>9. /\ \A i \in 1..Len(runs') : ~(i > n)
      /\ n <= Len(runs) /\ n <= Len(runs') /\ Len(runs) \in Nat /\ Len(runs') \in Nat
    BY <1>4, <1>7
<1>10. Steady
    <2>1. \A i \in 1..Len(runs') : i \in 1..Len(runs) /\ runs'[i] = runs[i] BY <1>4, <1>7
    <2> QED BY <1>1, <2>1 DEF Steady
<1> QED BY <1>1, <1>4, <1>5, <1>7, <1>8, <1>9, <1>10, SameHands

LEMMA TimeoutKeeps ==
    ASSUME IInv, BInv, NEW i \in 1..MaxDepth, TimePasses(i) \/ Timeout(i)
    PROVE  BInv' /\ NothingLost /\ Steady
PROOF
<1> PICK S : runs \in Seq(S) BY DEF IInv, Stack
<1>1. PICK v : i \in DOMAIN runs /\ runs' = [runs EXCEPT ![i].timeout = v]
    BY DEF TimePasses, Timeout
<1> DEFINE g == [runs[i] EXCEPT !.timeout = v]
           n == Len(runs)
<1>2. n \in Nat /\ i \in 1..n /\ runs' = [runs EXCEPT ![i] = g] BY <1>1
<1>3. /\ g.held = runs[i].held /\ g.kept = runs[i].kept /\ g.pc = runs[i].pc
      /\ g.call = runs[i].call /\ g.mode = runs[i].mode
    BY <1>2 DEF IInv, Stack, Fields
<1> HIDE DEF g
<1>4. Has(g) = Has(runs[i]) /\ (HandsOf(runs[i]) => HandsOf(g))
    BY <1>3 DEF Has, Takes, HandsOf
<1>5. Len(runs') = n /\ \A j \in 1..n : runs'[j] = IF j = i THEN g ELSE runs[j] BY <1>2
<1>6. \A j \in 1..n : HandsOf(runs[j]) BY DEF BInv
<1>7. UNCHANGED lists BY DEF TimePasses, Timeout
<1> HIDE DEF n
<1>8. \A j \in 1..n : Has(runs'[j]) = Has(runs[j]) /\ HandsOf(runs'[j]) BY <1>4, <1>5, <1>6
<1>9. n = Len(runs) /\ n <= n /\ \A j \in 1..n : ~(j > n) BY <1>2 DEF n
<1>10. Steady
    <2>1. ASSUME NEW j \in 1..n
          PROVE  /\ runs'[j].held = runs[j].held /\ runs'[j].kept = runs[j].kept
                 /\ runs'[j].mode = runs[j].mode /\ runs'[j].pc = runs[j].pc
                 /\ runs'[j].call = runs[j].call
        BY <1>3, <1>5
    <2> QED BY <1>5, <1>7, <1>9, <2>1 DEF Steady
<1> QED BY <1>2, <1>5, <1>7, <1>8, <1>9, <1>10, SameHands

LEMMA StopKeeps ==
    ASSUME IInv, BInv, NEW t \in Clients, Stop(t) PROVE BInv' /\ NothingLost /\ Steady
PROOF
<1> DEFINE f == [Top EXCEPT !.stopped = TRUE]
<1>1. runs # <<>> /\ SetTop(f) /\ UNCHANGED lists BY DEF Stop, lists
<1>2. HandsOff(f) BY <1>1, Innermost DEF HandsOff, Fields
<1> HIDE DEF f
<1> QED BY <1>1, <1>2, NoBlockMoves

\* The block queued was nowhere: it is queued once.
LEMMA PerformBlockAdds ==
    ASSUME IInv, BInv, NEW t \in Clients, NEW b \in Blocks, PerformBlock(t, b)
    PROVE  BInv' /\ NothingLost
PROOF
<1>1. /\ b \notin ToSet(posted) /\ UNCHANGED runs
      /\ blocks' = Append(blocks, b) /\ posted' = Append(posted, b)
    BY DEF PerformBlock
<1>2. /\ blocks' \in Seq(Blocks) /\ posted' \in Seq(Blocks)
      /\ Listed' = Listed \cup {b} /\ ToSet(posted)' = ToSet(posted) \cup {b}
    BY <1>1, ElementsOfAppend DEF BInv, Lists, Listed
<1>3. Lists' BY <1>2 DEF BInv, Lists
<1>4. Apart' BY <1>1, <1>2 DEF BInv, Apart
<1>5. NothingLost BY <1>1, <1>2 DEF NothingLost, Has
<1> QED BY <1>1, <1>3, <1>4, <1>5 DEF BInv

LEMMA OthersKeep ==
    ASSUME BInv, UNCHANGED <<runs, lists>> PROVE BInv' /\ NothingLost /\ Steady
PROOF
<1>1. runs' = runs /\ blocks' = blocks /\ posted' = posted BY DEF lists
<1>2. Listed' = Listed BY <1>1 DEF Listed
<1>3. Lists' /\ Apart' BY <1>1, <1>2 DEF BInv, Lists, Apart
<1>4. NothingLost BY <1>1, <1>2 DEF NothingLost, Has
<1>5. Steady BY <1>1 DEF Steady, lists
<1> QED BY <1>1, <1>3, <1>4, <1>5 DEF BInv

LEMMA LeaveLists ==
    ASSUME \/ \E t \in Clients : Client(t) /\ ~Stop(t) /\ ~\E b \in Blocks : PerformBlock(t, b)
           \/ \E i \in 1..MaxDepth : TimeoutWakeUp(i)
           \/ \E s \in Sources1 : SendMessage(s)
           \/ DispatchToMain
           \/ UNCHANGED vars
    PROVE  UNCHANGED <<runs, lists>>
BY DEF Client, SourceSignal, SourceInvalidate, StopMode, RemoveSource, ClientWakeUp,
       RemoveFromRunLoop, TimeoutWakeUp, SendMessage, DispatchToMain, vars, lists

-----------------------------------------------------------------------------

LEMMA StepKeeps == IInv /\ BInv /\ [Next]_vars => BInv' /\ NothingLost
PROOF
<1> SUFFICES ASSUME IInv, BInv, [Next]_vars PROVE BInv' /\ NothingLost OBVIOUS
<1>1. CASE RunnerStep
    <2>1. CASE \/ DoBlocks("Blocks1", "Sources0") \/ DoBlocks("Blocks2", "PollDispatch")
               \/ DoBlocks("Blocks3", "Check")
        BY <2>1, DoBlocksMoves DEF InBlocks
    <2> QED
        BY <1>1, <2>1, StartAndCheckKeep, ReturnKeeps, ObserverStepsKeep, ScanBlockMoves,
           BlockReturnsMoves, SourceStepsKeep, MessageStepsKeep DEF RunnerStep
<1>2. CASE \E a \in RunArgs : Run(a) BY <1>2, RunKeeps
<1>3. CASE \E t \in Clients : Client(t)
    <2>1. PICK t \in Clients : Client(t) BY <1>3
    <2>2. CASE Stop(t) BY <2>2, StopKeeps
    <2>3. CASE \E b \in Blocks : PerformBlock(t, b) BY <2>3, PerformBlockAdds
    <2>4. CASE ~Stop(t) /\ ~\E b \in Blocks : PerformBlock(t, b)
        BY <2>1, <2>4, LeaveLists, OthersKeep
    <2> QED BY <2>2, <2>3, <2>4
<1>4. CASE Timers BY <1>4, TimeoutKeeps, LeaveLists, OthersKeep DEF Timers
<1>5. CASE (\E s \in Sources1 : SendMessage(s)) \/ DispatchToMain \/ UNCHANGED vars
    BY <1>5, LeaveLists, OthersKeep
<1> QED BY <1>1, <1>2, <1>3, <1>4, <1>5 DEF Next

LEMMA InitiallyApart == Init => BInv
PROOF
<1> SUFFICES ASSUME Init PROVE BInv OBVIOUS
<1>1. blocks = <<>> /\ posted = <<>> /\ Len(runs) = 0 BY DEF Init
<1> QED BY <1>1, NoElements DEF BInv, Lists, Apart, Listed

\* Whatever runs inside whichever callout, and whoever queues blocks meanwhile,
\* a block that was queued stays in the list or with the one run that took it
\* until that run calls it.
THEOREM BlocksConservedHolds == Spec => BlocksConserved
PROOF
<1>1. Init => IInv /\ Messages /\ BInv BY Initially, InitiallyApart
<1>2. IInv /\ Messages /\ BInv /\ [Next]_vars => (IInv /\ Messages /\ BInv)'
    BY Inductive, MessagesInductive, StepKeeps
<1>3. IInv /\ Messages /\ BInv /\ [Next]_vars => [Conserved]_vars
    BY Inductive, StepKeeps, StepConserves
<1>4. BlocksConserved <=> [][Conserved]_vars
    BY DEF BlocksConserved, Conserved
<1> QED BY <1>1, <1>2, <1>3, <1>4, PTL DEF Spec

-----------------------------------------------------------------------------
(* The loop only sleeps when it is idle.                                   *)

\* A message that will end the next wait is there or on its way.
Pending ==
    wakeUpPort \/ timerWake # {} \/ \E t \in Clients : doing[t] = Waking

InObservers == {"Observers", "InObserver"}

\* Where a run is in its pass, from the reset of its ignoring wake-ups to its
\* sleep: before it takes the blocks, with the blocks called, performing
\* version 0 sources, with the sources performed, and about to sleep.
Early(f) ==
    \/ f.pc \in {"BeforeTimers", "BeforeSources", "Blocks1"}
    \/ f.pc \in InObservers /\ f.ret \in {"BeforeSources", "Blocks1"}
BlocksCalled(f) ==
    f.pc = "Sources0" \/ (f.pc \in InBlocks /\ f.ret = "Sources0")
Performing(f) == f.pc \in {"Sources", "InSource0"}
Performed(f) ==
    \/ f.pc \in {"Blocks2", "PollDispatch"}
    \/ f.pc \in InBlocks /\ f.ret = "PollDispatch"
Late(f) ==
    f.pc \in {"BeforeWaiting", "Wait"} \/ (f.pc \in InObservers /\ f.ret = "Wait")
Hearing(f) == Early(f) \/ BlocksCalled(f) \/ Performing(f) \/ Performed(f) \/ Late(f)

\* The signalled sources of the mode a run runs in.
Ready(f) == sources[f.mode] \cap Sources0 \cap signaled

\* A run that is on its way to sleep hears wake-ups, and of the blocks B, the
\* stopped modes M and the signalled sources R it has yet to see, it will see
\* each or polls, unless a message P will wake it.
Heard(f, P, B, M, R) ==
    /\ f.pc \in InObservers =>
           f.ret \in {"Start", "Return", "BeforeSources", "Blocks1", "Wait", "HandleMsg"}
    /\ f.pc \in InBlocks => f.ret \in {"Sources0", "PollDispatch", "Check"}
    /\ Hearing(f) => ~f.ignoring
    /\ Hearing(f) => P \/ (~f.stopped /\ f.mode \notin M)
    /\ Hearing(f) /\ ~Early(f) => P \/ \A b \in B : f.mode \notin RunsIn[b]
    /\ Hearing(f) /\ f.pc \in InBlocks => \A b \in ToSet(f.kept) : f.mode \notin RunsIn[b]
    /\ Performing(f) => P \/ f.handled \/ R \subseteq f.toPerform
    /\ Performed(f) => P \/ f.handled \/ R = {}
    /\ Late(f) => P \/ f.poll \/ (R = {} /\ f.timeout # "fired")

Watched(f) == Heard(f, Pending, Listed, modeStopped, Ready(f))

\* Only the innermost run can be on its way to sleep with a pass in which no
\* callout ran the loop.
SInv ==
    /\ \A i \in 1..Len(runs) : runs[i].mode \in Modes
    /\ \A i \in 1..Len(runs) : i < Len(runs) => runs[i].ranNested
    /\ signaled \subseteq valid
    /\ runs # <<>> /\ ~Top.ranNested => Watched(Top)

-----------------------------------------------------------------------------
(* What keeps a run watched.                                               *)

\* A run that is awake sees everything in its next pass.
Elsewhere(f) ==
    /\ f.pc \notin {"BeforeTimers", "BeforeSources", "Blocks1", "Sources0", "Sources",
                    "InSource0", "Blocks2", "PollDispatch", "BeforeWaiting", "Wait"}
    /\ f.pc \in InObservers => f.ret \in {"Start", "Return", "HandleMsg"}
    /\ f.pc \in InBlocks => f.ret = "Check"

LEMMA HeardElsewhere ==
    ASSUME NEW f, NEW P, NEW B, NEW M, NEW R, Elsewhere(f)
    PROVE  Heard(f, P, B, M, R)
BY DEF Elsewhere, Heard, Hearing, Early, BlocksCalled, Performing, Performed, Late,
       InObservers, InBlocks

\* There is nothing new to see.
LEMMA HeardLess ==
    ASSUME NEW f, NEW P, NEW B, NEW M, NEW R, Heard(f, P, B, M, R),
           NEW Q, NEW C, NEW N, NEW S, P => Q, C \subseteq B, N \subseteq M, S \subseteq R
    PROVE  Heard(f, Q, C, N, S)
BY DEF Heard

\* Or a message for the run, which hears it.
LEMMA HeardMessage ==
    ASSUME NEW f, NEW P, NEW B, NEW M, NEW R, Heard(f, P, B, M, R),
           NEW Q, NEW C, NEW N, NEW S, ~f.ignoring => Q
    PROVE  Heard(f, Q, C, N, S)
BY DEF Heard, Hearing

\* The innermost run becomes f.
LEMMA WatchTop ==
    ASSUME IInv, SInv, runs # <<>>, NEW f, SetTop(f), f.mode = Top.mode,
           signaled' \subseteq valid',
           ~f.ranNested =>
             Heard(f, Pending', Listed', modeStopped', sources'[f.mode] \cap Sources0 \cap signaled')
    PROVE  SInv'
PROOF
<1>1. /\ Top' = f /\ Len(runs') = Len(runs) /\ runs' # <<>>
      /\ \A i \in 1..Len(runs) : i < Len(runs) => runs'[i] = runs[i]
    BY TopBecomes
<1>2. \A i \in 1..Len(runs') : i < Len(runs') => runs'[i].ranNested BY <1>1 DEF SInv
<1>3. ~Top'.ranNested => Watched(Top)' BY <1>1 DEF Watched, Ready
<1>4. \A i \in 1..Len(runs') : runs'[i].mode \in Modes
    <2>1. Top.mode \in Modes BY TopOfStack DEF IInv, SInv, Top
    <2>2. Top' = runs'[Len(runs)] /\ Len(runs) \in Nat BY <1>1, TopOfStack DEF Top, IInv
    <2> QED BY <1>1, <2>1, <2>2 DEF SInv
<1> QED BY <1>1, <1>2, <1>3, <1>4 DEF SInv

\* Of everything a run looks at, nothing changes but the run.
OnlyTheRun ==
    UNCHANGED <<signaled, valid, sources, blocks, modeStopped, wakeUpPort, doing, timerWake>>

\* f is the run with the same pass to go on with.
SamePass(f) ==
    /\ f.mode = Top.mode /\ f.ignoring = Top.ignoring /\ f.stopped = Top.stopped
    /\ f.timeout = Top.timeout /\ f.ranNested = Top.ranNested

LEMMA GoesElsewhere ==
    ASSUME IInv, SInv, runs # <<>>, NEW f, SetTop(f), f.mode = Top.mode,
           signaled' \subseteq valid', Elsewhere(f)
    PROVE  SInv'
BY WatchTop, HeardElsewhere

LEMMA GoesOn ==
    ASSUME IInv, SInv, runs # <<>>, NEW f, SetTop(f), OnlyTheRun, SamePass(f),
           ~Top.ranNested /\ Watched(Top)
               => Heard(f, Pending, Listed, modeStopped, Ready(Top))
    PROVE  SInv'
PROOF
<1>1. signaled' \subseteq valid' BY DEF SInv, OnlyTheRun
<1>2. ~f.ranNested => Heard(f, Pending, Listed, modeStopped, Ready(Top))
    BY DEF SInv, SamePass
<1>3. Pending' = Pending /\ Listed' = Listed /\ modeStopped' = modeStopped
    BY DEF OnlyTheRun, Pending, Listed
<1>4. sources'[f.mode] \cap Sources0 \cap signaled' = Ready(Top)
    BY DEF OnlyTheRun, SamePass, Ready
<1> QED BY <1>1, <1>2, <1>3, <1>4, WatchTop DEF SamePass

-----------------------------------------------------------------------------
(* The steps of a pass.                                                    *)

\* Observers are told and the run goes on at ret.
LEMMA ObserversHeard ==
    ASSUME NEW g, DOMAIN g = Fields, NEW activity,
           NEW ret \in {"Start", "Return", "BeforeSources", "Blocks1", "Wait", "HandleMsg"},
           NEW P, NEW B, NEW M, NEW R,
           ret \in {"BeforeSources", "Blocks1"} => Heard(g, P, B, M, R) /\ Early(g),
           ret = "Wait" => Heard(g, P, B, M, R) /\ Late(g)
    PROVE  Heard(DoObservers(g, activity, ret), P, B, M, R)
PROOF
<1> DEFINE f == DoObservers(g, activity, ret)
<1>1. /\ f.mode = g.mode /\ f.ignoring = g.ignoring /\ f.stopped = g.stopped
      /\ f.timeout = g.timeout /\ f.handled = g.handled /\ f.poll = g.poll
      /\ f.pc = ret \/ (f.pc = "Observers" /\ f.ret = ret)
    BY DEF DoObservers, Fields
<1> HIDE DEF f
<1>2. CASE ret \in {"Start", "Return", "HandleMsg"}
    <2>1. Elsewhere(f) BY <1>1, <1>2 DEF Elsewhere, InObservers, InBlocks
    <2>2. Heard(f, P, B, M, R) BY <2>1, HeardElsewhere
    <2> QED BY <2>2 DEF f
<1>3. CASE ret \in {"BeforeSources", "Blocks1"}
    <2>1. Early(f) /\ ~BlocksCalled(f) /\ ~Performing(f) /\ ~Performed(f) /\ ~Late(f)
        BY <1>1, <1>3 DEF Early, BlocksCalled, Performing, Performed, Late, InObservers, InBlocks
    <2>2. f.pc \notin InBlocks /\ (f.pc \in InObservers => f.ret = ret)
        BY <1>1, <1>3 DEF InBlocks, InObservers
    <2>3. ~g.ignoring /\ (P \/ (~g.stopped /\ g.mode \notin M)) BY <1>3 DEF Heard, Hearing
    <2>4. Heard(f, P, B, M, R) BY <1>1, <1>3, <2>1, <2>2, <2>3 DEF Heard
    <2> QED BY <2>4 DEF f
<1>4. CASE ret = "Wait"
    <2>1. ~Early(f) /\ ~BlocksCalled(f) /\ ~Performing(f) /\ ~Performed(f) /\ Late(f)
        BY <1>1, <1>4 DEF Early, BlocksCalled, Performing, Performed, Late, InObservers, InBlocks
    <2>2. f.pc \notin InBlocks /\ (f.pc \in InObservers => f.ret = ret)
        BY <1>1, <1>4 DEF InBlocks, InObservers
    <2>3. ~Early(g) BY <1>4 DEF Early, Late, InObservers
    <2>4. /\ ~g.ignoring /\ (P \/ (~g.stopped /\ g.mode \notin M))
          /\ P \/ \A b \in B : g.mode \notin RunsIn[b]
          /\ P \/ g.poll \/ (R = {} /\ g.timeout # "fired")
        BY <1>4, <2>3 DEF Heard, Hearing
    <2>5. Heard(f, P, B, M, R) BY <1>1, <1>4, <2>1, <2>2, <2>4 DEF Heard
    <2> QED BY <2>5 DEF f
<1> QED BY <1>2, <1>3, <1>4
LEMMA NotifyHeard ==
    ASSUME IInv, SInv,
           \/ Notify("Entry", "Start") \/ Notify("Exit", "Return")
           \/ Notify("BeforeTimers", "BeforeSources") \/ Notify("BeforeSources", "Blocks1")
    PROVE  SInv'
PROOF
<1>1. PICK activity \in {"Entry", "Exit", "BeforeTimers", "BeforeSources"},
           ret \in {"Start", "Return", "BeforeSources", "Blocks1"} :
           /\ Notify(activity, ret)
           /\ ret \in {"BeforeSources", "Blocks1"} => activity \in {"BeforeTimers", "BeforeSources"}
    OBVIOUS
<1> DEFINE f == DoObservers(Top, activity, ret)
<1>2. runs # <<>> /\ SetTop(f) /\ OnlyTheRun /\ Top.pc = activity
    BY <1>1 DEF Notify, At, OnlyTheRun, srcs, lists, ports, calls
<1>3. SamePass(f) BY <1>2, Innermost DEF SamePass, DoObservers, Fields
<1>4. ret \in {"BeforeSources", "Blocks1"} => Early(Top) BY <1>1, <1>2 DEF Early
<1>5. Watched(Top) => Heard(f, Pending, Listed, modeStopped, Ready(Top))
    BY <1>1, <1>2, <1>4, Innermost, ObserversHeard DEF Watched
<1> HIDE DEF f
<1> QED BY <1>2, <1>3, <1>5, GoesOn

\* To the next observer, or back from it.
LEMMA FireObserverHeard ==
    ASSUME IInv, SInv, NEW o \in DOMAIN ObservesAt, FireObserver(o) PROVE SInv'
PROOF
<1> DEFINE f == [Top EXCEPT !.pc = "InObserver", !.call = o, !.toFire = @ \ {o}]
           g == [Top EXCEPT !.toFire = @ \ {o}]
<1>1. /\ runs # <<>> /\ Top.pc = "Observers" /\ OnlyTheRun
      /\ SetTop(f) \/ SetTop(g)
    BY DEF FireObserver, At, OnlyTheRun, srcs, lists, ports, calls
<1>2. ASSUME NEW k \in {f, g}
      PROVE  /\ SamePass(k) /\ k.pc \in InObservers /\ k.ret = Top.ret
             /\ k.handled = Top.handled /\ k.poll = Top.poll
    BY <1>1, Innermost DEF SamePass, Fields, InObservers
<1> HIDE DEF f, g
<1>3. ASSUME Watched(Top), NEW k \in {f, g}
      PROVE  Heard(k, Pending, Listed, modeStopped, Ready(Top))
    BY <1>1, <1>2, <1>3
    DEF Watched, Heard, SamePass, Hearing, Early, BlocksCalled, Performing, Performed, Late,
        InObservers, InBlocks
<1> QED BY <1>1, <1>2, <1>3, GoesOn

LEMMA ObserverReturnsHeard == ASSUME IInv, SInv, ObserverReturns PROVE SInv'
PROOF
<1> DEFINE f == [Top EXCEPT !.pc = "Observers", !.call = "none"]
<1>1. runs # <<>> /\ Top.pc = "InObserver" /\ OnlyTheRun /\ SetTop(f)
    BY DEF ObserverReturns, At, OnlyTheRun, srcs, lists, ports, calls
<1>2. /\ SamePass(f) /\ f.pc = "Observers" /\ f.ret = Top.ret
      /\ f.handled = Top.handled /\ f.poll = Top.poll
    BY <1>1, Innermost DEF SamePass, Fields
<1> HIDE DEF f
<1>3. ASSUME Watched(Top)
      PROVE  Heard(f, Pending, Listed, modeStopped, Ready(Top))
    BY <1>1, <1>2, <1>3
    DEF Watched, Heard, SamePass, Hearing, Early, BlocksCalled, Performing, Performed, Late,
        InObservers, InBlocks
<1> QED BY <1>1, <1>2, <1>3, GoesOn

\* All are told and the run goes on where it was.
LEMMA ObserversDoneHeard == ASSUME IInv, SInv, ObserversDone PROVE SInv'
PROOF
<1> DEFINE f == [Top EXCEPT !.pc = Top.ret]
<1>1. runs # <<>> /\ Top.pc = "Observers" /\ OnlyTheRun /\ SetTop(f)
    BY DEF ObserversDone, At, OnlyTheRun, srcs, lists, ports, calls
<1>2. /\ SamePass(f) /\ f.pc = Top.ret
      /\ f.handled = Top.handled /\ f.poll = Top.poll
    BY <1>1, Innermost DEF SamePass, Fields
<1> HIDE DEF f
<1>3. ASSUME Watched(Top)
      PROVE  Heard(f, Pending, Listed, modeStopped, Ready(Top))
    BY <1>1, <1>2, <1>3
    DEF Watched, Heard, SamePass, Hearing, Early, BlocksCalled, Performing, Performed, Late,
        InObservers, InBlocks
<1> QED BY <1>1, <1>2, <1>3, GoesOn

\* A pass begins with nothing to stop it and hears wake-ups again.
LEMMA NewPassHeard ==
    ASSUME IInv, runs # <<>>, NEW f, f.pc = "BeforeTimers", f.ignoring = FALSE,
           ~f.stopped, f.mode \notin modeStopped
    PROVE  Heard(f, Pending, Listed, modeStopped, Ready(f))
BY DEF Heard, Hearing, Early, BlocksCalled, Performing, Performed, Late, InObservers, InBlocks

LEMMA StartHeard == ASSUME IInv, SInv, Start PROVE SInv'
PROOF
<1> DEFINE f == [Top EXCEPT !.pc = "Exit", !.stopped = FALSE]
           n == NewPass(Top)
           g == [n EXCEPT !.dispatch = ServesMainQueue(Top.mode)]
<1>1. /\ runs # <<>> /\ UNCHANGED <<srcs, lists, ports, calls>>
      /\ \/ SetTop(f)
         \/ SetTop(g) /\ ~Top.stopped /\ Top.mode \notin modeStopped /\ UNCHANGED modeStopped
    BY DEF Start, At
<1>2. f.pc = "Exit" /\ f.mode = Top.mode BY <1>1, Innermost DEF Fields
<1>3. DOMAIN n = Fields /\ n.pc = "BeforeTimers" /\ n.ignoring = FALSE
      /\ n.stopped = Top.stopped /\ n.mode = Top.mode
    BY <1>1, Innermost DEF NewPass, Fields
<1> HIDE DEF n
<1>4. g.pc = "BeforeTimers" /\ g.ignoring = FALSE /\ g.stopped = Top.stopped /\ g.mode = Top.mode
    BY <1>3 DEF Fields
<1> HIDE DEF f, g
<1>5. signaled' \subseteq valid' BY <1>1 DEF SInv, srcs
<1>6. CASE SetTop(f)
    BY <1>1, <1>2, <1>5, <1>6, GoesElsewhere DEF Elsewhere, InObservers, InBlocks
<1>7. CASE SetTop(g) /\ ~Top.stopped /\ Top.mode \notin modeStopped /\ UNCHANGED modeStopped
    <2>1. Heard(g, Pending, Listed, modeStopped, Ready(g)) BY <1>1, <1>4, <1>7, NewPassHeard
    <2>2. /\ Pending' = Pending /\ Listed' = Listed /\ modeStopped' = modeStopped
          /\ sources'[g.mode] \cap Sources0 \cap signaled' = Ready(g)
        BY <1>1, <1>7 DEF srcs, lists, ports, calls, Pending, Listed, Ready
    <2> QED BY <1>1, <1>4, <1>5, <1>7, <2>1, <2>2, WatchTop
<1> QED BY <1>1, <1>6, <1>7

LEMMA CheckHeard == ASSUME IInv, SInv, Check PROVE SInv'
PROOF
<1> DEFINE f == [Top EXCEPT !.pc = "Exit"]
           h == [f EXCEPT !.stopped = FALSE]
           g == NewPass(Top)
<1>1. /\ runs # <<>> /\ UNCHANGED <<srcs, lists, ports, calls>>
      /\ \/ SetTop(f) \/ SetTop(h)
         \/ /\ SetTop(g) /\ ~Top.stopped /\ Top.mode \notin modeStopped
            /\ modeStopped' = modeStopped \ {Top.mode}
    BY DEF Check, At
<1>2. f.pc = "Exit" /\ h.pc = "Exit" /\ f.mode = Top.mode /\ h.mode = Top.mode
    BY <1>1, Innermost DEF Fields
<1>3. g.pc = "BeforeTimers" /\ g.ignoring = FALSE /\ g.stopped = Top.stopped /\ g.mode = Top.mode
    BY <1>1, Innermost DEF NewPass, Fields
<1> HIDE DEF f, g, h
<1>4. signaled' \subseteq valid' BY <1>1 DEF SInv, srcs
<1>5. CASE SetTop(f) \/ SetTop(h)
    BY <1>1, <1>2, <1>4, <1>5, GoesElsewhere DEF Elsewhere, InObservers, InBlocks
<1>6. CASE /\ SetTop(g) /\ ~Top.stopped /\ Top.mode \notin modeStopped
           /\ modeStopped' = modeStopped \ {Top.mode}
    <2>1. Heard(g, Pending, Listed, modeStopped, Ready(g)) BY <1>1, <1>3, <1>6, NewPassHeard
    <2>2. /\ Pending' = Pending /\ Listed' = Listed /\ modeStopped' = modeStopped
          /\ sources'[g.mode] \cap Sources0 \cap signaled' = Ready(g)
        BY <1>1, <1>6 DEF srcs, lists, ports, calls, Pending, Listed, Ready
    <2> QED BY <1>1, <1>3, <1>4, <1>6, <2>1, <2>2, WatchTop
<1> QED BY <1>1, <1>5, <1>6

\* The list of blocks changes with the run.
OnlyBlocks ==
    UNCHANGED <<signaled, valid, sources, modeStopped, wakeUpPort, doing, timerWake>>

LEMMA GoesOnWithBlocks ==
    ASSUME IInv, SInv, runs # <<>>, NEW f, SetTop(f), OnlyBlocks, SamePass(f),
           ~Top.ranNested /\ Watched(Top)
               => Heard(f, Pending, Listed', modeStopped, Ready(Top))
    PROVE  SInv'
PROOF
<1>1. signaled' \subseteq valid' BY DEF SInv, OnlyBlocks
<1>2. ~f.ranNested => Heard(f, Pending, Listed', modeStopped, Ready(Top))
    BY DEF SInv, SamePass
<1>3. Pending' = Pending /\ modeStopped' = modeStopped BY DEF OnlyBlocks, Pending
<1>4. sources'[f.mode] \cap Sources0 \cap signaled' = Ready(Top)
    BY DEF OnlyBlocks, SamePass, Ready
<1> QED BY <1>1, <1>2, <1>3, <1>4, WatchTop DEF SamePass

\* Of the list nothing is left to see.
LEMMA DoBlocksHeard ==
    ASSUME IInv, BInv, SInv,
           \/ DoBlocks("Blocks1", "Sources0") \/ DoBlocks("Blocks2", "PollDispatch")
           \/ DoBlocks("Blocks3", "Check")
    PROVE  SInv'
PROOF
<1>1. PICK pc \in {"Blocks1", "Blocks2", "Blocks3"},
           ret \in {"Sources0", "PollDispatch", "Check"} :
           /\ DoBlocks(pc, ret)
           /\ \/ pc = "Blocks1" /\ ret = "Sources0"
              \/ pc = "Blocks2" /\ ret = "PollDispatch"
              \/ pc = "Blocks3" /\ ret = "Check"
    OBVIOUS
<1> DEFINE f == [Top EXCEPT !.pc = ret]
           g == [Top EXCEPT !.pc = "Blocks", !.ret = ret, !.held = blocks]
<1>2. /\ runs # <<>> /\ Top.pc = pc /\ blocks' = <<>> /\ OnlyBlocks
      /\ SetTop(f) \/ SetTop(g)
    BY <1>1 DEF DoBlocks, At, OnlyBlocks, srcs, ports, calls
<1>3. Listed' = {} BY <1>2, NoElements DEF Listed
<1>4. ToSet(Top.kept) = {}
    BY <1>1, <1>2, InnermostHands, NoElements DEF HandsOf, InBlocks
<1>5. /\ SamePass(f) /\ f.pc = ret /\ f.kept = Top.kept
      /\ f.handled = Top.handled /\ f.poll = Top.poll
    BY <1>2, Innermost DEF SamePass, Fields
<1>6. /\ SamePass(g) /\ g.pc = "Blocks" /\ g.ret = ret /\ g.kept = Top.kept
      /\ g.handled = Top.handled /\ g.poll = Top.poll
    BY <1>2, Innermost DEF SamePass, Fields
<1> HIDE DEF f, g
<1>7. ASSUME Watched(Top), NEW k \in {f, g}
      PROVE  Heard(k, Pending, Listed', modeStopped, Ready(Top))
    <2>1. /\ SamePass(k) /\ k.kept = Top.kept /\ k.handled = Top.handled /\ k.poll = Top.poll
          /\ k.pc = ret \/ (k.pc = "Blocks" /\ k.ret = ret)
        BY <1>5, <1>6, <1>7
    <2>2. CASE pc = "Blocks3"
        <3>1. Elsewhere(k) BY <1>1, <2>1, <2>2 DEF Elsewhere, InBlocks, InObservers
        <3> QED BY <3>1, HeardElsewhere
    <2>3. CASE pc = "Blocks1"
        <3>1. ~Early(k) /\ BlocksCalled(k) /\ ~Performing(k) /\ ~Performed(k) /\ ~Late(k)
            BY <1>1, <2>1, <2>3
            DEF Early, BlocksCalled, Performing, Performed, Late, InObservers, InBlocks
        <3>2. ~Top.ignoring /\ (Pending \/ (~Top.stopped /\ Top.mode \notin modeStopped))
            BY <1>2, <1>7, <2>3 DEF Watched, Heard, Hearing, Early
        <3> QED BY <1>1, <1>3, <1>4, <2>1, <2>3, <3>1, <3>2
                DEF Heard, SamePass, InObservers, InBlocks
    <2>4. CASE pc = "Blocks2"
        <3>1. ~Early(k) /\ ~BlocksCalled(k) /\ ~Performing(k) /\ Performed(k) /\ ~Late(k)
            BY <1>1, <2>1, <2>4
            DEF Early, BlocksCalled, Performing, Performed, Late, InObservers, InBlocks
        <3>2. /\ ~Top.ignoring /\ (Pending \/ (~Top.stopped /\ Top.mode \notin modeStopped))
              /\ Pending \/ Top.handled \/ Ready(Top) = {}
            BY <1>2, <1>7, <2>4 DEF Watched, Heard, Hearing, Performed
        <3> QED BY <1>1, <1>3, <1>4, <2>1, <2>4, <3>1, <3>2
                DEF Heard, SamePass, InObservers, InBlocks
    <2> QED BY <1>1, <2>2, <2>3, <2>4
<1> QED BY <1>2, <1>5, <1>6, <1>7, GoesOnWithBlocks

\* A run in the blocks goes on with blocks, of which it keeps none of its mode,
\* or goes back with the list of all it kept.
LEMMA ScanBlockHeard == ASSUME IInv, BInv, SInv, ScanBlock PROVE SInv'
PROOF
<1> DEFINE b == Head(Top.held)
           f == [Top EXCEPT !.pc = Top.ret, !.kept = <<>>]
           g == [Top EXCEPT !.pc = "InBlock", !.call = b, !.held = Tail(@)]
           h == [Top EXCEPT !.kept = Append(@, b), !.held = Tail(@)]
<1>1. /\ runs # <<>> /\ Top.pc = "Blocks" /\ OnlyBlocks
      /\ \/ Top.held = <<>> /\ blocks' = Top.kept \o blocks /\ SetTop(f)
         \/ /\ Top.held # <<>> /\ blocks' = blocks
            /\ SetTop(g) \/ (SetTop(h) /\ Top.mode \notin RunsIn[b])
    BY DEF ScanBlock, Scanned, At, OnlyBlocks, srcs, ports, calls
<1>2. /\ Top.held \in Seq(Blocks) /\ Top.kept \in Seq(Blocks) /\ blocks \in Seq(Blocks)
      /\ DOMAIN Top = Fields
    BY <1>1, Innermost, InnermostHands DEF HandsOf, BInv, Lists
<1>3. CASE Top.held = <<>> /\ blocks' = Top.kept \o blocks /\ SetTop(f)
    <2>1. Listed' = ToSet(Top.kept) \cup Listed BY <1>2, <1>3, ElementsOfConcat DEF Listed
    <2>2. /\ SamePass(f) /\ f.pc = Top.ret
          /\ f.handled = Top.handled /\ f.poll = Top.poll
        BY <1>2 DEF SamePass, Fields
    <2> HIDE DEF f
    <2>3. ASSUME Watched(Top) PROVE Heard(f, Pending, Listed', modeStopped, Ready(Top))
        <3>1. Top.ret \in {"Sources0", "PollDispatch", "Check"}
            BY <1>1, <2>3 DEF Watched, Heard, InBlocks
        <3>2. CASE Top.ret = "Check"
            <4>1. Elsewhere(f) BY <2>2, <3>2 DEF Elsewhere, InBlocks, InObservers
            <4> QED BY <4>1, HeardElsewhere
        <3>3. CASE Top.ret \in {"Sources0", "PollDispatch"}
            <4>1. Hearing(Top) /\ ~Early(Top) /\ (Performed(Top) <=> Top.ret = "PollDispatch")
                BY <1>1, <3>3
                DEF Hearing, Early, BlocksCalled, Performing, Performed, Late,
                    InObservers, InBlocks
            <4>2. \A c \in ToSet(Top.kept) : Top.mode \notin RunsIn[c]
                BY <1>1, <2>3, <4>1 DEF Watched, Heard, InBlocks
            <4>3. Pending \/ \A c \in Listed' : Top.mode \notin RunsIn[c]
                BY <2>1, <2>3, <4>1, <4>2 DEF Watched, Heard
            <4>4. /\ ~Top.ignoring /\ (Pending \/ (~Top.stopped /\ Top.mode \notin modeStopped))
                  /\ Performed(Top) => Pending \/ Top.handled \/ Ready(Top) = {}
                BY <2>3, <4>1 DEF Watched, Heard
            <4>5. /\ ~Early(f) /\ ~Performing(f) /\ (Performed(f) <=> Performed(Top)) /\ ~Late(f)
                  /\ f.pc \notin InObservers /\ f.pc \notin InBlocks
                BY <2>2, <3>3, <4>1
                DEF Early, BlocksCalled, Performing, Performed, Late, InObservers, InBlocks
            <4> QED BY <2>2, <4>3, <4>4, <4>5 DEF Heard, SamePass
        <3> QED BY <3>1, <3>2, <3>3
    <2> QED BY <1>1, <1>3, <2>2, <2>3, GoesOnWithBlocks
<1>4. CASE /\ Top.held # <<>> /\ blocks' = blocks
           /\ SetTop(g) \/ (SetTop(h) /\ Top.mode \notin RunsIn[b])
    <2>1. b \in Blocks BY <1>2, <1>4, ElementsOfHeadTail
    <2>2. ToSet(Append(Top.kept, b)) = ToSet(Top.kept) \cup {b}
        BY <1>2, <2>1, ElementsOfAppend
    <2> HIDE DEF b
    <2>3. /\ SamePass(g) /\ g.pc = "InBlock" /\ g.ret = Top.ret /\ g.kept = Top.kept
          /\ g.handled = Top.handled /\ g.poll = Top.poll
        BY <1>2 DEF SamePass, Fields
    <2>4. /\ SamePass(h) /\ h.pc = "Blocks" /\ h.ret = Top.ret /\ h.kept = Append(Top.kept, b)
          /\ h.handled = Top.handled /\ h.poll = Top.poll
        BY <1>1, <1>2 DEF SamePass, Fields
    <2> HIDE DEF g, h
    <2>5. Listed' = Listed BY <1>4 DEF Listed
    <2>6. ASSUME Watched(Top), NEW k, SamePass(k), k.pc \in InBlocks, k.ret = Top.ret,
                 k.handled = Top.handled, k.poll = Top.poll,
                 \/ ToSet(k.kept) = ToSet(Top.kept)
                 \/ Top.mode \notin RunsIn[b] /\ ToSet(k.kept) = ToSet(Top.kept) \cup {b}
          PROVE  Heard(k, Pending, Listed', modeStopped, Ready(Top))
        <3>1. /\ (Early(k) <=> Early(Top)) /\ (Hearing(k) <=> Hearing(Top))
              /\ (Performed(k) <=> Performed(Top))
              /\ Top.pc \in InBlocks /\ k.pc \notin InObservers /\ ~Late(k) /\ ~Performing(k)
            BY <1>1, <2>6
            DEF Hearing, Early, BlocksCalled, Performing, Performed, Late, InObservers, InBlocks
        <3>2. Hearing(k) => \A c \in ToSet(k.kept) : k.mode \notin RunsIn[c]
            BY <2>6, <3>1 DEF Watched, Heard, SamePass
        <3> QED BY <2>5, <2>6, <3>1, <3>2 DEF Watched, Heard, SamePass
    <2>7. CASE SetTop(g)
        <3>1. Watched(Top) => Heard(g, Pending, Listed', modeStopped, Ready(Top))
            BY <2>3, <2>6 DEF InBlocks
        <3> QED BY <1>1, <2>3, <2>7, <3>1, GoesOnWithBlocks
    <2>8. CASE SetTop(h) /\ Top.mode \notin RunsIn[b]
        <3>1. Watched(Top) => Heard(h, Pending, Listed', modeStopped, Ready(Top))
            BY <2>2, <2>4, <2>6, <2>8 DEF InBlocks
        <3> QED BY <1>1, <2>4, <2>8, <3>1, GoesOnWithBlocks
    <2> QED BY <1>4, <2>7, <2>8
<1> QED BY <1>1, <1>3, <1>4

LEMMA BlockReturnsHeard == ASSUME IInv, SInv, BlockReturns PROVE SInv'
PROOF
<1> DEFINE f == [Top EXCEPT !.pc = "Blocks", !.call = "none"]
<1>1. runs # <<>> /\ Top.pc = "InBlock" /\ SetTop(f) /\ OnlyTheRun
    BY DEF BlockReturns, At, OnlyTheRun, srcs, lists, ports, calls
<1>2. /\ SamePass(f) /\ f.pc = "Blocks" /\ f.ret = Top.ret /\ f.kept = Top.kept
      /\ f.handled = Top.handled /\ f.poll = Top.poll
    BY <1>1, Innermost DEF SamePass, Fields
<1> HIDE DEF f
<1>3. ASSUME Watched(Top) PROVE Heard(f, Pending, Listed, modeStopped, Ready(Top))
    BY <1>1, <1>2, <1>3
    DEF Watched, Heard, SamePass, Hearing, Early, BlocksCalled, Performing, Performed, Late,
        InObservers, InBlocks
<1> QED BY <1>1, <1>2, <1>3, GoesOn

\* All signalled sources of the mode are collected: they are valid.
LEMMA CollectSources0Heard == ASSUME IInv, SInv, CollectSources0 PROVE SInv'
PROOF
<1> DEFINE C == sources[Top.mode] \cap Sources0 \cap valid \cap signaled
           f == [Top EXCEPT !.pc = "PollDispatch", !.toPerform = {}]
           g == [Top EXCEPT !.pc = "Sources", !.toPerform = C]
<1>1. /\ runs # <<>> /\ Top.pc = "Sources0" /\ OnlyTheRun
      /\ (C = {} /\ SetTop(f)) \/ SetTop(g)
    BY DEF CollectSources0, At, OnlyTheRun, srcs, lists, ports, calls
<1>2. C = Ready(Top) BY DEF Ready, SInv
<1> HIDE DEF C
<1>3. SamePass(f) /\ f.pc = "PollDispatch" BY <1>1, Innermost DEF SamePass, Fields
<1>4. SamePass(g) /\ g.pc = "Sources" /\ g.toPerform = C
    BY <1>1, Innermost DEF SamePass, Fields
<1> HIDE DEF f, g
<1>5. ASSUME Watched(Top)
      PROVE  /\ ~Top.ignoring /\ (Pending \/ (~Top.stopped /\ Top.mode \notin modeStopped))
             /\ Pending \/ \A b \in Listed : Top.mode \notin RunsIn[b]
    BY <1>1, <1>5
    DEF Watched, Heard, Hearing, Early, BlocksCalled, InObservers, InBlocks
<1>6. CASE C = {} /\ SetTop(f)
    <2>1. /\ ~Performing(f) /\ ~Late(f) /\ f.pc \notin InBlocks /\ f.pc \notin InObservers
        BY <1>3 DEF Performing, Late, InObservers, InBlocks
    <2>2. Watched(Top) => Heard(f, Pending, Listed, modeStopped, Ready(Top))
        BY <1>2, <1>3, <1>5, <1>6, <2>1 DEF Heard, SamePass
    <2> QED BY <1>1, <1>3, <1>6, <2>2, GoesOn
<1>7. CASE SetTop(g)
    <2>1. /\ ~Performed(g) /\ ~Late(g) /\ g.pc \notin InBlocks /\ g.pc \notin InObservers
        BY <1>4 DEF Performed, Late, InObservers, InBlocks
    <2>2. Watched(Top) => Heard(g, Pending, Listed, modeStopped, Ready(Top))
        BY <1>2, <1>4, <1>5, <2>1 DEF Heard, SamePass
    <2> QED BY <1>1, <1>4, <1>7, <2>2, GoesOn
<1> QED BY <1>1, <1>6, <1>7

\* A source taken up is no longer signalled; those left are still to perform.
LEMMA PerformSource0Heard ==
    ASSUME IInv, SInv, NEW s \in Sources0, PerformSource0(s) PROVE SInv'
PROOF
<1> DEFINE f == [Top EXCEPT !.pc = "InSource0", !.call = s, !.toPerform = @ \ {s}]
           g == [Top EXCEPT !.toPerform = @ \ {s}]
<1>1. /\ runs # <<>> /\ Top.pc = "Sources" /\ signaled' = signaled \ {s}
      /\ UNCHANGED <<valid, sources, blocks, modeStopped, wakeUpPort, doing, timerWake>>
      /\ SetTop(f) \/ SetTop(g)
    BY DEF PerformSource0, At, lists, ports, calls
<1>2. /\ SamePass(f) /\ f.pc = "InSource0" /\ f.toPerform = Top.toPerform \ {s}
      /\ f.handled = Top.handled
    BY <1>1, Innermost DEF SamePass, Fields
<1>3. /\ SamePass(g) /\ g.pc = "Sources" /\ g.toPerform = Top.toPerform \ {s}
      /\ g.handled = Top.handled
    BY <1>1, Innermost DEF SamePass, Fields
<1> HIDE DEF f, g
<1>4. signaled' \subseteq valid' BY <1>1 DEF SInv
<1>5. /\ Pending' = Pending /\ Listed' = Listed /\ modeStopped' = modeStopped
      /\ sources'[Top.mode] \cap Sources0 \cap signaled' = Ready(Top) \ {s}
    BY <1>1 DEF Pending, Listed, Ready
<1>6. ASSUME Watched(Top)
      PROVE  /\ ~Top.ignoring /\ (Pending \/ (~Top.stopped /\ Top.mode \notin modeStopped))
             /\ Pending \/ \A b \in Listed : Top.mode \notin RunsIn[b]
             /\ Pending \/ Top.handled \/ Ready(Top) \subseteq Top.toPerform
    BY <1>1, <1>6
    DEF Watched, Heard, Hearing, Early, Performing, InObservers, InBlocks
<1>7. ASSUME NEW k \in {f, g}, Watched(Top)
      PROVE  Heard(k, Pending, Listed, modeStopped, Ready(Top) \ {s})
    <2>1. /\ ~Performed(k) /\ ~Late(k) /\ k.pc \notin InBlocks /\ k.pc \notin InObservers
        BY <1>2, <1>3, <1>7 DEF Performed, Late, InObservers, InBlocks
    <2> QED BY <1>2, <1>3, <1>6, <1>7, <2>1 DEF Heard, SamePass
<1>8. ~Top.ranNested => Watched(Top) BY <1>1 DEF SInv
<1>9. ASSUME NEW k \in {f, g}, SetTop(k) PROVE SInv'
    <2>1. k.mode = Top.mode /\ k.ranNested = Top.ranNested
        BY <1>2, <1>3, <1>9 DEF SamePass
    <2>2. ~k.ranNested =>
              Heard(k, Pending', Listed', modeStopped',
                    sources'[k.mode] \cap Sources0 \cap signaled')
        BY <1>5, <1>7, <1>8, <1>9, <2>1
    <2> QED BY <1>1, <1>4, <1>9, <2>1, <2>2, WatchTop
<1> QED BY <1>1, <1>9

LEMMA SourcesDoneHeard == ASSUME IInv, SInv, Source0Returns \/ SourcesDone PROVE SInv'
PROOF
<1> DEFINE f == [Top EXCEPT !.pc = "Sources", !.call = "none", !.handled = TRUE]
           g == [Top EXCEPT !.toPerform = {}, !.pc = "Blocks2"]
           h == [Top EXCEPT !.toPerform = {}, !.pc = "PollDispatch"]
<1>1. /\ runs # <<>> /\ Top.pc \in {"Sources", "InSource0"} /\ OnlyTheRun
      /\ \/ SetTop(f)
         \/ SetTop(g) /\ Top.handled
         \/ SetTop(h) /\ Top.toPerform = {}
    BY DEF Source0Returns, SourcesDone, At, OnlyTheRun, srcs, lists, ports, calls
<1>2. SamePass(f) /\ f.pc = "Sources" /\ f.handled = TRUE
    BY <1>1, Innermost DEF SamePass, Fields
<1>3. SamePass(g) /\ g.pc = "Blocks2" /\ g.handled = Top.handled
    BY <1>1, Innermost DEF SamePass, Fields
<1>4. SamePass(h) /\ h.pc = "PollDispatch" /\ h.handled = Top.handled
    BY <1>1, Innermost DEF SamePass, Fields
<1> HIDE DEF f, g, h
<1>5. ASSUME Watched(Top)
      PROVE  /\ ~Top.ignoring /\ (Pending \/ (~Top.stopped /\ Top.mode \notin modeStopped))
             /\ Pending \/ \A b \in Listed : Top.mode \notin RunsIn[b]
             /\ Pending \/ Top.handled \/ Ready(Top) \subseteq Top.toPerform
    BY <1>1, <1>5
    DEF Watched, Heard, Hearing, Early, Performing, InObservers, InBlocks
<1>6. CASE SetTop(f)
    <2>1. ~Performed(f) /\ ~Late(f) /\ f.pc \notin InBlocks /\ f.pc \notin InObservers
        BY <1>2 DEF Performed, Late, InObservers, InBlocks
    <2>2. Watched(Top) => Heard(f, Pending, Listed, modeStopped, Ready(Top))
        BY <1>2, <1>5, <2>1 DEF Heard, SamePass
    <2> QED BY <1>1, <1>2, <1>6, <2>2, GoesOn
<1>7. CASE SetTop(g) /\ Top.handled
    <2>1. ~Performing(g) /\ ~Late(g) /\ g.pc \notin InBlocks /\ g.pc \notin InObservers
        BY <1>3 DEF Performing, Late, InObservers, InBlocks
    <2>2. Watched(Top) => Heard(g, Pending, Listed, modeStopped, Ready(Top))
        BY <1>3, <1>5, <1>7, <2>1 DEF Heard, SamePass
    <2> QED BY <1>1, <1>3, <1>7, <2>2, GoesOn
<1>8. CASE SetTop(h) /\ Top.toPerform = {}
    <2>1. ~Performing(h) /\ ~Late(h) /\ h.pc \notin InBlocks /\ h.pc \notin InObservers
        BY <1>4 DEF Performing, Late, InObservers, InBlocks
    <2>2. Watched(Top) => Heard(h, Pending, Listed, modeStopped, Ready(Top))
        BY <1>4, <1>5, <1>8, <2>1 DEF Heard, SamePass
    <2> QED BY <1>1, <1>4, <1>8, <2>2, GoesOn
<1> QED BY <1>1, <1>6, <1>7, <1>8

\* A run with something done, or timed out, polls.
LEMMA PollDispatchHeard == ASSUME IInv, SInv, PollDispatch PROVE SInv'
PROOF
<1> DEFINE p == Top.handled \/ Top.timeout = "fired"
           f == [Top EXCEPT !.poll = p]
           g == [f EXCEPT !.pc = "HandleMsg", !.live = "main"]
           h == [f EXCEPT !.pc = "BeforeWaiting", !.didDispatch = FALSE]
<1>1. /\ runs # <<>> /\ Top.pc = "PollDispatch" /\ OnlyTheRun
      /\ SetTop(g) \/ SetTop(h)
    BY DEF PollDispatch, At, OnlyTheRun, srcs, lists, ports, calls
<1> HIDE DEF p
<1>2. g.pc = "HandleMsg" /\ g.mode = Top.mode BY <1>1, Innermost DEF Fields
<1>3. SamePass(h) /\ h.pc = "BeforeWaiting" /\ h.poll = p
    BY <1>1, Innermost DEF SamePass, Fields
<1> HIDE DEF f, g, h
<1>4. CASE SetTop(g)
    <2>1. signaled' \subseteq valid' BY <1>1 DEF SInv, OnlyTheRun
    <2> QED BY <1>1, <1>2, <1>4, <2>1, GoesElsewhere DEF Elsewhere, InObservers, InBlocks
<1>5. CASE SetTop(h)
    <2>1. ASSUME Watched(Top)
          PROVE  /\ ~Top.ignoring /\ (Pending \/ (~Top.stopped /\ Top.mode \notin modeStopped))
                 /\ Pending \/ \A b \in Listed : Top.mode \notin RunsIn[b]
                 /\ Pending \/ Top.handled \/ Ready(Top) = {}
        BY <1>1, <2>1
        DEF Watched, Heard, Hearing, Early, Performed, InObservers, InBlocks
    <2>2. h.poll \/ (~Top.handled /\ Top.timeout # "fired") BY <1>3 DEF p
    <2>3. /\ ~Performing(h) /\ ~Performed(h) /\ h.pc \notin InBlocks /\ h.pc \notin InObservers
        BY <1>3 DEF Performing, Performed, InObservers, InBlocks
    <2>4. Watched(Top) => Heard(h, Pending, Listed, modeStopped, Ready(Top))
        BY <1>3, <2>1, <2>2, <2>3 DEF Heard, SamePass
    <2> QED BY <1>1, <1>3, <1>5, <2>4, GoesOn
<1> QED BY <1>1, <1>4, <1>5

LEMMA BeforeWaitingHeard == ASSUME IInv, SInv, BeforeWaiting PROVE SInv'
PROOF
<1> DEFINE f == [Top EXCEPT !.pc = "Wait"]
           g == DoObservers(Top, "BeforeWaiting", "Wait")
<1>1. /\ runs # <<>> /\ Top.pc = "BeforeWaiting" /\ OnlyTheRun
      /\ SetTop(f) \/ SetTop(g)
    BY DEF BeforeWaiting, At, OnlyTheRun, srcs, lists, ports, calls
<1>2. SamePass(f) /\ f.pc = "Wait" /\ f.poll = Top.poll
    BY <1>1, Innermost DEF SamePass, Fields
<1>3. SamePass(g) BY <1>1, Innermost DEF SamePass, DoObservers, Fields
<1>4. Late(Top) BY <1>1 DEF Late
<1>5. Watched(Top) => Heard(g, Pending, Listed, modeStopped, Ready(Top))
    BY <1>1, <1>4, Innermost, ObserversHeard DEF Watched
<1> HIDE DEF f, g
<1>6. ASSUME Watched(Top) PROVE Heard(f, Pending, Listed, modeStopped, Ready(Top))
    BY <1>1, <1>2, <1>6
    DEF Watched, Heard, SamePass, Hearing, Early, BlocksCalled, Performing, Performed, Late,
        InObservers, InBlocks
<1> QED BY <1>1, <1>2, <1>3, <1>5, <1>6, GoesOn

\* From the message to the end of the pass the run is awake.
LEMMA AwakeHeard ==
    ASSUME IInv, SInv,
           \/ \E p \in {"null", "wake", "main"} \cup Sources1 : Receive(p)
           \/ Woken \/ HandleMsg \/ MainQueueReturns \/ PerformSource1 \/ Source1Returns
    PROVE  SInv'
PROOF
<1>1. /\ runs # <<>> /\ valid' = valid /\ signaled' \subseteq signaled
    BY DEF Receive, Woken, HandleMsg, MainQueueReturns, PerformSource1, Source1Returns, At, srcs
<1>2. signaled' \subseteq valid' BY <1>1 DEF SInv
<1>3. DOMAIN Top = Fields BY <1>1, Innermost
<1>4. CASE \E p \in {"null", "wake", "main"} \cup Sources1 : Receive(p)
    <2>1. PICK p \in {"null", "wake", "main"} \cup Sources1 : Receive(p) BY <1>4
    <2> DEFINE f == [Top EXCEPT !.pc = "Woken", !.live = p]
    <2>2. SetTop(f) BY <2>1 DEF Receive
    <2>3. f.pc = "Woken" /\ f.mode = Top.mode BY <1>3 DEF Fields
    <2> HIDE DEF f
    <2> QED BY <1>1, <1>2, <2>2, <2>3, GoesElsewhere DEF Elsewhere, InObservers, InBlocks
<1>5. CASE Woken
    <2> DEFINE f == [Top EXCEPT !.ignoring = TRUE]
               g == [f EXCEPT !.pc = "HandleMsg"]
               h == DoObservers(f, "AfterWaiting", "HandleMsg")
    <2>1. SetTop(g) \/ SetTop(h) BY <1>5 DEF Woken
    <2>2. /\ g.pc = "HandleMsg" /\ (h.pc = "HandleMsg" \/ (h.pc = "Observers" /\ h.ret = "HandleMsg"))
          /\ g.mode = Top.mode /\ h.mode = Top.mode
        BY <1>3 DEF Fields, DoObservers
    <2> HIDE DEF f, g, h
    <2> QED BY <1>1, <1>2, <2>1, <2>2, GoesElsewhere DEF Elsewhere, InObservers, InBlocks
<1>6. CASE HandleMsg
    <2> DEFINE f == [Top EXCEPT !.ignoring = TRUE, !.poll = FALSE]
               g == [f EXCEPT !.pc = "InMainQueue"]
               h == [f EXCEPT !.pc = "Source1"]
               k == [f EXCEPT !.pc = "Blocks3", !.live = "null"]
    <2>1. SetTop(g) \/ SetTop(h) \/ SetTop(k) BY <1>6 DEF HandleMsg
    <2>2. /\ g.pc = "InMainQueue" /\ h.pc = "Source1" /\ k.pc = "Blocks3"
          /\ g.mode = Top.mode /\ h.mode = Top.mode /\ k.mode = Top.mode
        BY <1>3 DEF Fields
    <2> HIDE DEF f, g, h, k
    <2> QED BY <1>1, <1>2, <2>1, <2>2, GoesElsewhere DEF Elsewhere, InObservers, InBlocks
<1>7. CASE MainQueueReturns \/ PerformSource1 \/ Source1Returns
    <2> DEFINE f == [Top EXCEPT !.pc = "Blocks3", !.live = "null", !.handled = TRUE,
                              !.didDispatch = TRUE]
               g == [Top EXCEPT !.pc = "InSource1"]
               h == [Top EXCEPT !.pc = "Blocks3", !.live = "null"]
               k == [Top EXCEPT !.pc = "Blocks3", !.live = "null", !.handled = TRUE]
    <2>1. SetTop(f) \/ SetTop(g) \/ SetTop(h) \/ SetTop(k)
        BY <1>7 DEF MainQueueReturns, PerformSource1, Source1Returns
    <2>2. /\ f.pc = "Blocks3" /\ g.pc = "InSource1" /\ h.pc = "Blocks3" /\ k.pc = "Blocks3"
          /\ f.mode = Top.mode /\ g.mode = Top.mode /\ h.mode = Top.mode /\ k.mode = Top.mode
        BY <1>3 DEF Fields
    <2> HIDE DEF f, g, h, k
    <2> QED BY <1>1, <1>2, <2>1, <2>2, GoesElsewhere DEF Elsewhere, InObservers, InBlocks
<1> QED BY <1>4, <1>5, <1>6, <1>7

-----------------------------------------------------------------------------
(* Runs begin and end; other threads.                                      *)

\* A run in a callout puts off what the one below it would see.
LEMMA RunHeard == ASSUME IInv, SInv, NEW a \in RunArgs, Run(a) PROVE SInv'
PROOF
<1> DEFINE f == Activation(a)
<1>1. f.pc = "Entry" /\ f.mode = a.mode BY DEF Activation
<1>m. f.mode \in Modes BY <1>1 DEF RunArgs
<1> HIDE DEF f
<1>2. Heard(f, Pending', Listed', modeStopped', sources'[f.mode] \cap Sources0 \cap signaled')
    BY <1>1, HeardElsewhere DEF Elsewhere, InObservers, InBlocks
<1>3. signaled' \subseteq valid' BY DEF SInv, Run, srcs
<1>4. CASE runs = <<>> /\ runs' = <<f>>
    <2>1. Len(runs') = 1 /\ runs'[1] = f /\ Top' = f BY <1>4 DEF Top
    <2>2. Watched(Top)' BY <1>2, <2>1 DEF Watched, Ready
    <2> QED BY <1>m, <1>3, <2>1, <2>2 DEF SInv
<1>5. CASE runs # <<>> /\ runs' = Append([runs EXCEPT ![Len(runs)].ranNested = TRUE], f)
    <2> DEFINE n == Len(runs)
               g == [runs[n] EXCEPT !.ranNested = TRUE]
               r == [runs EXCEPT ![n] = g]
    <2> PICK S : runs \in Seq(S) BY DEF IInv, Stack
    <2>1. n \in Nat /\ n > 0 /\ runs' = Append(r, f) BY <1>5
    <2>2. g.ranNested = TRUE /\ g.mode = runs[n].mode BY <1>5, Innermost DEF Fields, Top
    <2> HIDE DEF g
    <2>3. r \in Seq(S \cup {g}) /\ Len(r) = n /\ \A i \in 1..n : r[i] = IF i = n THEN g ELSE runs[i]
        BY <2>1
    <2> HIDE DEF r
    <2>4. Len(runs') = n + 1 /\ runs'[n + 1] = f /\ \A i \in 1..n : runs'[i] = r[i]
        BY <2>1, <2>3
    <2>5. Top' = f BY <2>4 DEF Top
    <2>6. \A i \in 1..Len(runs') : i < Len(runs') => runs'[i].ranNested
        BY <2>1, <2>2, <2>3, <2>4 DEF SInv
    <2>7. Watched(Top)' BY <1>2, <2>5 DEF Watched, Ready
    <2>8. \A i \in 1..Len(runs') : runs'[i].mode \in Modes
        BY <1>m, <2>1, <2>2, <2>3, <2>4 DEF SInv
    <2> QED BY <1>3, <2>6, <2>7, <2>8 DEF SInv
<1> QED BY <1>4, <1>5 DEF Run, f

\* The run below remembers.
LEMMA ReturnHeard == ASSUME IInv, SInv, Return PROVE SInv'
PROOF
<1> PICK S : runs \in Seq(S) BY DEF IInv, Stack
<1>1. runs # <<>> /\ runs' = Front(runs) BY DEF Return, At
<1> DEFINE n == Len(runs) - 1
<1>2. runs' = SubSeq(runs, 1, n) BY <1>1 DEF Front
<1>3. n \in Nat /\ Len(runs) = n + 1 BY <1>1
<1>4. \A i \in 1..n : runs[i] \in S BY <1>3
<1> HIDE DEF n
<1>5. Len(runs') = n /\ \A i \in 1..n : runs'[i] = runs[i] BY <1>2, <1>3, <1>4
<1>6. \A i \in 1..n : runs'[i].ranNested BY <1>3, <1>5 DEF SInv
<1>7. runs' # <<>> => Top'.ranNested
    <2>1. runs' # <<>> => n \in 1..n BY <1>2, <1>3, <1>5
    <2> QED BY <1>5, <1>6, <2>1 DEF Top
<1>8. signaled' \subseteq valid' BY DEF SInv, Return, srcs
<1> QED BY <1>3, <1>5, <1>6, <1>7, <1>8 DEF SInv

\* What clients have yet to do of their calls, and the sources of the modes.
CallsOK ==
    /\ doing \in [Clients -> {Idle, Waking} \cup Sources]
    /\ sources \in [Modes -> SUBSET Sources]

LEMMA CallsInductive == CallsOK /\ [Next]_vars => CallsOK'
PROOF
<1> SUFFICES ASSUME CallsOK, [Next]_vars PROVE CallsOK' OBVIOUS
<1>1. CASE RunnerStep
    BY <1>1 DEF RunnerStep, Start, Check, Return, Notify, FireObserver, ObserverReturns, ObserversDone,
                DoBlocks, ScanBlock, BlockReturns, CollectSources0, Source0Returns,
                SourcesDone, PerformSource0, PollDispatch, BeforeWaiting, Woken, HandleMsg,
                Receive, MainQueueReturns, PerformSource1, Source1Returns, calls, srcs, CallsOK
<1>2. CASE \E a \in RunArgs : Run(a) BY <1>2 DEF Run, calls, srcs, CallsOK
<1>3. CASE \E t \in Clients : Client(t)
    BY <1>3 DEF Client, SourceSignal, SourceInvalidate, PerformBlock, Stop, StopMode,
                RemoveSource, ClientWakeUp, RemoveFromRunLoop, calls, srcs, CallsOK
<1>4. CASE Timers BY <1>4 DEF Timers, TimePasses, Timeout, TimeoutWakeUp, calls, srcs, CallsOK
<1>5. CASE (\E s \in Sources1 : SendMessage(s)) \/ DispatchToMain \/ UNCHANGED vars
    BY <1>5 DEF SendMessage, DispatchToMain, vars, calls, srcs, CallsOK
<1> QED BY <1>1, <1>2, <1>3, <1>4, <1>5 DEF Next

\* The runs are as they were.
LEMMA WatchAll ==
    ASSUME SInv, runs' = runs, signaled' \subseteq valid',
           runs # <<>> /\ Watched(Top)
               => Heard(Top, Pending', Listed', modeStopped',
                        sources'[Top.mode] \cap Sources0 \cap signaled')
    PROVE  SInv'
PROOF
<1>1. Top' = Top BY DEF Top
<1>2. runs # <<>> /\ Watched(Top) => Watched(Top)' BY <1>1 DEF Watched, Ready
<1> QED BY <1>1, <1>2 DEF SInv

LEMMA StopHeard ==
    ASSUME IInv, SInv, CallsOK, NEW t \in Clients, Stop(t) PROVE SInv'
PROOF
<1> DEFINE f == [Top EXCEPT !.stopped = TRUE]
<1>1. /\ runs # <<>> /\ SetTop(f) /\ doing' = [doing EXCEPT ![t] = Waking]
      /\ UNCHANGED <<srcs, modeStopped, blocks>>
    BY DEF Stop, lists
<1>2. /\ f.mode = Top.mode /\ f.ignoring = Top.ignoring /\ f.ranNested = Top.ranNested
      /\ f.pc = Top.pc /\ f.ret = Top.ret /\ f.kept = Top.kept
    BY <1>1, Innermost DEF Fields
<1> HIDE DEF f
<1>3. Pending'
    <2>1. doing'[t] = Waking BY <1>1 DEF CallsOK
    <2> QED BY <2>1 DEF Pending
<1>4. signaled' \subseteq valid' BY <1>1 DEF SInv, srcs
<1>5. ASSUME Watched(Top)
      PROVE  Heard(f, TRUE, Listed', modeStopped', sources'[f.mode] \cap Sources0 \cap signaled')
    <2>1. /\ (Hearing(f) <=> Hearing(Top)) /\ (f.pc \in InObservers <=> Top.pc \in InObservers)
        BY <1>2 DEF Hearing, Early, BlocksCalled, Performing, Performed, Late,
                    InObservers, InBlocks
    <2> QED BY <1>2, <1>5, <2>1 DEF Watched, Heard
<1>6. (~f.ranNested => Watched(Top)) BY <1>1, <1>2 DEF SInv
<1>7. ~f.ranNested =>
          Heard(f, Pending', Listed', modeStopped', sources'[f.mode] \cap Sources0 \cap signaled')
    BY <1>3, <1>5, <1>6 DEF Heard
<1> QED BY <1>1, <1>2, <1>4, <1>7, WatchTop

\* What is begun with a wake-up to come.
LEMMA CallHeard ==
    ASSUME IInv, SInv, CallsOK, NEW t \in Clients,
           \/ \E s \in Sources : SourceSignal(t, s)
           \/ \E b \in Blocks : PerformBlock(t, b)
           \/ \E m \in Modes : StopMode(t, m)
    PROVE  SInv'
PROOF
<1>1. /\ runs' = runs /\ doing' = [doing EXCEPT ![t] = Waking] /\ valid' = valid
      /\ signaled' \subseteq signaled \cup valid
    BY DEF SourceSignal, PerformBlock, StopMode, srcs
<1>2. Pending'
    <2>1. doing'[t] = Waking BY <1>1 DEF CallsOK
    <2> QED BY <2>1 DEF Pending
<1>3. signaled' \subseteq valid' BY <1>1 DEF SInv
<1>4. Watched(Top) => Heard(Top, Pending', Listed', modeStopped',
                            sources'[Top.mode] \cap Sources0 \cap signaled')
    BY <1>2, HeardMessage DEF Watched
<1> QED BY <1>1, <1>3, <1>4, WatchAll

\* A wake-up leaves a message for a run that hears it.
LEMMA WakeUpHeard ==
    ASSUME IInv, SInv, WakeUp, runs' = runs, UNCHANGED srcs
    PROVE  SInv'
PROOF
<1>1. runs # <<>> /\ ~Top.ignoring => Pending'
    BY DEF WakeUp, IgnoringWakeUps, Pending
<1>2. signaled' \subseteq valid' BY DEF SInv, srcs
<1>3. runs # <<>> /\ Watched(Top)
          => Heard(Top, Pending', Listed', modeStopped',
                   sources'[Top.mode] \cap Sources0 \cap signaled')
    BY <1>1, HeardMessage DEF Watched
<1> QED BY <1>2, <1>3, WatchAll

\* What is taken out, and messages of others.
LEMMA OtherCallsHeard ==
    ASSUME IInv, SInv, CallsOK,
           \/ \E t \in Clients, s \in Sources : SourceInvalidate(t, s)
           \/ \E t \in Clients, s \in Sources, m \in Modes : RemoveSource(t, s, m)
           \/ \E t \in Clients : RemoveFromRunLoop(t)
           \/ \E s \in Sources1 : SendMessage(s)
           \/ DispatchToMain
           \/ UNCHANGED vars
    PROVE  SInv'
PROOF
<1>1. /\ runs' = runs /\ blocks' = blocks /\ modeStopped' = modeStopped
      /\ wakeUpPort' = wakeUpPort /\ timerWake' = timerWake
      /\ signaled' \subseteq signaled
    BY DEF SourceInvalidate, RemoveSource, RemoveFromRunLoop, SendMessage, DispatchToMain, vars,
           srcs, lists, ports, calls
<1>2. signaled' \subseteq valid'
    BY DEF SInv, SourceInvalidate, RemoveSource, RemoveFromRunLoop, SendMessage,
           DispatchToMain, vars, srcs
<1>3. \A t \in Clients : doing[t] = Waking => doing'[t] = Waking
    BY RunLoopAssumption
    DEF RunLoopAssumption, CallsOK, Waking, Idle, SourceInvalidate, RemoveSource, RemoveFromRunLoop, SendMessage,
        DispatchToMain, vars, calls
<1>4. Pending => Pending' BY <1>1, <1>3 DEF Pending
<1>5. runs # <<>> => sources'[Top.mode] \subseteq sources[Top.mode]
    <2>1. runs # <<>> => Top.mode \in Modes BY TopOfStack DEF IInv, SInv, Top
    <2> QED BY <2>1 DEF CallsOK, SourceInvalidate, RemoveSource, RemoveFromRunLoop, SendMessage,
                        DispatchToMain, vars, srcs
<1>6. ASSUME runs # <<>>, Watched(Top)
      PROVE  Heard(Top, Pending', Listed', modeStopped',
                   sources'[Top.mode] \cap Sources0 \cap signaled')
    <2>1. Listed' = Listed BY <1>1 DEF Listed
    <2>2. sources'[Top.mode] \cap Sources0 \cap signaled' \subseteq Ready(Top)
        BY <1>1, <1>5, <1>6 DEF Ready
    <2> QED BY <1>1, <1>4, <1>6, <2>1, <2>2, HeardLess DEF Watched
<1> QED BY <1>1, <1>2, <1>6, WatchAll

\* A timeout leaves its run to poll, or wakes it.
LEMMA TimeoutHeard ==
    ASSUME IInv, SInv, NEW i \in 1..MaxDepth, TimePasses(i) \/ Timeout(i) PROVE SInv'
PROOF
<1> PICK S : runs \in Seq(S) BY DEF IInv, Stack
<1>1. PICK v \in {"passed", "fired"} :
          /\ i \in DOMAIN runs /\ runs' = [runs EXCEPT ![i].timeout = v]
          /\ v = "fired" => timerWake' = timerWake \cup {i}
          /\ v = "passed" => timerWake' = timerWake
          /\ UNCHANGED <<srcs, modeStopped, blocks, wakeUpPort, doing>>
    BY DEF TimePasses, Timeout, lists, ports, calls
<1> DEFINE g == [runs[i] EXCEPT !.timeout = v]
<1>2. i \in 1..Len(runs) /\ Len(runs) \in Nat /\ runs' = [runs EXCEPT ![i] = g] BY <1>1
<1>3. /\ g.mode = runs[i].mode /\ g.ranNested = runs[i].ranNested /\ g.timeout = v
      /\ g.pc = runs[i].pc /\ g.ret = runs[i].ret /\ g.ignoring = runs[i].ignoring
      /\ g.stopped = runs[i].stopped /\ g.kept = runs[i].kept /\ g.handled = runs[i].handled
      /\ g.toPerform = runs[i].toPerform /\ g.poll = runs[i].poll
    BY <1>2 DEF IInv, Stack, Fields
<1> HIDE DEF g
<1>4. /\ Len(runs') = Len(runs)
      /\ \A j \in 1..Len(runs) : runs'[j] = IF j = i THEN g ELSE runs[j]
    BY <1>2
<1>5. \A j \in 1..Len(runs) : /\ runs'[j].mode = runs[j].mode
                              /\ runs'[j].ranNested = runs[j].ranNested
    BY <1>3, <1>4
<1>6. /\ signaled' \subseteq valid' /\ Listed' = Listed /\ modeStopped' = modeStopped
      /\ sources' = sources /\ signaled' = signaled
    BY <1>1 DEF SInv, srcs, Listed
<1>7. Pending => Pending' BY <1>1 DEF Pending
<1>8. v = "fired" => Pending' BY <1>1 DEF Pending
<1>9. ASSUME runs # <<>>, ~Top.ranNested PROVE Watched(Top)'
    <2>1. Watched(Top) BY <1>9 DEF SInv
    <2>2. Heard(Top, Pending', Listed', modeStopped',
                sources'[Top.mode] \cap Sources0 \cap signaled')
        BY <1>6, <1>7, <2>1, HeardLess DEF Watched, Ready
    <2>3. CASE i # Len(runs)
        <3>1. Len(runs) \in 1..Len(runs) BY <1>2
        <3>2. runs'[Len(runs)] = runs[Len(runs)] BY <1>4, <2>3, <3>1
        <3>3. Top' = Top BY <1>4, <3>2 DEF Top
        <3> QED BY <2>2, <3>3 DEF Watched, Ready
    <2>4. CASE i = Len(runs)
        <3>1. Top' = g /\ Top = runs[i] BY <1>2, <1>4, <2>4 DEF Top
        <3>2. Heard(g, Pending', Listed', modeStopped',
                    sources'[g.mode] \cap Sources0 \cap signaled')
            <4>1. /\ (Hearing(g) <=> Hearing(Top)) /\ (Early(g) <=> Early(Top))
                  /\ (Performing(g) <=> Performing(Top)) /\ (Performed(g) <=> Performed(Top))
                  /\ (Late(g) <=> Late(Top))
                BY <1>3, <3>1
                DEF Hearing, Early, BlocksCalled, Performing, Performed, Late,
                    InObservers, InBlocks
            <4> QED BY <1>3, <1>8, <2>2, <3>1, <4>1 DEF Heard
        <3> QED BY <3>1, <3>2 DEF Watched, Ready
    <2> QED BY <2>3, <2>4
<1>10. runs' # <<>> /\ ~Top'.ranNested => runs # <<>> /\ ~Top.ranNested
    <2>1. Len(runs) \in 1..Len(runs) BY <1>2
    <2>2. Top'.ranNested = Top.ranNested BY <1>4, <1>5, <2>1 DEF Top
    <2> QED BY <1>2, <2>2
<1> QED BY <1>4, <1>5, <1>6, <1>9, <1>10 DEF SInv

-----------------------------------------------------------------------------

LEMMA SleepInductive == IInv /\ BInv /\ CallsOK /\ SInv /\ [Next]_vars => SInv'
PROOF
<1> SUFFICES ASSUME IInv, BInv, CallsOK, SInv, [Next]_vars PROVE SInv' OBVIOUS
<1>1. CASE RunnerStep
    BY <1>1, StartHeard, CheckHeard, ReturnHeard, NotifyHeard, FireObserverHeard,
       ObserverReturnsHeard, ObserversDoneHeard, DoBlocksHeard, ScanBlockHeard, BlockReturnsHeard,
       CollectSources0Heard, PerformSource0Heard, SourcesDoneHeard, PollDispatchHeard,
       BeforeWaitingHeard, AwakeHeard DEF RunnerStep
<1>2. CASE \E a \in RunArgs : Run(a) BY <1>2, RunHeard
<1>3. CASE \E t \in Clients : Client(t)
    <2>1. PICK t \in Clients : Client(t) BY <1>3
    <2>2. CASE Stop(t) BY <2>2, StopHeard
    <2>3. CASE \/ \E s \in Sources : SourceSignal(t, s)
               \/ \E b \in Blocks : PerformBlock(t, b)
               \/ \E m \in Modes : StopMode(t, m)
        BY <2>3, CallHeard
    <2>4. CASE ClientWakeUp(t) BY <2>4, WakeUpHeard DEF ClientWakeUp
    <2>5. CASE \/ \E s \in Sources : SourceInvalidate(t, s)
               \/ \E s \in Sources, m \in Modes : RemoveSource(t, s, m)
               \/ RemoveFromRunLoop(t)
        BY <2>5, OtherCallsHeard
    <2> QED BY <2>1, <2>2, <2>3, <2>4, <2>5 DEF Client
<1>4. CASE Timers BY <1>4, TimeoutHeard, WakeUpHeard DEF Timers, TimeoutWakeUp
<1>5. CASE (\E s \in Sources1 : SendMessage(s)) \/ DispatchToMain \/ UNCHANGED vars
    BY <1>5, OtherCallsHeard
<1> QED BY <1>1, <1>2, <1>3, <1>4, <1>5 DEF Next

LEMMA InitiallyHeard == Init => CallsOK /\ SInv
BY DEF Init, CallsOK, SInv, Idle

LEMMA SleepImplied == SInv => SleepsOnlyWhenIdle
PROOF
<1> SUFFICES ASSUME SInv, Asleep, HasWork(Top), ~Top.ranNested PROVE FALSE
    BY DEF SleepsOnlyWhenIdle
<1>1. runs # <<>> /\ Top.pc = "Wait" /\ ~Top.poll BY DEF Asleep, At
<1>2. ~Pending BY DEF Asleep, Pending, LivePorts
<1>3. Watched(Top) BY <1>1 DEF SInv
<1>4. Hearing(Top) /\ Late(Top) /\ ~Early(Top)
    BY <1>1 DEF Hearing, Late, Early, InObservers
<1> QED BY <1>1, <1>2, <1>3, <1>4 DEF Watched, Heard, HasWork, Ready, Listed

\* A run only sleeps for good, with no message on its way, when there is no
\* signalled source, no block and no stop in its mode and no timeout of its own,
\* unless a callout of the pass ran the loop: whoever gives it work and then
\* wakes it is heard at every point of its way to sleep, or seen before.
THEOREM SleepsOnlyWhenIdleHolds == Spec => []SleepsOnlyWhenIdle
PROOF
<1> DEFINE Inv == IInv /\ Messages /\ BInv /\ CallsOK /\ SInv
<1>1. Init => Inv BY Initially, InitiallyApart, InitiallyHeard
<1>2. Inv /\ [Next]_vars => Inv'
    BY Inductive, MessagesInductive, StepKeeps, CallsInductive, SleepInductive
<1>3. Inv => SleepsOnlyWhenIdle BY SleepImplied
<1> HIDE DEF Inv
<1> QED BY <1>1, <1>2, <1>3, PTL DEF Spec

-----------------------------------------------------------------------------
(* Types, and the observers that are being called.                         *)

\* The values of an activation.
RunOK(f) ==
    /\ f.mode \in Modes /\ f.pc \in PCs /\ f.ret \in PCs
    /\ f.timeout \in {"never", "armed", "passed", "fired"}
    /\ f.stopAfterHandle \in BOOLEAN /\ f.stopped \in BOOLEAN /\ f.ignoring \in BOOLEAN
    /\ f.handled \in BOOLEAN /\ f.poll \in BOOLEAN /\ f.dispatch \in BOOLEAN
    /\ f.didDispatch \in BOOLEAN /\ f.ranNested \in BOOLEAN
    /\ f.toFire \subseteq DOMAIN ObservesAt /\ f.toPerform \subseteq Sources0
    /\ f.call \in Blocks \cup Sources0 \cup DOMAIN ObservesAt \cup {"none"}
    /\ f.live \in {"null", "wake", "main"} \cup Sources1

\* The observer of a callout has its firing bit set, and no run inside the
\* callout has collected or calls it.
Firing ==
    /\ \A i \in 1..Len(runs) : runs[i].pc = "InObserver" => runs[i].call \in firing
    /\ \A i, j \in 1..Len(runs) :
           i < j /\ runs[i].pc = "InObserver" =>
               /\ runs[i].call \notin runs[j].toFire
               /\ runs[j].pc = "InObserver" => runs[i].call # runs[j].call

Runs ==
    /\ Len(runs) <= MaxDepth
    /\ \A i \in 1..Len(runs) : RunOK(runs[i])
    /\ Firing

\* The values of the rest of the state.
Shared ==
    /\ valid \subseteq Sources /\ signaled \subseteq valid
    /\ modeStopped \subseteq Modes
    /\ firing \subseteq DOMAIN ObservesAt /\ obsValid \subseteq DOMAIN ObservesAt
    /\ wakeUpPort \in BOOLEAN /\ mainPort \in BOOLEAN /\ mainTasks \in BOOLEAN
    /\ timerWake \subseteq 1..MaxDepth

-----------------------------------------------------------------------------

LEMMA SharedInductive == Shared /\ [Next]_vars => Shared'
PROOF
<1> SUFFICES ASSUME Shared, [Next]_vars PROVE Shared' OBVIOUS
<1>1. CASE RunnerStep
    <2>1. CASE \/ Start \/ Check \/ Return \/ ObserverReturns \/ ObserversDone
               \/ \E o \in DOMAIN ObservesAt : FireObserver(o)
               \/ Notify("Entry", "Start") \/ Notify("Exit", "Return")
               \/ Notify("BeforeTimers", "BeforeSources") \/ Notify("BeforeSources", "Blocks1")
        BY <2>1 DEF Start, Check, Return, ObserverReturns, ObserversDone, FireObserver, Notify,
                    Shared, srcs, obs, ports, calls
    <2>2. CASE \/ DoBlocks("Blocks1", "Sources0") \/ DoBlocks("Blocks2", "PollDispatch")
               \/ DoBlocks("Blocks3", "Check") \/ ScanBlock \/ BlockReturns
               \/ CollectSources0 \/ Source0Returns \/ SourcesDone
               \/ \E s \in Sources0 : PerformSource0(s)
        BY <2>2 DEF DoBlocks, ScanBlock, BlockReturns, CollectSources0, Source0Returns,
                    SourcesDone, PerformSource0, Shared, srcs, obs, ports, calls
    <2>3. CASE \/ PollDispatch \/ BeforeWaiting \/ Woken \/ HandleMsg
               \/ \E p \in {"null", "wake", "main"} \cup Sources1 : Receive(p)
               \/ MainQueueReturns \/ PerformSource1 \/ Source1Returns
        BY <2>3 DEF PollDispatch, BeforeWaiting, Woken, HandleMsg, Receive, MainQueueReturns,
                    PerformSource1, Source1Returns, Shared, srcs, obs, ports, calls
    <2> QED BY <1>1, <2>1, <2>2, <2>3 DEF RunnerStep
<1>2. CASE \E a \in RunArgs : Run(a) BY <1>2 DEF Run, Shared, srcs, obs, ports, calls
<1>3. CASE \E t \in Clients : Client(t)
    BY <1>3 DEF Client, SourceSignal, SourceInvalidate, PerformBlock, Stop, StopMode,
                RemoveSource, ClientWakeUp, WakeUp, RemoveFromRunLoop, Shared, srcs, obs, ports,
                calls
<1>4. CASE Timers
    BY <1>4 DEF Timers, TimePasses, Timeout, TimeoutWakeUp, WakeUp, Shared, srcs, obs, ports, calls
<1>5. CASE (\E s \in Sources1 : SendMessage(s)) \/ DispatchToMain \/ UNCHANGED vars
    BY <1>5 DEF SendMessage, DispatchToMain, vars, Shared, srcs, obs, ports, calls
<1> QED BY <1>1, <1>2, <1>3, <1>4, <1>5 DEF Next

\* The innermost run becomes f.
LEMMA TopTyped ==
    ASSUME IInv, Runs, runs # <<>>, NEW f, SetTop(f), RunOK(f),
           f.pc = "InObserver" => f.call \in firing',
           \A i \in 1..Len(runs) : i < Len(runs) /\ runs[i].pc = "InObserver" =>
               /\ runs[i].call \in firing'
               /\ runs[i].call \notin f.toFire
               /\ f.pc = "InObserver" => runs[i].call # f.call
    PROVE  Runs'
PROOF
<1> PICK S : runs \in Seq(S) BY DEF IInv, Stack
<1>0. Len(runs) \in Nat OBVIOUS
<1>1. Len(runs) \in Nat /\ Len(runs) > 0 /\ runs' = [runs EXCEPT ![Len(runs)] = f]
    BY DEF SetTop
<1>2. Len(runs') = Len(runs) BY <1>1
<1>3. \A i \in 1..Len(runs) : runs'[i] = IF i = Len(runs) THEN f ELSE runs[i] BY <1>1
<1>4. \A i \in 1..Len(runs') : RunOK(runs'[i]) BY <1>2, <1>3 DEF Runs
<1>5. ASSUME NEW i \in 1..Len(runs'), runs'[i].pc = "InObserver"
      PROVE  runs'[i].call \in firing'
    <2>1. CASE i = Len(runs) BY <1>2, <1>3, <1>5, <2>1
    <2>2. CASE i # Len(runs)
        <3>1. i \in 1..Len(runs) /\ i < Len(runs) BY <1>0, <1>2, <2>2
        <3>2. runs'[i] = runs[i] BY <1>3, <2>2, <3>1
        <3> QED BY <1>5, <3>1, <3>2
    <2> QED BY <2>1, <2>2
<1>6. ASSUME NEW i \in 1..Len(runs'), NEW j \in 1..Len(runs'), i < j,
             runs'[i].pc = "InObserver"
      PROVE  /\ runs'[i].call \notin runs'[j].toFire
             /\ runs'[j].pc = "InObserver" => runs'[i].call # runs'[j].call
    <2>1. i < Len(runs) /\ runs'[i] = runs[i] BY <1>1, <1>2, <1>3, <1>6
    <2>2. CASE j = Len(runs) BY <1>2, <1>3, <1>6, <2>1, <2>2
    <2>3. CASE j # Len(runs)
        <3>1. runs'[j] = runs[j] BY <1>2, <1>3, <2>3
        <3> QED BY <1>2, <1>6, <2>1, <3>1 DEF Runs, Firing
    <2> QED BY <2>2, <2>3
<1> QED BY <1>2, <1>4, <1>5, <1>6 DEF Runs, Firing

LEMMA InnermostTyped ==
    ASSUME IInv, Runs, runs # <<>>
    PROVE  /\ RunOK(Top) /\ DOMAIN Top = Fields
           /\ \A i \in 1..Len(runs) : i < Len(runs) /\ runs[i].pc = "InObserver" =>
                  runs[i].call \in firing /\ runs[i].call \notin Top.toFire
BY TopOfStack DEF IInv, Runs, Firing, Top

\* The same, when f leaves the observers alone.
LEMMA TopStaysTyped ==
    ASSUME IInv, Runs, runs # <<>>, NEW f, SetTop(f), RunOK(f), UNCHANGED firing,
           f.toFire = Top.toFire, f.pc # "InObserver"
    PROVE  Runs'
BY TopTyped, InnermostTyped
-----------------------------------------------------------------------------

USE DEF PCs, Activities, Unlocked, Callouts

\* Observers are collected that no callout has.
LEMMA ObserversTyped ==
    ASSUME IInv, Shared, Runs, runs # <<>>, NEW g, RunOK(g), DOMAIN g = Fields,
           g.toFire = Top.toFire, g.pc # "InObserver",
           NEW activity, NEW ret \in PCs, ret # "InObserver",
           SetTop(DoObservers(g, activity, ret)), UNCHANGED firing
    PROVE  Runs'
PROOF
<1> DEFINE f == DoObservers(g, activity, ret)
           C == Collected(activity)
           h == [g EXCEPT !.pc = ret]
           k == [g EXCEPT !.pc = "Observers", !.ret = ret, !.toFire = C]
<1>1. f = h \/ f = k BY DEF DoObservers
<1>2. C \subseteq DOMAIN ObservesAt /\ \A o \in firing : o \notin C
    BY DEF Collected, Shared
<1> HIDE DEF C
<1>3. RunOK(h) /\ h.toFire = Top.toFire /\ h.pc # "InObserver"
    BY DEF RunOK, Fields
<1>4. RunOK(k) /\ k.toFire = C /\ k.pc = "Observers"
    BY <1>2 DEF RunOK, Fields
<1> HIDE DEF h, k
<1>5. CASE f = h BY <1>3, <1>5, TopStaysTyped
<1>6. CASE f = k BY <1>2, <1>4, <1>6, TopTyped, InnermostTyped
<1> QED BY <1>1, <1>5, <1>6

LEMMA ObserverStepsTyped ==
    ASSUME IInv, Shared, Runs,
           \/ Notify("Entry", "Start") \/ Notify("Exit", "Return")
           \/ Notify("BeforeTimers", "BeforeSources") \/ Notify("BeforeSources", "Blocks1")
           \/ \E o \in DOMAIN ObservesAt : FireObserver(o)
           \/ ObserverReturns \/ ObserversDone
    PROVE  Runs'
PROOF
<1>1. ASSUME NEW activity, NEW ret \in PCs, ret # "InObserver", activity # "InObserver",
             Notify(activity, ret)
      PROVE  Runs'
    <2>1. /\ runs # <<>> /\ Top.pc = activity /\ UNCHANGED firing
          /\ SetTop(DoObservers(Top, activity, ret))
        BY <1>1 DEF Notify, At, obs
    <2> QED BY <1>1, <2>1, InnermostTyped, ObserversTyped
<1>2. ASSUME NEW o \in DOMAIN ObservesAt, FireObserver(o) PROVE Runs'
    <2> DEFINE f == [Top EXCEPT !.pc = "InObserver", !.call = o, !.toFire = @ \ {o}]
               g == [Top EXCEPT !.toFire = @ \ {o}]
    <2>1. /\ runs # <<>> /\ Top.pc = "Observers" /\ o \in Top.toFire
          /\ \/ SetTop(f) /\ firing' = firing \cup {o}
             \/ SetTop(g) /\ firing' = firing
        BY <1>2 DEF FireObserver, First, At
    <2>2. RunOK(Top) /\ DOMAIN Top = Fields BY <2>1, InnermostTyped
    <2>3. /\ RunOK(f) /\ f.pc = "InObserver" /\ f.call = o /\ f.toFire = Top.toFire \ {o}
        BY <2>2 DEF RunOK, Fields
    <2>4. /\ RunOK(g) /\ g.pc = "Observers" /\ g.toFire = Top.toFire \ {o}
        BY <2>1, <2>2 DEF RunOK, Fields
    <2> HIDE DEF f, g
    <2>5. CASE SetTop(f) /\ firing' = firing \cup {o}
        BY <2>1, <2>3, <2>5, TopTyped, InnermostTyped
    <2>6. CASE SetTop(g) /\ firing' = firing
        BY <2>1, <2>4, <2>6, TopTyped, InnermostTyped
    <2> QED BY <2>1, <2>5, <2>6
<1>3. CASE ObserverReturns
    <2> DEFINE f == [Top EXCEPT !.pc = "Observers", !.call = "none"]
    <2>1. /\ runs # <<>> /\ Top.pc = "InObserver" /\ SetTop(f)
          /\ firing' = firing \ {Top.call}
        BY <1>3 DEF ObserverReturns, At
    <2>2. RunOK(Top) /\ DOMAIN Top = Fields BY <2>1, InnermostTyped
    <2>3. RunOK(f) /\ f.pc = "Observers" /\ f.toFire = Top.toFire
        BY <2>2 DEF RunOK, Fields
    <2> HIDE DEF f
    <2>4. \A i \in 1..Len(runs) : i < Len(runs) /\ runs[i].pc = "InObserver" =>
              runs[i].call # Top.call
        BY <2>1, TopOfStack DEF IInv, Runs, Firing, Top
    <2> QED BY <2>1, <2>3, <2>4, TopTyped, InnermostTyped
<1>4. CASE ObserversDone
    <2> DEFINE f == [Top EXCEPT !.pc = Top.ret]
    <2>1. /\ runs # <<>> /\ Top.pc = "Observers" /\ SetTop(f) /\ UNCHANGED firing
        BY <1>4 DEF ObserversDone, At, obs
    <2>2. RunOK(Top) /\ DOMAIN Top = Fields BY <2>1, InnermostTyped
    <2>3. RunOK(f) /\ f.pc = Top.ret /\ f.toFire = Top.toFire BY <2>2 DEF RunOK, Fields
    <2>4. Top.ret # "InObserver" BY <2>1, Innermost
    <2> HIDE DEF f
    <2> QED BY <2>1, <2>3, <2>4, TopStaysTyped
<1> QED BY <1>1, <1>2, <1>3, <1>4
LEMMA BlockStepsTyped ==
    ASSUME IInv, BInv, Runs,
           \/ DoBlocks("Blocks1", "Sources0") \/ DoBlocks("Blocks2", "PollDispatch")
           \/ DoBlocks("Blocks3", "Check")
           \/ ScanBlock \/ BlockReturns
    PROVE  Runs'
PROOF
<1>1. ASSUME NEW pc, NEW ret \in PCs, ret # "InObserver", DoBlocks(pc, ret)
      PROVE  Runs'
    <2> DEFINE f == [Top EXCEPT !.pc = ret]
               g == [Top EXCEPT !.pc = "Blocks", !.ret = ret, !.held = blocks]
    <2>1. runs # <<>> /\ (SetTop(f) \/ SetTop(g)) /\ UNCHANGED firing
        BY <1>1 DEF DoBlocks, At, obs
    <2>2. RunOK(Top) /\ DOMAIN Top = Fields BY <2>1, InnermostTyped
    <2>3. /\ RunOK(f) /\ f.pc = ret /\ f.toFire = Top.toFire
          /\ RunOK(g) /\ g.pc = "Blocks" /\ g.toFire = Top.toFire
        BY <1>1, <2>2 DEF RunOK, Fields
    <2> HIDE DEF f, g
    <2> QED BY <1>1, <2>1, <2>3, TopStaysTyped
<1>2. CASE ScanBlock
    <2> DEFINE b == Head(Top.held)
               f == [Top EXCEPT !.pc = Top.ret, !.kept = <<>>]
               g == [Top EXCEPT !.pc = "InBlock", !.call = b, !.held = Tail(@)]
               h == [Top EXCEPT !.kept = Append(@, b), !.held = Tail(@)]
    <2>1. /\ runs # <<>> /\ Top.pc = "Blocks" /\ UNCHANGED firing
          /\ \/ SetTop(f)
             \/ Top.held # <<>> /\ (SetTop(g) \/ SetTop(h))
        BY <1>2 DEF ScanBlock, Scanned, At, obs
    <2>2. RunOK(Top) /\ DOMAIN Top = Fields BY <2>1, InnermostTyped
    <2>3. Top.held # <<>> => b \in Blocks
        BY <2>1, InnermostHands, ElementsOfHeadTail DEF HandsOf
    <2> HIDE DEF b
    <2>4. RunOK(f) /\ f.pc = Top.ret /\ f.toFire = Top.toFire BY <2>2 DEF RunOK, Fields
    <2>5. Top.held # <<>> => RunOK(g) /\ g.pc = "InBlock" /\ g.toFire = Top.toFire
        BY <2>2, <2>3 DEF RunOK, Fields
    <2>6. RunOK(h) /\ h.pc = Top.pc /\ h.toFire = Top.toFire BY <2>2 DEF RunOK, Fields
    <2>7. Top.ret # "InObserver" BY <2>1, Innermost
    <2> HIDE DEF f, g, h
    <2> QED BY <2>1, <2>4, <2>5, <2>6, <2>7, TopStaysTyped
<1>3. CASE BlockReturns
    <2> DEFINE f == [Top EXCEPT !.pc = "Blocks", !.call = "none"]
    <2>1. runs # <<>> /\ SetTop(f) /\ UNCHANGED firing BY <1>3 DEF BlockReturns, At, obs
    <2>2. RunOK(Top) /\ DOMAIN Top = Fields BY <2>1, InnermostTyped
    <2>3. RunOK(f) /\ f.pc = "Blocks" /\ f.toFire = Top.toFire BY <2>2 DEF RunOK, Fields
    <2> HIDE DEF f
    <2> QED BY <2>1, <2>3, TopStaysTyped
<1> QED BY <1>1, <1>2, <1>3

LEMMA SourceStepsTyped ==
    ASSUME IInv, Runs,
           \/ CollectSources0 \/ Source0Returns \/ SourcesDone
           \/ \E s \in Sources0 : PerformSource0(s)
           \/ PerformSource1 \/ Source1Returns
    PROVE  Runs'
PROOF
<1>1. /\ runs # <<>> /\ UNCHANGED firing
      /\ RunOK(Top) /\ DOMAIN Top = Fields
    BY InnermostTyped
    DEF CollectSources0, Source0Returns, SourcesDone, PerformSource0, PerformSource1,
        Source1Returns, At, obs
<1>2. CASE CollectSources0
    <2> DEFINE C == sources[Top.mode] \cap Sources0 \cap valid \cap signaled
               f == [Top EXCEPT !.pc = "PollDispatch", !.toPerform = C]
               g == [Top EXCEPT !.pc = "Sources", !.toPerform = C]
    <2>1. SetTop(f) \/ SetTop(g) BY <1>2 DEF CollectSources0
    <2>2. C \subseteq Sources0 OBVIOUS
    <2> HIDE DEF C
    <2>3. /\ RunOK(f) /\ f.pc # "InObserver" /\ f.toFire = Top.toFire
          /\ RunOK(g) /\ g.pc # "InObserver" /\ g.toFire = Top.toFire
        BY <1>1, <2>2 DEF RunOK, Fields
    <2> HIDE DEF f, g
    <2> QED BY <1>1, <2>1, <2>3, TopStaysTyped
<1>3. CASE Source0Returns \/ SourcesDone
    <2> DEFINE f == [Top EXCEPT !.pc = "Sources", !.call = "none", !.handled = TRUE]
               g == [Top EXCEPT !.toPerform = {}, !.pc = "Blocks2"]
               h == [Top EXCEPT !.toPerform = {}, !.pc = "PollDispatch"]
    <2>1. SetTop(f) \/ SetTop(g) \/ SetTop(h) BY <1>3 DEF Source0Returns, SourcesDone
    <2>2. /\ RunOK(f) /\ f.pc # "InObserver" /\ f.toFire = Top.toFire
          /\ RunOK(g) /\ g.pc # "InObserver" /\ g.toFire = Top.toFire
          /\ RunOK(h) /\ h.pc # "InObserver" /\ h.toFire = Top.toFire
        BY <1>1 DEF RunOK, Fields
    <2> HIDE DEF f, g, h
    <2> QED BY <1>1, <2>1, <2>2, TopStaysTyped
<1>4. ASSUME NEW s \in Sources0, PerformSource0(s) PROVE Runs'
    <2> DEFINE f == [Top EXCEPT !.pc = "InSource0", !.call = s, !.toPerform = @ \ {s}]
               g == [Top EXCEPT !.toPerform = @ \ {s}]
    <2>1. Top.pc = "Sources" /\ (SetTop(f) \/ SetTop(g)) BY <1>4 DEF PerformSource0, At
    <2>2. /\ RunOK(f) /\ f.pc # "InObserver" /\ f.toFire = Top.toFire
          /\ RunOK(g) /\ g.pc # "InObserver" /\ g.toFire = Top.toFire
        BY <1>1, <1>4, <2>1 DEF RunOK, Fields
    <2> HIDE DEF f, g
    <2> QED BY <1>1, <2>1, <2>2, TopStaysTyped
<1>5. CASE PerformSource1 \/ Source1Returns
    <2> DEFINE f == [Top EXCEPT !.pc = "InSource1"]
               g == [Top EXCEPT !.pc = "Blocks3", !.live = "null"]
               h == [Top EXCEPT !.pc = "Blocks3", !.live = "null", !.handled = TRUE]
    <2>1. SetTop(f) \/ SetTop(g) \/ SetTop(h) BY <1>5 DEF PerformSource1, Source1Returns
    <2>2. /\ RunOK(f) /\ f.pc # "InObserver" /\ f.toFire = Top.toFire
          /\ RunOK(g) /\ g.pc # "InObserver" /\ g.toFire = Top.toFire
          /\ RunOK(h) /\ h.pc # "InObserver" /\ h.toFire = Top.toFire
        BY <1>1 DEF RunOK, Fields
    <2> HIDE DEF f, g, h
    <2> QED BY <1>1, <2>1, <2>2, TopStaysTyped
<1> QED BY <1>2, <1>3, <1>4, <1>5

\* What a pass begins with.
LEMMA NewPassTyped ==
    ASSUME NEW g, RunOK(g), DOMAIN g = Fields
    PROVE  /\ RunOK(NewPass(g)) /\ DOMAIN NewPass(g) = Fields
           /\ NewPass(g).toFire = g.toFire /\ NewPass(g).pc = "BeforeTimers"
BY DEF NewPass, RunOK, Fields

LEMMA StartAndCheckTyped ==
    ASSUME IInv, Runs, Start \/ Check PROVE Runs'
PROOF
<1>1. /\ runs # <<>> /\ UNCHANGED firing
      /\ RunOK(Top) /\ DOMAIN Top = Fields
    BY InnermostTyped DEF Start, Check, At, obs
<1> DEFINE d == ServesMainQueue(Top.mode)
           n == NewPass(Top)
           p == [n EXCEPT !.dispatch = d]
           f == [Top EXCEPT !.pc = "Exit"]
           g == [Top EXCEPT !.pc = "Exit", !.stopped = FALSE]
           h == [f EXCEPT !.stopped = FALSE]
<1>2. SetTop(n) \/ SetTop(p) \/ SetTop(f) \/ SetTop(g) \/ SetTop(h) BY DEF Start, Check
<1>3. RunOK(n) /\ DOMAIN n = Fields /\ n.toFire = Top.toFire /\ n.pc = "BeforeTimers"
    BY <1>1, NewPassTyped
<1>4. d \in BOOLEAN BY DEF ServesMainQueue
<1> HIDE DEF n, d
<1>5. RunOK(p) /\ p.toFire = Top.toFire /\ p.pc # "InObserver" BY <1>3, <1>4 DEF RunOK, Fields
<1>6. /\ RunOK(f) /\ f.toFire = Top.toFire /\ f.pc # "InObserver"
      /\ RunOK(g) /\ g.toFire = Top.toFire /\ g.pc # "InObserver"
      /\ RunOK(h) /\ h.toFire = Top.toFire /\ h.pc # "InObserver"
    BY <1>1 DEF RunOK, Fields
<1> HIDE DEF p, f, g, h
<1> QED BY <1>1, <1>2, <1>3, <1>5, <1>6, TopStaysTyped

LEMMA MessageStepsTyped ==
    ASSUME IInv, Shared, Runs,
           \/ PollDispatch \/ BeforeWaiting \/ Woken \/ HandleMsg
           \/ \E p \in {"null", "wake", "main"} \cup Sources1 : Receive(p)
           \/ MainQueueReturns
    PROVE  Runs'
PROOF
<1>1. /\ runs # <<>> /\ UNCHANGED firing
      /\ RunOK(Top) /\ DOMAIN Top = Fields
    BY InnermostTyped
    DEF PollDispatch, BeforeWaiting, Woken, HandleMsg, Receive, MainQueueReturns, At, obs
<1>2. CASE PollDispatch
    <2> DEFINE p == Top.handled \/ Top.timeout = "fired"
               f == [Top EXCEPT !.poll = p]
               g == [f EXCEPT !.pc = "HandleMsg", !.live = "main"]
               h == [f EXCEPT !.pc = "BeforeWaiting", !.didDispatch = FALSE]
    <2>1. SetTop(g) \/ SetTop(h) BY <1>2 DEF PollDispatch
    <2>2. p \in BOOLEAN OBVIOUS
    <2> HIDE DEF p
    <2>3. /\ RunOK(g) /\ g.pc # "InObserver" /\ g.toFire = Top.toFire
          /\ RunOK(h) /\ h.pc # "InObserver" /\ h.toFire = Top.toFire
        BY <1>1, <2>2 DEF RunOK, Fields
    <2> HIDE DEF f, g, h
    <2> QED BY <1>1, <2>1, <2>3, TopStaysTyped
<1>3. CASE BeforeWaiting
    <2> DEFINE f == [Top EXCEPT !.pc = "Wait"]
    <2>1. /\ Top.pc = "BeforeWaiting"
          /\ SetTop(f) \/ SetTop(DoObservers(Top, "BeforeWaiting", "Wait"))
        BY <1>3 DEF BeforeWaiting, At
    <2>2. RunOK(f) /\ f.pc = "Wait" /\ f.toFire = Top.toFire BY <1>1 DEF RunOK, Fields
    <2> HIDE DEF f
    <2>3. CASE SetTop(f) BY <1>1, <2>2, <2>3, TopStaysTyped
    <2>4. CASE SetTop(DoObservers(Top, "BeforeWaiting", "Wait"))
        BY <1>1, <2>1, <2>4, ObserversTyped
    <2> QED BY <2>1, <2>3, <2>4
<1>4. CASE Woken
    <2> DEFINE f == [Top EXCEPT !.ignoring = TRUE]
               g == [f EXCEPT !.pc = "HandleMsg"]
    <2>1. /\ Top.pc = "Woken"
          /\ SetTop(g) \/ SetTop(DoObservers(f, "AfterWaiting", "HandleMsg"))
        BY <1>4 DEF Woken, At
    <2>2. /\ RunOK(f) /\ DOMAIN f = Fields /\ f.pc = Top.pc /\ f.toFire = Top.toFire
          /\ RunOK(g) /\ g.pc = "HandleMsg" /\ g.toFire = Top.toFire
        BY <1>1 DEF RunOK, Fields
    <2> HIDE DEF f, g
    <2>3. CASE SetTop(g) BY <1>1, <2>2, <2>3, TopStaysTyped
    <2>4. CASE SetTop(DoObservers(f, "AfterWaiting", "HandleMsg"))
        BY <1>1, <2>1, <2>2, <2>4, ObserversTyped
    <2> QED BY <2>1, <2>3, <2>4
<1>5. CASE HandleMsg
    <2> DEFINE f == [Top EXCEPT !.ignoring = TRUE, !.poll = FALSE]
               g == [f EXCEPT !.pc = "InMainQueue"]
               h == [f EXCEPT !.pc = "Source1"]
               k == [f EXCEPT !.pc = "Blocks3", !.live = "null"]
    <2>1. SetTop(g) \/ SetTop(h) \/ SetTop(k) BY <1>5 DEF HandleMsg
    <2>2. /\ RunOK(g) /\ g.pc # "InObserver" /\ g.toFire = Top.toFire
          /\ RunOK(h) /\ h.pc # "InObserver" /\ h.toFire = Top.toFire
          /\ RunOK(k) /\ k.pc # "InObserver" /\ k.toFire = Top.toFire
        BY <1>1 DEF RunOK, Fields
    <2> HIDE DEF f, g, h, k
    <2> QED BY <1>1, <2>1, <2>2, TopStaysTyped
<1>6. ASSUME NEW p \in {"null", "wake", "main"} \cup Sources1, Receive(p) PROVE Runs'
    <2> DEFINE f == [Top EXCEPT !.pc = "Woken", !.live = p]
    <2>1. SetTop(f) BY <1>6 DEF Receive
    <2>2. RunOK(f) /\ f.pc # "InObserver" /\ f.toFire = Top.toFire
        BY <1>1, <1>6 DEF RunOK, Fields
    <2> HIDE DEF f
    <2> QED BY <1>1, <2>1, <2>2, TopStaysTyped
<1>7. CASE MainQueueReturns
    <2> DEFINE f == [Top EXCEPT !.pc = "Blocks3", !.live = "null", !.handled = TRUE,
                              !.didDispatch = TRUE]
    <2>1. SetTop(f) BY <1>7 DEF MainQueueReturns
    <2>2. RunOK(f) /\ f.pc # "InObserver" /\ f.toFire = Top.toFire
        BY <1>1 DEF RunOK, Fields
    <2> HIDE DEF f
    <2> QED BY <1>1, <2>1, <2>2, TopStaysTyped
<1> QED BY <1>2, <1>3, <1>4, <1>5, <1>6, <1>7
LEMMA RunTyped ==
    ASSUME IInv, Runs, NEW a \in RunArgs, Run(a) PROVE Runs'
PROOF
<1> DEFINE f == Activation(a)
<1>1. RunOK(f) /\ f.pc = "Entry" /\ f.toFire = {} BY DEF Activation, RunOK, RunArgs
<1> HIDE DEF f
<1>2. UNCHANGED firing BY DEF Run, obs
<1>3. MaxDepth \in Nat /\ MaxDepth >= 1 BY RunLoopAssumption DEF RunLoopAssumption
<1>4. CASE runs = <<>> /\ runs' = <<f>>
    <2>1. Len(runs') = 1 /\ runs'[1] = f BY <1>4
    <2> QED BY <1>1, <1>3, <2>1 DEF Runs, Firing
<1>5. CASE /\ runs # <<>> /\ Len(runs) < MaxDepth
           /\ runs' = Append([runs EXCEPT ![Len(runs)].ranNested = TRUE], f)
    <2> DEFINE n == Len(runs)
               g == [runs[n] EXCEPT !.ranNested = TRUE]
               r == [runs EXCEPT ![n] = g]
    <2> PICK S : runs \in Seq(S) BY DEF IInv, Stack
    <2>1. n \in Nat /\ n > 0 /\ runs' = Append(r, f) BY <1>5
    <2>2. /\ RunOK(g) /\ g.pc = runs[n].pc /\ g.call = runs[n].call
          /\ g.toFire = runs[n].toFire
        BY <1>5, InnermostTyped DEF Fields, Top, RunOK
    <2> HIDE DEF g
    <2>3. /\ r \in Seq(S \cup {g}) /\ Len(r) = n
          /\ \A i \in 1..n : r[i] = IF i = n THEN g ELSE runs[i]
        BY <2>1
    <2> HIDE DEF r
    <2>4. Len(runs') = n + 1 /\ runs'[n + 1] = f /\ \A i \in 1..n : runs'[i] = r[i]
        BY <2>1, <2>3
    <2>5. \A i \in 1..n : /\ RunOK(runs'[i]) /\ runs'[i].pc = runs[i].pc
                          /\ runs'[i].call = runs[i].call /\ runs'[i].toFire = runs[i].toFire
        BY <2>1, <2>2, <2>3, <2>4 DEF Runs
    <2>6. \A i \in 1..Len(runs') : i \in 1..n \/ (i = n + 1 /\ runs'[i] = f) BY <2>1, <2>4
    <2>7. Len(runs') <= MaxDepth BY <1>3, <1>5, <2>1, <2>4
    <2>8. \A i \in 1..Len(runs') : RunOK(runs'[i]) BY <1>1, <2>5, <2>6
    <2>9. Firing'
        <3>1. \A i \in 1..Len(runs') : runs'[i].pc = "InObserver" => runs'[i].call \in firing'
            BY <1>1, <1>2, <2>5, <2>6 DEF Runs, Firing
        <3>2. ASSUME NEW i \in 1..Len(runs'), NEW j \in 1..Len(runs'), i < j,
                     runs'[i].pc = "InObserver"
              PROVE  /\ runs'[i].call \notin runs'[j].toFire
                     /\ runs'[j].pc = "InObserver" => runs'[i].call # runs'[j].call
            <4>1. CASE j \in 1..n
                <5>1. i \in 1..n BY <2>1, <2>6, <3>2, <4>1
                <5> QED BY <2>5, <3>2, <4>1, <5>1 DEF Runs, Firing
            <4>2. CASE j \notin 1..n BY <1>1, <2>6, <4>2
            <4> QED BY <4>1, <4>2
        <3> QED BY <3>1, <3>2 DEF Firing
    <2> QED BY <2>7, <2>8, <2>9 DEF Runs
<1> QED BY <1>4, <1>5 DEF Run, f

LEMMA ReturnTyped ==
    ASSUME IInv, Runs, Return PROVE Runs'
PROOF
<1> PICK S : runs \in Seq(S) BY DEF IInv, Stack
<1>1. runs # <<>> /\ runs' = Front(runs) /\ UNCHANGED firing BY DEF Return, At, obs
<1> DEFINE n == Len(runs) - 1
<1>2. runs' = SubSeq(runs, 1, n) BY <1>1 DEF Front
<1>3. n \in Nat /\ Len(runs) = n + 1 BY <1>1
<1>4. \A i \in 1..n : runs[i] \in S BY <1>3
<1> HIDE DEF n
<1>5. Len(runs') = n /\ \A i \in 1..n : runs'[i] = runs[i] BY <1>2, <1>3, <1>4
<1>6. MaxDepth \in Nat BY RunLoopAssumption DEF RunLoopAssumption
<1>7. \A i \in 1..n : i \in 1..Len(runs) BY <1>3
<1> QED BY <1>1, <1>3, <1>5, <1>6, <1>7 DEF Runs, Firing

LEMMA StopTyped ==
    ASSUME IInv, Runs, NEW t \in Clients, Stop(t) PROVE Runs'
PROOF
<1> DEFINE f == [Top EXCEPT !.stopped = TRUE]
<1>1. runs # <<>> /\ SetTop(f) /\ UNCHANGED firing BY DEF Stop, obs
<1>2. RunOK(Top) /\ DOMAIN Top = Fields BY <1>1, InnermostTyped
<1>3. RunOK(f) /\ f.pc = Top.pc /\ f.call = Top.call /\ f.toFire = Top.toFire
    BY <1>2 DEF RunOK, Fields
<1> HIDE DEF f
<1>4. /\ Top.pc = "InObserver" => Top.call \in firing
      /\ \A i \in 1..Len(runs) : i < Len(runs) /\ runs[i].pc = "InObserver" =>
             /\ runs[i].call \in firing /\ runs[i].call \notin Top.toFire
             /\ Top.pc = "InObserver" => runs[i].call # Top.call
    BY <1>1, TopOfStack DEF IInv, Runs, Firing, Top
<1> QED BY <1>1, <1>3, <1>4, TopTyped

LEMMA TimeoutTyped ==
    ASSUME IInv, Runs, NEW i \in 1..MaxDepth, TimePasses(i) \/ Timeout(i) PROVE Runs'
PROOF
<1> PICK S : runs \in Seq(S) BY DEF IInv, Stack
<1>1. PICK v \in {"passed", "fired"} :
          i \in DOMAIN runs /\ runs' = [runs EXCEPT ![i].timeout = v] /\ UNCHANGED firing
    BY DEF TimePasses, Timeout, obs
<1> DEFINE g == [runs[i] EXCEPT !.timeout = v]
<1>2. i \in 1..Len(runs) /\ Len(runs) \in Nat /\ runs' = [runs EXCEPT ![i] = g] BY <1>1
<1>3. /\ RunOK(g) /\ g.pc = runs[i].pc /\ g.call = runs[i].call
      /\ g.toFire = runs[i].toFire
    BY <1>2 DEF IInv, Stack, Fields, Runs, RunOK
<1> HIDE DEF g
<1>4. /\ Len(runs') = Len(runs)
      /\ \A j \in 1..Len(runs) : runs'[j] = IF j = i THEN g ELSE runs[j]
    BY <1>2
<1>5. \A j \in 1..Len(runs) : /\ RunOK(runs'[j]) /\ runs'[j].pc = runs[j].pc
                              /\ runs'[j].call = runs[j].call /\ runs'[j].toFire = runs[j].toFire
    BY <1>3, <1>4 DEF Runs
<1> QED BY <1>1, <1>4, <1>5 DEF Runs, Firing

LEMMA RunsInductive == IInv /\ BInv /\ Shared /\ Runs /\ [Next]_vars => Runs'
PROOF
<1> SUFFICES ASSUME IInv, BInv, Shared, Runs, [Next]_vars PROVE Runs' OBVIOUS
<1>1. CASE RunnerStep
    BY <1>1, ReturnTyped, StartAndCheckTyped, ObserverStepsTyped, BlockStepsTyped,
       SourceStepsTyped, MessageStepsTyped DEF RunnerStep
<1>2. CASE \E a \in RunArgs : Run(a) BY <1>2, RunTyped
<1>3. ASSUME UNCHANGED <<runs, firing>> PROVE Runs' BY <1>3 DEF Runs, Firing
<1>4. CASE \E t \in Clients : Client(t)
    <2>1. PICK t \in Clients : Client(t) BY <1>4
    <2>2. CASE Stop(t) BY <2>2, StopTyped
    <2>3. CASE ~Stop(t)
        <3>1. UNCHANGED runs BY <2>1, <2>3, Others
        <3>2. UNCHANGED firing
            BY <2>1 DEF Client, SourceSignal, SourceInvalidate, PerformBlock, Stop, StopMode,
                        RemoveSource, ClientWakeUp, RemoveFromRunLoop, obs
        <3> QED BY <1>3, <3>1, <3>2
    <2> QED BY <2>2, <2>3
<1>5. CASE Timers
    <2>1. ASSUME NEW i \in 1..MaxDepth, TimeoutWakeUp(i) PROVE UNCHANGED <<runs, firing>>
        BY <2>1 DEF TimeoutWakeUp, obs
    <2> QED BY <1>3, <1>5, <2>1, TimeoutTyped DEF Timers
<1>6. CASE (\E s \in Sources1 : SendMessage(s)) \/ DispatchToMain \/ UNCHANGED vars
    BY <1>3, <1>6 DEF SendMessage, DispatchToMain, vars, obs
<1> QED BY <1>1, <1>2, <1>4, <1>5, <1>6 DEF Next

LEMMA InitiallyTyped == Init => Shared /\ Runs
PROOF
<1> SUFFICES ASSUME Init PROVE Shared /\ Runs OBVIOUS
<1>1. Shared BY DEF Init, Shared
<1>2. Len(runs) = 0 BY DEF Init
<1>3. MaxDepth \in Nat BY RunLoopAssumption DEF RunLoopAssumption
<1>4. Runs BY <1>2, <1>3 DEF Runs, Firing
<1> QED BY <1>1, <1>4

LEMMA TypesImplied ==
    IInv /\ Messages /\ BInv /\ CallsOK /\ Shared /\ Runs => TypeOK
PROOF
<1> SUFFICES ASSUME IInv, Messages, BInv, CallsOK, Shared, Runs PROVE TypeOK OBVIOUS
<1> PICK S : runs \in Seq(S) BY DEF IInv, Stack
<1>1. DOMAIN runs = 1..Len(runs) /\ Len(runs) \in Nat OBVIOUS
<1>2. ASSUME NEW i \in DOMAIN runs
      PROVE  LET f == runs[i] IN
          /\ f.mode \in Modes /\ {f.pc, f.ret} \subseteq PCs
          /\ f.timeout \in {"never", "armed", "passed", "fired"}
          /\ {f.stopAfterHandle, f.stopped, f.ignoring, f.handled, f.poll,
              f.dispatch, f.didDispatch, f.ranNested} \subseteq BOOLEAN
          /\ f.toFire \subseteq DOMAIN ObservesAt /\ f.toPerform \subseteq Sources0
          /\ f.held \in Seq(Blocks) /\ f.kept \in Seq(Blocks)
          /\ f.call \in Blocks \cup Sources0 \cup DOMAIN ObservesAt \cup {"none"}
          /\ f.live \in {"null", "wake", "main"} \cup Sources1
          /\ f.held \o f.kept # <<>> => f.pc \in {"Blocks", "InBlock"}
          /\ i < Len(runs) => f.pc \in Callouts
    <2> DEFINE f == runs[i]
    <2>1. RunOK(f) /\ HandsOf(f) BY <1>1, <1>2 DEF Runs, BInv
    <2>2. i < Len(runs) => f.pc \in Callouts BY <1>1, <1>2 DEF IInv, Stack
    <2> HIDE DEF f
    <2>3. f.held \o f.kept # <<>> => f.pc \in {"Blocks", "InBlock"}
        <3>1. <<>> \o <<>> = <<>> OBVIOUS
        <3> QED BY <2>1, <3>1 DEF HandsOf, InBlocks
    <2> HIDE DEF PCs
    <2>4. /\ f.mode \in Modes /\ {f.pc, f.ret} \subseteq PCs
          /\ f.timeout \in {"never", "armed", "passed", "fired"}
          /\ {f.stopAfterHandle, f.stopped, f.ignoring, f.handled, f.poll,
              f.dispatch, f.didDispatch, f.ranNested} \subseteq BOOLEAN
          /\ f.toFire \subseteq DOMAIN ObservesAt /\ f.toPerform \subseteq Sources0
          /\ f.call \in Blocks \cup Sources0 \cup DOMAIN ObservesAt \cup {"none"}
          /\ f.live \in {"null", "wake", "main"} \cup Sources1
        BY <2>1 DEF RunOK
    <2>5. f.held \in Seq(Blocks) /\ f.kept \in Seq(Blocks) BY <2>1 DEF HandsOf
    <2> QED BY <2>2, <2>3, <2>4, <2>5 DEF f
<1>3. /\ Len(runs) <= MaxDepth
      /\ sources \in [Modes -> SUBSET Sources]
      /\ valid \subseteq Sources /\ signaled \subseteq valid /\ modeStopped \subseteq Modes
      /\ blocks \in Seq(Blocks) /\ posted \in Seq(Blocks)
      /\ firing \subseteq DOMAIN ObservesAt /\ obsValid \subseteq DOMAIN ObservesAt
      /\ {wakeUpPort, mainPort, mainTasks} \subseteq BOOLEAN
      /\ msgs \subseteq Sources1
      /\ doing \in [Clients -> {Idle, Waking} \cup Sources]
      /\ timerWake \subseteq 1..MaxDepth
    BY DEF Runs, CallsOK, Shared, BInv, Lists, Messages
<1> QED BY <1>2, <1>3 DEF TypeOK

LEMMA FiringImplied == IInv /\ Runs => ObserverNotReentered
PROOF
<1> SUFFICES ASSUME IInv, Runs, NEW i \in DOMAIN runs, NEW j \in DOMAIN runs, i # j,
                    runs[i].pc = "InObserver", runs[j].pc = "InObserver",
                    runs[i].call = runs[j].call
             PROVE  FALSE
    BY DEF ObserverNotReentered
<1> PICK S : runs \in Seq(S) BY DEF IInv, Stack
<1>1. i \in 1..Len(runs) /\ j \in 1..Len(runs) /\ Len(runs) \in Nat OBVIOUS
<1>2. i < j \/ j < i BY <1>1
<1> QED BY <1>1, <1>2 DEF Runs, Firing

TypesInv == IInv /\ Messages /\ BInv /\ CallsOK /\ Shared /\ Runs

LEMMA AllTyped == Spec => []TypesInv
PROOF
<1>1. Init => TypesInv
    BY Initially, InitiallyApart, InitiallyHeard, InitiallyTyped DEF TypesInv
<1>2. TypesInv /\ [Next]_vars => TypesInv'
    BY Inductive, MessagesInductive, StepKeeps, CallsInductive, SharedInductive, RunsInductive
       DEF TypesInv
<1> QED BY <1>1, <1>2, PTL DEF Spec

\* Every value of the run loop, its modes, sources, observers, blocks and of
\* each activation on the stack stays of its type.
THEOREM TypeCorrectness == Spec => []TypeOK
PROOF
<1>1. TypesInv => TypeOK BY TypesImplied DEF TypesInv
<1> QED BY <1>1, AllTyped, PTL

\* An observer is not called while a callout of it runs, by any of the runs its
\* callout may make: its firing bit is set for the callout, and no run inside
\* collects an observer that is firing.
THEOREM ObserverNotReenteredHolds == Spec => []ObserverNotReentered
PROOF
<1>1. TypesInv => ObserverNotReentered BY FiringImplied DEF TypesInv
<1> QED BY <1>1, AllTyped, PTL

-----------------------------------------------------------------------------
(* The order of blocks, by the sequence p of those queued so far.          *)

Earlier(p, x, y) == \E i, j \in 1..Len(p) : i < j /\ p[i] = x /\ p[j] = y
Precede(p, S, T) == \A x \in S, y \in T : Earlier(p, x, y)
Sorted(p, s) == \A i, j \in 1..Len(s) : i < j => Earlier(p, s[i], s[j])
Once(p) == \A i, j \in 1..Len(p) : p[i] = p[j] => i = j

\* What a run took is in order; it keeps blocks of other modes only, which are
\* earlier than those it still holds.
Ordered(p, f) ==
    /\ Sorted(p, f.held) /\ Sorted(p, f.kept)
    /\ Precede(p, ToSet(f.kept), ToSet(f.held))
    /\ \A b \in ToSet(f.kept) : f.mode \notin RunsIn[b]

\* A run took its blocks before the list got those it has now, and before any
\* run inside it took some.
OInv ==
    /\ Once(posted) /\ Sorted(posted, blocks)
    /\ \A i \in 1..Len(runs) :
           Ordered(posted, runs[i]) /\ Precede(posted, Takes(runs[i]), Listed)
    /\ \A i, j \in 1..Len(runs) :
           i < j => Precede(posted, Takes(runs[i]), Takes(runs[j]))

\* The property's action.
CalledInOrder ==
    \A j \in DOMAIN posted :
        LET d == Len(runs) IN
        (d > 0 /\ ~Called(d, posted[j]) /\ Len(runs') = d /\ Called(d, posted[j])')
        => \A i \in 1..(j - 1) :
             Top.mode \in RunsIn[posted[i]] => ~InList(posted[i]) /\ ~TakenBy(d, posted[i])

LEMMA EarlierIsStrict ==
    ASSUME NEW p \in Seq(Blocks), Once(p), NEW x, NEW y, Earlier(p, x, y)
    PROVE  x # y /\ ~Earlier(p, y, x)
PROOF
<1> PICK i \in 1..Len(p) : \E j \in 1..Len(p) : i < j /\ p[i] = x /\ p[j] = y BY DEF Earlier
<1> PICK j \in 1..Len(p) : i < j /\ p[i] = x /\ p[j] = y OBVIOUS
<1>1. x # y BY DEF Once
<1>2. ASSUME NEW k \in 1..Len(p), NEW l \in 1..Len(p), k < l, p[k] = y, p[l] = x PROVE FALSE
    <2>1. k = j /\ l = i BY <1>2 DEF Once
    <2> QED BY <1>2, <2>1
<1> QED BY <1>1, <1>2 DEF Earlier

LEMMA SortedTail ==
    ASSUME NEW p, NEW s \in Seq(Blocks), s # <<>>, Sorted(p, s)
    PROVE  Sorted(p, Tail(s)) /\ Precede(p, {Head(s)}, ToSet(Tail(s)))
PROOF
<1> DEFINE t == Tail(s)
<1>1. /\ t \in Seq(Blocks) /\ Head(s) = s[1] /\ Len(s) \in Nat \ {0}
      /\ Len(t) = Len(s) - 1
      /\ \A i \in 1..(Len(s) - 1) : t[i] = s[i + 1]
    OBVIOUS
<1> HIDE DEF t
<1>2. ASSUME NEW i \in 1..Len(t), NEW j \in 1..Len(t), i < j PROVE Earlier(p, t[i], t[j])
    <2>1. i + 1 \in 1..Len(s) /\ j + 1 \in 1..Len(s) /\ i + 1 < j + 1 BY <1>1, <1>2
    <2>2. t[i] = s[i + 1] /\ t[j] = s[j + 1] BY <1>1
    <2> QED BY <2>1, <2>2 DEF Sorted
<1>3. ASSUME NEW y \in ToSet(t) PROVE Earlier(p, Head(s), y)
    <2>1. PICK i \in 1..Len(t) : y = t[i] BY <1>1, <1>3, Elements
    <2>2. 1 \in 1..Len(s) /\ i + 1 \in 1..Len(s) /\ 1 < i + 1 /\ y = s[i + 1] BY <1>1, <2>1
    <2> QED BY <1>1, <2>2 DEF Sorted
<1> QED BY <1>2, <1>3 DEF Sorted, Precede, t

LEMMA SortedAppend ==
    ASSUME NEW p, NEW s \in Seq(Blocks), NEW b \in Blocks, Sorted(p, s),
           Precede(p, ToSet(s), {b})
    PROVE  Sorted(p, Append(s, b))
PROOF
<1> DEFINE t == Append(s, b)
<1>1. /\ t \in Seq(Blocks) /\ Len(t) = Len(s) + 1 /\ Len(s) \in Nat
      /\ \A i \in 1..Len(s) : t[i] = s[i]
      /\ t[Len(s) + 1] = b
    OBVIOUS
<1>2. \A i \in 1..Len(s) : s[i] \in ToSet(s) BY Elements
<1> HIDE DEF t
<1>3. ASSUME NEW i \in 1..Len(t), NEW j \in 1..Len(t), i < j PROVE Earlier(p, t[i], t[j])
    <2>1. i \in 1..Len(s) /\ t[i] = s[i] BY <1>1, <1>3
    <2>2. CASE j = Len(s) + 1 BY <1>1, <1>2, <2>1, <2>2 DEF Precede
    <2>3. CASE j # Len(s) + 1
        <3>1. j \in 1..Len(s) /\ t[j] = s[j] BY <1>1, <2>3
        <3> QED BY <1>3, <2>1, <3>1 DEF Sorted
    <2> QED BY <2>2, <2>3
<1> QED BY <1>3 DEF Sorted, t

LEMMA SortedConcat ==
    ASSUME NEW p, NEW s \in Seq(Blocks), NEW t \in Seq(Blocks), Sorted(p, s), Sorted(p, t),
           Precede(p, ToSet(s), ToSet(t))
    PROVE  Sorted(p, s \o t)
PROOF
<1> DEFINE u == s \o t
<1>1. /\ u \in Seq(Blocks) /\ Len(u) = Len(s) + Len(t) /\ Len(s) \in Nat /\ Len(t) \in Nat
      /\ \A i \in 1..Len(s) : u[i] = s[i]
      /\ \A i \in 1..Len(t) : u[Len(s) + i] = t[i]
    OBVIOUS
<1>2. (\A i \in 1..Len(s) : s[i] \in ToSet(s)) /\ (\A i \in 1..Len(t) : t[i] \in ToSet(t))
    BY Elements
<1> HIDE DEF u
<1>3. ASSUME NEW i \in 1..Len(u) PROVE i \in 1..Len(s) \/ \E k \in 1..Len(t) : i = Len(s) + k
    <2>1. CASE i > Len(s)
        <3>1. i - Len(s) \in 1..Len(t) /\ i = Len(s) + (i - Len(s)) BY <1>1, <2>1
        <3> QED BY <3>1
    <2> QED BY <1>1, <2>1
<1>4. ASSUME NEW i \in 1..Len(u), NEW j \in 1..Len(u), i < j PROVE Earlier(p, u[i], u[j])
    <2>1. CASE i \in 1..Len(s) /\ j \in 1..Len(s) BY <1>1, <1>4, <2>1 DEF Sorted
    <2>2. CASE i \in 1..Len(s) /\ j \notin 1..Len(s)
        <3>1. PICK k \in 1..Len(t) : j = Len(s) + k BY <1>3, <2>2
        <3> QED BY <1>1, <1>2, <2>2, <3>1 DEF Precede
    <2>3. CASE i \notin 1..Len(s)
        <3>1. PICK k \in 1..Len(t) : i = Len(s) + k BY <1>3, <2>3
        <3>2. PICK l \in 1..Len(t) : j = Len(s) + l
            <4>1. j \notin 1..Len(s) BY <1>1, <1>4, <2>3
            <4> QED BY <1>3, <4>1
        <3>3. k < l BY <1>1, <1>4, <3>1, <3>2
        <3>4. u[i] = t[k] /\ u[j] = t[l] BY <1>1, <3>1, <3>2
        <3> QED BY <3>3, <3>4 DEF Sorted
    <2> QED BY <2>1, <2>2, <2>3
<1> QED BY <1>4 DEF Sorted, u

\* A block queued now is behind all those queued before.
LEMMA QueuedLast ==
    ASSUME NEW p \in Seq(Blocks), NEW b \in Blocks, b \notin ToSet(p), Once(p)
    PROVE  /\ Once(Append(p, b))
           /\ \A x, y : Earlier(p, x, y) => Earlier(Append(p, b), x, y)
           /\ \A x \in ToSet(p) : Earlier(Append(p, b), x, b)
PROOF
<1> DEFINE q == Append(p, b)
<1>1. /\ q \in Seq(Blocks) /\ Len(q) = Len(p) + 1 /\ Len(p) \in Nat
      /\ \A i \in 1..Len(p) : q[i] = p[i]
      /\ q[Len(p) + 1] = b
    OBVIOUS
<1>2. \A x : x \in ToSet(p) <=> \E i \in 1..Len(p) : x = p[i] BY Elements
<1> HIDE DEF q
<1>3. \A i \in 1..Len(q) : i \in 1..Len(p) \/ i = Len(p) + 1 BY <1>1
<1>4. Once(q)
    <2> SUFFICES ASSUME NEW i \in 1..Len(q), NEW j \in 1..Len(q), q[i] = q[j] PROVE i = j
        BY DEF Once
    <2>1. CASE i \in 1..Len(p) /\ j \in 1..Len(p) BY <1>1, <2>1 DEF Once
    <2>2. CASE i \in 1..Len(p) /\ j = Len(p) + 1 BY <1>1, <1>2, <2>2
    <2>3. CASE i = Len(p) + 1 /\ j \in 1..Len(p) BY <1>1, <1>2, <2>3
    <2> QED BY <1>3, <2>1, <2>2, <2>3
<1>5. 1..Len(p) \subseteq 1..Len(q) BY <1>1
<1>6. ASSUME NEW x, NEW y, Earlier(p, x, y) PROVE Earlier(q, x, y)
    BY <1>1, <1>5, <1>6 DEF Earlier
<1>7. ASSUME NEW x \in ToSet(p) PROVE Earlier(q, x, b)
    <2>1. PICK i \in 1..Len(p) : x = p[i] BY <1>2
    <2>2. i \in 1..Len(q) /\ Len(p) + 1 \in 1..Len(q) /\ i < Len(p) + 1 BY <1>1
    <2> QED BY <1>1, <2>1, <2>2 DEF Earlier
<1> QED BY <1>4, <1>6, <1>7 DEF q

-----------------------------------------------------------------------------
(* How the order is kept.                                                  *)

\* Where no block moves.
LEMMA SteadyOrdered ==
    ASSUME IInv', OInv, Steady PROVE OInv'
PROOF
<1> PICK T : runs' \in Seq(T) BY DEF IInv, Stack
<1>1. posted' = posted /\ blocks' = blocks /\ Listed' = Listed BY DEF Steady, lists, Listed
<1>2. ASSUME NEW i \in 1..Len(runs')
      PROVE  \/ /\ Takes(runs'[i]) = {} /\ Ordered(posted, runs'[i])
             \/ /\ i \in 1..Len(runs) /\ Takes(runs'[i]) = Takes(runs[i])
                /\ Ordered(posted, runs'[i])
    <2>1. CASE runs'[i].held = <<>> /\ runs'[i].kept = <<>>
        BY <2>1, NoElements DEF Takes, Ordered, Sorted, Precede
    <2>2. CASE /\ i \in 1..Len(runs)
               /\ runs'[i].held = runs[i].held /\ runs'[i].kept = runs[i].kept
               /\ runs'[i].mode = runs[i].mode
        <3>1. Ordered(posted, runs[i]) BY <2>2 DEF OInv
        <3> QED BY <2>2, <3>1 DEF Takes, Ordered
    <2> QED BY <2>1, <2>2 DEF Steady
<1>3. ASSUME NEW i \in 1..Len(runs') PROVE Precede(posted, Takes(runs'[i]), Listed)
    BY <1>2 DEF OInv, Precede
<1>4. ASSUME NEW i \in 1..Len(runs'), NEW j \in 1..Len(runs'), i < j
      PROVE  Precede(posted, Takes(runs'[i]), Takes(runs'[j]))
    <2>1. CASE Takes(runs'[i]) = {} \/ Takes(runs'[j]) = {} BY <2>1 DEF Precede
    <2>2. CASE /\ i \in 1..Len(runs) /\ Takes(runs'[i]) = Takes(runs[i])
               /\ j \in 1..Len(runs) /\ Takes(runs'[j]) = Takes(runs[j])
        BY <1>4, <2>2 DEF OInv
    <2> QED BY <1>2, <2>1, <2>2
<1>5. Once(posted) /\ Sorted(posted, blocks) BY DEF OInv
<1> QED BY <1>1, <1>2, <1>3, <1>4, <1>5 DEF OInv

\* Where blocks move between the innermost run, which becomes f, and the list.
LEMMA MoveOrdered ==
    ASSUME IInv, OInv, runs # <<>>, NEW f, SetTop(f), posted' = posted,
           Ordered(posted, f), Sorted(posted, blocks'), Precede(posted, Takes(f), Listed'),
           Takes(f) \cup Listed' \subseteq Takes(Top) \cup Listed
    PROVE  OInv'
PROOF
<1> DEFINE n == Len(runs)
<1>1. /\ Top' = f /\ Len(runs') = n
      /\ \A i \in 1..n : i < n => runs'[i] = runs[i]
    BY TopBecomes
<1>2. n \in Nat /\ n \in 1..n /\ Top = runs[n] /\ f = runs'[n]
    BY <1>1, TopOfStack DEF IInv, Top
<1> HIDE DEF n
<1>3. \A i \in 1..n : i = n \/ i < n BY <1>2
<1>4. ASSUME NEW i \in 1..n, i < n
      PROVE  /\ runs'[i] = runs[i] /\ Ordered(posted, runs[i])
             /\ Precede(posted, Takes(runs[i]), Takes(Top) \cup Listed)
    <2>1. Ordered(posted, runs[i]) /\ Precede(posted, Takes(runs[i]), Listed)
        BY <1>4 DEF OInv, n
    <2>2. Precede(posted, Takes(runs[i]), Takes(Top)) BY <1>2, <1>4 DEF OInv, n
    <2> QED BY <1>1, <1>4, <2>1, <2>2 DEF Precede
<1>5. ASSUME NEW i \in 1..n
      PROVE  Ordered(posted, runs'[i]) /\ Precede(posted, Takes(runs'[i]), Listed')
    <2>1. CASE i = n BY <1>2, <2>1
    <2>2. CASE i < n BY <1>4, <2>2 DEF Precede
    <2> QED BY <1>3, <2>1, <2>2
<1>6. ASSUME NEW i \in 1..n, NEW j \in 1..n, i < j
      PROVE  Precede(posted, Takes(runs'[i]), Takes(runs'[j]))
    <2>1. i < n BY <1>2, <1>6
    <2>2. CASE j = n BY <1>2, <1>4, <2>1, <2>2 DEF Precede
    <2>3. CASE j < n
        <3>1. runs'[i] = runs[i] /\ runs'[j] = runs[j] BY <1>4, <2>1, <2>3
        <3> QED BY <1>6, <3>1 DEF OInv, n
    <2> QED BY <1>3, <2>2, <2>3
<1>7. Once(posted) BY DEF OInv
<1> QED BY <1>1, <1>5, <1>6, <1>7 DEF OInv

LEMMA InnermostOrder ==
    ASSUME IInv, OInv, runs # <<>>
    PROVE  Ordered(posted, Top) /\ Precede(posted, Takes(Top), Listed)
PROOF
<1>1. Len(runs) \in 1..Len(runs) /\ Top = runs[Len(runs)] BY TopOfStack DEF IInv, Top
<1> QED BY <1>1 DEF OInv

LEMMA DoBlocksOrdered ==
    ASSUME IInv, BInv, OInv, NEW pc, NEW ret, pc \notin InBlocks, ret \notin NotReturnedTo,
           DoBlocks(pc, ret)
    PROVE  OInv' /\ Top'.pc # "InBlock" /\ posted' = posted
PROOF
<1> DEFINE f == [Top EXCEPT !.pc = ret]
           g == [Top EXCEPT !.pc = "Blocks", !.ret = ret, !.held = blocks]
<1>1. /\ runs # <<>> /\ blocks' = <<>> /\ posted' = posted
      /\ SetTop(f) \/ SetTop(g)
    BY DEF DoBlocks, At
<1>2. /\ DOMAIN Top = Fields /\ Top.held = <<>> /\ Top.kept = <<>>
    BY <1>1, Innermost, InnermostHands DEF DoBlocks, At, HandsOf, InBlocks
<1>3. /\ f.held = <<>> /\ f.kept = <<>> /\ f.pc = ret
      /\ g.held = blocks /\ g.kept = <<>> /\ g.pc = "Blocks"
    BY <1>2 DEF Fields
<1> HIDE DEF f, g
<1>4. Takes(f) = {} /\ Takes(g) = Listed /\ Listed' = {}
    BY <1>1, <1>3, NoElements DEF Takes, Listed
<1>5. Sorted(posted, blocks) /\ Sorted(posted, <<>>) BY DEF OInv, Sorted
<1>6. Ordered(posted, f) /\ Ordered(posted, g)
    BY <1>3, <1>5, NoElements DEF Ordered, Precede
<1>7. Precede(posted, Takes(f), Listed') /\ Precede(posted, Takes(g), Listed')
    BY <1>4 DEF Precede
<1>8. Top' = f \/ Top' = g BY <1>1, TopBecomes
<1>9. Top'.pc # "InBlock" BY <1>3, <1>8
<1>10. Sorted(posted, blocks') BY <1>1, <1>5
<1>11. OInv' BY <1>1, <1>4, <1>6, <1>7, <1>10, MoveOrdered
<1> QED BY <1>1, <1>9, <1>11

\* The block called is the first of those the run took, and what it keeps is
\* for other modes.
LEMMA ScanBlockOrdered ==
    ASSUME IInv, BInv, OInv, ScanBlock
    PROVE  /\ OInv' /\ posted' = posted
           /\ Top'.pc = "InBlock" =>
                  Top.held # <<>> /\ Top'.call = Head(Top.held)
PROOF
<1> DEFINE b == Head(Top.held)
           f == [Top EXCEPT !.pc = Top.ret, !.kept = <<>>]
           g == [Top EXCEPT !.pc = "InBlock", !.call = b, !.held = Tail(@)]
           h == [Top EXCEPT !.kept = Append(@, b), !.held = Tail(@)]
<1>1. /\ runs # <<>> /\ Top.pc = "Blocks" /\ posted' = posted
      /\ \/ Top.held = <<>> /\ blocks' = Top.kept \o blocks /\ SetTop(f)
         \/ /\ Top.held # <<>> /\ blocks' = blocks
            /\ SetTop(g) \/ (Top.mode \notin RunsIn[b] /\ SetTop(h))
    BY DEF ScanBlock, Scanned, At
<1>2. /\ DOMAIN Top = Fields /\ Top.held \in Seq(Blocks) /\ Top.kept \in Seq(Blocks)
      /\ blocks \in Seq(Blocks) /\ Top.ret \notin NotReturnedTo
    BY <1>1, Innermost, InnermostHands DEF HandsOf, BInv, Lists
<1>3. /\ Sorted(posted, Top.held) /\ Sorted(posted, Top.kept) /\ Sorted(posted, blocks)
      /\ Precede(posted, ToSet(Top.kept), ToSet(Top.held))
      /\ \A x \in ToSet(Top.kept) : Top.mode \notin RunsIn[x]
      /\ Precede(posted, ToSet(Top.held), Listed)
      /\ Precede(posted, ToSet(Top.kept), Listed)
    BY <1>1, InnermostOrder DEF Ordered, OInv, Takes, Precede
<1>4. CASE Top.held = <<>> /\ blocks' = Top.kept \o blocks /\ SetTop(f)
    <2>1. f.held = <<>> /\ f.kept = <<>> /\ f.pc = Top.ret BY <1>2, <1>4 DEF Fields
    <2> HIDE DEF f
    <2>2. Takes(f) = {} /\ Takes(Top) = ToSet(Top.kept)
        BY <1>4, <2>1, NoElements DEF Takes
    <2>3. Ordered(posted, f) BY <2>1, NoElements DEF Ordered, Precede, Sorted
    <2>4. Listed' = ToSet(Top.kept) \cup Listed BY <1>2, <1>4, ElementsOfConcat DEF Listed
    <2>5. Sorted(posted, blocks') BY <1>2, <1>3, <1>4, SortedConcat DEF Listed
    <2>6. Precede(posted, Takes(f), Listed') BY <2>2 DEF Precede
    <2>7. OInv' BY <1>1, <1>4, <2>2, <2>3, <2>4, <2>5, <2>6, MoveOrdered
    <2>8. Top' = f BY <1>1, <1>4, TopBecomes
    <2> QED BY <1>1, <1>2, <2>1, <2>7, <2>8
<1>5. CASE /\ Top.held # <<>> /\ blocks' = blocks
           /\ SetTop(g) \/ (Top.mode \notin RunsIn[b] /\ SetTop(h))
    <2>1. /\ Tail(Top.held) \in Seq(Blocks) /\ b \in Blocks
          /\ ToSet(Top.held) = {b} \cup ToSet(Tail(Top.held))
        BY <1>2, <1>5, ElementsOfHeadTail
    <2>2. /\ Append(Top.kept, b) \in Seq(Blocks)
          /\ ToSet(Append(Top.kept, b)) = ToSet(Top.kept) \cup {b}
        BY <1>2, <2>1, ElementsOfAppend
    <2>3. /\ Sorted(posted, Tail(Top.held))
          /\ Precede(posted, {b}, ToSet(Tail(Top.held)))
        BY <1>2, <1>3, <1>5, SortedTail
    <2>4. Precede(posted, ToSet(Top.kept), {b}) BY <1>3, <2>1 DEF Precede
    <2>5. Sorted(posted, Append(Top.kept, b)) BY <1>2, <1>3, <2>1, <2>4, SortedAppend
    <2>6. b = Head(Top.held) OBVIOUS
    <2> HIDE DEF b
    <2>7. /\ g.held = Tail(Top.held) /\ g.kept = Top.kept /\ g.pc = "InBlock" /\ g.call = b
          /\ h.held = Tail(Top.held) /\ h.kept = Append(Top.kept, b) /\ h.pc = "Blocks"
          /\ g.mode = Top.mode /\ h.mode = Top.mode
        BY <1>1, <1>2 DEF Fields
    <2> HIDE DEF g, h
    <2>8. Takes(g) \subseteq Takes(Top) /\ Takes(h) \subseteq Takes(Top)
        BY <2>1, <2>2, <2>7 DEF Takes
    <2>9. Ordered(posted, g) BY <1>3, <2>1, <2>3, <2>7 DEF Ordered, Precede
    <2>10. Top.mode \notin RunsIn[b] => Ordered(posted, h)
        BY <1>3, <2>1, <2>2, <2>3, <2>5, <2>7 DEF Ordered, Precede
    <2>11. Listed' = Listed /\ Sorted(posted, blocks') BY <1>3, <1>5 DEF Listed
    <2>12. Precede(posted, Takes(g), Listed') /\ Precede(posted, Takes(h), Listed')
        BY <1>1, <2>8, <2>11, InnermostOrder DEF Precede
    <2>13. CASE SetTop(g)
        <3>1. OInv' BY <1>1, <2>8, <2>9, <2>11, <2>12, <2>13, MoveOrdered
        <3>2. Top' = g BY <1>1, <2>13, TopBecomes
        <3> QED BY <1>1, <1>5, <2>6, <2>7, <3>1, <3>2
    <2>14. CASE Top.mode \notin RunsIn[b] /\ SetTop(h)
        <3>1. OInv' BY <1>1, <2>8, <2>10, <2>11, <2>12, <2>14, MoveOrdered
        <3>2. Top' = h BY <1>1, <2>14, TopBecomes
        <3> QED BY <1>1, <2>7, <3>1, <3>2
    <2> QED BY <1>5, <2>13, <2>14
<1> QED BY <1>1, <1>4, <1>5

LEMMA PerformBlockOrdered ==
    ASSUME BInv, OInv, NEW t \in Clients, NEW b \in Blocks, PerformBlock(t, b)
    PROVE  OInv' /\ runs' = runs
PROOF
<1>1. /\ b \notin ToSet(posted) /\ runs' = runs
      /\ blocks' = Append(blocks, b) /\ posted' = Append(posted, b)
    BY DEF PerformBlock
<1>2. blocks \in Seq(Blocks) /\ posted \in Seq(Blocks) /\ Listed \subseteq ToSet(posted)
    BY DEF BInv, Lists
<1>3. /\ Once(posted') /\ \A x, y : Earlier(posted, x, y) => Earlier(posted', x, y)
      /\ \A x \in ToSet(posted) : Earlier(posted', x, b)
    BY <1>1, <1>2, QueuedLast DEF OInv
<1>4. Listed' = Listed \cup {b} BY <1>1, <1>2, ElementsOfAppend DEF Listed
<1>5. Sorted(posted', blocks) BY <1>3 DEF OInv, Sorted
<1>6. Precede(posted', ToSet(blocks), {b}) BY <1>2, <1>3 DEF Precede, Listed
<1>7. Sorted(posted', blocks') BY <1>1, <1>2, <1>5, <1>6, SortedAppend
<1>8. ASSUME NEW i \in 1..Len(runs)
      PROVE  /\ Ordered(posted', runs[i])
             /\ Precede(posted', Takes(runs[i]), Listed')
    <2>1. Ordered(posted, runs[i]) /\ Precede(posted, Takes(runs[i]), Listed) BY DEF OInv
    <2>2. Takes(runs[i]) \subseteq ToSet(posted) BY DEF BInv, Apart, Has
    <2>3. Ordered(posted', runs[i]) BY <1>3, <2>1 DEF Ordered, Sorted, Precede
    <2>4. Precede(posted', Takes(runs[i]), Listed') BY <1>3, <1>4, <2>1, <2>2 DEF Precede
    <2> QED BY <2>3, <2>4
<1>9. \A i, j \in 1..Len(runs) : i < j => Precede(posted', Takes(runs[i]), Takes(runs[j]))
    BY <1>3 DEF OInv, Precede
<1> QED BY <1>1, <1>3, <1>7, <1>8, <1>9 DEF OInv

-----------------------------------------------------------------------------

\* What a step is for the blocks.
LEMMA StepKinds ==
    ASSUME IInv, BInv, [Next]_vars
    PROVE  \/ Steady
           \/ DoBlocks("Blocks1", "Sources0") \/ DoBlocks("Blocks2", "PollDispatch")
           \/ DoBlocks("Blocks3", "Check")
           \/ ScanBlock
           \/ \E t \in Clients, b \in Blocks : PerformBlock(t, b)
PROOF
<1>1. CASE RunnerStep
    BY <1>1, StartAndCheckKeep, ReturnKeeps, ObserverStepsKeep, BlockReturnsMoves,
       SourceStepsKeep, MessageStepsKeep DEF RunnerStep
<1>2. CASE \E a \in RunArgs : Run(a) BY <1>2, RunKeeps
<1>3. CASE \E t \in Clients : Client(t)
    <2>1. PICK t \in Clients : Client(t) BY <1>3
    <2>2. CASE Stop(t) BY <2>2, StopKeeps
    <2>3. CASE \E b \in Blocks : PerformBlock(t, b) BY <2>3
    <2>4. CASE ~Stop(t) /\ ~\E b \in Blocks : PerformBlock(t, b)
        BY <2>1, <2>4, LeaveLists, OthersKeep
    <2> QED BY <2>2, <2>3, <2>4
<1>4. CASE Timers BY <1>4, TimeoutKeeps, LeaveLists, OthersKeep DEF Timers
<1>5. CASE (\E s \in Sources1 : SendMessage(s)) \/ DispatchToMain \/ UNCHANGED vars
    BY <1>5, LeaveLists, OthersKeep
<1> QED BY <1>1, <1>2, <1>3, <1>4, <1>5 DEF Next

LEMMA StepOrdered ==
    ASSUME IInv, IInv', BInv, OInv, [Next]_vars PROVE OInv' /\ CalledInOrder
PROOF
<1> PICK S : runs \in Seq(S) BY DEF IInv, Stack
<1> DEFINE d == Len(runs)
<1>1. d \in Nat /\ Top = runs[d] /\ (Len(runs') = d => Top' = runs'[d]) BY DEF Top
<1>2. posted \in Seq(Blocks) /\ DOMAIN posted = 1..Len(posted) /\ Len(posted) \in Nat
    BY DEF BInv, Lists
\* A step other than ScanBlock calls no block.
<1>3. ASSUME \A j \in DOMAIN posted : posted'[j] = posted[j],
             d > 0 /\ Len(runs') = d /\ Top'.pc = "InBlock" =>
                 Top.pc = "InBlock" /\ Top'.call = Top.call
      PROVE  CalledInOrder
    <2> SUFFICES ASSUME NEW j \in DOMAIN posted, d > 0, ~Called(d, posted[j]), Len(runs') = d,
                        Called(d, posted[j])'
                 PROVE  FALSE
        BY DEF CalledInOrder
    <2>1. Top'.pc = "InBlock" /\ Top'.call = posted[j]
        BY <1>1, <1>3 DEF Called
    <2>2. Top.pc = "InBlock" /\ Top.call = posted[j] BY <1>3, <2>1
    <2> QED BY <1>1, <2>2 DEF Called
<1>4. CASE Steady
    <2>1. OInv' BY <1>4, SteadyOrdered
    <2>2. posted' = posted BY <1>4 DEF Steady, lists
    <2>3. ASSUME d > 0, Len(runs') = d, Top'.pc = "InBlock"
          PROVE  Top.pc = "InBlock" /\ Top'.call = Top.call
        <3>1. d \in 1..Len(runs') BY <1>1, <2>3
        <3> QED BY <1>1, <1>4, <2>3, <3>1 DEF Steady
    <2> QED BY <1>3, <2>1, <2>2, <2>3
<1>5. CASE \/ DoBlocks("Blocks1", "Sources0") \/ DoBlocks("Blocks2", "PollDispatch")
           \/ DoBlocks("Blocks3", "Check")
    <2>1. OInv' /\ Top'.pc # "InBlock" /\ posted' = posted
        BY <1>5, DoBlocksOrdered DEF InBlocks
    <2> QED BY <1>3, <2>1
<1>6. CASE \E t \in Clients, b \in Blocks : PerformBlock(t, b)
    <2>1. PICK t \in Clients, b \in Blocks : PerformBlock(t, b) BY <1>6
    <2>2. OInv' /\ runs' = runs BY <2>1, PerformBlockOrdered
    <2>3. \A j \in DOMAIN posted : posted'[j] = posted[j] BY <1>2, <2>1 DEF PerformBlock
    <2>4. Top' = Top BY <2>2 DEF Top
    <2> QED BY <1>3, <2>2, <2>3, <2>4
<1>7. CASE ScanBlock
    <2>1. /\ OInv' /\ posted' = posted
          /\ Top'.pc = "InBlock" => Top.held # <<>> /\ Top'.call = Head(Top.held)
        BY <1>7, ScanBlockOrdered
    <2>2. runs # <<>> BY <1>7 DEF ScanBlock, At
    <2>3. /\ Sorted(posted, Top.held) /\ Once(posted)
          /\ \A x \in ToSet(Top.kept) : Top.mode \notin RunsIn[x]
          /\ Precede(posted, ToSet(Top.held), Listed)
          /\ Top.held \in Seq(Blocks)
        BY <2>2, InnermostOrder, InnermostHands DEF Ordered, OInv, HandsOf, Takes, Precede
    <2>4. CalledInOrder
        <3> SUFFICES ASSUME NEW j \in DOMAIN posted, d > 0, Len(runs') = d,
                            Called(d, posted[j])',
                            NEW i \in 1..(j - 1), Top.mode \in RunsIn[posted[i]]
                     PROVE  ~InList(posted[i]) /\ ~TakenBy(d, posted[i])
            BY DEF CalledInOrder
        <3> DEFINE x == posted[i]
                   y == posted[j]
        <3>1. Top.held # <<>> /\ y = Head(Top.held) BY <1>1, <2>1 DEF Called
        <3>2. Earlier(posted, x, y) BY <1>2 DEF Earlier
        <3> HIDE DEF x, y
        <3>3. x # y /\ ~Earlier(posted, y, x) BY <1>2, <2>3, <3>2, EarlierIsStrict
        <3>4. ToSet(Top.held) = {y} \cup ToSet(Tail(Top.held))
            BY <2>3, <3>1, ElementsOfHeadTail
        <3>5. Precede(posted, {y}, ToSet(Tail(Top.held))) BY <2>3, <3>1, SortedTail
        <3>6. x \notin ToSet(Top.held) BY <3>3, <3>4, <3>5 DEF Precede
        <3>7. x \notin Listed BY <2>3, <3>3, <3>4 DEF Precede
        <3>8. x \notin ToSet(Top.kept) BY <2>3 DEF x
        <3> QED BY <1>1, <3>6, <3>7, <3>8 DEF InList, TakenBy, Listed, x
    <2> QED BY <2>1, <2>4
<1> QED BY <1>4, <1>5, <1>6, <1>7, StepKinds

LEMMA InitiallyOrdered == Init => OInv
PROOF
<1> SUFFICES ASSUME Init PROVE OInv OBVIOUS
<1>1. blocks = <<>> /\ posted = <<>> /\ Len(runs) = 0 BY DEF Init
<1> QED BY <1>1 DEF OInv, Once, Sorted

\* Of the blocks queued for one mode, the earlier are called first, whatever
\* runs inside the callouts take and put back meanwhile: when a run calls a
\* block, an earlier one for its mode is neither in the list nor in its hands.
THEOREM BlocksInOrderHolds == Spec => BlocksInOrder
PROOF
<1> DEFINE I == IInv /\ Messages /\ BInv /\ OInv
<1>1. Init => I BY Initially, InitiallyApart, InitiallyOrdered
<1>2. I /\ [Next]_vars => I'
    BY Inductive, MessagesInductive, StepKeeps, StepOrdered
<1>3. I /\ [Next]_vars => [CalledInOrder]_vars BY Inductive, StepOrdered
<1>4. BlocksInOrder <=> [][CalledInOrder]_vars BY DEF BlocksInOrder, CalledInOrder
<1> HIDE DEF I
<1> QED BY <1>1, <1>2, <1>3, <1>4, PTL DEF Spec
=============================================================================
