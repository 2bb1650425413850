---------------------------- MODULE MCCFRunLoop ----------------------------
(* Instances of CFRunLoop for TLC: a default and a modal mode.             *)
EXTENDS CFRunLoop, TLC

CONSTANTS m1, m2, s1, p1, b1, b2, o1, o2

\* b1 was queued for the default mode alone, b2 for both modes.
QueuedFor == [b \in Blocks |-> IF b = b1 THEN {m1} ELSE {m1, m2}]

\* A version 0 source of the default mode, a version 1 source of both.
AddedTo == [s \in Sources |-> IF s = s1 THEN {m1} ELSE {m1, m2}]

\* An observer that repeats, and one of the moment after a wait.
OneObserver == <<o1>>
TwoObservers == <<o1, o2>>
Observing == o1 :> {"BeforeSources", "BeforeWaiting"} @@ o2 :> {"AfterWaiting"}

\* CFRunLoopRun in the default mode.
RunForever == {[mode |-> m1, seconds |-> "never", stopAfterHandle |-> FALSE]}

\* Inside callouts: CFRunLoopRunInMode in the modal mode, with a timeout.
RunModal == {[mode |-> m2, seconds |-> "armed", stopAfterHandle |-> TRUE]}
=============================================================================
