------------------------- MODULE MCCFRunLoopTimers -------------------------
(* Instances of CFRunLoopTimers for TLC.                                   *)
EXTENDS CFRunLoopTimers, TLC

CONSTANTS m1, m2, t1, t2

\* t1 repeats and may be late, t2 fires once and is punctual.
Intervals == [t \in Timers |-> IF t = t1 THEN 1 ELSE 0]
Tolerances == [t \in Timers |-> IF t = t1 THEN 1 ELSE 0]

\* t1 is in both modes, t2 in the first.
AddedTo == [t \in Timers |-> IF t = t1 THEN {m1, m2} ELSE {m1}]
Dates == [t \in Timers |-> IF t = t1 THEN 0 ELSE 1]
=============================================================================
