----------------------------- MODULE RetainCount -----------------------------
(***************************************************************************)
(* What reference counting and weak variables promise.  An object has one  *)
(* count.  Once it is zero it stays zero, the object is deallocated once,  *)
(* and its memory goes only when no weak variable holds it any more.  A    *)
(* weak variable is only ever given an object with references, and loading *)
(* it retains the object or, when the count is zero, changes nothing.      *)
(***************************************************************************)
EXTENDS Naturals

CONSTANTS Objects, Locations, nil

VARIABLES
    count,   \* the references to an object
    life,    \* live, then deallocating, then freed
    weak     \* the object a weak variable holds, or nil

vars == <<count, life, weak>>

Init ==
    /\ count = [o \in Objects |-> 1]
    /\ life = [o \in Objects |-> "live"]
    /\ weak = [l \in Locations |-> nil]

\* A retain, or a load of a weak variable that answers the object.
Retain(o) == count[o] > 0 /\ count' = [count EXCEPT ![o] = @ + 1]
Release(o) == count[o] > 0 /\ count' = [count EXCEPT ![o] = @ - 1]

Counting == UNCHANGED <<life, weak>> /\ \E o \in Objects : Retain(o) \/ Release(o)

\* The message dealloc, sent once, when no reference is left.
Dealloc(o) ==
    /\ life[o] = "live"
    /\ life' = [life EXCEPT ![o] = "deallocating"]
    /\ count[o] = 0

\* The memory goes when no weak variable holds the object any more.
Free(o) ==
    /\ life[o] = "deallocating"
    /\ life' = [life EXCEPT ![o] = "freed"]
    /\ \A l \in Locations : weak[l] # o

Dying == (\E o \in Objects : Dealloc(o) \/ Free(o)) /\ UNCHANGED <<count, weak>>

\* A weak variable gets nil or an object with references.
Assign(l, o) ==
    /\ weak' = [weak EXCEPT ![l] = o]
    /\ o # nil => count[o] > 0

\* The weak variables that hold a deallocating object become nil.
Zero(o) ==
    /\ life[o] = "deallocating"
    /\ weak' = [l \in Locations |-> IF weak[l] = o THEN nil ELSE weak[l]]

Weakly ==
    /\ \/ \E l \in Locations, o \in Objects \cup {nil} : Assign(l, o)
       \/ \E o \in Objects : Zero(o)
    /\ UNCHANGED <<count, life>>

Next == Counting \/ Dying \/ Weakly

Spec == Init /\ [][Next]_vars
=============================================================================
