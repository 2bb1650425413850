--------------------------- MODULE MCObjcRefcount ---------------------------
(* Instances of ObjcRefcount for TLC.                                      *)
EXTENDS ObjcRefcount, TLC

CONSTANTS a, t1, t2

\* The object and nil have side tables of their own.
TwoTables == a :> 1 @@ nil :> 2

\* Enough for extra_rc to overflow twice.
TwiceOver == a :> 6

FirstThread == a :> t1
=============================================================================
