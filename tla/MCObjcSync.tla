----------------------------- MODULE MCObjcSync -----------------------------
(* Instances of ObjcSync for TLC.                                          *)
EXTENDS ObjcSyncInv, TLC

\* Every object on one list.
OneStripe == [o \in Objects |-> CHOOSE s \in Stripes : TRUE]

Symmetry == Permutations(Threads) \cup Permutations(Objects)

=============================================================================
