-------------------------- MODULE MCObjcSyncClient --------------------------
(* Instances of ObjcSyncClient for TLC.                                    *)
EXTENDS ObjcSyncClient

\* Every object on one list.
OneStripe == [o \in Objects |-> CHOOSE s \in Stripes : TRUE]

\* The objects are 1, 2, ... and are taken in that order.
NaturalOrder == [o \in Objects |-> o]

=============================================================================
