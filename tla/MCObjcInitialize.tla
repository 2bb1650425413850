-------------------------- MODULE MCObjcInitialize --------------------------
(* Instances of ObjcInitialize for TLC.                                    *)
EXTENDS ObjcInitialize, TLC

CONSTANTS root, post, mid, leaf, t1, t2, t3

\* Part of the OmniWeb hierarchy of objc-initialize.mm:64.
OmniWeb == root :> nil @@ post :> root @@ mid :> root @@ leaf :> mid

\* +initialize methods that message each other's classes, up, down and across.
Circular == root :> {leaf} @@ post :> {mid} @@ mid :> {leaf} @@ leaf :> {post}

Symmetry == Permutations(Threads)

=============================================================================
