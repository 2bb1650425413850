--------------------------- MODULE ObjcSyncClient ---------------------------
(***************************************************************************)
(* ObjcSync under the clients it is meant for, those of the repository's   *)
(* tests synchronized-grid.m and synchronized-counter.m: every thread runs *)
(* a finite program of objc_sync_enter and objc_sync_exit, takes several   *)
(* objects only in one global order ("in that order to prevent deadlock"), *)
(* leaves exactly what it entered, in any order, and ends outside.         *)
(***************************************************************************)
EXTENDS ObjcSync

CONSTANTS
    Order,       \* the order in which objects are taken: object -> Nat
    MaxEnters    \* bound: how many enters a thread's program has

ASSUME OrderAssumption == Order \in [Objects -> Nat] /\ MaxEnters \in Nat

VARIABLE enters  \* how many enters of its program a thread has called

clientVars == <<vars, enters>>

ClientInit == Init /\ enters = [t \in Threads |-> 0]

Outside(t) == \A o \in Objects : held[t][o] = 0

Lookup(t, f, o) == FastCacheHit(t, f, o) \/ CacheHit(t, f, o)
                                         \/ CacheMiss(t, f, o)

ClientEnter(t, o) ==
    /\ enters[t] < MaxEnters
    /\ \A q \in Objects : held[t][q] > 0 => Order[q] <= Order[o]
    /\ Lookup(t, "enter", o)
    /\ enters' = [enters EXCEPT ![t] = @ + 1]

ClientExit(t, o) ==
    /\ held[t][o] > 0
    /\ Lookup(t, "exit", o)
    /\ UNCHANGED enters

ClientStep(t) == Step(t) /\ UNCHANGED enters

ClientEnd(t) == Outside(t) /\ ThreadExit(t) /\ UNCHANGED enters

ClientThread(t) ==
    \/ \E o \in Objects : ClientEnter(t, o) \/ ClientExit(t, o)
    \/ ClientStep(t)
    \/ ClientEnd(t)

\* pthread_join has returned for every thread.
Joined == (\A t \in Threads : pc[t] = "exited") /\ UNCHANGED clientVars

ClientNext == Joined \/ \E t \in Threads : ClientThread(t)

\* A thread that can run does run.  Nothing is assumed about who gets a lock
\* that several threads want: os_unfair_lock promises nothing there.
ClientSpec == /\ ClientInit /\ [][ClientNext]_clientVars
              /\ \A t \in Threads : WF_clientVars(ClientThread(t))

-----------------------------------------------------------------------------

\* Once every thread is outside and between calls, all SyncData are unused and
\* every mutex is free (synchronized-grid.m:101, "Verify locks: all should be
\* available").
AllAvailable ==
    (\A t \in Threads : Outside(t) /\ pc[t] \in {"idle", "exited"}) =>
        \A d \in SyncDatas : threadCount[d] = 0 /\ owner[d] = nil

\* Every program finishes: the list locks and the mutexes never make the
\* threads wait for each other, because id2data releases the list lock before
\* its caller blocks on a mutex.
EveryProgramFinishes == <>(\A t \in Threads : pc[t] = "exited")

=============================================================================
