------------------------- MODULE ObjcRefcountProofs -------------------------
(***************************************************************************)
(* The types of ObjcRefcount, that its threads take the locks of side      *)
(* tables in one order, and that a weak variable and the weak table of the *)
(* object it holds agree, for any threads, objects, variables and tables.  *)
(***************************************************************************)
EXTENDS ObjcRefcount, TLAPS

\* The places at which obj is the object that the thread is working on.
AtObject == {"retain", "retaining", "transcribe", "release", "releasing", "borrowed",
             "borrowed2", "putBack", "dealloc", "rootDealloc", "free", "lockLoad",
             "loaded", "mark"}
AtLocation == {"load", "lockLoad", "store", "lockFirst", "lockSecond", "register", "mark",
               "assign"}
AtReleasing == {"release", "releasing", "borrowed", "borrowed2", "putBack"}

\* What a thread knows of its own frame.
Local(t) ==
    /\ pc[t] \in AtObject => frame[t].obj \in Objects
    /\ pc[t] \in AtLocation => frame[t].loc \in Locations
    /\ pc[t] \in {"retaining", "releasing", "borrowed", "borrowed2", "mark"} =>
           frame[t].old \in IsaWords
    /\ pc[t] \in AtReleasing => refs[t][frame[t].obj] > 0 /\ ~ frame[t].try
    /\ pc[t] \in {"borrowed", "borrowed2", "putBack"} => frame[t].borrowed = RC_HALF
    /\ pc[t] \in {"load", "lockLoad"} => frame[t].try

\* The tables that a thread may have locked, by where it is.
Held(t) ==
    CASE pc[t] = "lockSecond" -> {First(t)}
      [] pc[t] \in {"register", "mark", "assign"} -> StoreTables(t)
      [] pc[t] \in {"retain", "retaining", "transcribe", "loaded"} \cup AtReleasing ->
             IF frame[t].try \/ frame[t].locked THEN {TableOf(t)} ELSE {}
      [] OTHER -> {}

\* It has locked no other, and a weak store has locked all of them.
Holding(t) ==
    /\ \A s \in Tables : lock[s] = t => s \in Held(t)
    /\ pc[t] \in {"lockSecond", "register", "mark", "assign"} =>
           \A s \in Tables : s \in Held(t) => lock[s] = t

IInv == TypeOK /\ \A t \in Threads : Local(t) /\ Holding(t)

-----------------------------------------------------------------------------
(* Facts about the helpers                                                 *)

LEMMA StripesAreTables ==
    ASSUME NEW x \in Objects \cup {nil}
    PROVE  StripeOf[x] \in Tables /\ StripeOf[x] \in Nat
BY StripeAssumption DEF Tables

\* lockTwo: the two tables, in order.
LEMMA LockOrderFacts ==
    ASSUME NEW t \in Threads, frame[t].obj \in Objects \cup {nil},
           frame[t].oldObj \in Objects \cup {nil}
    PROVE  /\ StoreTables(t) = {First(t), Second(t)}
           /\ First(t) \in Nat /\ Second(t) \in Nat /\ First(t) <= Second(t)
           /\ StoreTables(t) \subseteq Tables
<1> DEFINE x == StripeOf[frame[t].oldObj]
           y == StripeOf[frame[t].obj]
<1>1. x \in Nat /\ y \in Nat /\ x \in Tables /\ y \in Tables
  BY StripesAreTables
<1>2. StoreTables(t) = {x, y}
  BY DEF StoreTables
<1> HIDE DEF x, y
<1>3. \E m \in {x, y} : \A z \in {x, y} : m <= z
  BY <1>1, SMT
<1>4. \E m \in {x, y} : \A z \in {x, y} : m >= z
  BY <1>1, SMT
<1>5. Min({x, y}) \in {x, y} /\ \A z \in {x, y} : Min({x, y}) <= z
  BY <1>3 DEF Min
<1>6. Max({x, y}) \in {x, y} /\ \A z \in {x, y} : Max({x, y}) >= z
  BY <1>4 DEF Max
<1>7. First(t) = Min({x, y}) /\ Second(t) = Max({x, y})
  BY <1>2 DEF First, Second, LockOrder
<1> QED
  BY <1>1, <1>2, <1>5, <1>6, <1>7, SMT

\* What one thread does leaves what the others know and hold alone.
LEMMA Others ==
    ASSUME NEW t \in Threads, NEW u \in Threads,
           pc'[u] = pc[u], frame'[u] = frame[u], refs'[u] = refs[u],
           \A s \in Tables : (lock'[s] = u) <=> (lock[s] = u),
           Local(u), Holding(u)
    PROVE  Local(u)' /\ Holding(u)'
<1>1. Local(u)'
  BY DEF Local
<1>2. StoreTables(u)' = StoreTables(u) /\ TableOf(u)' = TableOf(u)
  BY DEF StoreTables, TableOf
<1>3. First(u)' = First(u)
  BY <1>2 DEF First, LockOrder
<1>4. Held(u)' = Held(u)
  BY <1>2, <1>3 DEF Held
<1> QED
  BY <1>1, <1>4 DEF Holding

-----------------------------------------------------------------------------
(* What an action has to show                                              *)

LEMMA LockFacts ==
    ASSUME TypeOK, NEW t \in Threads, NEW s \in Tables, LockTable(t, s)
    PROVE  /\ lock' \in [Tables -> Threads \cup {nil}]
           /\ \A u \in Threads \ {t}, r \in Tables : (lock'[r] = u) <=> (lock[r] = u)
           /\ \A r \in Tables : (lock'[r] = t) <=> (r = s \/ lock[r] = t)
BY NilAssumption DEF TypeOK, LockTable

\* Either the caller had locked them all and has none of them now, or nothing
\* happened to the locks.
LEMMA UnlockFacts ==
    ASSUME TypeOK, NEW t \in Threads, NEW S, S \subseteq Tables, UnlockTables(t, S)
    PROVE  /\ lock' \in [Tables -> Threads \cup {nil}]
           /\ aborted' \in BOOLEAN
           /\ \A u \in Threads \ {t}, r \in Tables : (lock'[r] = u) <=> (lock[r] = u)
           /\ \A r \in Tables : lock'[r] = t => lock[r] = t
           /\ (\A r \in S : lock[r] = t) => \A r \in S : lock'[r] # t
<1>1. CASE \A r \in S : lock[r] = t
  <2>1. lock' = [r \in Tables |-> IF r \in S THEN nil ELSE lock[r]] /\ aborted' = aborted
    BY <1>1 DEF UnlockTables
  <2> QED
    BY <1>1, <2>1, NilAssumption DEF TypeOK
<1>2. CASE ~ \A r \in S : lock[r] = t
  <2>1. lock' = lock /\ aborted' = TRUE
    BY <1>2 DEF UnlockTables
  <2> QED
    BY <1>2, <2>1 DEF TypeOK
<1> QED
  BY <1>1, <1>2

LEMMA GotoFacts ==
    ASSUME TypeOK, NEW t \in Threads, NEW place, NEW f, Goto(t, place, f)
    PROVE  /\ pc'[t] = place /\ frame'[t] = f
           /\ place \in Places => pc' \in [Threads -> Places]
           /\ f \in Frames => frame' \in [Threads -> Frames]
           /\ \A u \in Threads \ {t} : pc'[u] = pc[u] /\ frame'[u] = frame[u]
BY DEF TypeOK, Goto

LEMMA IdleFrame == Idle \in Frames
BY DEF Idle, Frames

LEMMA ByOneThread ==
    ASSUME IInv, NEW t \in Threads, TypeOK', Local(t)', Holding(t)',
           \A u \in Threads \ {t} :
               /\ pc'[u] = pc[u] /\ frame'[u] = frame[u] /\ refs'[u] = refs[u]
               /\ \A s \in Tables : (lock'[s] = u) <=> (lock[s] = u)
    PROVE  IInv'
<1>1. ASSUME NEW u \in Threads PROVE Local(u)' /\ Holding(u)'
  <2>1. CASE u = t
    BY <2>1
  <2>2. CASE u # t
    <3>1. Local(u) /\ Holding(u)
      BY DEF IInv
    <3> QED
      BY <2>2, <3>1, Others
  <2> QED
    BY <2>1, <2>2
<1> QED
  BY <1>1 DEF IInv


LEMMA CallPreserves ==
    ASSUME IInv, NEW t \in Threads, Call(t)
    PROVE  IInv'
<1>1. TypeOK /\ Local(t) /\ Holding(t)
  BY DEF IInv
<1>2. PICK place \in {"retain", "release", "load", "store"}, f \in Frames :
          /\ Goto(t, place, f) /\ pc[t] = "idle"
          /\ place \in {"retain", "release"} =>
                 f.obj \in Objects /\ ~ f.try /\ ~ f.locked
          /\ place = "release" => refs[t][f.obj] > 0
          /\ place \in {"load", "store"} => f.loc \in Locations
          /\ place = "load" => f.try
          /\ UNCHANGED <<isa, tables, lock, aborted, client>>
  <2>1. ASSUME NEW o \in Objects, Retain(t, o) \/ Release(t, o)
        PROVE  [Idle EXCEPT !.obj = o] \in Frames
    BY DEF Idle, Frames
  <2>2. ASSUME NEW l \in Locations
        PROVE  [Idle EXCEPT !.loc = l, !.try = TRUE] \in Frames
    BY DEF Idle, Frames
  <2>3. ASSUME NEW l \in Locations, NEW o \in Objects \cup {nil}
        PROVE  [Idle EXCEPT !.loc = l, !.obj = o] \in Frames
    BY DEF Idle, Frames
  <2>4. CASE \E o \in Objects : Retain(t, o) \/ Release(t, o)
    BY <2>1, <2>4 DEF Retain, Release, Idle
  <2>5. CASE \E l \in Locations : LoadWeakRetained(t, l)
    BY <2>2, <2>5 DEF LoadWeakRetained, Idle
  <2>6. CASE \E l \in Locations, o \in Objects \cup {nil} : StoreWeak(t, l, o)
    BY <2>3, <2>6 DEF StoreWeak, Idle
  <2> QED
    BY <2>4, <2>5, <2>6 DEF Call
<1>3. pc'[t] = place /\ frame'[t] = f
  BY <1>1, <1>2, GotoFacts
<1>4. TypeOK'
  BY <1>1, <1>2, GotoFacts DEF TypeOK, Places, tables, client
<1>5. Local(t)'
  BY <1>2, <1>3 DEF Local, AtObject, AtLocation, AtReleasing, client
<1>6. Holding(t)'
  BY <1>1, <1>2, <1>3 DEF Holding, Held, AtReleasing
<1> QED
  BY <1>1, <1>2, <1>4, <1>5, <1>6, GotoFacts, ByOneThread DEF client

\* The word is read.
LEMMA RetainLoadPreserves ==
    ASSUME IInv, NEW t \in Threads, RetainLoad(t)
    PROVE  IInv'
<1> DEFINE f == [frame[t] EXCEPT !.old = isa[frame[t].obj]]
<1>1. TypeOK /\ Local(t) /\ Holding(t)
  BY DEF IInv
<1>2. frame[t] \in Frames /\ isa[frame[t].obj] \in IsaWords
  BY <1>1 DEF RetainLoad, TypeOK, Local, AtObject, AtLocation, AtReleasing
<1>3. f \in Frames
  BY <1>2, IdleFrame DEF Frames
<1>4. pc'[t] = "retaining" /\ frame'[t] = f
  BY <1>1, GotoFacts DEF RetainLoad
<1>5. TypeOK'
  BY <1>1, <1>2, <1>3, GotoFacts DEF RetainLoad, TypeOK, Places, Local, AtObject, AtLocation, AtReleasing, tables, client
<1>6. Local(t)'
  BY <1>1, <1>2, <1>4 DEF RetainLoad, Frames, Local, AtObject, AtLocation, AtReleasing, client
<1>7. Holding(t)'
  BY <1>1, <1>2, <1>4 DEF RetainLoad, Frames, Holding, Held, AtReleasing, TableOf
<1> QED
  BY <1>1, <1>5, <1>6, <1>7, GotoFacts, ByOneThread DEF RetainLoad, client

LEMMA RetainOverflowPreserves ==
    ASSUME IInv, NEW t \in Threads, RetainOverflow(t)
    PROVE  IInv'
<1> DEFINE f == [frame[t] EXCEPT !.full = TRUE]
<1>1. TypeOK /\ Local(t) /\ Holding(t)
  BY DEF IInv
<1>2. frame[t] \in Frames
  BY <1>1 DEF RetainOverflow, TypeOK
<1>3. f \in Frames
  BY <1>2, IdleFrame DEF Frames
<1>4. pc'[t] = "retain" /\ frame'[t] = f
  BY <1>1, GotoFacts DEF RetainOverflow, Retaining
<1>5. TypeOK'
  BY <1>1, <1>2, <1>3, GotoFacts DEF RetainOverflow, TypeOK, Places, Local, AtObject, AtLocation, AtReleasing, tables, client, Retaining
<1>6. Local(t)'
  BY <1>1, <1>2, <1>4 DEF RetainOverflow, Frames, Local, AtObject, AtLocation, AtReleasing, client, Retaining
<1>7. Holding(t)'
  BY <1>1, <1>2, <1>4 DEF RetainOverflow, Frames, Holding, Held, AtReleasing, TableOf, Retaining
<1> QED
  BY <1>1, <1>5, <1>6, <1>7, GotoFacts, ByOneThread DEF RetainOverflow, client, Retaining

LEMMA ReleaseLoadPreserves ==
    ASSUME IInv, NEW t \in Threads, ReleaseLoad(t)
    PROVE  IInv'
<1> DEFINE f == [frame[t] EXCEPT !.old = isa[frame[t].obj]]
<1>1. TypeOK /\ Local(t) /\ Holding(t)
  BY DEF IInv
<1>2. frame[t] \in Frames /\ isa[frame[t].obj] \in IsaWords
  BY <1>1 DEF ReleaseLoad, TypeOK, Local, AtObject, AtLocation, AtReleasing
<1>3. f \in Frames
  BY <1>2, IdleFrame DEF Frames
<1>4. pc'[t] = "releasing" /\ frame'[t] = f
  BY <1>1, GotoFacts DEF ReleaseLoad
<1>5. TypeOK'
  BY <1>1, <1>2, <1>3, GotoFacts DEF ReleaseLoad, TypeOK, Places, Local, AtObject, AtLocation, AtReleasing, tables, client
<1>6. Local(t)'
  BY <1>1, <1>2, <1>4 DEF ReleaseLoad, Frames, Local, AtObject, AtLocation, AtReleasing, client
<1>7. Holding(t)'
  BY <1>1, <1>2, <1>4 DEF ReleaseLoad, Frames, Holding, Held, AtReleasing, TableOf
<1> QED
  BY <1>1, <1>5, <1>6, <1>7, GotoFacts, ByOneThread DEF ReleaseLoad, client

LEMMA ReleaseUnderflowPreserves ==
    ASSUME IInv, NEW t \in Threads, ReleaseUnderflow(t)
    PROVE  IInv'
<1> DEFINE f == [frame[t] EXCEPT !.full = TRUE]
<1>1. TypeOK /\ Local(t) /\ Holding(t)
  BY DEF IInv
<1>2. frame[t] \in Frames
  BY <1>1 DEF ReleaseUnderflow, TypeOK
<1>3. f \in Frames
  BY <1>2, IdleFrame DEF Frames
<1>4. pc'[t] = "release" /\ frame'[t] = f
  BY <1>1, GotoFacts DEF ReleaseUnderflow, Underflow
<1>5. TypeOK'
  BY <1>1, <1>2, <1>3, GotoFacts DEF ReleaseUnderflow, TypeOK, Places, Local, AtObject, AtLocation, AtReleasing, tables, client, Underflow
<1>6. Local(t)'
  BY <1>1, <1>2, <1>4 DEF ReleaseUnderflow, Frames, Local, AtObject, AtLocation, AtReleasing, client, Underflow
<1>7. Holding(t)'
  BY <1>1, <1>2, <1>4 DEF ReleaseUnderflow, Frames, Holding, Held, AtReleasing, TableOf, Underflow
<1> QED
  BY <1>1, <1>5, <1>6, <1>7, GotoFacts, ByOneThread DEF ReleaseUnderflow, client, Underflow

LEMMA BorrowPreserves ==
    ASSUME IInv, NEW t \in Threads, Borrow(t)
    PROVE  IInv'
<1> DEFINE f == [frame[t] EXCEPT !.borrowed = RC_HALF]
<1>1. TypeOK /\ Local(t) /\ Holding(t)
  BY DEF IInv
<1>2. frame[t] \in Frames
  BY <1>1 DEF Borrow, TypeOK
<1>3. f \in Frames
  BY <1>2, IdleFrame DEF Frames
<1>4. pc'[t] = "borrowed" /\ frame'[t] = f
  BY <1>1, GotoFacts DEF Borrow, Underflow
<1>5. TypeOK'
  BY <1>1, <1>2, <1>3, GotoFacts, HalfAssumption DEF Borrow, TypeOK, Places, Local, AtObject, AtLocation, AtReleasing, tables, client, Underflow
<1>6. Local(t)'
  BY <1>1, <1>2, <1>4 DEF Borrow, Frames, Local, AtObject, AtLocation, AtReleasing, client, Underflow
<1>7. Holding(t)'
  BY <1>1, <1>2, <1>4 DEF Borrow, Frames, Holding, Held, AtReleasing, TableOf, Underflow
<1> QED
  BY <1>1, <1>5, <1>6, <1>7, GotoFacts, ByOneThread DEF Borrow, client, Underflow

LEMMA PutBackPreserves ==
    ASSUME IInv, NEW t \in Threads, PutBack(t)
    PROVE  IInv'
<1> DEFINE f == [frame[t] EXCEPT !.borrowed = 0]
<1>1. TypeOK /\ Local(t) /\ Holding(t)
  BY DEF IInv
<1>2. frame[t] \in Frames
  BY <1>1 DEF PutBack, TypeOK
<1>3. f \in Frames
  BY <1>2, IdleFrame DEF Frames
<1>4. pc'[t] = "release" /\ frame'[t] = f
  BY <1>1, GotoFacts DEF PutBack
<1>5. TypeOK'
  BY <1>1, <1>2, <1>3, GotoFacts, HalfAssumption DEF PutBack, TypeOK, Places, Local, AtObject, AtLocation, AtReleasing, tables, client
<1>6. Local(t)'
  BY <1>1, <1>2, <1>4 DEF PutBack, Frames, Local, AtObject, AtLocation, AtReleasing, client
<1>7. Holding(t)'
  BY <1>1, <1>2, <1>4 DEF PutBack, Frames, Holding, Held, AtReleasing, TableOf
<1> QED
  BY <1>1, <1>5, <1>6, <1>7, GotoFacts, ByOneThread DEF PutBack, client

LEMMA DeallocPreserves ==
    ASSUME IInv, NEW t \in Threads, Dealloc(t)
    PROVE  IInv'
<1> DEFINE f == frame[t]
<1>1. TypeOK /\ Local(t) /\ Holding(t)
  BY DEF IInv
<1>2. frame[t] \in Frames
  BY <1>1 DEF Dealloc, TypeOK
<1>3. f \in Frames
  BY <1>2, IdleFrame DEF Frames
<1>4. pc'[t] = "rootDealloc" /\ frame'[t] = f
  BY <1>1, GotoFacts DEF Dealloc
<1>5. TypeOK'
  BY <1>1, <1>2, <1>3, GotoFacts DEF Dealloc, TypeOK, Places, Local, AtObject, AtLocation, AtReleasing, tables, client
<1>6. Local(t)'
  BY <1>1, <1>2, <1>4 DEF Dealloc, Frames, Local, AtObject, AtLocation, AtReleasing, client
<1>7. Holding(t)'
  BY <1>1, <1>2, <1>4 DEF Dealloc, Frames, Holding, Held, AtReleasing, TableOf
<1> QED
  BY <1>1, <1>5, <1>6, <1>7, GotoFacts, ByOneThread DEF Dealloc, client

LEMMA ClearDeallocatingPreserves ==
    ASSUME IInv, NEW t \in Threads, ClearDeallocating(t)
    PROVE  IInv'
<1> DEFINE f == frame[t]
<1>1. TypeOK /\ Local(t) /\ Holding(t)
  BY DEF IInv
<1>2. frame[t] \in Frames
  BY <1>1 DEF ClearDeallocating, TypeOK
<1>3. f \in Frames
  BY <1>2, IdleFrame DEF Frames
<1>4. pc'[t] = "free" /\ frame'[t] = f
  BY <1>1, GotoFacts DEF ClearDeallocating
<1>5. TypeOK'
  BY <1>1, <1>2, <1>3, GotoFacts DEF ClearDeallocating, TypeOK, Places, Local, AtObject, AtLocation, AtReleasing, tables, client
<1>6. Local(t)'
  BY <1>1, <1>2, <1>4 DEF ClearDeallocating, Frames, Local, AtObject, AtLocation, AtReleasing, client
<1>7. Holding(t)'
  BY <1>1, <1>2, <1>4 DEF ClearDeallocating, Frames, Holding, Held, AtReleasing, TableOf
<1> QED
  BY <1>1, <1>5, <1>6, <1>7, GotoFacts, ByOneThread DEF ClearDeallocating, client

LEMMA FreePreserves ==
    ASSUME IInv, NEW t \in Threads, Free(t)
    PROVE  IInv'
<1> DEFINE f == Idle
<1>1. TypeOK /\ Local(t) /\ Holding(t)
  BY DEF IInv
<1>2. frame[t] \in Frames
  BY <1>1 DEF Free, TypeOK
<1>3. f \in Frames
  BY <1>2, IdleFrame DEF Frames
<1>4. pc'[t] = "idle" /\ frame'[t] = f
  BY <1>1, GotoFacts DEF Free, Return
<1>5. TypeOK'
  BY <1>1, <1>2, <1>3, GotoFacts DEF Free, TypeOK, Places, Local, AtObject, AtLocation, AtReleasing, tables, client, Return
<1>6. Local(t)'
  BY <1>1, <1>2, <1>4 DEF Free, Frames, Local, AtObject, AtLocation, AtReleasing, client, Return
<1>7. Holding(t)'
  BY <1>1, <1>2, <1>4 DEF Free, Frames, Holding, Held, AtReleasing, TableOf, Return
<1> QED
  BY <1>1, <1>5, <1>6, <1>7, GotoFacts, ByOneThread DEF Free, client, Return

LEMMA StoreLoadPreserves ==
    ASSUME IInv, NEW t \in Threads, StoreLoad(t)
    PROVE  IInv'
<1> DEFINE f == [frame[t] EXCEPT !.oldObj = location[frame[t].loc]]
<1>1. TypeOK /\ Local(t) /\ Holding(t)
  BY DEF IInv
<1>2. frame[t] \in Frames /\ location[frame[t].loc] \in Objects \cup {nil}
  BY <1>1 DEF StoreLoad, TypeOK, Local, AtObject, AtLocation, AtReleasing
<1>3. f \in Frames
  BY <1>2, IdleFrame DEF Frames
<1>4. pc'[t] = "lockFirst" /\ frame'[t] = f
  BY <1>1, GotoFacts DEF StoreLoad
<1>5. TypeOK'
  BY <1>1, <1>2, <1>3, GotoFacts DEF StoreLoad, TypeOK, Places, Local, AtObject, AtLocation, AtReleasing, tables, client
<1>6. Local(t)'
  BY <1>1, <1>2, <1>4 DEF StoreLoad, Frames, Local, AtObject, AtLocation, AtReleasing, client
<1>7. Holding(t)'
  BY <1>1, <1>2, <1>4 DEF StoreLoad, Frames, Holding, Held, AtReleasing, TableOf
<1> QED
  BY <1>1, <1>5, <1>6, <1>7, GotoFacts, ByOneThread DEF StoreLoad, client

-----------------------------------------------------------------------------
(* The steps that compare and store, lock and unlock                       *)

\* oldisa is read again after a store that failed.
LEMMA RereadPreserves ==
    ASSUME IInv, NEW t \in Threads, pc[t] \in {"retaining", "releasing", "mark"},
           Goto(t, pc[t], [frame[t] EXCEPT !.old = isa[frame[t].obj]]),
           UNCHANGED <<isa, tables, lock, aborted, client>>
    PROVE  IInv'
<1> DEFINE f == [frame[t] EXCEPT !.old = isa[frame[t].obj]]
<1>1. TypeOK /\ Local(t) /\ Holding(t)
  BY DEF IInv
<1>2. frame[t] \in Frames /\ isa[frame[t].obj] \in IsaWords
  BY <1>1 DEF TypeOK, Local, AtObject
<1>3. f \in Frames
  BY <1>2 DEF Frames
<1>4. pc'[t] = pc[t] /\ frame'[t] = f
  BY <1>1, GotoFacts
<1>5. TypeOK'
  BY <1>1, <1>3, GotoFacts DEF TypeOK, Places, tables, client
<1>6. Local(t)'
  BY <1>1, <1>2, <1>4 DEF Frames, Local, AtObject, AtLocation, AtReleasing, client
<1>7. StoreTables(t)' = StoreTables(t) /\ TableOf(t)' = TableOf(t)
  BY <1>2, <1>4 DEF StoreTables, TableOf, Frames
<1>8. Held(t)' = Held(t)
  BY <1>2, <1>4, <1>7 DEF Held, AtReleasing, Frames
<1>9. Holding(t)'
  BY <1>1, <1>4, <1>8 DEF Holding
<1> QED
  BY <1>1, <1>5, <1>6, <1>9, GotoFacts, ByOneThread DEF client

\* A thread in rootRetain, rootRelease or a load leaves by unlocking its table.
LEMMA UnlockOwn ==
    ASSUME IInv, NEW t \in Threads, frame[t].obj \in Objects,
           pc[t] \in {"retaining", "transcribe", "loaded"} \cup AtReleasing,
           UnlockTables(t, {TableOf(t)})
    PROVE  /\ lock' \in [Tables -> Threads \cup {nil}]
           /\ aborted' \in BOOLEAN
           /\ \A u \in Threads \ {t}, r \in Tables : (lock'[r] = u) <=> (lock[r] = u)
           /\ \A r \in Tables : lock'[r] # t
<1>1. TypeOK /\ Holding(t)
  BY DEF IInv
<1>2. TableOf(t) \in Tables
  BY StripesAreTables DEF TableOf
<1>3. \A r \in Tables : lock[r] = t => r = TableOf(t)
  BY <1>1 DEF Holding, Held, AtReleasing
<1> QED
  BY <1>1, <1>2, <1>3, UnlockFacts

\* A thread there that did not lock it has none.
LEMMA NoneLocked ==
    ASSUME IInv, NEW t \in Threads, ~ frame[t].try, ~ frame[t].locked,
           pc[t] \in {"retaining", "transcribe", "loaded"} \cup AtReleasing
    PROVE  \A r \in Tables : lock[r] # t
BY DEF IInv, Holding, Held, AtReleasing

\* What is left to show of a step that ends a function.
LEMMA EndPreserves ==
    ASSUME IInv, NEW t \in Threads, NEW place \in {"idle", "loaded", "dealloc"},
           NEW g \in Frames, Goto(t, place, g), TypeOK',
           place # "idle" => g.obj \in Objects,
           \A u \in Threads \ {t} : refs'[u] = refs[u],
           \A u \in Threads \ {t}, r \in Tables : (lock'[r] = u) <=> (lock[r] = u),
           \A r \in Tables : lock'[r] = t =>
               place = "loaded" /\ g.try /\ r = StripeOf[g.obj]
    PROVE  IInv'
<1>1. TypeOK
  BY DEF IInv
<1>2. pc'[t] = place /\ frame'[t] = g
  BY <1>1, GotoFacts
<1>3. Local(t)'
  BY <1>2 DEF Local, AtObject, AtLocation, AtReleasing
<1>4. Holding(t)'
  BY <1>2 DEF Holding, Held, AtReleasing, TableOf
<1> QED
  BY <1>1, <1>3, <1>4, GotoFacts, ByOneThread

\* The end of rootRetain.
LEMMA RetainDoneFacts ==
    ASSUME IInv, NEW t \in Threads, pc[t] \in {"retaining", "transcribe"}, RetainDone(t)
    PROVE  /\ lock' \in [Tables -> Threads \cup {nil}]
           /\ aborted' \in BOOLEAN
           /\ \A u \in Threads \ {t}, r \in Tables : (lock'[r] = u) <=> (lock[r] = u)
           /\ \E place \in {"idle", "loaded"}, g \in Frames :
                 /\ Goto(t, place, g)
                 /\ place = "loaded" => g.obj \in Objects
                 /\ \A r \in Tables : lock'[r] = t =>
                        place = "loaded" /\ g.try /\ r = StripeOf[g.obj]
<1>1. TypeOK /\ Local(t) /\ Holding(t)
  BY DEF IInv
<1>2. frame[t] \in Frames /\ frame[t].obj \in Objects
  BY <1>1 DEF TypeOK, Local, AtObject
<1>3. CASE frame[t].try
  <2>1. Goto(t, "loaded", frame[t]) /\ UNCHANGED <<lock, aborted>>
    BY <1>3 DEF RetainDone
  <2>2. \A r \in Tables : lock[r] = t => r = StripeOf[frame[t].obj]
    BY <1>1 DEF Holding, Held, TableOf, AtReleasing
  <2> QED
    BY <1>1, <1>2, <1>3, <2>1, <2>2 DEF TypeOK
<1>4. CASE ~ frame[t].try /\ frame[t].locked
  <2>1. Goto(t, "idle", Idle) /\ UnlockTables(t, {TableOf(t)})
    BY <1>4 DEF RetainDone, Return
  <2> QED
    BY <1>2, <2>1, UnlockOwn, IdleFrame
<1>5. CASE ~ frame[t].try /\ ~ frame[t].locked
  <2>1. Goto(t, "idle", Idle) /\ UNCHANGED <<lock, aborted>>
    BY <1>5 DEF RetainDone, Return
  <2>2. \A r \in Tables : lock[r] # t
    BY <1>5, NoneLocked
  <2> QED
    BY <1>1, <2>1, <2>2, IdleFrame DEF TypeOK
<1> QED
  BY <1>3, <1>4, <1>5

\* The end of rootRelease.
LEMMA ReleaseDoneFacts ==
    ASSUME IInv, NEW t \in Threads, pc[t] \in AtReleasing, ~ frame[t].try,
           NEW transition \in BOOLEAN, ReleaseDone(t, transition)
    PROVE  /\ lock' \in [Tables -> Threads \cup {nil}]
           /\ aborted' \in BOOLEAN
           /\ refs' \in [Threads -> [Objects -> Nat]]
           /\ \A u \in Threads \ {t} : refs'[u] = refs[u]
           /\ \A u \in Threads \ {t}, r \in Tables : (lock'[r] = u) <=> (lock[r] = u)
           /\ \A r \in Tables : lock'[r] # t
           /\ \E place \in {"idle", "dealloc"}, g \in Frames :
                 Goto(t, place, g) /\ (place = "dealloc" => g.obj \in Objects)
<1>1. TypeOK /\ Local(t) /\ Holding(t)
  BY DEF IInv
<1>2. frame[t] \in Frames /\ frame[t].obj \in Objects /\ refs[t][frame[t].obj] > 0
  BY <1>1 DEF TypeOK, Local, AtObject, AtReleasing
<1>3. /\ refs' \in [Threads -> [Objects -> Nat]]
      /\ \A u \in Threads \ {t} : refs'[u] = refs[u]
  <2>1. refs' = [refs EXCEPT ![t][frame[t].obj] = @ - 1]
    BY DEF ReleaseDone, Disown
  <2>2. refs[t][frame[t].obj] - 1 \in Nat
    BY <1>1, <1>2 DEF TypeOK
  <2> QED
    BY <1>1, <1>2, <2>1, <2>2 DEF TypeOK
<1>4. /\ lock' \in [Tables -> Threads \cup {nil}]
      /\ aborted' \in BOOLEAN
      /\ \A u \in Threads \ {t}, r \in Tables : (lock'[r] = u) <=> (lock[r] = u)
      /\ \A r \in Tables : lock'[r] # t
  <2>1. CASE frame[t].locked
    BY <1>2, <2>1, UnlockOwn DEF ReleaseDone
  <2>2. CASE ~ frame[t].locked
    <3>1. \A r \in Tables : lock[r] # t
      BY <2>2, NoneLocked
    <3> QED
      BY <1>1, <2>2, <3>1 DEF ReleaseDone, TypeOK
  <2> QED
    BY <2>1, <2>2
<1>5. \E place \in {"idle", "dealloc"}, g \in Frames :
          Goto(t, place, g) /\ (place = "dealloc" => g.obj \in Objects)
  <2>1. [Idle EXCEPT !.obj = frame[t].obj] \in Frames
    BY <1>2 DEF Idle, Frames
  <2>2. [Idle EXCEPT !.obj = frame[t].obj].obj \in Objects
    BY <1>2 DEF Idle
  <2>3. CASE transition
    BY <2>1, <2>2, <2>3 DEF ReleaseDone
  <2>4. CASE ~ transition
    BY <2>4, IdleFrame DEF ReleaseDone, Return
  <2> QED
    BY <2>3, <2>4
<1> QED
  BY <1>3, <1>4, <1>5

LEMMA RetainDeallocatingPreserves ==
    ASSUME IInv, NEW t \in Threads, RetainDeallocating(t)
    PROVE  IInv'
<1>1. TypeOK /\ Local(t) /\ Holding(t)
  BY DEF IInv
<1>2. /\ pc[t] = "retaining" /\ frame[t] \in Frames /\ frame[t].obj \in Objects
      /\ UNCHANGED <<isa, tables, client>>
  BY <1>1 DEF RetainDeallocating, TypeOK, Local, AtObject
<1>3. /\ lock' \in [Tables -> Threads \cup {nil}]
      /\ aborted' \in BOOLEAN
      /\ \A u \in Threads \ {t}, r \in Tables : (lock'[r] = u) <=> (lock[r] = u)
      /\ \A r \in Tables : lock'[r] = t => frame[t].try /\ r = StripeOf[frame[t].obj]
  <2>1. CASE frame[t].locked
    BY <1>2, <2>1, UnlockOwn DEF RetainDeallocating
  <2>2. CASE ~ frame[t].locked
    BY <1>1, <1>2, <2>2 DEF RetainDeallocating, TypeOK, Holding, Held, TableOf, AtReleasing
  <2> QED
    BY <2>1, <2>2
<1>4. PICK place \in {"idle", "loaded"}, g \in Frames :
          /\ Goto(t, place, g)
          /\ place = "loaded" => g = frame[t]
          /\ place = "idle" => ~ frame[t].try
  BY <1>2, IdleFrame DEF RetainDeallocating, Return
<1>5. TypeOK'
  BY <1>1, <1>2, <1>3, <1>4, GotoFacts DEF TypeOK, Places, tables, client
<1> QED
  BY <1>2, <1>3, <1>4, <1>5, EndPreserves DEF client

LEMMA RetainLockPreserves ==
    ASSUME IInv, NEW t \in Threads, RetainLock(t)
    PROVE  IInv'
<1> DEFINE f == [frame[t] EXCEPT !.locked = TRUE]
<1>1. TypeOK /\ Local(t) /\ Holding(t)
  BY DEF IInv
<1>2. /\ pc[t] = "retaining" /\ frame[t] \in Frames /\ frame[t].obj \in Objects
      /\ UNCHANGED <<isa, tables, aborted, client>> /\ Goto(t, "retaining", f)
  BY <1>1 DEF RetainLock, Retaining, TypeOK, Local, AtObject
<1>3. f \in Frames /\ pc'[t] = "retaining" /\ frame'[t] = f
  <2>1. f \in Frames
    BY <1>2 DEF Frames
  <2> QED
    BY <1>1, <1>2, <2>1, GotoFacts
<1>4. /\ lock' \in [Tables -> Threads \cup {nil}]
      /\ \A u \in Threads \ {t}, r \in Tables : (lock'[r] = u) <=> (lock[r] = u)
      /\ \A r \in Tables : lock'[r] = t => r = TableOf(t)
  <2>1. \A r \in Tables : lock[r] = t => r = TableOf(t)
    BY <1>1, <1>2 DEF Holding, Held, AtReleasing
  <2>2. CASE frame[t].try
    BY <1>1, <2>1, <2>2 DEF RetainLock, TypeOK
  <2>3. CASE ~ frame[t].try
    <3>1. TableOf(t) \in Tables
      BY <1>2, StripesAreTables DEF TableOf
    <3>2. LockTable(t, TableOf(t))
      BY <2>3 DEF RetainLock
    <3> QED
      BY <1>1, <2>1, <3>1, <3>2, LockFacts
  <2> QED
    BY <2>2, <2>3
<1>5. TypeOK'
  BY <1>1, <1>2, <1>3, <1>4, GotoFacts DEF TypeOK, Places, tables, client
<1>6. Local(t)'
  BY <1>1, <1>2, <1>3 DEF Frames, Local, AtObject, AtLocation, AtReleasing, client
<1>7. Holding(t)'
  BY <1>2, <1>3, <1>4 DEF Frames, Holding, Held, AtReleasing, TableOf
<1> QED
  BY <1>1, <1>2, <1>4, <1>5, <1>6, <1>7, GotoFacts, ByOneThread DEF client

LEMMA RetainStorePreserves ==
    ASSUME IInv, NEW t \in Threads, RetainStore(t)
    PROVE  IInv'
<1> DEFINE o == frame[t].obj
           new == [frame[t].old EXCEPT !.extra_rc = @ + 1]
<1>1. TypeOK /\ Local(t)
  BY DEF IInv
<1>2. /\ pc[t] = "retaining" /\ o \in Objects /\ frame[t].old \in IsaWords
      /\ frame[t].old.extra_rc # ExtraMax /\ UNCHANGED <<tables, life>>
  BY <1>1 DEF RetainStore, Retaining, Carry, Local, AtObject
<1>3. new \in IsaWords
  BY <1>2, HalfAssumption DEF IsaWords, ExtraMax
<1>4. CASE /\ isa[o] = frame[t].old
           /\ isa' = [isa EXCEPT ![o] = new]
           /\ RetainDone(t) /\ Own(t, o)
  <2>1. /\ refs' \in [Threads -> [Objects -> Nat]]
        /\ \A u \in Threads \ {t} : refs'[u] = refs[u]
    BY <1>1, <1>2, <1>4 DEF Own, TypeOK
  <2>2. PICK place \in {"idle", "loaded"}, g \in Frames :
            /\ Goto(t, place, g)
            /\ place = "loaded" => g.obj \in Objects
            /\ \A r \in Tables : lock'[r] = t =>
                   place = "loaded" /\ g.try /\ r = StripeOf[g.obj]
    BY <1>2, <1>4, RetainDoneFacts
  <2>3. /\ lock' \in [Tables -> Threads \cup {nil}]
        /\ aborted' \in BOOLEAN
        /\ \A u \in Threads \ {t}, r \in Tables : (lock'[r] = u) <=> (lock[r] = u)
    BY <1>2, <1>4, RetainDoneFacts
  <2>4. TypeOK'
    BY <1>1, <1>2, <1>3, <1>4, <2>1, <2>2, <2>3, GotoFacts DEF TypeOK, Places, tables
  <2> QED
    BY <2>1, <2>2, <2>3, <2>4, EndPreserves
<1>5. CASE /\ Goto(t, pc[t], [frame[t] EXCEPT !.old = isa[o]])
           /\ UNCHANGED <<isa, lock, aborted, refs>>
  BY <1>2, <1>5, RereadPreserves DEF client
<1> QED
  BY <1>4, <1>5 DEF RetainStore, Exclusive

LEMMA RetainStoreHalfPreserves ==
    ASSUME IInv, NEW t \in Threads, RetainStoreHalf(t)
    PROVE  IInv'
<1> DEFINE o == frame[t].obj
           new == [frame[t].old EXCEPT !.extra_rc = RC_HALF, !.has_sidetable_rc = TRUE]
<1>1. TypeOK /\ Local(t) /\ Holding(t)
  BY DEF IInv
<1>2. /\ pc[t] = "retaining" /\ o \in Objects /\ frame[t].old \in IsaWords
      /\ frame[t] \in Frames /\ UNCHANGED <<tables, life>>
  BY <1>1 DEF RetainStoreHalf, Retaining, TypeOK, Local, AtObject
<1>3. new \in IsaWords
  <2>1. RC_HALF \in 0..ExtraMax
    BY HalfAssumption DEF ExtraMax
  <2> QED
    BY <1>2, <2>1 DEF IsaWords
<1>4. CASE /\ isa[o] = frame[t].old
           /\ isa' = [isa EXCEPT ![o] = new]
           /\ Goto(t, "transcribe", frame[t]) /\ Own(t, o) /\ UNCHANGED <<lock, aborted>>
  <2>1. /\ refs' \in [Threads -> [Objects -> Nat]]
        /\ \A u \in Threads \ {t} : refs'[u] = refs[u]
    BY <1>1, <1>2, <1>4 DEF Own, TypeOK
  <2>2. pc'[t] = "transcribe" /\ frame'[t] = frame[t]
    BY <1>1, <1>4, GotoFacts
  <2>3. TypeOK'
    BY <1>1, <1>2, <1>3, <1>4, <2>1, GotoFacts DEF TypeOK, Places, tables
  <2>4. Local(t)'
    BY <1>2, <2>2 DEF Local, AtObject, AtLocation, AtReleasing
  <2>5. Holding(t)'
    BY <1>1, <1>2, <1>4, <2>2 DEF Holding, Held, AtReleasing, TableOf
  <2> QED
    BY <1>1, <1>4, <2>1, <2>3, <2>4, <2>5, GotoFacts, ByOneThread
<1>5. CASE /\ Goto(t, pc[t], [frame[t] EXCEPT !.old = isa[o]])
           /\ UNCHANGED <<isa, lock, aborted, refs>>
  BY <1>2, <1>5, RereadPreserves DEF client
<1> QED
  BY <1>4, <1>5 DEF RetainStoreHalf, Exclusive

LEMMA TranscribePreserves ==
    ASSUME IInv, NEW t \in Threads, Transcribe(t)
    PROVE  IInv'
<1>1. TypeOK /\ Local(t)
  BY DEF IInv
<1>2. /\ pc[t] = "transcribe" /\ frame[t].obj \in Objects /\ RetainDone(t)
      /\ refcnts' = [refcnts EXCEPT ![frame[t].obj] = @ + RC_HALF]
      /\ UNCHANGED <<isa, referrers, location, client>>
  BY <1>1 DEF Transcribe, Local, AtObject
<1>3. refcnts' \in [Objects -> Nat]
  BY <1>1, <1>2, HalfAssumption DEF TypeOK
<1>4. PICK place \in {"idle", "loaded"}, g \in Frames :
          /\ Goto(t, place, g)
          /\ place = "loaded" => g.obj \in Objects
          /\ \A r \in Tables : lock'[r] = t =>
                 place = "loaded" /\ g.try /\ r = StripeOf[g.obj]
  BY <1>2, RetainDoneFacts
<1>5. /\ lock' \in [Tables -> Threads \cup {nil}]
      /\ aborted' \in BOOLEAN
      /\ \A u \in Threads \ {t}, r \in Tables : (lock'[r] = u) <=> (lock[r] = u)
  BY <1>2, RetainDoneFacts
<1>6. TypeOK'
  BY <1>1, <1>2, <1>3, <1>4, <1>5, GotoFacts DEF TypeOK, Places, client
<1> QED
  BY <1>2, <1>4, <1>5, <1>6, EndPreserves DEF client

LEMMA ReleaseStorePreserves ==
    ASSUME IInv, NEW t \in Threads, ReleaseStore(t)
    PROVE  IInv'
<1> DEFINE o == frame[t].obj
           new == [frame[t].old EXCEPT !.extra_rc = @ - 1]
<1>1. TypeOK /\ Local(t)
  BY DEF IInv
<1>2. /\ pc[t] = "releasing" /\ o \in Objects /\ frame[t].old \in IsaWords
      /\ frame[t].old.extra_rc > 0 /\ ~ frame[t].try /\ UNCHANGED <<tables, life>>
  BY <1>1 DEF ReleaseStore, Local, AtObject, AtReleasing
<1>3. new \in IsaWords
  BY <1>2, HalfAssumption DEF IsaWords, ExtraMax
<1>4. CASE /\ isa[o] = frame[t].old
           /\ isa' = [isa EXCEPT ![o] = new]
           /\ ReleaseDone(t, isDeallocating(new))
  <2>1. isDeallocating(new) \in BOOLEAN
    BY DEF isDeallocating
  <2>2. /\ lock' \in [Tables -> Threads \cup {nil}]
        /\ aborted' \in BOOLEAN
        /\ refs' \in [Threads -> [Objects -> Nat]]
        /\ \A u \in Threads \ {t} : refs'[u] = refs[u]
        /\ \A u \in Threads \ {t}, r \in Tables : (lock'[r] = u) <=> (lock[r] = u)
        /\ \A r \in Tables : lock'[r] # t
        /\ \E place \in {"idle", "dealloc"}, g \in Frames :
              Goto(t, place, g) /\ (place = "dealloc" => g.obj \in Objects)
    BY <1>2, <1>4, <2>1, ReleaseDoneFacts DEF AtReleasing
  <2>3. PICK place \in {"idle", "dealloc"}, g \in Frames :
            Goto(t, place, g) /\ (place = "dealloc" => g.obj \in Objects)
    BY <2>2
  <2>4. TypeOK'
    BY <1>1, <1>2, <1>3, <1>4, <2>2, <2>3, GotoFacts DEF TypeOK, Places, tables
  <2> QED
    BY <2>2, <2>3, <2>4, EndPreserves
<1>5. CASE /\ Goto(t, pc[t], [frame[t] EXCEPT !.old = isa[o]])
           /\ UNCHANGED <<isa, lock, aborted, refs>>
  BY <1>2, <1>5, RereadPreserves DEF client
<1> QED
  BY <1>4, <1>5 DEF ReleaseStore, Exclusive

LEMMA ReleaseLockPreserves ==
    ASSUME IInv, NEW t \in Threads, ReleaseLock(t)
    PROVE  IInv'
<1> DEFINE f == [frame[t] EXCEPT !.locked = TRUE]
<1>1. TypeOK /\ Local(t) /\ Holding(t)
  BY DEF IInv
<1>2. /\ pc[t] = "releasing" /\ frame[t] \in Frames /\ frame[t].obj \in Objects
      /\ UNCHANGED <<isa, tables, aborted, client>> /\ Goto(t, "release", f)
      /\ LockTable(t, TableOf(t))
  BY <1>1 DEF ReleaseLock, Underflow, TypeOK, Local, AtObject
<1>3. f \in Frames /\ pc'[t] = "release" /\ frame'[t] = f
  <2>1. f \in Frames
    BY <1>2 DEF Frames
  <2> QED
    BY <1>1, <1>2, <2>1, GotoFacts
<1>4. /\ lock' \in [Tables -> Threads \cup {nil}]
      /\ \A u \in Threads \ {t}, r \in Tables : (lock'[r] = u) <=> (lock[r] = u)
      /\ \A r \in Tables : lock'[r] = t => r = TableOf(t)
  <2>1. \A r \in Tables : lock[r] = t => r = TableOf(t)
    BY <1>1, <1>2 DEF Holding, Held, AtReleasing
  <2>2. TableOf(t) \in Tables
    BY <1>2, StripesAreTables DEF TableOf
  <2> QED
    BY <1>1, <1>2, <2>1, <2>2, LockFacts
<1>5. TypeOK'
  BY <1>1, <1>2, <1>3, <1>4, GotoFacts DEF TypeOK, Places, tables, client
<1>6. Local(t)'
  BY <1>1, <1>2, <1>3 DEF Frames, Local, AtObject, AtLocation, AtReleasing, client
<1>7. Holding(t)'
  BY <1>2, <1>3, <1>4 DEF Frames, Holding, Held, AtReleasing, TableOf
<1> QED
  BY <1>1, <1>2, <1>4, <1>5, <1>6, <1>7, GotoFacts, ByOneThread DEF client

LEMMA BorrowStorePreserves ==
    ASSUME IInv, NEW t \in Threads, BorrowStore(t)
    PROVE  IInv'
<1> DEFINE o == frame[t].obj
<1>1. TypeOK /\ Local(t) /\ Holding(t)
  BY DEF IInv
<1>2. /\ pc[t] = "borrowed" /\ o \in Objects /\ frame[t] \in Frames
      /\ frame[t].borrowed = RC_HALF /\ ~ frame[t].try /\ UNCHANGED <<tables, life>>
  BY <1>1 DEF BorrowStore, TypeOK, Local, AtObject, AtReleasing
<1>3. CASE /\ isa' = [isa EXCEPT ![o].extra_rc = frame[t].borrowed - 1,
                                 ![o].has_sidetable_rc = ~ emptySideTable(t)]
           /\ ReleaseDone(t, FALSE)
  <2>1. isa' \in [Objects -> IsaWords]
    <3>1. RC_HALF - 1 \in 0..ExtraMax
      BY HalfAssumption DEF ExtraMax
    <3>2. (~ emptySideTable(t)) \in BOOLEAN
      BY DEF emptySideTable
    <3> DEFINE new == [isa[o] EXCEPT !.extra_rc = frame[t].borrowed - 1,
                                     !.has_sidetable_rc = ~ emptySideTable(t)]
    <3>3. new \in IsaWords
      BY <1>1, <1>2, <3>1, <3>2 DEF TypeOK, IsaWords
    <3>4. isa' = [isa EXCEPT ![o] = new]
      BY <1>1, <1>2, <1>3 DEF TypeOK
    <3> QED
      BY <1>1, <1>2, <3>3, <3>4 DEF TypeOK
  <2>2. /\ lock' \in [Tables -> Threads \cup {nil}]
        /\ aborted' \in BOOLEAN
        /\ refs' \in [Threads -> [Objects -> Nat]]
        /\ \A u \in Threads \ {t} : refs'[u] = refs[u]
        /\ \A u \in Threads \ {t}, r \in Tables : (lock'[r] = u) <=> (lock[r] = u)
        /\ \A r \in Tables : lock'[r] # t
        /\ \E place \in {"idle", "dealloc"}, g \in Frames :
              Goto(t, place, g) /\ (place = "dealloc" => g.obj \in Objects)
    BY <1>2, <1>3, ReleaseDoneFacts DEF AtReleasing
  <2>3. PICK place \in {"idle", "dealloc"}, g \in Frames :
            Goto(t, place, g) /\ (place = "dealloc" => g.obj \in Objects)
    BY <2>2
  <2>4. TypeOK'
    BY <1>1, <1>2, <2>1, <2>2, <2>3, GotoFacts DEF TypeOK, Places, tables
  <2> QED
    BY <2>2, <2>3, <2>4, EndPreserves
<1>4. CASE /\ Goto(t, "borrowed2", [frame[t] EXCEPT !.old = isa[o]])
           /\ UNCHANGED <<isa, lock, aborted, refs>>
  <2> DEFINE f == [frame[t] EXCEPT !.old = isa[o]]
  <2>1. isa[o] \in IsaWords
    BY <1>1, <1>2 DEF TypeOK
  <2>2. f \in Frames
    BY <1>2, <2>1 DEF Frames
  <2>3. pc'[t] = "borrowed2" /\ frame'[t] = f
    BY <1>1, <1>4, GotoFacts
  <2>4. TypeOK'
    BY <1>1, <1>2, <1>4, <2>2, GotoFacts DEF TypeOK, Places, tables
  <2>5. Local(t)'
    BY <1>1, <1>2, <1>4, <2>1, <2>3 DEF Frames, Local, AtObject, AtLocation, AtReleasing
  <2>6. Holding(t)'
    BY <1>1, <1>2, <1>4, <2>3 DEF Frames, Holding, Held, AtReleasing, TableOf
  <2> QED
    BY <1>1, <1>4, <2>4, <2>5, <2>6, GotoFacts, ByOneThread
<1> QED
  BY <1>3, <1>4 DEF BorrowStore

LEMMA BorrowStoreAgainPreserves ==
    ASSUME IInv, NEW t \in Threads, BorrowStoreAgain(t)
    PROVE  IInv'
<1> DEFINE f == frame[t]
           sum == f.old.extra_rc + f.borrowed - 1
           new == [f.old EXCEPT !.extra_rc = sum, !.has_sidetable_rc = ~ emptySideTable(t)]
<1>1. TypeOK /\ Local(t) /\ Holding(t)
  BY DEF IInv
<1>2. /\ pc[t] = "borrowed2" /\ f.obj \in Objects /\ f \in Frames /\ f.old \in IsaWords
      /\ f.borrowed = RC_HALF /\ ~ f.try /\ UNCHANGED <<tables, life>>
  BY <1>1 DEF BorrowStoreAgain, TypeOK, Local, AtObject, AtReleasing
<1>3. CASE sum <= ExtraMax /\ isa[f.obj] = f.old
  <2>1. isa' = [isa EXCEPT ![f.obj] = new] /\ ReleaseDone(t, isDeallocating(new))
    BY <1>3 DEF BorrowStoreAgain
  <2>2. new \in IsaWords
    <3>1. sum \in 0..ExtraMax
      BY <1>2, <1>3, HalfAssumption DEF ExtraMax, IsaWords
    <3>2. (~ emptySideTable(t)) \in BOOLEAN
      BY DEF emptySideTable
    <3> QED
      BY <1>2, <3>1, <3>2 DEF IsaWords
  <2>3. isDeallocating(new) \in BOOLEAN
    BY DEF isDeallocating
  <2>4. /\ lock' \in [Tables -> Threads \cup {nil}]
        /\ aborted' \in BOOLEAN
        /\ refs' \in [Threads -> [Objects -> Nat]]
        /\ \A u \in Threads \ {t} : refs'[u] = refs[u]
        /\ \A u \in Threads \ {t}, r \in Tables : (lock'[r] = u) <=> (lock[r] = u)
        /\ \A r \in Tables : lock'[r] # t
        /\ \E place \in {"idle", "dealloc"}, g \in Frames :
              Goto(t, place, g) /\ (place = "dealloc" => g.obj \in Objects)
    BY <1>2, <2>1, <2>3, ReleaseDoneFacts DEF AtReleasing
  <2>5. PICK place \in {"idle", "dealloc"}, g \in Frames :
            Goto(t, place, g) /\ (place = "dealloc" => g.obj \in Objects)
    BY <2>4
  <2>6. TypeOK'
    BY <1>1, <1>2, <2>1, <2>2, <2>4, <2>5, GotoFacts DEF TypeOK, Places, tables
  <2> QED
    BY <2>4, <2>5, <2>6, EndPreserves
<1>4. CASE ~ (sum <= ExtraMax /\ isa[f.obj] = f.old)
  <2>1. Goto(t, "putBack", f) /\ UNCHANGED <<isa, lock, aborted, refs>>
    BY <1>4 DEF BorrowStoreAgain
  <2>2. pc'[t] = "putBack" /\ frame'[t] = f
    BY <1>1, <2>1, GotoFacts
  <2>3. TypeOK'
    BY <1>1, <1>2, <2>1, GotoFacts DEF TypeOK, Places, tables
  <2>4. Local(t)'
    BY <1>1, <1>2, <2>1, <2>2 DEF Local, AtObject, AtLocation, AtReleasing
  <2>5. Holding(t)'
    BY <1>1, <1>2, <2>1, <2>2 DEF Holding, Held, AtReleasing, TableOf
  <2> QED
    BY <1>1, <2>1, <2>3, <2>4, <2>5, GotoFacts, ByOneThread
<1> QED
  BY <1>3, <1>4

LEMMA LoadLocationPreserves ==
    ASSUME IInv, NEW t \in Threads, LoadLocation(t)
    PROVE  IInv'
<1> DEFINE o == location[frame[t].loc]
           f == [frame[t] EXCEPT !.obj = o]
<1>1. TypeOK /\ Local(t) /\ Holding(t)
  BY DEF IInv
<1>2. /\ pc[t] = "load" /\ frame[t] \in Frames /\ frame[t].loc \in Locations
      /\ o \in Objects \cup {nil} /\ UNCHANGED <<isa, tables, lock, aborted, client>>
  BY <1>1 DEF LoadLocation, TypeOK, Local, AtLocation
<1>3. \A r \in Tables : lock[r] # t
  BY <1>1, <1>2 DEF Holding, Held, AtReleasing
<1>4. CASE o = nil
  <2>1. Goto(t, "idle", Idle)
    BY <1>4 DEF LoadLocation, Return
  <2>2. TypeOK'
    BY <1>1, <1>2, <2>1, GotoFacts, IdleFrame DEF TypeOK, Places, tables, client
  <2> QED
    BY <1>2, <1>3, <2>1, <2>2, EndPreserves, IdleFrame DEF client
<1>5. CASE o # nil
  <2>1. Goto(t, "lockLoad", f)
    BY <1>5 DEF LoadLocation
  <2>2. f \in Frames
    BY <1>2 DEF Frames
  <2>3. pc'[t] = "lockLoad" /\ frame'[t] = f
    BY <1>1, <2>1, GotoFacts
  <2>4. TypeOK'
    BY <1>1, <1>2, <2>1, <2>2, GotoFacts DEF TypeOK, Places, tables, client
  <2>5. Local(t)'
    BY <1>1, <1>2, <1>5, <2>3 DEF Frames, Local, AtObject, AtLocation, AtReleasing
  <2>6. Holding(t)'
    BY <1>2, <1>3, <2>3 DEF Holding, Held, AtReleasing
  <2> QED
    BY <1>1, <1>2, <2>1, <2>4, <2>5, <2>6, GotoFacts, ByOneThread DEF client
<1> QED
  BY <1>4, <1>5

\* A load that finds the variable unchanged holds the table of its object.
LEMMA LoadLockPreserves ==
    ASSUME IInv, NEW t \in Threads, LoadLock(t)
    PROVE  IInv'
<1> DEFINE f == frame[t]
<1>1. TypeOK /\ Local(t) /\ Holding(t)
  BY DEF IInv
<1>2. /\ pc[t] = "lockLoad" /\ f \in Frames /\ f.obj \in Objects /\ f.loc \in Locations
      /\ UNCHANGED <<isa, tables, aborted, client>>
  BY <1>1 DEF LoadLock, TypeOK, Local, AtObject, AtLocation
<1>3. \A r \in Tables : lock[r] # t
  BY <1>1, <1>2 DEF Holding, Held, AtReleasing
<1>4. CASE location[f.loc] = f.obj /\ f.try
  <2>1. LockTable(t, TableOf(t)) /\ Goto(t, "retain", f)
    BY <1>4 DEF LoadLock
  <2>2. TableOf(t) \in Tables
    BY <1>2, StripesAreTables DEF TableOf
  <2>3. pc'[t] = "retain" /\ frame'[t] = f
    BY <1>1, <2>1, GotoFacts
  <2>4. TypeOK'
    BY <1>1, <1>2, <2>1, <2>2, GotoFacts, LockFacts DEF TypeOK, Places, tables, client
  <2>5. Local(t)'
    BY <1>2, <2>3 DEF Local, AtObject, AtLocation, AtReleasing
  <2>6. \A r \in Tables : lock'[r] = t => r = TableOf(t)
    BY <1>1, <1>3, <2>1, <2>2, LockFacts
  <2>7. Holding(t)'
    BY <1>4, <2>3, <2>6 DEF Holding, Held, AtReleasing, TableOf
  <2> QED
    BY <1>1, <1>2, <2>1, <2>2, <2>4, <2>5, <2>7, GotoFacts, LockFacts, ByOneThread DEF client
<1>5. CASE location[f.loc] # f.obj
  <2>1. UNCHANGED lock /\ Goto(t, "load", f)
    BY <1>5 DEF LoadLock
  <2>2. pc'[t] = "load" /\ frame'[t] = f
    BY <1>1, <2>1, GotoFacts
  <2>3. TypeOK'
    BY <1>1, <1>2, <2>1, GotoFacts DEF TypeOK, Places, tables, client
  <2>4. Local(t)'
    BY <1>1, <1>2, <2>2 DEF Local, AtObject, AtLocation, AtReleasing
  <2>5. Holding(t)'
    BY <1>3, <2>1, <2>2 DEF Holding, Held, AtReleasing
  <2> QED
    BY <1>1, <1>2, <2>1, <2>3, <2>4, <2>5, GotoFacts, ByOneThread DEF client
<1> QED
  BY <1>1, <1>2, <1>4, <1>5 DEF Local

LEMMA LoadUnlockPreserves ==
    ASSUME IInv, NEW t \in Threads, LoadUnlock(t)
    PROVE  IInv'
<1>1. TypeOK /\ Local(t)
  BY DEF IInv
<1>2. /\ pc[t] = "loaded" /\ frame[t].obj \in Objects /\ UnlockTables(t, {TableOf(t)})
      /\ Goto(t, "idle", Idle) /\ UNCHANGED <<isa, tables, client>>
  BY <1>1 DEF LoadUnlock, Return, Local, AtObject
<1>3. /\ lock' \in [Tables -> Threads \cup {nil}]
      /\ aborted' \in BOOLEAN
      /\ \A u \in Threads \ {t}, r \in Tables : (lock'[r] = u) <=> (lock[r] = u)
      /\ \A r \in Tables : lock'[r] # t
  BY <1>2, UnlockOwn
<1>4. TypeOK'
  BY <1>1, <1>2, <1>3, GotoFacts, IdleFrame DEF TypeOK, Places, tables, client
<1> QED
  BY <1>2, <1>3, <1>4, EndPreserves, IdleFrame DEF client

-----------------------------------------------------------------------------
(* objc_storeWeak                                                          *)

LEMMA StoreLockFirstPreserves ==
    ASSUME IInv, NEW t \in Threads, StoreLockFirst(t)
    PROVE  IInv'
<1>1. TypeOK /\ Local(t) /\ Holding(t)
  BY DEF IInv
<1>2. /\ pc[t] = "lockFirst" /\ frame[t] \in Frames /\ frame[t].loc \in Locations
      /\ LockTable(t, First(t)) /\ Goto(t, "lockSecond", frame[t])
      /\ UNCHANGED <<isa, tables, aborted, client>>
  BY <1>1 DEF StoreLockFirst, TypeOK, Local, AtLocation
<1>3. First(t) \in Tables
  BY <1>2, LockOrderFacts DEF Frames
<1>4. pc'[t] = "lockSecond" /\ frame'[t] = frame[t]
  BY <1>1, <1>2, GotoFacts
<1>5. \A r \in Tables : lock[r] # t
  BY <1>1, <1>2 DEF Holding, Held, AtReleasing
<1>6. TypeOK'
  BY <1>1, <1>2, <1>3, GotoFacts, LockFacts DEF TypeOK, Places, tables, client
<1>7. Local(t)'
  BY <1>2, <1>4 DEF Local, AtObject, AtLocation, AtReleasing
<1>8. First(t)' = First(t)
  BY <1>4 DEF First, LockOrder, StoreTables
<1>9. \A r \in Tables : (lock'[r] = t) <=> (r = First(t))
  BY <1>1, <1>2, <1>3, <1>5, LockFacts
<1>10. Holding(t)'
  BY <1>4, <1>8, <1>9 DEF Holding, Held, AtReleasing
<1> QED
  BY <1>1, <1>2, <1>3, <1>6, <1>7, <1>10, GotoFacts, LockFacts, ByOneThread DEF client

LEMMA StoreLockSecondPreserves ==
    ASSUME IInv, NEW t \in Threads, StoreLockSecond(t)
    PROVE  IInv'
<1>1. TypeOK /\ Local(t) /\ Holding(t)
  BY DEF IInv
<1>2. /\ pc[t] = "lockSecond" /\ frame[t] \in Frames /\ frame[t].loc \in Locations
      /\ Goto(t, "register", frame[t]) /\ UNCHANGED <<isa, tables, aborted, client>>
  BY <1>1 DEF StoreLockSecond, TypeOK, Local, AtLocation
<1>3. /\ StoreTables(t) = {First(t), Second(t)} /\ StoreTables(t) \subseteq Tables
  BY <1>2, LockOrderFacts DEF Frames
<1>4. pc'[t] = "register" /\ frame'[t] = frame[t]
  BY <1>1, <1>2, GotoFacts
<1>5. \A r \in Tables : (lock[r] = t) <=> (r = First(t))
  BY <1>1, <1>2 DEF Holding, Held, AtReleasing
<1>6. /\ lock' \in [Tables -> Threads \cup {nil}]
      /\ \A u \in Threads \ {t}, r \in Tables : (lock'[r] = u) <=> (lock[r] = u)
      /\ \A r \in Tables : (lock'[r] = t) <=> (r \in StoreTables(t))
  <2>1. CASE First(t) = Second(t)
    BY <1>1, <1>3, <1>5, <2>1 DEF StoreLockSecond, TypeOK
  <2>2. CASE First(t) # Second(t)
    <3>1. LockTable(t, Second(t))
      BY <2>2 DEF StoreLockSecond
    <3> QED
      BY <1>1, <1>3, <1>5, <3>1, LockFacts
  <2> QED
    BY <2>1, <2>2
<1>7. TypeOK'
  BY <1>1, <1>2, <1>6, GotoFacts DEF TypeOK, Places, tables, client
<1>8. Local(t)'
  BY <1>2, <1>4 DEF Local, AtObject, AtLocation, AtReleasing
<1>9. StoreTables(t)' = StoreTables(t)
  BY <1>4 DEF StoreTables
<1>10. Holding(t)'
  BY <1>4, <1>6, <1>9 DEF Holding, Held, AtReleasing
<1> QED
  BY <1>1, <1>2, <1>6, <1>7, <1>8, <1>10, GotoFacts, ByOneThread DEF client

\* Both tables are unlocked when a weak store is done or has to retry.
LEMMA UnlockBoth ==
    ASSUME IInv, NEW t \in Threads, pc[t] \in {"register", "assign"},
           UnlockTables(t, StoreTables(t))
    PROVE  /\ lock' \in [Tables -> Threads \cup {nil}]
           /\ aborted' \in BOOLEAN
           /\ \A u \in Threads \ {t}, r \in Tables : (lock'[r] = u) <=> (lock[r] = u)
           /\ \A r \in Tables : lock'[r] # t
<1>1. TypeOK /\ Holding(t)
  BY DEF IInv
<1>2. frame[t] \in Frames
  BY <1>1 DEF TypeOK
<1>3. StoreTables(t) \subseteq Tables
  BY <1>2, LockOrderFacts DEF Frames
<1>4. \A r \in Tables : (lock[r] = t) <=> (r \in StoreTables(t))
  BY <1>1 DEF Holding, Held, AtReleasing
<1> QED
  BY <1>1, <1>3, <1>4, UnlockFacts

LEMMA StoreRetryPreserves ==
    ASSUME IInv, NEW t \in Threads, StoreRetry(t)
    PROVE  IInv'
<1>1. TypeOK /\ Local(t)
  BY DEF IInv
<1>2. /\ pc[t] = "register" /\ frame[t] \in Frames /\ frame[t].loc \in Locations
      /\ UnlockTables(t, StoreTables(t)) /\ Goto(t, "store", frame[t])
      /\ UNCHANGED <<isa, tables, client>>
  BY <1>1 DEF StoreRetry, TypeOK, Local, AtLocation
<1>3. pc'[t] = "store" /\ frame'[t] = frame[t]
  BY <1>1, <1>2, GotoFacts
<1>4. /\ lock' \in [Tables -> Threads \cup {nil}]
      /\ aborted' \in BOOLEAN
      /\ \A u \in Threads \ {t}, r \in Tables : (lock'[r] = u) <=> (lock[r] = u)
      /\ \A r \in Tables : lock'[r] # t
  BY <1>2, UnlockBoth
<1>5. TypeOK'
  BY <1>1, <1>2, <1>4, GotoFacts DEF TypeOK, Places, tables, client
<1>6. Local(t)'
  BY <1>2, <1>3 DEF Local, AtObject, AtLocation, AtReleasing
<1>7. Holding(t)'
  BY <1>3, <1>4 DEF Holding, Held, AtReleasing
<1> QED
  BY <1>1, <1>2, <1>4, <1>5, <1>6, <1>7, GotoFacts, ByOneThread DEF client

LEMMA StoreRegisterPreserves ==
    ASSUME IInv, NEW t \in Threads, StoreRegister(t)
    PROVE  IInv'
<1> DEFINE f == frame[t]
<1>1. TypeOK /\ Local(t) /\ Holding(t)
  BY DEF IInv
<1>2. /\ pc[t] = "register" /\ f \in Frames /\ f.loc \in Locations
      /\ UNCHANGED <<isa, refcnts, location, lock, client>>
  BY <1>1 DEF StoreRegister, TypeOK, Local, AtLocation
<1>3. referrers' \in [Objects -> SUBSET Locations] /\ aborted' \in BOOLEAN
  BY <1>1, <1>2 DEF StoreRegister, Register, TypeOK, isDeallocating
<1>4. PICK place \in {"assign", "mark"}, g \in Frames :
          /\ Goto(t, place, g)
          /\ g.obj = f.obj /\ g.oldObj = f.oldObj /\ g.loc = f.loc
          /\ place = "mark" => g.obj \in Objects /\ g.old \in IsaWords
  <2>1. CASE f.obj = nil
    <3>1. Goto(t, "assign", f)
      BY <2>1 DEF StoreRegister, GotoMark
    <3> QED
      BY <1>2, <2>1, <3>1
  <2>2. CASE f.obj # nil
    <3> DEFINE i == isa[f.obj]
               h == [f EXCEPT !.old = i]
    <3>1. f.obj \in Objects /\ i \in IsaWords
      BY <1>1, <1>2, <2>2 DEF TypeOK, Frames
    <3>2. h \in Frames /\ h.obj = f.obj /\ h.oldObj = f.oldObj /\ h.loc = f.loc /\ h.old = i
      BY <1>2, <3>1 DEF Frames
    <3>3. Goto(t, "assign", h) \/ Goto(t, "mark", h)
      BY <2>2 DEF StoreRegister, GotoMark
    <3> QED
      BY <1>2, <3>1, <3>2, <3>3
  <2> QED
    BY <2>1, <2>2
<1>5. pc'[t] = place /\ frame'[t] = g
  BY <1>1, <1>4, GotoFacts
<1>6. TypeOK'
  BY <1>1, <1>2, <1>3, <1>4, GotoFacts DEF TypeOK, Places, client
<1>7. Local(t)'
  BY <1>2, <1>4, <1>5 DEF Local, AtObject, AtLocation, AtReleasing
<1>8. StoreTables(t)' = StoreTables(t)
  BY <1>4, <1>5 DEF StoreTables
<1>9. Holding(t)'
  BY <1>1, <1>2, <1>4, <1>5, <1>8 DEF Holding, Held, AtReleasing
<1> QED
  BY <1>1, <1>2, <1>4, <1>6, <1>7, <1>9, GotoFacts, ByOneThread DEF client

LEMMA StoreMarkPreserves ==
    ASSUME IInv, NEW t \in Threads, StoreMark(t)
    PROVE  IInv'
<1> DEFINE f == frame[t]
           new == [f.old EXCEPT !.weakly_referenced = TRUE]
<1>1. TypeOK /\ Local(t) /\ Holding(t)
  BY DEF IInv
<1>2. /\ pc[t] = "mark" /\ f \in Frames /\ f.loc \in Locations /\ f.obj \in Objects
      /\ f.old \in IsaWords /\ UNCHANGED <<tables, life>>
  BY <1>1 DEF StoreMark, TypeOK, Local, AtLocation, AtObject
<1>3. new \in IsaWords
  BY <1>2 DEF IsaWords
<1>4. CASE /\ isa[f.obj] = f.old
           /\ isa' = [isa EXCEPT ![f.obj] = new]
           /\ Goto(t, "assign", f) /\ UNCHANGED <<lock, aborted, refs>>
  <2>1. pc'[t] = "assign" /\ frame'[t] = f
    BY <1>1, <1>4, GotoFacts
  <2>2. TypeOK'
    BY <1>1, <1>2, <1>3, <1>4, GotoFacts DEF TypeOK, Places, tables
  <2>3. Local(t)'
    BY <1>2, <2>1 DEF Local, AtObject, AtLocation, AtReleasing
  <2>4. StoreTables(t)' = StoreTables(t)
    BY <2>1 DEF StoreTables
  <2>5. Holding(t)'
    BY <1>1, <1>2, <1>4, <2>1, <2>4 DEF Holding, Held, AtReleasing
  <2> QED
    BY <1>1, <1>4, <2>2, <2>3, <2>5, GotoFacts, ByOneThread
<1>5. CASE /\ Goto(t, pc[t], [frame[t] EXCEPT !.old = isa[f.obj]])
           /\ UNCHANGED <<isa, lock, aborted, refs>>
  BY <1>2, <1>5, RereadPreserves DEF client
<1> QED
  BY <1>4, <1>5 DEF StoreMark, Exclusive

LEMMA StoreAssignPreserves ==
    ASSUME IInv, NEW t \in Threads, StoreAssign(t)
    PROVE  IInv'
<1>1. TypeOK /\ Local(t)
  BY DEF IInv
<1>2. /\ pc[t] = "assign" /\ frame[t] \in Frames
      /\ location' = [location EXCEPT ![frame[t].loc] = frame[t].obj]
      /\ UnlockTables(t, StoreTables(t)) /\ Goto(t, "idle", Idle)
      /\ UNCHANGED <<isa, refcnts, referrers, client>>
  BY <1>1 DEF StoreAssign, Return, TypeOK
<1>3. location' \in [Locations -> Objects \cup {nil}]
  BY <1>1, <1>2 DEF TypeOK, Frames
<1>4. /\ lock' \in [Tables -> Threads \cup {nil}]
      /\ aborted' \in BOOLEAN
      /\ \A u \in Threads \ {t}, r \in Tables : (lock'[r] = u) <=> (lock[r] = u)
      /\ \A r \in Tables : lock'[r] # t
  BY <1>2, UnlockBoth
<1>5. TypeOK'
  BY <1>1, <1>2, <1>3, <1>4, GotoFacts, IdleFrame DEF TypeOK, Places, client
<1> QED
  BY <1>2, <1>4, <1>5, EndPreserves, IdleFrame DEF client

-----------------------------------------------------------------------------
(* The theorems                                                            *)

LEMMA InitIInv == Init => IInv
<1> SUFFICES ASSUME Init PROVE IInv
  OBVIOUS
<1>1. TypeOK
  <2>1. isa \in [Objects -> IsaWords]
    BY HalfAssumption DEF Init, IsaWords, ExtraMax
  <2> QED
    BY <2>1, IdleFrame DEF Init, TypeOK, Places
<1>2. ASSUME NEW t \in Threads PROVE Local(t)
  BY DEF Init, Local, AtObject, AtLocation, AtReleasing
<1>3. ASSUME NEW t \in Threads PROVE Holding(t)
  BY NilAssumption DEF Init, Holding
<1> QED
  BY <1>1, <1>2, <1>3 DEF IInv

LEMMA NextIInv == IInv /\ [Next]_vars => IInv'
<1> SUFFICES ASSUME IInv, [Next]_vars PROVE IInv'
  OBVIOUS
<1>1. CASE UNCHANGED vars
  <2>1. TypeOK'
    BY <1>1 DEF IInv, TypeOK, vars, tables, client
  <2>2. ASSUME NEW t \in Threads PROVE Local(t)' /\ Holding(t)'
    <3>1. Local(t) /\ Holding(t)
      BY DEF IInv
    <3> QED
      BY <1>1, <3>1, Others DEF vars
  <2> QED
    BY <2>1, <2>2 DEF IInv
<1>2. ASSUME NEW t \in Threads, Call(t) PROVE IInv'
  BY <1>2, CallPreserves
<1>3. ASSUME NEW t \in Threads, Step(t) PROVE IInv'
  <2>1. CASE \/ RetainLoad(t) \/ RetainDeallocating(t) \/ RetainOverflow(t)
             \/ RetainLock(t) \/ RetainStore(t) \/ RetainStoreHalf(t) \/ Transcribe(t)
    BY <2>1, RetainLoadPreserves, RetainDeallocatingPreserves, RetainOverflowPreserves,
       RetainLockPreserves, RetainStorePreserves, RetainStoreHalfPreserves,
       TranscribePreserves
  <2>2. CASE \/ ReleaseLoad(t) \/ ReleaseStore(t) \/ ReleaseUnderflow(t)
             \/ ReleaseLock(t) \/ Borrow(t) \/ BorrowStore(t) \/ BorrowStoreAgain(t)
             \/ PutBack(t)
    BY <2>2, ReleaseLoadPreserves, ReleaseStorePreserves, ReleaseUnderflowPreserves,
       ReleaseLockPreserves, BorrowPreserves, BorrowStorePreserves,
       BorrowStoreAgainPreserves, PutBackPreserves
  <2>3. CASE Dealloc(t) \/ ClearDeallocating(t) \/ Free(t)
    BY <2>3, DeallocPreserves, ClearDeallocatingPreserves, FreePreserves
  <2>4. CASE LoadLocation(t) \/ LoadLock(t) \/ LoadUnlock(t)
    BY <2>4, LoadLocationPreserves, LoadLockPreserves, LoadUnlockPreserves
  <2>5. CASE \/ StoreLoad(t) \/ StoreLockFirst(t) \/ StoreLockSecond(t)
             \/ StoreRetry(t) \/ StoreRegister(t) \/ StoreMark(t) \/ StoreAssign(t)
    BY <2>5, StoreLoadPreserves, StoreLockFirstPreserves, StoreLockSecondPreserves,
       StoreRetryPreserves, StoreRegisterPreserves, StoreMarkPreserves,
       StoreAssignPreserves
  <2> QED
    BY <1>3, <2>1, <2>2, <2>3, <2>4, <2>5 DEF Step
<1> QED
  BY <1>1, <1>2, <1>3 DEF Next, Halted

LEMMA Invariance == Spec => []IInv
BY InitIInv, NextIInv, PTL DEF Spec

\* Types: extra_rc stays in its bits, whatever is moved to the side table and
\* back, and no thread owns less than no reference.
LEMMA TypeCorrectness == Spec => []TypeOK
<1>1. IInv => TypeOK
  BY DEF IInv
<1> QED
  BY <1>1, Invariance, PTL

\* The side tables are locked in the order of their addresses, by retains and
\* releases under a weak load as well: the runtime's threads never wait for
\* each other's side tables in a circle, however many there are of each.
THEOREM LockOrderTheorem == Spec => []LocksInOrder
<1>1. IInv => LocksInOrder
  <2> SUFFICES ASSUME IInv, NEW t \in Threads, NEW s \in WaitsFor(t), NEW r \in Tables,
                      lock[r] = t
               PROVE  r < s
    BY DEF LocksInOrder
  <2>1. TypeOK /\ Local(t) /\ Holding(t) /\ frame[t] \in Frames
    BY DEF IInv, TypeOK
  <2>2. r \in Held(t)
    BY <2>1 DEF Holding
  <2>3. CASE pc[t] = "lockSecond"
    <3>1. s \in {Second(t)} \ {First(t)}
      BY <2>3 DEF WaitsFor
    <3>2. r = First(t)
      BY <2>2, <2>3 DEF Held, AtReleasing
    <3>3. First(t) \in Nat /\ Second(t) \in Nat /\ First(t) <= Second(t)
      BY <2>1, LockOrderFacts DEF Frames
    <3> QED
      BY <3>1, <3>2, <3>3
  <2>4. CASE pc[t] \in {"lockFirst", "lockLoad", "rootDealloc"}
    BY <2>2, <2>4 DEF Held, AtReleasing
  <2>5. CASE pc[t] \in {"retaining", "releasing"}
    <3>1. ~ frame[t].locked /\ ~ frame[t].try
      BY <2>5 DEF WaitsFor
    <3> QED
      BY <2>2, <2>5, <3>1 DEF Held, AtReleasing
  <2>6. CASE pc[t] \notin {"lockFirst", "lockSecond", "lockLoad", "rootDealloc",
                           "retaining", "releasing"}
    BY <2>6 DEF WaitsFor
  <2> QED
    BY <2>3, <2>4, <2>5, <2>6
<1> QED
  BY <1>1, Invariance, PTL

-----------------------------------------------------------------------------
(* Weak variables and weak tables                                          *)


\* t has registered the variable with the new object and not assigned it yet.
Midway(t) == pc[t] \in {"mark", "assign"}

\* The variable still holds the old object, and only the new one refers to it.
Registered ==
    \A t \in Threads : Midway(t) =>
        /\ location[frame[t].loc] = frame[t].oldObj
        /\ \A o \in Objects : (frame[t].loc \in referrers[o]) = (o = frame[t].obj)

\* A variable that nobody is assigning and the table agree.
Agree ==
    \A l \in Locations :
        (\A t \in Threads : Midway(t) => frame[t].loc # l) =>
        \A o \in Objects : (location[l] = o) = (l \in referrers[o])

\* What a variable holds, or is about to, is marked in its isa.
MarkedWeak ==
    /\ \A l \in Locations : location[l] # nil => isa[location[l]].weakly_referenced
    /\ \A t \in Threads : pc[t] = "assign" /\ frame[t].obj # nil
           => isa[frame[t].obj].weakly_referenced

IWeak == Registered /\ Agree /\ MarkedWeak

-----------------------------------------------------------------------------
(* Facts                                                                   *)

\* A thread on its way knows its variable and holds both tables.
LEMMA MidwayFacts ==
    ASSUME IInv, NEW t \in Threads, Midway(t) \/ pc[t] = "register"
    PROVE  /\ frame[t].loc \in Locations
           /\ frame[t].obj \in Objects \cup {nil} /\ frame[t].oldObj \in Objects \cup {nil}
           /\ lock[StripeOf[frame[t].oldObj]] = t
           /\ frame[t].obj \in Objects => lock[StripeOf[frame[t].obj]] = t
PROOF
<1>1. TypeOK /\ Local(t) /\ Holding(t) BY DEF IInv
<1>2. frame[t] \in Frames BY <1>1 DEF TypeOK
<1>3. frame[t].obj \in Objects \cup {nil} /\ frame[t].oldObj \in Objects \cup {nil}
    BY <1>2 DEF Frames
<1>4. frame[t].loc \in Locations BY <1>1 DEF Local, AtLocation, Midway
<1>5. \A s \in StoreTables(t) : s \in Tables => lock[s] = t
    <2>1. Held(t) = StoreTables(t) BY DEF Held, Midway, AtReleasing
    <2> QED BY <1>1, <2>1 DEF Holding, Midway
<1>6. StripeOf[frame[t].oldObj] \in Tables /\ StripeOf[frame[t].obj] \in Tables
    BY <1>3, StripesAreTables
<1> QED BY <1>3, <1>4, <1>5, <1>6 DEF StoreTables

\* Only one thread at a time is on its way with a variable, because it has
\* locked the table of what the variable holds.
LEMMA OneMidway ==
    ASSUME IInv, IWeak, NEW t \in Threads, NEW u \in Threads,
           Midway(t),
           Midway(u) \/ (pc[u] = "register" /\ location[frame[u].loc] = frame[u].oldObj),
           frame[t].loc = frame[u].loc
    PROVE  t = u
PROOF
<1>1. frame[t].oldObj = location[frame[t].loc] BY DEF IWeak, Registered
<1>2. frame[u].oldObj = location[frame[u].loc] BY DEF IWeak, Registered
<1>3. lock[StripeOf[frame[t].oldObj]] = t /\ lock[StripeOf[frame[u].oldObj]] = u
    BY MidwayFacts
<1> QED BY <1>1, <1>2, <1>3

\* A step that leaves variables and weak tables alone, of a thread that is not
\* on its way before it nor after it.
LEMMA Elsewhere ==
    ASSUME IInv, IWeak, NEW t \in Threads, ~ Midway(t), ~ Midway(t)',
           \A u \in Threads \ {t} : pc'[u] = pc[u] /\ frame'[u] = frame[u],
           UNCHANGED <<referrers, location>>,
           \A o \in Objects : isa[o].weakly_referenced => isa'[o].weakly_referenced
    PROVE  IWeak'
PROOF
<1>1. \A u \in Threads : Midway(u)' => Midway(u) /\ pc'[u] = pc[u] /\ frame'[u] = frame[u]
    BY DEF Midway
<1>2. \A u \in Threads : Midway(u) => Midway(u)' /\ frame'[u] = frame[u]
    BY DEF Midway
<1>3. Registered' BY <1>1 DEF IWeak, Registered
<1>4. Agree' BY <1>2 DEF IWeak, Agree
<1>5. MarkedWeak'
    <2>1. \A l \in Locations : location[l] \in Objects \cup {nil} BY DEF IInv, TypeOK
    <2>2. \A l \in Locations : location'[l] # nil => isa'[location'[l]].weakly_referenced
        BY <2>1 DEF IWeak, MarkedWeak
    <2>3. ASSUME NEW u \in Threads, pc'[u] = "assign", frame'[u].obj # nil
          PROVE  isa'[frame'[u].obj].weakly_referenced
        <3>1. pc[u] = "assign" /\ frame'[u] = frame[u] BY <1>1, <2>3 DEF Midway
        <3>2. frame[u].obj \in Objects BY <2>3, <3>1, MidwayFacts DEF Midway
        <3> QED BY <2>3, <3>1, <3>2 DEF IWeak, MarkedWeak
    <2> QED BY <2>2, <2>3 DEF MarkedWeak
<1> QED BY <1>3, <1>4, <1>5 DEF IWeak

-----------------------------------------------------------------------------
(* Steps that do not touch weak variables                                  *)

LEMMA CallKeeps ==
    ASSUME IInv, IWeak, NEW t \in Threads, Call(t) PROVE IWeak'
PROOF
<1>1. /\ pc[t] = "idle" /\ UNCHANGED <<isa, referrers, location>>
      /\ \E place \in {"retain", "release", "load", "store"} : \E f : Goto(t, place, f)
    BY DEF Call, Retain, Release, LoadWeakRetained, StoreWeak, tables
<1> QED BY <1>1, GotoFacts, Elsewhere DEF IInv, Midway

\* These leave the isa alone.
LEMMA PlainStepsKeep ==
    ASSUME IInv, IWeak, NEW t \in Threads,
           \/ RetainLoad(t) \/ RetainDeallocating(t) \/ RetainOverflow(t) \/ RetainLock(t)
           \/ Transcribe(t) \/ ReleaseLoad(t) \/ ReleaseUnderflow(t) \/ ReleaseLock(t)
           \/ Borrow(t) \/ PutBack(t) \/ Dealloc(t) \/ Free(t)
           \/ LoadLocation(t) \/ LoadLock(t) \/ LoadUnlock(t)
           \/ StoreLoad(t) \/ StoreLockFirst(t) \/ StoreLockSecond(t) \/ StoreRetry(t)
    PROVE  IWeak'
PROOF
<1> DEFINE Quiet == /\ pc[t] \notin {"mark", "assign"}
                    /\ UNCHANGED <<isa, referrers, location>>
                    /\ \E place, f : Goto(t, place, f) /\ place \notin {"mark", "assign"}
<1>1. CASE RetainLoad(t) \/ RetainOverflow(t) \/ RetainLock(t)
    <2>1. Quiet BY <1>1 DEF RetainLoad, RetainOverflow, RetainLock, Retaining, tables
    <2> QED BY <2>1, GotoFacts, Elsewhere DEF IInv, Midway
<1>2. CASE RetainDeallocating(t) \/ Transcribe(t)
    <2>1. Quiet BY <1>2 DEF RetainDeallocating, Transcribe, RetainDone, Return, tables
    <2> QED BY <2>1, GotoFacts, Elsewhere DEF IInv, Midway
<1>3. CASE ReleaseLoad(t) \/ ReleaseUnderflow(t) \/ ReleaseLock(t) \/ Borrow(t) \/ PutBack(t)
    <2>1. Quiet
        BY <1>3 DEF ReleaseLoad, ReleaseUnderflow, ReleaseLock, Underflow, Borrow, PutBack,
                    tables
    <2> QED BY <2>1, GotoFacts, Elsewhere DEF IInv, Midway
<1>4. CASE Dealloc(t) \/ Free(t)
    <2>1. Quiet BY <1>4 DEF Dealloc, Free, Return, tables
    <2> QED BY <2>1, GotoFacts, Elsewhere DEF IInv, Midway
<1>5. CASE LoadLocation(t) \/ LoadLock(t) \/ LoadUnlock(t)
    <2>1. Quiet BY <1>5 DEF LoadLocation, LoadLock, LoadUnlock, Return, tables
    <2> QED BY <2>1, GotoFacts, Elsewhere DEF IInv, Midway
<1>6. CASE StoreLoad(t) \/ StoreLockFirst(t) \/ StoreLockSecond(t) \/ StoreRetry(t)
    <2>1. Quiet BY <1>6 DEF StoreLoad, StoreLockFirst, StoreLockSecond, StoreRetry, tables
    <2> QED BY <2>1, GotoFacts, Elsewhere DEF IInv, Midway
<1> QED BY <1>1, <1>2, <1>3, <1>4, <1>5, <1>6

\* These count in the isa and leave its mark as it is: the word stored was
\* made from the word that is there.
LEMMA CountingStepsKeep ==
    ASSUME IInv, IWeak, NEW t \in Threads,
           \/ RetainStore(t) \/ RetainStoreHalf(t) \/ ReleaseStore(t)
           \/ BorrowStore(t) \/ BorrowStoreAgain(t)
    PROVE  IWeak'
PROOF
<1> DEFINE Counts == \/ isa' = isa
                     \/ \E o \in Objects : \E w :
                            /\ isa' = [isa EXCEPT ![o] = w]
                            /\ w.weakly_referenced = isa[o].weakly_referenced
           Moves == /\ pc[t] \notin {"mark", "assign"} /\ UNCHANGED <<referrers, location>>
                    /\ \E place, f : Goto(t, place, f) /\ place \notin {"mark", "assign"}
<1>0. TypeOK /\ Local(t) BY DEF IInv
<1>1. pc[t] \in {"retaining", "releasing", "borrowed", "borrowed2"}
    BY DEF RetainStore, RetainStoreHalf, ReleaseStore, BorrowStore, BorrowStoreAgain, Retaining
<1>2. frame[t].obj \in Objects /\ frame[t].old \in IsaWords /\ isa[frame[t].obj] \in IsaWords
    BY <1>0, <1>1 DEF Local, AtObject, TypeOK
<1>3. CASE RetainStore(t)
    <2>1. Counts BY <1>2, <1>3 DEF RetainStore, Exclusive, IsaWords
    <2>2. Moves BY <1>1, <1>3 DEF RetainStore, Exclusive, RetainDone, Return, tables
    <2> QED BY <1>0, <2>1, <2>2, GotoFacts, Elsewhere DEF TypeOK, Midway
<1>4. CASE RetainStoreHalf(t)
    <2> DEFINE w == [frame[t].old EXCEPT !.extra_rc = RC_HALF, !.has_sidetable_rc = TRUE]
    <2>a. w.weakly_referenced = frame[t].old.weakly_referenced BY <1>2 DEF IsaWords
    <2>b. isa' = isa \/ (isa[frame[t].obj] = frame[t].old
                         /\ isa' = [isa EXCEPT ![frame[t].obj] = w])
        BY <1>4 DEF RetainStoreHalf, Exclusive
    <2> HIDE DEF w
    <2>1. Counts BY <1>2, <2>a, <2>b
    <2>2. Moves BY <1>1, <1>4 DEF RetainStoreHalf, Exclusive, tables
    <2> QED BY <1>0, <2>1, <2>2, GotoFacts, Elsewhere DEF TypeOK, Midway
<1>5. CASE ReleaseStore(t)
    <2>1. Counts BY <1>2, <1>5 DEF ReleaseStore, Exclusive, IsaWords
    <2>2. Moves BY <1>1, <1>5 DEF ReleaseStore, Exclusive, ReleaseDone, Return, tables
    <2> QED BY <1>0, <2>1, <2>2, GotoFacts, Elsewhere DEF TypeOK, Midway
<1>6. CASE BorrowStore(t)
    <2>1. Counts
        <3>1. ASSUME NEW n, NEW b,
                     isa' = [isa EXCEPT ![frame[t].obj].extra_rc = n,
                                        ![frame[t].obj].has_sidetable_rc = b]
              PROVE  \E w : /\ isa' = [isa EXCEPT ![frame[t].obj] = w]
                            /\ w.weakly_referenced = isa[frame[t].obj].weakly_referenced
            <4> DEFINE w == [isa[frame[t].obj] EXCEPT !.extra_rc = n, !.has_sidetable_rc = b]
            <4>1. isa' = [isa EXCEPT ![frame[t].obj] = w] BY <1>0, <1>2, <3>1 DEF TypeOK
            <4>2. w.weakly_referenced = isa[frame[t].obj].weakly_referenced
                BY <1>2 DEF IsaWords
            <4> QED BY <4>1, <4>2
        <3> QED BY <1>2, <1>6, <3>1 DEF BorrowStore
    <2>2. Moves BY <1>1, <1>6 DEF BorrowStore, ReleaseDone, Return, tables
    <2> QED BY <1>0, <2>1, <2>2, GotoFacts, Elsewhere DEF TypeOK, Midway
<1>7. CASE BorrowStoreAgain(t)
    <2> DEFINE sum == frame[t].old.extra_rc + frame[t].borrowed - 1
               v == [frame[t].old EXCEPT !.extra_rc = sum]
               w == [frame[t].old EXCEPT !.extra_rc = sum,
                                         !.has_sidetable_rc = ~ emptySideTable(t)]
    <2> HIDE DEF sum
    <2>a. w.weakly_referenced = frame[t].old.weakly_referenced BY <1>2 DEF IsaWords
    <2> HIDE DEF w
    <2>b. isa' = isa \/ (isa[frame[t].obj] = frame[t].old
                         /\ isa' = [isa EXCEPT ![frame[t].obj] = w])
        BY <1>7 DEF BorrowStoreAgain, w, sum
    <2>1. Counts BY <1>2, <2>a, <2>b
    <2>2. Moves BY <1>1, <1>7 DEF BorrowStoreAgain, ReleaseDone, Return, tables
    <2> QED BY <1>0, <2>1, <2>2, GotoFacts, Elsewhere DEF TypeOK, Midway
<1> QED BY <1>3, <1>4, <1>5, <1>6, <1>7

-----------------------------------------------------------------------------
(* Steps of a weak store, and deallocation                                 *)

\* Nobody else is on its way with a variable that t may register.
LEMMA RegisterAlone ==
    ASSUME IInv, IWeak, NEW t \in Threads, StoreRegister(t),
           NEW u \in Threads, Midway(u)
    PROVE  u # t /\ frame[u].loc # frame[t].loc
BY OneMidway DEF StoreRegister, Midway

LEMMA StoreRegisterKeeps ==
    ASSUME IInv, IWeak, NEW t \in Threads, StoreRegister(t) PROVE IWeak'
PROOF
<1> DEFINE f == frame[t]
<1>1. /\ TypeOK /\ f \in Frames
      /\ pc[t] = "register" /\ location[f.loc] = f.oldObj /\ Register(f) /\ GotoMark(t, f)
      /\ location' = location /\ isa' = isa
    BY DEF IInv, TypeOK, StoreRegister
<1>2. f.loc \in Locations /\ f.obj \in Objects \cup {nil} BY <1>1, MidwayFacts
<1>3. /\ Midway(t)'
      /\ frame'[t].loc = f.loc /\ frame'[t].obj = f.obj /\ frame'[t].oldObj = f.oldObj
      /\ pc'[t] = "assign" /\ f.obj # nil => isa[f.obj].weakly_referenced
      /\ \A u \in Threads \ {t} : pc'[u] = pc[u] /\ frame'[u] = frame[u]
    <2>1. CASE f.obj = nil
        <3>1. Goto(t, "assign", f) BY <1>1, <2>1 DEF GotoMark
        <3> QED BY <1>1, <2>1, <3>1, GotoFacts DEF Midway
    <2>2. CASE f.obj # nil
        <3> DEFINE g == [f EXCEPT !.old = isa[f.obj]]
                   place == IF isa[f.obj].weakly_referenced THEN "assign" ELSE "mark"
        <3>1. Goto(t, place, g) BY <1>1, <2>2 DEF GotoMark
        <3>2. g.loc = f.loc /\ g.obj = f.obj /\ g.oldObj = f.oldObj BY <1>1 DEF Frames
        <3> HIDE DEF g
        <3> QED BY <1>1, <3>1, <3>2, GotoFacts DEF Midway
    <2> QED BY <2>1, <2>2
<1>4. \A l \in Locations \ {f.loc} : \A o \in Objects :
          (l \in referrers'[o]) = (l \in referrers[o])
    BY <1>1 DEF Register
<1>5. \A o \in Objects : (f.loc \in referrers'[o]) = (o = f.obj)
    <2>1. \A o \in Objects : (location[f.loc] = o) = (f.loc \in referrers[o])
        BY <1>2, RegisterAlone DEF IWeak, Agree
    <2> QED BY <1>1, <2>1 DEF Register
<1>6. \A u \in Threads : Midway(u) => u # t /\ frame[u].loc \in Locations \ {f.loc}
    BY RegisterAlone, MidwayFacts
<1>7. \A u \in Threads \ {t} : Midway(u)' => Midway(u) /\ frame'[u] = frame[u]
    BY <1>3 DEF Midway
<1>8. Registered'
    <2> SUFFICES ASSUME NEW u \in Threads, Midway(u)'
                 PROVE  /\ location'[frame'[u].loc] = frame'[u].oldObj
                        /\ \A o \in Objects :
                               (frame'[u].loc \in referrers'[o]) = (o = frame'[u].obj)
        BY DEF Registered
    <2>1. CASE u = t BY <1>1, <1>3, <1>5, <2>1
    <2>2. CASE u # t
        <3>1. Midway(u) /\ frame'[u] = frame[u] BY <1>7, <2>2
        <3> QED BY <1>1, <1>4, <1>6, <3>1 DEF IWeak, Registered
    <2> QED BY <2>1, <2>2
<1>9. Agree'
    <2> SUFFICES ASSUME NEW l \in Locations,
                        \A u \in Threads : Midway(u)' => frame'[u].loc # l,
                        NEW o \in Objects
                 PROVE  (location'[l] = o) = (l \in referrers'[o])
        BY DEF Agree
    <2>1. l # f.loc BY <1>3
    <2>2. \A u \in Threads : Midway(u) => frame[u].loc # l
        BY <1>3, <1>6 DEF Midway
    <2> QED BY <1>1, <1>4, <2>1, <2>2 DEF IWeak, Agree
<1>10. MarkedWeak'
    <2>1. \A l \in Locations : location'[l] # nil => isa'[location'[l]].weakly_referenced
        BY <1>1 DEF IWeak, MarkedWeak
    <2>2. ASSUME NEW u \in Threads, pc'[u] = "assign", frame'[u].obj # nil
          PROVE  isa'[frame'[u].obj].weakly_referenced
        <3>1. CASE u = t BY <1>1, <1>3, <2>2, <3>1
        <3>2. CASE u # t BY <1>1, <1>3, <2>2, <3>2 DEF IWeak, MarkedWeak
        <3> QED BY <3>1, <3>2
    <2> QED BY <2>1, <2>2 DEF MarkedWeak
<1> QED BY <1>8, <1>9, <1>10 DEF IWeak

\* The word is marked, or read again.
LEMMA StoreMarkKeeps ==
    ASSUME IInv, IWeak, NEW t \in Threads, StoreMark(t) PROVE IWeak'
PROOF
<1> DEFINE f == frame[t]
           w == [f.old EXCEPT !.weakly_referenced = TRUE]
           g == [f EXCEPT !.old = isa[f.obj]]
<1>1. /\ TypeOK /\ f \in Frames /\ pc[t] = "mark" /\ f.obj \in Objects /\ f.old \in IsaWords
      /\ location' = location /\ referrers' = referrers
      /\ \/ isa' = [isa EXCEPT ![f.obj] = w] /\ Goto(t, "assign", f)
         \/ isa' = isa /\ Goto(t, "mark", g)
    BY DEF IInv, TypeOK, Local, AtObject, StoreMark, Exclusive, tables
<1>2. w.weakly_referenced = TRUE BY <1>1 DEF IsaWords
<1>3. g.loc = f.loc /\ g.obj = f.obj /\ g.oldObj = f.oldObj BY <1>1 DEF Frames
<1> HIDE DEF w, g
<1>4. /\ Midway(t) /\ Midway(t)'
      /\ frame'[t].loc = f.loc /\ frame'[t].obj = f.obj /\ frame'[t].oldObj = f.oldObj
      /\ pc'[t] = "assign" => isa' = [isa EXCEPT ![f.obj] = w]
      /\ \A u \in Threads \ {t} : pc'[u] = pc[u] /\ frame'[u] = frame[u]
    BY <1>1, <1>3, GotoFacts DEF Midway
<1>5. \A u \in Threads : /\ Midway(u)' = Midway(u)
                         /\ frame'[u].loc = frame[u].loc /\ frame'[u].obj = frame[u].obj
                         /\ frame'[u].oldObj = frame[u].oldObj
    <2> SUFFICES ASSUME NEW u \in Threads
                 PROVE  /\ Midway(u)' = Midway(u)
                        /\ frame'[u].loc = frame[u].loc /\ frame'[u].obj = frame[u].obj
                        /\ frame'[u].oldObj = frame[u].oldObj
        OBVIOUS
    <2>1. CASE u = t BY <1>4, <2>1
    <2>2. CASE u # t BY <1>4, <2>2 DEF Midway
    <2> QED BY <2>1, <2>2
<1>6. Registered' BY <1>1, <1>5 DEF IWeak, Registered
<1>7. Agree' BY <1>1, <1>5 DEF IWeak, Agree
<1>8. \A o \in Objects : isa[o].weakly_referenced => isa'[o].weakly_referenced
    BY <1>1, <1>2 DEF TypeOK
<1>9. MarkedWeak'
    <2>1. \A l \in Locations : location[l] \in Objects \cup {nil} BY <1>1 DEF TypeOK
    <2>2. \A l \in Locations : location'[l] # nil => isa'[location'[l]].weakly_referenced
        BY <1>1, <1>8, <2>1 DEF IWeak, MarkedWeak
    <2>3. ASSUME NEW u \in Threads, pc'[u] = "assign", frame'[u].obj # nil
          PROVE  isa'[frame'[u].obj].weakly_referenced
        <3>1. CASE u = t BY <1>1, <1>2, <1>4, <2>3, <3>1 DEF TypeOK
        <3>2. CASE u # t
            <4>1. pc[u] = "assign" /\ frame'[u] = frame[u] BY <1>4, <2>3, <3>2
            <4>2. frame[u].obj \in Objects BY <2>3, <4>1, MidwayFacts DEF Midway
            <4> QED BY <1>8, <2>3, <4>1, <4>2 DEF IWeak, MarkedWeak
        <3> QED BY <3>1, <3>2
    <2> QED BY <2>2, <2>3 DEF MarkedWeak
<1> QED BY <1>6, <1>7, <1>9 DEF IWeak

LEMMA StoreAssignKeeps ==
    ASSUME IInv, IWeak, NEW t \in Threads, StoreAssign(t) PROVE IWeak'
PROOF
<1> DEFINE f == frame[t]
<1>1. /\ TypeOK /\ pc[t] = "assign" /\ Midway(t) /\ Goto(t, "idle", Idle)
      /\ location' = [location EXCEPT ![f.loc] = f.obj]
      /\ referrers' = referrers /\ isa' = isa
    BY DEF IInv, StoreAssign, Return, Midway
<1>2. f.loc \in Locations /\ f.obj \in Objects \cup {nil} BY <1>1, MidwayFacts
<1>3. pc'[t] = "idle" /\ \A u \in Threads \ {t} : pc'[u] = pc[u] /\ frame'[u] = frame[u]
    BY <1>1, GotoFacts
<1>4. location'[f.loc] = f.obj
      /\ \A l \in Locations \ {f.loc} : location'[l] = location[l]
    BY <1>1, <1>2 DEF TypeOK
<1>5. \A u \in Threads : Midway(u)' => u # t /\ Midway(u) /\ frame'[u] = frame[u]
    BY <1>3 DEF Midway
<1>6. \A u \in Threads : Midway(u) /\ u # t => frame[u].loc \in Locations \ {f.loc}
    BY <1>1, OneMidway, MidwayFacts
<1>7. Registered' BY <1>1, <1>4, <1>5, <1>6 DEF IWeak, Registered
<1>8. Agree'
    <2> SUFFICES ASSUME NEW l \in Locations,
                        \A u \in Threads : Midway(u)' => frame'[u].loc # l,
                        NEW o \in Objects
                 PROVE  (location'[l] = o) = (l \in referrers[o])
        BY <1>1 DEF Agree
    <2>1. CASE l = f.loc
        <3>1. (f.loc \in referrers[o]) = (o = f.obj) BY <1>1 DEF IWeak, Registered
        <3> QED BY <1>4, <2>1, <3>1
    <2>2. CASE l # f.loc
        <3>1. \A u \in Threads : Midway(u) => frame[u].loc # l
            <4> SUFFICES ASSUME NEW u \in Threads, Midway(u) PROVE frame[u].loc # l
                OBVIOUS
            <4>1. CASE u = t BY <2>2, <4>1
            <4>2. CASE u # t BY <1>3, <4>2 DEF Midway
            <4> QED BY <4>1, <4>2
        <3> QED BY <1>4, <2>2, <3>1 DEF IWeak, Agree
    <2> QED BY <2>1, <2>2
<1>9. MarkedWeak'
    <2>1. f.obj # nil => isa[f.obj].weakly_referenced BY <1>1 DEF IWeak, MarkedWeak
    <2>2. \A l \in Locations : location'[l] # nil => isa'[location'[l]].weakly_referenced
        <3> SUFFICES ASSUME NEW l \in Locations, location'[l] # nil
                     PROVE  isa[location'[l]].weakly_referenced
            BY <1>1
        <3>1. CASE l = f.loc BY <1>4, <2>1, <3>1
        <3>2. CASE l # f.loc BY <1>4, <3>2 DEF IWeak, MarkedWeak
        <3> QED BY <3>1, <3>2
    <2>3. \A u \in Threads : pc'[u] = "assign" /\ frame'[u].obj # nil
                             => isa'[frame'[u].obj].weakly_referenced
        BY <1>1, <1>3 DEF IWeak, MarkedWeak
    <2> QED BY <2>2, <2>3 DEF MarkedWeak
<1> QED BY <1>7, <1>8, <1>9 DEF IWeak

\* Clearing needs the lock that a store of the object, or over it, has.
LEMMA ClearDeallocatingKeeps ==
    ASSUME IInv, IWeak, NEW t \in Threads, ClearDeallocating(t) PROVE IWeak'
PROOF
<1> DEFINE d == frame[t].obj
<1>1. /\ TypeOK /\ pc[t] = "rootDealloc" /\ d \in Objects /\ Goto(t, "free", frame[t])
      /\ lock[StripeOf[d]] = nil /\ isa' = isa
    BY DEF IInv, Local, AtObject, ClearDeallocating
<1>2. \/ UNCHANGED <<location, referrers>>
      \/ /\ location' = [l \in Locations |-> IF l \in referrers[d] /\ location[l] = d
                                             THEN nil ELSE location[l]]
         /\ referrers' = [referrers EXCEPT ![d] = {}]
    BY DEF ClearDeallocating
<1>3. /\ ~ Midway(t) /\ ~ Midway(t)'
      /\ \A u \in Threads \ {t} : pc'[u] = pc[u] /\ frame'[u] = frame[u]
    BY <1>1, GotoFacts DEF Midway
<1>4. CASE UNCHANGED <<location, referrers>> BY <1>1, <1>3, <1>4, Elsewhere
<1>5. CASE /\ location' = [l \in Locations |-> IF l \in referrers[d] /\ location[l] = d
                                               THEN nil ELSE location[l]]
           /\ referrers' = [referrers EXCEPT ![d] = {}]
    <2>1. \A u \in Threads : Midway(u)' <=> Midway(u) BY <1>3 DEF Midway
    <2>2. \A u \in Threads : Midway(u) => frame'[u] = frame[u] BY <1>3
    <2>3. \A u \in Threads : Midway(u) => /\ frame[u].loc \in Locations
                                          /\ frame[u].oldObj # d /\ frame[u].obj # d
        BY <1>1, MidwayFacts, NilAssumption
    <2>4. \A o \in Objects : referrers'[o] = IF o = d THEN {} ELSE referrers[o]
        BY <1>1, <1>5 DEF TypeOK
    <2>5. \A l \in Locations : location'[l] = IF l \in referrers[d] /\ location[l] = d
                                              THEN nil ELSE location[l]
        BY <1>5
    <2>6. Registered'
        <3> SUFFICES ASSUME NEW u \in Threads, Midway(u)
                     PROVE  /\ location'[frame[u].loc] = frame[u].oldObj
                            /\ \A o \in Objects :
                                   (frame[u].loc \in referrers'[o]) = (o = frame[u].obj)
            BY <2>1, <2>2 DEF Registered
        <3>1. location[frame[u].loc] = frame[u].oldObj
              /\ \A o \in Objects : (frame[u].loc \in referrers[o]) = (o = frame[u].obj)
            BY DEF IWeak, Registered
        <3> QED BY <2>3, <2>4, <2>5, <3>1
    <2>7. Agree'
        <3> SUFFICES ASSUME NEW l \in Locations,
                            \A u \in Threads : Midway(u) => frame[u].loc # l,
                            NEW o \in Objects
                     PROVE  (location'[l] = o) = (l \in referrers'[o])
            BY <2>1, <2>2 DEF Agree
        <3>1. \A x \in Objects : (location[l] = x) = (l \in referrers[x])
            BY DEF IWeak, Agree
        <3> QED BY <1>1, <2>4, <2>5, <3>1, NilAssumption
    <2>8. MarkedWeak'
        <3>1. \A l \in Locations : location'[l] # nil => isa'[location'[l]].weakly_referenced
            BY <1>1, <2>5 DEF IWeak, MarkedWeak
        <3>2. \A u \in Threads : pc'[u] = "assign" /\ frame'[u].obj # nil
                                 => isa'[frame'[u].obj].weakly_referenced
            BY <1>1, <2>1, <2>2, <1>3 DEF IWeak, MarkedWeak, Midway
        <3> QED BY <3>1, <3>2 DEF MarkedWeak
    <2> QED BY <2>6, <2>7, <2>8 DEF IWeak
<1> QED BY <1>2, <1>4, <1>5

-----------------------------------------------------------------------------

LEMMA InitWeak == Init => IWeak
PROOF
<1> SUFFICES ASSUME Init PROVE IWeak OBVIOUS
<1>1. /\ \A t \in Threads : pc[t] = "idle"
      /\ \A l \in Locations : location[l] = nil
      /\ \A o \in Objects : referrers[o] = {}
    BY DEF Init
<1> QED BY <1>1, NilAssumption DEF IWeak, Registered, Agree, MarkedWeak, Midway

LEMMA NextWeak == IInv /\ IWeak /\ [Next]_vars => IWeak'
PROOF
<1> SUFFICES ASSUME IInv, IWeak, [Next]_vars PROVE IWeak' OBVIOUS
<1>1. CASE UNCHANGED vars
    <2>1. UNCHANGED <<pc, frame, isa, location, referrers>> BY <1>1 DEF vars, tables
    <2> QED BY <2>1 DEF IWeak, Registered, Agree, MarkedWeak, Midway
<1>2. ASSUME NEW t \in Threads, Call(t) PROVE IWeak' BY <1>2, CallKeeps
<1>3. ASSUME NEW t \in Threads, Step(t) PROVE IWeak'
    BY <1>3, PlainStepsKeep, CountingStepsKeep, StoreRegisterKeeps, StoreMarkKeeps,
       StoreAssignKeeps, ClearDeallocatingKeeps
       DEF Step
<1> QED BY <1>1, <1>2, <1>3 DEF Next, Halted

\* Outside the side table of an object no store is on its way with a variable
\* that holds it, or will.
LEMMA WeakImplied == IInv /\ IWeak => WeakTableExact
PROOF
<1> SUFFICES ASSUME IInv, IWeak, NEW o \in Objects, lock[StripeOf[o]] = nil,
                    NEW l \in Locations
             PROVE  /\ (location[l] = o) = (l \in referrers[o])
                    /\ location[l] = o => isa[o].weakly_referenced
    BY DEF WeakTableExact
<1>1. location[l] = o => isa[o].weakly_referenced
    BY NilAssumption DEF IWeak, MarkedWeak
<1>2. (\A t \in Threads : Midway(t) => frame[t].loc # l)
      => (location[l] = o) = (l \in referrers[o])
    BY DEF IWeak, Agree
<1>3. ASSUME NEW t \in Threads, Midway(t), frame[t].loc = l
      PROVE  (location[l] = o) = (l \in referrers[o])
    <2>1. frame[t].oldObj # o /\ frame[t].obj # o BY <1>3, MidwayFacts, NilAssumption
    <2> QED BY <1>3, <2>1 DEF IWeak, Registered
<1>4. (location[l] = o) = (l \in referrers[o])
    <2>1. (\A t \in Threads : Midway(t) => frame[t].loc # l)
          \/ \E t \in Threads : Midway(t) /\ frame[t].loc = l
        OBVIOUS
    <2> QED BY <1>2, <1>3, <2>1
<1> QED BY <1>1, <1>4

\* However stores, loads and deallocations of any threads interleave, a weak
\* variable and the weak table of the object it holds agree when nobody is
\* inside the table, and that object is marked as weakly referenced: so its
\* deallocation finds every variable that it has to clear.
THEOREM WeakTableExactHolds == Spec => []WeakTableExact
PROOF
<1>1. Init => IInv /\ IWeak BY InitIInv, InitWeak
<1>2. IInv /\ IWeak /\ [Next]_vars => (IInv /\ IWeak)' BY NextIInv, NextWeak
<1>3. IInv /\ IWeak => WeakTableExact BY WeakImplied
<1> QED BY <1>1, <1>2, <1>3, PTL DEF Spec

=============================================================================
