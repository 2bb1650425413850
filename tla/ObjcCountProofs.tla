-------------------------- MODULE ObjcCountProofs --------------------------
(***************************************************************************)
(* Theorems about the counts of ObjcRefcount, for any threads, objects,    *)
(* weak variables, side tables and range of extra_rc: they are exact, no   *)
(* freed object is used, one path alone unlocks what it has not locked,    *)
(* and clients see what RetainCount promises.                              *)
(***************************************************************************)
EXTENDS ObjcRefcountProofs, FiniteSetTheorems

\* The places with a borrowed half range, and those behind the call of dealloc.
Borrowing == {"borrowed", "borrowed2", "putBack"}
Dying == {"dealloc", "rootDealloc", "free"}
Storing == {"store", "lockFirst", "lockSecond", "register", "mark", "assign"}
Loading(t) == pc[t] \in {"retain", "retaining"} /\ frame[t].try

\* t is inside the side table of its object.
Inside(t) ==
    \/ pc[t] \in {"retain", "retaining"} /\ (frame[t].try \/ frame[t].locked)
    \/ pc[t] \in AtReleasing /\ frame[t].locked
    \/ pc[t] = "transcribe"

\* What a thread knows of the object it works on: it has a half range only
\* inside the table, it owns a reference unless it loads a weak variable, and
\* then the variable still holds the object.
Knows(t) ==
    /\ pc[t] \notin Borrowing => frame[t].borrowed = 0
    /\ pc[t] \in Borrowing => frame[t].locked
    /\ pc[t] = "borrowed" => frame[t].old.extra_rc = 0 /\ frame[t].old.has_sidetable_rc
    /\ Inside(t) => lock[TableOf(t)] = t
    /\ Loading(t) => frame[t].loc \in Locations /\ location[frame[t].loc] = frame[t].obj
    /\ pc[t] \in {"retain", "retaining", "transcribe"} /\ ~ Loading(t) =>
           refs[t][frame[t].obj] > 0
    /\ pc[t] \in Storing /\ frame[t].obj # nil => refs[t][frame[t].obj] > 0

\* The count, and that has_sidetable_rc tells whether any of it is in the table
\* or on its way.
Balanced(o) ==
    /\ IsFiniteSet(Refs(o)) /\ Count(o) = Total(o)
    /\ isa[o].has_sidetable_rc = (refcnts[o] + InTransit(o) > 0)

\* The life of an object, and the one thread that ends it.
Mortal(o) ==
    /\ Total(o) > 0 => life[o] = "live"
    /\ life[o] = "freed" => \A l \in Locations : location[l] # o
Ends(t) == pc[t] \in Dying =>
    LET o == frame[t].obj IN
    /\ Total(o) = 0
    /\ life[o] = IF pc[t] = "dealloc" THEN "live" ELSE "deallocating"
    /\ pc[t] = "free" => \A l \in Locations : location[l] # o
    /\ \A u \in Threads : pc[u] \in Dying /\ frame[u].obj = o => u = t

CInv ==
    /\ \A t \in Threads : Knows(t) /\ Ends(t)
    /\ \A o \in Objects : Balanced(o) /\ Mortal(o)

-----------------------------------------------------------------------------
(* Counting references                                                     *)

LEMMA RefsMember ==
    ASSUME TypeOK, NEW o \in Objects, NEW x
    PROVE  x \in Refs(o) <=> \E t \in Threads, i \in Nat : i \in 1..refs[t][o] /\ x = <<t, i>>
PROOF BY DEF Refs

LEMMA RefsMemberPrime ==
    ASSUME TypeOK', NEW o \in Objects, NEW x
    PROVE  x \in Refs(o)' <=> \E t \in Threads, i \in Nat : i \in 1..refs'[t][o] /\ x = <<t, i>>
PROOF BY DEF Refs

LEMMA RefsSame ==
    ASSUME NEW o \in Objects, \A t \in Threads : refs'[t][o] = refs[t][o]
    PROVE  Refs(o)' = Refs(o) /\ Total(o)' = Total(o)
PROOF
<1>1. Refs(o)' = Refs(o) BY DEF Refs
<1> QED BY <1>1 DEF Total

LEMMA TotalFacts ==
    ASSUME TypeOK, NEW o \in Objects, IsFiniteSet(Refs(o))
    PROVE  /\ Total(o) \in Nat
           /\ (Total(o) > 0) <=> \E t \in Threads : refs[t][o] > 0
PROOF
<1>1. Total(o) \in Nat BY FS_CardinalityType DEF Total
<1>2. Total(o) = 0 <=> Refs(o) = {} BY FS_EmptySet DEF Total
<1>3. Refs(o) = {} => \A t \in Threads : ~ (refs[t][o] > 0)
    <2> SUFFICES ASSUME NEW t \in Threads, refs[t][o] > 0 PROVE Refs(o) # {} OBVIOUS
    <2>1. refs[t][o] \in Nat BY DEF TypeOK
    <2>2. 1 \in 1..refs[t][o] BY <2>1
    <2>3. <<t, 1>> \in Refs(o) BY <2>2, RefsMember
    <2> QED BY <2>3
<1>4. Refs(o) # {} => \E t \in Threads : refs[t][o] > 0
    <2> SUFFICES ASSUME NEW x \in Refs(o) PROVE \E t \in Threads : refs[t][o] > 0 OBVIOUS
    <2>1. PICK t \in Threads, i \in Nat : i \in 1..refs[t][o] /\ x = <<t, i>> BY RefsMember
    <2>2. refs[t][o] \in Nat BY DEF TypeOK
    <2> QED BY <2>1, <2>2
<1> QED BY <1>1, <1>2, <1>3, <1>4

LEMMA OneMore ==
    ASSUME TypeOK, TypeOK', NEW t \in Threads, NEW o \in Objects, Own(t, o),
           IsFiniteSet(Refs(o))
    PROVE  /\ IsFiniteSet(Refs(o))' /\ Total(o)' = Total(o) + 1
           /\ refs'[t][o] > 0
           /\ \A p \in Objects \ {o}, u \in Threads : refs'[u][p] = refs[u][p]
PROOF
<1> DEFINE n == refs[t][o]
           x == <<t, n + 1>>
<1>1. n \in Nat BY DEF TypeOK
<1>a. \A u \in Threads : refs[u][o] \in Nat BY DEF TypeOK
<1>2. \A u \in Threads, p \in Objects :
          refs'[u][p] = IF u = t /\ p = o THEN n + 1 ELSE refs[u][p]
    BY DEF Own, TypeOK
<1>3. x \notin Refs(o)
    <2> SUFFICES ASSUME x \in Refs(o) PROVE FALSE OBVIOUS
    <2>1. PICK u \in Threads, i \in Nat : i \in 1..refs[u][o] /\ x = <<u, i>> BY RefsMember
    <2>2. u = t /\ i = n + 1 BY <2>1
    <2> QED BY <1>1, <2>1, <2>2
<1>4. Refs(o)' = Refs(o) \cup {x}
    <2>1. ASSUME NEW y \in Refs(o) PROVE y \in Refs(o)'
        <3>1. PICK u \in Threads, i \in Nat : i \in 1..refs[u][o] /\ y = <<u, i>> BY <2>1, RefsMember
        <3>a. refs'[u][o] = IF u = t THEN n + 1 ELSE refs[u][o] BY <1>2
        <3>2. refs[u][o] \in Nat /\ refs'[u][o] \in Nat /\ refs'[u][o] >= refs[u][o]
            BY <1>a, <3>a
        <3>3. i \in 1..refs'[u][o] BY <3>1, <3>2
        <3> QED BY <3>1, <3>3, RefsMemberPrime
    <2>2. x \in Refs(o)'
        <3>1. n + 1 \in 1..refs'[t][o] BY <1>1, <1>2
        <3> QED BY <3>1, RefsMemberPrime
    <2>3. ASSUME NEW y \in Refs(o)', y # x PROVE y \in Refs(o)
        <3>1. PICK u \in Threads, i \in Nat : i \in 1..refs'[u][o] /\ y = <<u, i>> BY <2>3, RefsMemberPrime
        <3>2. i \in 1..refs[u][o]
            <4>1. CASE u # t BY <1>2, <3>1, <4>1
            <4>2. CASE u = t
                <5>1. i \in 1..(n + 1) /\ i # n + 1 BY <1>2, <2>3, <3>1, <4>2
                <5> QED BY <1>1, <4>2, <5>1
            <4> QED BY <4>1, <4>2
        <3> QED BY <3>1, <3>2, RefsMember
    <2> QED BY <2>1, <2>2, <2>3
<1> HIDE DEF n, x
<1>5. IsFiniteSet(Refs(o)') /\ Cardinality(Refs(o)') = Cardinality(Refs(o)) + 1
    BY <1>3, <1>4, FS_AddElement
<1>6. refs'[t][o] > 0 BY <1>1, <1>2
<1> QED BY <1>2, <1>5, <1>6 DEF Total

LEMMA OneLess ==
    ASSUME TypeOK, TypeOK', NEW t \in Threads, NEW o \in Objects, Disown(t, o),
           IsFiniteSet(Refs(o)), refs[t][o] > 0
    PROVE  /\ IsFiniteSet(Refs(o))' /\ Total(o)' = Total(o) - 1
           /\ \A p \in Objects \ {o}, u \in Threads : refs'[u][p] = refs[u][p]
PROOF
<1> DEFINE n == refs[t][o]
           x == <<t, n>>
<1>1. n \in Nat /\ n > 0 BY DEF TypeOK
<1>a. \A u \in Threads : refs[u][o] \in Nat BY DEF TypeOK
<1>2. \A u \in Threads, p \in Objects :
          refs'[u][p] = IF u = t /\ p = o THEN n - 1 ELSE refs[u][p]
    BY DEF Disown, TypeOK
<1>3. x \in Refs(o)
    <2>1. n \in 1..refs[t][o] BY <1>1
    <2> QED BY <2>1, RefsMember
<1>4. Refs(o)' = Refs(o) \ {x}
    <2>1. ASSUME NEW y \in Refs(o)' PROVE y \in Refs(o) /\ y # x
        <3>1. PICK u \in Threads, i \in Nat : i \in 1..refs'[u][o] /\ y = <<u, i>> BY <2>1, RefsMemberPrime
        <3>a. refs'[u][o] = IF u = t THEN n - 1 ELSE refs[u][o] BY <1>2
        <3>2. refs[u][o] \in Nat /\ refs'[u][o] \in Nat /\ refs'[u][o] <= refs[u][o]
            BY <1>1, <1>a, <3>a
        <3>3. i \in 1..refs[u][o] BY <3>1, <3>2
        <3>4. u = t => i # n BY <1>1, <3>1, <3>a
        <3> QED BY <3>1, <3>3, <3>4, RefsMember
    <2>2. ASSUME NEW y \in Refs(o), y # x PROVE y \in Refs(o)'
        <3>1. PICK u \in Threads, i \in Nat : i \in 1..refs[u][o] /\ y = <<u, i>> BY <2>2, RefsMember
        <3>2. i \in 1..refs'[u][o]
            <4>1. CASE u # t BY <1>2, <3>1, <4>1
            <4>2. CASE u = t
                <5>1. i \in 1..n /\ i # n BY <2>2, <3>1, <4>2
                <5> QED BY <1>1, <1>2, <4>2, <5>1
            <4> QED BY <4>1, <4>2
        <3> QED BY <3>1, <3>2, RefsMemberPrime
    <2> QED BY <2>1, <2>2
<1> HIDE DEF n, x
<1>5. IsFiniteSet(Refs(o)') /\ Cardinality(Refs(o)') = Cardinality(Refs(o)) - 1
    BY <1>3, <1>4, FS_RemoveElement
<1> QED BY <1>2, <1>5 DEF Total

-----------------------------------------------------------------------------
(* What a step of one thread does to an object                             *)

\* Nothing happens to what the other threads know and hold.
OnlyBy(t) ==
    \A u \in Threads \ {t} :
        /\ pc'[u] = pc[u] /\ frame'[u] = frame[u] /\ refs'[u] = refs[u]
        /\ \A s \in Tables : (lock'[s] = u) <=> (lock[s] = u)

LEMMA StepOnlyBy ==
    ASSUME TypeOK, NEW t \in Threads, NEW place, NEW f, Goto(t, place, f),
           \/ UNCHANGED lock
           \/ \E s \in Tables : LockTable(t, s)
           \/ \E S \in SUBSET Tables : UnlockTables(t, S),
           UNCHANGED refs \/ \E o \in Objects : Own(t, o) \/ Disown(t, o)
    PROVE  OnlyBy(t)
PROOF
<1>1. \A u \in Threads \ {t} : pc'[u] = pc[u] /\ frame'[u] = frame[u] BY GotoFacts
<1>2. \A u \in Threads \ {t} : refs'[u] = refs[u] BY DEF TypeOK, Own, Disown
<1>3. \A u \in Threads \ {t}, s \in Tables : (lock'[s] = u) <=> (lock[s] = u)
    BY LockFacts, UnlockFacts
<1> QED BY <1>1, <1>2, <1>3 DEF OnlyBy

\* The part of a count that t has on its way.
Carried(t) == IF pc[t] = "transcribe" THEN RC_HALF ELSE frame[t].borrowed
Contribution(t, o) ==
    IF lock[StripeOf[o]] = t /\ frame[t].obj = o THEN Carried(t) ELSE 0

LEMMA TransitFacts ==
    ASSUME TypeOK, NEW o \in Objects
    PROVE  /\ InTransit(o) \in Nat
           /\ \A t \in Threads : Contribution(t, o) \in Nat
           /\ \A t \in Threads : lock[StripeOf[o]] = t => InTransit(o) = Contribution(t, o)
           /\ lock[StripeOf[o]] = nil => InTransit(o) = 0
PROOF
<1>1. StripeOf[o] \in Tables BY StripesAreTables
<1>2. lock[StripeOf[o]] \in Threads \cup {nil} BY <1>1 DEF TypeOK
<1>a. \A f \in Frames : f.borrowed \in Nat BY HalfAssumption DEF Frames
<1>3. \A t \in Threads : frame[t].borrowed \in Nat BY <1>a DEF TypeOK
<1>4. \A t \in Threads : Carried(t) \in Nat BY <1>3, HalfAssumption DEF Carried
<1>5. \A t \in Threads : t # nil BY NilAssumption
<1> QED BY <1>2, <1>4, <1>5 DEF InTransit, Contribution, Carried

LEMMA TransitFactsPrime ==
    ASSUME TypeOK', NEW o \in Objects
    PROVE  /\ InTransit(o)' \in Nat
           /\ \A t \in Threads : Contribution(t, o)' \in Nat
           /\ \A t \in Threads : lock'[StripeOf[o]] = t => InTransit(o)' = Contribution(t, o)'
           /\ lock'[StripeOf[o]] = nil => InTransit(o)' = 0
PROOF
<1>1. StripeOf[o] \in Tables BY StripesAreTables
<1>2. lock'[StripeOf[o]] \in Threads \cup {nil} BY <1>1 DEF TypeOK
<1>a. \A f \in Frames : f.borrowed \in Nat BY HalfAssumption DEF Frames
<1>3. \A t \in Threads : frame'[t].borrowed \in Nat BY <1>a DEF TypeOK
<1>4. \A t \in Threads : Carried(t)' \in Nat BY <1>3, HalfAssumption DEF Carried
<1>5. \A t \in Threads : t # nil BY NilAssumption
<1> QED BY <1>2, <1>4, <1>5 DEF InTransit, Contribution, Carried

\* Only t's part changes in its step.
LEMMA Transits ==
    ASSUME TypeOK, TypeOK', NEW t \in Threads, OnlyBy(t), NEW o \in Objects
    PROVE  InTransit(o)' - Contribution(t, o)' = InTransit(o) - Contribution(t, o)
PROOF
<1> DEFINE s == StripeOf[o]
<1>1. s \in Tables BY StripesAreTables
<1>2. lock[s] \in Threads \cup {nil} /\ lock'[s] \in Threads \cup {nil} BY <1>1 DEF TypeOK
<1>3. t # nil BY NilAssumption
<1>4. \A u \in Threads \ {t} : (lock'[s] = u) <=> (lock[s] = u) BY <1>1 DEF OnlyBy
<1>5. /\ lock[s] = t => InTransit(o) = Contribution(t, o)
      /\ lock[s] = nil => InTransit(o) = 0
      /\ lock[s] # t => Contribution(t, o) = 0
    BY TransitFacts DEF Contribution
<1>6. /\ lock'[s] = t => InTransit(o)' = Contribution(t, o)'
      /\ lock'[s] = nil => InTransit(o)' = 0
      /\ lock'[s] # t => Contribution(t, o)' = 0
    BY TransitFactsPrime DEF Contribution
<1>7. \/ lock[s] = t /\ lock'[s] = t
      \/ lock[s] = t /\ lock'[s] = nil
      \/ lock[s] = nil /\ lock'[s] = t
      \/ lock[s] = nil /\ lock'[s] = nil
      \/ lock[s] \in Threads \ {t} /\ lock'[s] = lock[s]
    BY <1>2, <1>3, <1>4
<1>8. InTransit(o) \in Nat /\ Contribution(t, o) \in Nat BY TransitFacts
<1>9. InTransit(o)' \in Nat /\ Contribution(t, o)' \in Nat BY TransitFactsPrime
<1>10. ASSUME lock[s] \in Threads \ {t}, lock'[s] = lock[s]
       PROVE  InTransit(o)' = InTransit(o)
    <2>1. PICK u \in Threads \ {t} : u = lock[s] BY <1>10
    <2>2. lock'[s] = u /\ lock[s] = u BY <1>10, <2>1
    <2>3. u # nil BY NilAssumption
    <2>4. pc'[u] = pc[u] /\ frame'[u] = frame[u] BY DEF OnlyBy
    <2> QED BY <2>2, <2>3, <2>4 DEF InTransit, s
<1> HIDE DEF s
<1>11. CASE lock[s] = t BY <1>3, <1>5, <1>6, <1>7, <1>8, <1>9, <1>11
<1>12. CASE lock[s] = nil BY <1>3, <1>5, <1>6, <1>7, <1>8, <1>9, <1>12
<1>13. CASE lock[s] \in Threads \ {t} /\ lock'[s] = lock[s]
    BY <1>3, <1>5, <1>6, <1>8, <1>9, <1>10, <1>13
<1> QED BY <1>7, <1>11, <1>12, <1>13

\* Nothing happens to the count of the object p.
Untouched(t, p) ==
    /\ isa'[p].extra_rc = isa[p].extra_rc
    /\ isa'[p].has_sidetable_rc = isa[p].has_sidetable_rc
    /\ refcnts'[p] = refcnts[p]
    /\ Contribution(t, p)' = Contribution(t, p)
    /\ \A u \in Threads : refs'[u][p] = refs[u][p]

LEMMA UntouchedKeeps ==
    ASSUME TypeOK, TypeOK', NEW t \in Threads, OnlyBy(t), NEW p \in Objects, Untouched(t, p),
           Balanced(p)
    PROVE  Balanced(p)' /\ Total(p)' = Total(p)
PROOF
<1>1. Refs(p)' = Refs(p) /\ Total(p)' = Total(p) BY RefsSame DEF Untouched
<1>2. InTransit(p)' - Contribution(t, p)' = InTransit(p) - Contribution(t, p) BY Transits
<1>3. InTransit(p) \in Nat /\ InTransit(p)' \in Nat /\ Contribution(t, p) \in Nat
    BY TransitFacts, TransitFactsPrime
<1>4. InTransit(p)' = InTransit(p) BY <1>2, <1>3 DEF Untouched
<1>5. Count(p)' = Count(p) BY <1>4 DEF Count, Untouched
<1> QED BY <1>1, <1>4, <1>5 DEF Balanced, Untouched

\* A step of t that works on the object o, or on none.  It assigns no variable
\* that another thread is about to retain the object of, and only an object that
\* has references.
LEMMA StepKeeps ==
    ASSUME IInv, CInv, IInv', NEW t \in Threads, OnlyBy(t),
           \A u \in Threads \ {t} : Loading(u) => location'[frame[u].loc] = frame[u].obj,
           \A l \in Locations, p \in Objects :
               location'[l] = p => location[l] = p \/ Total(p) > 0,
           NEW o \in Objects \cup {nil},
           \A p \in Objects \ {o} : Untouched(t, p) /\ life'[p] = life[p],
           o \in Objects => /\ Balanced(o)' /\ Mortal(o)'
                            /\ \A u \in Threads \ {t} : pc[u] \in Dying /\ frame[u].obj = o =>
                                   Total(o)' = 0 /\ life'[o] = life[o],
           Knows(t)', Ends(t)'
    PROVE  CInv'
PROOF
<1>1. TypeOK /\ TypeOK' BY DEF IInv
<1>2. ASSUME NEW p \in Objects \ {o}
      PROVE  Balanced(p)' /\ Mortal(p)' /\ Total(p)' = Total(p) /\ life'[p] = life[p]
    <2>1. Balanced(p) /\ Mortal(p) BY DEF CInv
    <2>2. Balanced(p)' /\ Total(p)' = Total(p) BY <1>1, <2>1, UntouchedKeeps
    <2>3. life[p] = "freed" => ~ (Total(p) > 0) BY <2>1 DEF Mortal
    <2>4. \A l \in Locations : location'[l] = p => location[l] = p \/ Total(p) > 0 OBVIOUS
    <2>5. life'[p] = life[p] OBVIOUS
    <2> QED BY <2>1, <2>2, <2>3, <2>4, <2>5 DEF Mortal
<1>3. ASSUME NEW u \in Threads \ {t} PROVE Knows(u)'
    <2>1. Knows(u) BY DEF CInv
    <2>2. pc'[u] = pc[u] /\ frame'[u] = frame[u] /\ refs'[u] = refs[u] BY DEF OnlyBy
    <2>3. TableOf(u)' = TableOf(u) /\ Inside(u)' = Inside(u) /\ Loading(u)' = Loading(u)
        BY <2>2 DEF TableOf, Inside, Loading
    <2>4. Inside(u) => TableOf(u) \in Tables
        <3>1. frame[u].obj \in Objects \cup {nil} BY <1>1 DEF TypeOK, Frames
        <3> QED BY <3>1, StripesAreTables DEF TableOf
    <2>5. Inside(u) => lock'[TableOf(u)] = u BY <2>1, <2>4 DEF Knows, OnlyBy
    <2>6. Loading(u) => location'[frame[u].loc] = frame[u].obj OBVIOUS
    <2> QED BY <2>1, <2>2, <2>3, <2>5, <2>6 DEF Knows
<1>4. ASSUME NEW u \in Threads \ {t} PROVE Ends(u)'
    <2>1. Ends(u) /\ pc'[u] = pc[u] /\ frame'[u] = frame[u] BY DEF CInv, OnlyBy
    <2>2. SUFFICES ASSUME pc[u] \in Dying PROVE Ends(u)' BY <2>1 DEF Ends
    <2>3. PICK p \in Objects : p = frame[u].obj
        BY <2>2 DEF IInv, Local, AtObject, Dying
    <2>4. Total(p) = 0 BY <2>1, <2>2, <2>3 DEF Ends
    <2>5. Total(p)' = 0 /\ life'[p] = life[p] BY <1>2, <2>2, <2>3, <2>4
    <2>6. ASSUME NEW v \in Threads, pc'[v] \in Dying, frame'[v].obj = p PROVE v = u
        <3>1. CASE v = t BY <2>1, <2>2, <2>3, <2>6, <3>1 DEF Ends
        <3>2. CASE v # t
            <4>1. pc[v] \in Dying /\ frame[v].obj = p BY <2>6, <3>2 DEF OnlyBy
            <4> QED BY <2>1, <2>2, <2>3, <4>1 DEF Ends
        <3> QED BY <3>1, <3>2
    <2>7. life[p] = IF pc[u] = "dealloc" THEN "live" ELSE "deallocating"
        BY <2>1, <2>2, <2>3 DEF Ends
    <2>8. pc[u] = "free" => \A l \in Locations : location'[l] # p
        <3>1. pc[u] = "free" => \A l \in Locations : location[l] # p
            BY <2>1, <2>2, <2>3 DEF Ends
        <3>2. \A l \in Locations : location'[l] = p => location[l] = p \/ Total(p) > 0 OBVIOUS
        <3> QED BY <2>4, <3>1, <3>2
    <2> QED BY <2>1, <2>3, <2>5, <2>6, <2>7, <2>8 DEF Ends
<1>5. ASSUME NEW u \in Threads PROVE Knows(u)' /\ Ends(u)' BY <1>3, <1>4
<1>6. ASSUME NEW p \in Objects PROVE Balanced(p)' /\ Mortal(p)' BY <1>2
<1> QED BY <1>5, <1>6 DEF CInv

\* A step that assigns no variable.
LEMMA SameLocations ==
    ASSUME CInv, UNCHANGED location
    PROVE  /\ \A u \in Threads : Loading(u) => location'[frame[u].loc] = frame[u].obj
           /\ \A l \in Locations, p \in Objects :
                  location'[l] = p => location[l] = p \/ Total(p) > 0
PROOF BY DEF CInv, Knows

\* A thread that carries nothing before and after.
CarriesNothing(t) == pc[t] # "transcribe" /\ pc[t] \notin Borrowing

LEMMA NoContribution ==
    ASSUME NEW t \in Threads, Knows(t), CarriesNothing(t)
    PROVE  \A o : Contribution(t, o) = 0
PROOF BY DEF Contribution, Carried, Knows, CarriesNothing

LEMMA NoContributionPrime ==
    ASSUME NEW t \in Threads, Knows(t)', CarriesNothing(t)'
    PROVE  \A o : Contribution(t, o)' = 0
PROOF BY DEF Contribution, Carried, Knows, CarriesNothing

\* A step that changes no count.
LEMMA QuietKeeps ==
    ASSUME IInv, CInv, IInv', NEW t \in Threads, OnlyBy(t),
           UNCHANGED <<location, refcnts, refs, life>>,
           \A p \in Objects : /\ isa'[p].extra_rc = isa[p].extra_rc
                              /\ isa'[p].has_sidetable_rc = isa[p].has_sidetable_rc,
           CarriesNothing(t), CarriesNothing(t)', pc'[t] \notin Dying, Knows(t)'
    PROVE  CInv'
PROOF
<1>1. Knows(t) BY DEF CInv
<1>2. \A p \in Objects : Untouched(t, p) /\ life'[p] = life[p]
    BY <1>1, NoContribution, NoContributionPrime DEF Untouched
<1>3. Ends(t)' BY DEF Ends
<1>4. nil \notin Objects BY NilAssumption
<1> QED BY <1>2, <1>3, <1>4, SameLocations, StepKeeps

-----------------------------------------------------------------------------
(* Steps that change no count                                              *)

LEMMA CallCounts ==
    ASSUME IInv, CInv, IInv', NEW t \in Threads, Call(t) PROVE CInv'
PROOF
<1>1. TypeOK /\ Knows(t) BY DEF IInv, CInv
<1>2. PICK place \in {"retain", "release", "load", "store"}, f \in Frames :
          /\ Goto(t, place, f) /\ pc[t] = "idle"
          /\ f.borrowed = 0 /\ ~ f.locked
          /\ place \in {"retain", "release"} => ~ f.try /\ refs[t][f.obj] > 0
          /\ place = "store" => (f.obj # nil => refs[t][f.obj] > 0)
          /\ UNCHANGED <<isa, tables, lock, aborted, client>>
    <2>1. ASSUME NEW o \in Objects, Retain(t, o) \/ Release(t, o)
          PROVE  /\ [Idle EXCEPT !.obj = o] \in Frames
                 /\ [Idle EXCEPT !.obj = o].obj = o
                 /\ [Idle EXCEPT !.obj = o].borrowed = 0
                 /\ ~ [Idle EXCEPT !.obj = o].try /\ ~ [Idle EXCEPT !.obj = o].locked
        BY DEF Idle, Frames
    <2>2. ASSUME NEW l \in Locations
          PROVE  /\ [Idle EXCEPT !.loc = l, !.try = TRUE] \in Frames
                 /\ [Idle EXCEPT !.loc = l, !.try = TRUE].borrowed = 0
                 /\ ~ [Idle EXCEPT !.loc = l, !.try = TRUE].locked
        BY DEF Idle, Frames
    <2>3. ASSUME NEW l \in Locations, NEW o \in Objects \cup {nil}
          PROVE  /\ [Idle EXCEPT !.loc = l, !.obj = o] \in Frames
                 /\ [Idle EXCEPT !.loc = l, !.obj = o].borrowed = 0
                 /\ [Idle EXCEPT !.loc = l, !.obj = o].obj = o
                 /\ ~ [Idle EXCEPT !.loc = l, !.obj = o].locked
        BY DEF Idle, Frames
    <2>4. CASE \E o \in Objects : Retain(t, o) \/ Release(t, o)
        BY <2>1, <2>4 DEF Retain, Release
    <2>5. CASE \E l \in Locations : LoadWeakRetained(t, l)
        BY <2>2, <2>5 DEF LoadWeakRetained
    <2>6. CASE \E l \in Locations, o \in Objects \cup {nil} : StoreWeak(t, l, o)
        BY <2>3, <2>6 DEF StoreWeak
    <2> QED BY <2>4, <2>5, <2>6 DEF Call
<1>3. pc'[t] = place /\ frame'[t] = f BY <1>1, <1>2, GotoFacts
<1>4. OnlyBy(t) BY <1>1, <1>2, StepOnlyBy DEF client
<1>5. Knows(t)'
    BY <1>2, <1>3 DEF Knows, Inside, Loading, Borrowing, AtReleasing, Storing, client
<1> QED
    BY <1>2, <1>3, <1>4, <1>5, QuietKeeps
    DEF CarriesNothing, Borrowing, Dying, tables, client

\* A thread that goes on with the same object and learns nothing about it.
LEMMA GoesOnKnowing ==
    ASSUME IInv, CInv, IInv', NEW t \in Threads, NEW place, NEW f, Goto(t, place, f),
           UNCHANGED <<location, refcnts, refs, life>>,
           \A p \in Objects : /\ isa'[p].extra_rc = isa[p].extra_rc
                              /\ isa'[p].has_sidetable_rc = isa[p].has_sidetable_rc,
           pc[t] \in {"retain", "retaining", "release", "releasing"} \cup Storing,
           place \in {"retain", "retaining", "release", "releasing"} \cup Storing,
           f.obj = frame[t].obj, f.loc = frame[t].loc, f.try = frame[t].try,
           f.borrowed = frame[t].borrowed,
           pc[t] \in {"retain", "retaining"} <=> place \in {"retain", "retaining"},
           pc[t] \in {"release", "releasing"} <=> place \in {"release", "releasing"},
           \/ UNCHANGED lock /\ (f.try \/ f.locked = frame[t].locked)
           \/ LockTable(t, TableOf(t))
           \/ /\ pc[t] \in Storing
              /\ \/ \E s \in Tables : LockTable(t, s)
                 \/ \E S \in SUBSET Tables : UnlockTables(t, S)
    PROVE  CInv'
PROOF
<1>1. TypeOK /\ Knows(t) BY DEF IInv, CInv
<1>2. pc'[t] = place /\ frame'[t] = f BY <1>1, GotoFacts
<1>3. frame[t].obj \in Objects \cup {nil} BY <1>1 DEF TypeOK, Frames
<1>4. TableOf(t) \in Tables /\ TableOf(t)' = TableOf(t)
    BY <1>2, <1>3, StripesAreTables DEF TableOf
<1>5. LockTable(t, TableOf(t)) => lock'[TableOf(t)] = t BY <1>1, <1>4, LockFacts
<1>6. OnlyBy(t) BY <1>1, <1>4, StepOnlyBy
<1>7. Inside(t)' => lock'[TableOf(t)] = t
    <2>1. CASE UNCHANGED lock /\ (f.try \/ f.locked = frame[t].locked)
        <3>1. Inside(t)' => Inside(t)
            <4>1. CASE pc[t] \in {"retain", "retaining"}
                BY <1>2, <2>1, <4>1 DEF Inside, Storing, AtReleasing
            <4>2. CASE pc[t] \in {"release", "releasing"}
                <5>1. f.try \/ f.locked = frame[t].locked BY <2>1, <4>2 DEF Storing
                <5>2. ~ frame[t].try BY <4>2 DEF IInv, Local, AtReleasing
                <5> QED BY <1>2, <4>2, <5>1, <5>2 DEF Inside, AtReleasing
            <4>3. CASE pc[t] \in Storing
                <5>1. place \in Storing BY <4>3 DEF Storing
                <5> QED BY <1>2, <5>1 DEF Inside, Storing, AtReleasing
            <4> QED BY <4>1, <4>2, <4>3
        <3> QED BY <1>1, <2>1, <3>1 DEF Knows
    <2>2. CASE LockTable(t, TableOf(t)) BY <1>5, <2>2
    <2>3. CASE pc[t] \in Storing
        <3>1. place \in Storing BY <2>3 DEF Storing
        <3> QED BY <1>2, <3>1 DEF Inside, Storing, AtReleasing
    <2> QED BY <2>1, <2>2, <2>3
<1>8. Knows(t)'
    <2>1. pc[t] \notin Borrowing /\ place \notin Borrowing BY DEF Borrowing, Storing
    <2>2. frame[t].borrowed = 0 BY <1>1, <2>1 DEF Knows
    <2>3. Loading(t)' = Loading(t) BY <1>2 DEF Loading
    <2>4. place # "transcribe" /\ pc[t] # "transcribe" BY DEF Storing
    <2>5. (pc[t] \in Storing) <=> (place \in Storing) BY DEF Storing
    <2> QED BY <1>1, <1>2, <1>4, <1>7, <2>1, <2>2, <2>3, <2>4, <2>5 DEF Knows, Borrowing
<1> QED
    BY <1>2, <1>6, <1>8, QuietKeeps
    DEF CarriesNothing, Borrowing, Dying, Storing

LEMMA RetainLoops ==
    ASSUME IInv, CInv, IInv', NEW t \in Threads, RetainLoad(t) \/ RetainOverflow(t) \/ RetainLock(t)
    PROVE  CInv'
PROOF
<1>1. frame[t] \in Frames BY DEF IInv, TypeOK
<1>2. CASE RetainLoad(t)
    <2> DEFINE f == [frame[t] EXCEPT !.old = isa[frame[t].obj]]
    <2>1. /\ f.obj = frame[t].obj /\ f.loc = frame[t].loc /\ f.try = frame[t].try
          /\ f.borrowed = frame[t].borrowed /\ f.locked = frame[t].locked
        BY <1>1 DEF Frames
    <2>2. Goto(t, "retaining", f) /\ pc[t] = "retain" BY <1>2 DEF RetainLoad
    <2> HIDE DEF f
    <2> QED BY <1>2, <2>1, <2>2, GoesOnKnowing DEF RetainLoad, tables, client
<1>3. CASE RetainOverflow(t)
    <2> DEFINE f == [frame[t] EXCEPT !.full = TRUE]
    <2>1. /\ f.obj = frame[t].obj /\ f.loc = frame[t].loc /\ f.try = frame[t].try
          /\ f.borrowed = frame[t].borrowed /\ f.locked = frame[t].locked
        BY <1>1 DEF Frames
    <2>2. Goto(t, "retain", f) /\ pc[t] = "retaining" BY <1>3 DEF RetainOverflow, Retaining
    <2> HIDE DEF f
    <2> QED BY <1>3, <2>1, <2>2, GoesOnKnowing DEF RetainOverflow, tables, client
<1>4. CASE RetainLock(t)
    <2> DEFINE f == [frame[t] EXCEPT !.locked = TRUE]
    <2>1. /\ f.obj = frame[t].obj /\ f.loc = frame[t].loc /\ f.try = frame[t].try
          /\ f.borrowed = frame[t].borrowed
        BY <1>1 DEF Frames
    <2>2. Goto(t, "retaining", f) /\ pc[t] = "retaining" BY <1>4 DEF RetainLock, Retaining
    <2> HIDE DEF f
    <2>3. (UNCHANGED lock /\ f.try) \/ LockTable(t, TableOf(t)) BY <1>4, <2>1 DEF RetainLock
    <2> QED BY <1>4, <2>1, <2>2, <2>3, GoesOnKnowing DEF RetainLock, tables, client
<1> QED BY <1>2, <1>3, <1>4

LEMMA ReleaseLoops ==
    ASSUME IInv, CInv, IInv', NEW t \in Threads,
           ReleaseLoad(t) \/ ReleaseUnderflow(t) \/ ReleaseLock(t)
    PROVE  CInv'
PROOF
<1>1. frame[t] \in Frames BY DEF IInv, TypeOK
<1>2. CASE ReleaseLoad(t)
    <2> DEFINE f == [frame[t] EXCEPT !.old = isa[frame[t].obj]]
    <2>1. /\ f.obj = frame[t].obj /\ f.loc = frame[t].loc /\ f.try = frame[t].try
          /\ f.borrowed = frame[t].borrowed /\ f.locked = frame[t].locked
        BY <1>1 DEF Frames
    <2>2. Goto(t, "releasing", f) /\ pc[t] = "release" BY <1>2 DEF ReleaseLoad
    <2> HIDE DEF f
    <2> QED BY <1>2, <2>1, <2>2, GoesOnKnowing DEF ReleaseLoad, tables, client
<1>3. CASE ReleaseUnderflow(t)
    <2> DEFINE f == [frame[t] EXCEPT !.full = TRUE]
    <2>1. /\ f.obj = frame[t].obj /\ f.loc = frame[t].loc /\ f.try = frame[t].try
          /\ f.borrowed = frame[t].borrowed /\ f.locked = frame[t].locked
        BY <1>1 DEF Frames
    <2>2. Goto(t, "release", f) /\ pc[t] = "releasing" BY <1>3 DEF ReleaseUnderflow, Underflow
    <2> HIDE DEF f
    <2> QED BY <1>3, <2>1, <2>2, GoesOnKnowing DEF ReleaseUnderflow, tables, client
<1>4. CASE ReleaseLock(t)
    <2> DEFINE f == [frame[t] EXCEPT !.locked = TRUE]
    <2>1. /\ f.obj = frame[t].obj /\ f.loc = frame[t].loc /\ f.try = frame[t].try
          /\ f.borrowed = frame[t].borrowed
        BY <1>1 DEF Frames
    <2>2. Goto(t, "release", f) /\ pc[t] = "releasing" BY <1>4 DEF ReleaseLock, Underflow
    <2> HIDE DEF f
    <2> QED BY <1>4, <2>1, <2>2, GoesOnKnowing DEF ReleaseLock, tables, client
<1> QED BY <1>2, <1>3, <1>4

\* A store of the word that failed reads it again.
LEMMA RereadCounts ==
    ASSUME IInv, CInv, IInv', NEW t \in Threads, pc[t] \in {"retaining", "releasing", "mark"},
           Goto(t, pc[t], [frame[t] EXCEPT !.old = isa[frame[t].obj]]),
           UNCHANGED <<isa, tables, lock, refs, life>>
    PROVE  CInv'
PROOF
<1> DEFINE f == [frame[t] EXCEPT !.old = isa[frame[t].obj]]
<1>1. frame[t] \in Frames BY DEF IInv, TypeOK
<1>2. /\ f.obj = frame[t].obj /\ f.loc = frame[t].loc /\ f.try = frame[t].try
      /\ f.borrowed = frame[t].borrowed /\ f.locked = frame[t].locked
    BY <1>1 DEF Frames
<1>3. Goto(t, pc[t], f) OBVIOUS
<1> HIDE DEF f
<1>4. pc[t] \in {"retain", "retaining", "release", "releasing"} \cup Storing BY DEF Storing
<1> QED BY <1>2, <1>3, <1>4, GoesOnKnowing DEF tables

LEMMA StoreSteps ==
    ASSUME IInv, CInv, IInv', NEW t \in Threads,
           \/ StoreLoad(t) \/ StoreLockFirst(t) \/ StoreLockSecond(t) \/ StoreRetry(t)
           \/ StoreRegister(t) \/ StoreMark(t)
    PROVE  CInv'
PROOF
<1>1. TypeOK /\ frame[t] \in Frames BY DEF IInv, TypeOK
<1>2. frame[t].obj \in Objects \cup {nil} /\ frame[t].oldObj \in Objects \cup {nil}
    BY <1>1 DEF Frames
<1>3. StoreTables(t) \in SUBSET Tables /\ First(t) \in Tables /\ Second(t) \in Tables
    BY <1>2, LockOrderFacts
<1>4. ASSUME NEW place \in Storing, pc[t] \in Storing, NEW f,
             f.obj = frame[t].obj, f.loc = frame[t].loc, f.try = frame[t].try,
             f.borrowed = frame[t].borrowed, f.locked = frame[t].locked,
             Goto(t, place, f), UNCHANGED <<location, refcnts, refs, life>>,
             \A p \in Objects : /\ isa'[p].extra_rc = isa[p].extra_rc
                                /\ isa'[p].has_sidetable_rc = isa[p].has_sidetable_rc,
             \/ UNCHANGED lock
             \/ \E s \in Tables : LockTable(t, s)
             \/ \E S \in SUBSET Tables : UnlockTables(t, S)
      PROVE  CInv'
    <2>1. place \notin {"retain", "retaining", "release", "releasing"} BY DEF Storing
    <2>2. pc[t] \notin {"retain", "retaining", "release", "releasing"} BY <1>4 DEF Storing
    <2> QED BY <1>4, <2>1, <2>2, GoesOnKnowing
<1>5. CASE StoreLoad(t)
    <2> DEFINE f == [frame[t] EXCEPT !.oldObj = location[frame[t].loc]]
    <2>1. /\ f.obj = frame[t].obj /\ f.loc = frame[t].loc /\ f.try = frame[t].try
          /\ f.borrowed = frame[t].borrowed /\ f.locked = frame[t].locked
        BY <1>1 DEF Frames
    <2>2. Goto(t, "lockFirst", f) BY <1>5 DEF StoreLoad
    <2>3. pc[t] \in Storing /\ "lockFirst" \in Storing BY <1>5 DEF StoreLoad, Storing
    <2>4. UNCHANGED <<isa, location, refcnts, refs, life, lock>>
        BY <1>5 DEF StoreLoad, tables, client
    <2> HIDE DEF f
    <2> QED BY <1>4, <2>1, <2>2, <2>3, <2>4
<1>6. CASE StoreLockFirst(t)
    <2>1. Goto(t, "lockSecond", frame[t]) /\ LockTable(t, First(t))
        BY <1>6 DEF StoreLockFirst
    <2>2. pc[t] \in Storing /\ "lockSecond" \in Storing BY <1>6 DEF StoreLockFirst, Storing
    <2>3. UNCHANGED <<isa, location, refcnts, refs, life>>
        BY <1>6 DEF StoreLockFirst, tables, client
    <2> QED BY <1>3, <1>4, <2>1, <2>2, <2>3
<1>7. CASE StoreLockSecond(t)
    <2>1. Goto(t, "register", frame[t]) /\ (UNCHANGED lock \/ LockTable(t, Second(t)))
        BY <1>7 DEF StoreLockSecond
    <2>2. pc[t] \in Storing /\ "register" \in Storing BY <1>7 DEF StoreLockSecond, Storing
    <2>3. UNCHANGED <<isa, location, refcnts, refs, life>>
        BY <1>7 DEF StoreLockSecond, tables, client
    <2> QED BY <1>3, <1>4, <2>1, <2>2, <2>3
<1>8. CASE StoreRetry(t)
    <2>1. Goto(t, "store", frame[t]) /\ UnlockTables(t, StoreTables(t)) BY <1>8 DEF StoreRetry
    <2>2. pc[t] \in Storing /\ "store" \in Storing BY <1>8 DEF StoreRetry, Storing
    <2>3. UNCHANGED <<isa, location, refcnts, refs, life>> BY <1>8 DEF StoreRetry, tables, client
    <2> QED BY <1>3, <1>4, <2>1, <2>2, <2>3
<1>9. CASE StoreRegister(t)
    <2> DEFINE g == [frame[t] EXCEPT !.old = isa[frame[t].obj]]
    <2>1. /\ g.obj = frame[t].obj /\ g.loc = frame[t].loc /\ g.try = frame[t].try
          /\ g.borrowed = frame[t].borrowed /\ g.locked = frame[t].locked
        BY <1>1 DEF Frames
    <2>2. Goto(t, "assign", frame[t]) \/ Goto(t, "assign", g) \/ Goto(t, "mark", g)
        BY <1>9 DEF StoreRegister, GotoMark
    <2>3. pc[t] \in Storing /\ "assign" \in Storing /\ "mark" \in Storing
        BY <1>9 DEF StoreRegister, Storing
    <2>4. UNCHANGED <<isa, location, refcnts, refs, life, lock>>
        BY <1>9 DEF StoreRegister, client
    <2> HIDE DEF g
    <2> QED BY <1>4, <2>1, <2>2, <2>3, <2>4
<1>10. CASE StoreMark(t)
    <2>1. PICK o \in Objects : o = frame[t].obj BY <1>10 DEF StoreMark, IInv, Local, AtObject
    <2>2. pc[t] = "mark" /\ UNCHANGED <<location, refcnts, refs, life, lock>>
        BY <1>10 DEF StoreMark, tables, Exclusive
    <2>3. CASE /\ isa[o] = frame[t].old
               /\ isa' = [isa EXCEPT ![o] = [frame[t].old EXCEPT !.weakly_referenced = TRUE]]
               /\ Goto(t, "assign", frame[t])
        <3>1. isa[o] \in IsaWords BY <1>1 DEF TypeOK
        <3>2. \A p \in Objects : /\ isa'[p].extra_rc = isa[p].extra_rc
                                 /\ isa'[p].has_sidetable_rc = isa[p].has_sidetable_rc
            BY <1>1, <2>3, <3>1 DEF TypeOK, IsaWords
        <3>3. "mark" \in Storing /\ "assign" \in Storing BY DEF Storing
        <3> QED BY <1>4, <2>2, <2>3, <3>2, <3>3
    <2>4. CASE Goto(t, pc[t], [frame[t] EXCEPT !.old = isa[o]]) /\ UNCHANGED isa
        BY <1>10, <2>1, <2>2, <2>4, RereadCounts DEF StoreMark
    <2> QED BY <1>10, <2>1, <2>3, <2>4 DEF StoreMark, Exclusive
<1> QED BY <1>5, <1>6, <1>7, <1>8, <1>9, <1>10

\* Loads of weak variables, apart from the lock that makes them sure.
LEMMA LoadSteps ==
    ASSUME IInv, CInv, IInv', NEW t \in Threads,
           \/ LoadLocation(t) \/ LoadLock(t) \/ LoadUnlock(t) \/ RetainDeallocating(t)
    PROVE  CInv'
PROOF
<1>1. TypeOK /\ frame[t] \in Frames /\ Knows(t) BY DEF IInv, TypeOK, CInv
<1>2. frame[t].obj \in Objects \cup {nil} BY <1>1 DEF Frames
<1>3. TableOf(t) \in Tables BY <1>2, StripesAreTables DEF TableOf
<1>4. pc[t] \in {"load", "lockLoad", "loaded", "retaining"}
    BY DEF LoadLocation, LoadLock, LoadUnlock, RetainDeallocating
<1>5. frame[t].borrowed = 0 BY <1>1, <1>4 DEF Knows, Borrowing
<1>6. ASSUME NEW place \in {"idle", "load", "lockLoad", "loaded", "retain"}, NEW f,
             f.borrowed = 0, Goto(t, place, f),
             UNCHANGED <<isa, location, refcnts, refs, life>>,
             \/ UNCHANGED lock
             \/ \E s \in Tables : LockTable(t, s)
             \/ \E S \in SUBSET Tables : UnlockTables(t, S),
             place = "retain" =>
                 /\ f.loc \in Locations /\ location[f.loc] = f.obj /\ f.try
                 /\ lock'[StripeOf[f.obj]] = t
      PROVE  CInv'
    <2>1. pc'[t] = place /\ frame'[t] = f BY <1>1, <1>6, GotoFacts
    <2>2. OnlyBy(t) BY <1>1, <1>6, StepOnlyBy
    <2>3. Knows(t)'
        BY <1>6, <2>1 DEF Knows, Inside, Loading, Borrowing, AtReleasing, Storing, TableOf
    <2> QED
        BY <1>4, <1>6, <2>1, <2>2, <2>3, QuietKeeps DEF CarriesNothing, Borrowing, Dying
<1>7. Idle.borrowed = 0 BY DEF Idle
<1>8. CASE LoadLocation(t)
    <2> DEFINE f == [frame[t] EXCEPT !.obj = location[frame[t].loc]]
    <2>1. f.borrowed = 0 BY <1>1, <1>5 DEF Frames
    <2>2. Goto(t, "idle", Idle) \/ Goto(t, "lockLoad", f) BY <1>8 DEF LoadLocation, Return
    <2>3. UNCHANGED <<isa, location, refcnts, refs, life, lock>>
        BY <1>8 DEF LoadLocation, tables, client
    <2> HIDE DEF f
    <2> QED BY <1>6, <1>7, <2>1, <2>2, <2>3
<1>9. CASE LoadLock(t)
    <2>1. frame[t].loc \in Locations /\ frame[t].try
        BY <1>9 DEF LoadLock, IInv, Local, AtLocation
    <2>2. UNCHANGED <<isa, location, refcnts, refs, life>> BY <1>9 DEF LoadLock, tables, client
    <2>3. CASE location[frame[t].loc] = frame[t].obj
        <3>1. LockTable(t, TableOf(t)) /\ Goto(t, "retain", frame[t])
            BY <1>9, <2>3 DEF LoadLock
        <3>2. lock'[StripeOf[frame[t].obj]] = t BY <1>1, <1>3, <3>1, LockFacts DEF TableOf
        <3> QED BY <1>3, <1>5, <1>6, <2>1, <2>2, <2>3, <3>1, <3>2
    <2>4. CASE location[frame[t].loc] # frame[t].obj
        <3>1. UNCHANGED lock /\ Goto(t, "load", frame[t]) BY <1>9, <2>4 DEF LoadLock
        <3> QED BY <1>5, <1>6, <2>2, <3>1
    <2> QED BY <2>3, <2>4
<1>10. CASE LoadUnlock(t)
    <2>1. Goto(t, "idle", Idle) /\ UnlockTables(t, {TableOf(t)})
        BY <1>10 DEF LoadUnlock, Return
    <2>2. UNCHANGED <<isa, location, refcnts, refs, life>>
        BY <1>10 DEF LoadUnlock, tables, client
    <2> QED BY <1>3, <1>6, <1>7, <2>1, <2>2
<1>11. CASE RetainDeallocating(t)
    <2>1. Goto(t, "idle", Idle) \/ Goto(t, "loaded", frame[t])
        BY <1>11 DEF RetainDeallocating, Return
    <2>2. UNCHANGED lock \/ UnlockTables(t, {TableOf(t)}) BY <1>11 DEF RetainDeallocating
    <2>3. UNCHANGED <<isa, location, refcnts, refs, life>>
        BY <1>11 DEF RetainDeallocating, tables, client
    <2> QED BY <1>3, <1>5, <1>6, <1>7, <2>1, <2>2, <2>3
<1> QED BY <1>8, <1>9, <1>10, <1>11

-----------------------------------------------------------------------------
(* Steps that change a count                                               *)

LEMMA BalanceFacts ==
    ASSUME TypeOK, CInv, NEW o \in Objects
    PROVE  /\ isa[o].extra_rc \in Nat /\ refcnts[o] \in Nat /\ InTransit(o) \in Nat
           /\ Total(o) \in Nat /\ IsFiniteSet(Refs(o))
           /\ isa[o].extra_rc + refcnts[o] + InTransit(o) = Total(o)
           /\ isa[o].has_sidetable_rc <=> refcnts[o] + InTransit(o) > 0
PROOF
<1>1. Balanced(o) BY DEF CInv
<1>2. isa[o] \in IsaWords /\ refcnts[o] \in Nat BY DEF TypeOK
<1>a. \A i \in IsaWords : i.extra_rc \in Nat BY HalfAssumption DEF IsaWords, ExtraMax
<1>3. isa[o].extra_rc \in Nat BY <1>2, <1>a
<1>4. InTransit(o) \in Nat BY TransitFacts
<1>5. Total(o) \in Nat BY <1>1, TotalFacts DEF Balanced
<1> QED BY <1>1, <1>2, <1>3, <1>4, <1>5 DEF Balanced, Count

\* A reference keeps its object live, and nobody is deallocating it.
LEMMA LiveAlone ==
    ASSUME IInv, CInv, NEW o \in Objects, Total(o) > 0
    PROVE  /\ life[o] = "live"
           /\ \A u \in Threads : pc[u] \in Dying => frame[u].obj # o
PROOF
<1>1. life[o] = "live" BY DEF CInv, Mortal
<1>2. ASSUME NEW u \in Threads, pc[u] \in Dying, frame[u].obj = o PROVE FALSE
    <2>1. Ends(u) BY DEF CInv
    <2>2. Total(o) = 0 BY <1>2, <2>1 DEF Ends
    <2> QED BY <2>2
<1> QED BY <1>1, <1>2

LEMMA Owned ==
    ASSUME IInv, CInv, NEW o \in Objects, NEW t \in Threads, refs[t][o] > 0
    PROVE  Total(o) > 0
PROOF BY TotalFacts DEF IInv, CInv, Balanced

\* Only the object o changes, by what t does to the isa, the table and what it
\* has on its way, and the references change alike.
Moves(t, o, d) ==
    /\ OnlyBy(t) /\ UNCHANGED <<location, life>>
    /\ o = frame[t].obj
    /\ \A p \in Objects \ {o} : /\ isa'[p] = isa[p] /\ refcnts'[p] = refcnts[p]
                                /\ \A u \in Threads : refs'[u][p] = refs[u][p]
    /\ frame'[t].obj = o \/ Carried(t)' = 0
    /\ IsFiniteSet(Refs(o))' /\ Total(o)' = Total(o) + d
    /\ isa'[o].extra_rc + refcnts'[o] + Contribution(t, o)'
       = isa[o].extra_rc + refcnts[o] + Contribution(t, o) + d

LEMMA CountMoves ==
    ASSUME IInv, CInv, IInv', NEW t \in Threads, NEW o \in Objects, NEW d \in Int, Moves(t, o, d)
    PROVE  /\ isa'[o].extra_rc \in Nat /\ refcnts'[o] \in Nat /\ InTransit(o)' \in Nat
           /\ isa'[o].extra_rc + refcnts'[o] + InTransit(o)' = Total(o)'
           /\ InTransit(o)' - Contribution(t, o)' = InTransit(o) - Contribution(t, o)
PROOF
<1>1. TypeOK /\ TypeOK' BY DEF IInv
<1>2. isa'[o] \in IsaWords /\ refcnts'[o] \in Nat BY <1>1 DEF TypeOK
<1>a. \A i \in IsaWords : i.extra_rc \in Nat BY HalfAssumption DEF IsaWords, ExtraMax
<1>3. isa'[o].extra_rc \in Nat BY <1>2, <1>a
<1>4. InTransit(o)' \in Nat /\ Contribution(t, o)' \in Nat BY <1>1, TransitFactsPrime
<1>5. Contribution(t, o) \in Nat BY <1>1, TransitFacts
<1>6. InTransit(o)' - Contribution(t, o)' = InTransit(o) - Contribution(t, o)
    BY <1>1, Transits DEF Moves
<1>7. /\ isa[o].extra_rc \in Nat /\ refcnts[o] \in Nat /\ InTransit(o) \in Nat
      /\ isa[o].extra_rc + refcnts[o] + InTransit(o) = Total(o)
    BY <1>1, BalanceFacts
<1>8. /\ Total(o)' = Total(o) + d
      /\ isa'[o].extra_rc + refcnts'[o] + Contribution(t, o)'
         = isa[o].extra_rc + refcnts[o] + Contribution(t, o) + d
    BY DEF Moves
<1> QED BY <1>2, <1>3, <1>4, <1>5, <1>6, <1>7, <1>8

LEMMA CountStep ==
    ASSUME IInv, CInv, IInv', NEW t \in Threads, NEW o \in Objects, NEW d \in Int, Moves(t, o, d),
           Total(o) > 0,
           isa'[o].has_sidetable_rc = (refcnts'[o] + InTransit(o)' > 0),
           Knows(t)', Ends(t)'
    PROVE  CInv'
PROOF
<1>1. Balanced(o)' BY CountMoves DEF Balanced, Count, Moves
<1>2. life[o] = "live" /\ \A u \in Threads : pc[u] \in Dying => frame[u].obj # o
    BY LiveAlone
<1>3. Mortal(o)' BY <1>2 DEF Moves, Mortal
<1>4. ASSUME NEW p \in Objects \ {o} PROVE Untouched(t, p) /\ life'[p] = life[p]
    <2>1. Contribution(t, p) = 0 BY <1>4 DEF Moves, Contribution
    <2>2. Contribution(t, p)' = 0 BY <1>4 DEF Moves, Contribution
    <2> QED BY <2>1, <2>2 DEF Moves, Untouched
<1>5. OnlyBy(t) /\ UNCHANGED location BY DEF Moves
<1> QED BY <1>1, <1>2, <1>3, <1>4, <1>5, SameLocations, StepKeeps

\* A thread that is done with the object.
LEMMA DoneKnows ==
    ASSUME NEW t \in Threads, pc'[t] \in {"idle", "loaded", "dealloc"}, frame'[t].borrowed = 0
    PROVE  Knows(t)' /\ Carried(t)' = 0 /\ (pc'[t] # "dealloc" => Ends(t)')
PROOF BY DEF Knows, Ends, Carried, Inside, Loading, Borrowing, AtReleasing, Storing, Dying

\* A count anywhere is a reference.
LEMMA NotDeallocating ==
    ASSUME IInv, CInv, NEW o \in Objects, ~ isDeallocating(isa[o]) PROVE Total(o) > 0
PROOF
<1>1. /\ isa[o].extra_rc \in Nat /\ refcnts[o] \in Nat /\ InTransit(o) \in Nat
      /\ isa[o].extra_rc + refcnts[o] + InTransit(o) = Total(o)
      /\ isa[o].has_sidetable_rc <=> refcnts[o] + InTransit(o) > 0
    BY BalanceFacts DEF IInv
<1>2. CASE isa[o].extra_rc # 0 BY <1>1, <1>2
<1>3. CASE isa[o].has_sidetable_rc
    <2>1. refcnts[o] + InTransit(o) > 0 BY <1>1, <1>3
    <2> QED BY <1>1, <2>1
<1> QED BY <1>2, <1>3 DEF isDeallocating

\* Nobody owns a reference to an object that is deallocating.
LEMMA DeallocatingUnowned ==
    ASSUME IInv, CInv, NEW o \in Objects, isDeallocating(isa[o]) PROVE ~ (Total(o) > 0)
PROOF
<1>1. /\ isa[o].extra_rc \in Nat /\ refcnts[o] \in Nat /\ InTransit(o) \in Nat
      /\ isa[o].extra_rc + refcnts[o] + InTransit(o) = Total(o)
      /\ isa[o].has_sidetable_rc <=> refcnts[o] + InTransit(o) > 0
    BY BalanceFacts DEF IInv
<1>2. isa[o].extra_rc = 0 /\ ~ (refcnts[o] + InTransit(o) > 0)
    BY <1>1 DEF isDeallocating
<1> QED BY <1>1, <1>2

LEMMA RetainStoreCounts ==
    ASSUME IInv, CInv, IInv', NEW t \in Threads, RetainStore(t) PROVE CInv'
PROOF
<1>1. TypeOK /\ TypeOK' /\ frame[t] \in Frames /\ Knows(t) BY DEF IInv, TypeOK, CInv
<1>2. pc[t] = "retaining" /\ ~ isDeallocating(frame[t].old)
    BY DEF RetainStore, Retaining
<1>3. PICK o \in Objects : o = frame[t].obj BY <1>2 DEF IInv, Local, AtObject
<1>4. TableOf(t) \in Tables BY <1>3, StripesAreTables DEF TableOf
<1>5. UNCHANGED <<refcnts, referrers, location, life>> BY DEF RetainStore, tables
<1>6. CASE Goto(t, pc[t], [frame[t] EXCEPT !.old = isa[o]]) /\ UNCHANGED <<isa, lock, refs>>
    BY <1>2, <1>3, <1>5, <1>6, RereadCounts DEF tables
<1>7. CASE /\ isa[o] = frame[t].old
           /\ isa' = [isa EXCEPT ![o] = [frame[t].old EXCEPT !.extra_rc = @ + 1]]
           /\ RetainDone(t) /\ Own(t, o)
    <2>1. isa[o] \in IsaWords BY <1>1 DEF TypeOK
    <2>2. /\ isa'[o].extra_rc = isa[o].extra_rc + 1
          /\ isa'[o].has_sidetable_rc = isa[o].has_sidetable_rc
          /\ \A p \in Objects \ {o} : isa'[p] = isa[p]
        BY <1>1, <1>7, <2>1 DEF TypeOK, IsaWords
    <2>3. /\ isa[o].extra_rc \in Nat /\ refcnts[o] \in Nat /\ InTransit(o) \in Nat
          /\ Total(o) \in Nat /\ IsFiniteSet(Refs(o))
          /\ isa[o].extra_rc + refcnts[o] + InTransit(o) = Total(o)
          /\ isa[o].has_sidetable_rc <=> refcnts[o] + InTransit(o) > 0
        BY <1>1, BalanceFacts
    <2>4. Total(o) > 0 BY <1>2, <1>7, NotDeallocating
    <2>5. /\ IsFiniteSet(Refs(o))' /\ Total(o)' = Total(o) + 1
          /\ \A p \in Objects \ {o}, u \in Threads : refs'[u][p] = refs[u][p]
        BY <1>1, <1>7, <2>3, OneMore
    <2>6. PICK place \in {"idle", "loaded"}, g \in {Idle, frame[t]} : Goto(t, place, g)
        BY <1>7 DEF RetainDone, Return
    <2>7. g.borrowed = 0 BY <1>1, <1>2 DEF Knows, Borrowing, Idle
    <2>8. pc'[t] = place /\ frame'[t] = g BY <1>1, <2>6, GotoFacts
    <2>9. Knows(t)' /\ Carried(t)' = 0 /\ Ends(t)' BY <2>7, <2>8, DoneKnows
    <2>10. OnlyBy(t)
        <3>1. UNCHANGED lock \/ UnlockTables(t, {TableOf(t)}) BY <1>7 DEF RetainDone
        <3> QED BY <1>1, <1>4, <1>7, <2>6, <3>1, StepOnlyBy
    <2>11. Contribution(t, o) = 0 BY <1>1, <1>2, NoContribution DEF CarriesNothing, Borrowing
    <2>12. Contribution(t, o)' = 0 BY <2>9 DEF Contribution
    <2>13. Moves(t, o, 1)
        BY <1>3, <1>5, <2>2, <2>3, <2>5, <2>9, <2>10, <2>11, <2>12 DEF Moves
    <2>14. InTransit(o)' - 0 = InTransit(o) - 0 /\ InTransit(o)' \in Nat
        BY <2>11, <2>12, <2>13, CountMoves
    <2>15. isa'[o].has_sidetable_rc = (refcnts'[o] + InTransit(o)' > 0)
        <3>1. InTransit(o)' = InTransit(o) BY <2>3, <2>14
        <3>2. Balanced(o) BY DEF CInv
        <3> QED BY <1>5, <2>2, <3>1, <3>2 DEF Balanced
    <2> QED BY <2>4, <2>9, <2>13, <2>15, CountStep
<1> QED BY <1>3, <1>6, <1>7 DEF RetainStore, Exclusive

LEMMA RetainStoreHalfCounts ==
    ASSUME IInv, CInv, IInv', NEW t \in Threads, RetainStoreHalf(t) PROVE CInv'
PROOF
<1>1. TypeOK /\ TypeOK' /\ frame[t] \in Frames /\ Knows(t) BY DEF IInv, TypeOK, CInv
<1>2. pc[t] = "retaining" /\ frame[t].locked /\ frame[t].old.extra_rc = ExtraMax
    BY DEF RetainStoreHalf, Retaining, Carry
<1>3. PICK o \in Objects : o = frame[t].obj BY <1>2 DEF IInv, Local, AtObject
<1>5. UNCHANGED <<refcnts, referrers, location, life>> BY DEF RetainStoreHalf, tables
<1>6. CASE Goto(t, pc[t], [frame[t] EXCEPT !.old = isa[o]]) /\ UNCHANGED <<isa, lock, refs>>
    BY <1>2, <1>3, <1>5, <1>6, RereadCounts DEF tables
<1>7. CASE /\ isa[o] = frame[t].old
           /\ isa' = [isa EXCEPT ![o] = [frame[t].old EXCEPT !.extra_rc = RC_HALF,
                                                             !.has_sidetable_rc = TRUE]]
           /\ Goto(t, "transcribe", frame[t]) /\ Own(t, o) /\ UNCHANGED lock
    <2>1. isa[o] \in IsaWords BY <1>1 DEF TypeOK
    <2>2. /\ isa'[o].extra_rc = RC_HALF /\ isa[o].extra_rc = ExtraMax
          /\ isa'[o].has_sidetable_rc = TRUE
          /\ \A p \in Objects \ {o} : isa'[p] = isa[p]
        BY <1>1, <1>2, <1>7, <2>1 DEF TypeOK, IsaWords
    <2>3. /\ refcnts[o] \in Nat /\ InTransit(o) \in Nat
          /\ Total(o) \in Nat /\ IsFiniteSet(Refs(o))
          /\ isa[o].extra_rc + refcnts[o] + InTransit(o) = Total(o)
        BY <1>1, BalanceFacts
    <2>4. Total(o) > 0 BY <2>2, <2>3, HalfAssumption DEF ExtraMax
    <2>5. /\ IsFiniteSet(Refs(o))' /\ Total(o)' = Total(o) + 1 /\ refs'[t][o] > 0
          /\ \A p \in Objects \ {o}, u \in Threads : refs'[u][p] = refs[u][p]
        BY <1>1, <1>7, <2>3, OneMore
    <2>6. pc'[t] = "transcribe" /\ frame'[t] = frame[t] BY <1>1, <1>7, GotoFacts
    <2>7. lock[StripeOf[o]] = t /\ lock'[StripeOf[o]] = t
        BY <1>1, <1>2, <1>3, <1>7 DEF Knows, Inside, TableOf
    <2>8. frame[t].borrowed = 0 BY <1>1, <1>2 DEF Knows, Borrowing
    <2>9. Knows(t)'
        <3>1. pc'[t] \notin Borrowing \cup Storing \cup AtReleasing \cup {"retain", "retaining"}
            BY <2>6 DEF Borrowing, Storing, AtReleasing
        <3> QED
            BY <1>3, <2>5, <2>6, <2>7, <2>8, <3>1
            DEF Knows, Inside, Loading, TableOf, Borrowing
    <2>10. Ends(t)' BY <2>6 DEF Ends, Dying
    <2>11. OnlyBy(t) BY <1>1, <1>7, StepOnlyBy
    <2>12. Contribution(t, o) = 0 BY <1>1, <1>2, NoContribution DEF CarriesNothing, Borrowing
    <2>13. Contribution(t, o)' = RC_HALF BY <1>3, <2>6, <2>7 DEF Contribution, Carried
    <2>14. isa'[o].extra_rc + refcnts'[o] + Contribution(t, o)'
           = isa[o].extra_rc + refcnts[o] + Contribution(t, o) + 1
        BY <1>5, <2>2, <2>3, <2>12, <2>13, HalfAssumption DEF ExtraMax
    <2>15. Moves(t, o, 1)
        BY <1>3, <1>5, <2>2, <2>5, <2>6, <2>11, <2>14 DEF Moves
    <2>16. isa'[o].has_sidetable_rc = (refcnts'[o] + InTransit(o)' > 0)
        <3>1. InTransit(o)' = RC_HALF BY <1>1, <2>7, <2>13, TransitFactsPrime
        <3>2. refcnts'[o] + InTransit(o)' > 0 BY <1>5, <2>3, <3>1, HalfAssumption
        <3> QED BY <2>2, <3>2
    <2> QED BY <2>4, <2>9, <2>10, <2>15, <2>16, CountStep
<1> QED BY <1>3, <1>6, <1>7 DEF RetainStoreHalf, Exclusive

LEMMA TranscribeCounts ==
    ASSUME IInv, CInv, IInv', NEW t \in Threads, Transcribe(t) PROVE CInv'
PROOF
<1>1. TypeOK /\ TypeOK' /\ frame[t] \in Frames /\ Knows(t) BY DEF IInv, TypeOK, CInv
<1>2. pc[t] = "transcribe" BY DEF Transcribe
<1>3. PICK o \in Objects : o = frame[t].obj BY <1>2 DEF IInv, Local, AtObject
<1>4. TableOf(t) \in Tables BY <1>3, StripesAreTables DEF TableOf
<1>5. UNCHANGED <<isa, referrers, location, refs, life>> BY DEF Transcribe, client
<1>6. refcnts'[o] = refcnts[o] + RC_HALF /\ \A p \in Objects \ {o} : refcnts'[p] = refcnts[p]
    BY <1>1, <1>3 DEF Transcribe, TypeOK
<1>7. Balanced(o) /\ refs[t][o] > 0 BY <1>1, <1>2, <1>3 DEF CInv, Knows, Loading
<1>8. Total(o) > 0 BY <1>7, Owned
<1>9. PICK place \in {"idle", "loaded"}, g \in {Idle, frame[t]} : Goto(t, place, g)
    BY DEF Transcribe, RetainDone, Return
<1>10. g.borrowed = 0 BY <1>1, <1>2 DEF Knows, Borrowing, Idle
<1>11. pc'[t] = place /\ frame'[t] = g BY <1>1, <1>9, GotoFacts
<1>12. Knows(t)' /\ Carried(t)' = 0 /\ Ends(t)' BY <1>10, <1>11, DoneKnows
<1>13. OnlyBy(t)
    <2>1. UNCHANGED lock \/ UnlockTables(t, {TableOf(t)}) BY DEF Transcribe, RetainDone
    <2> QED BY <1>1, <1>4, <1>5, <1>9, <2>1, StepOnlyBy
<1>14. Contribution(t, o) = RC_HALF
    BY <1>1, <1>2, <1>3 DEF Contribution, Carried, Knows, Inside, TableOf
<1>15. Contribution(t, o)' = 0 BY <1>12 DEF Contribution
<1>16. isa[o].extra_rc \in Nat /\ refcnts[o] \in Nat /\ InTransit(o) \in Nat /\ Total(o) \in Nat
    BY <1>1, BalanceFacts
<1>17. isa'[o].extra_rc + refcnts'[o] + Contribution(t, o)'
       = isa[o].extra_rc + refcnts[o] + Contribution(t, o) + 0
    BY <1>5, <1>6, <1>14, <1>15, <1>16, HalfAssumption
<1>18. IsFiniteSet(Refs(o))' /\ Total(o)' = Total(o) + 0
    BY <1>5, <1>7, <1>16, RefsSame DEF Balanced
<1>19. Moves(t, o, 0)
    BY <1>3, <1>5, <1>6, <1>12, <1>13, <1>17, <1>18 DEF Moves
<1>20. isa'[o].has_sidetable_rc = (refcnts'[o] + InTransit(o)' > 0)
    <2>1. InTransit(o)' - 0 = InTransit(o) - RC_HALF /\ InTransit(o)' \in Nat
        BY <1>14, <1>15, <1>19, CountMoves
    <2>2. refcnts'[o] + InTransit(o)' = refcnts[o] + InTransit(o)
        BY <1>6, <1>16, <2>1, HalfAssumption
    <2> QED BY <1>5, <1>7, <2>2 DEF Balanced
<1> QED BY <1>8, <1>12, <1>19, <1>20, CountStep

\* Both ends of rootRelease.
LEMMA ReleaseDoneCounts ==
    ASSUME IInv, CInv, IInv', NEW t \in Threads, NEW o \in Objects, o = frame[t].obj,
           pc[t] \in AtReleasing, NEW transition \in BOOLEAN, ReleaseDone(t, transition)
    PROVE  /\ pc'[t] = IF transition THEN "dealloc" ELSE "idle"
           /\ transition => frame'[t].obj = o
           /\ frame'[t].borrowed = 0 /\ OnlyBy(t)
           /\ Total(o) > 0 /\ IsFiniteSet(Refs(o))' /\ Total(o)' = Total(o) - 1
           /\ \A p \in Objects \ {o}, u \in Threads : refs'[u][p] = refs[u][p]
PROOF
<1>1. TypeOK /\ TypeOK' /\ refs[t][o] > 0 BY DEF IInv, Local
<1>2. Total(o) > 0 BY <1>1, Owned
<1>3. IsFiniteSet(Refs(o)) BY <1>1, BalanceFacts
<1>4. Disown(t, o) BY DEF ReleaseDone
<1>5. /\ IsFiniteSet(Refs(o))' /\ Total(o)' = Total(o) - 1
      /\ \A p \in Objects \ {o}, u \in Threads : refs'[u][p] = refs[u][p]
    BY <1>1, <1>3, <1>4, OneLess
<1> DEFINE g == IF transition THEN [Idle EXCEPT !.obj = frame[t].obj] ELSE Idle
           place == IF transition THEN "dealloc" ELSE "idle"
<1>6. Goto(t, place, g) BY DEF ReleaseDone, Return
<1>7. g.borrowed = 0 /\ (transition => g.obj = o) BY DEF Idle
<1> HIDE DEF g
<1>8. pc'[t] = place /\ frame'[t] = g BY <1>1, <1>6, GotoFacts
<1>9. TableOf(t) \in Tables BY StripesAreTables DEF TableOf
<1>10. UNCHANGED lock \/ UnlockTables(t, {TableOf(t)}) BY DEF ReleaseDone
<1> HIDE DEF place
<1>11. OnlyBy(t) BY <1>1, <1>4, <1>6, <1>9, <1>10, StepOnlyBy
<1> QED BY <1>2, <1>5, <1>7, <1>8, <1>11 DEF place

LEMMA ReleaseStoreCounts ==
    ASSUME IInv, CInv, IInv', NEW t \in Threads, ReleaseStore(t) PROVE CInv'
PROOF
<1>1. TypeOK /\ TypeOK' /\ frame[t] \in Frames /\ Knows(t) BY DEF IInv, TypeOK, CInv
<1>2. pc[t] = "releasing" /\ frame[t].old.extra_rc > 0 BY DEF ReleaseStore
<1>3. PICK o \in Objects : o = frame[t].obj BY <1>2 DEF IInv, Local, AtObject
<1>5. UNCHANGED <<refcnts, referrers, location, life>> BY DEF ReleaseStore, tables
<1>6. CASE Goto(t, pc[t], [frame[t] EXCEPT !.old = isa[o]]) /\ UNCHANGED <<isa, lock, refs>>
    BY <1>2, <1>3, <1>5, <1>6, RereadCounts DEF tables
<1>7. ASSUME NEW new, new = [frame[t].old EXCEPT !.extra_rc = @ - 1],
             isa[o] = frame[t].old, isa' = [isa EXCEPT ![o] = new],
             ReleaseDone(t, isDeallocating(new))
      PROVE  CInv'
    <2>1. isa[o] \in IsaWords BY <1>1 DEF TypeOK
    <2>2. /\ new.extra_rc = isa[o].extra_rc - 1
          /\ new.has_sidetable_rc = isa[o].has_sidetable_rc
          /\ isa'[o] = new /\ \A p \in Objects \ {o} : isa'[p] = isa[p]
        BY <1>1, <1>7, <2>1 DEF TypeOK, IsaWords
    <2>3. PICK transition \in BOOLEAN : transition = isDeallocating(new)
        BY DEF isDeallocating
    <2>4. ReleaseDone(t, transition) BY <1>7, <2>3
    <2>5. pc[t] \in AtReleasing BY <1>2 DEF AtReleasing
    <2>6. /\ pc'[t] = IF transition THEN "dealloc" ELSE "idle"
          /\ transition => frame'[t].obj = o
          /\ frame'[t].borrowed = 0 /\ OnlyBy(t)
          /\ Total(o) > 0 /\ IsFiniteSet(Refs(o))' /\ Total(o)' = Total(o) - 1
          /\ \A p \in Objects \ {o}, u \in Threads : refs'[u][p] = refs[u][p]
        BY <1>3, <2>4, <2>5, ReleaseDoneCounts
    <2>7. /\ isa[o].extra_rc \in Nat /\ refcnts[o] \in Nat /\ InTransit(o) \in Nat
          /\ Total(o) \in Nat
        BY <1>1, BalanceFacts
    <2>8. Knows(t)' /\ Carried(t)' = 0 /\ (pc'[t] # "dealloc" => Ends(t)')
        BY <2>6, DoneKnows
    <2>9. Contribution(t, o) = 0 BY <1>1, <1>2, NoContribution DEF CarriesNothing, Borrowing
    <2>10. Contribution(t, o)' = 0 BY <2>8 DEF Contribution
    <2>11. /\ Total(o)' = Total(o) + (-1)
           /\ isa'[o].extra_rc + refcnts'[o] + Contribution(t, o)'
              = isa[o].extra_rc + refcnts[o] + Contribution(t, o) + (-1)
        BY <1>5, <2>2, <2>6, <2>7, <2>9, <2>10
    <2>12. Moves(t, o, -1)
        BY <1>3, <1>5, <2>2, <2>6, <2>8, <2>11 DEF Moves
    <2>13. /\ refcnts'[o] \in Nat /\ InTransit(o)' \in Nat
           /\ isa'[o].extra_rc + refcnts'[o] + InTransit(o)' = Total(o)'
           /\ InTransit(o)' - 0 = InTransit(o) - 0
        BY <2>9, <2>10, <2>12, -1 \in Int, CountMoves
    <2>14. InTransit(o)' = InTransit(o) BY <2>7, <2>13
    <2>15. Balanced(o) BY DEF CInv
    <2>16. isa'[o].has_sidetable_rc = (refcnts'[o] + InTransit(o)' > 0)
        BY <1>5, <2>2, <2>14, <2>15 DEF Balanced
    <2>17. Ends(t)'
        <3>1. SUFFICES ASSUME transition PROVE Ends(t)' BY <2>6, <2>8
        <3>2. isa'[o].extra_rc = 0 /\ ~ isa'[o].has_sidetable_rc
            BY <2>2, <2>3, <3>1 DEF isDeallocating
        <3>3. Total(o)' = 0
            <4>1. ~ (refcnts'[o] + InTransit(o)' > 0) BY <2>16, <3>2
            <4> QED BY <2>13, <3>2, <4>1
        <3>4. life[o] = "live" /\ \A u \in Threads : pc[u] \in Dying => frame[u].obj # o
            BY <2>6, LiveAlone
        <3>5. \A u \in Threads : pc'[u] \in Dying /\ frame'[u].obj = o => u = t
            BY <2>6, <3>4 DEF OnlyBy
        <3> QED BY <1>5, <2>6, <3>1, <3>3, <3>4, <3>5 DEF Ends
    <2> QED BY <2>6, <2>8, <2>12, <2>16, <2>17, -1 \in Int, CountStep
<1> QED BY <1>3, <1>6, <1>7 DEF ReleaseStore, Exclusive

\* A thread inside the side table moves a part of the count out of it, or back.
LEMMA CarryCounts ==
    ASSUME IInv, CInv, IInv', NEW t \in Threads, NEW o \in Objects, o = frame[t].obj,
           NEW place, NEW f, Goto(t, place, f), f.obj = o, refs[t][o] > 0,
           lock[StripeOf[o]] = t, UNCHANGED <<isa, location, lock, refs, life>>,
           \A p \in Objects \ {o} : refcnts'[p] = refcnts[p],
           refcnts'[o] + Carried(t)' = refcnts[o] + Carried(t),
           place \notin Dying, Knows(t)'
    PROVE  CInv'
PROOF
<1>1. TypeOK /\ TypeOK' /\ Balanced(o) BY DEF IInv, CInv
<1>2. pc'[t] = place /\ frame'[t] = f BY <1>1, GotoFacts
<1>3. OnlyBy(t) BY <1>1, StepOnlyBy
<1>4. Contribution(t, o) = Carried(t) /\ Contribution(t, o)' = Carried(t)'
    BY <1>2 DEF Contribution
<1>5. /\ isa[o].extra_rc \in Nat /\ refcnts[o] \in Nat /\ InTransit(o) \in Nat
      /\ Total(o) \in Nat /\ refcnts'[o] \in Nat
      /\ Contribution(t, o) \in Nat /\ Contribution(t, o)' \in Nat
    BY <1>1, BalanceFacts, TransitFacts, TransitFactsPrime DEF TypeOK
<1>6. /\ isa'[o].extra_rc + refcnts'[o] + Contribution(t, o)'
         = isa[o].extra_rc + refcnts[o] + Contribution(t, o) + 0
    BY <1>4, <1>5
<1>7. IsFiniteSet(Refs(o))' /\ Total(o)' = Total(o) + 0
    BY <1>1, <1>5, RefsSame DEF Balanced
<1>8. Moves(t, o, 0) BY <1>2, <1>3, <1>6, <1>7 DEF Moves
<1>9. /\ InTransit(o)' - Contribution(t, o)' = InTransit(o) - Contribution(t, o)
      /\ InTransit(o)' \in Nat
    BY <1>8, CountMoves
<1>10. refcnts'[o] + InTransit(o)' = refcnts[o] + InTransit(o) BY <1>4, <1>5, <1>9
<1>11. isa'[o].has_sidetable_rc = (refcnts'[o] + InTransit(o)' > 0)
    BY <1>1, <1>10 DEF Balanced
<1>12. Total(o) > 0 /\ Ends(t)' BY <1>2, Owned DEF Ends
<1> QED BY <1>8, <1>11, <1>12, CountStep

\* What a thread that has the half range knows.
LEMMA BorrowingKnows ==
    ASSUME NEW t \in Threads, pc'[t] \in Borrowing, frame'[t].locked,
           lock'[StripeOf[frame'[t].obj]] = t,
           pc'[t] = "borrowed" =>
               frame'[t].old.extra_rc = 0 /\ frame'[t].old.has_sidetable_rc
    PROVE  Knows(t)' /\ Carried(t)' = frame'[t].borrowed
PROOF BY DEF Knows, Carried, Borrowing, Inside, TableOf, Loading, Storing

LEMMA BorrowCounts ==
    ASSUME IInv, CInv, IInv', NEW t \in Threads, Borrow(t) PROVE CInv'
PROOF
<1>1. TypeOK /\ frame[t] \in Frames /\ Knows(t) /\ Local(t) BY DEF IInv, TypeOK, CInv
<1>2. /\ pc[t] = "releasing" /\ frame[t].locked
      /\ frame[t].old.extra_rc = 0 /\ frame[t].old.has_sidetable_rc
    BY DEF Borrow, Underflow
<1>3. PICK o \in Objects : o = frame[t].obj BY <1>1, <1>2 DEF Local, AtObject
<1>4. refs[t][o] > 0 BY <1>1, <1>2, <1>3 DEF Local, AtReleasing
<1>5. lock[StripeOf[o]] = t BY <1>1, <1>2, <1>3 DEF Knows, Inside, AtReleasing, TableOf
<1>6. UNCHANGED <<isa, location, lock, refs, life>> BY DEF Borrow, client
<1>7. /\ refcnts'[o] = refcnts[o] - RC_HALF /\ refcnts[o] \in Nat
      /\ \A p \in Objects \ {o} : refcnts'[p] = refcnts[p]
    BY <1>1, <1>3 DEF Borrow, TypeOK
<1> DEFINE f == [frame[t] EXCEPT !.borrowed = RC_HALF]
<1>8. Goto(t, "borrowed", f) BY DEF Borrow
<1>9. /\ f.obj = o /\ f.borrowed = RC_HALF /\ f.locked
      /\ f.old = frame[t].old
    BY <1>1, <1>2, <1>3 DEF Frames
<1> HIDE DEF f
<1>10. pc'[t] = "borrowed" /\ frame'[t] = f BY <1>1, <1>8, GotoFacts
<1>11. Knows(t)' /\ Carried(t)' = RC_HALF
    BY <1>2, <1>5, <1>6, <1>9, <1>10, BorrowingKnows DEF Borrowing
<1>12. Carried(t) = 0 BY <1>1, <1>2 DEF Carried, Knows, Borrowing
<1>13. refcnts'[o] + Carried(t)' = refcnts[o] + Carried(t)
    BY <1>7, <1>11, <1>12, HalfAssumption
<1> QED
    BY <1>3, <1>4, <1>5, <1>6, <1>7, <1>8, <1>9, <1>11, <1>13, CarryCounts DEF Dying

LEMMA PutBackCounts ==
    ASSUME IInv, CInv, IInv', NEW t \in Threads, PutBack(t) PROVE CInv'
PROOF
<1>1. TypeOK /\ frame[t] \in Frames /\ Knows(t) /\ Local(t) BY DEF IInv, TypeOK, CInv
<1>2. pc[t] = "putBack" /\ frame[t].locked /\ frame[t].borrowed = RC_HALF
    BY <1>1 DEF PutBack, Knows, Local, Borrowing
<1>3. PICK o \in Objects : o = frame[t].obj BY <1>1, <1>2 DEF Local, AtObject
<1>4. refs[t][o] > 0 BY <1>1, <1>2, <1>3 DEF Local, AtReleasing
<1>5. lock[StripeOf[o]] = t BY <1>1, <1>2, <1>3 DEF Knows, Inside, AtReleasing, TableOf
<1>6. UNCHANGED <<isa, location, lock, refs, life>> BY DEF PutBack, client
<1>7. /\ refcnts'[o] = refcnts[o] + RC_HALF /\ refcnts[o] \in Nat
      /\ \A p \in Objects \ {o} : refcnts'[p] = refcnts[p]
    BY <1>1, <1>2, <1>3 DEF PutBack, TypeOK
<1> DEFINE f == [frame[t] EXCEPT !.borrowed = 0]
<1>8. Goto(t, "release", f) BY DEF PutBack
<1>9. f.obj = o /\ f.borrowed = 0 /\ f.locked BY <1>1, <1>2, <1>3 DEF Frames
<1> HIDE DEF f
<1>10. pc'[t] = "release" /\ frame'[t] = f BY <1>1, <1>8, GotoFacts
<1>11. Knows(t)' BY <1>5, <1>6, <1>9, <1>10 DEF Knows, Borrowing, TableOf, Loading, Storing
<1>12. Carried(t)' = 0 /\ Carried(t) = RC_HALF BY <1>2, <1>9, <1>10 DEF Carried
<1>13. refcnts'[o] + Carried(t)' = refcnts[o] + Carried(t)
    BY <1>7, <1>12, HalfAssumption
<1> QED
    BY <1>3, <1>4, <1>5, <1>6, <1>7, <1>8, <1>9, <1>11, <1>13, CarryCounts DEF Dying

\* The half range goes into the word, and the reference to be released with it.
LEMMA BorrowDone ==
    ASSUME IInv, CInv, IInv', NEW t \in Threads, NEW o \in Objects, o = frame[t].obj,
           pc[t] \in Borrowing, UNCHANGED <<tables, life>>, ReleaseDone(t, FALSE),
           \A p \in Objects \ {o} : isa'[p] = isa[p],
           isa'[o].extra_rc = isa[o].extra_rc + RC_HALF - 1,
           isa'[o].has_sidetable_rc = (refcnts[o] # 0)
    PROVE  CInv'
PROOF
<1>1. TypeOK /\ TypeOK' /\ Knows(t) /\ Local(t) BY DEF IInv, CInv
<1>2. frame[t].locked /\ frame[t].borrowed = RC_HALF /\ pc[t] \in AtReleasing
    BY <1>1 DEF Knows, Local, Borrowing, AtReleasing
<1>3. lock[StripeOf[o]] = t BY <1>1, <1>2 DEF Knows, Inside, TableOf
<1>4. /\ pc'[t] = "idle" /\ frame'[t].borrowed = 0 /\ OnlyBy(t)
      /\ Total(o) > 0 /\ IsFiniteSet(Refs(o))' /\ Total(o)' = Total(o) - 1
      /\ \A p \in Objects \ {o}, u \in Threads : refs'[u][p] = refs[u][p]
    BY <1>2, ReleaseDoneCounts
<1>5. Knows(t)' /\ Carried(t)' = 0 /\ Ends(t)' BY <1>4, DoneKnows
<1>6. Contribution(t, o) = RC_HALF BY <1>2, <1>3 DEF Contribution, Carried, Borrowing
<1>7. Contribution(t, o)' = 0 BY <1>5 DEF Contribution
<1>8. /\ isa[o].extra_rc \in Nat /\ refcnts[o] \in Nat /\ InTransit(o) = RC_HALF
      /\ Total(o) \in Nat
    BY <1>1, <1>3, <1>6, BalanceFacts, TransitFacts
<1>9. /\ Total(o)' = Total(o) + (-1)
      /\ isa'[o].extra_rc + refcnts'[o] + Contribution(t, o)'
         = isa[o].extra_rc + refcnts[o] + Contribution(t, o) + (-1)
    BY <1>4, <1>6, <1>7, <1>8, HalfAssumption DEF tables
<1>10. Moves(t, o, -1) BY <1>4, <1>5, <1>9 DEF Moves, tables
<1>11. InTransit(o)' - 0 = RC_HALF - RC_HALF /\ InTransit(o)' \in Nat
    BY <1>6, <1>7, <1>8, <1>10, -1 \in Int, CountMoves
<1>12. InTransit(o)' = 0 BY <1>11, HalfAssumption
<1>13. isa'[o].has_sidetable_rc = (refcnts'[o] + InTransit(o)' > 0)
    <2>1. (refcnts[o] # 0) = (refcnts'[o] + InTransit(o)' > 0) BY <1>8, <1>12 DEF tables
    <2> QED BY <2>1
<1> QED BY <1>4, <1>5, <1>10, <1>13, -1 \in Int, CountStep

LEMMA BorrowStoreCounts ==
    ASSUME IInv, CInv, IInv', NEW t \in Threads, BorrowStore(t) PROVE CInv'
PROOF
<1>1. TypeOK /\ frame[t] \in Frames /\ Knows(t) /\ Local(t) BY DEF IInv, TypeOK, CInv
<1>2. /\ pc[t] = "borrowed" /\ frame[t].locked /\ frame[t].borrowed = RC_HALF
      /\ frame[t].old.extra_rc = 0
      /\ pc[t] \in Borrowing
    BY <1>1 DEF BorrowStore, Knows, Local, Borrowing
<1>3. PICK o \in Objects : o = frame[t].obj BY <1>1, <1>2 DEF Local, AtObject
<1>4. UNCHANGED <<tables, life>> BY DEF BorrowStore
<1>5. CASE /\ isa[o] = frame[t].old
           /\ isa' = [isa EXCEPT ![o].extra_rc = frame[t].borrowed - 1,
                                 ![o].has_sidetable_rc = ~ emptySideTable(t)]
           /\ ReleaseDone(t, FALSE)
    <2>1. isa[o] \in IsaWords BY <1>1 DEF TypeOK
    <2>2. isa' = [isa EXCEPT ![o] = [isa[o] EXCEPT !.extra_rc = frame[t].borrowed - 1,
                                     !.has_sidetable_rc = ~ emptySideTable(t)]]
        BY <1>1, <1>5, <2>1 DEF TypeOK, IsaWords
    <2>3. /\ isa'[o].extra_rc = RC_HALF - 1
          /\ isa'[o].has_sidetable_rc = (refcnts[o] # 0)
          /\ \A p \in Objects \ {o} : isa'[p] = isa[p]
        BY <1>1, <1>2, <1>3, <2>1, <2>2 DEF TypeOK, IsaWords, emptySideTable
    <2>4. isa'[o].extra_rc = isa[o].extra_rc + RC_HALF - 1
        BY <1>2, <1>5, <2>3, HalfAssumption
    <2> QED BY <1>2, <1>3, <1>4, <1>5, <2>3, <2>4, BorrowDone
<1>6. CASE /\ Goto(t, "borrowed2", [frame[t] EXCEPT !.old = isa[frame[t].obj]])
           /\ UNCHANGED <<isa, lock, aborted, refs>>
    <2> DEFINE f == [frame[t] EXCEPT !.old = isa[frame[t].obj]]
    <2>1. f.obj = o /\ f.borrowed = RC_HALF /\ f.locked BY <1>1, <1>2, <1>3 DEF Frames
    <2>2. Goto(t, "borrowed2", f) BY <1>6
    <2> HIDE DEF f
    <2>3. pc'[t] = "borrowed2" /\ frame'[t] = f BY <1>1, <2>2, GotoFacts
    <2>4. lock[StripeOf[o]] = t BY <1>1, <1>2, <1>3 DEF Knows, Inside, AtReleasing, TableOf
    <2>5. Knows(t)' /\ Carried(t)' = RC_HALF
        BY <1>6, <2>1, <2>3, <2>4, BorrowingKnows DEF Borrowing
    <2>6. Carried(t) = RC_HALF BY <1>2 DEF Carried
    <2>7. refs[t][o] > 0 BY <1>1, <1>2, <1>3 DEF Local, AtReleasing
    <2> QED
        BY <1>3, <1>4, <1>6, <2>1, <2>2, <2>4, <2>5, <2>6, <2>7, CarryCounts
        DEF Dying, tables
<1> QED BY <1>3, <1>5, <1>6 DEF BorrowStore

LEMMA BorrowStoreAgainCounts ==
    ASSUME IInv, CInv, IInv', NEW t \in Threads, BorrowStoreAgain(t) PROVE CInv'
PROOF
<1>1. TypeOK /\ frame[t] \in Frames /\ Knows(t) /\ Local(t) BY DEF IInv, TypeOK, CInv
<1>2. /\ pc[t] = "borrowed2" /\ frame[t].locked /\ frame[t].borrowed = RC_HALF
      /\ pc[t] \in Borrowing
    BY <1>1 DEF BorrowStoreAgain, Knows, Local, Borrowing
<1>3. PICK o \in Objects : o = frame[t].obj BY <1>1, <1>2 DEF Local, AtObject
<1>4. UNCHANGED <<tables, life>> BY DEF BorrowStoreAgain
<1>5. ASSUME NEW sum, sum = frame[t].old.extra_rc + frame[t].borrowed - 1,
             NEW new, new = [frame[t].old EXCEPT !.extra_rc = sum,
                                                 !.has_sidetable_rc = ~ emptySideTable(t)],
             isa[o] = frame[t].old, isa' = [isa EXCEPT ![o] = new],
             ReleaseDone(t, isDeallocating(new))
      PROVE  CInv'
    <2>1. isa[o] \in IsaWords BY <1>1 DEF TypeOK
    <2>2. /\ new.extra_rc = isa[o].extra_rc + RC_HALF - 1
          /\ isa'[o] = new
          /\ new.has_sidetable_rc = (refcnts[o] # 0)
          /\ \A p \in Objects \ {o} : isa'[p] = isa[p]
        BY <1>1, <1>2, <1>3, <1>5, <2>1 DEF TypeOK, IsaWords, emptySideTable
    <2>3. isa[o].extra_rc \in Nat BY <1>1, BalanceFacts
    <2>4. new.extra_rc # 0 BY <2>2, <2>3, HalfAssumption
    <2>5. isDeallocating(new) = FALSE BY <2>4 DEF isDeallocating
    <2>6. ReleaseDone(t, FALSE) BY <1>5, <2>5
    <2> QED BY <1>2, <1>3, <1>4, <2>2, <2>6, BorrowDone
<1>6. CASE Goto(t, "putBack", frame[t]) /\ UNCHANGED <<isa, lock, aborted, refs>>
    <2>1. pc'[t] = "putBack" /\ frame'[t] = frame[t] BY <1>1, <1>6, GotoFacts
    <2>2. lock[StripeOf[o]] = t BY <1>1, <1>2, <1>3 DEF Knows, Inside, AtReleasing, TableOf
    <2>3. Knows(t)' /\ Carried(t)' = RC_HALF
        BY <1>2, <1>3, <1>6, <2>1, <2>2, BorrowingKnows DEF Borrowing
    <2>4. Carried(t) = RC_HALF BY <1>2 DEF Carried
    <2>5. refs[t][o] > 0 BY <1>1, <1>2, <1>3 DEF Local, AtReleasing
    <2> QED
        BY <1>3, <1>4, <1>6, <2>2, <2>3, <2>4, <2>5, CarryCounts DEF Dying, tables
<1> QED BY <1>3, <1>5, <1>6 DEF BorrowStoreAgain

-----------------------------------------------------------------------------
(* Deallocation, and assigning a weak variable                             *)

LEMMA DeallocCounts ==
    ASSUME IInv, CInv, IInv', NEW t \in Threads, Dealloc(t) PROVE CInv'
PROOF
<1>1. TypeOK /\ TypeOK' /\ Knows(t) /\ Ends(t) BY DEF IInv, CInv
<1>2. pc[t] = "dealloc" BY DEF Dealloc
<1>3. PICK o \in Objects : o = frame[t].obj BY <1>2 DEF IInv, Local, AtObject
<1>4. pc'[t] = "rootDealloc" /\ frame'[t] = frame[t] BY <1>1, GotoFacts DEF Dealloc
<1>5. UNCHANGED <<isa, refcnts, location, lock, refs>> BY DEF Dealloc, tables
<1>6. life'[o] = "deallocating" /\ \A p \in Objects \ {o} : life'[p] = life[p]
    BY <1>1, <1>3 DEF Dealloc, TypeOK
<1>7. OnlyBy(t) BY <1>1, <1>5, StepOnlyBy DEF Dealloc
<1>8. frame[t].borrowed = 0 BY <1>1, <1>2 DEF Knows, Borrowing
<1>9. Knows(t)'
    BY <1>4, <1>8 DEF Knows, Borrowing, Inside, AtReleasing, Loading, Storing
<1>10. CarriesNothing(t) /\ CarriesNothing(t)' BY <1>2, <1>4 DEF CarriesNothing, Borrowing
<1>11. \A p \in Objects : Untouched(t, p)
    BY <1>1, <1>5, <1>9, <1>10, NoContribution, NoContributionPrime DEF Untouched
<1>12. Balanced(o)' /\ Total(o)' = Total(o)
    BY <1>1, <1>7, <1>11, UntouchedKeeps DEF CInv
<1>13. Total(o) = 0 /\ \A u \in Threads : pc[u] \in Dying /\ frame[u].obj = o => u = t
    BY <1>1, <1>2, <1>3 DEF Ends, Dying
<1>14. Mortal(o)' BY <1>6, <1>12, <1>13 DEF Mortal
<1>15. Ends(t)'
    <2>1. \A u \in Threads : pc'[u] \in Dying /\ frame'[u].obj = o => u = t
        BY <1>7, <1>13 DEF OnlyBy
    <2> QED BY <1>3, <1>4, <1>6, <1>12, <1>13, <2>1 DEF Ends
<1> QED
    BY <1>5, <1>6, <1>7, <1>9, <1>11, <1>12, <1>13, <1>14, <1>15, SameLocations, StepKeeps

\* No weak variable holds what is freed.
LEMMA FreeUnheld ==
    ASSUME IInv, IWeak, CInv, NEW t \in Threads, Free(t), NEW o \in Objects, o = frame[t].obj
    PROVE  /\ life[o] = "deallocating"
           /\ \A l \in Locations : location[l] # o
PROOF
<1>1. pc[t] \in {"rootDealloc", "free"} /\ Ends(t) BY DEF Free, CInv
<1>2. CASE pc[t] = "free" BY <1>1, <1>2 DEF Ends, Dying
<1>3. CASE pc[t] = "rootDealloc"
    <2>1. ~ isa[o].weakly_referenced BY <1>3 DEF Free
    <2>2. \A l \in Locations : location[l] # o
        BY <2>1, NilAssumption DEF IWeak, MarkedWeak
    <2> QED BY <1>1, <1>3, <2>2 DEF Ends, Dying
<1> QED BY <1>1, <1>2, <1>3

LEMMA FreeCounts ==
    ASSUME IInv, IWeak, CInv, IInv', NEW t \in Threads, Free(t) PROVE CInv'
PROOF
<1>1. TypeOK /\ TypeOK' /\ Knows(t) /\ Ends(t) BY DEF IInv, CInv
<1>2. pc[t] \in {"rootDealloc", "free"} BY DEF Free
<1>3. PICK o \in Objects : o = frame[t].obj BY <1>2 DEF IInv, Local, AtObject
<1>4. pc'[t] = "idle" /\ frame'[t] = Idle BY <1>1, GotoFacts DEF Free, Return
<1>5. UNCHANGED <<isa, refcnts, location, lock, refs>> BY DEF Free, tables
<1>6. life'[o] = "freed" /\ \A p \in Objects \ {o} : life'[p] = life[p]
    BY <1>1, <1>3 DEF Free, TypeOK
<1>7. OnlyBy(t) BY <1>1, <1>5, StepOnlyBy DEF Free, Return
<1>8. Knows(t)' /\ Ends(t)' BY <1>4, DoneKnows DEF Idle
<1>9. CarriesNothing(t) /\ CarriesNothing(t)' BY <1>2, <1>4 DEF CarriesNothing, Borrowing
<1>10. \A p \in Objects : Untouched(t, p)
    BY <1>1, <1>5, <1>8, <1>9, NoContribution, NoContributionPrime DEF Untouched
<1>11. Balanced(o)' /\ Total(o)' = Total(o)
    BY <1>1, <1>7, <1>10, UntouchedKeeps DEF CInv
<1>12. Total(o) = 0 /\ \A u \in Threads : pc[u] \in Dying /\ frame[u].obj = o => u = t
    BY <1>1, <1>2, <1>3 DEF Ends, Dying
<1>13. \A l \in Locations : location[l] # o BY <1>3, FreeUnheld
<1>14. Mortal(o)' BY <1>5, <1>11, <1>12, <1>13 DEF Mortal
<1> QED
    BY <1>5, <1>6, <1>7, <1>8, <1>10, <1>11, <1>12, <1>14, SameLocations, StepKeeps

\* Clearing finds every variable that holds the object.
LEMMA ClearsAll ==
    ASSUME IInv, IWeak, NEW t \in Threads, ClearDeallocating(t),
           NEW o \in Objects, o = frame[t].obj
    PROVE  \A l \in Locations : location'[l] = IF location[l] = o THEN nil ELSE location[l]
PROOF
<1>1. lock[StripeOf[o]] = nil BY DEF ClearDeallocating
<1>2. \A l \in Locations : location[l] = o => l \in referrers[o] /\ isa[o].weakly_referenced
    BY <1>1, WeakImplied DEF WeakTableExact
<1>3. CASE isa[o].weakly_referenced
    <2>1. \A l \in Locations :
              location'[l] = IF l \in referrers[o] /\ location[l] = o THEN nil ELSE location[l]
        BY <1>3 DEF ClearDeallocating
    <2> QED BY <1>2, <2>1
<1>4. CASE ~ isa[o].weakly_referenced
    <2>1. location' = location BY <1>4 DEF ClearDeallocating
    <2> QED BY <1>2, <1>4, <2>1
<1> QED BY <1>3, <1>4

\* It finds no count in the table, for there is none.
LEMMA ClearDeallocatingCounts ==
    ASSUME IInv, IWeak, CInv, IInv', NEW t \in Threads, ClearDeallocating(t) PROVE CInv'
PROOF
<1>1. TypeOK /\ TypeOK' /\ Knows(t) /\ Ends(t) BY DEF IInv, CInv
<1>2. pc[t] = "rootDealloc" BY DEF ClearDeallocating
<1>3. PICK o \in Objects : o = frame[t].obj BY <1>2 DEF IInv, Local, AtObject
<1>4. pc'[t] = "free" /\ frame'[t] = frame[t] BY <1>1, GotoFacts DEF ClearDeallocating
<1>5. UNCHANGED <<isa, lock, refs, life>> BY DEF ClearDeallocating, client
<1>6. lock[StripeOf[o]] = nil BY <1>3 DEF ClearDeallocating
<1>7. OnlyBy(t) BY <1>1, <1>5, StepOnlyBy DEF ClearDeallocating
<1>8. /\ Total(o) = 0 /\ life[o] = "deallocating"
      /\ \A u \in Threads : pc[u] \in Dying /\ frame[u].obj = o => u = t
    BY <1>1, <1>2, <1>3 DEF Ends, Dying
<1>9. refcnts' = refcnts
    <2>1. ~ isa[o].has_sidetable_rc
        <3>1. /\ isa[o].extra_rc \in Nat /\ refcnts[o] \in Nat /\ InTransit(o) \in Nat
              /\ isa[o].extra_rc + refcnts[o] + InTransit(o) = Total(o)
              /\ isa[o].has_sidetable_rc <=> refcnts[o] + InTransit(o) > 0
            BY <1>1, BalanceFacts
        <3> QED BY <1>8, <3>1
    <2> QED BY <1>3, <2>1 DEF ClearDeallocating
<1>11. \A l \in Locations : location'[l] = IF location[l] = o THEN nil ELSE location[l]
    BY <1>3, ClearsAll
<1>12. ASSUME NEW u \in Threads \ {t}, Loading(u)
       PROVE  location'[frame[u].loc] = frame[u].obj
    <2>1. /\ frame[u].loc \in Locations /\ location[frame[u].loc] = frame[u].obj
          /\ lock[StripeOf[frame[u].obj]] = u
        BY <1>12 DEF CInv, Knows, Loading, Inside, TableOf
    <2>2. frame[u].obj # o BY <1>6, <2>1, NilAssumption
    <2> QED BY <1>11, <2>1, <2>2
<1>13. \A l \in Locations, p \in Objects : location'[l] = p => location[l] = p \/ Total(p) > 0
    BY <1>11, NilAssumption
<1>14. frame[t].borrowed = 0 BY <1>1, <1>2 DEF Knows, Borrowing
<1>15. Knows(t)'
    BY <1>4, <1>14 DEF Knows, Borrowing, Inside, AtReleasing, Loading, Storing
<1>16. CarriesNothing(t) /\ CarriesNothing(t)' BY <1>2, <1>4 DEF CarriesNothing, Borrowing
<1>17. \A p \in Objects : Untouched(t, p) /\ life'[p] = life[p]
    BY <1>1, <1>5, <1>9, <1>15, <1>16, NoContribution, NoContributionPrime DEF Untouched
<1>18. Total(o)' = Total(o) BY <1>5, RefsSame
<1>19. Ends(t)'
    <2>1. \A u \in Threads : pc'[u] \in Dying /\ frame'[u].obj = o => u = t
        BY <1>7, <1>8 DEF OnlyBy
    <2> QED BY <1>3, <1>4, <1>5, <1>8, <1>11, <1>18, <2>1, NilAssumption DEF Ends
<1>20. nil \notin Objects BY NilAssumption
<1> QED BY <1>7, <1>12, <1>13, <1>15, <1>17, <1>19, <1>20, StepKeeps

\* The variable was locked with the object it held, so nobody is loading it.
LEMMA StoreAssignCounts ==
    ASSUME IInv, IWeak, CInv, IInv', NEW t \in Threads, StoreAssign(t) PROVE CInv'
PROOF
<1>1. TypeOK /\ TypeOK' /\ frame[t] \in Frames /\ Knows(t) BY DEF IInv, TypeOK, CInv
<1>2. pc[t] = "assign" /\ Midway(t) BY DEF StoreAssign, Midway
<1>3. /\ frame[t].loc \in Locations /\ frame[t].obj \in Objects \cup {nil}
      /\ frame[t].oldObj \in Objects \cup {nil}
      /\ lock[StripeOf[frame[t].oldObj]] = t
      /\ location[frame[t].loc] = frame[t].oldObj
    BY <1>2, MidwayFacts DEF IWeak, Registered
<1>4. pc'[t] = "idle" /\ frame'[t] = Idle BY <1>1, GotoFacts DEF StoreAssign, Return
<1>5. UNCHANGED <<isa, refcnts, refs, life>> BY DEF StoreAssign, client
<1>6. \A l \in Locations : location'[l] = IF l = frame[t].loc THEN frame[t].obj ELSE location[l]
    BY <1>1 DEF StoreAssign, TypeOK
<1>7. OnlyBy(t)
    <2>1. StoreTables(t) \in SUBSET Tables BY <1>3, LockOrderFacts
    <2> QED BY <1>1, <1>5, <2>1, StepOnlyBy DEF StoreAssign, Return
<1>8. ASSUME NEW u \in Threads \ {t}, Loading(u)
      PROVE  location'[frame[u].loc] = frame[u].obj
    <2>1. /\ frame[u].loc \in Locations /\ location[frame[u].loc] = frame[u].obj
          /\ lock[StripeOf[frame[u].obj]] = u
        BY <1>8 DEF CInv, Knows, Loading, Inside, TableOf
    <2>2. frame[u].loc # frame[t].loc BY <1>3, <2>1
    <2> QED BY <1>6, <2>1, <2>2
<1>9. ASSUME NEW l \in Locations, NEW p \in Objects, location'[l] = p
      PROVE  location[l] = p \/ Total(p) > 0
    <2>1. CASE l # frame[t].loc BY <1>6, <1>9, <2>1
    <2>2. CASE l = frame[t].loc
        <3>1. frame[t].obj = p BY <1>6, <1>9, <2>2
        <3>2. refs[t][p] > 0 BY <1>1, <1>2, <3>1, NilAssumption DEF Knows, Storing
        <3> QED BY <3>2, Owned
    <2> QED BY <2>1, <2>2
<1>10. Knows(t)' /\ Ends(t)' BY <1>4, DoneKnows DEF Idle
<1>11. CarriesNothing(t) /\ CarriesNothing(t)' BY <1>2, <1>4 DEF CarriesNothing, Borrowing
<1>12. \A p \in Objects : Untouched(t, p) /\ life'[p] = life[p]
    BY <1>1, <1>5, <1>10, <1>11, NoContribution, NoContributionPrime DEF Untouched
<1>13. nil \notin Objects BY NilAssumption
<1> QED BY <1>7, <1>8, <1>9, <1>10, <1>12, <1>13, StepKeeps

-----------------------------------------------------------------------------
(* The invariant                                                           *)

LEMMA InitCInv == Init => CInv
PROOF
<1> SUFFICES ASSUME Init PROVE CInv OBVIOUS
<1>1. TypeOK BY InitIInv DEF IInv
<1>2. /\ \A t \in Threads : pc[t] = "idle" /\ frame[t] = Idle
      /\ \A s \in Tables : lock[s] = nil
      /\ \A l \in Locations : location[l] = nil
    BY DEF Init
<1>3. ASSUME NEW t \in Threads PROVE Knows(t) /\ Ends(t)
    BY <1>2 DEF Knows, Ends, Idle, Borrowing, Inside, AtReleasing, Loading, Storing, Dying
<1>4. ASSUME NEW o \in Objects PROVE Balanced(o) /\ Mortal(o)
    <2>1. /\ isa[o].extra_rc = 1 /\ isa[o].has_sidetable_rc = FALSE /\ refcnts[o] = 0
          /\ life[o] = "live"
        BY DEF Init
    <2>2. InTransit(o) = 0 BY <1>1, <1>2, StripesAreTables, TransitFacts
    <2>3. PICK c \in Threads : c = Creator[o] BY ClientAssumption
    <2>4. \A t \in Threads : refs[t][o] = IF t = c THEN 1 ELSE 0 BY <2>3 DEF Init
    <2>5. Refs(o) = {<<c, 1>>}
        <3>1. ASSUME NEW x \in Refs(o) PROVE x = <<c, 1>>
            <4>1. PICK t \in Threads, i \in Nat : i \in 1..refs[t][o] /\ x = <<t, i>>
                BY <1>1, <3>1, RefsMember
            <4>2. t = c /\ i = 1 BY <2>4, <4>1
            <4> QED BY <4>1, <4>2
        <3>2. <<c, 1>> \in Refs(o)
            <4>1. 1 \in 1..refs[c][o] BY <2>4
            <4> QED BY <1>1, <4>1, RefsMember
        <3> QED BY <3>1, <3>2
    <2>6. IsFiniteSet(Refs(o)) /\ Total(o) = 1
        BY <2>5, FS_Singleton DEF Total
    <2>7. Count(o) = 1 BY <2>1, <2>2 DEF Count
    <2>8. isa[o].has_sidetable_rc = (refcnts[o] + InTransit(o) > 0)
        <3>1. (refcnts[o] + InTransit(o) > 0) = FALSE BY <2>1, <2>2
        <3>2. isa[o].has_sidetable_rc = FALSE BY <2>1
        <3> QED BY <3>1, <3>2, Zenon
    <2> QED BY <2>1, <2>6, <2>7, <2>8 DEF Balanced, Mortal
<1> QED BY <1>3, <1>4 DEF CInv

LEMMA NextCInv == IInv /\ IWeak /\ CInv /\ [Next]_vars => CInv'
PROOF
<1> SUFFICES ASSUME IInv, IWeak, CInv, [Next]_vars PROVE CInv' OBVIOUS
<1>1. IInv' BY NextIInv
<1>2. CASE UNCHANGED vars
    <2>1. UNCHANGED <<isa, refcnts, location, lock, pc, frame, refs, life>>
        BY <1>2 DEF vars, tables
    <2>2. ASSUME NEW t \in Threads PROVE Knows(t)' /\ Ends(t)'
        <3>1. Knows(t) /\ Ends(t) BY DEF CInv
        <3>2. Knows(t)' BY <2>1, <3>1 DEF Knows, Inside, Loading, TableOf
        <3>3. \A o : Total(o)' = Total(o) BY <2>1 DEF Total, Refs
        <3>4. Ends(t)' BY <2>1, <3>1, <3>3 DEF Ends
        <3> QED BY <3>2, <3>4
    <2>3. ASSUME NEW o \in Objects PROVE Balanced(o)' /\ Mortal(o)'
        <3>1. Balanced(o) /\ Mortal(o) BY DEF CInv
        <3>2. Refs(o)' = Refs(o) /\ Total(o)' = Total(o) BY <2>1, RefsSame
        <3>3. InTransit(o)' = InTransit(o) BY <2>1 DEF InTransit
        <3>4. Count(o)' = Count(o) BY <2>1, <3>3 DEF Count
        <3> QED BY <2>1, <3>1, <3>2, <3>3, <3>4 DEF Balanced, Mortal
    <2> QED BY <2>2, <2>3 DEF CInv
<1>3. ASSUME NEW t \in Threads, Call(t) PROVE CInv' BY <1>1, <1>3, CallCounts
<1>4. ASSUME NEW t \in Threads, Step(t) PROVE CInv'
    BY <1>1, <1>4, RetainLoops, ReleaseLoops, StoreSteps, LoadSteps, RetainStoreCounts,
       RetainStoreHalfCounts, TranscribeCounts, ReleaseStoreCounts, BorrowCounts,
       BorrowStoreCounts, BorrowStoreAgainCounts, PutBackCounts, DeallocCounts,
       ClearDeallocatingCounts, FreeCounts, StoreAssignCounts
       DEF Step
<1> QED BY <1>2, <1>3, <1>4 DEF Next, Halted

CountInv == IInv /\ IWeak /\ CInv

LEMMA CountInvariance == Spec => []CountInv
PROOF
<1>1. Init => CountInv BY InitIInv, InitWeak, InitCInv DEF CountInv
<1>2. CountInv /\ [Next]_vars => CountInv' BY NextIInv, NextWeak, NextCInv DEF CountInv
<1> QED BY <1>1, <1>2, PTL DEF Spec

\* rootRetain and rootRelease on any threads: the isa, the side table and what
\* is on its way between them always add up to the references there are.
THEOREM CountExactHolds == Spec => []CountExact
PROOF
<1>1. CountInv => CountExact BY DEF CountInv, CInv, Balanced, CountExact
<1> QED BY <1>1, CountInvariance, PTL

\* The objects a thread reads are its own, or held by a variable that it has
\* locked, or its own to deallocate.
LEMMA NothingFreedRead == CountInv => NoUseAfterFree
PROOF
<1> SUFFICES ASSUME CountInv, NEW t \in Threads, NEW o \in Reads(t), life[o] = "freed"
             PROVE  FALSE
    BY DEF NoUseAfterFree
<1>1. IInv /\ CInv /\ Knows(t) /\ Ends(t) /\ frame[t] \in Frames
    BY DEF CountInv, CInv, IInv, TypeOK
<1>2. o = frame[t].obj /\ o \in Objects BY <1>1 DEF Reads, Frames
<1>3. ~ (Total(o) > 0) /\ \A l \in Locations : location[l] # o
    BY <1>1, <1>2 DEF CInv, Mortal
<1>4. ~ (refs[t][o] > 0) BY <1>1, <1>2, <1>3, Owned
<1>5. CASE pc[t] \in {"retain", "retaining", "transcribe"}
    BY <1>1, <1>2, <1>3, <1>4, <1>5 DEF Knows, Loading
<1>6. CASE pc[t] \in AtReleasing BY <1>1, <1>2, <1>4, <1>6 DEF IInv, Local
<1>7. CASE pc[t] \in {"register", "mark"}
    BY <1>1, <1>2, <1>4, <1>7, NilAssumption DEF Knows, Storing
<1>8. CASE pc[t] \in {"dealloc", "rootDealloc"}
    BY <1>1, <1>2, <1>8 DEF Ends, Dying
<1> QED BY <1>5, <1>6, <1>7, <1>8 DEF Reads, AtReleasing

\* A weak variable may be loaded, and its object retained, while the last
\* reference goes: no thread reads the isa word of an object that is freed.
THEOREM NoUseAfterFreeHolds == Spec => []NoUseAfterFree
BY NothingFreedRead, CountInvariance, PTL

-----------------------------------------------------------------------------
(* Who unlocks a side table has locked it                                  *)

\* A load of a weak variable still has its table, unless rootRetain unlocked it.
LoadHolds(t) ==
    pc[t] = "loaded" =>
        lock[TableOf(t)] = t \/ (frame[t].locked /\ isDeallocating(frame[t].old))

Unlocks(t) ==
    \/ UNCHANGED lock
    \/ \E s \in Tables : LockTable(t, s)
    \/ \E S \in SUBSET Tables : UnlockTables(t, S)

LEMMA TablesKnown ==
    ASSUME IInv, NEW t \in Threads
    PROVE  TableOf(t) \in Tables /\ StoreTables(t) \subseteq Tables
           /\ First(t) \in Tables /\ Second(t) \in Tables
PROOF
<1>1. frame[t] \in Frames BY DEF IInv, TypeOK
<1>2. frame[t].obj \in Objects \cup {nil} /\ frame[t].oldObj \in Objects \cup {nil}
    BY <1>1 DEF Frames
<1> QED BY <1>2, StripesAreTables, LockOrderFacts DEF TableOf

LEMMA RetainUnlocks ==
    ASSUME IInv, NEW t \in Threads,
           \/ RetainLoad(t) \/ RetainDeallocating(t) \/ RetainOverflow(t) \/ RetainLock(t)
           \/ RetainStore(t) \/ RetainStoreHalf(t) \/ Transcribe(t)
    PROVE  Unlocks(t)
PROOF
<1>1. TableOf(t) \in Tables BY TablesKnown
<1>2. ASSUME UnlockTables(t, {TableOf(t)}) PROVE Unlocks(t) BY <1>1, <1>2 DEF Unlocks
<1> QED
    BY <1>1, <1>2
    DEF Unlocks, RetainLoad, RetainDeallocating, RetainOverflow, RetainLock, RetainStore,
        RetainStoreHalf, Transcribe, Exclusive, RetainDone

LEMMA ReleaseUnlocks ==
    ASSUME IInv, NEW t \in Threads,
           \/ ReleaseLoad(t) \/ ReleaseStore(t) \/ ReleaseUnderflow(t) \/ ReleaseLock(t)
           \/ Borrow(t) \/ BorrowStore(t) \/ BorrowStoreAgain(t) \/ PutBack(t)
           \/ Dealloc(t) \/ ClearDeallocating(t) \/ Free(t)
    PROVE  Unlocks(t)
PROOF
<1>1. TableOf(t) \in Tables BY TablesKnown
<1>2. ASSUME UnlockTables(t, {TableOf(t)}) PROVE Unlocks(t) BY <1>1, <1>2 DEF Unlocks
<1> QED
    BY <1>1, <1>2
    DEF Unlocks, ReleaseLoad, ReleaseStore, ReleaseUnderflow, ReleaseLock, Borrow,
        BorrowStore, BorrowStoreAgain, PutBack, Dealloc, ClearDeallocating, Free, Exclusive,
        ReleaseDone

LEMMA WeakUnlocks ==
    ASSUME IInv, NEW t \in Threads,
           \/ LoadLocation(t) \/ LoadLock(t) \/ LoadUnlock(t)
           \/ StoreLoad(t) \/ StoreLockFirst(t) \/ StoreLockSecond(t) \/ StoreRetry(t)
           \/ StoreRegister(t) \/ StoreMark(t) \/ StoreAssign(t)
    PROVE  Unlocks(t)
PROOF
<1>1. TableOf(t) \in Tables /\ StoreTables(t) \in SUBSET Tables
      /\ First(t) \in Tables /\ Second(t) \in Tables
    BY TablesKnown
<1>2. ASSUME UnlockTables(t, {TableOf(t)}) \/ UnlockTables(t, StoreTables(t))
      PROVE  Unlocks(t)
    BY <1>1, <1>2 DEF Unlocks
<1> QED
    BY <1>1, <1>2
    DEF Unlocks, LoadLocation, LoadLock, LoadUnlock, StoreLoad, StoreLockFirst,
        StoreLockSecond, StoreRetry, StoreRegister, StoreMark, StoreAssign, Exclusive

\* Where a thread goes, it goes alone.
LEMMA Goes ==
    ASSUME NEW t \in Threads, Step(t) PROVE \E place, f : Goto(t, place, f)
PROOF
<1>1. ASSUME Return(t) PROVE \E place, f : Goto(t, place, f) BY <1>1 DEF Return
<1>2. CASE \/ RetainLoad(t) \/ RetainDeallocating(t) \/ RetainOverflow(t) \/ RetainLock(t)
           \/ RetainStore(t) \/ RetainStoreHalf(t) \/ Transcribe(t)
    BY <1>1, <1>2
    DEF RetainLoad, RetainDeallocating, RetainOverflow, RetainLock, RetainStore,
        RetainStoreHalf, Transcribe, Exclusive, RetainDone
<1>3. CASE \/ ReleaseLoad(t) \/ ReleaseStore(t) \/ ReleaseUnderflow(t) \/ ReleaseLock(t)
           \/ Borrow(t) \/ BorrowStore(t) \/ BorrowStoreAgain(t) \/ PutBack(t)
           \/ Dealloc(t) \/ ClearDeallocating(t) \/ Free(t)
    BY <1>1, <1>3
    DEF ReleaseLoad, ReleaseStore, ReleaseUnderflow, ReleaseLock, Borrow, BorrowStore,
        BorrowStoreAgain, PutBack, Dealloc, ClearDeallocating, Free, Exclusive, ReleaseDone
<1>4. CASE \/ LoadLocation(t) \/ LoadLock(t) \/ LoadUnlock(t)
           \/ StoreLoad(t) \/ StoreLockFirst(t) \/ StoreLockSecond(t) \/ StoreRetry(t)
           \/ StoreRegister(t) \/ StoreMark(t) \/ StoreAssign(t)
    BY <1>1, <1>4
    DEF LoadLocation, LoadLock, LoadUnlock, StoreLoad, StoreLockFirst, StoreLockSecond,
        StoreRetry, StoreRegister, StoreMark, StoreAssign, Exclusive, GotoMark
<1> QED BY <1>2, <1>3, <1>4 DEF Step

\* A retain for a weak load comes to its end inside the table of the object.
LEMMA LoadsInside ==
    ASSUME IInv, CInv, NEW t \in Threads, Step(t), pc'[t] = "loaded"
    PROVE  LoadHolds(t)'
PROOF
<1>1. TypeOK /\ Knows(t) BY DEF IInv, CInv
<1>2. ASSUME NEW place, NEW f, Goto(t, place, f) PROVE place = "loaded" BY <1>1, <1>2, GotoFacts
<1>3. ~ Return(t) BY <1>2 DEF Return
<1>4. ASSUME frame[t].try, Goto(t, "loaded", frame[t]), UNCHANGED lock, Inside(t)
      PROVE  LoadHolds(t)'
    <2>1. frame'[t] = frame[t] BY <1>1, <1>4, GotoFacts
    <2>2. lock[TableOf(t)] = t BY <1>1, <1>4 DEF Knows
    <2> QED BY <1>4, <2>1, <2>2 DEF LoadHolds, TableOf
<1>5. CASE RetainStore(t) \/ Transcribe(t)
    <2>1. pc[t] \in {"retaining", "transcribe"} BY <1>5 DEF RetainStore, Retaining, Transcribe
    <2>2. RetainDone(t) BY <1>2, <1>5, <2>1 DEF RetainStore, Transcribe, Exclusive, Retaining
    <2>3. frame[t].try /\ Goto(t, "loaded", frame[t]) /\ UNCHANGED lock
        BY <1>3, <2>2 DEF RetainDone
    <2>4. Inside(t) BY <2>1, <2>3 DEF Inside
    <2> QED BY <1>4, <2>3, <2>4
<1>6. CASE RetainDeallocating(t)
    <2>1. frame[t].try /\ Goto(t, "loaded", frame[t]) /\ pc[t] = "retaining"
        BY <1>3, <1>6 DEF RetainDeallocating
    <2>2. CASE frame[t].locked
        <3>1. frame'[t] = frame[t] BY <1>1, <2>1, GotoFacts
        <3>2. isDeallocating(frame[t].old) BY <1>6 DEF RetainDeallocating
        <3> QED BY <2>2, <3>1, <3>2 DEF LoadHolds
    <2>3. CASE ~ frame[t].locked
        <3>1. UNCHANGED lock BY <1>6, <2>3 DEF RetainDeallocating
        <3>2. Inside(t) BY <2>1 DEF Inside
        <3> QED BY <1>4, <2>1, <3>1, <3>2
    <2> QED BY <2>2, <2>3
<1>7. CASE \/ RetainLoad(t) \/ RetainOverflow(t) \/ RetainLock(t) \/ RetainStoreHalf(t)
    BY <1>2, <1>7
    DEF RetainLoad, RetainOverflow, RetainLock, RetainStoreHalf, Retaining, Exclusive
<1>8. CASE \/ ReleaseLoad(t) \/ ReleaseStore(t) \/ ReleaseUnderflow(t) \/ ReleaseLock(t)
           \/ Borrow(t) \/ BorrowStore(t) \/ BorrowStoreAgain(t) \/ PutBack(t)
           \/ Dealloc(t) \/ ClearDeallocating(t) \/ Free(t)
    BY <1>2, <1>3, <1>8
    DEF ReleaseLoad, ReleaseStore, ReleaseUnderflow, ReleaseLock, Borrow, BorrowStore,
        BorrowStoreAgain, PutBack, Dealloc, ClearDeallocating, Free, Exclusive, ReleaseDone
<1>9. CASE \/ LoadLocation(t) \/ LoadLock(t) \/ LoadUnlock(t)
           \/ StoreLoad(t) \/ StoreLockFirst(t) \/ StoreLockSecond(t) \/ StoreRetry(t)
           \/ StoreRegister(t) \/ StoreMark(t) \/ StoreAssign(t)
    BY <1>2, <1>3, <1>9
    DEF LoadLocation, LoadLock, LoadUnlock, StoreLoad, StoreLockFirst, StoreLockSecond,
        StoreRetry, StoreRegister, StoreMark, StoreAssign, Exclusive, GotoMark
<1> QED BY <1>5, <1>6, <1>7, <1>8, <1>9 DEF Step

IUnlock == \A t \in Threads : LoadHolds(t)

LEMMA NextUnlock == IInv /\ CInv /\ IUnlock /\ [Next]_vars => IUnlock'
PROOF
<1> SUFFICES ASSUME IInv, CInv, IUnlock, [Next]_vars PROVE IUnlock' OBVIOUS
<1>1. CASE UNCHANGED vars BY <1>1 DEF vars, IUnlock, LoadHolds, TableOf
<1>2. ASSUME NEW t \in Threads, NEW u \in Threads \ {t},
             pc'[u] = pc[u], frame'[u] = frame[u],
             \A s \in Tables : (lock'[s] = u) <=> (lock[s] = u)
      PROVE  LoadHolds(u)'
    <2>1. LoadHolds(u) /\ TableOf(u) \in Tables BY TablesKnown DEF IUnlock
    <2>2. TableOf(u)' = TableOf(u) BY <1>2 DEF TableOf
    <2> QED BY <1>2, <2>1, <2>2 DEF LoadHolds
<1>3. ASSUME NEW t \in Threads, Call(t) PROVE IUnlock'
    <2>1. PICK place, f : Goto(t, place, f) /\ place \in {"retain", "release", "load", "store"}
        BY <1>3 DEF Call, Retain, Release, LoadWeakRetained, StoreWeak
    <2>2. UNCHANGED lock BY <1>3 DEF Call, Retain, Release, LoadWeakRetained, StoreWeak
    <2>3. pc'[t] = place BY <2>1, GotoFacts DEF IInv
    <2>4. \A u \in Threads \ {t} : pc'[u] = pc[u] /\ frame'[u] = frame[u]
        BY <2>1, GotoFacts DEF IInv
    <2>5. LoadHolds(t)' BY <2>1, <2>3 DEF LoadHolds
    <2> QED BY <1>2, <2>2, <2>4, <2>5 DEF IUnlock
<1>4. ASSUME NEW t \in Threads, Step(t) PROVE IUnlock'
    <2>1. TypeOK BY DEF IInv
    <2>2. \A u \in Threads \ {t} : pc'[u] = pc[u] /\ frame'[u] = frame[u]
        BY <1>4, <2>1, Goes, GotoFacts
    <2>3. Unlocks(t) BY <1>4, RetainUnlocks, ReleaseUnlocks, WeakUnlocks DEF Step
    <2>4. \A u \in Threads \ {t}, s \in Tables : (lock'[s] = u) <=> (lock[s] = u)
        BY <2>1, <2>3, LockFacts, UnlockFacts DEF Unlocks
    <2>5. LoadHolds(t)' BY <1>4, LoadsInside DEF LoadHolds
    <2> QED BY <1>2, <2>2, <2>4, <2>5 DEF IUnlock
<1> QED BY <1>1, <1>3, <1>4 DEF Next, Halted

\* An unlock of one's own tables halts nothing.
LEMMA OwnUnlock ==
    ASSUME NEW t \in Threads, NEW S, UnlockTables(t, S), \A s \in S : lock[s] = t
    PROVE  UNCHANGED aborted
PROOF BY DEF UnlockTables

LEMMA OnlyLoadHalts ==
    ASSUME IInv, CInv, IUnlock, ~ aborted, NEW t \in Threads, Step(t), aborted' # aborted
    PROVE  UnlocksAgain(t)
PROOF
<1>1. TypeOK /\ Holding(t) /\ Knows(t) /\ LoadHolds(t) BY DEF IInv, CInv, IUnlock
<1>2. ASSUME Inside(t), UnlockTables(t, {TableOf(t)}) PROVE FALSE
    BY <1>1, <1>2, OwnUnlock DEF Knows
<1>3. CASE \/ RetainLoad(t) \/ RetainDeallocating(t) \/ RetainOverflow(t) \/ RetainLock(t)
           \/ RetainStore(t) \/ RetainStoreHalf(t) \/ Transcribe(t)
    <2>1. UnlockTables(t, {TableOf(t)}) /\ frame[t].locked
          /\ pc[t] \in {"retaining", "transcribe"}
        BY <1>3
        DEF RetainLoad, RetainDeallocating, RetainOverflow, RetainLock, RetainStore,
            RetainStoreHalf, Transcribe, Exclusive, RetainDone, Retaining
    <2> QED BY <1>2, <2>1 DEF Inside
<1>4. CASE \/ ReleaseLoad(t) \/ ReleaseStore(t) \/ ReleaseUnderflow(t) \/ ReleaseLock(t)
           \/ Borrow(t) \/ BorrowStore(t) \/ BorrowStoreAgain(t) \/ PutBack(t)
           \/ Dealloc(t) \/ ClearDeallocating(t) \/ Free(t)
    <2>1. UnlockTables(t, {TableOf(t)}) /\ frame[t].locked
          /\ pc[t] \in {"releasing", "borrowed", "borrowed2"}
        BY <1>4
        DEF ReleaseLoad, ReleaseStore, ReleaseUnderflow, ReleaseLock, Borrow, BorrowStore,
            BorrowStoreAgain, PutBack, Dealloc, ClearDeallocating, Free, Exclusive,
            ReleaseDone
    <2> QED BY <1>2, <2>1 DEF Inside, AtReleasing
<1>5. CASE LoadUnlock(t)
    <2>1. pc[t] = "loaded" /\ lock[TableOf(t)] # t
        BY <1>5, OwnUnlock DEF LoadUnlock
    <2> QED BY <1>1, <2>1 DEF LoadHolds, UnlocksAgain
<1>6. CASE StoreRetry(t) \/ StoreAssign(t)
    <2>1. UnlockTables(t, StoreTables(t)) /\ pc[t] \in {"register", "assign"}
        BY <1>6 DEF StoreRetry, StoreAssign
    <2>2. \A s \in StoreTables(t) : lock[s] = t
        <3>1. Held(t) = StoreTables(t) BY <2>1 DEF Held, AtReleasing
        <3> QED BY <1>1, <2>1, <3>1, TablesKnown DEF Holding
    <2> QED BY <2>1, <2>2, OwnUnlock
<1>7. CASE StoreRegister(t)
    <2>1. frame[t].obj # nil /\ isDeallocating(isa[frame[t].obj])
        <3>1. aborted = FALSE BY <1>1 DEF TypeOK
        <3>2. aborted' # FALSE BY <3>1
        <3>3. aborted' = IF frame[t].obj = nil THEN FALSE ELSE isDeallocating(isa[frame[t].obj])
            BY <1>7 DEF StoreRegister
        <3>4. CASE frame[t].obj = nil BY <3>2, <3>3, <3>4
        <3>5. CASE frame[t].obj # nil
            <4>1. aborted' = isDeallocating(isa[frame[t].obj]) BY <3>3, <3>5
            <4>2. isDeallocating(isa[frame[t].obj]) \in BOOLEAN BY DEF isDeallocating
            <4> QED BY <3>2, <3>5, <4>1, <4>2
        <3> QED BY <3>4, <3>5
    <2>2. frame[t].obj \in Objects BY <1>1, <2>1 DEF TypeOK, Frames
    <2>3. refs[t][frame[t].obj] > 0 BY <1>1, <1>7, <2>1 DEF StoreRegister, Knows, Storing
    <2>4. Total(frame[t].obj) > 0 BY <2>2, <2>3, Owned
    <2> QED BY <2>1, <2>2, <2>4, DeallocatingUnowned
<1>8. CASE \/ LoadLocation(t) \/ LoadLock(t) \/ StoreLoad(t) \/ StoreLockFirst(t)
           \/ StoreLockSecond(t) \/ StoreMark(t)
    BY <1>8
    DEF LoadLocation, LoadLock, StoreLoad, StoreLockFirst, StoreLockSecond, StoreMark,
        Exclusive
<1> QED BY <1>3, <1>4, <1>5, <1>6, <1>7, <1>8 DEF Step

\* The only unlock of a side table by a thread that has not locked it is that of
\* a weak load whose retain took the slow path and then found the object
\* deallocating (objc-object.h:664, NSObject.mm:590); without it the process
\* would never halt, on any path of the functions modelled.
THEOREM OnlyUnlockingAgainHaltsHolds == Spec => OnlyUnlockingAgainHalts
PROOF
<1>1. Init => IUnlock BY DEF Init, IUnlock, LoadHolds
<1>2. CountInv /\ IUnlock /\ [Next]_vars => IUnlock' BY NextUnlock DEF CountInv
<1>3. ASSUME CountInv, IUnlock, [Next]_vars, aborted' # aborted
      PROVE  \E t \in Threads : UnlocksAgain(t)
    <2>1. ~ aborted /\ \E t \in Threads : Call(t) \/ Step(t)
        BY <1>3 DEF Next, Halted, vars
    <2>2. ASSUME NEW t \in Threads, Call(t) PROVE FALSE
        BY <1>3, <2>2 DEF Call, Retain, Release, LoadWeakRetained, StoreWeak
    <2> QED BY <1>3, <2>1, <2>2, OnlyLoadHalts DEF CountInv
<1>4. CountInv /\ IUnlock /\ [Next]_vars =>
          [aborted' # aborted => \E t \in Threads : UnlocksAgain(t)]_vars
    BY <1>3
<1> QED BY <1>1, <1>2, <1>4, CountInvariance, PTL DEF Spec, OnlyUnlockingAgainHalts

-----------------------------------------------------------------------------
(* ObjcRefcount implements RetainCount                                     *)

Counts == [o \in Objects |-> Count(o)]

LEMMA CountsAreTotals ==
    ASSUME CountInv, CountInv'
    PROVE  /\ Counts = [o \in Objects |-> Total(o)]
           /\ Counts' = [o \in Objects |-> Total(o)']
PROOF BY DEF Counts, CountInv, CInv, Balanced

LEMMA SameCounts ==
    ASSUME CountInv, CountInv', UNCHANGED refs PROVE Counts' = Counts
PROOF
<1>1. \A o \in Objects : Total(o)' = Total(o) BY RefsSame
<1> QED BY <1>1, CountsAreTotals

\* A reference more or less is a retain or a release of the object.
LEMMA CountedAs ==
    ASSUME CountInv, CountInv', NEW t \in Threads, UNCHANGED <<life, location>>,
           NEW o \in Objects, Total(o) > 0,
           Own(t, o) \/ (Disown(t, o) /\ refs[t][o] > 0)
    PROVE  Promised!Next
PROOF
<1>1. TypeOK /\ TypeOK' /\ CInv /\ IsFiniteSet(Refs(o))
    BY DEF CountInv, CInv, Balanced, IInv
<1>2. /\ Total(o)' = Total(o) + (IF Own(t, o) THEN 1 ELSE -1)
      /\ \A p \in Objects \ {o}, u \in Threads : refs'[u][p] = refs[u][p]
    <2>1. CASE Own(t, o) BY <1>1, <2>1, OneMore
    <2>2. CASE ~ Own(t, o)
        <3>1. Total(o)' = Total(o) - 1 BY <1>1, <2>2, OneLess
        <3>2. Total(o) \in Nat BY <1>1, BalanceFacts
        <3>3. \A p \in Objects \ {o}, u \in Threads : refs'[u][p] = refs[u][p]
            BY <1>1, <2>2, OneLess
        <3> QED BY <2>2, <3>1, <3>2, <3>3
    <2> QED BY <2>1, <2>2
<1>3. \A p \in Objects \ {o} : Total(p)' = Total(p) BY <1>2, RefsSame
<1>4. Counts[o] = Total(o) /\ Total(o) \in Nat BY <1>1, CountsAreTotals, BalanceFacts
<1>5. CASE Own(t, o)
    <2>1. Counts' = [Counts EXCEPT ![o] = @ + 1]
        BY <1>2, <1>3, <1>5, CountsAreTotals
    <2>2. Promised!Retain(o) BY <1>4, <2>1 DEF Promised!Retain, Counts
    <2> QED BY <2>2 DEF Promised!Next, Promised!Counting
<1>6. CASE ~ Own(t, o)
    <2>1. Total(o)' = Total(o) - 1 BY <1>2, <1>4, <1>6
    <2>2. Counts' = [Counts EXCEPT ![o] = @ - 1] BY <1>3, <2>1, CountsAreTotals
    <2>3. Promised!Release(o) BY <1>4, <2>2 DEF Promised!Release, Counts
    <2> QED BY <2>3 DEF Promised!Next, Promised!Counting
<1> QED BY <1>5, <1>6

\* Most steps count nothing, end no object and assign no variable.
LEMMA Stutters ==
    ASSUME CountInv, CountInv', UNCHANGED <<refs, life, location>>
    PROVE  UNCHANGED Promised!vars
PROOF BY SameCounts DEF Promised!vars, Counts

LEMMA PlainStepsPromise ==
    ASSUME CountInv, CountInv', NEW t \in Threads,
           \/ Call(t)
           \/ RetainLoad(t) \/ RetainDeallocating(t) \/ RetainOverflow(t) \/ RetainLock(t)
           \/ Transcribe(t)
           \/ ReleaseLoad(t) \/ ReleaseUnderflow(t) \/ ReleaseLock(t) \/ Borrow(t) \/ PutBack(t)
           \/ LoadLocation(t) \/ LoadLock(t) \/ LoadUnlock(t)
           \/ StoreLoad(t) \/ StoreLockFirst(t) \/ StoreLockSecond(t) \/ StoreRetry(t)
           \/ StoreRegister(t) \/ StoreMark(t)
    PROVE  UNCHANGED Promised!vars
PROOF
<1>1. CASE Call(t)
    BY <1>1, Stutters
    DEF Call, Retain, Release, LoadWeakRetained, StoreWeak, tables, client
<1>2. CASE RetainLoad(t) \/ RetainDeallocating(t) \/ RetainOverflow(t) \/ RetainLock(t)
           \/ Transcribe(t)
    BY <1>2, Stutters
    DEF RetainLoad, RetainDeallocating, RetainOverflow, RetainLock, Transcribe, tables, client
<1>3. CASE ReleaseLoad(t) \/ ReleaseUnderflow(t) \/ ReleaseLock(t) \/ Borrow(t) \/ PutBack(t)
    BY <1>3, Stutters
    DEF ReleaseLoad, ReleaseUnderflow, ReleaseLock, Borrow, PutBack, tables, client
<1>4. CASE LoadLocation(t) \/ LoadLock(t) \/ LoadUnlock(t)
    BY <1>4, Stutters DEF LoadLocation, LoadLock, LoadUnlock, tables, client
<1>5. CASE StoreLoad(t) \/ StoreLockFirst(t) \/ StoreLockSecond(t) \/ StoreRetry(t)
           \/ StoreRegister(t) \/ StoreMark(t)
    BY <1>5, Stutters
    DEF StoreLoad, StoreLockFirst, StoreLockSecond, StoreRetry, StoreRegister, StoreMark,
        Exclusive, tables, client
<1> QED BY <1>1, <1>2, <1>3, <1>4, <1>5

LEMMA CountingStepsPromise ==
    ASSUME CountInv, CountInv', NEW t \in Threads,
           \/ RetainStore(t) \/ RetainStoreHalf(t)
           \/ ReleaseStore(t) \/ BorrowStore(t) \/ BorrowStoreAgain(t)
    PROVE  Promised!Next \/ UNCHANGED Promised!vars
PROOF
<1>1. IInv /\ CInv BY DEF CountInv
<1>2. UNCHANGED <<life, location>>
    BY DEF RetainStore, RetainStoreHalf, ReleaseStore, BorrowStore, BorrowStoreAgain, tables
<1>3. PICK o \in Objects : o = frame[t].obj
    BY <1>1 DEF RetainStore, RetainStoreHalf, Retaining, ReleaseStore, BorrowStore,
                BorrowStoreAgain, IInv, Local, AtObject
<1>4. CASE UNCHANGED refs BY <1>2, <1>4, Stutters
<1>5. CASE RetainStore(t) \/ RetainStoreHalf(t)
    <2>1. SUFFICES ASSUME ~ UNCHANGED refs PROVE Promised!Next BY <1>4
    <2>2. Own(t, o) /\ isa[o] = frame[t].old
        BY <1>3, <1>5, <2>1 DEF RetainStore, RetainStoreHalf, Exclusive
    <2>3. ~ isDeallocating(isa[o])
        BY <1>5, <2>2 DEF RetainStore, RetainStoreHalf, Retaining
    <2> QED BY <1>1, <1>2, <2>2, <2>3, NotDeallocating, CountedAs
<1>6. CASE ReleaseStore(t) \/ BorrowStore(t) \/ BorrowStoreAgain(t)
    <2>1. SUFFICES ASSUME ~ UNCHANGED refs PROVE Promised!Next BY <1>4
    <2>2. Disown(t, o)
        BY <1>3, <1>6, <2>1
        DEF ReleaseStore, BorrowStore, BorrowStoreAgain, Exclusive, ReleaseDone
    <2>3. refs[t][o] > 0
        BY <1>1, <1>3, <1>6
        DEF IInv, Local, AtReleasing, ReleaseStore, BorrowStore, BorrowStoreAgain
    <2> QED BY <1>1, <1>2, <2>2, <2>3, Owned, CountedAs
<1> QED BY <1>5, <1>6

LEMMA LastStepsPromise ==
    ASSUME CountInv, CountInv', NEW t \in Threads,
           Dealloc(t) \/ ClearDeallocating(t) \/ Free(t) \/ StoreAssign(t)
    PROVE  Promised!Next
PROOF
<1>1. IInv /\ IWeak /\ CInv /\ TypeOK /\ TypeOK' /\ Ends(t) /\ Knows(t)
    BY DEF CountInv, CInv, IInv
<1>2. UNCHANGED refs /\ Counts' = Counts
    BY SameCounts DEF Dealloc, ClearDeallocating, Free, StoreAssign, client
<1>3. CASE Dealloc(t)
    <2>1. PICK o \in Objects : o = frame[t].obj BY <1>1, <1>3 DEF Dealloc, IInv, Local, AtObject
    <2>2. Total(o) = 0 /\ life[o] = "live" BY <1>1, <1>3, <2>1 DEF Dealloc, Ends, Dying
    <2>3. Counts[o] = 0 BY <2>2, CountsAreTotals
    <2>4. Promised!Dealloc(o) BY <1>3, <2>1, <2>2, <2>3 DEF Dealloc, Promised!Dealloc, Counts
    <2>5. UNCHANGED location BY <1>3 DEF Dealloc, tables
    <2> QED BY <1>2, <2>4, <2>5 DEF Promised!Next, Promised!Dying, Counts
<1>4. CASE Free(t)
    <2>1. PICK o \in Objects : o = frame[t].obj BY <1>1, <1>4 DEF Free, IInv, Local, AtObject
    <2>2. life[o] = "deallocating" /\ \A l \in Locations : location[l] # o
        BY <1>1, <1>4, <2>1, FreeUnheld
    <2>3. Promised!Free(o) BY <1>4, <2>1, <2>2 DEF Free, Promised!Free
    <2>4. UNCHANGED location BY <1>4 DEF Free, tables
    <2> QED BY <1>2, <2>3, <2>4 DEF Promised!Next, Promised!Dying, Counts
<1>5. CASE ClearDeallocating(t)
    <2>1. PICK o \in Objects : o = frame[t].obj
        BY <1>1, <1>5 DEF ClearDeallocating, IInv, Local, AtObject
    <2>2. life[o] = "deallocating" BY <1>1, <1>5, <2>1 DEF ClearDeallocating, Ends, Dying
    <2>3. \A l \in Locations : location'[l] = IF location[l] = o THEN nil ELSE location[l]
        BY <1>1, <1>5, <2>1, ClearsAll
    <2>4. location' = [l \in Locations |-> IF location[l] = o THEN nil ELSE location[l]]
        BY <1>1, <2>3 DEF TypeOK
    <2>5. Promised!Zero(o) BY <2>2, <2>4 DEF Promised!Zero
    <2>6. UNCHANGED life BY <1>5 DEF ClearDeallocating, client
    <2> QED BY <1>2, <2>5, <2>6 DEF Promised!Next, Promised!Weakly, Counts
<1>6. CASE StoreAssign(t)
    <2>1. frame[t].loc \in Locations /\ frame[t].obj \in Objects \cup {nil}
        BY <1>1, <1>6, MidwayFacts DEF StoreAssign, Midway
    <2>2. ASSUME NEW o \in Objects, o = frame[t].obj PROVE Counts[o] > 0
        <3>1. refs[t][o] > 0
            BY <1>1, <1>6, <2>2, NilAssumption DEF StoreAssign, Knows, Storing
        <3>2. Total(o) > 0 BY <1>1, <3>1, Owned
        <3> QED BY <3>2, CountsAreTotals
    <2>3. location' = [location EXCEPT ![frame[t].loc] = frame[t].obj]
        BY <1>6 DEF StoreAssign
    <2>4. Promised!Assign(frame[t].loc, frame[t].obj)
        BY <2>1, <2>2, <2>3 DEF Promised!Assign, Counts
    <2>5. UNCHANGED life BY <1>6 DEF StoreAssign, client
    <2> QED BY <1>2, <2>1, <2>4, <2>5 DEF Promised!Next, Promised!Weakly, Counts
<1> QED BY <1>3, <1>4, <1>5, <1>6

LEMMA InitPromises == Init => Promised!Init
PROOF
<1> SUFFICES ASSUME Init PROVE Promised!Init OBVIOUS
<1>1. TypeOK BY InitIInv DEF IInv
<1>2. ASSUME NEW o \in Objects PROVE Count(o) = 1
    <2>1. isa[o].extra_rc = 1 /\ refcnts[o] = 0 BY DEF Init
    <2>2. InTransit(o) = 0 BY <1>1, StripesAreTables, TransitFacts DEF Init
    <2> QED BY <2>1, <2>2 DEF Count
<1> QED BY <1>2 DEF Init, Promised!Init

\* A step of a thread in rootRetain, rootRelease, objc_storeWeak or a
\* deallocation is a step of the count and the weak variables that clients see,
\* or none: a half range on its way between the isa and the table shows in no
\* count, dealloc is sent once, and memory goes when no weak variable holds it.
THEOREM RefinesRetainCountHolds == Spec => RefinesRetainCount
PROOF
<1>1. ASSUME CountInv, CountInv', [Next]_vars
      PROVE  Promised!Next \/ UNCHANGED Promised!vars
    <2>1. CASE UNCHANGED vars
        BY <1>1, <2>1, Stutters DEF vars, tables, client
    <2>2. ASSUME NEW t \in Threads, Call(t)
          PROVE  Promised!Next \/ UNCHANGED Promised!vars
        BY <1>1, <2>2, PlainStepsPromise
    <2>3. ASSUME NEW t \in Threads, Step(t)
          PROVE  Promised!Next \/ UNCHANGED Promised!vars
        BY <1>1, <2>3, PlainStepsPromise, CountingStepsPromise, LastStepsPromise DEF Step
    <2> QED BY <1>1, <2>1, <2>2, <2>3 DEF Next, Halted
<1>2. CountInv /\ CountInv' /\ [Next]_vars => [Promised!Next]_(Promised!vars) BY <1>1
<1> QED
    BY <1>2, InitPromises, CountInvariance, PTL DEF Spec, RefinesRetainCount, Promised!Spec
=============================================================================
