------------------------ MODULE ObjcInitializeProofs ------------------------
(***************************************************************************)
(* Theorems about the thread-safe +initialize of ObjcInitialize, for any   *)
(* threads, callbacks, class hierarchy and any messages that +initialize   *)
(* methods send.                                                           *)
(***************************************************************************)
EXTENDS ObjcInitialize, SequenceTheorems, WellFoundedInduction, TLAPS

\* The inductive invariant.

\* The frame is that of the +initialize of its class.
Owns(frame) == frame.pc \in {"start", "body"}

\* A message to c would not wait: see DoneMeansUsable.
Usable(t, c) == state[c] = "initialized" \/ c \in initializing[t]

\* Below the top a thread is in a +initialize method, or in the call that
\* initializes the superclass first.
Nested(t) ==
    \A i \in 1..(Len(stack[t]) - 1) :
        \/ stack[t][i].pc = "body"
        \/ /\ stack[t][i].pc = "set"
           /\ Super[stack[t][i].cls] # nil
           /\ stack[t][i + 1].cls = Super[stack[t][i].cls]

\* A thread that tries to set CLS_INITIALIZING has a usable superclass.
SuperDone(t) ==
    At(t, "set") => Super[Top(t).cls] = nil \/ Usable(t, Super[Top(t).cls])

\* What an activation has learned about its class stays true.
FrameOK(t, frame) ==
    /\ Owns(frame) => frame.cls \in initializing[t]
    /\ frame.pc \in {"test", "wait", "waiting"} => state[frame.cls] # "none"
    /\ frame.pc = "retest" => state[frame.cls] = "initialized"
    /\ frame.funcs \subseteq willInitializeFuncs
FramesOK(t) == \A i \in DOMAIN stack[t] : FrameOK(t, stack[t][i])

\* One activation of a thread sends +initialize to a class.
OneOwner(t) ==
    \A i, j \in DOMAIN stack[t] :
        Owns(stack[t][i]) /\ Owns(stack[t][j]) /\ stack[t][i].cls = stack[t][j].cls => i = j

StackOK(t) == Nested(t) /\ SuperDone(t) /\ FramesOK(t) /\ OneOwner(t)
Stacks == \A t \in Threads : StackOK(t)

\* Only subclasses are pending for a class, while it is being initialized.
PendingOK ==
    \A s \in Classes : \A d \in pending[s] : Super[d] = s /\ state[s] = "initializing"

\* The class begins, and +initialize is not sent yet.
Starting(c) == \E t \in Threads : \E i \in DOMAIN stack[t] :
    stack[t][i].cls = c /\ stack[t][i].pc = "start"
StartedExact ==
    \A c \in Classes : started[c] = IF state[c] = "none" \/ Starting(c) THEN 0 ELSE 1

\* A callback that is not registered has not been called.
Unregistered ==
    \A f \in Callbacks \ willInitializeFuncs :
        toNotify[f] = {} /\ \A c \in Classes : notified[f][c] = 0

\* Each class that is being initialized is in the list of one thread.
Listed ==
    \A c \in Classes :
        /\ (state[c] = "initializing") = (\E t \in Threads : c \in initializing[t])
        /\ \A t, u \in Threads : c \in initializing[t] /\ c \in initializing[u] => t = u

Flags == Listed /\ ContiguousSubtree /\ SuperclassFirst
Pendings == PendingOK /\ PendingExact
Counts == StartedExact /\ Unregistered /\ NotifiedOnce

IInv == TypeOK /\ NoFatal /\ Flags /\ Stacks /\ Pendings /\ Counts

-----------------------------------------------------------------------------
(* The class hierarchy                                                     *)

LEMMA AncestorsClosed ==
    ASSUME NEW c \in Classes
    PROVE  Ancestors[c] \subseteq Classes /\ Upward(c, Ancestors[c])
PROOF
<1>1. Ancestors[c] = {d \in Classes : \A S \in SUBSET Classes : Upward(c, S) => d \in S}
    BY DEF Ancestors
<1>2. \A e \in Ancestors[c] \cup {c} : Super[e] # nil => Super[e] \in Ancestors[c]
    BY <1>1, SuperAssumption DEF Upward
<1> QED BY <1>1, <1>2 DEF Upward

\* Induction up the hierarchy.
LEMMA AncestorsLeast ==
    ASSUME NEW c \in Classes, NEW S \in SUBSET Classes, Upward(c, S)
    PROVE  Ancestors[c] \subseteq S
PROOF BY DEF Ancestors

LEMMA AncestorsUnfold ==
    ASSUME NEW c \in Classes
    PROVE  Ancestors[c] = IF Super[c] = nil THEN {} ELSE {Super[c]} \cup Ancestors[Super[c]]
PROOF
<1>1. CASE Super[c] = nil
    <2>1. Upward(c, {}) BY <1>1 DEF Upward
    <2> QED BY <1>1, <2>1, AncestorsLeast
<1>2. CASE Super[c] # nil
    <2> DEFINE s == Super[c]
    <2>1. s \in Classes BY <1>2, SuperAssumption
    <2>2. Upward(s, Ancestors[s]) /\ Ancestors[s] \subseteq Classes BY <2>1, AncestorsClosed
    <2>3. Upward(c, Ancestors[c]) /\ Ancestors[c] \subseteq Classes BY AncestorsClosed
    <2>4. Upward(c, {s} \cup Ancestors[s]) BY <2>2 DEF Upward
    <2>5. Ancestors[c] \subseteq {s} \cup Ancestors[s] BY <2>1, <2>2, <2>4, AncestorsLeast
    <2>6. s \in Ancestors[c] BY <1>2, <2>3 DEF Upward
    <2>7. Upward(s, Ancestors[c]) BY <2>3, <2>6 DEF Upward
    <2>8. Ancestors[s] \subseteq Ancestors[c] BY <2>1, <2>3, <2>7, AncestorsLeast
    <2> QED BY <1>2, <2>5, <2>6, <2>8
<1> QED BY <1>1, <1>2

LEMMA AncestorsTransitive ==
    ASSUME NEW d \in Classes, NEW c \in Ancestors[d]
    PROVE  Ancestors[c] \subseteq Ancestors[d]
PROOF
<1>1. Upward(d, Ancestors[d]) /\ Ancestors[d] \subseteq Classes BY AncestorsClosed
<1>2. Upward(c, Ancestors[d]) BY <1>1 DEF Upward
<1> QED BY <1>1, <1>2, AncestorsLeast

-----------------------------------------------------------------------------
(* What a step does to the frames of a thread                              *)

LEMMA TopFacts ==
    ASSUME TypeOK, NEW t \in Threads, Active(t)
    PROVE  /\ stack[t] \in Seq(Frames)
           /\ Len(stack[t]) \in Nat \ {0}
           /\ DOMAIN stack[t] = 1..Len(stack[t])
           /\ Len(stack[t]) \in DOMAIN stack[t]
           /\ Top(t) \in Frames /\ Top(t).cls \in Classes
           /\ Below(t) \in Seq(Frames)
           /\ Len(Below(t)) = Len(stack[t]) - 1
           /\ \A i \in 1..(Len(stack[t]) - 1) : Below(t)[i] = stack[t][i]
PROOF
<1> DEFINE s == stack[t]
           n == Len(s)
<1>1. s \in Seq(Frames) BY DEF TypeOK
<1>2. n \in Nat \ {0} BY <1>1, EmptySeq DEF Active
<1>3. DOMAIN s = 1..n BY <1>1, LenProperties
<1>4. \A i \in 1..n : s[i] \in Frames BY <1>1, ElementOfSeq
<1>5. Top(t) \in Frames BY <1>2, <1>4 DEF Top
<1>6. Top(t).cls \in Classes BY <1>5 DEF Frames
<1>7. \A i \in 1..(n - 1) : s[i] \in Frames BY <1>2, <1>4
<1>8. /\ SubSeq(s, 1, n - 1) \in Seq(Frames)
      /\ Len(SubSeq(s, 1, n - 1)) = IF 1 <= n - 1 THEN (n - 1) - 1 + 1 ELSE 0
      /\ \A i \in 1..((n - 1) - 1 + 1) : SubSeq(s, 1, n - 1)[i] = s[1 + i - 1]
    BY <1>2, <1>7, SubSeqProperties
<1> HIDE DEF s, n
<1>9. Len(SubSeq(s, 1, n - 1)) = n - 1 /\ \A i \in 1..(n - 1) : SubSeq(s, 1, n - 1)[i] = s[i]
    BY <1>2, <1>8
<1> QED BY <1>1, <1>2, <1>3, <1>5, <1>6, <1>8, <1>9 DEF Below, s, n

LEMMA BecomeFacts ==
    ASSUME TypeOK, NEW t \in Threads, Active(t), NEW frame \in Frames, Become(t, frame)
    PROVE  /\ stack' \in [Threads -> Seq(Frames)]
           /\ Len(stack'[t]) = Len(stack[t])
           /\ stack'[t][Len(stack[t])] = frame
           /\ \A i \in 1..(Len(stack[t]) - 1) : stack'[t][i] = stack[t][i]
           /\ \A u \in Threads \ {t} : stack'[u] = stack[u]
PROOF
<1> DEFINE b == Below(t)
           n == Len(stack[t])
<1>1. n \in Nat \ {0} /\ b \in Seq(Frames) /\ Len(b) = n - 1
      /\ \A i \in 1..(n - 1) : b[i] = stack[t][i]
    BY TopFacts
<1>2. stack' = [stack EXCEPT ![t] = b \o <<frame>>] BY DEF Become
<1>3. <<frame>> \in Seq(Frames) /\ Len(<<frame>>) = 1 /\ <<frame>>[1] = frame OBVIOUS
<1> HIDE DEF b, n
<1>4. /\ b \o <<frame>> \in Seq(Frames)
      /\ Len(b \o <<frame>>) = n
      /\ \A i \in 1..n : (b \o <<frame>>)[i] = IF i <= n - 1 THEN b[i] ELSE <<frame>>[i - (n - 1)]
    BY <1>1, <1>3, ConcatProperties
<1>5. (b \o <<frame>>)[n] = frame BY <1>1, <1>3, <1>4
<1>6. \A i \in 1..(n - 1) : (b \o <<frame>>)[i] = stack[t][i] BY <1>1, <1>4
<1>7. stack'[t] = b \o <<frame>> BY <1>2 DEF TypeOK
<1>8. stack' \in [Threads -> Seq(Frames)] BY <1>2, <1>4 DEF TypeOK
<1>9. \A u \in Threads \ {t} : stack'[u] = stack[u] BY <1>2 DEF TypeOK
<1> QED BY <1>4, <1>5, <1>6, <1>7, <1>8, <1>9 DEF n

LEMMA EnterFacts ==
    ASSUME TypeOK, NEW t \in Threads, Active(t), NEW frame \in Frames, NEW c \in Classes,
           Enter(t, frame, c)
    PROVE  /\ stack' \in [Threads -> Seq(Frames)]
           /\ Len(stack'[t]) = Len(stack[t]) + 1
           /\ stack'[t][Len(stack[t])] = frame
           /\ stack'[t][Len(stack[t]) + 1] = Frame(c)
           /\ \A i \in 1..(Len(stack[t]) - 1) : stack'[t][i] = stack[t][i]
           /\ \A u \in Threads \ {t} : stack'[u] = stack[u]
PROOF
<1> DEFINE b == Below(t)
           n == Len(stack[t])
           r == <<frame, Frame(c)>>
<1>1. n \in Nat \ {0} /\ b \in Seq(Frames) /\ Len(b) = n - 1
      /\ \A i \in 1..(n - 1) : b[i] = stack[t][i]
    BY TopFacts
<1>2. stack' = [stack EXCEPT ![t] = b \o r] BY DEF Enter
<1>a. Frame(c) \in Frames BY DEF Frame, Frames, Places
<1>3. r \in Seq(Frames) /\ Len(r) = 2 /\ r[1] = frame /\ r[2] = Frame(c) BY <1>a
<1> HIDE DEF b, n, r
<1>b. /\ b \o r \in Seq(Frames)
      /\ Len(b \o r) = Len(b) + Len(r)
      /\ \A i \in 1..(Len(b) + Len(r)) :
             (b \o r)[i] = IF i <= Len(b) THEN b[i] ELSE r[i - Len(b)]
    BY <1>1, <1>3, ConcatProperties
<1>c. Len(b) + Len(r) = n + 1 BY <1>1, <1>3
<1>4. /\ b \o r \in Seq(Frames)
      /\ Len(b \o r) = n + 1
      /\ \A i \in 1..(n + 1) : (b \o r)[i] = IF i <= n - 1 THEN b[i] ELSE r[i - (n - 1)]
    BY <1>1, <1>b, <1>c
<1>5. (b \o r)[n] = frame /\ (b \o r)[n + 1] = Frame(c) BY <1>1, <1>3, <1>4
<1>6. \A i \in 1..(n - 1) : (b \o r)[i] = stack[t][i] BY <1>1, <1>4
<1>7. stack'[t] = b \o r BY <1>2 DEF TypeOK
<1>8. stack' \in [Threads -> Seq(Frames)] BY <1>2, <1>4 DEF TypeOK
<1>9. \A u \in Threads \ {t} : stack'[u] = stack[u] BY <1>2 DEF TypeOK
<1> QED BY <1>4, <1>5, <1>6, <1>7, <1>8, <1>9 DEF n

LEMMA ReturnFacts ==
    ASSUME TypeOK, NEW t \in Threads, Active(t), Return(t)
    PROVE  /\ stack' \in [Threads -> Seq(Frames)]
           /\ Len(stack'[t]) = Len(stack[t]) - 1
           /\ \A i \in 1..(Len(stack[t]) - 1) : stack'[t][i] = stack[t][i]
           /\ \A u \in Threads \ {t} : stack'[u] = stack[u]
PROOF
<1>1. stack' = [stack EXCEPT ![t] = Below(t)] BY DEF Return
<1>2. Below(t) \in Seq(Frames) /\ stack'[t] = Below(t) BY <1>1, TopFacts DEF TypeOK
<1> QED BY <1>1, <1>2, TopFacts DEF TypeOK

-----------------------------------------------------------------------------
(* Steps that leave the flags and the owners of the classes as they are    *)

flags == <<state, initializing, pending, registry, started, notified>>

\* The frames that own a class are the same, in the same places.
SameOwners(t) ==
    \A i \in Nat :
        /\ (i \in DOMAIN stack'[t] /\ Owns(stack'[t][i])) = (i \in DOMAIN stack[t] /\ Owns(stack[t][i]))
        /\ i \in DOMAIN stack[t] /\ Owns(stack[t][i]) =>
               /\ stack'[t][i].cls = stack[t][i].cls
               /\ stack'[t][i].pc = stack[t][i].pc
               /\ stack'[t][i].funcs = stack[t][i].funcs

LEMMA Domains ==
    ASSUME TypeOK, NEW t \in Threads
    PROVE  /\ Len(stack[t]) \in Nat
           /\ DOMAIN stack[t] = 1..Len(stack[t])
           /\ \A i \in DOMAIN stack[t] : stack[t][i] \in Frames /\ stack[t][i].cls \in Classes
PROOF
<1>1. stack[t] \in Seq(Frames) BY DEF TypeOK
<1>2. Len(stack[t]) \in Nat /\ DOMAIN stack[t] = 1..Len(stack[t]) BY <1>1, LenProperties
<1>3. \A i \in DOMAIN stack[t] : stack[t][i] \in Frames BY <1>1, <1>2, ElementOfSeq
<1> QED BY <1>2, <1>3 DEF Frames

LEMMA DomainsPrime ==
    ASSUME stack' \in [Threads -> Seq(Frames)], NEW t \in Threads
    PROVE  /\ Len(stack'[t]) \in Nat
           /\ DOMAIN stack'[t] = 1..Len(stack'[t])
           /\ \A i \in DOMAIN stack'[t] : stack'[t][i] \in Frames /\ stack'[t][i].cls \in Classes
PROOF
<1>1. stack'[t] \in Seq(Frames) OBVIOUS
<1>2. Len(stack'[t]) \in Nat /\ DOMAIN stack'[t] = 1..Len(stack'[t]) BY <1>1, LenProperties
<1>3. \A i \in DOMAIN stack'[t] : stack'[t][i] \in Frames BY <1>1, <1>2, ElementOfSeq
<1> QED BY <1>2, <1>3 DEF Frames

LEMMA QuietKeeps ==
    ASSUME IInv, NEW t \in Threads, UNCHANGED flags, fatal' = FALSE,
           stack' \in [Threads -> Seq(Frames)],
           \A u \in Threads \ {t} : stack'[u] = stack[u],
           SameOwners(t), (Nested(t) /\ SuperDone(t) /\ FramesOK(t))'
    PROVE  IInv'
PROOF
<1>0. TypeOK /\ UNCHANGED <<state, initializing, pending, willInitializeFuncs, toNotify,
                            started, notified>>
    BY DEF IInv, flags, registry
<1>1. TypeOK' BY <1>0 DEF TypeOK, NoFatal, IInv
<1>2. NoFatal' BY DEF NoFatal
<1>3. Flags'
    BY <1>0 DEF IInv, Flags, Listed, ContiguousSubtree, SuperclassFirst
<1>4. ASSUME NEW u \in Threads PROVE StackOK(u)'
    <2>1. CASE u # t
        <3>1. stack'[u] = stack[u] BY <2>1
        <3>2. StackOK(u) BY DEF IInv, Stacks
        <3> QED BY <1>0, <3>1, <3>2
            DEF StackOK, Nested, SuperDone, FramesOK, FrameOK, OneOwner, Usable, At, Top, Active
    <2>2. CASE u = t
        <3>1. OneOwner(t) BY DEF IInv, Stacks, StackOK
        <3>2. DOMAIN stack'[t] \subseteq Nat BY DomainsPrime
        <3>3. OneOwner(t)' BY <3>1, <3>2 DEF OneOwner, SameOwners
        <3> QED BY <2>2, <3>3 DEF StackOK
    <2> QED BY <2>1, <2>2
<1>5. \A u \in Threads, i \in Nat :
        /\ (i \in DOMAIN stack'[u] /\ Owns(stack'[u][i])) = (i \in DOMAIN stack[u] /\ Owns(stack[u][i]))
        /\ i \in DOMAIN stack[u] /\ Owns(stack[u][i]) =>
               /\ stack'[u][i].cls = stack[u][i].cls
               /\ stack'[u][i].pc = stack[u][i].pc
               /\ stack'[u][i].funcs = stack[u][i].funcs
    BY DEF SameOwners
<1>6. \A u \in Threads : DOMAIN stack[u] \subseteq Nat /\ DOMAIN stack'[u] \subseteq Nat
    BY <1>0, Domains, DomainsPrime
<1>7. \A c \in Classes : InBody(c)' = InBody(c) BY <1>5, <1>6 DEF InBody, Owns
<1>8. Pendings'
    BY <1>0, <1>7 DEF IInv, Pendings, PendingOK, PendingExact
<1>9. ASSUME NEW c \in Classes PROVE Starting(c)' = Starting(c)
    <2>1. Starting(c) => Starting(c)' BY <1>5, <1>6 DEF Starting, Owns
    <2>2. Starting(c)' => Starting(c) BY <1>5, <1>6 DEF Starting, Owns
    <2> QED BY <2>1, <2>2 DEF Starting
<1>10. Counts'
    <2>1. StartedExact' /\ Unregistered'
        BY <1>0, <1>9 DEF IInv, Counts, StartedExact, Unregistered
    <2>2. ASSUME NEW f \in willInitializeFuncs, NEW c \in Classes
          PROVE  AboutToNotify(f, c)' = AboutToNotify(f, c)
        <3>1. AboutToNotify(f, c) => AboutToNotify(f, c)'
            BY <1>5, <1>6 DEF AboutToNotify, Owns
        <3>2. AboutToNotify(f, c)' => AboutToNotify(f, c)
            BY <1>5, <1>6 DEF AboutToNotify, Owns
        <3> QED BY <3>1, <3>2 DEF AboutToNotify
    <2>3. NotifiedOnce' BY <1>0, <2>2 DEF IInv, Counts, NotifiedOnce
    <2> QED BY <2>1, <2>3 DEF Counts
<1> QED BY <1>1, <1>2, <1>3, <1>4, <1>8, <1>10 DEF IInv, Stacks

\* The top frame goes on.
LEMMA QuietBecome ==
    ASSUME IInv, NEW t \in Threads, UNCHANGED flags, fatal' = FALSE, Active(t),
           NEW frame \in Frames, Become(t, frame),
           frame.cls = Top(t).cls, FrameOK(t, frame),
           frame.pc = "set" => Super[frame.cls] = nil \/ Usable(t, Super[frame.cls]),
           Owns(frame) \/ Owns(Top(t)) => frame.pc = Top(t).pc /\ frame.funcs = Top(t).funcs
    PROVE  IInv'
PROOF
<1> DEFINE n == Len(stack[t])
<1>0. TypeOK /\ StackOK(t) BY DEF IInv, Stacks
<1>1. /\ stack' \in [Threads -> Seq(Frames)]
      /\ Len(stack'[t]) = n /\ stack'[t][n] = frame
      /\ \A i \in 1..(n - 1) : stack'[t][i] = stack[t][i]
      /\ \A u \in Threads \ {t} : stack'[u] = stack[u]
    BY <1>0, BecomeFacts
<1>2. n \in Nat \ {0} /\ DOMAIN stack[t] = 1..n /\ DOMAIN stack'[t] = 1..n
      /\ Top(t) = stack[t][n]
    BY <1>0, <1>1, TopFacts, DomainsPrime DEF Top
<1> HIDE DEF n
<1>3. SameOwners(t) BY <1>1, <1>2 DEF SameOwners, Owns
<1>4. Nested(t)'
    <2>1. ASSUME NEW i \in 1..(n - 1)
          PROVE  stack'[t][i].pc = stack[t][i].pc /\ stack'[t][i].cls = stack[t][i].cls
                 /\ stack'[t][i + 1].cls = stack[t][i + 1].cls
        BY <1>1, <1>2
    <2> QED BY <1>0, <1>1, <2>1 DEF StackOK, Nested, n
<1>5. SuperDone(t)'
    BY <1>1, <1>2 DEF SuperDone, At, Top, Usable, flags
<1>6. FramesOK(t)'
    <2>1. \A i \in 1..n : stack'[t][i] = frame \/ stack'[t][i] = stack[t][i] BY <1>1, <1>2
    <2> QED BY <1>0, <1>2, <2>1 DEF StackOK, FramesOK, FrameOK, flags, registry
<1> QED BY <1>1, <1>3, <1>4, <1>5, <1>6, QuietKeeps

\* The top frame calls.
LEMMA EnterStack ==
    ASSUME IInv, NEW t \in Threads, UNCHANGED <<state, initializing, willInitializeFuncs>>,
           Active(t), NEW frame \in Frames, NEW c \in Classes, Enter(t, frame, c),
           frame.cls = Top(t).cls, FrameOK(t, frame),
           frame.pc = "body" \/ (frame.pc = "set" /\ Super[frame.cls] = c)
    PROVE  (Nested(t) /\ SuperDone(t) /\ FramesOK(t))'
PROOF
<1> DEFINE n == Len(stack[t])
<1>0. TypeOK /\ StackOK(t) BY DEF IInv, Stacks
<1>1. /\ stack' \in [Threads -> Seq(Frames)]
      /\ Len(stack'[t]) = n + 1 /\ stack'[t][n] = frame /\ stack'[t][n + 1] = Frame(c)
      /\ \A i \in 1..(n - 1) : stack'[t][i] = stack[t][i]
      /\ \A u \in Threads \ {t} : stack'[u] = stack[u]
    BY <1>0, EnterFacts
<1>2. n \in Nat \ {0} /\ DOMAIN stack[t] = 1..n /\ DOMAIN stack'[t] = 1..(n + 1)
      /\ Top(t) = stack[t][n]
    BY <1>0, <1>1, TopFacts, DomainsPrime DEF Top
<1>a. Frame(c).pc = "super" /\ Frame(c).cls = c /\ Frame(c).funcs = {} BY DEF Frame
<1> HIDE DEF n
<1>4. Nested(t)'
    <2>1. ASSUME NEW i \in 1..(n - 1)
          PROVE  stack'[t][i].pc = stack[t][i].pc /\ stack'[t][i].cls = stack[t][i].cls
                 /\ stack'[t][i + 1].cls = stack[t][i + 1].cls
        <3>1. i + 1 = n \/ i + 1 \in 1..(n - 1) BY <1>2
        <3> QED BY <1>1, <1>2, <3>1
    <2>2. c # nil BY SuperAssumption
    <2>3. \A i \in 1..n : i = n \/ i \in 1..(n - 1) BY <1>2
    <2>4. Len(stack'[t]) - 1 = n BY <1>1, <1>2
    <2> QED BY <1>0, <1>1, <1>a, <2>1, <2>2, <2>3, <2>4 DEF StackOK, Nested, n
<1>5. SuperDone(t)'
    BY <1>1, <1>2, <1>a DEF SuperDone, At, Top, Usable
<1>6. FramesOK(t)'
    <2>1. \A i \in 1..(n + 1) : \/ stack'[t][i] = frame \/ stack'[t][i] = Frame(c)
                                \/ (i \in 1..n /\ stack'[t][i] = stack[t][i])
        BY <1>1, <1>2
    <2>2. FrameOK(t, Frame(c))' BY <1>a DEF FrameOK, Owns
    <2> QED BY <1>0, <1>2, <2>1, <2>2 DEF StackOK, FramesOK, FrameOK
<1> QED BY <1>4, <1>5, <1>6

LEMMA QuietEnter ==
    ASSUME IInv, NEW t \in Threads, UNCHANGED flags, fatal' = FALSE, Active(t),
           NEW frame \in Frames, NEW c \in Classes, Enter(t, frame, c),
           frame.cls = Top(t).cls, FrameOK(t, frame),
           frame.pc = "body" \/ (frame.pc = "set" /\ Super[frame.cls] = c),
           Owns(frame) \/ Owns(Top(t)) => frame.pc = Top(t).pc /\ frame.funcs = Top(t).funcs
    PROVE  IInv'
PROOF
<1> DEFINE n == Len(stack[t])
<1>0. TypeOK BY DEF IInv
<1>1. /\ stack' \in [Threads -> Seq(Frames)]
      /\ Len(stack'[t]) = n + 1 /\ stack'[t][n] = frame /\ stack'[t][n + 1] = Frame(c)
      /\ \A i \in 1..(n - 1) : stack'[t][i] = stack[t][i]
      /\ \A u \in Threads \ {t} : stack'[u] = stack[u]
    BY <1>0, EnterFacts
<1>2. n \in Nat \ {0} /\ DOMAIN stack[t] = 1..n /\ DOMAIN stack'[t] = 1..(n + 1)
      /\ Top(t) = stack[t][n]
    BY <1>0, <1>1, TopFacts, DomainsPrime DEF Top
<1>3. Frame(c).pc = "super" BY DEF Frame
<1> HIDE DEF n
<1>4. SameOwners(t) BY <1>1, <1>2, <1>3 DEF SameOwners, Owns
<1>5. (Nested(t) /\ SuperDone(t) /\ FramesOK(t))' BY EnterStack DEF flags, registry
<1> QED BY <1>1, <1>4, <1>5, QuietKeeps

\* The top frame returns, and its class is usable.
LEMMA QuietReturn ==
    ASSUME IInv, NEW t \in Threads, UNCHANGED flags, fatal' = FALSE, Active(t), Return(t),
           ~ Owns(Top(t)), Usable(t, Top(t).cls)
    PROVE  IInv'
PROOF
<1> DEFINE n == Len(stack[t])
<1>0. TypeOK /\ StackOK(t) BY DEF IInv, Stacks
<1>1. /\ stack' \in [Threads -> Seq(Frames)]
      /\ Len(stack'[t]) = n - 1
      /\ \A i \in 1..(n - 1) : stack'[t][i] = stack[t][i]
      /\ \A u \in Threads \ {t} : stack'[u] = stack[u]
    BY <1>0, ReturnFacts
<1>2. n \in Nat \ {0} /\ DOMAIN stack[t] = 1..n /\ DOMAIN stack'[t] = 1..(n - 1)
      /\ Top(t) = stack[t][n]
    BY <1>0, <1>1, TopFacts, DomainsPrime DEF Top
<1> HIDE DEF n
<1>3. SameOwners(t) BY <1>1, <1>2 DEF SameOwners, Owns
<1>4. Nested(t)'
    <2>1. ASSUME NEW i \in 1..(n - 2)
          PROVE  i \in 1..(n - 1) /\ stack'[t][i] = stack[t][i] /\ stack'[t][i + 1] = stack[t][i + 1]
        BY <1>1, <1>2
    <2>2. Len(stack'[t]) - 1 = n - 2 BY <1>1, <1>2
    <2> QED BY <1>0, <1>1, <2>1, <2>2 DEF StackOK, Nested, n
<1>5. SuperDone(t)'
    <2>1. SUFFICES ASSUME n - 1 > 0, stack'[t][n - 1].pc = "set"
                   PROVE  \/ Super[stack'[t][n - 1].cls] = nil
                          \/ Usable(t, Super[stack'[t][n - 1].cls])
        <3>1. stack'[t] # <<>> => n - 1 > 0
            <4>1. stack'[t] \in Seq(Frames) BY <1>1
            <4>2. stack'[t] # <<>> => Len(stack'[t]) \in Nat \ {0} BY <4>1, EmptySeq
            <4> QED BY <1>1, <1>2, <4>2
        <3> QED BY <1>1, <3>1 DEF SuperDone, At, Top, Active, Usable, flags
    <2>2. n - 1 \in 1..(n - 1) /\ (n - 1) + 1 = n BY <1>2, <2>1
    <2>3. stack[t][n].cls = Super[stack[t][n - 1].cls]
        BY <1>0, <1>1, <2>1, <2>2 DEF StackOK, Nested, n
    <2> QED BY <1>1, <1>2, <2>2, <2>3
<1>6. FramesOK(t)'
    <2>1. \A i \in 1..(n - 1) : i \in 1..n /\ stack'[t][i] = stack[t][i] BY <1>1, <1>2
    <2> QED BY <1>0, <1>2, <2>1 DEF StackOK, FramesOK, FrameOK, flags, registry
<1> QED BY <1>1, <1>3, <1>4, <1>5, <1>6, QuietKeeps

\* A thread outside calls.
LEMMA MessageKeeps ==
    ASSUME IInv, NEW t \in Threads, NEW c \in Classes, Message(t, c)
    PROVE  IInv'
PROOF
<1>0. TypeOK /\ fatal = FALSE BY DEF IInv, TypeOK, NoFatal
<1>1. UNCHANGED flags /\ fatal' = FALSE /\ stack[t] = <<>> /\ stack' = [stack EXCEPT ![t] = <<Frame(c)>>]
    BY <1>0 DEF Message, flags, Active
<1>2. Frame(c) \in Frames /\ Frame(c).pc = "super" /\ Frame(c).funcs = {}
    BY DEF Frame, Frames, Places
<1>3. stack'[t] = <<Frame(c)>> BY <1>0, <1>1 DEF TypeOK
<1>4. stack' \in [Threads -> Seq(Frames)] /\ \A u \in Threads \ {t} : stack'[u] = stack[u]
    BY <1>0, <1>1, <1>2 DEF TypeOK
<1>5. DOMAIN stack[t] = {} /\ DOMAIN stack'[t] = {1} /\ Len(stack'[t]) = 1 /\ stack'[t][1] = Frame(c)
    BY <1>1, <1>3
<1>6. SameOwners(t) BY <1>2, <1>5 DEF SameOwners, Owns
<1>7. Nested(t)' BY <1>5 DEF Nested
<1>8. SuperDone(t)' BY <1>2, <1>5 DEF SuperDone, At, Top
<1>9. FramesOK(t)' BY <1>2, <1>5 DEF FramesOK, FrameOK, Owns
<1> QED BY <1>1, <1>4, <1>6, <1>7, <1>8, <1>9, QuietKeeps

LEMMA TopOK ==
    ASSUME IInv, NEW t \in Threads, Active(t)
    PROVE  /\ FrameOK(t, Top(t)) /\ Top(t) \in Frames /\ Top(t).cls \in Classes
           /\ Super[Top(t).cls] \in Classes \cup {nil}
PROOF
<1>1. TypeOK /\ StackOK(t) BY DEF IInv, Stacks
<1>2. Top(t) = stack[t][Len(stack[t])] /\ Len(stack[t]) \in DOMAIN stack[t]
      /\ Top(t) \in Frames /\ Top(t).cls \in Classes
    BY <1>1, TopFacts DEF Top
<1> QED BY <1>1, <1>2, SuperAssumption DEF StackOK, FramesOK

LEMMA SuperFirstKeeps ==
    ASSUME IInv, fatal = FALSE, NEW t \in Threads, SuperFirst(t) PROVE IInv'
PROOF
<1> DEFINE s == Super[Top(t).cls]
           g == [Top(t) EXCEPT !.pc = "set"]
<1>1. UNCHANGED flags /\ fatal' = FALSE /\ Active(t) /\ Top(t).pc = "super"
    BY DEF SuperFirst, flags, registry, At
<1>2. g \in Frames /\ g.cls = Top(t).cls /\ g.pc = "set" /\ g.funcs = Top(t).funcs
    BY <1>1, TopOK DEF Frames, Places
<1>3. FrameOK(t, g) BY <1>1, <1>2, TopOK DEF FrameOK, Owns
<1>4. ~ Owns(g) /\ ~ Owns(Top(t)) BY <1>1, <1>2 DEF Owns
<1>5. CASE s # nil /\ state[s] # "initialized"
    <2>1. Enter(t, g, s) BY <1>5 DEF SuperFirst
    <2>2. s \in Classes BY <1>1, <1>5, TopOK
    <2> HIDE DEF s, g
    <2> QED BY <1>1, <1>2, <1>3, <1>4, <2>1, <2>2, QuietEnter DEF s
<1>6. CASE ~ (s # nil /\ state[s] # "initialized")
    <2>1. Become(t, g) BY <1>6 DEF SuperFirst, Goto
    <2>2. Super[g.cls] = nil \/ Usable(t, Super[g.cls]) BY <1>2, <1>6 DEF Usable
    <2> HIDE DEF s, g
    <2> QED BY <1>1, <1>2, <1>3, <1>4, <2>1, <2>2, QuietBecome
<1> QED BY <1>5, <1>6

\* The steps of the tests move on or return.
LEMMA TestsKeep ==
    ASSUME IInv, fatal = FALSE, NEW t \in Threads,
           \/ AlreadySet(t) \/ IsInitializing(t) \/ NotInitializing(t)
           \/ IsInitialized(t) \/ WaitForInitialize(t)
    PROVE  IInv'
PROOF
<1> DEFINE c == Top(t).cls
           g(place) == [Top(t) EXCEPT !.pc = place]
<1>1. UNCHANGED flags /\ Active(t) /\ Top(t).pc \in {"set", "test", "retest", "wait"}
    BY DEF AlreadySet, IsInitializing, NotInitializing, IsInitialized, WaitForInitialize,
           flags, registry, At
<1>2. FrameOK(t, Top(t)) /\ Top(t) \in Frames /\ c \in Classes
      /\ state[c] \in {"none", "initializing", "initialized"}
    BY <1>1, TopOK DEF IInv, TypeOK
<1>3. fatal' = FALSE
    BY <1>2 DEF AlreadySet, IsInitializing, NotInitializing, IsInitialized,
                WaitForInitialize, FrameOK, At
<1>4. ~ Owns(Top(t)) BY <1>1 DEF Owns
<1>5. ASSUME NEW place \in {"test", "retest", "wait", "waiting"}, Goto(t, place),
             FrameOK(t, g(place))
      PROVE  IInv'
    <2>1. g(place) \in Frames /\ g(place).cls = c /\ g(place).pc = place
        BY <1>2 DEF Frames, Places
    <2>2. ~ Owns(g(place)) /\ Become(t, g(place)) BY <1>5, <2>1 DEF Owns, Goto
    <2>3. g(place).pc # "set" BY <2>1
    <2>4. \E h \in Frames : /\ Become(t, h) /\ FrameOK(t, h) /\ h.cls = Top(t).cls
                            /\ ~ Owns(h) /\ h.pc # "set"
        BY <1>5, <2>1, <2>2, <2>3
    <2> QED BY <1>1, <1>3, <1>4, <2>4, QuietBecome
<1>6. \A place \in {"test", "retest", "wait", "waiting"} :
          /\ place = "retest" => state[c] = "initialized"
          /\ place # "retest" => state[c] # "none"
          => FrameOK(t, g(place))
    BY <1>2 DEF FrameOK, Owns, Frames
<1>7. ASSUME Return(t), Usable(t, c) PROVE IInv'
    BY <1>1, <1>3, <1>4, <1>7, QuietReturn
<1>8. CASE AlreadySet(t)
    <2>1. Goto(t, "test") /\ state[c] # "none" BY <1>8 DEF AlreadySet
    <2> QED BY <1>5, <1>6, <2>1
<1>9. CASE IsInitializing(t)
    <2>1. state[c] = "initializing" BY <1>9 DEF IsInitializing
    <2>2. CASE c \in initializing[t]
        <3>1. Return(t) BY <1>9, <2>2 DEF IsInitializing
        <3> QED BY <1>7, <2>2, <3>1 DEF Usable
    <2>3. CASE c \notin initializing[t]
        <3>1. Goto(t, "wait") BY <1>9, <2>3 DEF IsInitializing
        <3> QED BY <1>5, <1>6, <2>1, <3>1
    <2> QED BY <2>2, <2>3
<1>10. CASE NotInitializing(t)
    <2>1. Goto(t, "retest") /\ Top(t).pc = "test" /\ state[c] # "initializing"
        BY <1>10 DEF NotInitializing, At
    <2>2. state[c] = "initialized" BY <1>2, <2>1 DEF FrameOK
    <2> QED BY <1>5, <1>6, <2>1, <2>2
<1>11. CASE IsInitialized(t)
    <2>1. Return(t) /\ Top(t).pc = "retest" BY <1>11 DEF IsInitialized, At
    <2> QED BY <1>2, <1>7, <2>1 DEF FrameOK, Usable
<1>12. CASE WaitForInitialize(t)
    <2>1. Top(t).pc = "wait" BY <1>12 DEF WaitForInitialize, At
    <2>2. state[c] # "none" BY <1>2, <2>1 DEF FrameOK
    <2>3. CASE state[c] = "initialized"
        <3>1. Return(t) BY <1>12, <2>3 DEF WaitForInitialize
        <3> QED BY <1>7, <2>3, <3>1 DEF Usable
    <2>4. CASE state[c] # "initialized"
        <3>1. Goto(t, "waiting") BY <1>12, <2>4 DEF WaitForInitialize
        <3> QED BY <1>5, <1>6, <2>2, <3>1
    <2> QED BY <2>3, <2>4
<1> QED BY <1>8, <1>9, <1>10, <1>11, <1>12

LEMMA SendMessageKeeps ==
    ASSUME IInv, fatal = FALSE, NEW t \in Threads, SendMessage(t) PROVE IInv'
PROOF
<1>1. UNCHANGED flags /\ fatal' = FALSE /\ Active(t) /\ Top(t).pc = "body"
    BY DEF SendMessage, flags, registry, At
<1>2. FrameOK(t, Top(t)) /\ Top(t) \in Frames BY <1>1, TopOK
<1>3. PICK d \in Top(t).todo :
          LET frame == [Top(t) EXCEPT !.todo = @ \ {d}] IN
          IF state[d] = "initialized" THEN Become(t, frame) ELSE Enter(t, frame, d)
    BY DEF SendMessage
<1> DEFINE g == [Top(t) EXCEPT !.todo = @ \ {d}]
<1>4. g \in Frames /\ g.cls = Top(t).cls /\ g.pc = "body" /\ g.funcs = Top(t).funcs
      /\ d \in Classes
    BY <1>1, <1>2, <1>3 DEF Frames
<1>5. FrameOK(t, g) BY <1>1, <1>2, <1>4 DEF FrameOK, Owns
<1>6. Become(t, g) \/ Enter(t, g, d) BY <1>3
<1> HIDE DEF g
<1>7. CASE Become(t, g) BY <1>1, <1>4, <1>5, <1>7, QuietBecome
<1>8. CASE Enter(t, g, d) BY <1>1, <1>4, <1>5, <1>8, QuietEnter
<1> QED BY <1>6, <1>7, <1>8

-----------------------------------------------------------------------------
(* CLS_INITIALIZING is set                                                 *)

\* An activation owns its class alone.
LEMMA OwnerUnique ==
    ASSUME IInv, NEW t \in Threads, NEW u \in Threads,
           NEW i \in DOMAIN stack[t], NEW j \in DOMAIN stack[u],
           Owns(stack[t][i]), Owns(stack[u][j]), stack[t][i].cls = stack[u][j].cls
    PROVE  t = u /\ i = j
PROOF
<1>1. StackOK(t) /\ StackOK(u) /\ TypeOK BY DEF IInv, Stacks
<1>2. stack[t][i].cls \in initializing[t] /\ stack[t][i].cls \in initializing[u]
    BY <1>1 DEF StackOK, FramesOK, FrameOK
<1>3. stack[t][i].cls \in Classes BY <1>1, Domains
<1>4. t = u BY <1>2, <1>3 DEF IInv, Flags, Listed
<1> QED BY <1>1, <1>4 DEF StackOK, OneOwner

LEMMA SetInitializingKeeps ==
    ASSUME IInv, fatal = FALSE, NEW t \in Threads, SetInitializing(t) PROVE IInv'
PROOF
<1>a. TypeOK /\ StackOK(t) /\ Active(t) /\ Top(t).pc = "set" /\ Top(t).cls \in Classes
      /\ Len(stack[t]) \in Nat
    BY TopOK, TopFacts DEF IInv, Stacks, SetInitializing, At
<1> PICK c \in Classes : c = Top(t).cls BY <1>a
<1> PICK n \in Nat : n = Len(stack[t]) BY <1>a
<1> DEFINE g == [Top(t) EXCEPT !.pc = "start", !.funcs = willInitializeFuncs]
<1>0. TypeOK /\ StackOK(t) /\ Active(t) /\ Top(t).pc = "set" /\ c \in Classes BY <1>a
<1>1. /\ state[c] = "none" /\ state' = [state EXCEPT ![c] = "initializing"]
      /\ initializing' = [initializing EXCEPT ![t] = @ \cup {c}]
      /\ fatal' = (c \in initializing[t])
      /\ UNCHANGED <<pending, willInitializeFuncs, toNotify, started, notified>>
    BY DEF SetInitializing, registry
<1>2. \A u \in Threads : c \notin initializing[u] BY <1>0, <1>1 DEF IInv, Flags, Listed
<1>3. g \in Frames /\ g.cls = c /\ g.pc = "start" /\ g.funcs = willInitializeFuncs
    BY <1>0, TopOK DEF Frames, Places, TypeOK
<1>4. Become(t, g) BY DEF SetInitializing
<1>5. Top(t) = stack[t][n] BY DEF Top
<1>6. /\ \A d \in Classes : state'[d] = IF d = c THEN "initializing" ELSE state[d]
      /\ \A u \in Threads : initializing'[u] = IF u = t THEN initializing[t] \cup {c}
                                               ELSE initializing[u]
    BY <1>0, <1>1 DEF TypeOK
<1>7. Super[c] = nil \/ Usable(t, Super[c]) BY <1>0 DEF StackOK, SuperDone, At
<1> HIDE DEF g
<1>8. /\ stack' \in [Threads -> Seq(Frames)]
      /\ Len(stack'[t]) = n /\ stack'[t][n] = g
      /\ \A i \in 1..(n - 1) : stack'[t][i] = stack[t][i]
      /\ \A u \in Threads \ {t} : stack'[u] = stack[u]
    BY <1>0, <1>3, <1>4, BecomeFacts
<1>9. n \in Nat \ {0} /\ DOMAIN stack[t] = 1..n /\ DOMAIN stack'[t] = 1..n
    BY <1>0, <1>8, TopFacts, DomainsPrime
<1>b. fatal' = FALSE
    <2>1. (c \in initializing[t]) = FALSE BY <1>2
    <2> QED BY <1>1, <2>1
<1>10. TypeOK'
    <2>1. state' \in [Classes -> {"none", "initializing", "initialized"}]
          /\ initializing' \in [Threads -> SUBSET Classes]
        BY <1>0, <1>1 DEF TypeOK
    <2> QED BY <1>0, <1>1, <1>b, <1>8, <2>1 DEF TypeOK
<1>11. NoFatal' BY <1>1, <1>2 DEF NoFatal
<1>12. Flags'
    <2>1. Listed'
        <3>1. ASSUME NEW d \in Classes
              PROVE  (state'[d] = "initializing") = (\E u \in Threads : d \in initializing'[u])
            <4>1. CASE d = c BY <1>6, <4>1
            <4>2. CASE d # c
                <5>1. state'[d] = state[d] BY <1>6, <4>2
                <5>2. \A u \in Threads : (d \in initializing'[u]) = (d \in initializing[u])
                    BY <1>6, <4>2
                <5>3. (state[d] = "initializing") = (\E u \in Threads : d \in initializing[u])
                    BY DEF IInv, Flags, Listed
                <5> QED BY <5>1, <5>2, <5>3
            <4> QED BY <4>1, <4>2
        <3>2. ASSUME NEW d \in Classes, NEW u \in Threads, NEW v \in Threads,
                     d \in initializing'[u], d \in initializing'[v]
              PROVE  u = v
            <4>1. CASE d = c BY <1>2, <1>6, <3>2, <4>1
            <4>2. CASE d # c
                <5>1. d \in initializing[u] /\ d \in initializing[v] BY <1>6, <3>2, <4>2
                <5> QED BY <5>1 DEF IInv, Flags, Listed
            <4> QED BY <4>1, <4>2
        <3> QED BY <3>1, <3>2 DEF Listed
    <2>2. \A s \in Classes : Usable(t, s) => state[s] \in {"initializing", "initialized"}
        BY DEF Usable, IInv, Flags, Listed
    <2>3. ContiguousSubtree'
        BY <1>0, <1>1, <1>6, <1>7, <2>2, SuperAssumption DEF IInv, Flags, ContiguousSubtree
    <2>4. SuperclassFirst'
        BY <1>0, <1>1, <1>6, <1>7, SuperAssumption DEF IInv, Flags, SuperclassFirst, Usable, TypeOK
    <2> QED BY <2>1, <2>3, <2>4 DEF Flags
<1>13. Stacks'
    <2>1. ASSUME NEW u \in Threads \ {t} PROVE StackOK(u)'
        <3>1. stack'[u] = stack[u] /\ StackOK(u) BY <1>8 DEF IInv, Stacks
        <3>2. Nested(u)' /\ OneOwner(u)' BY <3>1 DEF StackOK, Nested, OneOwner
        <3>3. \A i \in DOMAIN stack[u] : stack[u][i].cls \in Classes BY <1>0, Domains
        <3>4. FramesOK(u)' BY <1>1, <1>6, <3>1, <3>3 DEF StackOK, FramesOK, FrameOK
        <3>5. SuperDone(u)'
            <4>1. SUFFICES ASSUME At(u, "set"), Super[Top(u).cls] # nil
                           PROVE  Usable(u, Super[Top(u).cls])'
                BY <3>1 DEF SuperDone, At, Top, Active, Usable
            <4>2. Super[Top(u).cls] \in Classes BY <4>1, TopOK DEF At
            <4>3. Usable(u, Super[Top(u).cls]) BY <3>1, <4>1 DEF StackOK, SuperDone
            <4>4. Top(u)' = Top(u) BY <3>1 DEF Top
            <4> QED BY <1>1, <1>6, <4>2, <4>3, <4>4 DEF Usable
        <3> QED BY <3>2, <3>4, <3>5 DEF StackOK
    <2>2. Nested(t)'
        <3>1. ASSUME NEW i \in 1..(n - 1)
              PROVE  stack'[t][i] = stack[t][i] /\ stack'[t][i + 1].cls = stack[t][i + 1].cls
            <4>1. i + 1 = n \/ i + 1 \in 1..(n - 1) BY <1>9
            <4> QED BY <1>3, <1>5, <1>8, <4>1
        <3> QED BY <1>0, <1>8, <3>1 DEF StackOK, Nested
    <2>3. SuperDone(t)' BY <1>3, <1>8 DEF SuperDone, At, Top
    <2>4. FramesOK(t)'
        <3>1. FrameOK(t, stack[t][n])' BY <1>1, <1>3, <1>6, <1>8 DEF FrameOK, Owns
        <3>2. ASSUME NEW i \in 1..(n - 1) PROVE FrameOK(t, stack[t][i])'
            <4>1. i \in DOMAIN stack[t] BY <1>9
            <4>2. FrameOK(t, stack[t][i]) /\ stack[t][i].cls \in Classes
                BY <1>0, <4>1, Domains DEF StackOK, FramesOK
            <4>3. stack'[t][i] = stack[t][i] BY <1>8
            <4> QED BY <1>1, <1>6, <4>2, <4>3 DEF FrameOK
        <3>3. \A i \in 1..n : i = n \/ i \in 1..(n - 1) BY <1>9
        <3> QED BY <1>9, <3>1, <3>2, <3>3 DEF FramesOK
    <2>5. OneOwner(t)'
        <3>1. \A i \in 1..(n - 1) : Owns(stack[t][i]) => stack[t][i].cls # c
            BY <1>0, <1>2, <1>9 DEF StackOK, FramesOK, FrameOK
        <3>2. \A i \in 1..n : i = n \/ (i \in 1..(n - 1) /\ i \in DOMAIN stack[t]) BY <1>9
        <3> QED BY <1>0, <1>3, <1>8, <1>9, <3>1, <3>2 DEF StackOK, OneOwner
    <2> QED BY <2>1, <2>2, <2>3, <2>4, <2>5 DEF Stacks, StackOK
<1>14. \A u \in Threads, i \in Nat :
        (i \in DOMAIN stack'[u] /\ Owns(stack'[u][i]))
        = ((i \in DOMAIN stack[u] /\ Owns(stack[u][i])) \/ (u = t /\ i = n))
    BY <1>0, <1>3, <1>5, <1>8, <1>9 DEF Owns
<1>15. \A u \in Threads, i \in Nat :
        i \in DOMAIN stack[u] /\ Owns(stack[u][i]) => stack'[u][i] = stack[u][i]
    BY <1>0, <1>3, <1>5, <1>8, <1>9 DEF Owns
<1>16. \A u \in Threads : DOMAIN stack[u] \subseteq Nat /\ DOMAIN stack'[u] \subseteq Nat
    BY <1>0, <1>8, Domains, DomainsPrime
<1>17. n \in DOMAIN stack'[t] /\ stack'[t][n].cls = c /\ stack'[t][n].pc = "start"
       /\ stack'[t][n].funcs = willInitializeFuncs
    BY <1>3, <1>8, <1>9
<1>18. ASSUME NEW d \in Classes \ {c}
       PROVE  /\ InBody(d)' = InBody(d) /\ Starting(d)' = Starting(d)
              /\ \A f \in willInitializeFuncs : AboutToNotify(f, d)' = AboutToNotify(f, d)
    <2>1. InBody(d) => InBody(d)' BY <1>14, <1>15, <1>16 DEF InBody, Owns
    <2>2. InBody(d)' => InBody(d) BY <1>14, <1>15, <1>16, <1>17 DEF InBody, Owns
    <2>3. Starting(d) => Starting(d)' BY <1>14, <1>15, <1>16 DEF Starting, Owns
    <2>4. Starting(d)' => Starting(d) BY <1>14, <1>15, <1>16, <1>17 DEF Starting, Owns
    <2>5. ASSUME NEW f \in willInitializeFuncs
          PROVE  AboutToNotify(f, d)' = AboutToNotify(f, d)
        <3>1. AboutToNotify(f, d) => AboutToNotify(f, d)'
            BY <1>14, <1>15, <1>16 DEF AboutToNotify, Owns
        <3>2. AboutToNotify(f, d)' => AboutToNotify(f, d)
            BY <1>14, <1>15, <1>16, <1>17 DEF AboutToNotify, Owns
        <3> QED BY <3>1, <3>2 DEF AboutToNotify
    <2> QED BY <2>1, <2>2, <2>3, <2>4, <2>5 DEF InBody, Starting
<1>19. InBody(c)' /\ Starting(c)' /\ \A f \in willInitializeFuncs : AboutToNotify(f, c)'
    BY <1>17 DEF InBody, Starting, AboutToNotify
<1>20. Pendings'
    <2>1. PendingOK' BY <1>0, <1>1, <1>6, SuperAssumption DEF IInv, Pendings, PendingOK, TypeOK
    <2>2. ASSUME NEW d \in Classes PROVE
              (state'[d] = "initializing" /\ ~ InBody(d)') =
              (Super[d] # nil /\ d \in pending'[Super[d]])
        <3>1. (state[d] = "initializing" /\ ~ InBody(d)) =
              (Super[d] # nil /\ d \in pending[Super[d]])
            BY DEF IInv, Pendings, PendingExact
        <3>2. CASE d = c BY <1>1, <1>19, <3>1, <3>2
        <3>3. CASE d # c BY <1>1, <1>6, <1>18, <3>1, <3>3
        <3> QED BY <3>2, <3>3
    <2>3. PendingExact' BY <2>2 DEF PendingExact
    <2> QED BY <2>1, <2>3 DEF Pendings
<1>21. Counts'
    <2>1. StartedExact'
        <3>1. ASSUME NEW d \in Classes
              PROVE  started'[d] = IF state'[d] = "none" \/ Starting(d)' THEN 0 ELSE 1
            <4>1. started[d] = IF state[d] = "none" \/ Starting(d) THEN 0 ELSE 1
                BY DEF IInv, Counts, StartedExact
            <4>2. CASE d = c BY <1>1, <1>19, <4>1, <4>2
            <4>3. CASE d # c BY <1>1, <1>6, <1>18, <4>1, <4>3
            <4> QED BY <4>2, <4>3
        <3> QED BY <3>1 DEF StartedExact
    <2>2. Unregistered' BY <1>1 DEF IInv, Counts, Unregistered
    <2>3. ASSUME NEW f \in willInitializeFuncs, NEW d \in Classes
          PROVE  notified'[f][d] + (IF d \in toNotify'[f] THEN 1 ELSE 0) =
                 IF state'[d] = "none" \/ AboutToNotify(f, d)' THEN 0 ELSE 1
        <3>1. notified[f][d] + (IF d \in toNotify[f] THEN 1 ELSE 0) =
              IF state[d] = "none" \/ AboutToNotify(f, d) THEN 0 ELSE 1
            BY DEF IInv, Counts, NotifiedOnce
        <3>2. CASE d = c BY <1>1, <1>19, <3>1, <3>2
        <3>3. CASE d # c BY <1>1, <1>6, <1>18, <3>1, <3>3
        <3> QED BY <3>2, <3>3
    <2>4. NotifiedOnce' BY <1>1, <2>3 DEF NotifiedOnce
    <2> QED BY <2>1, <2>2, <2>4 DEF Counts
<1> QED BY <1>10, <1>11, <1>12, <1>13, <1>20, <1>21 DEF IInv

-----------------------------------------------------------------------------
(* The callbacks are called, then +initialize                              *)

LEMMA CallInitializeKeeps ==
    ASSUME IInv, fatal = FALSE, NEW t \in Threads, CallInitialize(t) PROVE IInv'
PROOF
<1>a. TypeOK /\ StackOK(t) /\ Active(t) /\ Top(t).pc = "start" /\ Top(t).cls \in Classes
      /\ FrameOK(t, Top(t)) /\ Top(t) \in Frames /\ Len(stack[t]) \in Nat
    BY TopOK, TopFacts DEF IInv, Stacks, CallInitialize, At
<1> PICK c \in Classes : c = Top(t).cls BY <1>a
<1> PICK n \in Nat : n = Len(stack[t]) BY <1>a
<1> PICK F \in SUBSET Callbacks : F = Top(t).funcs BY <1>a DEF Frames
<1> DEFINE g == [Top(t) EXCEPT !.pc = "body", !.funcs = {}, !.todo = Sends[c]]
<1>1. /\ notified' = [f \in Callbacks |->
                        IF f \in F THEN [notified[f] EXCEPT ![c] = @ + 1] ELSE notified[f]]
      /\ started' = [started EXCEPT ![c] = @ + 1]
      /\ Enter(t, g, c)
      /\ UNCHANGED <<state, initializing, pending, willInitializeFuncs, toNotify, fatal>>
    BY DEF CallInitialize, registry
<1>2. g \in Frames /\ g.cls = c /\ g.pc = "body" /\ g.funcs = {}
    BY <1>a, SuperAssumption DEF Frames, Places
<1>3. FrameOK(t, g) BY <1>a, <1>2 DEF FrameOK, Owns
<1> HIDE DEF g
<1>4. /\ stack' \in [Threads -> Seq(Frames)]
      /\ Len(stack'[t]) = n + 1 /\ stack'[t][n] = g /\ stack'[t][n + 1] = Frame(c)
      /\ \A i \in 1..(n - 1) : stack'[t][i] = stack[t][i]
      /\ \A u \in Threads \ {t} : stack'[u] = stack[u]
    BY <1>a, <1>1, <1>2, EnterFacts
<1>5. n \in Nat \ {0} /\ DOMAIN stack[t] = 1..n /\ DOMAIN stack'[t] = 1..(n + 1)
      /\ Top(t) = stack[t][n]
    BY <1>a, <1>4, TopFacts, DomainsPrime DEF Top
<1>6. (Nested(t) /\ SuperDone(t) /\ FramesOK(t))'
    BY <1>a, <1>1, <1>2, <1>3, EnterStack
<1>7. TypeOK'
    <2>1. started' \in [Classes -> Nat] BY <1>a, <1>1 DEF TypeOK
    <2>2. \A f \in Callbacks : [notified[f] EXCEPT ![c] = @ + 1] \in [Classes -> Nat]
        BY <1>a DEF TypeOK
    <2>3. notified' \in [Callbacks -> [Classes -> Nat]] BY <1>a, <1>1, <2>2 DEF TypeOK
    <2> QED BY <1>a, <1>1, <1>4, <2>1, <2>3 DEF TypeOK
<1>8. NoFatal' BY <1>1 DEF NoFatal
<1>9. Flags' BY <1>1 DEF IInv, Flags, Listed, ContiguousSubtree, SuperclassFirst
<1>10. Frame(c).pc = "super" BY DEF Frame
<1>11. \A u \in Threads, i \in Nat :
        /\ (i \in DOMAIN stack'[u] /\ Owns(stack'[u][i])) = (i \in DOMAIN stack[u] /\ Owns(stack[u][i]))
        /\ i \in DOMAIN stack[u] /\ Owns(stack[u][i]) =>
               /\ stack'[u][i].cls = stack[u][i].cls
               /\ ~ (u = t /\ i = n) => stack'[u][i] = stack[u][i]
    <2>1. ASSUME NEW i \in 1..(n - 1)
          PROVE  i \in DOMAIN stack[t] /\ i \in DOMAIN stack'[t] /\ stack'[t][i] = stack[t][i]
        BY <1>4, <1>5
    <2>2. /\ n \in DOMAIN stack[t] /\ n \in DOMAIN stack'[t]
          /\ Owns(stack[t][n]) /\ Owns(stack'[t][n]) /\ stack'[t][n].cls = stack[t][n].cls
        BY <1>a, <1>2, <1>4, <1>5 DEF Owns
    <2>3. n + 1 \notin DOMAIN stack[t] /\ ~ Owns(stack'[t][n + 1]) BY <1>4, <1>5, <1>10 DEF Owns
    <2>4. \A i \in Nat : i \in DOMAIN stack[t] \/ i \in DOMAIN stack'[t]
                         => i \in 1..(n - 1) \/ i = n \/ i = n + 1
        BY <1>5
    <2> QED BY <1>4, <2>1, <2>2, <2>3, <2>4
<1>12. \A u \in Threads : DOMAIN stack[u] \subseteq Nat /\ DOMAIN stack'[u] \subseteq Nat
    BY <1>a, <1>4, Domains, DomainsPrime
<1>13. Stacks'
    <2>1. ASSUME NEW u \in Threads \ {t} PROVE StackOK(u)'
        <3>1. stack'[u] = stack[u] /\ StackOK(u) BY <1>4 DEF IInv, Stacks
        <3> QED BY <1>1, <3>1
            DEF StackOK, Nested, SuperDone, FramesOK, FrameOK, OneOwner, Usable, At, Top, Active
    <2>2. OneOwner(t)' BY <1>a, <1>11, <1>12 DEF StackOK, OneOwner
    <2> QED BY <1>6, <2>1, <2>2 DEF Stacks, StackOK
<1>14. \A d \in Classes : InBody(d)' = InBody(d) BY <1>11, <1>12 DEF InBody, Owns
<1>15. Pendings' BY <1>1, <1>14 DEF IInv, Pendings, PendingOK, PendingExact
<1>16. n \in DOMAIN stack[t] /\ stack[t][n].cls = c /\ stack[t][n].pc = "start"
       /\ stack[t][n].funcs = F /\ stack'[t][n].pc = "body"
    BY <1>a, <1>2, <1>4, <1>5
<1>17. \A u \in Threads : \A i \in DOMAIN stack[u] :
           stack[u][i].cls = c /\ Owns(stack[u][i]) => u = t /\ i = n
    BY <1>16, OwnerUnique DEF Owns
<1>18. Starting(c) /\ ~ Starting(c)' /\ state[c] # "none"
    <2>1. Starting(c) BY <1>16 DEF Starting
    <2>2. ~ Starting(c)'
        <3>1. SUFFICES ASSUME NEW u \in Threads, NEW i \in DOMAIN stack'[u],
                              stack'[u][i].cls = c, stack'[u][i].pc = "start"
                       PROVE  FALSE
            BY DEF Starting
        <3>2. i \in DOMAIN stack[u] /\ Owns(stack[u][i]) /\ stack[u][i].cls = c
            BY <1>11, <1>12, <3>1 DEF Owns
        <3>3. u = t /\ i = n BY <1>17, <3>2
        <3> QED BY <1>16, <3>1, <3>3
    <2>3. state[c] # "none" BY <1>a DEF FrameOK, Owns, IInv, Flags, Listed
    <2> QED BY <2>1, <2>2, <2>3
<1>19. ASSUME NEW d \in Classes \ {c} PROVE Starting(d)' = Starting(d)
    <2>1. Starting(d) => Starting(d)' BY <1>11, <1>12, <1>16 DEF Starting, Owns
    <2>2. Starting(d)' => Starting(d) BY <1>11, <1>12, <1>16 DEF Starting, Owns
    <2> QED BY <2>1, <2>2 DEF Starting
<1>20. StartedExact'
    <2>1. ASSUME NEW d \in Classes
          PROVE  started'[d] = IF state'[d] = "none" \/ Starting(d)' THEN 0 ELSE 1
        <3>1. started[d] = IF state[d] = "none" \/ Starting(d) THEN 0 ELSE 1
            BY DEF IInv, Counts, StartedExact
        <3>2. CASE d = c BY <1>a, <1>1, <1>18, <3>1, <3>2 DEF TypeOK
        <3>3. CASE d # c BY <1>a, <1>1, <1>19, <3>1, <3>3 DEF TypeOK
        <3> QED BY <3>2, <3>3
    <2> QED BY <2>1 DEF StartedExact
<1>21. \A f \in Callbacks, d \in Classes :
           notified'[f][d] = IF f \in F /\ d = c THEN notified[f][d] + 1 ELSE notified[f][d]
    BY <1>a, <1>1 DEF TypeOK
<1>22. F \subseteq willInitializeFuncs /\ willInitializeFuncs \subseteq Callbacks
    BY <1>a DEF FrameOK, TypeOK
<1>23. Unregistered' BY <1>1, <1>21, <1>22 DEF IInv, Counts, Unregistered
<1>24. ASSUME NEW f \in willInitializeFuncs
       PROVE  /\ f \in F => AboutToNotify(f, c)
              /\ AboutToNotify(f, c) => f \in F
              /\ ~ AboutToNotify(f, c)'
    <2>1. f \in F => AboutToNotify(f, c) BY <1>16 DEF AboutToNotify
    <2>2. AboutToNotify(f, c) => f \in F BY <1>16, <1>17 DEF AboutToNotify, Owns
    <2>3. AboutToNotify(f, c)' => Starting(c)' BY DEF AboutToNotify, Starting
    <2> QED BY <1>18, <2>1, <2>2, <2>3
<1>25. ASSUME NEW f \in willInitializeFuncs, NEW d \in Classes \ {c}
       PROVE  AboutToNotify(f, d)' = AboutToNotify(f, d)
    <2>1. AboutToNotify(f, d) => AboutToNotify(f, d)'
        BY <1>11, <1>12, <1>16 DEF AboutToNotify, Owns
    <2>2. AboutToNotify(f, d)' => AboutToNotify(f, d)
        BY <1>11, <1>12, <1>16 DEF AboutToNotify, Owns
    <2> QED BY <2>1, <2>2 DEF AboutToNotify
<1>26. ASSUME NEW f \in willInitializeFuncs, NEW d \in Classes
       PROVE  notified'[f][d] + (IF d \in toNotify'[f] THEN 1 ELSE 0) =
              IF state'[d] = "none" \/ AboutToNotify(f, d)' THEN 0 ELSE 1
    <2>1. notified[f][d] + (IF d \in toNotify[f] THEN 1 ELSE 0) =
          IF state[d] = "none" \/ AboutToNotify(f, d) THEN 0 ELSE 1
        BY DEF IInv, Counts, NotifiedOnce
    <2>2. notified[f][d] \in Nat BY <1>a, <1>22 DEF TypeOK
    <2>3. CASE d = c
        <3>1. state'[d] # "none" /\ ~ AboutToNotify(f, d)' BY <1>1, <1>18, <1>24, <2>3
        <3>2. f \in Callbacks BY <1>22
        <3>3. CASE f \in F
            <4>1. notified'[f][d] = notified[f][d] + 1 BY <1>21, <2>3, <3>2, <3>3
            <4>2. AboutToNotify(f, d) BY <1>24, <2>3, <3>3
            <4> QED BY <1>1, <2>1, <2>2, <3>1, <4>1, <4>2
        <3>4. CASE f \notin F
            <4>1. notified'[f][d] = notified[f][d] BY <1>21, <3>2, <3>4
            <4>2. ~ AboutToNotify(f, d) BY <1>24, <2>3, <3>4
            <4> QED BY <1>1, <1>18, <2>1, <2>3, <3>1, <4>1, <4>2
        <3> QED BY <3>3, <3>4
    <2>4. CASE d # c BY <1>1, <1>21, <1>22, <1>25, <2>1, <2>4
    <2> QED BY <2>3, <2>4
<1>27. NotifiedOnce' BY <1>1, <1>26 DEF NotifiedOnce
<1> QED BY <1>7, <1>8, <1>9, <1>13, <1>15, <1>20, <1>23, <1>27 DEF IInv, Counts

-----------------------------------------------------------------------------
(* Callbacks are registered                                                *)

LEMMA RegistryKeeps ==
    ASSUME IInv, fatal = FALSE, NEW f \in Callbacks, AddWillInitializeFunc(f) \/ NotifyExisting(f)
    PROVE  IInv'
PROOF
<1>0. TypeOK BY DEF IInv
<1>1. UNCHANGED <<state, initializing, pending, stack, fatal, started>>
    BY DEF AddWillInitializeFunc, NotifyExisting
<1>2. willInitializeFuncs \subseteq willInitializeFuncs'
    BY DEF AddWillInitializeFunc, NotifyExisting
<1>3. TypeOK'
    <2>1. CASE AddWillInitializeFunc(f)
        BY <1>0, <1>1, <2>1 DEF AddWillInitializeFunc, TypeOK
    <2>2. CASE NotifyExisting(f)
        <3>1. PICK c \in toNotify[f] :
                  /\ notified' = [notified EXCEPT ![f][c] = @ + 1]
                  /\ toNotify' = [toNotify EXCEPT ![f] = @ \ {c}]
            BY <2>2 DEF NotifyExisting
        <3>2. c \in Classes /\ notified[f][c] \in Nat BY <1>0, <3>1 DEF TypeOK
        <3>3. toNotify' \in [Callbacks -> SUBSET Classes] BY <1>0, <3>1 DEF TypeOK
        <3>4. notified' \in [Callbacks -> [Classes -> Nat]] BY <1>0, <3>1, <3>2 DEF TypeOK
        <3> QED BY <1>0, <1>1, <2>2, <3>3, <3>4 DEF NotifyExisting, TypeOK
    <2> QED BY <2>1, <2>2
<1>4. NoFatal' BY <1>1 DEF NoFatal, IInv
<1>5. Flags' BY <1>1 DEF IInv, Flags, Listed, ContiguousSubtree, SuperclassFirst
<1>6. Stacks'
    <2>1. ASSUME NEW u \in Threads PROVE StackOK(u)'
        <3>1. StackOK(u) BY DEF IInv, Stacks
        <3>2. FramesOK(u)' BY <1>1, <1>2, <3>1 DEF StackOK, FramesOK, FrameOK
        <3> QED BY <1>1, <3>1, <3>2
            DEF StackOK, Nested, SuperDone, OneOwner, Usable, At, Top, Active
    <2> QED BY <2>1 DEF Stacks
<1>7. Pendings' BY <1>1 DEF IInv, Pendings, PendingOK, PendingExact, InBody
<1>8. StartedExact' BY <1>1 DEF IInv, Counts, StartedExact, Starting
<1>9. \A g, d : AboutToNotify(g, d)' = AboutToNotify(g, d) BY <1>1 DEF AboutToNotify
<1>10. /\ NotifiedOnce /\ Unregistered
       /\ \A t \in Threads : \A i \in DOMAIN stack[t] :
              stack[t][i].funcs \subseteq willInitializeFuncs
    BY DEF IInv, Counts, Stacks, StackOK, FramesOK, FrameOK
<1>11. CASE AddWillInitializeFunc(f)
    <2>1. /\ f \notin willInitializeFuncs
          /\ willInitializeFuncs' = willInitializeFuncs \cup {f}
          /\ toNotify' = [toNotify EXCEPT ![f] = {c \in Classes : state[c] # "none"}]
          /\ notified' = notified
        BY <1>11 DEF AddWillInitializeFunc
    <2>2. Unregistered' BY <1>0, <1>10, <2>1 DEF Unregistered, TypeOK
    <2>3. ASSUME NEW g \in willInitializeFuncs', NEW d \in Classes
          PROVE  notified'[g][d] + (IF d \in toNotify'[g] THEN 1 ELSE 0) =
                 IF state'[d] = "none" \/ AboutToNotify(g, d)' THEN 0 ELSE 1
        <3>1. CASE g = f
            <4>1. notified'[g][d] = 0 BY <1>10, <2>1, <3>1 DEF Unregistered
            <4>2. (d \in toNotify'[g]) = (state[d] # "none") BY <1>0, <2>1, <3>1 DEF TypeOK
            <4>3. ~ AboutToNotify(g, d) BY <1>10, <2>1, <3>1 DEF AboutToNotify
            <4> QED BY <1>1, <1>9, <4>1, <4>2, <4>3
        <3>2. CASE g # f
            <4>1. g \in willInitializeFuncs /\ g \in Callbacks BY <1>0, <2>1, <3>2 DEF TypeOK
            <4>2. toNotify'[g] = toNotify[g] BY <1>0, <2>1, <3>2, <4>1 DEF TypeOK
            <4> QED BY <1>1, <1>9, <1>10, <2>1, <4>1, <4>2 DEF NotifiedOnce
        <3> QED BY <3>1, <3>2
    <2>4. NotifiedOnce' BY <2>3 DEF NotifiedOnce
    <2> QED BY <1>3, <1>4, <1>5, <1>6, <1>7, <1>8, <2>2, <2>4 DEF IInv, Counts
<1>12. CASE NotifyExisting(f)
    <2>1. PICK c \in toNotify[f] :
              /\ notified' = [notified EXCEPT ![f][c] = @ + 1]
              /\ toNotify' = [toNotify EXCEPT ![f] = @ \ {c}]
        BY <1>12 DEF NotifyExisting
    <2>2. willInitializeFuncs' = willInitializeFuncs BY <1>12 DEF NotifyExisting
    <2>3. f \in willInitializeFuncs BY <1>10, <2>1 DEF Unregistered
    <2>4. c \in Classes /\ notified[f][c] \in Nat BY <1>0, <2>1 DEF TypeOK
    <2>5. /\ \A g \in Callbacks, d \in Classes :
                notified'[g][d] = IF g = f /\ d = c THEN notified[g][d] + 1 ELSE notified[g][d]
          /\ \A g \in Callbacks, d \in Classes :
                (d \in toNotify'[g]) = (d \in toNotify[g] /\ ~ (g = f /\ d = c))
        BY <1>0, <2>1, <2>4 DEF TypeOK
    <2>6. Unregistered'
        <3>1. ASSUME NEW g \in Callbacks \ willInitializeFuncs
              PROVE  toNotify'[g] = {} /\ \A d \in Classes : notified'[g][d] = 0
            <4>1. g # f BY <2>3
            <4>2. toNotify'[g] = toNotify[g] BY <1>0, <2>1, <4>1 DEF TypeOK
            <4> QED BY <1>10, <2>5, <4>1, <4>2 DEF Unregistered
        <3> QED BY <2>2, <3>1 DEF Unregistered
    <2>7. ASSUME NEW g \in willInitializeFuncs, NEW d \in Classes
          PROVE  notified'[g][d] + (IF d \in toNotify'[g] THEN 1 ELSE 0) =
                 IF state'[d] = "none" \/ AboutToNotify(g, d)' THEN 0 ELSE 1
        <3>1. notified[g][d] + (IF d \in toNotify[g] THEN 1 ELSE 0) =
              IF state[d] = "none" \/ AboutToNotify(g, d) THEN 0 ELSE 1
            BY <1>10 DEF NotifiedOnce
        <3>2. g \in Callbacks /\ notified[g][d] \in Nat BY <1>0 DEF TypeOK
        <3> QED BY <1>1, <1>9, <2>1, <2>5, <3>1, <3>2
    <2>8. NotifiedOnce' BY <2>2, <2>7 DEF NotifiedOnce
    <2> QED BY <1>3, <1>4, <1>5, <1>6, <1>7, <1>8, <2>6, <2>8 DEF IInv, Counts
<1> QED BY <1>11, <1>12

-----------------------------------------------------------------------------
(* The classes that are finished                                           *)

LEMMA FinishedFacts ==
    ASSUME TypeOK, NEW c \in Classes
    PROVE  /\ c \in Finished(c) /\ Finished(c) \subseteq Classes
           /\ \A d \in Finished(c) \ {c} :
                  Super[d] \in Finished(c) /\ d \in pending[Super[d]]
           /\ \A e \in Finished(c), d \in Classes :
                  Super[d] = e /\ d \in pending[e] => d \in Finished(c)
PROOF
<1>1. c \in Finished(c) /\ Finished(c) \subseteq Classes BY DEF Finished
<1>2. ASSUME NEW d \in Finished(c) \ {c}
      PROVE  Super[d] \in Finished(c) /\ d \in pending[Super[d]]
    <2>1. d \in Classes /\ c \in Ancestors[d]
          /\ \A e \in {d} \cup Ancestors[d] : c \in Ancestors[e] => e \in pending[Super[e]]
        BY DEF Finished
    <2>2. Super[d] \in Classes /\ Ancestors[d] = {Super[d]} \cup Ancestors[Super[d]]
        <3>1. Ancestors[d] = IF Super[d] = nil THEN {}
                             ELSE {Super[d]} \cup Ancestors[Super[d]]
            BY <2>1, AncestorsUnfold
        <3>2. Super[d] # nil BY <2>1, <3>1
        <3> QED BY <2>1, <3>1, <3>2, SuperAssumption
    <2>3. CASE Super[d] = c BY <1>1, <2>1, <2>3
    <2>4. CASE Super[d] # c
        <3>1. c \in Ancestors[Super[d]] BY <2>1, <2>2, <2>4
        <3>2. \A e \in {Super[d]} \cup Ancestors[Super[d]] :
                  c \in Ancestors[e] => e \in pending[Super[e]]
            BY <2>1, <2>2
        <3> QED BY <2>1, <2>2, <3>1, <3>2 DEF Finished
    <2> QED BY <2>3, <2>4
<1>3. ASSUME NEW e \in Finished(c), NEW d \in Classes, Super[d] = e, d \in pending[e]
      PROVE  d \in Finished(c)
    <2>1. e \in Classes BY <1>1
    <2>2. Ancestors[d] = {e} \cup Ancestors[e] BY <1>3, <2>1, AncestorsUnfold, SuperAssumption
    <2>3. CASE e = c
        <3>1. c \in Ancestors[d] BY <2>2, <2>3
        <3>2. ASSUME NEW x \in Ancestors[d], c \in Ancestors[x] PROVE FALSE
            <4>1. x \in {c} \cup Ancestors[c] BY <2>2, <2>3
            <4>2. x = c \/ Ancestors[x] \subseteq Ancestors[c] BY <4>1, AncestorsTransitive
            <4> QED BY <3>2, <4>2, SuperAssumption
        <3> QED BY <1>3, <2>3, <3>1, <3>2 DEF Finished
    <2>4. CASE e # c
        <3>1. c \in Ancestors[e]
              /\ \A x \in {e} \cup Ancestors[e] : c \in Ancestors[x] => x \in pending[Super[x]]
            BY <2>4 DEF Finished
        <3>2. c \in Ancestors[d] /\ Ancestors[d] = {e} \cup Ancestors[e] BY <2>2, <3>1
        <3> QED BY <1>3, <3>1, <3>2 DEF Finished
    <2> QED BY <2>3, <2>4
<1> QED BY <1>1, <1>2, <1>3

\* All of them are in the list of the thread that began c: from a pending class
\* up to c each superclass is being initialized, by the same thread.
LEMMA FinishedListed ==
    ASSUME IInv, NEW t \in Threads, NEW c \in Classes, c \in initializing[t]
    PROVE  Finished(c) \subseteq initializing[t]
PROOF
<1>0. TypeOK BY DEF IInv
<1> SUFFICES ASSUME NEW d \in Finished(c) \ {c} PROVE d \in initializing[t] OBVIOUS
<1>1. d \in Classes /\ c \in Ancestors[d] BY <1>0, FinishedFacts DEF Finished
<1>2. ASSUME NEW e \in Finished(c) \ {c}
      PROVE  state[e] = "initializing" /\ state[Super[e]] = "initializing" /\ Super[e] \in Classes
    <2>1. e \in Classes /\ Super[e] \in Finished(c) /\ e \in pending[Super[e]]
        BY <1>0, FinishedFacts
    <2>2. Super[e] \in Classes /\ Super[e] # nil BY <1>0, <2>1, FinishedFacts, SuperAssumption
    <2> QED BY <2>1, <2>2 DEF IInv, Pendings, PendingOK, PendingExact
<1>3. PICK u \in Threads : d \in initializing[u] BY <1>1, <1>2 DEF IInv, Flags, Listed
<1> DEFINE S == {e \in Classes : c \in {e} \cup Ancestors[e]
                                 => e \in Finished(c) /\ e \in initializing[u]}
<1>4. Upward(d, S)
    <2>1. SUFFICES ASSUME NEW e \in S \cup {d}, Super[e] # nil PROVE Super[e] \in S
        BY DEF Upward
    <2>2. e \in Classes /\ Super[e] \in Classes BY <1>1, <2>1, SuperAssumption
    <2>3. Ancestors[e] = {Super[e]} \cup Ancestors[Super[e]] BY <2>1, AncestorsUnfold, <2>2
    <2>4. SUFFICES ASSUME c \in {Super[e]} \cup Ancestors[Super[e]]
                   PROVE  Super[e] \in Finished(c) /\ Super[e] \in initializing[u]
        BY <2>2
    <2>5. c \in Ancestors[e] BY <2>3, <2>4
    <2>6. e \in Finished(c) /\ e \in initializing[u] BY <1>3, <2>1, <2>5
    <2>7. e # c BY <2>2, <2>5, SuperAssumption
    <2>8. Super[e] \in Finished(c) BY <1>0, <2>6, <2>7, FinishedFacts
    <2>9. state[Super[e]] # "initialized" BY <1>2, <2>6, <2>7
    <2> QED BY <2>1, <2>6, <2>8, <2>9 DEF IInv, Flags, SuperclassFirst
<1>5. Ancestors[d] \subseteq S BY <1>1, <1>4, AncestorsLeast
<1>6. c \in initializing[u] BY <1>1, <1>5
<1> QED BY <1>3, <1>6 DEF IInv, Flags, Listed

-----------------------------------------------------------------------------
(* A +initialize method is over                                            *)

\* The frames of t are cut down to the first k; waiters may have been woken.
Cut(t, k) ==
    /\ stack' \in [Threads -> Seq(Frames)]
    /\ Len(stack'[t]) = k
    /\ \A u \in Threads \ {t} : Len(stack'[u]) = Len(stack[u])
    /\ \A u \in Threads : \A i \in DOMAIN stack'[u] :
           /\ stack'[u][i].cls = stack[u][i].cls
           /\ stack'[u][i].funcs = stack[u][i].funcs
           /\ \/ stack'[u][i].pc = stack[u][i].pc
              \/ stack[u][i].pc = "waiting" /\ stack'[u][i].pc = "wait"

\* Only calls that initialize a superclass first are cut off with the top.
Cuttable(t, k) ==
    /\ \A i \in (k + 1)..(Len(stack[t]) - 1) : ~ Owns(stack[t][i])
    /\ k = 0 \/ k = Len(stack[t]) - 1 \/ stack[t][k].pc = "body"

LEMMA MaxExists ==
    ASSUME NEW n \in Nat, NEW S, S \subseteq 1..n, S # {}
    PROVE  \E i \in S : \A j \in S : j <= i
PROOF
<1> DEFINE T == {n - i : i \in S}
<1>1. T \subseteq Nat /\ T # {} OBVIOUS
<1>2. PICK x \in T : \A y \in T : ~ (<<y, x>> \in OpToRel(<, Nat))
    BY <1>1, NatLessThanWellFounded, WFMin
<1>3. \A y \in T : ~ (y < x) BY <1>1, <1>2 DEF OpToRel
<1>4. PICK i \in S : x = n - i OBVIOUS
<1>5. \A j \in S : n - j \in T BY DEF T
<1>6. \A j \in S : j \in Nat /\ j <= n BY DEF T
<1> HIDE DEF T
<1>7. \A j \in S : j <= i BY <1>3, <1>4, <1>5, <1>6
<1> QED BY <1>7

LEMMA ReturnsTo ==
    ASSUME IInv, NEW t \in Threads, At(t, "body")
    PROVE  \E k \in 0..(Len(stack[t]) - 1) :
               /\ Cuttable(t, k) /\ Below(t) \in Seq(Frames) /\ Len(Below(t)) = k
               /\ \A i \in 1..k : Below(t)[i] = stack[t][i]
PROOF
<1> DEFINE k == Len(stack[t]) - 1
<1>1. /\ Len(stack[t]) \in Nat \ {0} /\ Below(t) \in Seq(Frames) /\ Len(Below(t)) = k
      /\ \A i \in 1..k : Below(t)[i] = stack[t][i]
    BY TopFacts DEF IInv, At
<1>2. Cuttable(t, k) BY <1>1 DEF Cuttable
<1>3. k \in 0..(Len(stack[t]) - 1) BY <1>1
<1> QED BY <1>1, <1>2, <1>3

\* What is left when an exception leaves +initialize.
Caught(t) ==
    IF Bodies(t) = {} THEN <<>>
    ELSE SubSeq(Below(t), 1, CHOOSE i \in Bodies(t) : \A j \in Bodies(t) : j <= i)

LEMMA ThrowsTo ==
    ASSUME IInv, NEW t \in Threads, At(t, "body")
    PROVE  \E k \in 0..(Len(stack[t]) - 1) :
               /\ Cuttable(t, k) /\ Caught(t) \in Seq(Frames) /\ Len(Caught(t)) = k
               /\ \A i \in 1..k : Caught(t)[i] = stack[t][i]
PROOF
<1> PICK n \in Nat : n = Len(stack[t]) - 1 BY TopFacts DEF IInv, At
<1>1. /\ Len(stack[t]) = n + 1 /\ Below(t) \in Seq(Frames) /\ Len(Below(t)) = n
      /\ \A i \in 1..n : Below(t)[i] = stack[t][i]
    BY TopFacts DEF IInv, At
<1>2. \A i \in 1..n : stack[t][i].pc = "body" \/ ~ Owns(stack[t][i])
    BY <1>1 DEF IInv, Stacks, StackOK, Nested, Owns
<1>3. DOMAIN Below(t) = 1..n BY <1>1, LenProperties
<1>4. Bodies(t) = {i \in 1..n : stack[t][i].pc = "body"} BY <1>1, <1>3 DEF Bodies
<1>5. CASE Bodies(t) = {}
    <2>1. Caught(t) = <<>> BY <1>5 DEF Caught
    <2>2. Cuttable(t, 0) BY <1>1, <1>2, <1>4, <1>5 DEF Cuttable, Owns
    <2>3. 0 \in 0..(Len(stack[t]) - 1) BY <1>1
    <2>4. <<>> \in Seq(Frames) /\ Len(<<>>) = 0 OBVIOUS
    <2> QED BY <2>1, <2>2, <2>3, <2>4
<1>6. CASE Bodies(t) # {}
    <2> DEFINE k == CHOOSE i \in Bodies(t) : \A j \in Bodies(t) : j <= i
    <2>1. k \in Bodies(t) /\ \A j \in Bodies(t) : j <= k BY <1>4, <1>6, MaxExists
    <2>2. Caught(t) = SubSeq(Below(t), 1, k) BY <1>6 DEF Caught
    <2> HIDE DEF k
    <2>3. k \in 1..n /\ stack[t][k].pc = "body" BY <1>4, <2>1
    <2>4. \A i \in 1..k : Below(t)[i] \in Frames BY <1>1, <2>3, ElementOfSeq
    <2>5. /\ Caught(t) \in Seq(Frames)
          /\ Len(Caught(t)) = IF 1 <= k THEN k - 1 + 1 ELSE 0
          /\ \A i \in 1..(k - 1 + 1) : Caught(t)[i] = Below(t)[1 + i - 1]
        BY <2>2, <2>3, <2>4, SubSeqProperties
    <2>6. Len(Caught(t)) = k /\ \A i \in 1..k : Caught(t)[i] = stack[t][i]
        BY <1>1, <2>3, <2>5
    <2>7. Cuttable(t, k)
        <3>1. \A i \in (k + 1)..n : i \in 1..n /\ i \notin Bodies(t) BY <2>1, <2>3
        <3>2. \A i \in (k + 1)..n : ~ Owns(stack[t][i]) BY <1>2, <1>4, <3>1
        <3> QED BY <1>1, <2>3, <3>2 DEF Cuttable
    <2>8. k \in 0..(Len(stack[t]) - 1) BY <1>1, <2>3
    <2> QED BY <2>5, <2>6, <2>7, <2>8
<1> QED BY <1>5, <1>6

\* r is s, but for waiters that have been woken.
Woken(r, s) ==
    /\ r \in [Threads -> Seq(Frames)]
    /\ \A u \in Threads :
           /\ Len(r[u]) = Len(s[u])
           /\ \A i \in 1..Len(s[u]) :
                  /\ r[u][i].cls = s[u][i].cls
                  /\ r[u][i].funcs = s[u][i].funcs
                  /\ \/ r[u][i].pc = s[u][i].pc
                     \/ s[u][i].pc = "waiting" /\ r[u][i].pc = "wait"

LEMMA NotifyAllFacts ==
    ASSUME NEW s \in [Threads -> Seq(Frames)]
    PROVE  Woken(NotifyAll(s), s)
PROOF
<1> DEFINE woken(v) == IF s[v] # <<>> /\ s[v][Len(s[v])].pc = "waiting"
                       THEN [s[v] EXCEPT ![Len(s[v])].pc = "wait"] ELSE s[v]
<1>1. ASSUME NEW v \in Threads
      PROVE  /\ woken(v) \in Seq(Frames) /\ Len(woken(v)) = Len(s[v])
             /\ \A i \in 1..Len(s[v]) :
                    /\ woken(v)[i].cls = s[v][i].cls
                    /\ woken(v)[i].funcs = s[v][i].funcs
                    /\ \/ woken(v)[i].pc = s[v][i].pc
                       \/ s[v][i].pc = "waiting" /\ woken(v)[i].pc = "wait"
    <2> PICK q \in Seq(Frames) : q = s[v] OBVIOUS
    <2> DEFINE n == Len(q)
               g == [q[n] EXCEPT !.pc = "wait"]
    <2>1. CASE ~ (q # <<>> /\ q[n].pc = "waiting") BY <2>1
    <2>2. CASE q # <<>> /\ q[n].pc = "waiting"
        <3>1. n \in 1..Len(q) BY <2>2, EmptySeq
        <3>2. q[n] \in Frames BY <3>1, ElementOfSeq
        <3>3. g \in Frames /\ g.cls = q[n].cls /\ g.funcs = q[n].funcs /\ g.pc = "wait"
            BY <3>2 DEF Frames, Places
        <3>4. woken(v) = [q EXCEPT ![n] = g] BY <2>2
        <3> HIDE DEF g, n, woken
        <3>5. /\ [q EXCEPT ![n] = g] \in Seq(Frames)
              /\ Len([q EXCEPT ![n] = g]) = Len(q)
              /\ \A j \in 1..Len(q) : [q EXCEPT ![n] = g][j] = IF j = n THEN g ELSE q[j]
            BY <3>1, <3>3, ExceptSeq
        <3> QED BY <2>2, <3>3, <3>4, <3>5
    <2> QED BY <2>1, <2>2
<1>2. NotifyAll(s) = [v \in Threads |-> woken(v)] BY DEF NotifyAll
<1> HIDE DEF woken
<1>3. \A v \in Threads : NotifyAll(s)[v] = woken(v) BY <1>2
<1>4. NotifyAll(s) \in [Threads -> Seq(Frames)] BY <1>1, <1>2
<1> QED BY <1>1, <1>3, <1>4 DEF Woken

LEMMA FinishCuts ==
    ASSUME IInv, NEW t \in Threads, NEW rest \in Seq(Frames),
           NEW k \in 0..(Len(stack[t]) - 1), Len(stack[t]) \in Nat,
           Len(rest) = k, \A i \in 1..k : rest[i] = stack[t][i],
           \/ stack' = [stack EXCEPT ![t] = rest]
           \/ stack' = NotifyAll([stack EXCEPT ![t] = rest])
    PROVE  Cut(t, k)
PROOF
<1> PICK base \in [Threads -> Seq(Frames)] : base = [stack EXCEPT ![t] = rest]
    BY DEF IInv, TypeOK
<1>0. TypeOK BY DEF IInv
<1>1. base[t] = rest /\ \A u \in Threads \ {t} : base[u] = stack[u] BY <1>0 DEF TypeOK
<1>2. \A u \in Threads : \A i \in 1..Len(base[u]) : base[u][i] = stack[u][i] BY <1>1
<1>3. Woken(stack', base)
    <2>1. CASE stack' = base BY <2>1 DEF Woken
    <2>2. CASE stack' = NotifyAll(base) BY <2>2, NotifyAllFacts
    <2> QED BY <2>1, <2>2
<1>4. stack' \in [Threads -> Seq(Frames)] BY <1>3 DEF Woken
<1>5. \A u \in Threads : DOMAIN stack'[u] = 1..Len(base[u])
    BY <1>3, <1>4, DomainsPrime DEF Woken
<1>6. Len(stack'[t]) = k /\ \A u \in Threads \ {t} : Len(stack'[u]) = Len(stack[u])
    BY <1>1, <1>3 DEF Woken
<1>7. \A u \in Threads : \A i \in DOMAIN stack'[u] :
           /\ stack'[u][i].cls = stack[u][i].cls
           /\ stack'[u][i].funcs = stack[u][i].funcs
           /\ \/ stack'[u][i].pc = stack[u][i].pc
              \/ stack[u][i].pc = "waiting" /\ stack'[u][i].pc = "wait"
    <2> SUFFICES ASSUME NEW u \in Threads, NEW i \in DOMAIN stack'[u]
                 PROVE  /\ stack'[u][i].cls = stack[u][i].cls
                        /\ stack'[u][i].funcs = stack[u][i].funcs
                        /\ \/ stack'[u][i].pc = stack[u][i].pc
                           \/ stack[u][i].pc = "waiting" /\ stack'[u][i].pc = "wait"
        OBVIOUS
    <2>1. i \in 1..Len(base[u]) /\ base[u][i] = stack[u][i] BY <1>2, <1>5
    <2> QED BY <1>3, <2>1 DEF Woken
<1> QED BY <1>4, <1>6, <1>7 DEF Cut

\* Only the class of the top frame loses its owner.
LEMMA CutOwners ==
    ASSUME IInv, NEW t \in Threads, At(t, "body"),
           NEW k \in 0..(Len(stack[t]) - 1), Cuttable(t, k), Cut(t, k),
           NEW c \in Classes, c = Top(t).cls
    PROVE  /\ InBody(c) /\ ~ InBody(c)' /\ c \in initializing[t]
           /\ \A d \in Classes \ {c} : InBody(d)' = InBody(d)
           /\ \A d \in Classes : Starting(d)' = Starting(d)
           /\ \A f, d : AboutToNotify(f, d)' = AboutToNotify(f, d)
           /\ \A u \in Threads : DOMAIN stack'[u] \subseteq DOMAIN stack[u]
           /\ \A u \in Threads : \A i \in DOMAIN stack'[u] :
                  Owns(stack'[u][i]) =>
                      stack'[u][i].cls # c /\ Owns(stack[u][i]) /\ InBody(stack'[u][i].cls)
PROOF
<1>0. TypeOK /\ Active(t) BY DEF IInv, At
<1> PICK n \in Nat \ {0} : n = Len(stack[t]) BY <1>0, TopFacts
<1>1. /\ DOMAIN stack[t] = 1..n /\ DOMAIN stack'[t] = 1..k /\ k \in 0..(n - 1)
      /\ \A u \in Threads \ {t} : DOMAIN stack'[u] = DOMAIN stack[u]
    BY <1>0, Domains, DomainsPrime DEF Cut
<1>2. n \in DOMAIN stack[t] /\ stack[t][n].cls = c /\ stack[t][n].pc = "body"
    BY <1>1 DEF At, Top
<1>3. \A u \in Threads : \A i \in DOMAIN stack[u] :
          Owns(stack[u][i]) /\ stack[u][i].cls = c => u = t /\ i = n
    BY <1>2, OwnerUnique DEF Owns
<1>4. c \in initializing[t] BY <1>2 DEF IInv, Stacks, StackOK, FramesOK, FrameOK, Owns
<1>5. \A u \in Threads : \A i \in DOMAIN stack'[u] :
          /\ i \in DOMAIN stack[u] /\ ~ (u = t /\ i = n)
          /\ stack'[u][i].cls = stack[u][i].cls
          /\ stack'[u][i].funcs = stack[u][i].funcs
          /\ Owns(stack'[u][i]) = Owns(stack[u][i])
          /\ Owns(stack[u][i]) => stack'[u][i].pc = stack[u][i].pc
    BY <1>1 DEF Cut, Owns
<1>6. ASSUME NEW u \in Threads, NEW i \in DOMAIN stack[u], Owns(stack[u][i]), ~ (u = t /\ i = n)
      PROVE  i \in DOMAIN stack'[u]
    <2>1. CASE u # t BY <1>1, <2>1
    <2>2. CASE u = t
        <3>1. i \in 1..(n - 1) BY <1>1, <1>6, <2>2
        <3>2. i \notin (k + 1)..(n - 1) BY <1>6, <2>2 DEF Cuttable
        <3> QED BY <1>1, <2>2, <3>1, <3>2
    <2> QED BY <2>1, <2>2
<1>7. InBody(c) BY <1>2 DEF InBody
<1>8. ~ InBody(c)' BY <1>3, <1>5 DEF InBody, Owns
<1>9. ASSUME NEW d \in Classes \ {c} PROVE InBody(d)' = InBody(d)
    <2>1. InBody(d) => InBody(d)' BY <1>2, <1>5, <1>6 DEF InBody, Owns
    <2>2. InBody(d)' => InBody(d) BY <1>5 DEF InBody, Owns
    <2> QED BY <2>1, <2>2 DEF InBody
<1>10. ASSUME NEW d \in Classes PROVE Starting(d)' = Starting(d)
    <2>1. Starting(d) => Starting(d)' BY <1>2, <1>5, <1>6 DEF Starting, Owns
    <2>2. Starting(d)' => Starting(d) BY <1>5 DEF Starting, Owns
    <2> QED BY <2>1, <2>2 DEF Starting
<1>11. ASSUME NEW f, NEW d PROVE AboutToNotify(f, d)' = AboutToNotify(f, d)
    <2>1. AboutToNotify(f, d) => AboutToNotify(f, d)'
        BY <1>2, <1>5, <1>6 DEF AboutToNotify, Owns
    <2>2. AboutToNotify(f, d)' => AboutToNotify(f, d) BY <1>5 DEF AboutToNotify, Owns
    <2> QED BY <2>1, <2>2 DEF AboutToNotify
<1>12. ASSUME NEW u \in Threads, NEW i \in DOMAIN stack'[u], Owns(stack'[u][i])
       PROVE  stack'[u][i].cls # c /\ Owns(stack[u][i]) /\ InBody(stack'[u][i].cls)
    BY <1>3, <1>5, <1>12 DEF InBody, Owns
<1> QED BY <1>4, <1>5, <1>7, <1>8, <1>9, <1>10, <1>11, <1>12

\* The flags advance, and a class that leaves a list is initialized.
Advances(t, c) ==
    /\ \A d \in Classes : /\ state[d] # "none" => state'[d] # "none"
                          /\ state[d] = "initialized" => state'[d] = "initialized"
    /\ \A u \in Threads, d \in Classes : d \in initializing[u] =>
           \/ d \in initializing'[u]
           \/ state'[d] = "initialized" /\ (d = c \/ ~ InBody(d))

\* What the frames that are left know stays true.
LEMMA CutStacks ==
    ASSUME IInv, NEW t \in Threads, At(t, "body"),
           NEW k \in 0..(Len(stack[t]) - 1), Cuttable(t, k), Cut(t, k),
           NEW c \in Classes, c = Top(t).cls,
           UNCHANGED willInitializeFuncs, Advances(t, c)
    PROVE  Stacks'
PROOF
<1>0. TypeOK BY DEF IInv
<1>a. \A d \in Classes : /\ state[d] # "none" => state'[d] # "none"
                         /\ state[d] = "initialized" => state'[d] = "initialized"
    BY DEF Advances
<1>b. \A u \in Threads, d \in Classes : d \in initializing[u] =>
          d \in initializing'[u] \/ (state'[d] = "initialized" /\ (d = c \/ ~ InBody(d)))
    BY DEF Advances
<1>1. \A u \in Threads : \A i \in DOMAIN stack'[u] :
          /\ i \in DOMAIN stack[u]
          /\ stack'[u][i].cls = stack[u][i].cls /\ stack'[u][i].cls \in Classes
          /\ stack'[u][i].funcs = stack[u][i].funcs
          /\ \/ stack'[u][i].pc = stack[u][i].pc
             \/ stack[u][i].pc = "waiting" /\ stack'[u][i].pc = "wait"
    BY <1>0, CutOwners, DomainsPrime DEF Cut
<1>2. \A u \in Threads, d \in Classes : Usable(u, d) => Usable(u, d)' BY <1>a, <1>b DEF Usable
<1>3. \A u \in Threads : Len(stack'[u]) \in Nat /\ DOMAIN stack'[u] = 1..Len(stack'[u])
                         /\ Len(stack[u]) \in Nat /\ DOMAIN stack[u] = 1..Len(stack[u])
                         /\ Len(stack'[u]) <= Len(stack[u])
    <2>1. \A u \in Threads : Len(stack'[u]) \in Nat /\ DOMAIN stack'[u] = 1..Len(stack'[u])
                             /\ Len(stack[u]) \in Nat /\ DOMAIN stack[u] = 1..Len(stack[u])
        BY <1>0, Domains, DomainsPrime DEF Cut
    <2>2. Len(stack'[t]) <= Len(stack[t]) BY <2>1 DEF Cut
    <2> QED BY <2>1, <2>2 DEF Cut
<1>4. ASSUME NEW u \in Threads PROVE Nested(u)'
    <2>1. \A i \in 1..(Len(stack'[u]) - 1) :
              i \in 1..(Len(stack[u]) - 1) /\ i \in DOMAIN stack'[u] /\ i + 1 \in DOMAIN stack'[u]
        BY <1>3
    <2>2. Nested(u) BY DEF IInv, Stacks, StackOK
    <2>3. ASSUME NEW i \in 1..(Len(stack'[u]) - 1)
          PROVE  \/ stack'[u][i].pc = "body"
                 \/ /\ stack'[u][i].pc = "set"
                    /\ Super[stack'[u][i].cls] # nil
                    /\ stack'[u][i + 1].cls = Super[stack'[u][i].cls]
        <3>1. \/ stack[u][i].pc = "body"
              \/ /\ stack[u][i].pc = "set"
                 /\ Super[stack[u][i].cls] # nil
                 /\ stack[u][i + 1].cls = Super[stack[u][i].cls]
            BY <2>1, <2>2 DEF Nested
        <3>2. stack'[u][i].pc = stack[u][i].pc BY <1>1, <2>1, <3>1
        <3> QED BY <1>1, <2>1, <3>1, <3>2
    <2> QED BY <2>3 DEF Nested
<1>5. ASSUME NEW u \in Threads PROVE FramesOK(u)'
    <2>1. ASSUME NEW i \in DOMAIN stack'[u] PROVE FrameOK(u, stack[u][i])'
        <3>1. FrameOK(u, stack[u][i]) BY <1>1, <2>1 DEF IInv, Stacks, StackOK, FramesOK
        <3>2. Owns(stack'[u][i]) =>
                  stack'[u][i].cls # c /\ Owns(stack[u][i]) /\ InBody(stack'[u][i].cls)
            BY CutOwners
        <3>3. Owns(stack'[u][i]) => stack'[u][i].cls \in initializing'[u]
            BY <1>a, <1>b, <1>1, <3>1, <3>2 DEF FrameOK
        <3>4. /\ stack'[u][i].pc \in {"test", "wait", "waiting"}
                     => state'[stack'[u][i].cls] # "none"
              /\ stack'[u][i].pc = "retest" => state'[stack'[u][i].cls] = "initialized"
              /\ stack'[u][i].funcs \subseteq willInitializeFuncs'
            BY <1>a, <1>1, <3>1 DEF FrameOK
        <3> QED BY <3>3, <3>4 DEF FrameOK
    <2> QED BY <2>1 DEF FramesOK
<1>6. ASSUME NEW u \in Threads PROVE OneOwner(u)'
    <2>1. \A i \in DOMAIN stack'[u] : Owns(stack'[u][i]) => Owns(stack[u][i]) BY CutOwners
    <2>2. OneOwner(u) BY DEF IInv, Stacks, StackOK
    <2> QED BY <1>1, <2>1, <2>2 DEF OneOwner
<1>7. ASSUME NEW u \in Threads PROVE SuperDone(u)'
    <2> DEFINE m == Len(stack'[u])
    <2>1. stack'[u] # <<>> => m \in 1..m
        <3>1. stack'[u] \in Seq(Frames) BY DEF Cut
        <3> QED BY <3>1, EmptySeq
    <2>2. SUFFICES ASSUME m \in 1..m, stack'[u][m].pc = "set", Super[stack'[u][m].cls] # nil
                   PROVE  Usable(u, Super[stack[u][Len(stack[u])].cls])'
        BY <2>1 DEF SuperDone, At, Top, Active
    <2>3. m \in DOMAIN stack'[u] /\ stack[u][m].pc = "set" /\ stack[u][m].cls = stack'[u][m].cls
          /\ stack[u][m].cls \in Classes
        BY <1>1, <1>3, <2>2
    <2>4. Super[stack[u][m].cls] \in Classes BY <2>2, <2>3, SuperAssumption
    <2>5. CASE u # t
        <3>1. m = Len(stack[u]) BY <2>5 DEF Cut
        <3>2. Active(u) BY <2>2, <3>1 DEF Active
        <3>3. Usable(u, Super[stack[u][m].cls])
            BY <2>2, <2>3, <3>1, <3>2 DEF IInv, Stacks, StackOK, SuperDone, At, Top
        <3> QED BY <1>2, <2>3, <2>4, <3>1, <3>3 DEF Usable
    <2>6. CASE u = t
        <3>1. m = k /\ k # 0 /\ stack[t][k].pc = "set" BY <2>2, <2>3, <2>6 DEF Cut
        <3>2. k = Len(stack[t]) - 1 BY <3>1 DEF Cuttable
        <3>a. Len(stack[t]) \in Nat BY <1>3
        <3>b. k + 1 = Len(stack[t]) BY <3>a, <3>2
        <3>c. k \in 1..(Len(stack[t]) - 1) BY <3>a, <3>1
        <3>3. k + 1 = Len(stack[t]) /\ k \in 1..(Len(stack[t]) - 1) BY <3>b, <3>c
        <3>4. stack[t][k + 1].cls = Super[stack[t][k].cls]
            BY <3>1, <3>3 DEF IInv, Stacks, StackOK, Nested
        <3>5. Super[stack[t][k].cls] = c BY <3>3, <3>4 DEF Top
        <3>6. Usable(t, c)' BY <1>a, <1>b, CutOwners DEF Usable
        <3> QED BY <2>3, <2>6, <3>1, <3>5, <3>6 DEF Usable
    <2> QED BY <2>5, <2>6
<1> QED BY <1>4, <1>5, <1>6, <1>7 DEF Stacks, StackOK

LEMMA FinishKeeps ==
    ASSUME IInv, fatal = FALSE, NEW t \in Threads, At(t, "body"), NEW rest \in Seq(Frames),
           NEW c \in Classes, c = Top(t).cls,
           NEW k \in 0..(Len(stack[t]) - 1), Cuttable(t, k),
           Len(rest) = k, \A i \in 1..k : rest[i] = stack[t][i],
           Finish(t, rest), UNCHANGED <<registry, started, notified>>
    PROVE  IInv' /\ Cut(t, k) /\ Usable(t, c)'
PROOF
<1>a. TypeOK /\ Active(t) /\ Top(t).cls \in Classes /\ Len(stack[t]) \in Nat
    BY TopOK, TopFacts DEF IInv, At
<1> DEFINE s == Super[c]
           F == Finished(c)
<1>1. UNCHANGED <<willInitializeFuncs, toNotify, started, notified>> BY DEF registry
<1>2. Cut(t, k) BY <1>a, FinishCuts DEF Finish
<1>3. /\ InBody(c) /\ ~ InBody(c)' /\ c \in initializing[t]
      /\ \A d \in Classes \ {c} : InBody(d)' = InBody(d)
      /\ \A d \in Classes : Starting(d)' = Starting(d)
      /\ \A f, d : AboutToNotify(f, d)' = AboutToNotify(f, d)
    BY <1>2, CutOwners
<1>4. c \notin pending[s] \/ s = nil BY <1>3 DEF IInv, Pendings, PendingExact
<1>5. state[c] = "initializing" BY <1>3 DEF IInv, Flags, Listed
<1>6. s \in Classes \cup {nil} BY SuperAssumption
<1>7. stack' \in [Threads -> Seq(Frames)] BY <1>2 DEF Cut
<1>8. ASSUME NoFatal', Flags', Pendings', Stacks', TypeOK',
             \A d \in Classes : (state'[d] = "none") = (state[d] = "none")
      PROVE  IInv'
    <2>1. StartedExact' BY <1>1, <1>3, <1>8 DEF IInv, Counts, StartedExact
    <2>2. Unregistered' BY <1>1 DEF IInv, Counts, Unregistered
    <2>3. NotifiedOnce' BY <1>1, <1>3, <1>8 DEF IInv, Counts, NotifiedOnce
    <2> QED BY <1>8, <2>1, <2>2, <2>3 DEF IInv, Counts
\* The superclass is not done: c is pending for it.
<1>9. CASE s # nil /\ state[s] # "initialized"
    <2>1. /\ pending' = [pending EXCEPT ![s] = @ \cup {c}]
          /\ UNCHANGED <<state, initializing, fatal>>
        BY <1>9 DEF Finish
    <2>2. s \in Classes BY <1>6, <1>9
    <2>3. \A d \in Classes : pending'[d] = IF d = s THEN pending[s] \cup {c} ELSE pending[d]
        BY <1>a, <2>1, <2>2 DEF TypeOK
    <2>4. TypeOK'
        <3>1. pending' \in [Classes -> SUBSET Classes] BY <1>a, <2>1, <2>2 DEF TypeOK
        <3> QED BY <1>a, <1>1, <1>7, <2>1, <3>1 DEF TypeOK
    <2>5. NoFatal' BY <2>1 DEF NoFatal
    <2>6. Flags' BY <2>1 DEF IInv, Flags, Listed, ContiguousSubtree, SuperclassFirst
    <2>a. Advances(t, c) BY <2>1 DEF Advances
    <2>7. Stacks' BY <1>1, <1>2, <2>1, <2>a, CutStacks
    <2>8. PendingOK'
        <3>1. state[s] = "initializing"
            BY <1>a, <1>5, <1>9, <2>2 DEF IInv, Flags, ContiguousSubtree, TypeOK
        <3> QED BY <2>1, <2>3, <3>1 DEF IInv, Pendings, PendingOK
    <2>9. ASSUME NEW d \in Classes
          PROVE  (state'[d] = "initializing" /\ ~ InBody(d)') =
                 (Super[d] # nil /\ d \in pending'[Super[d]])
        <3>1. (state[d] = "initializing" /\ ~ InBody(d)) =
              (Super[d] # nil /\ d \in pending[Super[d]])
            BY DEF IInv, Pendings, PendingExact
        <3>2. CASE d = c BY <1>3, <1>5, <1>9, <2>1, <2>2, <2>3, <3>2
        <3>3. CASE d # c
            <4>1. Super[d] # nil => (d \in pending'[Super[d]]) = (d \in pending[Super[d]])
                BY <2>3, <3>3, SuperAssumption
            <4> QED BY <1>3, <2>1, <3>1, <3>3, <4>1
        <3> QED BY <3>2, <3>3
    <2>10. Pendings' BY <2>8, <2>9 DEF Pendings, PendingExact
    <2>11. IInv' BY <1>8, <2>1, <2>4, <2>5, <2>6, <2>7, <2>10
    <2>12. Usable(t, c)' BY <1>3, <2>1 DEF Usable
    <2> QED BY <1>2, <2>11, <2>12
\* It is: c and all that waited for it are marked.
<1>10. CASE s = nil \/ state[s] = "initialized"
    <2> DEFINE G == Finished(c)
    <2>1. /\ state' = [d \in Classes |-> IF d \in G THEN "initialized" ELSE state[d]]
          /\ initializing' = [initializing EXCEPT ![t] = @ \ G]
          /\ fatal' = (fatal \/ ~ G \subseteq initializing[t])
          /\ pending' = [d \in Classes |-> IF d \in G THEN {} ELSE pending[d]]
        BY <1>10 DEF Finish
    <2>2. /\ c \in G /\ G \subseteq Classes /\ G \subseteq initializing[t]
          /\ \A d \in G \ {c} : Super[d] \in G /\ d \in pending[Super[d]]
          /\ \A e \in G, d \in Classes : Super[d] = e /\ d \in pending[e] => d \in G
        BY <1>a, <1>3, FinishedFacts, FinishedListed
    <2> HIDE DEF G
    <2>3. \A d \in Classes : /\ state'[d] = IF d \in G THEN "initialized" ELSE state[d]
                             /\ pending'[d] = IF d \in G THEN {} ELSE pending[d]
        BY <2>1
    <2>4. \A u \in Threads : initializing'[u] = IF u = t THEN initializing[t] \ G
                                                 ELSE initializing[u]
        BY <1>a, <2>1 DEF TypeOK
    <2>5. Listed BY DEF IInv, Flags
    <2>6. \A d \in G : state[d] = "initializing" BY <2>2, <2>5 DEF Listed
    <2>7. \A u \in Threads \ {t} : initializing[u] \cap G = {} BY <2>2, <2>5 DEF Listed
    <2>8. fatal' = FALSE BY <2>1, <2>2
    <2>9. NoFatal' BY <2>8 DEF NoFatal
    <2>10. TypeOK'
        <3>1. /\ state' \in [Classes -> {"none", "initializing", "initialized"}]
              /\ pending' \in [Classes -> SUBSET Classes]
            BY <1>a, <2>1 DEF TypeOK
        <3>2. initializing' \in [Threads -> SUBSET Classes] BY <1>a, <2>1 DEF TypeOK
        <3> QED BY <1>a, <1>1, <1>7, <2>8, <3>1, <3>2 DEF TypeOK
    <2>11. Listed'
        <3>1. \A d \in Classes, u \in Threads :
                  d \in initializing'[u] <=> d \in initializing[u] /\ d \notin G
            BY <2>4, <2>7
        <3>2. \A d \in Classes : (state'[d] = "initializing") <=>
                                     (state[d] = "initializing" /\ d \notin G)
            BY <2>3
        <3>3. ASSUME NEW d \in Classes
              PROVE  (state'[d] = "initializing") = (\E u \in Threads : d \in initializing'[u])
            <4>1. (state'[d] = "initializing") => (\E u \in Threads : d \in initializing'[u])
                BY <2>5, <3>1, <3>2 DEF Listed
            <4>2. (\E u \in Threads : d \in initializing'[u]) => (state'[d] = "initializing")
                BY <2>5, <3>1, <3>2 DEF Listed
            <4> QED BY <4>1, <4>2
        <3> QED BY <2>5, <3>1, <3>3 DEF Listed
    <2>12. ContiguousSubtree'
        <3>1. ASSUME NEW d \in Classes, Super[d] # nil
              PROVE  /\ state'[d] # "none" => state'[Super[d]] # "none"
                     /\ state'[d] = "initialized" => state'[Super[d]] = "initialized"
            <4>1. Super[d] \in Classes BY <3>1, SuperAssumption
            <4>2. /\ state[d] # "none" => state[Super[d]] # "none"
                  /\ state[d] = "initialized" => state[Super[d]] = "initialized"
                BY <3>1 DEF IInv, Flags, ContiguousSubtree
            <4>3. CASE d \in G
                <5>1. d # c => Super[d] \in G BY <2>2, <4>3
                <5>2. d = c => state[Super[d]] = "initialized" BY <1>10, <3>1
                <5> QED BY <2>3, <4>1, <5>1, <5>2
            <4>4. CASE d \notin G BY <2>3, <4>1, <4>2, <4>4
            <4> QED BY <4>3, <4>4
        <3> QED BY <3>1 DEF ContiguousSubtree
    <2>13. SuperclassFirst'
        <3>1. ASSUME NEW u \in Threads, NEW d \in initializing'[u], Super[d] # nil
              PROVE  state'[Super[d]] = "initialized" \/ Super[d] \in initializing'[u]
            <4>1. d \in initializing[u] /\ d \in Classes BY <1>a, <2>4 DEF TypeOK
            <4>2. Super[d] \in Classes BY <3>1, <4>1, SuperAssumption
            <4>3. state[Super[d]] = "initialized" \/ Super[d] \in initializing[u]
                BY <3>1, <4>1 DEF IInv, Flags, SuperclassFirst
            <4> QED BY <2>3, <2>4, <4>2, <4>3
        <3> QED BY <3>1 DEF SuperclassFirst
    <2>14. PendingOK' BY <2>3 DEF IInv, Pendings, PendingOK
    <2>15. ASSUME NEW d \in Classes
           PROVE  (state'[d] = "initializing" /\ ~ InBody(d)') =
                  (Super[d] # nil /\ d \in pending'[Super[d]])
        <3>1. (state[d] = "initializing" /\ ~ InBody(d)) =
              (Super[d] # nil /\ d \in pending[Super[d]])
            BY DEF IInv, Pendings, PendingExact
        <3>2. CASE d \in G
            <4>1. state'[d] = "initialized" BY <2>3, <3>2
            <4>2. CASE d = c
                <5>1. ~ (Super[d] # nil /\ d \in pending[Super[d]]) BY <1>4, <4>2
                <5> QED BY <2>3, <4>1, <5>1, SuperAssumption
            <4>3. CASE d # c
                <5>1. Super[d] \in G BY <2>2, <3>2, <4>3
                <5>2. pending'[Super[d]] = {} BY <2>2, <2>3, <5>1
                <5> QED BY <4>1, <5>2
            <4> QED BY <4>2, <4>3
        <3>3. CASE d \notin G
            <4>1. d # c BY <2>2, <3>3
            <4>2. Super[d] # nil => (d \in pending'[Super[d]]) = (d \in pending[Super[d]])
                BY <2>2, <2>3, <3>3, SuperAssumption
            <4> QED BY <1>3, <2>3, <3>1, <3>3, <4>1, <4>2
        <3> QED BY <3>2, <3>3
    <2>16. Flags' /\ Pendings'
        BY <2>11, <2>12, <2>13, <2>14, <2>15 DEF Flags, Pendings, PendingExact
    <2>17. Stacks'
        <3>1. \A d \in Classes : /\ state[d] # "none" => state'[d] # "none"
                                 /\ state[d] = "initialized" => state'[d] = "initialized"
            BY <2>3
        <3>2. \A d \in G \ {c} : ~ InBody(d)
            BY <2>2, SuperAssumption DEF IInv, Pendings, PendingExact
        <3>3. \A u \in Threads, d \in Classes : d \in initializing[u] =>
                  \/ d \in initializing'[u]
                  \/ state'[d] = "initialized" /\ (d = c \/ ~ InBody(d))
            BY <2>3, <2>4, <3>2
        <3>4. UNCHANGED willInitializeFuncs BY <1>1
        <3>5. Advances(t, c) BY <3>1, <3>3 DEF Advances
        <3> QED BY <1>2, <3>4, <3>5, CutStacks
    <2>18. \A d \in Classes : (state'[d] = "none") = (state[d] = "none") BY <2>3, <2>6
    <2>19. IInv' BY <1>8, <2>9, <2>10, <2>16, <2>17, <2>18
    <2>20. Usable(t, c)' BY <2>2, <2>3 DEF Usable
    <2> QED BY <1>2, <2>19, <2>20
<1> QED BY <1>9, <1>10

\* The end of a +initialize method, however it comes about.
LEMMA EndKeeps ==
    ASSUME IInv, fatal = FALSE, NEW t \in Threads, InitializeReturns(t) \/ InitializeThrows(t),
           NEW c \in Classes, c = Top(t).cls
    PROVE  IInv' /\ Usable(t, c)' /\ \A u \in Threads \ {t} : Len(stack'[u]) = Len(stack[u])
PROOF
<1>1. CASE InitializeReturns(t)
    <2>1. At(t, "body") /\ Finish(t, Below(t)) /\ UNCHANGED <<registry, started, notified>>
        BY <1>1 DEF InitializeReturns
    <2> PICK k \in 0..(Len(stack[t]) - 1) :
               /\ Cuttable(t, k) /\ Below(t) \in Seq(Frames) /\ Len(Below(t)) = k
               /\ \A i \in 1..k : Below(t)[i] = stack[t][i]
        BY <2>1, ReturnsTo
    <2>2. IInv' /\ Cut(t, k) /\ Usable(t, c)' BY <2>1, FinishKeeps
    <2> QED BY <2>2 DEF Cut
<1>2. CASE InitializeThrows(t)
    <2>1. At(t, "body") /\ Finish(t, Caught(t)) /\ UNCHANGED <<registry, started, notified>>
        BY <1>2 DEF InitializeThrows, Caught
    <2> PICK k \in 0..(Len(stack[t]) - 1) :
               /\ Cuttable(t, k) /\ Caught(t) \in Seq(Frames) /\ Len(Caught(t)) = k
               /\ \A i \in 1..k : Caught(t)[i] = stack[t][i]
        BY <2>1, ThrowsTo
    <2>2. IInv' /\ Cut(t, k) /\ Usable(t, c)' BY <2>1, FinishKeeps
    <2> QED BY <2>2 DEF Cut
<1> QED BY <1>1, <1>2

-----------------------------------------------------------------------------
(* The inductive invariant                                                 *)

LEMMA InitIInv ==
    ASSUME Init PROVE IInv
PROOF
<1> USE DEF Init
<1>1. /\ \A t \in Threads : stack[t] = <<>> /\ initializing[t] = {} /\ DOMAIN stack[t] = {}
      /\ \A c \in Classes : state[c] = "none" /\ pending[c] = {} /\ started[c] = 0
    OBVIOUS
<1>2. TypeOK
    <2>1. <<>> \in Seq(Frames) OBVIOUS
    <2> QED BY <2>1 DEF TypeOK
<1>3. NoFatal BY DEF NoFatal
<1>4. Flags BY <1>1 DEF Flags, Listed, ContiguousSubtree, SuperclassFirst
<1>5. Stacks
    <2>1. ASSUME NEW t \in Threads PROVE StackOK(t)
        <3>1. Len(stack[t]) = 0 BY <1>1
        <3>2. Nested(t) BY <3>1 DEF Nested
        <3> QED BY <1>1, <3>2 DEF StackOK, SuperDone, FramesOK, OneOwner, At, Active
    <2> QED BY <2>1 DEF Stacks
<1>6. Pendings BY <1>1, SuperAssumption DEF Pendings, PendingOK, PendingExact
<1>7. Counts BY <1>1 DEF Counts, StartedExact, Unregistered, NotifiedOnce
<1> QED BY <1>2, <1>3, <1>4, <1>5, <1>6, <1>7 DEF IInv

LEMMA NextIInv ==
    ASSUME IInv, [Next]_vars PROVE IInv'
PROOF
<1>1. CASE UNCHANGED vars
    <2>1. UNCHANGED <<state, initializing, pending, stack, willInitializeFuncs, toNotify, fatal,
                      started, notified>>
        BY <1>1 DEF vars, registry
    <2>2. TypeOK' /\ NoFatal' BY <2>1 DEF IInv, TypeOK, NoFatal
    <2>3. Flags'
        BY <2>1 DEF IInv, Flags, Listed, ContiguousSubtree, SuperclassFirst
    <2>4. Stacks'
        BY <2>1 DEF IInv, Stacks, StackOK, Nested, SuperDone, FramesOK, FrameOK, OneOwner,
            Usable, At, Active, Top
    <2>5. Pendings' BY <2>1 DEF IInv, Pendings, PendingOK, PendingExact, InBody
    <2>6. StartedExact' /\ Unregistered'
        BY <2>1 DEF IInv, Counts, StartedExact, Starting, Unregistered
    <2>7. NotifiedOnce' BY <2>1 DEF IInv, Counts, NotifiedOnce, AboutToNotify
    <2> QED BY <2>2, <2>3, <2>4, <2>5, <2>6, <2>7 DEF IInv, Counts
<1>2. CASE Next
    <2>1. fatal = FALSE BY DEF IInv, TypeOK, NoFatal
    <2>2. ASSUME NEW t \in Threads, Step(t) PROVE IInv'
        <3>1. CASE SuperFirst(t) BY <2>1, <3>1, SuperFirstKeeps
        <3>2. CASE SetInitializing(t) BY <2>1, <3>2, SetInitializingKeeps
        <3>3. CASE \/ AlreadySet(t) \/ IsInitializing(t) \/ NotInitializing(t)
                   \/ IsInitialized(t) \/ WaitForInitialize(t)
            BY <2>1, <3>3, TestsKeep
        <3>4. CASE CallInitialize(t) BY <2>1, <3>4, CallInitializeKeeps
        <3>5. CASE SendMessage(t) BY <2>1, <3>5, SendMessageKeeps
        <3>6. CASE InitializeReturns(t) \/ InitializeThrows(t)
            <4>1. Active(t) BY <3>6 DEF InitializeReturns, InitializeThrows, At
            <4>2. PICK c \in Classes : c = Top(t).cls BY <4>1, TopOK
            <4> QED BY <2>1, <3>6, <4>2, EndKeeps
        <3> QED BY <2>2, <3>1, <3>2, <3>3, <3>4, <3>5, <3>6 DEF Step
    <2>3. ASSUME NEW t \in Threads, NEW c \in Classes, Message(t, c) PROVE IInv'
        BY <2>3, MessageKeeps
    <2>4. ASSUME NEW f \in Callbacks, AddWillInitializeFunc(f) \/ NotifyExisting(f) PROVE IInv'
        BY <2>1, <2>4, RegistryKeeps
    <2> QED BY <1>2, <2>2, <2>3, <2>4 DEF Next
<1> QED BY <1>1, <1>2

LEMMA Invariance == Spec => []IInv
PROOF BY InitIInv, NextIInv, PTL DEF Spec

-----------------------------------------------------------------------------

\* The variables have their types.
THEOREM TypeCorrectness == Spec => []TypeOK
PROOF
<1>1. IInv => TypeOK BY DEF IInv
<1> QED BY <1>1, Invariance, PTL

\* No _objc_fatal and no ASSERT of objc-initialize.mm is reached.
THEOREM NoFatalHolds == Spec => []NoFatal
PROOF
<1>1. IInv => NoFatal BY DEF IInv
<1> QED BY <1>1, Invariance, PTL

\* Each class gets +initialize once, and is in the list of one thread while it
\* is being initialized, whatever messages +initialize methods send.
THEOREM InitializeOnceHolds == Spec => []InitializeOnce
PROOF
<1>1. IInv => InitializeOnce
    <2> SUFFICES ASSUME IInv PROVE InitializeOnce OBVIOUS
    <2>1. \A c \in Classes : started[c] <= 1 BY DEF IInv, Counts, StartedExact
    <2>2. Listed BY DEF IInv, Flags
    <2> QED BY <2>1, <2>2 DEF InitializeOnce, Listed
<1> QED BY <1>1, Invariance, PTL

\* The comment at objc-initialize.mm:87 is right for every class hierarchy.
THEOREM ContiguousSubtreeHolds == Spec => []ContiguousSubtree
PROOF
<1>1. IInv => ContiguousSubtree BY DEF IInv, Flags
<1> QED BY <1>1, Invariance, PTL

\* No class begins before its superclass, on the same thread or finished.
THEOREM SuperclassFirstHolds == Spec => []SuperclassFirst
PROOF
<1>1. IInv => SuperclassFirst BY DEF IInv, Flags
<1> QED BY <1>1, Invariance, PTL

\* A class whose +initialize is over is marked, or pending for a superclass
\* that will mark it: the pending map neither forgets nor repeats a class.
THEOREM PendingExactHolds == Spec => []PendingExact
PROOF
<1>1. IInv => PendingExact BY DEF IInv, Pendings
<1> QED BY <1>1, Invariance, PTL

\* A callback of _objc_addWillInitializeClassFunc hears of each class once.
THEOREM NotifiedOnceHolds == Spec => []NotifiedOnce
PROOF
<1>1. IInv => NotifiedOnce BY DEF IInv, Counts
<1> QED BY <1>1, Invariance, PTL

-----------------------------------------------------------------------------
(* Done means usable                                                       *)

\* A frame that goes on, or enters another activation, is still there.
LEMMA GoesOn ==
    ASSUME TypeOK, NEW t \in Threads, Active(t), NEW frame,
           Become(t, frame) \/ \E d : Enter(t, frame, d)
    PROVE  /\ Len(stack[t]) \in Nat /\ Len(stack'[t]) \in Nat
           /\ Len(stack'[t]) >= Len(stack[t])
           /\ \A u \in Threads \ {t} : stack'[u] = stack[u]
PROOF
<1> DEFINE n == Len(stack[t])
<1>1. n \in Nat \ {0} /\ Below(t) \in Seq(Frames) /\ Len(Below(t)) = n - 1 BY TopFacts
<1>2. ASSUME NEW r, NEW S, r \in Seq(S), Len(r) \in Nat \ {0},
             stack' = [stack EXCEPT ![t] = Below(t) \o r]
      PROVE  Len(stack'[t]) \in Nat /\ Len(stack'[t]) >= n
    <2> DEFINE A == Frames \cup S
               b == Below(t)
    <2>1. b \in Seq(A) /\ r \in Seq(A) BY <1>1, <1>2
    <2>2. stack'[t] = b \o r BY <1>2 DEF TypeOK
    <2>3. Len(b) = n - 1 BY <1>1
    <2> HIDE DEF A, b, n
    <2>4. Len(b \o r) = Len(b) + Len(r) BY <2>1, ConcatProperties
    <2> QED BY <1>1, <1>2, <2>2, <2>3, <2>4
<1>3. CASE Become(t, frame)
    <2>1. stack' = [stack EXCEPT ![t] = Below(t) \o <<frame>>] BY <1>3 DEF Become
    <2>2. <<frame>> \in Seq({frame}) /\ Len(<<frame>>) \in Nat \ {0} OBVIOUS
    <2> HIDE DEF n
    <2>3. Len(stack'[t]) \in Nat /\ Len(stack'[t]) >= n BY ONLY <1>2, <2>1, <2>2, Zenon
    <2> QED BY <1>1, <2>1, <2>3 DEF TypeOK, n
<1>4. CASE \E d : Enter(t, frame, d)
    <2>1. PICK d : stack' = [stack EXCEPT ![t] = Below(t) \o <<frame, Frame(d)>>]
        BY <1>4 DEF Enter
    <2>2. /\ <<frame, Frame(d)>> \in Seq({frame, Frame(d)})
          /\ Len(<<frame, Frame(d)>>) \in Nat \ {0}
        OBVIOUS
    <2> HIDE DEF n
    <2>3. Len(stack'[t]) \in Nat /\ Len(stack'[t]) >= n BY ONLY <1>2, <2>1, <2>2, Zenon
    <2> QED BY <1>1, <2>1, <2>3 DEF TypeOK, n
<1> QED BY <1>3, <1>4

\* An activation is over only when it found the class usable, or made it so.
LEMMA ReturnsUsable ==
    ASSUME IInv, fatal = FALSE, Next, NEW t \in Threads, Len(stack'[t]) < Len(stack[t]),
           NEW c \in Classes, c = Top(t).cls
    PROVE  Usable(t, c)'
PROOF
<1>1. TypeOK BY DEF IInv
<1>2. Len(stack[t]) \in Nat BY <1>1, Domains
<1>3. ~ (stack'[t] = stack[t]) BY <1>2
<1>4. ASSUME NEW u \in Threads, Active(u),
             \/ \E frame : Become(u, frame)
             \/ \E frame, d : Enter(u, frame, d)
      PROVE  FALSE
    <2>1. /\ Len(stack[u]) \in Nat /\ Len(stack'[u]) \in Nat
          /\ Len(stack'[u]) >= Len(stack[u])
          /\ \A v \in Threads \ {u} : stack'[v] = stack[v]
        BY <1>1, <1>4, GoesOn
    <2> QED BY <1>3, <2>1
<1>5. ASSUME NEW u \in Threads, Active(u), Return(u),
             NEW d \in Classes, d = Top(u).cls, Usable(u, d), UNCHANGED <<state, initializing>>
      PROVE  Usable(t, c)'
    <2>1. \A v \in Threads \ {u} : stack'[v] = stack[v] BY <1>1, <1>5, ReturnFacts
    <2>2. u = t /\ c = d BY <1>3, <1>5, <2>1
    <2> QED BY <1>5, <2>2 DEF Usable
<1>6. ASSUME NEW u \in Threads, Step(u) PROVE Usable(t, c)'
    <2>1. Active(u) BY <1>6 DEF Step, SuperFirst, SetInitializing, AlreadySet, CallInitialize,
            SendMessage, IsInitializing, NotInitializing, IsInitialized, WaitForInitialize,
            InitializeReturns, InitializeThrows, At
    <2>2. PICK d \in Classes : d = Top(u).cls BY <2>1, TopOK
    <2>3. FrameOK(u, Top(u)) BY <2>1, TopOK
    <2>4. CASE SuperFirst(u) \/ SetInitializing(u) \/ AlreadySet(u)
        <3>1. \/ \E frame : Become(u, frame)
              \/ \E frame, e : Enter(u, frame, e)
            BY <2>4 DEF SuperFirst, SetInitializing, AlreadySet, Goto
        <3> QED BY <1>4, <2>1, <3>1
    <2>5. CASE CallInitialize(u) \/ SendMessage(u) \/ NotInitializing(u)
        <3>1. \/ \E frame : Become(u, frame)
              \/ \E frame, e : Enter(u, frame, e)
            BY <2>5 DEF CallInitialize, SendMessage, NotInitializing, Goto
        <3> QED BY <1>4, <2>1, <3>1
    <2>6. CASE IsInitializing(u)
        <3>1. (\E frame : Become(u, frame)) \/ (Return(u) /\ d \in initializing[u])
            BY <2>2, <2>6 DEF IsInitializing, Goto
        <3>2. UNCHANGED <<state, initializing>> BY <2>6 DEF IsInitializing
        <3> QED BY <1>4, <1>5, <2>1, <2>2, <3>1, <3>2 DEF Usable
    <2>7. CASE IsInitialized(u)
        <3>1. Return(u) /\ At(u, "retest") /\ UNCHANGED <<state, initializing>>
            BY <2>7 DEF IsInitialized
        <3>2. state[d] = "initialized" BY <2>2, <2>3, <3>1 DEF FrameOK, At
        <3> QED BY <1>5, <2>1, <2>2, <3>1, <3>2 DEF Usable
    <2>8. CASE WaitForInitialize(u)
        <3>1. (\E frame : Become(u, frame)) \/ (Return(u) /\ state[d] = "initialized")
            BY <2>2, <2>8 DEF WaitForInitialize, Goto
        <3>2. UNCHANGED <<state, initializing>> BY <2>8 DEF WaitForInitialize
        <3> QED BY <1>4, <1>5, <2>1, <2>2, <3>1, <3>2 DEF Usable
    <2>9. CASE InitializeReturns(u) \/ InitializeThrows(u)
        <3>1. Usable(u, d)' /\ \A v \in Threads \ {u} : Len(stack'[v]) = Len(stack[v])
            BY <2>2, <2>9, EndKeeps
        <3>2. u = t BY <1>2, <3>1
        <3>3. d = c BY <2>2, <3>2
        <3> QED BY <3>1, <3>2, <3>3 DEF Usable
    <2> QED BY <1>6, <2>4, <2>5, <2>6, <2>7, <2>8, <2>9 DEF Step
<1>7. ASSUME NEW u \in Threads, NEW d \in Classes, Message(u, d) PROVE FALSE
    <2>1. stack[u] = <<>> /\ stack' = [stack EXCEPT ![u] = <<Frame(d)>>]
        BY <1>7 DEF Message, Active
    <2>2. Len(stack'[u]) = 1 /\ Len(stack[u]) = 0 BY <1>1, <2>1 DEF TypeOK
    <2>3. \A v \in Threads \ {u} : stack'[v] = stack[v] BY <1>1, <2>1 DEF TypeOK
    <2> QED BY <1>3, <2>2, <2>3
<1>8. ASSUME NEW f \in Callbacks, AddWillInitializeFunc(f) \/ NotifyExisting(f) PROVE FALSE
    BY <1>3, <1>8 DEF AddWillInitializeFunc, NotifyExisting
<1> QED BY <1>6, <1>7, <1>8 DEF Next

\* What is usable has usable superclasses, and nobody else is in their
\* +initialize methods.
LEMMA UsableUpward ==
    ASSUME IInv, NEW t \in Threads, NEW c \in Classes, Usable(t, c)
    PROVE  InitializedFor(t, c)
PROOF
<1> DEFINE S == {d \in Classes : Usable(t, d)}
<1>1. Upward(c, S)
    <2> SUFFICES ASSUME NEW e \in S, Super[e] # nil PROVE Super[e] \in S
        BY DEF Upward
    <2>1. Super[e] \in Classes BY SuperAssumption
    <2>2. CASE state[e] = "initialized"
        BY <2>1, <2>2 DEF IInv, Flags, ContiguousSubtree, Usable
    <2>3. CASE e \in initializing[t]
        BY <2>1, <2>3 DEF IInv, Flags, SuperclassFirst, Usable
    <2> QED BY <2>2, <2>3 DEF Usable
<1>2. {c} \cup Ancestors[c] \subseteq S BY <1>1, AncestorsLeast
<1>3. ASSUME NEW d \in Classes, state[d] = "initialized" PROVE ~ InBody(d)
    <2> SUFFICES ASSUME NEW u \in Threads, NEW i \in DOMAIN stack[u],
                        stack[u][i].cls = d, stack[u][i].pc \in {"start", "body"}
                 PROVE  FALSE
        BY DEF InBody
    <2>1. d \in initializing[u] BY DEF IInv, Stacks, StackOK, FramesOK, FrameOK, Owns
    <2>2. (state[d] = "initializing") = (\E v \in Threads : d \in initializing[v])
        BY DEF IInv, Flags, Listed
    <2> QED BY <1>3, <2>1, <2>2
<1> QED BY <1>2, <1>3 DEF InitializedFor, Usable

\* Flags are never taken back.
LEMMA StaysInitialized ==
    ASSUME IInv, Next, NEW c \in Classes, state[c] = "initialized"
    PROVE  state'[c] = "initialized"
PROOF
<1>t. state \in [Classes -> {"none", "initializing", "initialized"}] BY DEF IInv, TypeOK
<1>1. ASSUME NEW t \in Threads, Step(t) PROVE state'[c] = "initialized"
    <2>1. CASE SetInitializing(t) BY <2>1, <1>t DEF SetInitializing
    <2>2. ASSUME NEW rest, Finish(t, rest) PROVE state'[c] = "initialized"
        BY <2>2 DEF Finish
    <2>3. CASE InitializeReturns(t) \/ InitializeThrows(t)
        BY <2>2, <2>3 DEF InitializeReturns, InitializeThrows
    <2>4. CASE state' = state BY <2>4
    <2> QED BY <1>1, <2>1, <2>3, <2>4 DEF Step, SuperFirst, AlreadySet, CallInitialize,
            SendMessage, IsInitializing, NotInitializing, IsInitialized, WaitForInitialize
<1>2. ASSUME NEW t \in Threads, NEW d \in Classes, Message(t, d)
      PROVE  state'[c] = "initialized"
    BY <1>2 DEF Message
<1>3. ASSUME NEW f \in Callbacks, AddWillInitializeFunc(f) \/ NotifyExisting(f)
      PROVE  state'[c] = "initialized"
    BY <1>3 DEF AddWillInitializeFunc, NotifyExisting
<1> QED BY <1>1, <1>2, <1>3 DEF Next

\* Whenever a message is let through, on the return of initializeNonMetaClass
\* or by the read of the flags without classInitLock, the +initialize methods of
\* the class and of all its superclasses are over, or are the thread's own.
THEOREM DoneMeansUsableHolds == Spec => DoneMeansUsable
PROOF
<1> DEFINE Done == \A t \in Threads, c \in Classes :
                       LetThrough(t, c) => InitializedFor(t, c)'
           Ready == \A t \in Threads, c \in Classes : Usable(t, c) => InitializedFor(t, c)
<1>0. IInv => Ready BY UsableUpward
<1>1. ASSUME IInv, [Next]_vars, Ready' PROVE [Done]_vars
    <2> SUFFICES ASSUME Next, NEW t \in Threads, NEW c \in Classes, LetThrough(t, c)
                 PROVE  InitializedFor(t, c)'
        BY <1>1
    <2>1. fatal = FALSE BY <1>1 DEF IInv, TypeOK, NoFatal
    <2>2. Len(stack'[t]) < Len(stack[t]) /\ Top(t).cls = c => Usable(t, c)'
        BY <1>1, <2>1, ReturnsUsable
    <2>3. state[c] = "initialized" => Usable(t, c)'
        BY <1>1, StaysInitialized DEF Usable
    <2> QED BY <1>1, <2>2, <2>3 DEF LetThrough
<1>2. Spec => [][Done]_vars BY <1>0, <1>1, Invariance, PTL DEF Spec
<1> QED BY <1>2 DEF DoneMeansUsable
=============================================================================
