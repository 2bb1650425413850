----------------------- MODULE CFRunLoopTimersProofs -----------------------
(***************************************************************************)
(* The timers of a run loop, for any modes, timers, dates and clients and  *)
(* any depth of runs: a timer is never called while it is being called,    *)
(* the arrays stay sorted, and a mode's alarm comes in time.               *)
(***************************************************************************)
EXTENDS CFRunLoopTimers, FiniteSetTheorems, SequenceTheorems, WellFoundedInduction, TLAPS

(* Induction over the numbers, for a set of them.                          *)

LEMMA SetInduction ==
    ASSUME NEW S, 0 \in S, \A n \in Nat : n \in S => n + 1 \in S
    PROVE  Nat \subseteq S
PROOF
<1> SUFFICES ASSUME Nat \ S # {} PROVE FALSE OBVIOUS
<1> DEFINE R == OpToRel(<, Nat)
<1>1. IsWellFoundedOn(R, Nat) BY NatLessThanWellFounded
<1>2. \A x, y \in Nat : x < y => <<x, y>> \in R BY DEF OpToRel
<1> HIDE DEF R
<1>3. PICK x \in Nat \ S : \A y \in Nat \ S : ~(<<y, x>> \in R)
    BY <1>1, WFMin
<1>4. x # 0 /\ x - 1 \in Nat /\ x - 1 < x /\ x = (x - 1) + 1 OBVIOUS
<1>5. x - 1 \in S BY <1>2, <1>3, <1>4
<1> QED BY <1>4, <1>5

\* A set of numbers that is not empty has a least one.
LEMMA MinExists ==
    ASSUME NEW S, S \subseteq Nat, S # {}
    PROVE  Min(S) \in S /\ \A x \in S : Min(S) <= x
PROOF
<1> DEFINE R == OpToRel(<, Nat)
<1>1. IsWellFoundedOn(R, Nat) BY NatLessThanWellFounded
<1>2. \A x, y \in Nat : x < y => <<x, y>> \in R BY DEF OpToRel
<1> HIDE DEF R
<1>3. PICK x \in S : \A y \in S : ~(<<y, x>> \in R) BY <1>1, WFMin
<1>4. \A y \in S : x <= y
    <2> TAKE y \in S
    <2>1. x \in Nat /\ y \in Nat OBVIOUS
    <2>2. ~(y < x) BY <1>2, <1>3, <2>1
    <2> QED BY <2>1, <2>2
<1> QED BY <1>4 DEF Min

-----------------------------------------------------------------------------
(* Loops: the function Iterate takes its value from exists.                *)

\* f holds the states of a loop up to turn n.
Upto(turn, s, f, n) == f = [k \in 0..n |-> IF k = 0 THEN s ELSE turn[f[k - 1]]]

\* There is such a function for every n.
LEMMA UptoExists ==
    ASSUME NEW turn, NEW s PROVE \A n \in Nat : \E f : Upto(turn, s, f, n)
PROOF
<1> DEFINE S == {n \in Nat : \E f : Upto(turn, s, f, n)}
<1>1. 0 \in S
    <2> DEFINE f == [k \in 0..0 |-> s]
    <2>1. f = [k \in 0..0 |-> IF k = 0 THEN s ELSE turn[f[k - 1]]] OBVIOUS
    <2>2. Upto(turn, s, f, 0) BY <2>1 DEF Upto
    <2> QED BY <2>2
<1>2. ASSUME NEW n \in Nat, n \in S PROVE n + 1 \in S
    <2>1. PICK f : Upto(turn, s, f, n) BY <1>2
    <2> DEFINE g == [k \in 0..(n + 1) |-> IF k = n + 1 THEN turn[f[n]] ELSE f[k]]
    <2>2. \A k \in 0..n : f[k] = IF k = 0 THEN s ELSE turn[f[k - 1]] BY <2>1 DEF Upto
    <2>3. \A k \in 0..(n + 1) : g[k] = IF k = 0 THEN s ELSE turn[g[k - 1]]
        <3> TAKE k \in 0..(n + 1)
        <3>1. CASE k = n + 1
            <4>1. g[k] = turn[f[n]] /\ k # 0 /\ k - 1 = n /\ n \in 0..(n + 1) /\ n # n + 1 BY <3>1
            <4>2. g[n] = f[n] BY <4>1
            <4> HIDE DEF g
            <4> QED BY <4>1, <4>2
        <3>2. CASE k # n + 1 /\ k # 0
            <4>1. g[k] = f[k] /\ k \in 0..n /\ k - 1 \in 0..(n + 1) /\ k - 1 # n + 1 BY <3>2
            <4>2. g[k - 1] = f[k - 1] BY <4>1
            <4> HIDE DEF g
            <4> QED BY <4>1, <4>2, <2>2, <3>2
        <3>3. CASE k # n + 1 /\ k = 0
            <4>1. g[k] = f[k] /\ k \in 0..n BY <3>3
            <4> HIDE DEF g
            <4> QED BY <4>1, <2>2, <3>3
        <3> QED BY <3>1, <3>2, <3>3
    <2>4. g = [k \in 0..(n + 1) |-> g[k]] OBVIOUS
    <2> HIDE DEF g
    <2>5. g = [k \in 0..(n + 1) |-> IF k = 0 THEN s ELSE turn[g[k - 1]]] BY <2>3, <2>4
    <2>6. Upto(turn, s, g, n + 1) BY <2>5 DEF Upto
    <2> QED BY <2>6
<1> HIDE DEF S
<1>3. Nat \subseteq S BY <1>1, <1>2, SetInduction
<1> QED BY <1>3 DEF S

\* Two such functions agree as far as both reach.
LEMMA UptoAgree ==
    ASSUME NEW turn, NEW s, NEW m \in Nat, NEW n \in Nat, NEW f, NEW g,
           Upto(turn, s, f, m), Upto(turn, s, g, n)
    PROVE  \A k \in Nat : k <= m /\ k <= n => f[k] = g[k]
PROOF
<1> DEFINE S == {k \in Nat : k <= m /\ k <= n => f[k] = g[k]}
<1>f. \A k \in 0..m : f[k] = IF k = 0 THEN s ELSE turn[f[k - 1]] BY DEF Upto
<1>g. \A k \in 0..n : g[k] = IF k = 0 THEN s ELSE turn[g[k - 1]] BY DEF Upto
<1>1. 0 \in S BY <1>f, <1>g
<1>2. ASSUME NEW k \in Nat, k \in S PROVE k + 1 \in S
    <2> SUFFICES ASSUME k + 1 <= m, k + 1 <= n PROVE f[k + 1] = g[k + 1] OBVIOUS
    <2>1. f[k] = g[k] BY <1>2
    <2>2. k + 1 \in 0..m /\ k + 1 \in 0..n /\ (k + 1) - 1 = k /\ k + 1 # 0 OBVIOUS
    <2>3. f[k + 1] = turn[f[k]] BY <1>f, <2>2
    <2>4. g[k + 1] = turn[g[k]] BY <1>g, <2>2
    <2> QED BY <2>1, <2>3, <2>4
<1> HIDE DEF S
<1>3. Nat \subseteq S BY <1>1, <1>2, SetInduction
<1> QED BY <1>3 DEF S

\* The function that Iterate takes its value from exists.
LEMMA IterateSteps ==
    ASSUME NEW turn, NEW s
    PROVE  /\ Iterate(turn, s, 0) = s
           /\ \A n \in Nat : Iterate(turn, s, n + 1) = turn[Iterate(turn, s, n)]
PROOF
<1> DEFINE F(n) == CHOOSE f : Upto(turn, s, f, n)
           G == [n \in Nat |-> F(n)[n]]
           after[k \in Nat] == IF k = 0 THEN s ELSE turn[after[k - 1]]
<1>1. \A n \in Nat : Upto(turn, s, F(n), n) BY UptoExists
<1> HIDE DEF F
<1>2. \A n \in Nat : G[n] = IF n = 0 THEN s ELSE turn[G[n - 1]]
    <2> TAKE n \in Nat
    <2>1. \A k \in 0..n : F(n)[k] = IF k = 0 THEN s ELSE turn[F(n)[k - 1]] BY <1>1 DEF Upto
    <2>2. CASE n = 0 BY <2>1, <2>2
    <2>3. CASE n # 0
        <3>1. n - 1 \in Nat /\ n - 1 <= n /\ n \in 0..n BY <2>3
        <3>2. F(n)[n - 1] = F(n - 1)[n - 1] BY <3>1, <1>1, UptoAgree
        <3>3. G[n] = F(n)[n] /\ G[n - 1] = F(n - 1)[n - 1] BY <3>1
        <3> HIDE DEF G
        <3> QED BY <3>1, <3>2, <3>3, <2>1, <2>3
    <2> QED BY <2>2, <2>3
<1>3. G = [n \in Nat |-> G[n]] OBVIOUS
<1> HIDE DEF G
<1>4. G = [n \in Nat |-> IF n = 0 THEN s ELSE turn[G[n - 1]]] BY <1>2, <1>3
<1>5. after = [n \in Nat |-> IF n = 0 THEN s ELSE turn[after[n - 1]]] BY <1>4
<1>6. \A n \in Nat : Iterate(turn, s, n) = after[n] BY DEF Iterate
<1> HIDE DEF after
<1>7. \A n \in Nat : after[n] = IF n = 0 THEN s ELSE turn[after[n - 1]] BY <1>5
<1>8. after[0] = s BY <1>7
<1>9. \A n \in Nat : after[n + 1] = turn[after[n]]
    <2> TAKE n \in Nat
    <2>1. n + 1 \in Nat /\ n + 1 # 0 /\ (n + 1) - 1 = n OBVIOUS
    <2> QED BY <2>1, <1>7
<1> QED BY <1>6, <1>8, <1>9

-----------------------------------------------------------------------------
(* The binary search for the place of a timer.                             *)

\* 1 << n doubles with n, and is greater than n.
LEMMA ShiftedSteps ==
    /\ Shifted(0) = 1
    /\ \A n \in Nat : Shifted(n) \in Nat /\ Shifted(n + 1) = 2 * Shifted(n)
    /\ \A n \in Nat : Shifted(n) > n
PROOF
<1> DEFINE double == [p \in Nat |-> 2 * p]
           S == {n \in Nat : Shifted(n) \in Nat /\ Shifted(n) > n}
<1>1. Shifted(0) = 1 /\ \A n \in Nat : Shifted(n + 1) = double[Shifted(n)]
    BY IterateSteps DEF Shifted
<1>2. \A n \in Nat : Shifted(n) \in Nat => Shifted(n + 1) = 2 * Shifted(n) BY <1>1
<1>3. 0 \in S BY <1>1
<1>4. ASSUME NEW n \in Nat, n \in S PROVE n + 1 \in S
    <2>1. Shifted(n) \in Nat /\ Shifted(n) > n /\ Shifted(n + 1) = 2 * Shifted(n) BY <1>2, <1>4
    <2>2. Shifted(n + 1) \in Nat /\ Shifted(n + 1) > n + 1 BY <2>1
    <2> QED BY <2>2
<1> HIDE DEF S
<1>5. Nat \subseteq S BY <1>3, <1>4, SetInduction
<1>6. \A n \in Nat : Shifted(n) \in Nat /\ Shifted(n) > n BY <1>5 DEF S
<1> QED BY <1>1, <1>2, <1>6

\* The bits of n are enough for n.
LEMMA flslBounds ==
    ASSUME NEW n \in Nat, n > 0
    PROVE  /\ flsl(n) \in Nat /\ flsl(n) > 0
           /\ Shifted(flsl(n)) > n
PROOF
<1> DEFINE B == {k \in Nat : Shifted(k) > n}
           R == OpToRel(<, Nat)
<1>1. IsWellFoundedOn(R, Nat) BY NatLessThanWellFounded
<1>2. \A x, y \in Nat : x < y => <<x, y>> \in R BY DEF OpToRel
<1>3. n \in B BY ShiftedSteps
<1> HIDE DEF R
<1>4. PICK k \in B : \A j \in B : ~(<<j, k>> \in R) BY <1>1, <1>3, WFMin
<1>5. \A j \in Nat : Shifted(j) > n => ~(j < k) BY <1>2, <1>4
<1>6. k \in 0..n BY <1>3, <1>5
<1>7. \A j \in 0..(k - 1) : Shifted(j) <= n
    <2> TAKE j \in 0..(k - 1)
    <2>1. j \in Nat /\ j < k BY <1>6
    <2>2. ~(Shifted(j) > n) /\ Shifted(j) \in Nat BY <2>1, <1>5, ShiftedSteps
    <2> QED BY <2>2
<1>8. Shifted(k) > n BY <1>4
<1>9. /\ flsl(n) \in 0..n /\ Shifted(flsl(n)) > n
    BY <1>6, <1>7, <1>8 DEF flsl
<1>10. flsl(n) # 0 BY <1>9, ShiftedSteps
<1> QED BY <1>9, <1>10

THEOREM InsertionIndexCorrect ==
    ASSUME NEW T, NEW a \in Seq(T), NEW d \in Nat, NEW date \in [T -> Nat]
    PROVE  /\ InsertionIndex(a, d, date) \in 0..Len(a)
           /\ InsertionIndex(a, d, date) > 0 => date[a[InsertionIndex(a, d, date)]] <= d
           /\ InsertionIndex(a, d, date) < Len(a) => date[a[InsertionIndex(a, d, date) + 1]] > d
PROOF
<1> DEFINE cnt == Len(a)
           LEQ(i) == i < cnt /\ date[a[i + 1]] <= d
           turn == [s \in Nat \X Nat |->
                    LET add == s[1] \div 2  testIdx == s[2] + add IN
                    <<add, IF LEQ(testIdx) THEN testIdx ELSE s[2]>>]
           k == flsl(cnt)
           st(j) == Iterate(turn, <<Shifted(k) * 2, 0>>, j)
           idx == st(k + 2)[2]
           r == InsertionIndex(a, d, date)
<1>1. CASE cnt = 0 BY <1>1 DEF InsertionIndex
<1>3. CASE 256 < cnt /\ date[a[cnt]] <= d
    <2>1. cnt \in Nat OBVIOUS
    <2>2. r = cnt BY <1>3, <2>1 DEF InsertionIndex
    <2> HIDE DEF r, cnt
    <2>3. r \in 0..cnt /\ ~(r < cnt) BY <2>1, <2>2
    <2> QED BY <1>3, <2>2, <2>3 DEF r, cnt
<1>4. CASE 256 < cnt /\ d < date[a[1]] /\ ~(date[a[cnt]] <= d)
    <2>1. r = 0 BY <1>4 DEF InsertionIndex
    <2>2. a[1] \in T /\ cnt \in Nat BY <1>4
    <2> QED BY <1>4, <2>1, <2>2
<1>2. CASE /\ cnt # 0 /\ ~(256 < cnt /\ date[a[cnt]] <= d)
           /\ ~(256 < cnt /\ d < date[a[1]])
    <2>1. r = IF LEQ(idx) THEN idx + 1 ELSE idx BY <1>2 DEF InsertionIndex
    <2>2. cnt \in Nat /\ cnt > 0 BY <1>2
    <2>3. k \in Nat /\ k > 0 /\ Shifted(k) > cnt BY <2>2, flslBounds
    <2>4. \A i \in Nat : LEQ(i) => i + 1 \in 1..cnt BY <2>2
    <2>5. \A add, i \in Nat : turn[<<2 * add, i>>] = <<add, IF LEQ(i + add) THEN i + add ELSE i>>
        <3> TAKE add, i \in Nat
        <3>1. <<2 * add, i>> \in Nat \X Nat OBVIOUS
        <3>2. (2 * add) \div 2 = add OBVIOUS
        <3>3. turn[<<2 * add, i>>] =
                  <<(2 * add) \div 2,
                    IF LEQ(i + ((2 * add) \div 2)) THEN i + ((2 * add) \div 2) ELSE i>>
            BY <3>1
        <3> HIDE DEF turn, LEQ
        <3> QED BY <3>2, <3>3
    <2>5a. \A i \in Nat : turn[<<1, i>>] = <<0, i>>
        <3> TAKE i \in Nat
        <3>1. <<1, i>> \in Nat \X Nat /\ 1 \div 2 = 0 /\ i + 0 = i OBVIOUS
        <3>2. turn[<<1, i>>] = <<1 \div 2, IF LEQ(i + (1 \div 2)) THEN i + (1 \div 2) ELSE i>>
            BY <3>1
        <3> HIDE DEF turn, LEQ
        <3> QED BY <3>1, <3>2
    <2>6. LEQ(0) \in BOOLEAN /\ \A i \in Nat : i >= cnt => ~LEQ(i) BY <2>2
    <2>s. Shifted(k) \in Nat BY <2>3, ShiftedSteps
    <2> HIDE DEF turn, LEQ, k
    <2>7. st(0) = <<2 * Shifted(k), 0>> /\ \A j \in Nat : st(j + 1) = turn[st(j)]
        <3>1. Shifted(k) * 2 = 2 * Shifted(k) BY <2>s
        <3>2. st(0) = <<Shifted(k) * 2, 0>> BY IterateSteps
        <3>3. \A j \in Nat : st(j + 1) = turn[st(j)] BY IterateSteps
        <3> HIDE DEF st
        <3> QED BY <3>1, <3>2, <3>3
    <2> HIDE DEF st
    <2> DEFINE Inv(j) == \E i \in Nat : /\ st(j) = <<Shifted((k + 1) - j), i>>
                                        /\ i = 0 \/ LEQ(i)
                                        /\ ~LEQ(i + Shifted((k + 1) - j))
               S == {j \in Nat : j <= k => Inv(j + 1)}
    <2>8. 0 \in S
        <3>1. Shifted(k) \in Nat /\ Shifted(k) >= cnt BY <2>3, <2>2, <2>s
        <3>2. st(0 + 1) = turn[<<2 * Shifted(k), 0>>] BY <2>7
        <3>3. turn[<<2 * Shifted(k), 0>>] = <<Shifted(k), 0>> BY <2>5, <2>6, <3>1
        <3>4. ~LEQ(0 + Shifted(k)) /\ (k + 1) - (0 + 1) = k BY <2>3, <2>6, <3>1
        <3>5. Inv(0 + 1) BY <3>2, <3>3, <3>4
        <3> QED BY <3>5
    <2>9. ASSUME NEW j \in Nat, j \in S PROVE j + 1 \in S
        <3> SUFFICES ASSUME j + 1 <= k PROVE Inv((j + 1) + 1) OBVIOUS
        <3>1. Inv(j + 1) BY <2>9, <2>3
        <3>2. PICK i \in Nat : /\ st(j + 1) = <<Shifted((k + 1) - (j + 1)), i>>
                               /\ i = 0 \/ LEQ(i)
                               /\ ~LEQ(i + Shifted((k + 1) - (j + 1)))
            BY <3>1
        <3> DEFINE l == (k + 1) - ((j + 1) + 1)
                   p == Shifted(l)
                   i2 == IF LEQ(i + p) THEN i + p ELSE i
        <3>3. l \in Nat /\ (k + 1) - (j + 1) = l + 1 BY <2>3
        <3>4. p \in Nat /\ Shifted(l + 1) = 2 * p BY <3>3, ShiftedSteps
        <3>5. st((j + 1) + 1) = turn[<<2 * p, i>>]
            <4>1. st(j + 1) = <<2 * p, i>> BY <3>2, <3>3, <3>4
            <4>2. st((j + 1) + 1) = turn[st(j + 1)] BY <2>7
            <4> QED BY <4>1, <4>2
        <3> HIDE DEF p
        <3>6. st((j + 1) + 1) = <<p, i2>> BY <2>5, <3>4, <3>5
        <3>7. i2 \in Nat /\ (i2 = 0 \/ LEQ(i2)) BY <3>2, <3>4
        <3>8. ~LEQ(i2 + p)
            <4>1. ~LEQ(i + 2 * p) BY <3>2, <3>3, <3>4
            <4>2. (i + p) + p = i + 2 * p BY <3>4
            <4> QED BY <4>1, <4>2
        <3> HIDE DEF i2
        <3>9. Inv((j + 1) + 1) BY <3>6, <3>7, <3>8 DEF p
        <3> QED BY <3>9
    <2> HIDE DEF S
    <2>10. Nat \subseteq S BY <2>8, <2>9, SetInduction
    <2>11. Inv(k + 1) BY <2>10, <2>3 DEF S
    <2>12. PICK i \in Nat : st(k + 1) = <<1, i>> /\ (i = 0 \/ LEQ(i)) /\ ~LEQ(i + 1)
        <3>1. (k + 1) - (k + 1) = 0 /\ Shifted(0) = 1 BY <2>3, ShiftedSteps
        <3> QED BY <2>11, <3>1
    <2>13. st(k + 2) = <<0, i>>
        <3>1. k + 2 = (k + 1) + 1 /\ k + 1 \in Nat BY <2>3
        <3> QED BY <3>1, <2>7, <2>12, <2>5a
    <2>14. idx = i BY <2>13
    <2> HIDE DEF idx
    <2>15. CASE LEQ(i)
        <3>1. r = i + 1 BY <2>1, <2>14, <2>15
        <3>2. i < cnt /\ date[a[i + 1]] <= d BY <2>15 DEF LEQ
        <3>3. i + 1 < cnt => ~(date[a[(i + 1) + 1]] <= d) BY <2>12 DEF LEQ
        <3>4. i + 1 < cnt => a[(i + 1) + 1] \in T BY <2>2
        <3>5. i + 1 < cnt => date[a[(i + 1) + 1]] > d BY <3>3, <3>4
        <3>6. i + 1 \in 0..cnt BY <3>2, <2>2
        <3> HIDE DEF r, cnt
        <3> QED BY <3>1, <3>2, <3>5, <3>6 DEF r, cnt
    <2>16. CASE ~LEQ(i)
        <3>1. r = 0 /\ i = 0 BY <2>1, <2>12, <2>14, <2>16
        <3>2. ~(date[a[0 + 1]] <= d) BY <2>16, <3>1, <2>2 DEF LEQ
        <3>3. date[a[0 + 1]] > d BY <3>2, <2>2
        <3> HIDE DEF r, cnt
        <3> QED BY <3>1, <3>3, <2>2 DEF r, cnt
    <2> QED BY <2>15, <2>16
<1> QED BY <1>1, <1>2, <1>3, <1>4

-----------------------------------------------------------------------------
(* Arrays from which a timer is taken, and into which one is inserted.     *)

\* What InsertAt of the community modules returns, element by element.
LEMMA InsertAtElements ==
    ASSUME NEW T, NEW a \in Seq(T), NEW e \in T, NEW r \in 0..Len(a)
    PROVE  /\ InsertAt(a, r + 1, e) \in Seq(T)
           /\ Len(InsertAt(a, r + 1, e)) = Len(a) + 1
           /\ \A i \in 1..(Len(a) + 1) : InsertAt(a, r + 1, e)[i] =
                  IF i <= r THEN a[i] ELSE IF i = r + 1 THEN e ELSE a[i - 1]
PROOF
<1> DEFINE p == SubSeq(a, 1, r)
           q == SubSeq(a, r + 1, Len(a))
           n == Len(a)
<1>0. n \in Nat /\ r \in Nat /\ r <= n /\ (r + 1) - 1 = r OBVIOUS
<1>1. InsertAt(a, r + 1, e) = (p \o <<e>>) \o q BY <1>0 DEF InsertAt
<1>2. p \in Seq(T) /\ Len(p) = r /\ \A i \in 1..r : p[i] = a[i]
    BY <1>0
<1>3. q \in Seq(T) /\ Len(q) = n - r /\ \A i \in 1..(n - r) : q[i] = a[r + i]
    BY <1>0
<1> HIDE DEF p, q, n
<1>4. /\ p \o <<e>> \in Seq(T) /\ Len(p \o <<e>>) = r + 1
      /\ \A i \in 1..(r + 1) : (p \o <<e>>)[i] = IF i <= r THEN a[i] ELSE e
    BY <1>0, <1>2
<1> DEFINE u == p \o <<e>>
<1>5. u \in Seq(T) /\ Len(u) = r + 1 /\ \A i \in 1..(r + 1) : u[i] = IF i <= r THEN a[i] ELSE e
    BY <1>4
<1> HIDE DEF u
<1> DEFINE w == u \o q
<1>a. /\ w \in Seq(T) /\ Len(w) = Len(u) + Len(q)
      /\ \A i \in 1..(Len(u) + Len(q)) : w[i] = IF i <= Len(u) THEN u[i] ELSE q[i - Len(u)]
    BY <1>3, <1>5, ConcatProperties
<1>b. Len(u) + Len(q) = n + 1 BY <1>0, <1>3, <1>5
<1> HIDE DEF w
<1>6. /\ w \in Seq(T) /\ Len(w) = n + 1
      /\ \A i \in 1..(n + 1) : w[i] = IF i <= r + 1 THEN u[i] ELSE q[i - (r + 1)]
    BY <1>a, <1>b, <1>5
<1>7. \A i \in 1..(n + 1) : i > r + 1 => q[i - (r + 1)] = a[i - 1]
    <2> TAKE i \in 1..(n + 1)
    <2> HAVE i > r + 1
    <2>1. i - (r + 1) \in 1..(n - r) /\ r + (i - (r + 1)) = i - 1 BY <1>0
    <2> QED BY <2>1, <1>3
<1>8. \A i \in 1..(n + 1) : w[i] =
          IF i <= r THEN a[i] ELSE IF i = r + 1 THEN e ELSE a[i - 1]
    <2> TAKE i \in 1..(n + 1)
    <2>1. CASE i <= r BY <2>1, <1>0, <1>5, <1>6
    <2>2. CASE i = r + 1 BY <2>2, <1>0, <1>5, <1>6
    <2>3. CASE i > r + 1
        <3>1. ~(i <= r) /\ i # r + 1 /\ ~(i <= r + 1) BY <2>3, <1>0
        <3>2. w[i] = q[i - (r + 1)] BY <3>1, <1>6
        <3>3. q[i - (r + 1)] = a[i - 1] BY <2>3, <1>7
        <3> QED BY <3>1, <3>2, <3>3
    <2> QED BY <2>1, <2>2, <2>3, <1>0
<1>9. InsertAt(a, r + 1, e) = w BY <1>1 DEF u, w
<1> QED BY <1>6, <1>8, <1>9 DEF n

\* What RemoveFirst of the community modules returns.
LEMMA RemoveFirstElements ==
    ASSUME NEW T, NEW a \in Seq(T), NEW e, e \in ToSet(a)
    PROVE  /\ RemoveFirst(a, e) \in Seq(T)
           /\ Len(RemoveFirst(a, e)) = Len(a) - 1
           /\ \E p \in 1..Len(a) :
                 /\ a[p] = e
                 /\ \A i \in 1..(Len(a) - 1) : RemoveFirst(a, e)[i] =
                        IF i < p THEN a[i] ELSE a[i + 1]
PROOF
<1> DEFINE I == {i \in 1..Len(a) : a[i] = e}
           n == Len(a)
<1>k. PICK k \in 1..Len(a) : a[k] = e BY DEF ToSet
<1>1. PICK p \in 1..Len(a) : a[p] = e /\ SelectInSeq(a, LAMBDA v : v = e) = p
    <2>1. I \subseteq Nat /\ I # {} BY <1>k
    <2> DEFINE R == OpToRel(<, Nat)
    <2>2. IsWellFoundedOn(R, Nat) BY NatLessThanWellFounded
    <2>3. \A x, y \in Nat : x < y => <<x, y>> \in R BY DEF OpToRel
    <2> HIDE DEF R, I
    <2>4. PICK x \in I : \A y \in I : ~(<<y, x>> \in R) BY <2>1, <2>2, WFMin
    <2>5. \A y \in I : x <= y
        <3> TAKE y \in I
        <3>1. x \in Nat /\ y \in Nat BY <2>1
        <3>2. ~(y < x) BY <2>3, <2>4, <3>1
        <3> QED BY <3>1, <3>2
    <2>6. Min(I) \in I BY <2>4, <2>5 DEF Min
    <2>7. SelectInSeq(a, LAMBDA v : v = e) = Min(I) BY <2>1 DEF SelectInSeq, I
    <2> QED BY <2>6, <2>7 DEF I
<1>2. RemoveFirst(a, e) = SubSeq(a, 1, p - 1) \o SubSeq(a, p + 1, n)
    BY <1>1 DEF RemoveFirst, RemoveAt
<1> DEFINE u == SubSeq(a, 1, p - 1)
           v == SubSeq(a, p + 1, n)
<1>0. n \in Nat /\ p \in Nat /\ p > 0 /\ p <= n OBVIOUS
<1>3. u \in Seq(T) /\ Len(u) = p - 1 /\ \A i \in 1..(p - 1) : u[i] = a[i] BY <1>0
<1>4. v \in Seq(T) /\ Len(v) = n - p /\ \A i \in 1..(n - p) : v[i] = a[p + i] BY <1>0
<1> HIDE DEF u, v, n
<1> DEFINE w == u \o v
<1>a. /\ w \in Seq(T) /\ Len(w) = Len(u) + Len(v)
      /\ \A i \in 1..(Len(u) + Len(v)) : w[i] = IF i <= Len(u) THEN u[i] ELSE v[i - Len(u)]
    BY <1>3, <1>4, ConcatProperties
<1>b. Len(u) + Len(v) = n - 1 BY <1>0, <1>3, <1>4
<1> HIDE DEF w
<1>5. /\ w \in Seq(T) /\ Len(w) = n - 1
      /\ \A i \in 1..(n - 1) : w[i] = IF i <= p - 1 THEN u[i] ELSE v[i - (p - 1)]
    BY <1>a, <1>b, <1>3
<1>6. \A i \in 1..(n - 1) : w[i] = IF i < p THEN a[i] ELSE a[i + 1]
    <2> TAKE i \in 1..(n - 1)
    <2>1. CASE i < p BY <2>1, <1>0, <1>3, <1>5
    <2>2. CASE i >= p
        <3>1. i - (p - 1) \in 1..(n - p) /\ p + (i - (p - 1)) = i + 1 BY <2>2, <1>0
        <3> QED BY <3>1, <2>2, <1>0, <1>4, <1>5
    <2> QED BY <2>1, <2>2, <1>0
<1>7. RemoveFirst(a, e) = w BY <1>2 DEF u, v, w, n
<1> QED BY <1>1, <1>5, <1>6, <1>7 DEF n

\* What an array holds stays put, but for the timer taken out of it.
LEMMA RemoveFirstCorrect ==
    ASSUME NEW T, NEW a \in Seq(T), IsInjective(a), NEW e
    PROVE  /\ RemoveFirst(a, e) \in Seq(T)
           /\ IsInjective(RemoveFirst(a, e))
           /\ ToSet(RemoveFirst(a, e)) = ToSet(a) \ {e}
PROOF
<1> DEFINE b == RemoveFirst(a, e)
<1>1. CASE \E k \in 1..Len(a) : a[k] = e
    <2>1. PICK p \in 1..Len(a) :
              /\ b \in Seq(T) /\ Len(b) = Len(a) - 1 /\ a[p] = e
              /\ \A i \in 1..(Len(a) - 1) : b[i] = IF i < p THEN a[i] ELSE a[i + 1]
        <3>1. e \in ToSet(a) BY <1>1 DEF ToSet
        <3>2. /\ b \in Seq(T) /\ Len(b) = Len(a) - 1
              /\ \E p \in 1..Len(a) :
                    /\ a[p] = e
                    /\ \A i \in 1..(Len(a) - 1) : b[i] = IF i < p THEN a[i] ELSE a[i + 1]
            BY <3>1, RemoveFirstElements
        <3> HIDE DEF b
        <3> QED BY <3>2
    <2> HIDE DEF b
    <2>2. \A i, j \in 1..Len(a) : a[i] = a[j] => i = j BY DEF IsInjective
    <2>3. \A i, j \in 1..Len(b) : b[i] = b[j] => i = j
        <3> TAKE i, j \in 1..Len(b)
        <3>1. CASE i < p /\ j < p BY <3>1, <2>1, <2>2
        <3>2. CASE i < p /\ j >= p BY <3>2, <2>1, <2>2
        <3>3. CASE i >= p /\ j < p BY <3>3, <2>1, <2>2
        <3>4. CASE i >= p /\ j >= p BY <3>4, <2>1, <2>2
        <3> QED BY <3>1, <3>2, <3>3, <3>4
    <2>4. \A i \in 1..Len(b) : b[i] \in ToSet(a) \ {e}
        <3> TAKE i \in 1..Len(b)
        <3>1. CASE i < p BY <3>1, <2>1, <2>2 DEF ToSet
        <3>2. CASE i >= p BY <3>2, <2>1, <2>2 DEF ToSet
        <3> QED BY <3>1, <3>2
    <2>5. \A j \in 1..Len(a) : a[j] # e => \E i \in 1..Len(b) : b[i] = a[j]
        <3> SUFFICES ASSUME NEW j \in 1..Len(a), a[j] # e
                     PROVE  \E i \in 1..Len(b) : b[i] = a[j]
            OBVIOUS
        <3>1. CASE j < p
            <4>1. j \in 1..Len(b) /\ b[j] = a[j] BY <3>1, <2>1
            <4> QED BY <4>1
        <3>2. CASE j > p
            <4>1. j - 1 \in 1..Len(b) /\ ~(j - 1 < p) /\ (j - 1) + 1 = j BY <3>2, <2>1
            <4>2. b[j - 1] = a[j] BY <4>1, <2>1
            <4> QED BY <4>1, <4>2
        <3> QED BY <3>1, <3>2, <2>1
    <2>6. DOMAIN b = 1..Len(b) /\ DOMAIN a = 1..Len(a) BY <2>1
    <2>7. IsInjective(b) BY <2>3, <2>6 DEF IsInjective
    <2>8. ToSet(b) = ToSet(a) \ {e}
        <3>1. ToSet(b) \subseteq ToSet(a) \ {e} BY <2>4, <2>6 DEF ToSet
        <3>2. ToSet(a) \ {e} \subseteq ToSet(b) BY <2>5, <2>6 DEF ToSet
        <3> QED BY <3>1, <3>2
    <2> QED BY <2>1, <2>7, <2>8 DEF b
<1>2. CASE ~ \E k \in 1..Len(a) : a[k] = e
    BY <1>2 DEF RemoveFirst, ToSet
<1> QED BY <1>1, <1>2

\* It stays sorted, whatever the date of the timer taken out becomes.
LEMMA RemoveFirstSorted ==
    ASSUME NEW T, NEW a \in Seq(T), IsInjective(a), NEW e, e \in ToSet(a),
           NEW date, NEW date2, Sorted(a, date),
           \A t \in T : t # e => date2[t] = date[t]
    PROVE  Sorted(RemoveFirst(a, e), date2)
PROOF
<1> DEFINE b == RemoveFirst(a, e)
<1>1. PICK p \in 1..Len(a) :
          /\ b \in Seq(T) /\ Len(b) = Len(a) - 1 /\ a[p] = e
          /\ \A i \in 1..(Len(a) - 1) : b[i] = IF i < p THEN a[i] ELSE a[i + 1]
    <2>2. /\ b \in Seq(T) /\ Len(b) = Len(a) - 1
          /\ \E p \in 1..Len(a) :
                /\ a[p] = e
                /\ \A i \in 1..(Len(a) - 1) : b[i] = IF i < p THEN a[i] ELSE a[i + 1]
        BY RemoveFirstElements
    <2> HIDE DEF b
    <2> QED BY <2>2
<1> HIDE DEF b
<1>2. \A i, j \in 1..Len(a) : a[i] = a[j] => i = j BY DEF IsInjective
<1>3. \A i, j \in 1..Len(a) : i < j => date[a[i]] <= date[a[j]] BY DEF Sorted
<1>4. \A i \in 1..Len(b) : b[i] \in T /\ b[i] # e
    <2> TAKE i \in 1..Len(b)
    <2>1. CASE i < p BY <2>1, <1>1, <1>2
    <2>2. CASE i >= p BY <2>2, <1>1, <1>2
    <2> QED BY <2>1, <2>2
<1>5. \A i \in 1..Len(b) : date2[b[i]] = date[b[i]] BY <1>4
<1>6. \A i, j \in 1..Len(b) : i < j => date[b[i]] <= date[b[j]]
    <2> SUFFICES ASSUME NEW i \in 1..Len(b), NEW j \in 1..Len(b), i < j
                 PROVE  date[b[i]] <= date[b[j]]
        OBVIOUS
    <2>1. CASE i < p /\ j < p BY <2>1, <1>1, <1>3
    <2>2. CASE i < p /\ j >= p BY <2>2, <1>1, <1>3
    <2>3. CASE i >= p /\ j >= p BY <2>3, <1>1, <1>3
    <2> QED BY <2>1, <2>2, <2>3
<1>7. \A i, j \in 1..Len(b) : i < j => date2[b[i]] <= date2[b[j]] BY <1>5, <1>6
<1>8. DOMAIN b = 1..Len(b) BY <1>1
<1> QED BY <1>7, <1>8 DEF Sorted, b

\* A timer inserted where the binary search says leaves a sorted array sorted.
LEMMA InsertedCorrect ==
    ASSUME NEW T, NEW a \in Seq(T), IsInjective(a), NEW e \in T, e \notin ToSet(a),
           NEW date \in [T -> Nat]
    PROVE  /\ Inserted(a, e, date) \in Seq(T)
           /\ IsInjective(Inserted(a, e, date))
           /\ ToSet(Inserted(a, e, date)) = ToSet(a) \cup {e}
           /\ Sorted(a, date) => Sorted(Inserted(a, e, date), date)
PROOF
<1> DEFINE r == InsertionIndex(a, date[e], date)
           b == Inserted(a, e, date)
<1>1. /\ r \in 0..Len(a)
      /\ r > 0 => date[a[r]] <= date[e]
      /\ r < Len(a) => date[a[r + 1]] > date[e]
    BY InsertionIndexCorrect
<1>d. Len(a) \in Nat /\ DOMAIN a = 1..Len(a) /\ date[e] \in Nat OBVIOUS
<1>2. b = InsertAt(a, r + 1, e) BY DEF Inserted
<1> HIDE DEF r, b
<1>3. /\ b \in Seq(T) /\ Len(b) = Len(a) + 1
      /\ \A i \in 1..(Len(a) + 1) : b[i] =
             IF i <= r THEN a[i] ELSE IF i = r + 1 THEN e ELSE a[i - 1]
    <2>1. /\ InsertAt(a, r + 1, e) \in Seq(T) /\ Len(InsertAt(a, r + 1, e)) = Len(a) + 1
          /\ \A i \in 1..(Len(a) + 1) : InsertAt(a, r + 1, e)[i] =
                 IF i <= r THEN a[i] ELSE IF i = r + 1 THEN e ELSE a[i - 1]
        BY <1>1, InsertAtElements
    <2> QED BY <2>1, <1>2
<1>4. \A i, j \in 1..Len(a) : a[i] = a[j] => i = j BY DEF IsInjective
<1>5. \A i \in 1..Len(a) : a[i] # e /\ a[i] \in T BY DEF ToSet
<1>6. r \in Nat /\ r <= Len(a) BY <1>1, <1>d
<1>e. \A i \in 1..Len(b) :
          \/ i <= r /\ i \in 1..Len(a) /\ b[i] = a[i]
          \/ i = r + 1 /\ b[i] = e
          \/ i > r + 1 /\ i - 1 \in 1..Len(a) /\ b[i] = a[i - 1]
    <2> TAKE i \in 1..Len(b)
    <2>0. i \in 1..(Len(a) + 1) /\ i \in Nat BY <1>3, <1>d
    <2>1. CASE i <= r BY <2>0, <2>1, <1>3, <1>6, <1>d
    <2>2. CASE i = r + 1 BY <2>0, <2>2, <1>3, <1>6, <1>d
    <2>3. CASE i > r + 1 BY <2>0, <2>3, <1>3, <1>6, <1>d
    <2> QED BY <2>0, <2>1, <2>2, <2>3, <1>6
<1>e1. \A i \in 1..Len(b) : i <= r => i \in 1..Len(a) /\ b[i] = a[i]
    BY <1>e, <1>6
<1>e2. \A i \in 1..Len(b) : i = r + 1 => b[i] = e
    BY <1>e, <1>6
<1>e3. \A i \in 1..Len(b) : i > r + 1 => i - 1 \in 1..Len(a) /\ b[i] = a[i - 1]
    BY <1>e, <1>6
<1>7. \A i, j \in 1..Len(b) : b[i] = b[j] => i = j
    <2> SUFFICES ASSUME NEW i \in 1..Len(b), NEW j \in 1..Len(b), b[i] = b[j] PROVE i = j
        OBVIOUS
    <2>1. CASE i <= r
        <3>1. i \in 1..Len(a) /\ b[i] = a[i] BY <2>1, <1>e1
        <3>2. CASE j <= r
            <4>1. j \in 1..Len(a) /\ b[j] = a[j] BY <3>2, <1>e1
            <4> QED BY <3>1, <4>1, <1>4
        <3>3. CASE j = r + 1
            <4>1. b[j] = e BY <3>3, <1>e2
            <4> QED BY <3>1, <4>1, <1>5
        <3>4. CASE j > r + 1
            <4>1. j - 1 \in 1..Len(a) /\ b[j] = a[j - 1] BY <3>4, <1>e3
            <4>2. i = j - 1 BY <3>1, <4>1, <1>4
            <4> QED BY <2>1, <3>4, <4>2, <1>6
        <3> QED BY <3>2, <3>3, <3>4, <1>6
    <2>2. CASE i = r + 1
        <3>1. b[i] = e BY <2>2, <1>e2
        <3>2. b[j] = e /\ ~(\E k \in 1..Len(a) : b[j] = a[k]) BY <3>1, <1>5
        <3> QED BY <2>2, <3>2, <1>e
    <2>3. CASE i > r + 1
        <3>1. i - 1 \in 1..Len(a) /\ b[i] = a[i - 1] BY <2>3, <1>e3
        <3>2. CASE j <= r
            <4>1. j \in 1..Len(a) /\ b[j] = a[j] BY <3>2, <1>e1
            <4>2. i - 1 = j BY <3>1, <4>1, <1>4
            <4> QED BY <2>3, <3>2, <4>2, <1>6
        <3>3. CASE j = r + 1
            <4>1. b[j] = e BY <3>3, <1>e2
            <4> QED BY <3>1, <4>1, <1>5
        <3>4. CASE j > r + 1
            <4>1. j - 1 \in 1..Len(a) /\ b[j] = a[j - 1] BY <3>4, <1>e3
            <4>2. i - 1 = j - 1 BY <3>1, <4>1, <1>4
            <4> QED BY <4>2
        <3> QED BY <3>2, <3>3, <3>4, <1>6
    <2> QED BY <2>1, <2>2, <2>3, <1>6
<1>8. \A i \in 1..Len(b) : b[i] \in ToSet(a) \cup {e} BY <1>e, <1>d DEF ToSet
<1>9. \A j \in 1..Len(a) : \E i \in 1..Len(b) : b[i] = a[j]
    <2> TAKE j \in 1..Len(a)
    <2>1. CASE j <= r
        <3>1. j \in 1..Len(b) /\ b[j] = a[j] BY <2>1, <1>3, <1>6, <1>d
        <3> QED BY <3>1
    <2>2. CASE j > r
        <3>1. j + 1 \in 1..Len(b) /\ (j + 1) - 1 = j /\ j + 1 > r + 1 BY <2>2, <1>3, <1>6, <1>d
        <3>2. b[j + 1] = a[j] BY <3>1, <1>3, <1>6, <1>d
        <3> QED BY <3>1, <3>2
    <2> QED BY <2>1, <2>2, <1>6
<1>10. r + 1 \in 1..Len(b) /\ b[r + 1] = e BY <1>3, <1>6, <1>d
<1>11. DOMAIN b = 1..Len(b) BY <1>3
<1>12. ToSet(b) = ToSet(a) \cup {e} BY <1>8, <1>9, <1>10, <1>11, <1>d DEF ToSet
<1>13. ASSUME Sorted(a, date) PROVE Sorted(b, date)
    <2>1. \A i, j \in 1..Len(a) : i < j => date[a[i]] <= date[a[j]] BY <1>13, <1>d DEF Sorted
    <2>2. \A i \in 1..Len(a) : date[a[i]] \in Nat BY <1>5
    <2>3. \A i \in 1..Len(a) : i <= r => date[a[i]] <= date[e]
        <3> SUFFICES ASSUME NEW i \in 1..Len(a), i <= r PROVE date[a[i]] <= date[e] OBVIOUS
        <3>1. r \in 1..Len(a) /\ r > 0 BY <1>6, <1>d
        <3>2. date[a[i]] <= date[a[r]] BY <2>1, <2>2, <3>1
        <3> QED BY <3>1, <3>2, <2>2, <1>1, <1>d
    <2>4. \A i \in 1..Len(a) : i > r => date[e] <= date[a[i]]
        <3> SUFFICES ASSUME NEW i \in 1..Len(a), i > r PROVE date[e] <= date[a[i]] OBVIOUS
        <3>1. r + 1 \in 1..Len(a) /\ r < Len(a) BY <1>6, <1>d
        <3>2. date[a[r + 1]] <= date[a[i]] BY <2>1, <2>2, <3>1, <1>6
        <3> QED BY <3>1, <3>2, <2>2, <1>1, <1>d
    <2>5. \A i, j \in 1..Len(b) : i < j => date[b[i]] <= date[b[j]]
        <3> SUFFICES ASSUME NEW i \in 1..Len(b), NEW j \in 1..Len(b), i < j
                     PROVE  date[b[i]] <= date[b[j]]
            OBVIOUS
        <3>i. i <= r => i \in 1..Len(a) /\ b[i] = a[i] BY <1>e, <1>6
        <3>j. j > r + 1 => j - 1 \in 1..Len(a) /\ b[j] = a[j - 1] BY <1>e, <1>6
        <3>e. (i = r + 1 => b[i] = e) /\ (j = r + 1 => b[j] = e) BY <1>e, <1>6
        <3>1. CASE i <= r /\ j <= r
            <4>1. j \in 1..Len(a) /\ b[j] = a[j] BY <3>1, <1>e, <1>6
            <4> QED BY <3>1, <3>i, <4>1, <2>1
        <3>2. CASE i <= r /\ j = r + 1 BY <3>2, <3>i, <3>e, <2>3
        <3>3. CASE i <= r /\ j > r + 1
            <4>1. i < j - 1 BY <3>3, <1>6
            <4> QED BY <3>3, <3>i, <3>j, <4>1, <2>1
        <3>4. CASE i = r + 1 /\ j > r + 1
            <4>1. j - 1 > r BY <3>4, <1>6
            <4> QED BY <3>4, <3>j, <3>e, <4>1, <2>4
        <3>5. CASE i > r + 1 /\ j > r + 1
            <4>1. i - 1 \in 1..Len(a) /\ b[i] = a[i - 1] BY <3>5, <1>e, <1>6
            <4>2. i - 1 < j - 1 OBVIOUS
            <4> QED BY <3>5, <3>j, <4>1, <4>2, <2>1
        <3> QED BY <3>1, <3>2, <3>3, <3>4, <3>5, <1>6
    <2> QED BY <2>5, <1>11 DEF Sorted
<1> QED BY <1>3, <1>7, <1>11, <1>12, <1>13 DEF IsInjective, b

-----------------------------------------------------------------------------
(* The date after a callout, and the alarm of a sorted array.              *)

\* UINT64_MAX is a number, to which every other date compares.
LEMMA NeverIsDate == Never \in Nat
BY TimersAssumption

\* A date after now exists, and is no more than the interval away.
LEMMA NextFireTSRBounds ==
    ASSUME NEW t, Interval[t] \in Nat, Interval[t] > 0, now \in Nat,
           NEW old \in Nat, old <= now
    PROVE  /\ NextFireTSR(t, old) \in Nat
           /\ NextFireTSR(t, old) > now /\ NextFireTSR(t, old) <= now + Interval[t]
PROOF
<1> DEFINE I == Interval[t]
           grid == {old + k * I : k \in 0..(now + 1)}
           D == {d \in grid : d > now}
<1>1. \A k \in 0..(now + 1) : old + k * I \in Nat OBVIOUS
<1>2. old + (now + 1) * I > now
    <2>1. (now + 1) * I >= now + 1 OBVIOUS
    <2> QED BY <2>1
<1>3. D \subseteq Nat BY <1>1
<1>4. D # {}
    <2>1. now + 1 \in 0..(now + 1) OBVIOUS
    <2>2. old + (now + 1) * I \in grid BY <2>1
    <2> QED BY <2>2, <1>2
<1>5. NextFireTSR(t, old) = Min(D) BY DEF NextFireTSR
<1> DEFINE d == Min(D)
<1>6. d \in D /\ \A x \in D : d <= x BY <1>3, <1>4, MinExists
<1> HIDE DEF d
<1>7. PICK k \in 0..(now + 1) : d = old + k * I BY <1>6
<1>8. d \in Nat /\ d > now BY <1>3, <1>6
<1>9. d <= now + I
    <2> SUFFICES ASSUME d > now + I PROVE FALSE BY <1>8
    <2>1. CASE k = 0 BY <2>1, <1>7, <1>8
    <2>2. CASE k # 0
        <3>1. k - 1 \in 0..(now + 1) BY <2>2
        <3>2. (k - 1) * I = k * I - I BY <3>1
        <3>3. old + (k - 1) * I = d - I BY <3>2, <1>7
        <3>4. d - I > now BY <1>8
        <3>5. d - I \in grid BY <3>1, <3>3
        <3>6. d - I \in D BY <3>4, <3>5
        <3>7. d <= d - I BY <3>6, <1>6
        <3> QED BY <3>7, <1>8
    <2> QED BY <2>1, <2>2
<1> QED BY <1>5, <1>8, <1>9 DEF d

\* The hard deadline is no later than any timer that is not being called allows,
\* although the search stops early: this needs the array to be sorted.
LEMMA DeadlinesCorrect ==
    ASSUME NEW a \in Seq(Timers), NEW date \in [Timers -> Nat], NEW F,
           \A t \in Timers : date[t] + Tolerance[t] < Never
    PROVE  /\ Deadlines(a, date, F) \in [soft : Nat, hard : Nat]
           /\ Deadlines(a, date, F).soft = Never <=> Deadlines(a, date, F).hard = Never
           /\ Deadlines(a, date, F).soft # Never =>
                  \E t \in ToSet(a) \ F : date[t] = Deadlines(a, date, F).soft
           /\ Sorted(a, date) =>
                  \A t \in ToSet(a) \ F : Deadlines(a, date, F).hard <= date[t] + Tolerance[t]
PROOF
<1> DEFINE L == LookedAt(a, date, F)
           A == {date[a[i]] : i \in L}
           B == {date[a[i]] + Tolerance[a[i]] : i \in L}
           soft == Min({Never} \cup A)
           hard == Min({Never} \cup B)
<1>0. Never \in Nat BY NeverIsDate
<1>1. L \subseteq 1..Len(a) /\ \A i \in L : a[i] \notin F BY DEF LookedAt
<1>2. \A i \in 1..Len(a) : /\ a[i] \in Timers /\ date[a[i]] \in Nat
                           /\ Tolerance[a[i]] \in Nat
                           /\ date[a[i]] + Tolerance[a[i]] \in Nat
                           /\ date[a[i]] + Tolerance[a[i]] < Never
    <2> TAKE i \in 1..Len(a)
    <2>1. a[i] \in Timers /\ date[a[i]] \in Nat /\ Tolerance[a[i]] \in Nat
        BY TimersAssumption
    <2> QED BY <2>1
<1>3. /\ soft \in {Never} \cup A /\ \A x \in {Never} \cup A : soft <= x
      /\ soft \in Nat
    <2>1. {Never} \cup A \subseteq Nat BY <1>0, <1>1, <1>2
    <2> HIDE DEF A
    <2> QED BY <2>1, MinExists
<1>4. /\ hard \in {Never} \cup B /\ \A x \in {Never} \cup B : hard <= x
      /\ hard \in Nat
    <2>1. {Never} \cup B \subseteq Nat BY <1>0, <1>1, <1>2
    <2> HIDE DEF B
    <2> QED BY <2>1, MinExists
<1>5. Deadlines(a, date, F) = [soft |-> soft, hard |-> hard] BY DEF Deadlines
<1> HIDE DEF L, soft, hard
<1>6. \A i \in L : /\ soft <= date[a[i]] /\ soft < Never
                   /\ hard <= date[a[i]] + Tolerance[a[i]] /\ hard < Never
    <2> TAKE i \in L
    <2>1. soft <= date[a[i]] /\ hard <= date[a[i]] + Tolerance[a[i]] BY <1>3, <1>4
    <2>2. i \in 1..Len(a) BY <1>1
    <2> QED BY <2>1, <2>2, <1>0, <1>2, <1>3, <1>4
<1>7. soft = Never <=> hard = Never
    <2>1. CASE L = {} BY <2>1, <1>3, <1>4
    <2>2. CASE L # {}
        <3>1. soft < Never /\ hard < Never BY <2>2, <1>6
        <3> QED BY <3>1, <1>0, <1>3, <1>4
    <2> QED BY <2>1, <2>2
<1>8. soft # Never => \E t \in ToSet(a) \ F : date[t] = soft
    <2> HAVE soft # Never
    <2>1. PICK i \in L : soft = date[a[i]] BY <1>3
    <2>2. a[i] \in ToSet(a) \ F BY <1>1 DEF ToSet
    <2> QED BY <2>1, <2>2
<1>9. ASSUME Sorted(a, date), NEW t \in ToSet(a) \ F PROVE hard <= date[t] + Tolerance[t]
    <2>1. PICK i \in 1..Len(a) : a[i] = t BY DEF ToSet
    <2>2. CASE i \in L BY <2>1, <2>2, <1>6
    <2>3. CASE i \notin L
        <3> DEFINE N == {j \in 1..Len(a) : a[j] \notin F /\ j \notin L}
                   n == Min(N)
        <3>1. i \in N /\ N \subseteq Nat BY <2>1, <2>3
        <3>2. n \in N /\ \A x \in N : n <= x BY <3>1, MinExists
        <3> HIDE DEF n
        <3>n. n \in 1..Len(a) /\ a[n] \notin F /\ n \notin L /\ n <= i BY <3>1, <3>2
        <3>3. PICK j \in 1..n, k \in 1..n :
                  /\ k < j /\ a[j] \notin F /\ a[k] \notin F
                  /\ ~(date[a[j]] <= date[a[k]] + Tolerance[a[k]])
            BY <3>n DEF L, LookedAt
        <3>4. j \in 1..Len(a) /\ k \in 1..Len(a) /\ k < n BY <3>n, <3>3
        <3>5. k \in L
            <4>1. k \notin N BY <3>2, <3>4
            <4> QED BY <4>1, <3>3, <3>4
        <3>6. date[a[j]] <= date[a[i]]
            <4>1. j <= i BY <3>n, <3>3
            <4>2. CASE j = i BY <4>2, <1>2
            <4>3. CASE j < i 
                <5>1. DOMAIN a = 1..Len(a) OBVIOUS
                <5>2. j \in DOMAIN a /\ i \in DOMAIN a BY <5>1, <3>4
                <5> QED BY <4>3, <5>2, <1>9 DEF Sorted
            <4> QED BY <4>1, <4>2, <4>3, <3>4
        <3>7. hard <= date[a[k]] + Tolerance[a[k]] BY <3>5, <1>6
        <3>8. date[a[k]] + Tolerance[a[k]] < date[a[j]] BY <3>3, <3>4, <1>2
        <3>t. /\ date[a[k]] + Tolerance[a[k]] \in Nat /\ date[a[j]] \in Nat
              /\ date[a[i]] \in Nat /\ hard \in Nat
            BY <3>4, <1>2, <1>4
        <3>9. hard <= date[a[i]] BY <3>6, <3>7, <3>8, <3>t
        <3> QED BY <2>1, <3>9, <1>2, <1>4
    <2> QED BY <2>2, <2>3
<1> QED BY <1>3, <1>4, <1>5, <1>7, <1>8, <1>9

\* The deadlines and the alarm of a mode.
AlarmType == [soft : Nat, hard : Nat, at : Nat]

\* Dates that leave room for the tolerance.
Before(date) == \A t \in Timers : date[t] + Tolerance[t] < Never

\* n is how an alarm last armed as old is armed for array a.
ArmedFor(n, old, a, date, F) ==
    /\ n \in AlarmType
    /\ n.soft = Never <=> n.hard = Never
    /\ n.soft = Never => n.at = Never
    /\ n.soft # Never => n.at = IF n.soft = old.soft /\ n.hard = old.hard
                                THEN old.at ELSE n.soft
    /\ n.soft # Never => \E t \in ToSet(a) \ F : date[t] = n.soft
    /\ Sorted(a, date) => \A t \in ToSet(a) \ F : n.hard <= date[t] + Tolerance[t]

\* __CFArmNextTimerInMode arms like that.
LEMMA ArmNextTimerCorrect ==
    ASSUME NEW old, old.at \in Nat,
           NEW a \in Seq(Timers), NEW date \in [Timers -> Nat], Before(date), NEW F
    PROVE  ArmedFor(ArmNextTimer(old, a, date, F), old, a, date, F)
PROOF
<1> DEFINE d == Deadlines(a, date, F)
           n == ArmNextTimer(old, a, date, F)
<1>1. /\ d \in [soft : Nat, hard : Nat]
      /\ d.soft = Never <=> d.hard = Never
      /\ d.soft # Never => \E t \in ToSet(a) \ F : date[t] = d.soft
      /\ Sorted(a, date) => \A t \in ToSet(a) \ F : d.hard <= date[t] + Tolerance[t]
    BY DeadlinesCorrect DEF Before
<1> HIDE DEF d
<1>2. n = [soft |-> d.soft, hard |-> d.hard,
           at |-> IF d.soft = Never THEN Never
                  ELSE IF d.soft # old.soft \/ d.hard # old.hard THEN d.soft ELSE old.at]
    BY DEF ArmNextTimer, d
<1> HIDE DEF n
<1>3. n.soft = d.soft /\ n.hard = d.hard BY <1>2
<1>4. n.at = IF d.soft = Never THEN Never
             ELSE IF d.soft # old.soft \/ d.hard # old.hard THEN d.soft ELSE old.at
    BY <1>2
<1>5. n \in AlarmType
    <2>1. n.at \in Nat BY <1>1, <1>4, NeverIsDate
    <2>2. n.soft \in Nat /\ n.hard \in Nat BY <1>1, <1>3
    <2>3. n = [soft |-> n.soft, hard |-> n.hard, at |-> n.at] BY <1>2
    <2> QED BY <2>1, <2>2, <2>3 DEF AlarmType
<1> QED BY <1>1, <1>3, <1>4, <1>5 DEF ArmedFor, n

-----------------------------------------------------------------------------
(* The arrays and the calls of clients.                                    *)

\* What a run remembers, and where it has marked a timer as being called.
Fields == {"mode", "pc", "order", "due", "call", "old", "modes",
           "handled"}
Calling == {"Callout", "Invalidate", "Returned"}

\* Types, and dates that leave room for the tolerance.
Types ==
    /\ now \in Nat /\ now <= MaxTime
    /\ timers \in [Modes -> Seq(Timers)]
    /\ alarm \in [Modes -> AlarmType]
    /\ rlModes \in [Timers -> SUBSET Modes]
    /\ fireTSR \in [Timers -> Nat] /\ Before(fireTSR)
    /\ doing = [c \in Clients |-> doing[c]]
    /\ stale \subseteq missed

\* What a client has yet to do is about timers, modes and dates that exist.
Promised ==
    \A c \in Clients :
        /\ doing[c].call \in {"set", "add", "remove"} => doing[c].timer \in Timers
        /\ doing[c].call \in {"set", "remove"} => doing[c].modes \subseteq Modes
        /\ doing[c].call = "set" =>
               doing[c].date \in Nat /\ doing[c].date + Tolerance[doing[c].timer] < Never
        /\ doing[c].call = "add" => doing[c].mode \in Modes

\* The arrays A agree with the modes R that the timers believe to be in.
Listed(A, R) ==
    \A m \in Modes : /\ IsInjective(A[m])
                     /\ ToSet(A[m]) = {t \in Timers : m \in R[t]}

\* The arrays are as they should be, and clients keep to it.
AInv == Types /\ Promised /\ TimersSorted

\* The arrays A after timer t was moved to its new date in the modes S.
MovedIn(A, S, t, date) ==
    /\ A \in [Modes -> Seq(Timers)]
    /\ Listed(A, rlModes)
    /\ \A m \in Modes : m \notin stale \cup (rlModes[t] \ S) => Sorted(A[m], date)

\* __CFRepositionTimerInMode moves the timer so.
LEMMA RepositionedCorrect ==
    ASSUME AInv, NEW S \in SUBSET Modes, NEW t \in Timers,
           NEW date \in [Timers -> Nat], \A u \in Timers : u # t => date[u] = fireTSR[u]
    PROVE  MovedIn(Repositioned(S, t, date), S, t, date)
PROOF
<1> DEFINE A == Repositioned(S, t, date)
<1>1. \A m \in Modes : A[m] = IF m \in S /\ t \in ToSet(timers[m])
                              THEN Inserted(RemoveFirst(timers[m], t), t, date)
                              ELSE timers[m]
    BY DEF Repositioned
<1>a. A = [m \in Modes |-> A[m]] BY DEF Repositioned
<1> HIDE DEF A
<1>t. timers \in [Modes -> Seq(Timers)] /\ fireTSR \in [Timers -> Nat] BY DEF AInv, Types
<1>2. \A m \in Modes :
          /\ A[m] \in Seq(Timers) /\ IsInjective(A[m])
          /\ ToSet(A[m]) = {u \in Timers : m \in rlModes[u]}
          /\ m \notin stale \cup (rlModes[t] \ S) => Sorted(A[m], date)
    <2> TAKE m \in Modes
    <2> DEFINE a == timers[m]  b == RemoveFirst(a, t)
    <2>1. /\ a \in Seq(Timers) /\ IsInjective(a)
          /\ ToSet(a) = {u \in Timers : m \in rlModes[u]}
          /\ m \notin stale => Sorted(a, fireTSR)
        BY <1>t DEF AInv, TimersSorted
    <2> HIDE DEF a
    <2>2. CASE m \in S /\ t \in ToSet(a)
        <3>1. A[m] = Inserted(b, t, date) BY <1>1, <2>2 DEF a
        <3>2. b \in Seq(Timers) /\ IsInjective(b) /\ ToSet(b) = ToSet(a) \ {t}
            BY <2>1, RemoveFirstCorrect
        <3>3. Sorted(a, fireTSR) => Sorted(b, date)
            <4> HAVE Sorted(a, fireTSR)
            <4> HIDE DEF b
            <4> QED BY <2>1, <2>2, RemoveFirstSorted DEF b
        <3> HIDE DEF b
        <3>4. t \notin ToSet(b) BY <3>2
        <3> DEFINE w == Inserted(b, t, date)
        <3>5. /\ w \in Seq(Timers) /\ IsInjective(w) /\ ToSet(w) = ToSet(b) \cup {t}
              /\ Sorted(b, date) => Sorted(w, date)
            BY <3>2, <3>4, InsertedCorrect
        <3> HIDE DEF w
        <3>6. A[m] = w BY <3>1 DEF w
        <3>7. ToSet(w) = ToSet(a) BY <3>2, <3>5, <2>2
        <3> QED BY <3>3, <3>5, <3>6, <3>7, <2>1
    <2>3. CASE ~(m \in S /\ t \in ToSet(a))
        <3>1. A[m] = a BY <1>1, <2>3 DEF a
        <3>2. ASSUME m \notin stale \cup (rlModes[t] \ S) PROVE Sorted(a, date)
            <4>1. t \notin ToSet(a) BY <2>1, <2>3, <3>2
            <4>2. Sorted(a, fireTSR) BY <2>1, <3>2
            <4>3. \A i \in DOMAIN a : a[i] \in Timers /\ a[i] # t
                BY <2>1, <4>1 DEF ToSet
            <4>4. \A i \in DOMAIN a : date[a[i]] = fireTSR[a[i]] BY <4>3
            <4> QED BY <4>2, <4>4 DEF Sorted
        <3> QED BY <2>1, <3>1, <3>2
    <2> QED BY <2>2, <2>3
<1> QED BY <1>a, <1>2 DEF MovedIn, Listed, A

\* CFRunLoopRemoveTimer takes the timer out of the arrays of the modes S.
LEMMA RemovedCorrect ==
    ASSUME AInv, NEW S \in SUBSET Modes, NEW t \in Timers, RemoveFrom(S, t)
    PROVE  /\ timers' \in [Modes -> Seq(Timers)]
           /\ rlModes' \in [Timers -> SUBSET Modes]
           /\ Listed(timers', rlModes')
           /\ \A m \in Modes :
                 /\ ToSet(timers'[m]) = ToSet(timers[m]) \ (IF m \in S THEN {t} ELSE {})
                 /\ m \notin stale => Sorted(timers'[m], fireTSR)
                 /\ t \notin ToSet(timers[m]) => timers'[m] = timers[m]
PROOF
<1>1. \A m \in Modes : timers'[m] = IF m \in S THEN RemoveFirst(timers[m], t) ELSE timers[m]
    BY DEF RemoveFrom
<1>a. timers' = [m \in Modes |-> timers'[m]] BY DEF RemoveFrom
<1>2. rlModes' = [rlModes EXCEPT ![t] = @ \ {m \in S : t \in ToSet(timers[m])}]
    BY DEF RemoveFrom
<1>t. /\ timers \in [Modes -> Seq(Timers)] /\ fireTSR \in [Timers -> Nat]
      /\ rlModes \in [Timers -> SUBSET Modes]
    BY DEF AInv, Types
<1>3. /\ rlModes' \in [Timers -> SUBSET Modes]
      /\ \A u \in Timers : u # t => rlModes'[u] = rlModes[u]
      /\ rlModes'[t] = rlModes[t] \ {m \in S : t \in ToSet(timers[m])}
    BY <1>2, <1>t
<1>4. \A m \in Modes :
          /\ timers'[m] \in Seq(Timers) /\ IsInjective(timers'[m])
          /\ ToSet(timers'[m]) = ToSet(timers[m]) \ (IF m \in S THEN {t} ELSE {})
          /\ ToSet(timers'[m]) = {u \in Timers : m \in rlModes'[u]}
          /\ m \notin stale => Sorted(timers'[m], fireTSR)
          /\ t \notin ToSet(timers[m]) => timers'[m] = timers[m]
    <2> TAKE m \in Modes
    <2> DEFINE a == timers[m]  b == RemoveFirst(a, t)
    <2>1. /\ a \in Seq(Timers) /\ IsInjective(a)
          /\ ToSet(a) = {u \in Timers : m \in rlModes[u]}
          /\ m \notin stale => Sorted(a, fireTSR)
        BY <1>t DEF AInv, TimersSorted
    <2> HIDE DEF a
    <2>2. CASE m \in S /\ t \in ToSet(a)
        <3>1. timers'[m] = b BY <1>1, <2>2 DEF a
        <3>2. b \in Seq(Timers) /\ IsInjective(b) /\ ToSet(b) = ToSet(a) \ {t}
            BY <2>1, RemoveFirstCorrect
        <3>3. Sorted(a, fireTSR) => Sorted(b, fireTSR)
            <4> HAVE Sorted(a, fireTSR)
            <4> HIDE DEF b
            <4> QED BY <2>1, <2>2, RemoveFirstSorted DEF b
        <3> HIDE DEF b
        <3>4. m \notin rlModes'[t] BY <1>3, <2>2 DEF a
        <3>5. {u \in Timers : m \in rlModes'[u]} = {u \in Timers : m \in rlModes[u]} \ {t}
            BY <1>3, <3>4
        <3> QED BY <2>1, <2>2, <3>1, <3>2, <3>3, <3>5 DEF a
    <2>3. CASE ~(m \in S /\ t \in ToSet(a))
        <3>1. timers'[m] = a
            <4>1. CASE m \in S
                <5>1. t \notin ToSet(a) BY <4>1, <2>3
                <5>2. ~ \E i \in 1..Len(a) : a[i] = t BY <5>1, <2>1 DEF ToSet
                <5>3. b = a BY <5>2 DEF RemoveFirst
                <5> QED BY <5>3, <1>1, <4>1 DEF a
            <4>2. CASE m \notin S BY <4>2, <1>1 DEF a
            <4> QED BY <4>1, <4>2
        <3>2. m \in rlModes'[t] <=> m \in rlModes[t] BY <1>3, <2>3 DEF a
        <3>3. {u \in Timers : m \in rlModes'[u]} = {u \in Timers : m \in rlModes[u]}
            BY <1>3, <3>2
        <3>4. m \in S => t \notin ToSet(a) BY <2>3
        <3> QED BY <2>1, <3>1, <3>3, <3>4 DEF a
    <2> QED BY <2>2, <2>3
<1> QED BY <1>a, <1>3, <1>4 DEF Listed

\* An alarm armed anew keeps its type.
LEMMA RearmedTypes ==
    ASSUME AInv, NEW S \in SUBSET Modes, NEW t, NEW A \in [Modes -> Seq(Timers)],
           NEW date \in [Timers -> Nat], Before(date), NEW F
    PROVE  Rearmed(S, t, A, date, F) \in [Modes -> AlarmType]
PROOF
<1>1. \A m \in Modes : ArmNextTimer(alarm[m], A[m], date, F) \in AlarmType
    <2> TAKE m \in Modes
    <2>1. alarm[m].at \in Nat /\ A[m] \in Seq(Timers) BY DEF AInv, Types, AlarmType
    <2> QED BY <2>1, ArmNextTimerCorrect DEF ArmedFor
<1>2. \A m \in Modes : alarm[m] \in AlarmType BY DEF AInv, Types
<1> QED BY <1>1, <1>2 DEF Rearmed

-----------------------------------------------------------------------------
(* The runs, and the steps on the arrays.                                  *)

\* What a run that calls a timer has marked and knows of it.
CallOK(r) ==
    r.pc \in Calling =>
        /\ r.call \in firing /\ r.call \in Timers
        /\ r.old \in Nat /\ r.old <= now
        /\ r.pc = "Invalidate" => r.call \notin valid /\ r.modes \subseteq Modes
        /\ r.pc = "Returned" => r.call \notin valid \/ Interval[r.call] # 0
        /\ \A m \in Modes : m \notin missed /\ m # r.mode /\ r.call \in ToSet(timers[m])
               => fireTSR[r.call] <= r.old

\* What every run satisfies.
RunOK(r) ==
    /\ DOMAIN r = Fields /\ r.mode \in Modes
    /\ r.pc \notin Calling => r.call = none
    /\ r.pc = "Wait" => ~r.handled

\* The stack of runs: a run below another is in a callout.
Stack ==
    /\ \E S : runs \in Seq(S)
    /\ \A i \in 1..Len(runs) : RunOK(runs[i]) /\ CallOK(runs[i])
    /\ \A i \in 1..Len(runs) : i < Len(runs) => runs[i].pc = "Callout"
    /\ \A i, j \in 1..Len(runs) :
           runs[i].pc \in Calling /\ runs[j].pc \in Calling /\ runs[i].call = runs[j].call
           => i = j

\* The inductive invariant of the arrays and the stack.
IInv == AInv /\ Stack

\* The last of a nonempty stack.
LEMMA TopIs ==
    ASSUME IInv, runs # <<>>
    PROVE  /\ Len(runs) \in 1..Len(runs) /\ Top = runs[Len(runs)]
           /\ RunOK(Top) /\ CallOK(Top)
PROOF
<1> PICK S : runs \in Seq(S) BY DEF IInv, Stack
<1>1. Len(runs) \in 1..Len(runs) OBVIOUS
<1> QED BY <1>1 DEF IInv, Stack, Top

\* Steps that leave the arrays alone.
LEMMA ArraysKept ==
    ASSUME AInv, UNCHANGED <<timers, rlModes, fireTSR, stale>>,
           doing' = [c \in Clients |-> doing'[c]], Promised',
           now' \in Nat, now' <= MaxTime,
           alarm' \in [Modes -> AlarmType], missed \subseteq missed'
    PROVE  AInv'
BY DEF AInv, Types, TimersSorted, Before

\* What clients have yet to do.
LEMMA PromisesKept ==
    ASSUME Promised, UNCHANGED doing PROVE Promised'
BY DEF Promised

\* A client that has nothing more to do promises nothing.
LEMMA PromiseDone ==
    ASSUME AInv, NEW c \in Clients, Now(c, [call |-> none])
    PROVE  doing' = [e \in Clients |-> doing'[e]] /\ Promised'
PROOF
<1>1. doing = [e \in Clients |-> doing[e]] BY DEF AInv, Types
<1>2. /\ doing' = [e \in Clients |-> doing'[e]]
      /\ doing'[c] = [call |-> none]
      /\ \A e \in Clients : e # c => doing'[e] = doing[e]
    BY <1>1 DEF Now
<1>3. doing'[c].call = "none" BY <1>2 DEF none
<1> QED BY <1>2, <1>3 DEF AInv, Promised

\* An alarm armed anew keeps its type.
LEMMA AlarmArmed ==
    ASSUME AInv, NEW m \in Modes, NEW a \in Seq(Timers), NEW old, old.at \in Nat, NEW F,
           alarm' = [alarm EXCEPT ![m] = ArmNextTimer(old, a, fireTSR, F)]
    PROVE  alarm' \in [Modes -> AlarmType]
PROOF
<1>1. fireTSR \in [Timers -> Nat] /\ Before(fireTSR) /\ alarm \in [Modes -> AlarmType]
    BY DEF AInv, Types
<1>2. ArmNextTimer(old, a, fireTSR, F) \in AlarmType
    BY <1>1, ArmNextTimerCorrect DEF ArmedFor
<1> QED BY <1>1, <1>2

\* Runs touch the arrays only after a callout.
LEMMA RunsLeaveArrays ==
    ASSUME IInv,
           \/ \E m \in Modes : Run(m) \/ Ring(m)
           \/ Return \/ DoTimers \/ (\E t \in Timers : DoTimer(t)) \/ CalloutReturns
           \/ DoTimersDone \/ Tick \/ UNCHANGED vars
    PROVE  AInv'
PROOF
<1>t. /\ now \in Nat /\ now <= MaxTime
      /\ alarm \in [Modes -> AlarmType] /\ timers \in [Modes -> Seq(Timers)]
      /\ doing = [c \in Clients |-> doing[c]] /\ Promised
    BY DEF IInv, AInv, Types
<1>a. \A m \in Modes : alarm[m].at \in Nat BY <1>t DEF AlarmType
<1>1. UNCHANGED <<timers, rlModes, fireTSR, stale, doing>> /\ missed \subseteq missed'
    BY DEF Run, Ring, Return, DoTimers, DoTimer, CalloutReturns, DoTimersDone, Tick, vars,
           history
<1>2. now' \in Nat /\ now' <= MaxTime
    <2>1. now' = now \/ (now < MaxTime /\ now' = now + 1)
        BY DEF Run, Ring, Return, DoTimers, DoTimer, CalloutReturns, DoTimersDone, Tick, vars
    <2> QED BY <2>1, <1>t, TimersAssumption
<1>3. alarm' \in [Modes -> AlarmType]
    <2>1. CASE \E m \in Modes : Ring(m)
        <3>1. PICK m \in Modes : alarm' = [alarm EXCEPT ![m].at = Never] BY <2>1 DEF Ring
        <3>2. alarm[m] \in AlarmType /\ Never \in Nat BY <1>t, NeverIsDate
        <3>3. [alarm[m] EXCEPT !.at = Never] \in AlarmType BY <3>2 DEF AlarmType
        <3> QED BY <3>1, <3>3, <1>t
    <2>2. CASE \E t \in Timers : DoTimer(t)
        <3>1. PICK t \in Timers : DoTimer(t) BY <2>2
        <3>2. Top.mode \in Modes BY <3>1, TopIs DEF DoTimer, At, RunOK
        <3>3. CASE alarm' = alarm BY <3>3, <1>t
        <3>4. CASE alarm' # alarm
            <4> DEFINE old == [alarm[Top.mode] EXCEPT !.soft = Never, !.hard = Never]
            <4>1. old.at = alarm[Top.mode].at BY <3>2, <1>t DEF AlarmType
            <4>2. alarm' = [alarm EXCEPT ![Top.mode] =
                                ArmNextTimer(old, timers[Top.mode], fireTSR, firing')]
                BY <3>1, <3>4 DEF DoTimer
            <4>3. timers[Top.mode] \in Seq(Timers) /\ old.at \in Nat BY <4>1, <3>2, <1>t, <1>a
            <4> HIDE DEF old
            <4> QED BY <4>2, <4>3, <3>2, AlarmArmed DEF IInv
        <3> QED BY <3>3, <3>4
    <2>3. CASE DoTimersDone
        <3>1. Top.mode \in Modes BY <2>3, TopIs DEF DoTimersDone, At, RunOK
        <3>2. timers[Top.mode] \in Seq(Timers) /\ alarm[Top.mode].at \in Nat
            BY <3>1, <1>t, <1>a
        <3>3. \/ alarm' = alarm
              \/ alarm' = [alarm EXCEPT ![Top.mode] =
                           ArmNextTimer(alarm[Top.mode], timers[Top.mode], fireTSR, firing)]
            BY <2>3 DEF DoTimersDone
        <3> QED BY <3>1, <3>2, <3>3, <1>t, AlarmArmed DEF IInv
    <2>4. CASE \/ \E m \in Modes : Run(m)
               \/ Return \/ DoTimers \/ CalloutReturns \/ Tick \/ UNCHANGED vars
        BY <2>4, <1>t DEF Run, Return, DoTimers, CalloutReturns, Tick, vars
    <2> QED BY <2>1, <2>2, <2>3, <2>4
<1>4. Promised' /\ doing' = [c \in Clients |-> doing'[c]] BY <1>1, <1>t, PromisesKept
<1> QED BY <1>1, <1>2, <1>3, <1>4, ArraysKept DEF IInv

\* A client begins a call, and promises what it may rely on later.
LEMMA PromisesStep ==
    ASSUME IInv, NEW c \in Clients, NEW t \in Timers,
           \/ \E k \in Delays : SetNextFireDate(c, t, now + k)
           \/ \E m \in Modes : AddTimer(c, t, m)
           \/ Invalidate(c, t)
    PROVE  AInv'
PROOF
<1>t. /\ now \in Nat /\ now <= MaxTime /\ alarm \in [Modes -> AlarmType]
      /\ timers \in [Modes -> Seq(Timers)]
      /\ doing = [e \in Clients |-> doing[e]] /\ Promised
      /\ rlModes \in [Timers -> SUBSET Modes]
      /\ fireTSR \in [Timers -> Nat] /\ Before(fireTSR) /\ stale \subseteq missed
    BY DEF IInv, AInv, Types
<1>1. UNCHANGED <<now, timers, alarm, rlModes, stale, missed>>
    BY DEF SetNextFireDate, AddTimer, Invalidate, history
<1>2. ASSUME NEW d, doing' = [doing EXCEPT ![c] = d],
             d.call \in {"set", "add", "remove"} => d.timer \in Timers,
             d.call \in {"set", "remove"} => d.modes \subseteq Modes,
             d.call = "set" => d.date \in Nat /\ d.date + Tolerance[d.timer] < Never,
             d.call = "add" => d.mode \in Modes
      PROVE  doing' = [e \in Clients |-> doing'[e]] /\ Promised'
    <2>1. /\ doing' = [e \in Clients |-> doing'[e]] /\ doing'[c] = d
          /\ \A e \in Clients : e # c => doing'[e] = doing[e]
        BY <1>2, <1>t
    <2> QED BY <2>1, <1>2, <1>t DEF Promised
<1>3. CASE \E m \in Modes : AddTimer(c, t, m)
    <2>1. PICK m \in Modes : AddTimer(c, t, m) BY <1>3
    <2> DEFINE d == [call |-> "add", timer |-> t, mode |-> m]
    <2>2. doing' = [doing EXCEPT ![c] = d] /\ fireTSR' = fireTSR BY <2>1 DEF AddTimer, Now
    <2>3. d.call = "add" /\ d.timer = t /\ d.mode = m OBVIOUS
    <2> HIDE DEF d
    <2>4. doing' = [e \in Clients |-> doing'[e]] /\ Promised' BY <2>2, <2>3, <1>2
    <2> QED BY <2>2, <2>4, <1>1, <1>t, ArraysKept DEF IInv
<1>4. CASE Invalidate(c, t)
    <2> DEFINE d == [call |-> "remove", timer |-> t, modes |-> rlModes[t]]
    <2>2. doing' = [doing EXCEPT ![c] = d] /\ fireTSR' = fireTSR BY <1>4 DEF Invalidate, Now
    <2>3. d.call = "remove" /\ d.timer = t /\ d.modes \subseteq Modes BY <1>t
    <2> HIDE DEF d
    <2>4. doing' = [e \in Clients |-> doing'[e]] /\ Promised' BY <2>2, <2>3, <1>2
    <2> QED BY <2>2, <2>4, <1>1, <1>t, ArraysKept DEF IInv
<1>5. CASE \E k \in Delays : SetNextFireDate(c, t, now + k)
    <2>1. PICK k \in Delays : SetNextFireDate(c, t, now + k) BY <1>5
    <2>2. now + k \in Nat /\ now + k + Tolerance[t] < Never
        <3>1. k \in Nat /\ Tolerance[t] \in Nat /\ MaxTime \in Nat BY TimersAssumption
        <3>2. MaxTime + k + Tolerance[t] < Never BY DatesAssumption
        <3> QED BY <3>1, <3>2, <1>t, NeverIsDate
    <2>3. CASE rlModes[t] = {}
        <3>1. fireTSR' = [fireTSR EXCEPT ![t] = now + k] /\ doing' = doing
            BY <2>1, <2>3 DEF SetNextFireDate
        <3>2. fireTSR' \in [Timers -> Nat] /\ Before(fireTSR)'
            BY <3>1, <2>2, <1>t DEF Before
        <3>3. \A m \in Modes : t \notin ToSet(timers[m]) BY <2>3 DEF IInv, AInv, TimersSorted
        <3>4. ASSUME NEW m \in Modes, Sorted(timers[m], fireTSR)
              PROVE  Sorted(timers[m], fireTSR')
            <4>1. \A i \in DOMAIN timers[m] : timers[m][i] \in Timers /\ timers[m][i] # t
                BY <3>3, <1>t DEF ToSet
            <4>2. \A i \in DOMAIN timers[m] : fireTSR'[timers[m][i]] = fireTSR[timers[m][i]]
                BY <4>1, <3>1, <1>t
            <4> QED BY <3>4, <4>2 DEF Sorted
        <3>5. TimersSorted' BY <3>4, <1>1 DEF IInv, AInv, TimersSorted
        <3>6. Types' BY <3>1, <3>2, <1>1, <1>t DEF Types
        <3>7. Promised' BY <3>1, <1>t, PromisesKept
        <3> QED BY <3>5, <3>6, <3>7 DEF AInv
    <2>4. CASE rlModes[t] # {}
        <3> DEFINE d == [call |-> "set", timer |-> t, modes |-> rlModes[t], date |-> now + k]
        <3>2. doing' = [doing EXCEPT ![c] = d] /\ fireTSR' = fireTSR
            BY <2>1, <2>4 DEF SetNextFireDate, Now
        <3>3. d.call = "set" /\ d.timer = t /\ d.modes \subseteq Modes /\ d.date = now + k BY <1>t
        <3> HIDE DEF d
        <3>4. doing' = [e \in Clients |-> doing'[e]] /\ Promised' BY <3>2, <3>3, <2>2, <1>2
        <3> QED BY <3>2, <3>4, <1>1, <1>t, ArraysKept DEF IInv
    <2> QED BY <2>3, <2>4
<1> QED BY <1>3, <1>4, <1>5

\* The timer of a call is moved to its new date.
LEMMA MoveTimerArrays ==
    ASSUME AInv, NEW c \in Clients, MoveTimer(c) PROVE AInv'
PROOF
<1> DEFINE t == doing[c].timer  S == doing[c].modes  d == doing[c].date
<1>t. /\ now \in Nat /\ now <= MaxTime /\ alarm \in [Modes -> AlarmType]
      /\ rlModes \in [Timers -> SUBSET Modes]
      /\ fireTSR \in [Timers -> Nat] /\ Before(fireTSR) /\ stale \subseteq missed
    BY DEF AInv, Types
<1>1. t \in Timers /\ S \in SUBSET Modes /\ d \in Nat /\ d + Tolerance[t] < Never
    BY DEF AInv, Promised, MoveTimer
<1>2. /\ fireTSR' = [fireTSR EXCEPT ![t] = d]
      /\ timers' = Repositioned(S, t, fireTSR')
      /\ alarm' = Rearmed(S, t, timers', fireTSR', firing)
      /\ stale' = stale \cup (rlModes[t] \ S)
      /\ missed' = missed \cup (rlModes[t] \ S) \cup PassedOver(t, S)
      /\ rlModes' = rlModes /\ now' = now
    BY DEF MoveTimer
<1>d. doing' = [e \in Clients |-> doing'[e]] /\ Promised'
    BY PromiseDone DEF MoveTimer
<1> HIDE DEF t, S, d
<1>3. /\ fireTSR' \in [Timers -> Nat] /\ Before(fireTSR')
      /\ \A u \in Timers : u # t => fireTSR'[u] = fireTSR[u]
    BY <1>1, <1>2, <1>t DEF Before
<1>4. /\ timers' \in [Modes -> Seq(Timers)] /\ Listed(timers', rlModes)
      /\ \A m \in Modes : m \notin stale \cup (rlModes[t] \ S) => Sorted(timers'[m], fireTSR')
    <2>1. MovedIn(Repositioned(S, t, fireTSR'), S, t, fireTSR') BY <1>1, <1>3, RepositionedCorrect
    <2> QED BY <2>1, <1>2 DEF MovedIn
<1>5. alarm' \in [Modes -> AlarmType] BY <1>1, <1>2, <1>3, <1>4, RearmedTypes
<1>6. TimersSorted' BY <1>2, <1>4 DEF TimersSorted, Listed
<1>7. Types'
    <2>1. Before(fireTSR)' BY <1>3 DEF Before
    <2>2. stale' \subseteq missed' BY <1>2, <1>t
    <2> QED BY <2>1, <2>2, <1>2, <1>3, <1>4, <1>5, <1>d, <1>t DEF Types
<1> QED BY <1>6, <1>7, <1>d DEF AInv

\* A timer is inserted into the array of one more mode.
LEMMA InsertTimerArrays ==
    ASSUME AInv, NEW c \in Clients, InsertTimer(c) PROVE AInv'
PROOF
<1> DEFINE t == doing[c].timer  m == doing[c].mode
<1>t. /\ now \in Nat /\ now <= MaxTime /\ alarm \in [Modes -> AlarmType]
      /\ timers \in [Modes -> Seq(Timers)]
      /\ rlModes \in [Timers -> SUBSET Modes]
      /\ fireTSR \in [Timers -> Nat] /\ Before(fireTSR) /\ stale \subseteq missed
    BY DEF AInv, Types
<1>1. t \in Timers /\ m \in Modes BY DEF AInv, Promised, InsertTimer
<1>2. UNCHANGED <<now, fireTSR, stale>> BY DEF InsertTimer
<1>d. doing' = [e \in Clients |-> doing'[e]] /\ Promised'
    BY PromiseDone DEF InsertTimer
<1>3. CASE m \in rlModes[t]
    <2>1. UNCHANGED <<timers, alarm, rlModes, missed>> BY <1>3 DEF InsertTimer
    <2> QED BY <2>1, <1>2, <1>d, <1>t, ArraysKept
<1>4. CASE m \notin rlModes[t]
    <2>1. /\ rlModes' = [rlModes EXCEPT ![t] = @ \cup {m}]
          /\ timers' = [timers EXCEPT ![m] = Inserted(timers[m], t, fireTSR)]
          /\ alarm' = [alarm EXCEPT ![m] = ArmNextTimer(alarm[m], timers'[m], fireTSR, firing)]
          /\ missed \subseteq missed'
        BY <1>4 DEF InsertTimer
    <2> HIDE DEF t, m
    <2> DEFINE a == timers[m]  b == Inserted(a, t, fireTSR)
    <2>2. /\ a \in Seq(Timers) /\ IsInjective(a) /\ t \notin ToSet(a)
          /\ ToSet(a) = {u \in Timers : m \in rlModes[u]}
          /\ m \notin stale => Sorted(a, fireTSR)
        BY <1>1, <1>4, <1>t DEF AInv, TimersSorted
    <2> HIDE DEF a
    <2>3. /\ b \in Seq(Timers) /\ IsInjective(b) /\ ToSet(b) = ToSet(a) \cup {t}
          /\ Sorted(a, fireTSR) => Sorted(b, fireTSR)
        BY <2>2, <1>1, <1>t, InsertedCorrect
    <2> HIDE DEF b
    <2>4. /\ timers' \in [Modes -> Seq(Timers)] /\ timers'[m] = b
          /\ \A n \in Modes : n # m => timers'[n] = timers[n]
        BY <2>1, <2>3, <1>1, <1>t DEF a, b
    <2>5. /\ rlModes' \in [Timers -> SUBSET Modes] /\ rlModes'[t] = rlModes[t] \cup {m}
          /\ \A u \in Timers : u # t => rlModes'[u] = rlModes[u]
        BY <2>1, <1>1, <1>t
    <2>6. alarm' \in [Modes -> AlarmType]
        <3>1. alarm[m].at \in Nat BY <1>1, <1>t DEF AlarmType
        <3>2. alarm' = [alarm EXCEPT ![m] = ArmNextTimer(alarm[m], b, fireTSR, firing)]
            BY <2>1, <2>4
        <3> QED BY <3>1, <3>2, <2>3, <1>1, AlarmArmed
    <2>7. \A n \in Modes : /\ IsInjective(timers'[n])
                           /\ ToSet(timers'[n]) = {u \in Timers : n \in rlModes'[u]}
                           /\ n \notin stale => Sorted(timers'[n], fireTSR)
        <3> TAKE n \in Modes
        <3>1. CASE n = m
            <4>1. {u \in Timers : m \in rlModes'[u]} = {u \in Timers : m \in rlModes[u]} \cup {t}
                BY <2>5, <1>1
            <4> QED BY <3>1, <4>1, <2>2, <2>3, <2>4
        <3>2. CASE n # m
            <4>1. {u \in Timers : n \in rlModes'[u]} = {u \in Timers : n \in rlModes[u]}
                BY <3>2, <2>5, <1>1
            <4>2. /\ IsInjective(timers[n]) /\ ToSet(timers[n]) = {u \in Timers : n \in rlModes[u]}
                  /\ n \notin stale => Sorted(timers[n], fireTSR)
                BY DEF AInv, TimersSorted
            <4> QED BY <3>2, <4>1, <4>2, <2>4
        <3> QED BY <3>1, <3>2
    <2>8. TimersSorted' BY <2>7, <1>2 DEF TimersSorted
    <2>9. Types' BY <2>1, <2>4, <2>5, <2>6, <1>2, <1>d, <1>t DEF Types, Before
    <2> QED BY <2>8, <2>9, <1>d DEF AInv
<1> QED BY <1>3, <1>4

\* A timer is taken out of arrays.
LEMMA RemoveFromArrays ==
    ASSUME AInv, NEW S \in SUBSET Modes, NEW t \in Timers, RemoveFrom(S, t),
           UNCHANGED <<now, fireTSR, stale, missed>>,
           doing' = [c \in Clients |-> doing'[c]], Promised'
    PROVE  AInv'
PROOF
<1>t. /\ now \in Nat /\ now <= MaxTime
      /\ fireTSR \in [Timers -> Nat] /\ Before(fireTSR) /\ stale \subseteq missed
    BY DEF AInv, Types
<1>1. /\ timers' \in [Modes -> Seq(Timers)] /\ rlModes' \in [Timers -> SUBSET Modes]
      /\ Listed(timers', rlModes')
      /\ \A m \in Modes : m \notin stale => Sorted(timers'[m], fireTSR)
    BY RemovedCorrect
<1>2. alarm' = Rearmed(S, t, timers', fireTSR, firing) BY DEF RemoveFrom
<1>3. alarm' \in [Modes -> AlarmType] BY <1>1, <1>2, <1>t, RearmedTypes
<1>4. TimersSorted' BY <1>1 DEF TimersSorted, Listed
<1>5. Types' BY <1>1, <1>3, <1>t DEF Types, Before
<1> QED BY <1>4, <1>5 DEF AInv

\* After its callout the timer moves to its next date in all of its modes.
LEMMA TimerDoneArrays ==
    ASSUME IInv, TimerDone PROVE AInv'
PROOF
<1> DEFINE t == Top.call  m == Top.mode
<1>r. RunOK(Top) /\ CallOK(Top) /\ Top.pc = "Returned" /\ AInv
    BY TopIs DEF TimerDone, At, IInv
<1>s. /\ now \in Nat /\ now <= MaxTime /\ alarm \in [Modes -> AlarmType]
      /\ timers \in [Modes -> Seq(Timers)]
      /\ rlModes \in [Timers -> SUBSET Modes]
      /\ doing = [c \in Clients |-> doing[c]] /\ Promised
      /\ fireTSR \in [Timers -> Nat] /\ Before(fireTSR) /\ stale \subseteq missed
    BY <1>r DEF AInv, Types
<1>1. m \in Modes /\ t \in Timers /\ Top.old \in Nat /\ Top.old <= now
      /\ (t \in valid => Interval[t] # 0)
    BY <1>r DEF RunOK, CallOK, Calling
<1>2. UNCHANGED <<now, rlModes, doing, stale, missed>> BY DEF TimerDone, history
<1>p. Promised' BY <1>2, <1>s, PromisesKept
<1>3. CASE t \notin valid
    <2>1. UNCHANGED <<timers, alarm, fireTSR>> BY <1>3 DEF TimerDone
    <2> QED BY <2>1, <1>2, <1>p, <1>r, <1>s, ArraysKept
<1>4. CASE t \in valid /\ Top.old < fireTSR[t]
    <2>1. /\ UNCHANGED <<timers, fireTSR>>
          /\ alarm' = [alarm EXCEPT ![m] = ArmNextTimer(alarm[m], timers[m], fireTSR, firing')]
        BY <1>4 DEF TimerDone
    <2>2. alarm[m].at \in Nat /\ timers[m] \in Seq(Timers) BY <1>1, <1>s DEF AlarmType
    <2> HIDE DEF m, t
    <2>3. alarm' \in [Modes -> AlarmType] BY <2>1, <2>2, <1>1, <1>r, AlarmArmed
    <2> QED BY <2>1, <2>3, <1>2, <1>p, <1>r, <1>s, ArraysKept
<1>5. CASE t \in valid /\ ~(Top.old < fireTSR[t])
    <2> DEFINE d == NextFireTSR(t, Top.old)  S == rlModes[t]
    <2>1. /\ fireTSR' = [fireTSR EXCEPT ![t] = d]
          /\ timers' = Repositioned(S, t, fireTSR')
          /\ alarm' = Rearmed(S, t, timers', fireTSR', firing')
        BY <1>5 DEF TimerDone
    <2>2. d \in Nat /\ d + Tolerance[t] < Never
        <3>1. Interval[t] \in Nat /\ Interval[t] > 0 /\ Tolerance[t] \in Nat /\ MaxTime \in Nat
              /\ FireDates[t] \in Nat
            BY <1>1, <1>5, TimersAssumption
        <3>2. d \in Nat /\ d <= now + Interval[t] BY <3>1, <1>1, <1>s, NextFireTSRBounds
        <3>3. FireDates[t] + MaxTime + Interval[t] + Tolerance[t] < Never
            BY <1>1, DatesAssumption
        <3> QED BY <3>1, <3>2, <3>3, <1>s, NeverIsDate
    <2>3. S \in SUBSET Modes BY <1>1, <1>s
    <2> HIDE DEF d, t, m
    <2>4. /\ fireTSR' \in [Timers -> Nat] /\ Before(fireTSR')
          /\ \A u \in Timers : u # t => fireTSR'[u] = fireTSR[u]
        BY <2>1, <2>2, <1>1, <1>s DEF Before
    <2> HIDE DEF S
    <2>5. MovedIn(timers', S, t, fireTSR')
        <3>1. MovedIn(Repositioned(S, t, fireTSR'), S, t, fireTSR')
            BY <2>3, <2>4, <1>1, <1>r, RepositionedCorrect
        <3> QED BY <3>1, <2>1
    <2>6. timers' \in [Modes -> Seq(Timers)] BY <2>5 DEF MovedIn
    <2>7. alarm' \in [Modes -> AlarmType] BY <2>1, <2>3, <2>4, <2>6, <1>r, RearmedTypes
    <2>8. TimersSorted'
        <3>1. rlModes[t] \ S = {} BY DEF S
        <3> QED BY <3>1, <2>5, <1>2 DEF MovedIn, Listed, TimersSorted
    <2>9. Types' BY <2>4, <2>6, <2>7, <1>2, <1>s DEF Types, Before
    <2> QED BY <2>8, <2>9, <1>p DEF AInv
<1> QED BY <1>3, <1>4, <1>5

\* The arrays stay as they should be.
LEMMA AInvStep ==
    ASSUME IInv, [Next]_vars PROVE AInv'
PROOF
<1>a. AInv BY DEF IInv
<1>1. CASE \/ \E m \in Modes : Run(m) \/ Ring(m)
           \/ Return \/ DoTimers \/ (\E t \in Timers : DoTimer(t)) \/ CalloutReturns
           \/ DoTimersDone \/ Tick \/ UNCHANGED vars
    BY <1>1, RunsLeaveArrays
<1>2. CASE InvalidateFired
    <2>1. Top.call \in Timers /\ Top.modes \in SUBSET Modes
        BY <1>2, TopIs DEF InvalidateFired, At, CallOK, Calling
    <2>2. /\ RemoveFrom(Top.modes, Top.call)
          /\ UNCHANGED <<now, fireTSR, doing, stale, missed>>
        BY <1>2 DEF InvalidateFired, history
    <2>3. doing' = [c \in Clients |-> doing'[c]] /\ Promised'
        BY <2>2, <1>a, PromisesKept DEF AInv, Types
    <2> QED BY <2>1, <2>2, <2>3, <1>a, RemoveFromArrays
<1>3. CASE TimerDone BY <1>3, TimerDoneArrays
<1>4. ASSUME NEW c \in Clients, Client(c) PROVE AInv'
    <2>1. CASE MoveTimer(c) BY <2>1, <1>a, MoveTimerArrays
    <2>2. CASE InsertTimer(c) BY <2>2, <1>a, InsertTimerArrays
    <2>3. CASE RemoveInvalid(c)
        <3> DEFINE S == doing[c].modes  t == doing[c].timer
        <3>1. S \in SUBSET Modes /\ t \in Timers
            BY <2>3, <1>a DEF AInv, Promised, RemoveInvalid
        <3>2. RemoveFrom(S, t) /\ UNCHANGED <<now, fireTSR, stale, missed>>
            BY <2>3 DEF RemoveInvalid, history
        <3>3. doing' = [e \in Clients |-> doing'[e]] /\ Promised'
            BY <2>3, <1>a, PromiseDone DEF RemoveInvalid
        <3> HIDE DEF S, t
        <3> QED BY <3>1, <3>2, <3>3, <1>a, RemoveFromArrays
    <2>4. ASSUME NEW t \in Timers, NEW m \in Modes, RemoveTimer(c, t, m) PROVE AInv'
        <3>1. RemoveFrom({m}, t) /\ UNCHANGED <<now, fireTSR, stale, missed, doing>>
            BY <2>4 DEF RemoveTimer, history
        <3>2. doing' = [e \in Clients |-> doing'[e]] /\ Promised'
            BY <3>1, <1>a, PromisesKept DEF AInv, Types
        <3>3. {m} \in SUBSET Modes OBVIOUS
        <3> QED BY <3>1, <3>2, <3>3, <1>a, RemoveFromArrays
    <2>5. ASSUME NEW t \in Timers,
                 \/ \E k \in Delays : SetNextFireDate(c, t, now + k)
                 \/ \E m \in Modes : AddTimer(c, t, m)
                 \/ Invalidate(c, t)
          PROVE  AInv'
        BY <2>5, PromisesStep
    <2> QED BY <1>4, <2>1, <2>2, <2>3, <2>4, <2>5 DEF Client
<1> QED BY <1>1, <1>2, <1>3, <1>4 DEF Next

-----------------------------------------------------------------------------

\* The call of run r goes on.
LEMMA CallKept ==
    ASSUME NEW r, CallOK(r), r.pc \in Calling => r.call \in firing',
           now \in Nat, now' \in Nat, now <= now', valid' \subseteq valid, missed \subseteq missed',
           r.pc \in Calling =>
               \A m \in Modes : m \notin missed' /\ m # r.mode /\ r.call \in ToSet(timers'[m])
                   => r.call \in ToSet(timers[m]) /\ fireTSR'[r.call] = fireTSR[r.call]
    PROVE  CallOK(r)'
PROOF
<1> SUFFICES ASSUME r.pc \in Calling
             PROVE  /\ r.call \in firing' /\ r.call \in Timers
                    /\ r.old \in Nat /\ r.old <= now'
                    /\ r.pc = "Invalidate" => r.call \notin valid'
                    /\ r.pc = "Returned" => r.call \notin valid' \/ Interval[r.call] # 0
                    /\ \A m \in Modes :
                           m \notin missed' /\ m # r.mode /\ r.call \in ToSet(timers'[m])
                               => fireTSR'[r.call] <= r.old
    BY DEF CallOK
<1>1. /\ r.call \in firing /\ r.call \in Timers
      /\ r.old \in Nat /\ r.old <= now
      /\ r.pc = "Invalidate" => r.call \notin valid /\ r.modes \subseteq Modes
      /\ r.pc = "Returned" => r.call \notin valid \/ Interval[r.call] # 0
      /\ \A m \in Modes : m \notin missed /\ m # r.mode /\ r.call \in ToSet(timers[m])
               => fireTSR[r.call] <= r.old
    BY DEF CallOK
<1>2. r.old <= now' BY <1>1
<1>3. ASSUME NEW m \in Modes, m \notin missed', m # r.mode, r.call \in ToSet(timers'[m])
      PROVE  fireTSR'[r.call] <= r.old
    BY <1>1, <1>3
<1> QED BY <1>1, <1>2, <1>3

\* Steps that leave the stack and the marks alone.
LEMMA RunsKept ==
    ASSUME IInv, UNCHANGED <<runs, firing>>, now' \in Nat, now <= now', valid' \subseteq valid,
           missed \subseteq missed',
           \A i \in 1..Len(runs) : runs[i].pc \in Calling =>
               \A m \in Modes :
                   m \notin missed' /\ m # runs[i].mode /\ runs[i].call \in ToSet(timers'[m])
                   => /\ runs[i].call \in ToSet(timers[m])
                      /\ fireTSR'[runs[i].call] = fireTSR[runs[i].call]
    PROVE  Stack'
PROOF
<1>1. now \in Nat BY DEF IInv, AInv, Types
<1>2. ASSUME NEW i \in 1..Len(runs), NEW r, r = runs[i] PROVE RunOK(r) /\ CallOK(r)'
    <2>1. RunOK(r) /\ CallOK(r) BY <1>2 DEF IInv, Stack
    <2>2. r.pc \in Calling => r.call \in firing' BY <2>1 DEF CallOK
    <2> QED BY <1>1, <1>2, <2>1, <2>2, CallKept
<1>3. \A i \in 1..Len(runs') : RunOK(runs'[i]) /\ CallOK(runs[i])'
    <2> SUFFICES ASSUME NEW i \in 1..Len(runs) PROVE RunOK(runs[i]) /\ CallOK(runs[i])'
        OBVIOUS
    <2>1. PICK r : r = runs[i] OBVIOUS
    <2>2. RunOK(r) /\ CallOK(r)' BY <1>2, <2>1
    <2>3. r = runs'[i] BY <2>1
    <2> QED BY <2>1, <2>2, <2>3 DEF CallOK
<1> QED BY <1>3 DEF IInv, Stack, RunOK

\* The innermost run becomes f.
LEMMA TopChanges ==
    ASSUME IInv, runs # <<>>, NEW f, SetTop(f), RunOK(f), CallOK(f)',
           valid' \subseteq valid, missed \subseteq missed', now' = now,
           \A i \in 1..Len(runs) : i < Len(runs) =>
               /\ runs[i].call \in firing'
               /\ f.pc \in Calling => runs[i].call # f.call
               /\ \A m \in Modes :
                      m \notin missed' /\ m # runs[i].mode /\ runs[i].call \in ToSet(timers'[m])
                      => /\ runs[i].call \in ToSet(timers[m])
                         /\ fireTSR'[runs[i].call] = fireTSR[runs[i].call]
    PROVE  Stack'
PROOF
<1> PICK S : runs \in Seq(S) BY DEF IInv, Stack
<1>1. Len(runs) \in Nat /\ Len(runs) > 0 OBVIOUS
<1>2. runs' \in Seq(S \cup {f}) /\ Len(runs') = Len(runs) BY <1>1 DEF SetTop
<1>3. \A i \in 1..Len(runs) : runs'[i] = IF i = Len(runs) THEN f ELSE runs[i]
    BY <1>1 DEF SetTop
<1>n. now \in Nat /\ now' \in Nat /\ now <= now' BY DEF IInv, AInv, Types
<1>4. ASSUME NEW i \in 1..Len(runs), i < Len(runs), NEW r, r = runs[i] PROVE CallOK(r)'
    <2>1. CallOK(r) /\ r.pc = "Callout" BY <1>4 DEF IInv, Stack
    <2> QED BY <1>4, <1>n, <2>1, CallKept
<1>5. \A i \in 1..Len(runs') : RunOK(runs'[i]) /\ CallOK(runs[i])'
    <2> SUFFICES ASSUME NEW i \in 1..Len(runs') PROVE RunOK(runs'[i]) /\ CallOK(runs[i])'
        OBVIOUS
    <2>0. i \in 1..Len(runs) BY <1>2
    <2>1. CASE i = Len(runs) BY <2>0, <2>1, <1>3 DEF CallOK
    <2>2. CASE i # Len(runs)
        <3>1. PICK r : r = runs[i] OBVIOUS
        <3>2. CallOK(r)' /\ RunOK(r) BY <1>4, <2>0, <2>2, <3>1, <1>1 DEF IInv, Stack
        <3>3. r = runs'[i] BY <3>1, <2>0, <2>2, <1>3
        <3> QED BY <3>2, <3>3 DEF CallOK
    <2> QED BY <2>1, <2>2
<1>6. \A i \in 1..Len(runs') : i < Len(runs') => runs'[i].pc = "Callout"
    BY <1>1, <1>2, <1>3 DEF IInv, Stack
<1>7. \A i, j \in 1..Len(runs') :
           runs'[i].pc \in Calling /\ runs'[j].pc \in Calling /\ runs'[i].call = runs'[j].call
           => i = j
    BY <1>1, <1>2, <1>3 DEF IInv, Stack
<1> QED BY <1>2, <1>5, <1>6, <1>7 DEF Stack

\* A run that does not call is where CallOK asks nothing.
LEMMA NotCalling ==
    ASSUME NEW r, r.pc \notin Calling PROVE CallOK(r) /\ CallOK(r)'
BY DEF CallOK

\* A run begins, on the empty stack or in a callout.
LEMMA RunStep ==
    ASSUME IInv, NEW m \in Modes, Run(m) PROVE Stack'
PROOF
<1> DEFINE f == [mode |-> m, pc |-> "Wait", order |-> <<>>, due |-> {},
                 call |-> none, old |-> 0, modes |-> {}, handled |-> FALSE]
<1> PICK S : runs \in Seq(S) BY DEF IInv, Stack
<1>1. runs' = Append(runs, f) /\ UNCHANGED <<firing, now, valid, missed, timers, fireTSR>>
    BY DEF Run, history
<1>2. DOMAIN f = Fields BY DEF Fields
<1>3. f.pc = "Wait" /\ f.mode = m /\ f.call = none /\ f.handled = FALSE OBVIOUS
<1>f. RunOK(f) /\ CallOK(f) BY <1>2, <1>3, NotCalling DEF RunOK, Calling
<1> HIDE DEF f
<1>4. Len(runs) \in Nat /\ (Len(runs) = 0 \/ runs[Len(runs)].pc = "Callout")
    BY DEF Run, Top
<1>5. runs' \in Seq(S \cup {f}) /\ Len(runs') = Len(runs) + 1 BY <1>1
<1>6. \A i \in 1..Len(runs') : runs'[i] = IF i = Len(runs') THEN f ELSE runs[i]
    BY <1>1, <1>5
<1>7. \A i \in 1..Len(runs') : RunOK(runs'[i]) /\ CallOK(runs'[i])
    BY <1>f, <1>4, <1>5, <1>6 DEF IInv, Stack
<1>8. \A i \in 1..Len(runs') : RunOK(runs[i])' /\ CallOK(runs[i])'
    BY <1>7, <1>1 DEF CallOK, RunOK
<1>9. \A i \in 1..Len(runs') : i < Len(runs') => runs'[i].pc = "Callout"
    BY <1>4, <1>5, <1>6 DEF IInv, Stack
<1>10. \A i, j \in 1..Len(runs') :
           runs'[i].pc \in Calling /\ runs'[j].pc \in Calling /\ runs'[i].call = runs'[j].call
           => i = j
    BY <1>3, <1>4, <1>5, <1>6 DEF IInv, Stack, Calling
<1> QED BY <1>5, <1>8, <1>9, <1>10 DEF Stack

\* The innermost run returns.
LEMMA ReturnStep ==
    ASSUME IInv, Return PROVE Stack'
PROOF
<1> PICK S : runs \in Seq(S) BY DEF IInv, Stack
<1>1. /\ runs # <<>> /\ runs' = Front(runs)
      /\ UNCHANGED <<firing, now, valid, missed, timers, fireTSR>>
    BY DEF Return, At, history
<1> DEFINE n == Len(runs) - 1
<1>2. runs' = SubSeq(runs, 1, n) BY <1>1 DEF Front
<1>n. n \in Nat /\ Len(runs) = n + 1 BY <1>1
<1>r. \A i \in 1..n : runs[i] \in S BY <1>n
<1> HIDE DEF n
<1>3. runs' \in Seq(S) /\ Len(runs') = n
    <2>1. SubSeq(runs, 1, n) \in Seq(S) BY <1>n, <1>r
    <2>2. Len(SubSeq(runs, 1, n)) = n BY <1>n, <1>r
    <2> QED BY <2>1, <2>2, <1>2
<1>4. \A i \in 1..Len(runs') : runs'[i] = runs[i] BY <1>2, <1>3, <1>n
<1>5. \A i \in 1..Len(runs') : RunOK(runs'[i]) /\ CallOK(runs'[i])
    BY <1>3, <1>4, <1>n DEF IInv, Stack
<1>6. \A i \in 1..Len(runs') : RunOK(runs[i])' /\ CallOK(runs[i])'
    BY <1>5, <1>1 DEF CallOK, RunOK
<1> QED BY <1>3, <1>4, <1>6, <1>n DEF IInv, Stack

\* What the runs below the innermost one call is not what that one calls.
LEMMA Below ==
    ASSUME IInv, runs # <<>>
    PROVE  \A i \in 1..Len(runs) : i < Len(runs) =>
               /\ runs[i].pc \in Calling /\ runs[i].call \in firing /\ runs[i].call \in Timers
               /\ Top.pc \in Calling => runs[i].call # Top.call
PROOF
<1>1. Len(runs) \in 1..Len(runs) /\ Top = runs[Len(runs)] BY TopIs
<1> QED BY <1>1 DEF IInv, Stack, CallOK, Calling

\* The timers that are due are collected.
LEMMA DoTimersStep ==
    ASSUME IInv, DoTimers PROVE Stack'
PROOF
<1>f. PICK f : f = [Top EXCEPT !.pc = "DoTimers", !.order = SelectSeq(timers[Top.mode], Due),
                               !.due = {t \in ToSet(timers[Top.mode]) : Due(t)}]
    OBVIOUS
<1>1. /\ runs # <<>> /\ SetTop(f) /\ Top.pc = "Wait"
      /\ UNCHANGED <<firing, now, valid, missed, timers, fireTSR>>
    BY <1>f DEF DoTimers, At, history
<1>2. RunOK(Top) BY <1>1, TopIs
<1>3. DOMAIN f = Fields /\ f.pc = "DoTimers" /\ f.mode = Top.mode /\ f.call = Top.call
    BY <1>2, <1>f DEF RunOK, Fields
<1>4. RunOK(f) BY <1>1, <1>2, <1>3 DEF RunOK, Calling
<1>5. CallOK(f)' BY <1>3 DEF CallOK, Calling
<1> QED BY <1>1, <1>3, <1>4, <1>5, Below, TopChanges DEF Calling

\* A timer that nobody calls is called, or one is skipped.
LEMMA DoTimerStep ==
    ASSUME IInv, NEW t \in Timers, DoTimer(t) PROVE Stack'
PROOF
<1>f. PICK f : f = [Top EXCEPT !.pc = "Callout", !.due = @ \ {t}, !.call = t,
                               !.old = fireTSR[t]]
    OBVIOUS
<1>g. PICK g : g = [Top EXCEPT !.due = @ \ {t}] OBVIOUS
<1>0. /\ runs # <<>> /\ Top.pc = "DoTimers"
      /\ UNCHANGED <<now, valid, missed, timers, fireTSR>>
    BY DEF DoTimer, At, history
<1>r. RunOK(Top) BY <1>0, TopIs
<1>n. fireTSR[t] \in Nat /\ now \in Nat BY DEF IInv, AInv, Types
<1>1. CASE Due(t) /\ firing' = firing \cup {t} /\ SetTop(f)
    <2>1. /\ DOMAIN f = Fields /\ f.pc = "Callout" /\ f.mode = Top.mode
          /\ f.call = t /\ f.old = fireTSR[t]
        BY <1>r, <1>f DEF RunOK, Fields
    <2>2. t \notin firing /\ fireTSR[t] <= now BY <1>1 DEF Due
    <2>3. RunOK(f) BY <1>r, <2>1 DEF RunOK, Calling
    <2>4. CallOK(f)' BY <2>1, <2>2, <1>0, <1>1, <1>n DEF CallOK
    <2>5. \A i \in 1..Len(runs) : i < Len(runs) =>
              runs[i].call \in firing' /\ runs[i].call # t
        BY <1>0, <1>1, <2>2, Below
    <2> QED BY <1>0, <1>1, <2>1, <2>3, <2>4, <2>5, TopChanges
<1>2. CASE firing' = firing /\ SetTop(g)
    <2>1. DOMAIN g = Fields /\ g.pc = Top.pc /\ g.mode = Top.mode /\ g.call = Top.call
        BY <1>r, <1>g DEF RunOK, Fields
    <2>2. RunOK(g) BY <1>0, <1>r, <2>1 DEF RunOK
    <2>3. CallOK(g)' BY <1>0, <2>1 DEF CallOK, Calling
    <2>4. g.pc \notin Calling BY <1>0, <2>1 DEF Calling
    <2> QED BY <1>0, <1>2, <2>2, <2>3, <2>4, Below, TopChanges
<1> QED BY <1>1, <1>2, <1>f, <1>g DEF DoTimer

\* The callout returns, and the timer stays marked.
LEMMA CalloutReturnsStep ==
    ASSUME IInv, CalloutReturns PROVE Stack'
PROOF
<1> DEFINE f(pc, S) == [Top EXCEPT !.pc = pc, !.modes = S]
<1>0. /\ runs # <<>> /\ Top.pc = "Callout"
      /\ UNCHANGED <<firing, now, missed, timers, fireTSR>>
    BY DEF CalloutReturns, At, history
<1>r. RunOK(Top) /\ CallOK(Top) BY <1>0, TopIs
<1>1. PICK pc \in {"Invalidate", "Returned"}, S \in {rlModes[Top.call], Top.modes} :
          /\ SetTop(f(pc, S)) /\ valid' \subseteq valid
          /\ pc = "Invalidate" => S \subseteq Modes
          /\ pc = "Invalidate" => Top.call \notin valid'
          /\ pc = "Returned" => Top.call \notin valid' \/ Interval[Top.call] # 0
    <2>1. CASE Interval[Top.call] = 0 /\ Top.call \in valid
        <3>1. /\ valid' = valid \ {Top.call}
              /\ SetTop(f("Invalidate", rlModes[Top.call]))
            BY <2>1 DEF CalloutReturns
        <3>2. rlModes[Top.call] \subseteq Modes
            BY <1>0, <1>r DEF CallOK, Calling, IInv, AInv, Types
        <3> QED BY <3>1, <3>2
    <2>2. CASE ~(Interval[Top.call] = 0 /\ Top.call \in valid)
        <3>1. valid' = valid /\ SetTop([Top EXCEPT !.pc = "Returned"])
            BY <2>2 DEF CalloutReturns
        <3>2. [Top EXCEPT !.pc = "Returned"] = f("Returned", Top.modes)
            BY <1>r DEF RunOK, Fields
        <3> QED BY <3>1, <3>2, <2>2
    <2> QED BY <2>1, <2>2
<1>2. PICK g : g = f(pc, S) OBVIOUS
<1>3. /\ DOMAIN g = Fields /\ g.pc = pc /\ g.mode = Top.mode /\ g.call = Top.call
      /\ g.old = Top.old /\ g.modes = S
    BY <1>2, <1>r DEF RunOK, Fields
<1>4. SetTop(g) BY <1>1, <1>2
<1> HIDE DEF f
<1>5. RunOK(g) BY <1>1, <1>3, <1>r DEF RunOK, Calling
<1>6. CallOK(g)' BY <1>0, <1>1, <1>3, <1>r DEF CallOK, Calling
<1>7. \A i \in 1..Len(runs) : i < Len(runs) => runs[i].call \in firing' /\ runs[i].call # g.call
    BY <1>0, <1>3, Below DEF Calling
<1> QED BY <1>0, <1>1, <1>4, <1>5, <1>6, <1>7, TopChanges

\* A timer that fired once leaves its modes, and stays marked.
LEMMA InvalidateFiredStep ==
    ASSUME IInv, InvalidateFired PROVE Stack'
PROOF
<1>f. PICK f : f = [Top EXCEPT !.pc = "Returned", !.modes = {}] OBVIOUS
<1>t. PICK t, S : t = Top.call /\ S = Top.modes OBVIOUS
<1>0. /\ runs # <<>> /\ Top.pc = "Invalidate" /\ SetTop(f)
      /\ UNCHANGED <<firing, now, valid, missed, fireTSR>>
      /\ RemoveFrom(S, t)
    BY <1>f, <1>t DEF InvalidateFired, At, history
<1>r. RunOK(Top) /\ CallOK(Top) BY <1>0, TopIs
<1>1. t \in Timers /\ S \in SUBSET Modes BY <1>0, <1>r, <1>t DEF CallOK, Calling
<1>2. \A m \in Modes : ToSet(timers'[m]) \subseteq ToSet(timers[m])
    <2>1. AInv BY DEF IInv
    <2>2. \A m \in Modes : ToSet(timers'[m]) = ToSet(timers[m]) \ (IF m \in S THEN {t} ELSE {})
        BY <1>0, <1>1, <2>1, RemovedCorrect
    <2> QED BY <2>2
<1>3. DOMAIN f = Fields /\ f.pc = "Returned" /\ f.mode = Top.mode /\ f.call = t /\ f.old = Top.old
    BY <1>r, <1>f, <1>t DEF RunOK, Fields
<1>4. RunOK(f) BY <1>0, <1>3, <1>r DEF RunOK, Calling
<1>5. CallOK(f)' BY <1>0, <1>2, <1>3, <1>r, <1>t DEF CallOK, Calling
<1>6. \A i \in 1..Len(runs) : i < Len(runs) => runs[i].call \in firing' /\ runs[i].call # f.call
    BY <1>0, <1>3, <1>t, Below DEF Calling
<1> QED BY <1>0, <1>2, <1>4, <1>5, <1>6, TopChanges

\* The timer is done, and loses the mark that no other run made.
LEMMA TimerDoneStep ==
    ASSUME IInv, TimerDone PROVE Stack'
PROOF
<1>f. PICK f : f = [Top EXCEPT !.pc = "DoTimers", !.call = none, !.old = 0, !.handled = TRUE]
    OBVIOUS
<1>t. PICK t : t = Top.call OBVIOUS
<1>0. /\ runs # <<>> /\ Top.pc = "Returned" /\ SetTop(f) /\ firing' = firing \ {t}
      /\ UNCHANGED <<now, valid, missed, rlModes>>
    BY <1>f, <1>t DEF TimerDone, At, history
<1>r. RunOK(Top) /\ CallOK(Top) BY <1>0, TopIs
<1>1. t \in Timers BY <1>0, <1>r, <1>t DEF CallOK, Calling
<1>2. /\ \A m \in Modes : ToSet(timers'[m]) = ToSet(timers[m])
      /\ \A u \in Timers : u # t => fireTSR'[u] = fireTSR[u]
    <2>1. TimersSorted /\ TimersSorted' BY AInvStep DEF IInv, AInv, Next
    <2>2. \A m \in Modes : ToSet(timers'[m]) = ToSet(timers[m])
        BY <2>1, <1>0 DEF TimersSorted
    <2>3. \/ fireTSR' = fireTSR
          \/ fireTSR' = [fireTSR EXCEPT ![t] = NextFireTSR(t, Top.old)]
        BY <1>t DEF TimerDone
    <2>4. fireTSR \in [Timers -> Nat] BY DEF IInv, AInv, Types
    <2> QED BY <2>2, <2>3, <2>4, <1>1
<1>3. DOMAIN f = Fields /\ f.pc = "DoTimers" /\ f.mode = Top.mode /\ f.call = none
    BY <1>r, <1>f DEF RunOK, Fields
<1>4. RunOK(f) BY <1>0, <1>3, <1>r DEF RunOK, Calling
<1>5. CallOK(f)' BY <1>3 DEF CallOK, Calling
<1>6. \A i \in 1..Len(runs) : i < Len(runs) =>
          runs[i].call \in firing' /\ runs[i].call # t /\ runs[i].call \in Timers
    BY <1>0, <1>t, Below DEF Calling
<1>7. f.pc \notin Calling BY <1>3 DEF Calling
<1> QED BY <1>0, <1>2, <1>4, <1>5, <1>6, <1>7, TopChanges

\* All collected timers were called or skipped.
LEMMA DoTimersDoneStep ==
    ASSUME IInv, DoTimersDone PROVE Stack'
PROOF
<1>f. PICK f : f = [Top EXCEPT !.pc = "Wait", !.order = <<>>, !.handled = FALSE] OBVIOUS
<1>1. /\ runs # <<>> /\ SetTop(f) /\ Top.pc = "DoTimers" /\ missed \subseteq missed'
      /\ UNCHANGED <<firing, now, valid, timers, fireTSR>>
    BY <1>f DEF DoTimersDone, At
<1>2. RunOK(Top) BY <1>1, TopIs
<1>3. /\ DOMAIN f = Fields /\ f.pc = "Wait" /\ f.mode = Top.mode /\ f.call = Top.call
      /\ f.handled = FALSE
    BY <1>2, <1>f DEF RunOK, Fields
<1>4. RunOK(f) BY <1>1, <1>2, <1>3 DEF RunOK, Calling
<1>5. CallOK(f)' BY <1>3 DEF CallOK, Calling
<1> QED BY <1>1, <1>3, <1>4, <1>5, Below, TopChanges DEF Calling

\* Only the mode in which timer t is being called is not passed over.
LEMMA PassedOverIs ==
    ASSUME IInv, NEW i \in 1..Len(runs), runs[i].pc \in Calling, NEW S
    PROVE  PassedOver(runs[i].call, S) = S \ {runs[i].mode}
PROOF
<1> DEFINE t == runs[i].call
<1>1. t \in firing /\ t \in Timers BY DEF IInv, Stack, CallOK
<1>2. \A j \in 1..Len(runs) : runs[j].call = t => j = i
    <2> SUFFICES ASSUME NEW j \in 1..Len(runs), runs[j].call = t PROVE j = i OBVIOUS
    <2>1. runs[j].pc \in Calling
        BY <1>1, TimersAssumption DEF IInv, Stack, RunOK
    <2> QED BY <2>1 DEF IInv, Stack
<1>3. DOMAIN runs = 1..Len(runs) BY DEF IInv, Stack
<1> HIDE DEF t
<1>4. {j \in DOMAIN runs : runs[j].call = t} = {i} BY <1>2, <1>3 DEF t
<1>5. PassedOver(t, S) = S \ {runs[j].mode : j \in {i}} BY <1>1, <1>4 DEF PassedOver
<1> QED BY <1>5 DEF t

\* A call that leaves the dates and the arrays of timers being called alone.
LEMMA ClientStep ==
    ASSUME IInv, NEW c \in Clients, Client(c) PROVE Stack'
PROOF
<1>a. AInv BY DEF IInv
<1>t. /\ now \in Nat /\ timers \in [Modes -> Seq(Timers)]
      /\ rlModes \in [Timers -> SUBSET Modes] /\ fireTSR \in [Timers -> Nat]
    BY <1>a DEF AInv, Types
<1>0. UNCHANGED <<runs, firing, now>> /\ valid' \subseteq valid /\ missed \subseteq missed'
    BY DEF Client, SetNextFireDate, MoveTimer, AddTimer, InsertTimer, RemoveTimer,
           Invalidate, RemoveInvalid, history
<1>l. \A i \in 1..Len(runs) : runs[i].pc \in Calling => runs[i].call \in Timers
    BY DEF IInv, Stack, CallOK
<1>1. CASE \E t \in Timers : \E k \in Delays : SetNextFireDate(c, t, now + k)
    <2>1. PICK t \in Timers, k \in Delays : SetNextFireDate(c, t, now + k) BY <1>1
    <2>2. timers' = timers BY <2>1 DEF SetNextFireDate
    <2>3. \A u \in Timers, m \in Modes : u \in ToSet(timers[m]) => fireTSR'[u] = fireTSR[u]
        <3>1. CASE rlModes[t] = {}
            <4>1. fireTSR' = [fireTSR EXCEPT ![t] = now + k] BY <2>1, <3>1 DEF SetNextFireDate
            <4>2. \A m \in Modes : t \notin ToSet(timers[m])
                BY <3>1, <1>a DEF AInv, TimersSorted
            <4> QED BY <4>1, <4>2, <1>t
        <3>2. CASE rlModes[t] # {} BY <2>1, <3>2 DEF SetNextFireDate
        <3> QED BY <3>1, <3>2
    <2> QED BY <2>2, <2>3, <1>0, <1>t, <1>l, RunsKept
<1>2. CASE \/ \E t \in Timers : Invalidate(c, t) \/ \E m \in Modes : AddTimer(c, t, m)
    <2>1. timers' = timers /\ fireTSR' = fireTSR BY <1>2 DEF Invalidate, AddTimer
    <2> QED BY <2>1, <1>0, <1>t, RunsKept
<1>3. CASE MoveTimer(c)
    <2>1. PICK t, S : t = doing[c].timer /\ S = doing[c].modes OBVIOUS
    <2>2. t \in Timers /\ S \in SUBSET Modes /\ doing[c].date \in Nat
        BY <2>1, <1>3, <1>a DEF AInv, Promised, MoveTimer
    <2>3. /\ fireTSR' = [fireTSR EXCEPT ![t] = doing[c].date]
          /\ missed' = missed \cup (rlModes[t] \ S) \cup PassedOver(t, S)
          /\ rlModes' = rlModes
        BY <2>1, <1>3 DEF MoveTimer
    <2>4. \A m \in Modes : ToSet(timers'[m]) = ToSet(timers[m])
        <3>1. TimersSorted /\ TimersSorted' BY <1>a, AInvStep DEF AInv, Next
        <3> QED BY <3>1, <2>3 DEF TimersSorted
    <2>5. ASSUME NEW i \in 1..Len(runs), runs[i].pc \in Calling,
                 NEW m \in Modes, m \notin missed', m # runs[i].mode,
                 runs[i].call \in ToSet(timers[m])
          PROVE  fireTSR'[runs[i].call] = fireTSR[runs[i].call]
        <3>1. CASE runs[i].call = t
            <4>1. m \in rlModes[t] BY <2>5, <3>1, <2>2, <1>a DEF AInv, TimersSorted
            <4>2. m \in S BY <4>1, <2>3, <2>5
            <4>3. PassedOver(t, S) = S \ {runs[i].mode} BY <2>5, <3>1, PassedOverIs
            <4> QED BY <4>2, <4>3, <2>3, <2>5
        <3>2. CASE runs[i].call # t BY <3>2, <2>3, <2>5, <1>t, <1>l
        <3> QED BY <3>1, <3>2
    <2> QED BY <2>4, <2>5, <1>0, <1>t, RunsKept
<1>4. CASE InsertTimer(c)
    <2>1. PICK t, n : t = doing[c].timer /\ n = doing[c].mode OBVIOUS
    <2>2. t \in Timers /\ n \in Modes /\ fireTSR' = fireTSR
        BY <2>1, <1>4, <1>a DEF AInv, Promised, InsertTimer
    <2>3. CASE n \in rlModes[t]
        <3>1. timers' = timers BY <2>1, <2>3, <1>4 DEF InsertTimer
        <3> QED BY <3>1, <2>2, <1>0, <1>t, RunsKept
    <2>4. CASE n \notin rlModes[t]
        <3>1. /\ missed' = missed \cup PassedOver(t, {n})
              /\ rlModes' = [rlModes EXCEPT ![t] = @ \cup {n}]
            BY <2>1, <2>4, <1>4 DEF InsertTimer
        <3>2. TimersSorted /\ TimersSorted' BY <1>a, AInvStep DEF AInv, Next
        <3>3. \A u \in Timers, m \in Modes :
                  m \in rlModes'[u] => m \in rlModes[u] \/ (u = t /\ m = n)
            BY <3>1, <2>2, <1>t
        <3>4. \A u \in Timers, m \in Modes :
                  u \in ToSet(timers'[m]) => u \in ToSet(timers[m]) \/ (u = t /\ m = n)
            BY <3>2, <3>3 DEF TimersSorted
        <3>5. ASSUME NEW i \in 1..Len(runs), runs[i].pc \in Calling,
                     NEW m \in Modes, m \notin missed', m # runs[i].mode,
                     runs[i].call \in ToSet(timers'[m])
              PROVE  runs[i].call \in ToSet(timers[m])
            <4> SUFFICES ASSUME runs[i].call = t, m = n PROVE FALSE BY <3>4, <3>5, <1>l
            <4>1. PassedOver(t, {n}) = {n} \ {runs[i].mode} BY <3>5, PassedOverIs
            <4> QED BY <4>1, <3>1, <3>5
        <3> QED BY <3>5, <2>2, <1>0, <1>t, RunsKept
    <2> QED BY <2>3, <2>4
<1>5. CASE RemoveInvalid(c) \/ \E t \in Timers, m \in Modes : RemoveTimer(c, t, m)
    <2>1. PICK t, S : RemoveFrom(S, t) /\ t \in Timers /\ S \in SUBSET Modes
        <3>1. CASE RemoveInvalid(c)
            <4>1. doing[c].modes \in SUBSET Modes /\ doing[c].timer \in Timers
                BY <3>1, <1>a DEF AInv, Promised, RemoveInvalid
            <4> QED BY <3>1, <4>1 DEF RemoveInvalid
        <3>2. CASE \E t \in Timers, m \in Modes : RemoveTimer(c, t, m)
            <4>1. PICK t \in Timers, m \in Modes : RemoveFrom({m}, t) BY <3>2 DEF RemoveTimer
            <4>2. {m} \in SUBSET Modes OBVIOUS
            <4> QED BY <4>1, <4>2
        <3> QED BY <1>5, <3>1, <3>2
    <2>2. \A m \in Modes : ToSet(timers'[m]) = ToSet(timers[m]) \ (IF m \in S THEN {t} ELSE {})
        BY <2>1, <1>a, RemovedCorrect
    <2>3. fireTSR' = fireTSR BY <1>5 DEF RemoveInvalid, RemoveTimer
    <2> QED BY <2>2, <2>3, <1>0, <1>t, RunsKept
<1> QED BY <1>1, <1>2, <1>3, <1>4, <1>5 DEF Client

\* The clock and the alarms know nothing of the stack.
LEMMA OtherStep ==
    ASSUME IInv, (\E m \in Modes : Ring(m)) \/ Tick \/ UNCHANGED vars PROVE Stack'
PROOF
<1>1. UNCHANGED <<runs, firing, valid, missed, timers, fireTSR>>
    BY DEF Ring, Tick, vars, history
<1>2. now \in Nat BY DEF IInv, AInv, Types
<1>3. now' \in Nat /\ now <= now'
    <2>1. now' = now \/ now' = now + 1 BY DEF Ring, Tick, vars
    <2> QED BY <2>1, <1>2
<1> QED BY <1>1, <1>2, <1>3, RunsKept

\* The arrays and the stack are inductive together.
LEMMA Inductive == IInv /\ [Next]_vars => IInv'
PROOF
<1> SUFFICES ASSUME IInv, [Next]_vars PROVE IInv' OBVIOUS
<1>0. AInv' BY AInvStep
<1>1. CASE \E m \in Modes : Run(m) BY <1>1, <1>0, RunStep DEF IInv
<1>2. CASE Return BY <1>2, <1>0, ReturnStep DEF IInv
<1>3. CASE DoTimers BY <1>3, <1>0, DoTimersStep DEF IInv
<1>4. CASE \E t \in Timers : DoTimer(t) BY <1>4, <1>0, DoTimerStep DEF IInv
<1>5. CASE CalloutReturns BY <1>5, <1>0, CalloutReturnsStep DEF IInv
<1>6. CASE InvalidateFired BY <1>6, <1>0, InvalidateFiredStep DEF IInv
<1>7. CASE TimerDone BY <1>7, <1>0, TimerDoneStep DEF IInv
<1>8. CASE DoTimersDone BY <1>8, <1>0, DoTimersDoneStep DEF IInv
<1>9. CASE \E c \in Clients : Client(c) BY <1>9, <1>0, ClientStep DEF IInv
<1>10. CASE (\E m \in Modes : Ring(m)) \/ Tick \/ UNCHANGED vars
    BY <1>10, <1>0, OtherStep DEF IInv
<1> QED BY <1>1, <1>2, <1>3, <1>4, <1>5, <1>6, <1>7, <1>8, <1>9, <1>10 DEF Next

\* Whatever order the timers were added in.
LEMMA Initially == Init => IInv
PROOF
<1> SUFFICES ASSUME Init PROVE IInv OBVIOUS
<1>0. /\ MaxTime \in Nat /\ InModes \in [Timers -> SUBSET Modes]
      /\ FireDates \in [Timers -> Nat] /\ IsFiniteSet(Timers) /\ Interval \in [Timers -> Nat]
      /\ Tolerance \in [Timers -> Nat]
    BY TimersAssumption
<1>1. Before(FireDates)
    <2> SUFFICES ASSUME NEW t \in Timers PROVE FireDates[t] + Tolerance[t] < Never
        BY DEF Before
    <2>1. FireDates[t] + MaxTime + Interval[t] + Tolerance[t] < Never BY DatesAssumption
    <2>2. /\ FireDates[t] \in Nat /\ MaxTime \in Nat /\ Interval[t] \in Nat
          /\ Tolerance[t] \in Nat
        BY <1>0
    <2> QED BY <2>1, <2>2, NeverIsDate
<1>2. timers \in [Modes -> Seq(Timers)]
    <2>1. Cardinality(Timers) \in Nat BY <1>0, FS_CardinalityType
    <2>2. \A s \in SeqOf(Timers, Cardinality(Timers)) : s \in Seq(Timers)
        <3> TAKE s \in SeqOf(Timers, Cardinality(Timers))
        <3>1. PICK n \in 0..Cardinality(Timers) : s \in [1..n -> Timers] BY DEF SeqOf
        <3>2. n \in Nat BY <2>1
        <3> QED BY <3>1, <3>2
    <2> QED BY <2>2 DEF Init
<1>3. alarm \in [Modes -> AlarmType]
    <2>1. \A m \in Modes : ArmNextTimer(Disarmed, timers[m], FireDates, {}) \in AlarmType
        <3> TAKE m \in Modes
        <3>1. Disarmed.at \in Nat BY NeverIsDate DEF Disarmed
        <3>2. timers[m] \in Seq(Timers) BY <1>2
        <3> QED BY <1>0, <1>1, <3>1, <3>2, ArmNextTimerCorrect DEF ArmedFor
    <2> QED BY <2>1 DEF Init
<1>4. Promised
    <2>1. \A c \in Clients : doing[c].call = "none" BY DEF Init, none
    <2> QED BY <2>1 DEF Promised
<1>5. Types BY <1>0, <1>1, <1>2, <1>3 DEF Init, Types
<1>6. TimersSorted BY DEF Init, TimersSorted
<1>7. Stack
    <2>1. runs \in Seq({}) /\ Len(runs) = 0 BY DEF Init
    <2> QED BY <2>1 DEF Stack
<1> QED BY <1>4, <1>5, <1>6, <1>7 DEF IInv, AInv

-----------------------------------------------------------------------------
(* The alarms.                                                             *)

\* The timers of mode m that may be called.
Live(m) == (ToSet(timers[m]) \cap valid) \ firing

\* The alarm of mode m has gone off for the deadlines last armed for.
Rung(m) == alarm[m].at = Never /\ alarm[m].soft # Never

\* The message of mode m has been received, and no timer called yet.
Serving(m) == At("DoTimers") /\ Top.mode = m /\ ~Top.handled

\* The deadlines go together, and an alarm went off for a date that has come.
AlarmOK(m) ==
    /\ alarm[m].soft = Never <=> alarm[m].hard = Never
    /\ alarm[m].at \in {Never, alarm[m].soft}
    /\ Rung(m) => alarm[m].soft <= now

\* The deadline suits each timer that may be called.
InTime(m) == \A t \in Live(m) : alarm[m].hard <= fireTSR[t] + Tolerance[t]

\* An alarm that has gone off is not forgotten: its message waits, or the run
\* that received it has collected every timer it went off for.
Waking(m) ==
    /\ Rung(m) => m \in rang \/ Serving(m)
    /\ Rung(m) /\ m \notin rang /\ Serving(m) =>
           \A t \in Live(m) : fireTSR[t] <= alarm[m].soft => t \in Top.due

\* The part of the invariant about the alarm of mode m.
Watched(m) == AlarmOK(m) /\ (m \notin missed => InTime(m) /\ Waking(m))

WInv == \A m \in Modes : Watched(m)

\* What there is to know when the alarm of mode m is armed for what it holds.
LEMMA ArmedMode ==
    ASSUME IInv, IInv', NEW m \in Modes, NEW old, old.at \in Nat,
           alarm'[m] = ArmNextTimer(old, timers'[m], fireTSR', firing')
    PROVE  /\ alarm[m]'.soft = Never <=> alarm[m]'.hard = Never
           /\ \/ alarm[m]'.at \in {Never, alarm[m]'.soft}
              \/ alarm[m]'.soft # Never /\ alarm[m]'.soft = old.soft /\ alarm[m]'.at = old.at
           /\ Rung(m)' => alarm[m]'.soft = old.soft /\ old.at = Never
           /\ Rung(m)' => \E t \in ToSet(timers'[m]) \ firing' : fireTSR'[t] = alarm[m]'.soft
           /\ m \notin missed' => InTime(m)'
PROOF
<1>1. /\ timers'[m] \in Seq(Timers) /\ fireTSR' \in [Timers -> Nat] /\ Before(fireTSR')
      /\ stale' \subseteq missed'
    BY DEF IInv, AInv, Types, Before
<1>2. ArmedFor(alarm'[m], old, timers'[m], fireTSR', firing')
    BY <1>1, ArmNextTimerCorrect
<1>3. m \notin missed' => Sorted(timers'[m], fireTSR')
    BY <1>1 DEF IInv, AInv, TimersSorted
<1>4. m \notin missed' => InTime(m)'
    BY <1>2, <1>3 DEF ArmedFor, InTime, Live
<1>5. Rung(m)' => alarm[m]'.soft = old.soft /\ old.at = Never
    BY <1>2 DEF ArmedFor, Rung
<1>6. Rung(m)' => \E t \in ToSet(timers'[m]) \ firing' : fireTSR'[t] = alarm[m]'.soft
    BY <1>2 DEF ArmedFor, Rung
<1> QED BY <1>2, <1>4, <1>5, <1>6 DEF ArmedFor

\* A mode whose alarm is armed anew while it is not served.
LEMMA Rewatched ==
    ASSUME IInv, IInv', NEW m \in Modes, Watched(m), now' = now, rang \subseteq rang',
           missed \subseteq missed', ~Serving(m),
           alarm'[m] = ArmNextTimer(alarm[m], timers'[m], fireTSR', firing')
    PROVE  Watched(m)'
PROOF
<1>1. PICK old : old = alarm[m] OBVIOUS
<1>2. old.at \in Nat BY <1>1 DEF IInv, AInv, Types, AlarmType
<1>3. /\ alarm[m]'.soft = Never <=> alarm[m]'.hard = Never
      /\ \/ alarm[m]'.at \in {Never, alarm[m]'.soft}
         \/ alarm[m]'.soft # Never /\ alarm[m]'.soft = old.soft /\ alarm[m]'.at = old.at
      /\ Rung(m)' => alarm[m]'.soft = old.soft /\ old.at = Never
      /\ m \notin missed' => InTime(m)'
    BY <1>1, <1>2, ArmedMode
<1>4. Rung(m)' => Rung(m) /\ alarm[m]'.soft = alarm[m].soft
    BY <1>1, <1>3 DEF Rung
<1>5. AlarmOK(m)' BY <1>1, <1>3, <1>4 DEF AlarmOK, Watched
<1>6. m \notin missed' => Waking(m)' BY <1>4 DEF Waking, Watched
<1> QED BY <1>3, <1>5, <1>6 DEF Watched

\* A mode whose alarm is left alone.
LEMMA StillWatched ==
    ASSUME IInv, IInv', NEW m \in Modes, Watched(m), alarm'[m] = alarm[m], now <= now',
           rang \subseteq rang', missed \subseteq missed', ~Serving(m) \/ runs' = runs,
           m \notin missed' => \A t \in Live(m)' : t \in Live(m) /\ fireTSR'[t] = fireTSR[t]
    PROVE  Watched(m)'
PROOF
<1>1. now \in Nat /\ now' \in Nat /\ alarm[m].soft \in Nat BY DEF IInv, AInv, Types, AlarmType
<1>2. Rung(m)' <=> Rung(m) BY DEF Rung
<1>3. AlarmOK(m)' BY <1>1, <1>2 DEF AlarmOK, Watched
<1>4. m \notin missed' => InTime(m)' BY DEF InTime, Watched
<1>5. ASSUME m \notin missed' PROVE Waking(m)'
    <2>1. CASE ~Serving(m) BY <1>2, <1>5, <2>1 DEF Waking, Watched
    <2>2. CASE runs' = runs
        <3>1. (Serving(m)' <=> Serving(m)) /\ Top' = Top BY <2>2 DEF Serving, At, Top
        <3>2. m \notin missed /\ Waking(m) BY <1>5 DEF Watched
        <3>3. Rung(m)' => m \in rang' \/ Serving(m)' BY <1>2, <3>1, <3>2 DEF Waking
        <3>4. ASSUME Rung(m)', m \notin rang', Serving(m)', NEW t \in Live(m)',
                     fireTSR'[t] <= alarm[m]'.soft
              PROVE  t \in Top'.due
            <4>1. t \in Live(m) /\ fireTSR[t] <= alarm[m].soft BY <1>5, <3>4
            <4>2. Rung(m) /\ m \notin rang /\ Serving(m) BY <1>2, <3>1, <3>4
            <4>3. t \in Top.due BY <3>2, <4>1, <4>2 DEF Waking
            <4> QED BY <4>3, <3>1
        <3> QED BY <3>3, <3>4 DEF Waking
    <2> QED BY <2>1, <2>2
<1> QED BY <1>3, <1>4, <1>5 DEF Watched

\* Rearmed alarms one by one.
LEMMA RearmedIs ==
    ASSUME NEW S, NEW t, NEW A, NEW date, NEW F
    PROVE  \A m \in Modes : Rearmed(S, t, A, date, F)[m] =
               IF m \in S /\ t \in ToSet(timers[m])
               THEN ArmNextTimer(alarm[m], A[m], date, F) ELSE alarm[m]
BY DEF Rearmed

\* Runs that call leave the alarms, the arrays and the dates alone.
LEMMA RunsWatched ==
    ASSUME IInv, IInv', WInv,
           (\E m \in Modes : Run(m)) \/ Return \/ CalloutReturns
    PROVE  WInv'
PROOF
<1>1. UNCHANGED <<alarm, now, rang, missed, timers, fireTSR, firing>> /\ valid' \subseteq valid
    BY DEF Run, Return, CalloutReturns, history
<1>2. \A m \in Modes : ~Serving(m) BY DEF Run, Return, CalloutReturns, Serving, At
<1>3. now <= now' BY <1>1 DEF IInv, AInv, Types
<1> SUFFICES ASSUME NEW m \in Modes PROVE Watched(m)' BY DEF WInv
<1>4. \A t \in Live(m)' : t \in Live(m) /\ fireTSR'[t] = fireTSR[t] BY <1>1 DEF Live
<1>5. Watched(m) BY DEF WInv
<1> QED BY <1>1, <1>2, <1>3, <1>4, <1>5, StillWatched

\* Time passes.
LEMMA TickWatched ==
    ASSUME IInv, IInv', WInv, Tick \/ UNCHANGED vars PROVE WInv'
PROOF
<1>1. UNCHANGED <<runs, alarm, rang, missed, timers, fireTSR, firing, valid>>
    BY DEF Tick, vars, history
<1>2. now <= now'
    <2>1. now' = now \/ now' = now + 1 BY DEF Tick, vars
    <2>2. now \in Nat BY DEF IInv, AInv, Types
    <2> QED BY <2>1, <2>2
<1> SUFFICES ASSUME NEW m \in Modes PROVE Watched(m)' BY DEF WInv
<1>4. \A t \in Live(m)' : t \in Live(m) /\ fireTSR'[t] = fireTSR[t] BY <1>1 DEF Live
<1>5. Watched(m) BY DEF WInv
<1> QED BY <1>1, <1>2, <1>4, <1>5, StillWatched

\* An alarm goes off, not too early.
LEMMA RingWatched ==
    ASSUME IInv, IInv', WInv, Early = 0, NEW n \in Modes, Ring(n) PROVE WInv'
PROOF
<1>1. UNCHANGED <<runs, now, missed, timers, fireTSR, firing, valid>>
      /\ rang' = rang \cup {n} /\ alarm[n].at <= now + Early
      /\ alarm' = [alarm EXCEPT ![n].at = Never]
    BY DEF Ring, history
<1>2. now \in Nat /\ now <= now' /\ alarm \in [Modes -> AlarmType] BY <1>1 DEF IInv, AInv, Types
<1> SUFFICES ASSUME NEW m \in Modes PROVE Watched(m)' BY DEF WInv
<1>4. \A t \in Live(m)' : t \in Live(m) /\ fireTSR'[t] = fireTSR[t] BY <1>1 DEF Live
<1>5. Watched(m) BY DEF WInv
<1>6. CASE m # n
    <2>1. alarm'[m] = alarm[m] BY <1>1, <1>2, <1>6
    <2> QED BY <1>1, <1>2, <1>4, <1>5, <2>1, StillWatched
<1>7. CASE m = n
    <2>1. alarm[m]'.at = Never /\ alarm[m]'.soft = alarm[m].soft /\ alarm[m]'.hard = alarm[m].hard
        BY <1>1, <1>2, <1>7 DEF AlarmType
    <2>2. alarm[m].soft # Never => alarm[m].soft <= now
        <3>1. alarm[m].at = alarm[m].soft \/ alarm[m].at = Never
            BY <1>5 DEF Watched, AlarmOK
        <3>2. alarm[m].at = Never /\ alarm[m].soft # Never => alarm[m].soft <= now
            BY <1>5 DEF Watched, AlarmOK, Rung
        <3>3. alarm[m].at <= now BY <1>1, <1>2, <1>7
        <3> QED BY <3>1, <3>2, <3>3
    <2>3. AlarmOK(m)' BY <1>1, <1>5, <2>1, <2>2 DEF Watched, AlarmOK, Rung
    <2>4. m \notin missed' => InTime(m)' BY <1>1, <1>4, <1>5, <2>1 DEF Watched, InTime
    <2>5. Waking(m)' BY <1>1, <1>7 DEF Waking
    <2> QED BY <2>3, <2>4, <2>5 DEF Watched
<1> QED BY <1>6, <1>7

\* The mode whose message is received is now being served.
LEMMA DoTimersWatched ==
    ASSUME IInv, IInv', WInv, DoTimers PROVE WInv'
PROOF
<1> DEFINE f == [Top EXCEPT !.pc = "DoTimers", !.order = SelectSeq(timers[Top.mode], Due),
                            !.due = {t \in ToSet(timers[Top.mode]) : Due(t)}]
<1>1. /\ runs # <<>> /\ Top.pc = "Wait" /\ SetTop(f) /\ rang' = rang \ {Top.mode}
      /\ UNCHANGED <<alarm, now, missed, timers, fireTSR, firing, valid>>
    BY DEF DoTimers, At, history
<1>2. now \in Nat /\ now <= now' /\ alarm \in [Modes -> AlarmType] BY <1>1 DEF IInv, AInv, Types
<1>3. RunOK(Top) BY <1>1, TopIs
<1>4. f.pc = "DoTimers" /\ f.mode = Top.mode /\ f.handled = Top.handled
      /\ f.due = {t \in ToSet(timers[Top.mode]) : Due(t)}
    BY <1>3 DEF RunOK, Fields
<1> HIDE DEF f
<1>5. Top' = f /\ runs' # <<>>
    <2>1. PICK S : runs \in Seq(S) BY DEF IInv, Stack
    <2>2. Len(runs) \in 1..Len(runs) BY <1>1, TopIs
    <2> QED BY <1>1, <2>1, <2>2 DEF SetTop, Top
<1> SUFFICES ASSUME NEW m \in Modes PROVE Watched(m)' BY DEF WInv
<1>6. \A t \in Live(m)' : t \in Live(m) /\ fireTSR'[t] = fireTSR[t] BY <1>1 DEF Live
<1>7. Watched(m) /\ ~Serving(m) BY <1>1 DEF WInv, Serving, At
<1>8. (Rung(m)' <=> Rung(m)) /\ AlarmOK(m)' /\ (m \notin missed' => InTime(m)')
    BY <1>1, <1>6, <1>7 DEF Rung, AlarmOK, InTime, Watched
<1>9. CASE m # Top.mode
    <2>1. m \notin missed' => Waking(m)' BY <1>1, <1>7, <1>8, <1>9 DEF Watched, Waking
    <2> QED BY <1>8, <2>1 DEF Watched
<1>10. CASE m = Top.mode
    <2>1. Serving(m)' BY <1>1, <1>3, <1>4, <1>5, <1>10 DEF Serving, At, RunOK
    <2>2. ASSUME Rung(m)', NEW t \in Live(m)', fireTSR'[t] <= alarm[m]'.soft PROVE t \in Top'.due
        <3>1. alarm[m].soft <= now BY <1>7, <1>8, <2>2 DEF Watched, AlarmOK
        <3>2. t \in ToSet(timers[m]) /\ t \in valid \ firing /\ fireTSR[t] <= alarm[m].soft
            BY <1>1, <2>2 DEF Live
        <3>3. t \in Timers /\ fireTSR[t] \in Nat /\ alarm[m].soft \in Nat
            BY <3>2, <1>2 DEF IInv, AInv, Types, TimersSorted, AlarmType
        <3>4. fireTSR[t] <= now BY <3>1, <3>2, <3>3, <1>2
        <3> QED BY <3>2, <3>4, <1>4, <1>5, <1>10 DEF Due
    <2>3. Waking(m)' BY <2>1, <2>2 DEF Waking
    <2> QED BY <1>8, <2>3 DEF Watched
<1> QED BY <1>9, <1>10

\* A collected timer is called, and the alarm armed as if for the first time,
\* or it is skipped because it may no longer be called.
LEMMA DoTimerWatched ==
    ASSUME IInv, IInv', WInv, NEW t \in Timers, DoTimer(t) PROVE WInv'
PROOF
<1>1. /\ runs # <<>> /\ Top.pc = "DoTimers"
      /\ UNCHANGED <<now, rang, missed, timers, fireTSR, valid>>
    BY DEF DoTimer, At, history
<1>2. now \in Nat /\ now <= now' /\ alarm \in [Modes -> AlarmType] BY <1>1 DEF IInv, AInv, Types
<1>3. RunOK(Top) BY <1>1, TopIs
<1>4. Top.mode \in Modes BY <1>3 DEF RunOK
<1>5. CASE Due(t) /\ rlModes[t] # {}
    <2> DEFINE old == [alarm[Top.mode] EXCEPT !.soft = Never, !.hard = Never]
    <2>1. /\ firing' = firing \cup {t}
          /\ alarm' = [alarm EXCEPT ![Top.mode] =
                           ArmNextTimer(old, timers[Top.mode], fireTSR, firing')]
        BY <1>5 DEF DoTimer
    <2>2. old.soft = Never /\ old.at = alarm[Top.mode].at /\ old.at \in Nat
        BY <1>2, <1>4 DEF AlarmType
    <2> HIDE DEF old
    <2> SUFFICES ASSUME NEW m \in Modes PROVE Watched(m)' BY DEF WInv
    <2>3. \A u \in Live(m)' : u \in Live(m) /\ fireTSR'[u] = fireTSR[u]
        BY <1>1, <2>1 DEF Live
    <2>4. Watched(m) BY DEF WInv
    <2>5. CASE m # Top.mode
        <3>1. alarm'[m] = alarm[m] /\ ~Serving(m) BY <1>2, <2>1, <2>5 DEF Serving
        <3> QED BY <1>1, <1>2, <2>3, <2>4, <3>1, StillWatched
    <2>6. CASE m = Top.mode
        <3>1. alarm'[m] = ArmNextTimer(old, timers'[m], fireTSR', firing')
            BY <1>1, <1>2, <2>1, <2>6
        <3>2. PICK o : o = old OBVIOUS
        <3>3. /\ alarm[m]'.soft = Never <=> alarm[m]'.hard = Never
              /\ \/ alarm[m]'.at \in {Never, alarm[m]'.soft}
                 \/ alarm[m]'.soft # Never /\ alarm[m]'.soft = o.soft /\ alarm[m]'.at = o.at
              /\ Rung(m)' => alarm[m]'.soft = o.soft /\ o.at = Never
              /\ m \notin missed' => InTime(m)'
            BY <2>2, <3>1, <3>2, ArmedMode
        <3>4. ~Rung(m)' BY <2>2, <3>2, <3>3 DEF Rung
        <3>5. AlarmOK(m)' BY <2>2, <3>2, <3>3, <3>4 DEF AlarmOK
        <3>6. Waking(m)' BY <3>4 DEF Waking
        <3> QED BY <3>3, <3>5, <3>6 DEF Watched
    <2> QED BY <2>5, <2>6
<1>6. CASE ~(Due(t) /\ rlModes[t] # {})
    <2> DEFINE f == [Top EXCEPT !.due = @ \ {t}]
    <2>1. firing' = firing /\ alarm' = alarm /\ SetTop(f) BY <1>6 DEF DoTimer
    <2>2. f.pc = Top.pc /\ f.mode = Top.mode /\ f.handled = Top.handled /\ f.due = Top.due \ {t}
        BY <1>3 DEF RunOK, Fields
    <2> HIDE DEF f
    <2>3. Top' = f /\ runs' # <<>>
        <3>1. PICK S : runs \in Seq(S) BY DEF IInv, Stack
        <3>2. Len(runs) \in 1..Len(runs) BY <1>1, TopIs
        <3> QED BY <2>1, <3>1, <3>2 DEF SetTop, Top
    <2> SUFFICES ASSUME NEW m \in Modes PROVE Watched(m)' BY DEF WInv
    <2>4. Live(m)' = Live(m) BY <1>1, <2>1 DEF Live
    <2>5. Watched(m) BY DEF WInv
    <2>6. (Rung(m)' <=> Rung(m)) /\ AlarmOK(m)' /\ (m \notin missed' => InTime(m)')
        BY <1>1, <2>1, <2>4, <2>5 DEF Rung, AlarmOK, InTime, Watched
    <2>7. Serving(m)' <=> Serving(m) BY <1>1, <2>2, <2>3 DEF Serving, At
    <2>8. ASSUME m \notin missed', Rung(m)', m \notin rang', Serving(m)', NEW u \in Live(m)',
                 fireTSR'[u] <= alarm[m]'.soft
          PROVE  u \in Top'.due
        <3>1. Rung(m) /\ m \notin rang /\ Serving(m) /\ u \in Live(m) /\ fireTSR[u] <= alarm[m].soft
            BY <1>1, <2>1, <2>4, <2>6, <2>7, <2>8
        <3>2. u \in Top.due BY <1>1, <2>5, <2>8, <3>1 DEF Watched, Waking
        <3>3. u # t
            <4> SUFFICES ASSUME u = t PROVE FALSE OBVIOUS
            <4>1. alarm[m].soft <= now BY <2>5, <3>1 DEF Watched, AlarmOK
            <4>2. u \in ToSet(timers[m]) /\ u \in valid \ firing BY <3>1 DEF Live
            <4>3. u \in Timers /\ fireTSR[u] \in Nat /\ alarm[m].soft \in Nat /\ m \in rlModes[u]
                BY <4>2, <1>2 DEF IInv, AInv, Types, TimersSorted, AlarmType
            <4>4. fireTSR[u] <= now BY <3>1, <4>1, <4>3, <1>2
            <4> QED BY <4>2, <4>3, <4>4, <1>6 DEF Due
        <3> QED BY <2>2, <2>3, <3>2, <3>3
    <2>9. m \notin missed' => (Rung(m)' => m \in rang' \/ Serving(m)')
        BY <1>1, <2>5, <2>6, <2>7 DEF Watched, Waking
    <2>10. m \notin missed' => Waking(m)' BY <2>8, <2>9 DEF Waking
    <2> QED BY <2>6, <2>10 DEF Watched
<1> QED BY <1>5, <1>6

\* When no timer was called, the alarm is armed anew: for other deadlines than
\* those it went off for, as all timers it was due for would have been called.
LEMMA DoTimersDoneWatched ==
    ASSUME IInv, IInv', WInv, DoTimersDone PROVE WInv'
PROOF
<1>1. /\ runs # <<>> /\ Top.pc = "DoTimers" /\ Top.due = {}
      /\ UNCHANGED <<now, rang, timers, fireTSR, valid, firing>> /\ missed \subseteq missed'
    BY DEF DoTimersDone, At
<1>2. now \in Nat /\ now <= now' /\ alarm \in [Modes -> AlarmType] BY <1>1 DEF IInv, AInv, Types
<1>3. RunOK(Top) BY <1>1, TopIs
<1>4. Top.mode \in Modes BY <1>3 DEF RunOK
<1> SUFFICES ASSUME NEW m \in Modes PROVE Watched(m)' BY DEF WInv
<1>5. \A t \in Live(m)' : t \in Live(m) /\ fireTSR'[t] = fireTSR[t] BY <1>1 DEF Live
<1>6. Watched(m) BY DEF WInv
<1>7. CASE Top.handled \/ m # Top.mode
    <2>1. ~Serving(m) BY <1>7 DEF Serving
    <2>2. alarm'[m] = alarm[m] BY <1>2, <1>4, <1>7 DEF DoTimersDone
    <2> QED BY <1>1, <1>2, <1>5, <1>6, <2>1, <2>2, StillWatched
<1>8. CASE ~Top.handled /\ m = Top.mode
    <2>1. /\ alarm'[m] = ArmNextTimer(alarm[m], timers'[m], fireTSR', firing')
          /\ m \notin missed' => ToSet(timers[m]) \subseteq valid
        BY <1>1, <1>2, <1>8 DEF DoTimersDone
    <2>2. PICK old : old = alarm[m] OBVIOUS
    <2>3. old.at \in Nat BY <2>2, <1>2 DEF AlarmType
    <2>4. /\ alarm[m]'.soft = Never <=> alarm[m]'.hard = Never
          /\ \/ alarm[m]'.at \in {Never, alarm[m]'.soft}
             \/ alarm[m]'.soft # Never /\ alarm[m]'.soft = old.soft /\ alarm[m]'.at = old.at
          /\ Rung(m)' => alarm[m]'.soft = old.soft /\ old.at = Never
          /\ Rung(m)' => \E t \in ToSet(timers'[m]) \ firing' : fireTSR'[t] = alarm[m]'.soft
          /\ m \notin missed' => InTime(m)'
        BY <2>1, <2>2, <2>3, ArmedMode
    <2>5. Rung(m)' => Rung(m) /\ alarm[m]'.soft = alarm[m].soft BY <2>2, <2>4 DEF Rung
    <2>6. AlarmOK(m)' BY <1>1, <1>6, <2>2, <2>4, <2>5 DEF AlarmOK, Watched
    <2>7. ASSUME m \notin missed', Rung(m)' PROVE m \in rang
        <3> SUFFICES ASSUME m \notin rang PROVE FALSE OBVIOUS
        <3>1. Rung(m) /\ Serving(m) BY <1>1, <1>8, <2>5, <2>7 DEF Serving, At
        <3>2. PICK t \in ToSet(timers[m]) \ firing : fireTSR[t] = alarm[m].soft
            BY <1>1, <2>4, <2>5, <2>7
        <3>3. t \in Live(m) BY <2>1, <2>7, <3>2 DEF Live
        <3>4. fireTSR[t] <= alarm[m].soft BY <3>2, <1>2 DEF AlarmType
        <3>5. t \in Top.due BY <1>1, <1>6, <2>7, <3>1, <3>3, <3>4 DEF Watched, Waking
        <3> QED BY <3>5, <1>1
    <2>8. m \notin missed' => Waking(m)'
        <3>1. Rung(m)' /\ m \notin missed' => m \in rang' BY <2>7, <1>1
        <3> QED BY <3>1 DEF Waking
    <2> QED BY <2>4, <2>6, <2>8 DEF Watched
<1> QED BY <1>7, <1>8

\* Timers are taken out of arrays whose alarms are armed anew.
LEMMA RemovedWatched ==
    ASSUME IInv, IInv', WInv, NEW S \in SUBSET Modes, NEW t \in Timers, RemoveFrom(S, t),
           UNCHANGED <<now, rang, missed, fireTSR, valid, firing>>,
           \A m \in Modes : ~Serving(m)
    PROVE  WInv'
PROOF
<1>1. /\ alarm' = Rearmed(S, t, timers', fireTSR', firing')
      /\ \A m \in Modes : /\ ToSet(timers'[m]) \subseteq ToSet(timers[m])
                          /\ t \notin ToSet(timers[m]) => timers'[m] = timers[m]
    <2>1. alarm' = Rearmed(S, t, timers', fireTSR', firing') BY DEF RemoveFrom
    <2>2. \A m \in Modes :
              /\ ToSet(timers'[m]) = ToSet(timers[m]) \ (IF m \in S THEN {t} ELSE {})
              /\ t \notin ToSet(timers[m]) => timers'[m] = timers[m]
        BY RemovedCorrect DEF IInv
    <2> QED BY <2>1, <2>2
<1>2. now <= now' BY DEF IInv, AInv, Types
<1> SUFFICES ASSUME NEW m \in Modes PROVE Watched(m)' BY DEF WInv
<1>3. alarm'[m] = IF m \in S /\ t \in ToSet(timers[m])
                  THEN ArmNextTimer(alarm[m], timers'[m], fireTSR', firing') ELSE alarm[m]
    BY <1>1, RearmedIs
<1>4. Watched(m) BY DEF WInv
<1>5. \A u \in Live(m)' : u \in Live(m) /\ fireTSR'[u] = fireTSR[u] BY <1>1 DEF Live
<1>6. CASE m \in S /\ t \in ToSet(timers[m]) BY <1>3, <1>4, <1>6, Rewatched
<1>7. CASE ~(m \in S /\ t \in ToSet(timers[m]))
    BY <1>2, <1>3, <1>4, <1>5, <1>7, StillWatched
<1> QED BY <1>6, <1>7

\* What the arrays hold before and after a step in which no timer changes modes.
LEMMA SameModes ==
    ASSUME IInv, IInv', UNCHANGED rlModes
    PROVE  \A m \in Modes : ToSet(timers'[m]) = ToSet(timers[m])
BY DEF IInv, AInv, TimersSorted

\* A timer is moved: its modes are armed anew, or have been missed.
LEMMA MoveTimerWatched ==
    ASSUME IInv, IInv', WInv, NEW c \in Clients, MoveTimer(c) PROVE WInv'
PROOF
<1>1. PICK t, S : t = doing[c].timer /\ S = doing[c].modes OBVIOUS
<1>2. t \in Timers /\ S \in SUBSET Modes BY <1>1 DEF IInv, AInv, Promised, MoveTimer
<1>3. /\ fireTSR' = [fireTSR EXCEPT ![t] = doing[c].date]
      /\ alarm' = Rearmed(S, t, timers', fireTSR', firing')
      /\ rlModes[t] \ S \subseteq missed' /\ missed \subseteq missed'
      /\ UNCHANGED <<now, rang, rlModes, valid, firing>>
    BY <1>1 DEF MoveTimer
<1>4. \A m \in Modes : ~Serving(m) BY DEF MoveTimer, LockFree, Serving, At
<1>5. \A m \in Modes : ToSet(timers'[m]) = ToSet(timers[m]) BY <1>3, SameModes
<1>6. now <= now' /\ fireTSR \in [Timers -> Nat] BY <1>3 DEF IInv, AInv, Types
<1> SUFFICES ASSUME NEW m \in Modes PROVE Watched(m)' BY DEF WInv
<1>7. alarm'[m] = IF m \in S /\ t \in ToSet(timers[m])
                  THEN ArmNextTimer(alarm[m], timers'[m], fireTSR', firing') ELSE alarm[m]
    BY <1>3, RearmedIs
<1>8. Watched(m) /\ ~Serving(m) BY <1>4 DEF WInv
<1>9. CASE m \in S /\ t \in ToSet(timers[m]) BY <1>3, <1>7, <1>8, <1>9, Rewatched
<1>10. CASE ~(m \in S /\ t \in ToSet(timers[m]))
    <2>1. ASSUME m \notin missed', NEW u \in Live(m)'
          PROVE  u \in Live(m) /\ fireTSR'[u] = fireTSR[u]
        <3>1. u \in Live(m) /\ u \in ToSet(timers[m]) BY <1>3, <1>5, <2>1 DEF Live
        <3>2. u \in Timers /\ m \in rlModes[u] BY <3>1 DEF IInv, AInv, TimersSorted
        <3>3. u # t BY <1>3, <1>10, <2>1, <3>1, <3>2
        <3> QED BY <1>3, <1>6, <3>1, <3>2, <3>3
    <2>2. alarm'[m] = alarm[m] BY <1>7, <1>10
    <2> QED BY <1>3, <1>6, <1>8, <2>1, <2>2, StillWatched
<1> QED BY <1>9, <1>10

\* A timer comes into one more mode, whose alarm is armed anew.
LEMMA InsertTimerWatched ==
    ASSUME IInv, IInv', WInv, NEW c \in Clients, InsertTimer(c) PROVE WInv'
PROOF
<1>1. PICK t, n : t = doing[c].timer /\ n = doing[c].mode OBVIOUS
<1>2. t \in Timers /\ n \in Modes BY <1>1 DEF IInv, AInv, Promised, InsertTimer
<1>3. UNCHANGED <<now, rang, fireTSR, valid, firing>> /\ missed \subseteq missed'
    BY DEF InsertTimer
<1>4. \A m \in Modes : ~Serving(m) BY DEF InsertTimer, LockFree, Serving, At
<1>5. /\ now <= now' /\ timers \in [Modes -> Seq(Timers)]
      /\ alarm \in [Modes -> AlarmType]
    BY <1>3 DEF IInv, AInv, Types
<1> SUFFICES ASSUME NEW m \in Modes PROVE Watched(m)' BY DEF WInv
<1>6. Watched(m) /\ ~Serving(m) BY <1>4 DEF WInv
<1>7. CASE n \notin rlModes[t] /\ m = n
    <2>1. alarm' = [alarm EXCEPT ![n] = ArmNextTimer(alarm[n], timers'[n], fireTSR, firing)]
        BY <1>1, <1>7 DEF InsertTimer
    <2>2. alarm'[m] = ArmNextTimer(alarm[m], timers'[m], fireTSR', firing')
        BY <1>2, <1>3, <1>5, <1>7, <2>1
    <2> QED BY <1>3, <1>6, <2>2, Rewatched
<1>8. CASE ~(n \notin rlModes[t] /\ m = n)
    <2>1. timers'[m] = timers[m] /\ alarm'[m] = alarm[m]
        <3>1. CASE n \in rlModes[t] BY <1>1, <3>1 DEF InsertTimer
        <3>2. CASE n \notin rlModes[t] /\ m # n
            <4>1. /\ timers' = [timers EXCEPT ![n] = Inserted(timers[n], t, fireTSR)]
                  /\ alarm' = [alarm EXCEPT ![n] =
                                   ArmNextTimer(alarm[n], timers'[n], fireTSR, firing)]
                BY <1>1, <3>2 DEF InsertTimer
            <4> QED BY <1>2, <1>5, <3>2, <4>1
        <3> QED BY <1>8, <3>1, <3>2
    <2>2. \A u \in Live(m)' : u \in Live(m) /\ fireTSR'[u] = fireTSR[u]
        BY <1>3, <2>1 DEF Live
    <2> QED BY <1>3, <1>5, <1>6, <2>1, <2>2, StillWatched
<1> QED BY <1>7, <1>8

\* The timer that was called may be called again.  Where it got a later date
\* meanwhile, the modes other than the one it is called in have been missed.
LEMMA TimerDoneWatched ==
    ASSUME IInv, IInv', WInv, TimerDone PROVE WInv'
PROOF
<1>1. PICK t, n : t = Top.call /\ n = Top.mode OBVIOUS
<1>2. /\ runs # <<>> /\ Top.pc = "Returned" /\ firing' = firing \ {t}
      /\ UNCHANGED <<now, rang, missed, rlModes, valid>>
    BY <1>1 DEF TimerDone, At, history
<1>3. RunOK(Top) /\ CallOK(Top) BY <1>2, TopIs
<1>4. /\ t \in Timers /\ n \in Modes
      /\ \A m \in Modes : m \notin missed /\ m # n /\ t \in ToSet(timers[m])
             => fireTSR[t] <= Top.old
    BY <1>1, <1>2, <1>3 DEF RunOK, CallOK, Calling
<1>5. \A m \in Modes : ~Serving(m) BY <1>2 DEF Serving, At
<1>6. \A m \in Modes : ToSet(timers'[m]) = ToSet(timers[m]) BY <1>2, SameModes
<1>7. /\ now <= now' /\ fireTSR \in [Timers -> Nat] /\ alarm \in [Modes -> AlarmType]
      /\ Top.old \in Nat
    BY <1>2, <1>3 DEF IInv, AInv, Types, CallOK, Calling
<1> SUFFICES ASSUME NEW m \in Modes PROVE Watched(m)' BY DEF WInv
<1>8. Watched(m) /\ ~Serving(m) BY <1>5 DEF WInv
<1>9. \A u \in Live(m)' : u # t => u \in Live(m) /\ u \in Timers
    BY <1>2, <1>6 DEF Live, IInv, AInv, TimersSorted
<1>10. CASE t \notin valid
    <2>1. UNCHANGED <<alarm, fireTSR>> BY <1>1, <1>10 DEF TimerDone
    <2>2. \A u \in Live(m)' : u # t BY <1>2, <1>10 DEF Live
    <2> QED BY <1>2, <1>7, <1>8, <1>9, <2>1, <2>2, StillWatched
<1>11. CASE t \in valid /\ Top.old < fireTSR[t]
    <2>1. /\ UNCHANGED <<timers, fireTSR>>
          /\ alarm' = [alarm EXCEPT ![n] = ArmNextTimer(alarm[n], timers[n], fireTSR, firing')]
        BY <1>1, <1>11 DEF TimerDone
    <2>2. CASE m = n
        <3>1. alarm'[m] = ArmNextTimer(alarm[m], timers'[m], fireTSR', firing')
            BY <1>7, <2>1, <2>2
        <3> QED BY <1>2, <1>8, <3>1, Rewatched
    <2>3. CASE m # n
        <3>1. alarm'[m] = alarm[m] BY <1>4, <1>7, <2>1, <2>3
        <3>2. m \notin missed' => t \notin ToSet(timers[m])
            BY <1>2, <1>4, <1>7, <1>11, <2>3
        <3>3. m \notin missed' => \A u \in Live(m)' : u # t BY <2>1, <3>2 DEF Live
        <3> QED BY <1>2, <1>7, <1>8, <1>9, <2>1, <3>1, <3>3, StillWatched
    <2> QED BY <2>2, <2>3
<1>12. CASE t \in valid /\ ~(Top.old < fireTSR[t])
    <2>1. /\ fireTSR' = [fireTSR EXCEPT ![t] = NextFireTSR(t, Top.old)]
          /\ alarm' = Rearmed(rlModes[t], t, timers', fireTSR', firing')
        BY <1>1, <1>12 DEF TimerDone
    <2>2. alarm'[m] = IF m \in rlModes[t] /\ t \in ToSet(timers[m])
                      THEN ArmNextTimer(alarm[m], timers'[m], fireTSR', firing') ELSE alarm[m]
        BY <2>1, RearmedIs
    <2>3. CASE m \in rlModes[t] /\ t \in ToSet(timers[m])
        BY <1>2, <1>8, <2>2, <2>3, Rewatched
    <2>4. CASE ~(m \in rlModes[t] /\ t \in ToSet(timers[m]))
        <3>1. t \notin ToSet(timers[m]) BY <2>4, <1>4 DEF IInv, AInv, TimersSorted
        <3>2. \A u \in Live(m)' : u # t BY <1>6, <3>1 DEF Live
        <3>3. \A u \in Live(m)' : u \in Live(m) /\ fireTSR'[u] = fireTSR[u]
            BY <1>7, <1>9, <2>1, <3>2
        <3> QED BY <1>2, <1>7, <1>8, <2>2, <2>4, <3>3, StillWatched
    <2> QED BY <2>3, <2>4
<1> QED BY <1>10, <1>11, <1>12

\* Every call of a client.
LEMMA ClientWatched ==
    ASSUME IInv, IInv', WInv, NEW c \in Clients, Client(c) PROVE WInv'
PROOF
<1>1. CASE MoveTimer(c) BY <1>1, MoveTimerWatched
<1>2. CASE InsertTimer(c) BY <1>2, InsertTimerWatched
<1>3. CASE RemoveInvalid(c)
    <2>1. PICK S, t : S = doing[c].modes /\ t = doing[c].timer OBVIOUS
    <2>2. S \in SUBSET Modes /\ t \in Timers
        BY <1>3, <2>1 DEF IInv, AInv, Promised, RemoveInvalid
    <2>3. /\ RemoveFrom(S, t)
          /\ UNCHANGED <<now, rang, missed, fireTSR, valid, firing>>
          /\ \A m \in Modes : ~Serving(m)
        BY <1>3, <2>1 DEF RemoveInvalid, history, LockFree, Serving, At
    <2> QED BY <2>2, <2>3, RemovedWatched
<1>4. ASSUME NEW t \in Timers, NEW n \in Modes, RemoveTimer(c, t, n) PROVE WInv'
    <2>1. /\ RemoveFrom({n}, t) /\ {n} \in SUBSET Modes
          /\ UNCHANGED <<now, rang, missed, fireTSR, valid, firing>>
          /\ \A m \in Modes : ~Serving(m)
        BY <1>4 DEF RemoveTimer, history, LockFree, Serving, At
    <2> QED BY <2>1, RemovedWatched
<1>5. ASSUME NEW t \in Timers,
             \/ \E k \in Delays : SetNextFireDate(c, t, now + k)
             \/ \E m \in Modes : AddTimer(c, t, m)
             \/ Invalidate(c, t)
      PROVE  WInv'
    <2>1. UNCHANGED <<now, runs, rang, alarm, missed, timers, firing>> /\ valid' \subseteq valid
        BY <1>5 DEF SetNextFireDate, AddTimer, Invalidate, history
    <2>2. \A m \in Modes : \A u \in ToSet(timers[m]) : fireTSR'[u] = fireTSR[u]
        <3>1. CASE fireTSR' = fireTSR BY <3>1
        <3>2. CASE fireTSR' # fireTSR
            <4>1. rlModes[t] = {} /\ \E d : fireTSR' = [fireTSR EXCEPT ![t] = d]
                BY <1>5, <3>2 DEF SetNextFireDate, AddTimer, Invalidate
            <4>2. \A m \in Modes : t \notin ToSet(timers[m]) /\ ToSet(timers[m]) \subseteq Timers
                BY <4>1 DEF IInv, AInv, TimersSorted
            <4>3. fireTSR \in [Timers -> Nat] BY DEF IInv, AInv, Types
            <4> QED BY <4>1, <4>2, <4>3
        <3> QED BY <3>1, <3>2
    <2>3. now <= now' BY <2>1 DEF IInv, AInv, Types
    <2> SUFFICES ASSUME NEW m \in Modes PROVE Watched(m)' BY DEF WInv
    <2>4. \A u \in Live(m)' : u \in Live(m) /\ fireTSR'[u] = fireTSR[u]
        BY <2>1, <2>2 DEF Live
    <2>5. Watched(m) BY DEF WInv
    <2> QED BY <2>1, <2>3, <2>4, <2>5, StillWatched
<1> QED BY <1>1, <1>2, <1>3, <1>4, <1>5 DEF Client

\* The alarms stay watched, if none goes off too early.
LEMMA WInvInductive ==
    ASSUME Early = 0, IInv, IInv', WInv, [Next]_vars PROVE WInv'
PROOF
<1>1. CASE \E m \in Modes : Ring(m) BY <1>1, RingWatched
<1>2. CASE (\E m \in Modes : Run(m)) \/ Return \/ CalloutReturns BY <1>2, RunsWatched
<1>3. CASE DoTimers BY <1>3, DoTimersWatched
<1>4. CASE \E t \in Timers : DoTimer(t) BY <1>4, DoTimerWatched
<1>5. CASE InvalidateFired
    <2>1. Top.call \in Timers /\ Top.modes \in SUBSET Modes
        BY <1>5, TopIs DEF InvalidateFired, At, CallOK, Calling
    <2>2. /\ RemoveFrom(Top.modes, Top.call)
          /\ UNCHANGED <<now, rang, missed, fireTSR, valid, firing>>
          /\ \A m \in Modes : ~Serving(m)
        BY <1>5 DEF InvalidateFired, history, Serving, At
    <2>3. PICK t, S : t = Top.call /\ S = Top.modes OBVIOUS
    <2> QED BY <2>1, <2>2, <2>3, RemovedWatched
<1>6. CASE TimerDone BY <1>6, TimerDoneWatched
<1>7. CASE DoTimersDone BY <1>7, DoTimersDoneWatched
<1>8. CASE \E c \in Clients : Client(c) BY <1>8, ClientWatched
<1>9. CASE Tick \/ UNCHANGED vars BY <1>9, TickWatched
<1> QED BY <1>1, <1>2, <1>3, <1>4, <1>5, <1>6, <1>7, <1>8, <1>9 DEF Next

\* The alarms are armed for the timers added before.
LEMMA WInvInitially == Init => WInv
PROOF
<1> SUFFICES ASSUME Init, NEW m \in Modes PROVE Watched(m) BY DEF WInv
<1>1. IInv BY Initially
<1>2. /\ alarm[m] = ArmNextTimer(Disarmed, timers[m], fireTSR, firing)
      /\ timers[m] \in Seq(Timers) /\ fireTSR \in [Timers -> Nat] /\ Before(fireTSR)
      /\ Sorted(timers[m], fireTSR)
    BY <1>1 DEF Init, IInv, AInv, Types
<1>3. Disarmed.at \in Nat /\ Disarmed.at = Never /\ Disarmed.soft = Never BY NeverIsDate DEF Disarmed
<1>4. ArmedFor(alarm[m], Disarmed, timers[m], fireTSR, firing)
    BY <1>2, <1>3, ArmNextTimerCorrect
<1>5. ~Rung(m) BY <1>3, <1>4 DEF ArmedFor, Rung
<1>6. AlarmOK(m) BY <1>3, <1>4, <1>5 DEF ArmedFor, AlarmOK
<1>7. InTime(m) BY <1>2, <1>4 DEF ArmedFor, InTime, Live
<1>8. Waking(m) BY <1>5 DEF Waking
<1> QED BY <1>6, <1>7, <1>8 DEF Watched

-----------------------------------------------------------------------------
(* The theorems.                                                           *)

\* An alarm that has been armed and not gone off is set, or its message waits.
LEMMA TimersArmedImplied ==
    ASSUME IInv, WInv PROVE TimersArmed
PROOF
<1> SUFFICES ASSUME LockFree, NEW m \in Modes \ missed, NEW t \in Live(m) PROVE Armed(m, t)
    BY DEF TimersArmed, Live
<1>1. Watched(m) /\ ~Serving(m) BY DEF WInv, LockFree, Serving, At
<1>2. t \in Timers /\ fireTSR[t] + Tolerance[t] < Never
    BY DEF IInv, AInv, Types, TimersSorted, Before, Live
<1>3. alarm[m].hard <= fireTSR[t] + Tolerance[t] BY <1>1 DEF Watched, InTime
<1>4. alarm[m].soft # Never
    <2>1. alarm[m].hard \in Nat /\ fireTSR[t] \in Nat /\ Tolerance[t] \in Nat
        BY <1>2, TimersAssumption DEF IInv, AInv, Types, AlarmType
    <2>2. alarm[m].hard # Never BY <1>2, <1>3, <2>1, NeverIsDate
    <2> QED BY <2>2, <1>1 DEF Watched, AlarmOK
<1>5. m \in rang \/ alarm[m].at # Never BY <1>1, <1>4 DEF Watched, Waking, Rung
<1> QED BY <1>3, <1>5 DEF Armed

\* Two runs that call have marked two timers.
LEMMA TimerNotReenteredImplied ==
    ASSUME IInv PROVE TimerNotReentered
PROOF
<1> PICK S : runs \in Seq(S) BY DEF IInv, Stack
<1>1. DOMAIN runs = 1..Len(runs) OBVIOUS
<1> QED BY <1>1 DEF IInv, Stack, Calling, TimerNotReentered

\* __CFRunLoopDoTimer never calls a timer inside its own callout, however deep
\* the callouts run the loop and in whichever of its modes: the firing bit is
\* tested and set under one hold of the locks, and cleared by who set it.
THEOREM TimerNotReenteredHolds == Spec => []TimerNotReentered
PROOF
<1>1. Init => IInv BY Initially
<1>2. IInv /\ [Next]_vars => IInv' BY Inductive
<1>3. IInv => TimerNotReentered BY TimerNotReenteredImplied
<1> QED BY <1>1, <1>2, <1>3, PTL DEF Spec

\* __CFRunLoopInsertionIndexInTimerArray, __CFRepositionTimerInMode and the
\* calls that add and remove timers keep each mode's array sorted and in step
\* with what its timers believe, but for the modes a call has missed.
THEOREM TimersSortedHolds == Spec => []TimersSorted
PROOF
<1>1. Init => IInv BY Initially
<1>2. IInv /\ [Next]_vars => IInv' BY Inductive
<1>3. IInv => TimersSorted BY DEF IInv, AInv
<1> QED BY <1>1, <1>2, <1>3, PTL DEF Spec

\* __CFArmNextTimerInMode sets an alarm only when the deadlines change, and yet
\* no timer of a mode that has not been missed is left without one, if alarms
\* do not go off before the date they are set for.
THEOREM TimersArmedHolds == ASSUME Early = 0 PROVE Spec => []TimersArmed
PROOF
<1>1. Init => IInv /\ WInv BY Initially, WInvInitially
<1>2. (IInv /\ WInv) /\ [Next]_vars => (IInv /\ WInv)' BY Inductive, WInvInductive
<1>3. IInv /\ WInv => TimersArmed BY TimersArmedImplied
<1> QED BY <1>1, <1>2, <1>3, PTL DEF Spec

=============================================================================
