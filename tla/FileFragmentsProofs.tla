------------------------ MODULE FileFragmentsProofs ------------------------
(* Both ways of cutting a file partition it, whatever its size.            *)
EXTENDS FileFragments, TLAPS

\* Products with the size of a fragment, for steps that do not multiply.
LEMMA Offsets ==
    ASSUME NEW i \in Int
    PROVE  /\ FragementOffset(i) \in Int
           /\ FragementOffset(i + 1) = FragementOffset(i) + FileFragmentMaxSize
           /\ FragementOffset(i - 1) = FragementOffset(i) - FileFragmentMaxSize
    BY FragmentAssumption DEF FragementOffset

LEMMA OffsetsMonotone ==
    ASSUME NEW i \in Int, NEW j \in Int, i <= j
    PROVE  FragementOffset(i) <= FragementOffset(j)
    BY FragmentAssumption DEF FragementOffset

\* Division by the size of a fragment: quotient and remainder.
LEMMA Division ==
    ASSUME NEW a \in Nat
    PROVE  /\ a \div FileFragmentMaxSize \in Nat
           /\ (a % FileFragmentMaxSize) \in 0..FileFragmentMaxSize-1
           /\ a = FragementOffset(a \div FileFragmentMaxSize)
                  + (a % FileFragmentMaxSize)
    BY FragmentAssumption DEF FragementOffset

\* The fragment that a byte is in starts before it and ends after it.
LEMMA Quotient ==
    ASSUME NEW a \in Nat
    PROVE  /\ a \div FileFragmentMaxSize \in Nat
           /\ FragementOffset(a \div FileFragmentMaxSize) \in Int
           /\ FragementOffset(a \div FileFragmentMaxSize) <= a
           /\ a < FragementOffset(a \div FileFragmentMaxSize)
                  + FileFragmentMaxSize
<1> DEFINE q == a \div FileFragmentMaxSize
           r == a % FileFragmentMaxSize
<1>1. q \in Nat /\ r \in 0..FileFragmentMaxSize-1 /\ a = FragementOffset(q) + r
    BY Division
<1> HIDE DEF q, r
<1>2. FragementOffset(q) \in Int
    BY <1>1, Offsets
<1>3. FragementOffset(q) <= a /\ a < FragementOffset(q) + FileFragmentMaxSize
    BY <1>1, <1>2, FragmentAssumption
<1> QED BY <1>1, <1>2, <1>3 DEF q

\* The quotient is the only number with that property.
LEMMA QuotientUnique ==
    ASSUME NEW a \in Nat, NEW q \in Int,
           FragementOffset(q) <= a, a < FragementOffset(q) + FileFragmentMaxSize
    PROVE  q = a \div FileFragmentMaxSize
<1> DEFINE c == a \div FileFragmentMaxSize
<1>1. /\ FragementOffset(c) <= a
      /\ a < FragementOffset(c) + FileFragmentMaxSize
      /\ c \in Nat
    BY Quotient
<1> HIDE DEF c
<1>2. FragementOffset(q + 1) = FragementOffset(q) + FileFragmentMaxSize
    BY Offsets
<1>3. FragementOffset(c + 1) = FragementOffset(c) + FileFragmentMaxSize
    BY <1>1, Offsets
<1>4. ~ (q + 1 <= c)
    BY <1>1, <1>2, OffsetsMonotone, Offsets, FragmentAssumption
<1>5. ~ (c + 1 <= q)
    BY <1>1, <1>3, OffsetsMonotone, Offsets, FragmentAssumption
<1>6. q = c
    BY <1>1, <1>4, <1>5
<1> QED BY <1>6 DEF c

\* How many fragments there are: the last one is not empty, and it is enough.
LEMMA ChunksBounds ==
    ASSUME NEW fileSize \in Nat
    PROVE  /\ Chunks(fileSize) \in Nat
           /\ fileSize <= FragementOffset(Chunks(fileSize))
           /\ fileSize > FragementOffset(Chunks(fileSize)) - FileFragmentMaxSize
<1> DEFINE q == fileSize \div FileFragmentMaxSize
           r == fileSize % FileFragmentMaxSize
<1>1. q \in Nat /\ r \in 0..FileFragmentMaxSize-1 /\ fileSize = FragementOffset(q) + r
    BY Division
<1>2. Chunks(fileSize) = IF r = 0 THEN q ELSE q + 1
    BY DEF Chunks
<1> HIDE DEF q, r
<1>3. FragementOffset(q) \in Int /\
      FragementOffset(q + 1) = FragementOffset(q) + FileFragmentMaxSize
    BY <1>1, Offsets
<1> QED BY <1>1, <1>2, <1>3, FragmentAssumption

\* The Swift code computes the same number.
THEOREM ClipCountIsChunks ==
    \A fileSize \in Nat : ClipCount(fileSize) = Chunks(fileSize)
<1> SUFFICES ASSUME NEW fileSize \in Nat
             PROVE  ClipCount(fileSize) = Chunks(fileSize)
    OBVIOUS
<1> DEFINE n == Chunks(fileSize)
           a == fileSize + FileFragmentMaxSize - 1
<1>1. a \in Nat /\ n \in Nat
    BY FragmentAssumption, ChunksBounds
<1>2. FragementOffset(n) \in Int
    BY <1>1, Offsets
<1>3. FragementOffset(n) <= a /\ a < FragementOffset(n) + FileFragmentMaxSize
    BY <1>2, ChunksBounds, FragmentAssumption
<1>4. n = a \div FileFragmentMaxSize
    BY <1>1, <1>3, QuotientUnique
<1> QED BY <1>4 DEF ClipCount

\* Cutting a file partitions it.
THEOREM CuttingPartitions ==
    \A fileSize \in Nat : Partition(fileSize, Chunks(fileSize))
<1> SUFFICES ASSUME NEW fileSize \in Nat
             PROVE  Partition(fileSize, Chunks(fileSize))
    OBVIOUS
<1> DEFINE n == Chunks(fileSize)
<1>1. /\ n \in Nat
      /\ FragementOffset(n) \in Int
      /\ FragementOffset(n - 1) = FragementOffset(n) - FileFragmentMaxSize
    BY ChunksBounds, Offsets
<1>2. fileSize <= FragementOffset(n) /\ fileSize > FragementOffset(n - 1)
    BY <1>1, ChunksBounds
<1> HIDE DEF n
<1>3. ASSUME NEW i \in 0..n-1
      PROVE  /\ FragmentSize(fileSize, n, i) \in 1..FileFragmentMaxSize
             /\ FragementOffset(i) + FragmentSize(fileSize, n, i) <= fileSize
             /\ FragementOffset(i) \in Int
    <2>1. FragementOffset(i) \in Int
        BY Offsets
    <2>2. CASE i = n - 1
        BY <2>1, <2>2, <1>1, <1>2, FragmentAssumption DEF FragmentSize
    <2>3. CASE i # n - 1
        <3>1. FragementOffset(i) + FileFragmentMaxSize <= FragementOffset(n - 1)
            BY <2>3, <1>1, Offsets, OffsetsMonotone
        <3> QED BY <2>1, <2>3, <3>1, <1>1, <1>2, FragmentAssumption DEF FragmentSize
    <2> QED BY <2>2, <2>3
<1>4. ASSUME NEW b \in 0..fileSize-1
      PROVE  \E i \in 0..n-1 : Holds(fileSize, n, i, b)
    <2> DEFINE q == b \div FileFragmentMaxSize
    <2>1. /\ q \in Nat
          /\ FragementOffset(q) \in Int
          /\ FragementOffset(q) <= b
          /\ b < FragementOffset(q) + FileFragmentMaxSize
        BY Quotient
    <2> HIDE DEF q
    <2>2. ~ (n <= q)
        BY <2>1, <1>1, <1>2, OffsetsMonotone
    <2>3. q \in 0..n-1
        BY <2>1, <2>2, <1>1
    <2>4. Holds(fileSize, n, q, b)
        BY <2>1, <2>3 DEF Holds, FragmentSize
    <2> QED BY <2>3, <2>4
<1>5. ASSUME NEW b \in 0..fileSize-1, NEW i \in 0..n-1, Holds(fileSize, n, i, b)
      PROVE  i = b \div FileFragmentMaxSize
    <2>1. /\ FragementOffset(i) <= b
          /\ b < FragementOffset(i) + FileFragmentMaxSize
        BY <1>3, <1>5, FragmentAssumption DEF Holds
    <2> QED BY <2>1, <1>1, QuotientUnique
<1>6. Partition(fileSize, n)
    BY <1>3, <1>4, <1>5 DEF Partition
<1> QED BY <1>6 DEF n
=============================================================================
