------------------------- MODULE JYUpdataToolProofs -------------------------
(***************************************************************************)
(* What the three upload threads guarantee although nothing is             *)
(* synchronized, for any number of threads and any file.                   *)
(***************************************************************************)
EXTENDS JYUpdataTool, FileFragmentsProofs

\* An increment in flight was loaded from an index that was behind.
LoadedInv == \A t \in Threads : pc[t] = "store" =>
                 index[t] \in Nat /\ index[t] <= increments

\* Who has got past the first fragment, and who carries which fragment.
PastFirst(t) == pc[t] \in {"load", "store", "exited", "exception"}
Carries(t) == pc[t] \in {"seek", "read", "upload"}
FirstInv == n > 0 =>
    /\ currentIndex > 0 => uploads[0] > 0
    /\ \A t \in Threads : PastFirst(t) => uploads[0] > 0
    /\ \A t \in Threads : Carries(t) /\ fragment[t] # 0 => uploads[0] > 0

CarryInv == \A t \in Threads : Carries(t) => fragment[t] \in 0..n-1

IndInv == TypeOK /\ IndexBehindUploads /\ LoadedInv /\ CarryInv /\ FirstInv

\* The number of fragments, and where one lies in the file.
LEMMA FragmentInFile ==
    ASSUME fileSize \in Nat
    PROVE  /\ n \in Nat
           /\ \A i \in 0..n-1 : /\ FragementOffset(i) \in 0..fileSize
                                /\ FragmentSize(fileSize, n, i) \in Nat \ {0}
<1>1. n \in Nat
    BY ChunksBounds DEF n
<1>2. Partition(fileSize, n)
    BY CuttingPartitions DEF n
<1>3. ASSUME NEW i \in 0..n-1
      PROVE  /\ FragementOffset(i) \in Nat
             /\ FragmentSize(fileSize, n, i) \in 1..FileFragmentMaxSize
             /\ FragementOffset(i) + FragmentSize(fileSize, n, i) <= fileSize
    <2>1. FragementOffset(i) \in Nat
        BY FragmentAssumption, <1>1 DEF FragementOffset
    <2> QED BY <1>2, <2>1 DEF Partition
<1> QED BY <1>1, <1>3, FragmentAssumption

LEMMA InitEstablishesIndInv == Init => IndInv
<1> SUFFICES ASSUME Init PROVE IndInv
    OBVIOUS
<1>1. fileSize \in Nat
    BY SizesAssumption DEF Init
<1>2. TypeOK
    BY <1>1 DEF Init, TypeOK, Places
<1> QED BY <1>2 DEF IndInv, Init, IndexBehindUploads, LoadedInv, CarryInv, Carries,
                    FirstInv, PastFirst

LEMMA NextPreservesIndInv == IndInv /\ [Next]_vars => IndInv'
<1> SUFFICES ASSUME IndInv, [Next]_vars PROVE IndInv'
    OBVIOUS
<1> USE DEF IndInv
<1>1. CASE UNCHANGED vars
    BY <1>1 DEF vars, TypeOK, IndexBehindUploads, LoadedInv, CarryInv, Carries,
                FirstInv, PastFirst, n
<1>2. ASSUME NEW t \in Threads, upOne(t) PROVE IndInv'
    <2>a. fileSize \in Nat /\ n \in Nat
        BY SizesAssumption, FragmentInFile DEF TypeOK
    <2>b. fileSize' = fileSize /\ n' = n
        BY <1>2 DEF upOne, RangeException, CheckIndex, CheckStatus, MarkLoading,
           PickFragment, SeekToFileOffset, ReadDataOfLength, Upload, LoadIndex,
           StoreIndex, file, n
    <2>c. none \notin Nat
        BY NoneAssumption
    <2> USE DEF Goto
    <2>1. CASE RangeException(t)
        BY <2>1, <2>a, <2>b DEF RangeException, InRange, file, locals, TypeOK,
           Places, IndexBehindUploads, LoadedInv, CarryInv, Carries, FirstInv, PastFirst
    <2>2. CASE CheckIndex(t)
        BY <2>2, <2>a, <2>b DEF CheckIndex, InRange, file, locals, TypeOK,
           Places, IndexBehindUploads, LoadedInv, CarryInv, Carries, FirstInv, PastFirst
    <2>3. CASE CheckStatus(t)
        BY <2>3, <2>a, <2>b DEF CheckStatus, file, locals, TypeOK,
           Places, IndexBehindUploads, LoadedInv, CarryInv, Carries, FirstInv, PastFirst
    <2>4. CASE MarkLoading(t)
        BY <2>4, <2>a, <2>b DEF MarkLoading, file, locals, TypeOK,
           Places, IndexBehindUploads, LoadedInv, CarryInv, Carries, FirstInv, PastFirst
    <2>5. CASE PickFragment(t)
        BY <2>5, <2>a, <2>b DEF PickFragment, InRange, file, locals, TypeOK,
           Places, IndexBehindUploads, LoadedInv, CarryInv, Carries, FirstInv, PastFirst
    <2>6. CASE SeekToFileOffset(t)
        <3>1. fragment[t] \in 0..n-1
            BY <2>6 DEF SeekToFileOffset, CarryInv, Carries
        <3>2. FragementOffset(fragment[t]) \in 0..fileSize
            BY <3>1, <2>a, FragmentInFile
        <3> QED BY <2>6, <3>2, <2>a, <2>b DEF SeekToFileOffset, file, locals, TypeOK,
           Places, IndexBehindUploads, LoadedInv, CarryInv, Carries, FirstInv, PastFirst
    <2>7. CASE ReadDataOfLength(t)
        <3>1. fragment[t] \in 0..n-1 /\ offsetInFile \in 0..fileSize
            BY <2>7 DEF ReadDataOfLength, CarryInv, Carries, TypeOK
        <3>2. FragmentSize(fileSize, n, fragment[t]) \in Nat
            BY <3>1, <2>a, FragmentInFile
        <3>3. offsetInFile' \in 0..fileSize
            BY <2>7, <3>1, <3>2, <2>a DEF ReadDataOfLength
        <3> QED BY <2>7, <3>1, <3>3, <2>a, <2>b DEF ReadDataOfLength, TypeOK,
           Places, IndexBehindUploads, LoadedInv, CarryInv, Carries, FirstInv, PastFirst
    <2>8. CASE Upload(t)
        <3>1. fragment[t] \in 0..n-1
            BY <2>8 DEF Upload, CarryInv, Carries
        <3>2. uploads'[0] > 0 /\ n > 0
            BY <2>8, <3>1, <2>a DEF Upload, FirstInv, Carries, TypeOK
        <3> QED BY <2>8, <3>1, <3>2, <2>a, <2>b DEF Upload, file, locals, TypeOK,
           Places, IndexBehindUploads, LoadedInv, CarryInv, Carries, FirstInv, PastFirst
    <2>9. CASE LoadIndex(t)
        BY <2>9, <2>a, <2>b DEF LoadIndex, file, locals, TypeOK,
           Places, IndexBehindUploads, LoadedInv, CarryInv, Carries, FirstInv, PastFirst
    <2>10. CASE StoreIndex(t)
        BY <2>10, <2>a, <2>b DEF StoreIndex, file, locals, TypeOK,
           Places, IndexBehindUploads, LoadedInv, CarryInv, Carries, FirstInv, PastFirst
    <2> QED BY <1>2, <2>1, <2>2, <2>3, <2>4, <2>5, <2>6, <2>7, <2>8, <2>9, <2>10
            DEF upOne
<1> QED BY <1>1, <1>2 DEF Next

THEOREM IndInvHolds == Spec => []IndInv
    BY InitEstablishesIndInv, NextPreservesIndInv, PTL DEF Spec

\* Every reachable state is well typed; the position of the handle stays in the
\* file whoever moves it.
THEOREM UploadTypeCorrect == Spec => []TypeOK
<1>1. IndInv => TypeOK
    BY DEF IndInv
<1> QED BY <1>1, IndInvHolds, PTL

\* However the increments of currentIndex overwrite each other, it never runs
\* ahead of the uploads that were completed.
THEOREM IndexBehindUploadsHolds == Spec => []IndexBehindUploads
<1>1. IndInv => IndexBehindUploads
    BY DEF IndInv
<1> QED BY <1>1, IndInvHolds, PTL

\* The first fragment is uploaded before anybody leaves it behind.
THEOREM FirstFragmentUploadedHolds == Spec => []FirstFragmentUploaded
<1>1. IndInv => FirstFragmentUploaded
    BY DEF IndInv, FirstInv, PastFirst, FirstFragmentUploaded
<1> QED BY <1>1, IndInvHolds, PTL

\* The threads divide a file among them that cutFileForFragments has cut without
\* gap or overlap, whatever its size.
THEOREM CutFileForFragmentsHolds == Spec => []CutFileForFragments
<1>1. IndInv => CutFileForFragments
    BY CuttingPartitions, SizesAssumption DEF IndInv, TypeOK, CutFileForFragments
<1> QED BY <1>1, IndInvHolds, PTL

=============================================================================
