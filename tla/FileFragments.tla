--------------------------- MODULE FileFragments ---------------------------
(***************************************************************************)
(* How a file is cut into fragments, by -[FileStreamOperation              *)
(* cutFileForFragments] (FileStreamOperation.m) and by clipFile            *)
(* (ClipFileService.swift).  The generated names are left out; sizes are   *)
(* those of files, far below the width of NSUInteger.                      *)
(***************************************************************************)
EXTENDS Integers

CONSTANT FileFragmentMaxSize  \* 1024 * 1024 in the code

ASSUME FragmentAssumption == FileFragmentMaxSize \in Nat \ {0}

\* Mutants: the division truncates; a multiple of the maximum counts one more.
ChunksTruncated(fileSize) == fileSize \div FileFragmentMaxSize

\* chunks of cutFileForFragments, clipCount of clipFile.
Chunks(fileSize) ==
    IF fileSize % FileFragmentMaxSize = 0
    THEN fileSize \div FileFragmentMaxSize
    ELSE fileSize \div FileFragmentMaxSize + 1

ClipCount(fileSize) ==
    (fileSize + FileFragmentMaxSize - 1) \div FileFragmentMaxSize

\* The i-th fragment, when there are n of them; both loops number them from 0.
FragementOffset(i) == i * FileFragmentMaxSize

FragmentSize(fileSize, n, i) ==
    IF i # n - 1 THEN FileFragmentMaxSize ELSE fileSize - FragementOffset(i)

\* Byte b of the file is in the i-th fragment.
Holds(fileSize, n, i, b) ==
    /\ FragementOffset(i) <= b
    /\ b < FragementOffset(i) + FragmentSize(fileSize, n, i)

-----------------------------------------------------------------------------

\* The fragments partition the file: none is empty or larger than the maximum,
\* every byte is in exactly one of them, and none reaches past the end.  The
\* sizes 0, 1 and the multiples of the maximum are where the loops could slip.
Partition(fileSize, n) ==
    /\ \A i \in 0..n-1 :
           /\ FragmentSize(fileSize, n, i) \in 1..FileFragmentMaxSize
           /\ FragementOffset(i) + FragmentSize(fileSize, n, i) <= fileSize
    /\ \A b \in 0..fileSize-1 :
           /\ \E i \in 0..n-1 : Holds(fileSize, n, i, b)
           /\ \A i, j \in 0..n-1 :
                  Holds(fileSize, n, i, b) /\ Holds(fileSize, n, j, b) => i = j

=============================================================================
