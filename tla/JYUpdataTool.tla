---------------------------- MODULE JYUpdataTool ----------------------------
(***************************************************************************)
(* The upload of a large file by three threads, JYUpdataTool.m: each runs  *)
(* upOne, taking fragments through a shared currentIndex and reading their *)
(* data through one shared file handle.  The @synchronized around the loop *)
(* body is commented out, so every access to a property, to the fragments  *)
(* and to the file is a step of its own; the upload is the placeholder of  *)
(* the code, a sleep.                                                      *)
(***************************************************************************)
EXTENDS FileFragments

CONSTANTS
    Threads,  \* thread1, thread2 and thread3
    Sizes,    \* the file is of one of these sizes
    none      \* a local that has no value yet

ASSUME SizesAssumption == Sizes \subseteq Nat
ASSUME NoneAssumption  == none \notin Nat

VARIABLES
    fileSize,        \* of the file; it does not change
    currentIndex,    \* JYUpdataTool.currentIndex, nonatomic
    fragmentStatus,  \* FileFragment.fragmentStatus: "waiting" or "loading"
    offsetInFile,    \* the position of readFileHandle
    pc,              \* where a thread is in upOne
    fragment,        \* the fragment that a thread reads and uploads
    data,            \* the NSData it has read: the bytes from, up to and
                     \* without to
    index,           \* currentIndex as loaded by currentIndex++
    uploads,         \* history: how often each fragment was uploaded
    increments       \* history: how often currentIndex++ was completed

file   == <<fileSize, offsetInFile>>
locals == <<fragment, data, index>>
vars   == <<fileSize, currentIndex, fragmentStatus, offsetInFile, pc, fragment,
            data, index, uploads, increments>>

n == Chunks(fileSize)

Init ==
    /\ fileSize \in Sizes
    /\ currentIndex = 0
    /\ fragmentStatus = [i \in 0..n-1 |-> "waiting"]
    /\ offsetInFile = 0
    /\ pc = [t \in Threads |-> "loop"]
    /\ fragment = [t \in Threads |-> none]
    /\ data = [t \in Threads |-> none]
    /\ index = [t \in Threads |-> none]
    /\ uploads = [i \in 0..n-1 |-> 0]
    /\ increments = 0

Goto(t, place) == pc' = [pc EXCEPT ![t] = place]

\* An index past the end of fileFragments raises NSRangeException, which nobody
\* catches: the process ends.
InRange == currentIndex < n
Crashed == \E t \in Threads : pc[t] = "exception"
RangeException(t) ==
    /\ pc[t] \in {"status", "mark", "pick"}
    /\ ~ InRange
    /\ Goto(t, "exception")
    /\ UNCHANGED <<currentIndex, fragmentStatus, file, locals, uploads, increments>>

\* self.currentIndex < count, or else [NSThread exit].
CheckIndex(t) ==
    /\ pc[t] = "loop"
    /\ Goto(t, IF InRange THEN "status" ELSE "exited")
    /\ UNCHANGED <<currentIndex, fragmentStatus, file, locals, uploads, increments>>

\* Mutant: a thread that finds the fragment taken moves the index on.
CheckStatusOrSkip(t) ==
    /\ pc[t] = "status"
    /\ InRange
    /\ IF fragmentStatus[currentIndex] = "waiting"
       THEN Goto(t, "mark") /\ UNCHANGED currentIndex
       ELSE Goto(t, "loop") /\ currentIndex' = currentIndex + 1
    /\ UNCHANGED <<fragmentStatus, file, locals, uploads, increments>>

\* Is the current fragment waiting?  If not, round the loop again.
CheckStatus(t) ==
    /\ pc[t] = "status"
    /\ InRange
    /\ Goto(t, IF fragmentStatus[currentIndex] = "waiting" THEN "mark" ELSE "loop")
    /\ UNCHANGED <<currentIndex, fragmentStatus, file, locals, uploads, increments>>

\* Mutant: the index moves on as soon as the fragment is marked.
MarkAndAdvance(t) ==
    /\ pc[t] = "mark"
    /\ InRange
    /\ fragmentStatus' = [fragmentStatus EXCEPT ![currentIndex] = "loading"]
    /\ currentIndex' = currentIndex + 1
    /\ Goto(t, "pick")
    /\ UNCHANGED <<file, locals, uploads, increments>>

\* The fragment that is current now is loading.
MarkLoading(t) ==
    /\ pc[t] = "mark"
    /\ InRange
    /\ fragmentStatus' = [fragmentStatus EXCEPT ![currentIndex] = "loading"]
    /\ Goto(t, "pick")
    /\ UNCHANGED <<currentIndex, file, locals, uploads, increments>>

\* The fragment that is current now is the one to read.
PickFragment(t) ==
    /\ pc[t] = "pick"
    /\ InRange
    /\ fragment' = [fragment EXCEPT ![t] = currentIndex]
    /\ Goto(t, "seek")
    /\ UNCHANGED <<currentIndex, fragmentStatus, file, data, index, uploads,
                   increments>>

\* readDateOfFragment: seek ...
SeekToFileOffset(t) ==
    /\ pc[t] = "seek"
    /\ offsetInFile' = FragementOffset(fragment[t])
    /\ Goto(t, "read")
    /\ UNCHANGED <<fileSize, currentIndex, fragmentStatus, locals, uploads,
                   increments>>

\* ... and read from wherever the handle is, up to the end of the file at most.
ReadDataOfLength(t) ==
    LET end == offsetInFile + FragmentSize(fileSize, n, fragment[t]) IN
    /\ pc[t] = "read"
    /\ offsetInFile' = IF end < fileSize THEN end ELSE fileSize
    /\ data' = [data EXCEPT ![t] = <<offsetInFile, offsetInFile'>>]
    /\ Goto(t, "upload")
    /\ UNCHANGED <<fileSize, currentIndex, fragmentStatus, fragment, index,
                   uploads, increments>>

\* The upload takes its time.
Upload(t) ==
    /\ pc[t] = "upload"
    /\ uploads' = [uploads EXCEPT ![fragment[t]] = @ + 1]
    /\ Goto(t, "load")
    /\ UNCHANGED <<currentIndex, fragmentStatus, file, locals, increments>>

\* self.currentIndex++ is a load ...
LoadIndex(t) ==
    /\ pc[t] = "load"
    /\ index' = [index EXCEPT ![t] = currentIndex]
    /\ Goto(t, "store")
    /\ UNCHANGED <<currentIndex, fragmentStatus, file, fragment, data, uploads,
                   increments>>

\* ... and a store; the locals of the loop body are gone.
StoreIndex(t) ==
    /\ pc[t] = "store"
    /\ currentIndex' = index[t] + 1
    /\ increments' = increments + 1
    /\ fragment' = [fragment EXCEPT ![t] = none]
    /\ data' = [data EXCEPT ![t] = none]
    /\ index' = [index EXCEPT ![t] = none]
    /\ Goto(t, "loop")
    /\ UNCHANGED <<fragmentStatus, file, uploads>>

upOne(t) ==
    \/ RangeException(t) \/ CheckIndex(t) \/ CheckStatus(t) \/ MarkLoading(t)
    \/ PickFragment(t) \/ SeekToFileOffset(t) \/ ReadDataOfLength(t)
    \/ Upload(t) \/ LoadIndex(t) \/ StoreIndex(t)

Next == ~ Crashed /\ \E t \in Threads : upOne(t)

Spec == Init /\ [][Next]_vars

-----------------------------------------------------------------------------
(* Properties                                                              *)

Places == {"loop", "status", "mark", "pick", "seek", "read", "upload", "load",
           "store", "exited", "exception"}

TypeOK ==
    /\ fileSize \in Sizes
    /\ currentIndex \in Nat
    /\ fragmentStatus \in [0..n-1 -> {"waiting", "loading"}]
    /\ offsetInFile \in 0..fileSize
    /\ pc \in [Threads -> Places]
    /\ fragment \in [Threads -> (0..n-1) \cup {none}]
    /\ data \in [Threads -> ((0..fileSize) \X (0..fileSize)) \cup {none}]
    /\ index \in [Threads -> Nat \cup {none}]
    /\ uploads \in [0..n-1 -> Nat]
    /\ increments \in Nat

\* However the three increments interleave, and although one may overwrite
\* another and even move currentIndex back, it never runs ahead of the uploads
\* that were completed.
IndexBehindUploads == currentIndex <= increments

\* The first fragment is not lost: the index leaves it, and a thread exits or
\* meets an exception, only after it was uploaded.
FirstFragmentUploaded ==
    n > 0 /\ (currentIndex > 0 \/ \E t \in Threads : pc[t] \in {"exited", "exception"})
        => uploads[0] > 0

\* The comment at JYUpdataTool.m:66, "thread safe, prevents uploading the same
\* range more than once".
UploadedOnce == \A i \in 0..n-1 : uploads[i] <= 1

\* cutFileForFragments leaves no byte of the file out, duplicates none, and
\* makes no empty fragment.
CutFileForFragments == Partition(fileSize, Chunks(fileSize))

=============================================================================
