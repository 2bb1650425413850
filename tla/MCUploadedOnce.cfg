CONSTANTS
    Threads = {thread1, thread2, thread3}
    FileFragmentMaxSize = 2
    Sizes = {0, 1, 2, 3, 4, 5}
    none = none
SYMMETRY Symmetry
SPECIFICATION Spec
CHECK_DEADLOCK FALSE
INVARIANT UploadedOnce
