CONSTANTS
    root = root
    post = post
    mid = mid
    leaf = leaf
    t1 = t1
    t2 = t2
    t3 = t3
    nil = nil
    Threads = {t1, t2}
    Classes = {root, post, mid, leaf}
    Super <- OmniWeb
    Sends <- Circular
    Callbacks = {}
SPECIFICATION FairSpec
CHECK_DEADLOCK FALSE
PROPERTY
    AllReturn
