\* Every call returns, under weak fairness of the steps of a call under way:
\* the block loop, the deleteAll loop and the listing loop all end.  A call
\* under nx_big_sem never waits on another thread, so one thread suffices.
\* The lengths reach both -E2BIG returns of a get: 3 > XATTR_SIZE_MAX and 4 > INT_MAX (IntBits 3).
CONSTANTS
    t1 = t1  t2 = t2  o1 = o1  o2 = o2  n1 = n1  n2 = n2  d1 = d1  d2 = d2
    NULL = NULL
    SymlinkName = SymlinkName
    KcallocMayFail = FALSE
    MaxKmem = 5
    CorruptKeys = {}
    CorruptRaw <- MCCorruptRaw
    HoleKeys = {}
    Threads = {t1}
    Owners = {o1}
    Names = {n1, n2}
    NameSeq <- MCNameSeq
    NameLen <- MCNameLen
    PrefixLen = 4
    Data = {d1, d2}
    Lens = {1, 3, 4}
    MaxEmbedded = 2
    BlockSize = 2
    Blocks = {1, 2, 3, 4}
    MaxObjId = 3
    WordBits = 4
    IntBits = 3
    SizeMax = 2
    SetCalls <- VfsSetCalls
    GetCalls <- MCGetCalls
    ListCalls <- MCListCalls
SPECIFICATION FairSpec
PROPERTY CallsReturn
