\* Liveness when kcalloc of the buffer-head array may fail.
\* One thread, as in the liveness run; reads into a buffer need blocks.
CONSTANTS
    t1 = t1  t2 = t2  o1 = o1  o2 = o2  n1 = n1  n2 = n2  d1 = d1  d2 = d2
    NULL = NULL
    SymlinkName = SymlinkName
    KcallocMayFail = TRUE
    MaxKmem = 5
    CorruptKeys = {}
    CorruptRaw <- MCCorruptRaw
    HoleKeys = {}
    Threads = {t1}
    Owners = {o1}
    Names = {n1, n2}
    NameSeq <- MCNameSeq
    NameLen <- MCNameLen
    PrefixLen = 4
    Data = {d1, d2}
    Lens = {1, 3, 4}
    MaxEmbedded = 2
    BlockSize = 2
    Blocks = {1, 2, 3, 4}
    MaxObjId = 3
    WordBits = 4
    IntBits = 3
    SizeMax = 2
    SetCalls <- VfsSetCalls
    GetCalls <- MCGetCalls
    ListCalls <- MCListCalls
SPECIFICATION FairSpec
PROPERTY CallsReturn
