\* A get of a dstream value larger than INT_MAX returns -E2BIG: does it
\* free all it allocated?
\* One thread; a 4-byte value exceeds INT_MAX (3) at these widths.
CONSTANTS
    t1 = t1  t2 = t2  o1 = o1  o2 = o2  n1 = n1  n2 = n2  d1 = d1  d2 = d2
    NULL = NULL
    SymlinkName = SymlinkName
    KcallocMayFail = FALSE
    MaxKmem = 5
    CorruptKeys = {}
    CorruptRaw <- MCCorruptRaw
    HoleKeys = {}
    Threads = {t1}
    Owners = {o1}
    Names = {n1, n2}
    NameSeq <- MCNameSeq
    NameLen <- MCNameLen
    PrefixLen = 4
    Data = {d1, d2}
    Lens = {1, 3, 4}
    MaxEmbedded = 2
    BlockSize = 2
    Blocks = {1, 2, 3, 4}
    MaxObjId = 3
    WordBits = 4
    IntBits = 3
    SizeMax = 2
    SetCalls <- VfsSetCalls
    GetCalls <- MCGetCalls
    ListCalls <- MCListCalls
SPECIFICATION Spec
INVARIANT NoLostAllocation
