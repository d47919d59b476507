\* Spec 4.2: a failing apfs_create_xattr_dstream frees what it allocated.
CONSTANTS
    t1 = t1  t2 = t2  o1 = o1  o2 = o2  n1 = n1  n2 = n2  d1 = d1  d2 = d2
    NULL = NULL
    SymlinkName = SymlinkName
    KcallocMayFail = FALSE
    MaxKmem = 10
    CorruptKeys = {}
    CorruptRaw <- MCCorruptRaw
    HoleKeys = {}
    Threads = {t1, t2}
    Owners = {o1}
    Names = {n1, n2}
    NameSeq <- MCNameSeq
    NameLen <- MCNameLen
    PrefixLen = 4
    Data = {d1, d2}
    Lens = {1, 3}
    MaxEmbedded = 2
    BlockSize = 2
    Blocks = {1, 2, 3, 4}
    MaxObjId = 3
    WordBits = 4
    IntBits = 3
    SizeMax = 8
    SetCalls <- VfsSetCalls
    GetCalls <- MCGetCalls
    ListCalls <- MCListCalls
SPECIFICATION Spec
SYMMETRY Symmetry
PROPERTY CreateFailureFreesBlocks
