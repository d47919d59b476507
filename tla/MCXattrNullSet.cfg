\* apfs_xattr_set called with a NULL value and no XATTR_REPLACE, as an
\* in-kernel caller may: the committed map must still refine XattrAbstract.
CONSTANTS
    t1 = t1  t2 = t2  o1 = o1  o2 = o2  n1 = n1  n2 = n2  d1 = d1  d2 = d2
    NULL = NULL
    SymlinkName = SymlinkName
    KcallocMayFail = FALSE
    MaxKmem = 10
    CorruptKeys = {}
    CorruptRaw <- MCCorruptRaw
    HoleKeys = {}
    Threads = {t1, t2}
    Owners = {o1, o2}
    Names = {n1}
    NameSeq <- MCNameSeq1
    NameLen <- MCNameLen
    PrefixLen = 4
    Data = {d1, d2}
    Lens = {1, 3}
    MaxEmbedded = 2
    BlockSize = 2
    Blocks = {1, 2, 3, 4}
    MaxObjId = 3
    WordBits = 4
    IntBits = 3
    SizeMax = 8
    SetCalls <- AnySetCalls
    GetCalls <- MCGetCalls
    ListCalls <- MCListCalls
SPECIFICATION Spec
SYMMETRY Symmetry
PROPERTY AbsSpec
