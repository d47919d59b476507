CONSTANTS
    d0 = d0
    d1 = d1
    NULL = NULL
    IntBits = 8
    WordBits = 9
    MaxEmbedded = 2
    Names <- MCNames
    SymlinkName <- MCSymlinkName
    Values <- MCValues
    ObjIds <- MCObjIds
    CraftedRecords <- MCCraftedRecords
SPECIFICATION Spec
INVARIANTS
    DecodeRejectsSpecCorrupt
