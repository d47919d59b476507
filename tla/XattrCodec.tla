------------------------------ MODULE XattrCodec ------------------------------
(***************************************************************************)
(* One catalog slot as the xattr code writes and reads it.  rec is the raw *)
(* record on disk: one an image was made with (maybe crafted or corrupt),  *)
(* or the last one apfs_xattr_set wrote.  A get decodes it the way         *)
(* ____apfs_xattr_get does and out keeps what it found: the decoded record *)
(* or -EFSCORRUPTED, and the length the read would return.                 *)
(***************************************************************************)
EXTENDS XattrRecord, FiniteSets

CONSTANTS
    Names,          \* names apfs_xattr_set may be called with (no NUL)
    Values,         \* [len, data] values a set may write
    ObjIds,         \* ids apfs_next_obj_id may hand out
    MaxEmbedded,    \* APFS_XATTR_MAX_EMBEDDED_SIZE
    CraftedRecords  \* raw records an image may hold

NoOut == [x |-> NULL, len |-> NULL]

VARIABLES rec, written, out

vars == <<rec, written, out>>

\* apfs_xattr_from_query returned an error
IsErr(x) == x.err # 0

StreamFlag(r) == (r.flags & XATTR_DATA_STREAM) # 0

Init ==
    /\ rec \in CraftedRecords
    /\ written = NULL
    /\ out = NoOut

\* apfs_xattr_set (617-621, 652-674): a value above the embedded limit goes
\* to a new dstream, whose id comes from apfs_next_obj_id; the record is
\* encoded and replaces the slot.
Write(name, v) ==
    \E ds \in IF v.len > MaxEmbedded THEN [id : ObjIds, size : {v.len}] ELSE {NULL} :
        /\ rec' = EncodeXattr(name, v, ds)
        /\ written' = [name |-> name, val |-> v, ds |-> ds]
        /\ out' = NoOut

\* ____apfs_xattr_get (258-271) with no buffer: decode, then the length of
\* the inline payload or, for a dstream, the int length of its size.
Get ==
    LET x == XattrFromQuery(rec) IN
    /\ out' = [x |-> x,
               len |-> IF IsErr(x) THEN x.err
                       ELSE IF x.has_dstream THEN ExtentsLength(DstreamFromXattr(x).size)
                       ELSE x.xdata_len]
    /\ UNCHANGED <<rec, written>>

Next == (\E n \in Names, v \in Values : Write(n, v)) \/ Get

Spec == Init /\ [][Next]_vars

-----------------------------------------------------------------------------
(* Properties                                                              *)

\* Spec 4.1 and the layout of spec 6, read as the code reads them: the key
\* and value headers are present, the name_len field counts the key bytes
\* after the header, at least one, the last of them NUL; a value with the
\* stream flag holds exactly a dstream reference, any other value exactly
\* xdata_len bytes.
Valid41(r) ==
    /\ r.klen > KeyHdrLen /\ r.vlen >= ValHdrLen
    /\ r.nlen = Len(r.name)
    /\ r.name[Len(r.name)] = NUL
    /\ IF StreamFlag(r) THEN r.vlen - ValHdrLen = DstreamLen
                        ELSE r.xlen = r.vlen - ValHdrLen

\* apfs_xattr_from_query rejects exactly the records spec 4.1 calls
\* Corrupted, and from the others returns the name without its NUL and the
\* payload length: every byte a caller then reads lies inside the record.
DecodeMatchesSpec ==
    out # NoOut =>
        IF Valid41(rec)
        THEN /\ ~IsErr(out.x)
             /\ out.x.name = SubSeq(rec.name, 1, Len(rec.name) - 1)
             /\ out.x.xdata_len = rec.vlen - ValHdrLen
             /\ out.x.has_dstream = StreamFlag(rec)
        ELSE out.x.err = EFSCORRUPTED /\ out.len = EFSCORRUPTED

\* What a get decodes from the record apfs_xattr_set wrote is what was set:
\* the name, the storage kind, the inline bytes or the dstream id and size
\* (the symlink target's extra flag bit included).
RoundTrip ==
    (written # NULL /\ out # NoOut) =>
        /\ ~IsErr(out.x)
        /\ out.x.name = written.name
        /\ out.x.has_dstream = (written.ds # NULL)
        /\ out.len = written.val.len
        /\ IF written.ds # NULL THEN DstreamFromXattr(out.x) = written.ds
           ELSE out.x.xdata.data = written.val.data

\* The int length apfs_xattr_extents_read derives from a u64 size (109-113)
\* is the size itself when an int holds it, and -E2BIG for every size it
\* does not (spec 9: fail TooLarge deterministically, no wraparound).
LengthCheckExact ==
    (out # NoOut /\ ~IsErr(out.x) /\ out.x.has_dstream) =>
        LET size == out.x.xdata.size IN
        out.len = IF size > IntMax THEN E2BIG ELSE size

\* Spec 3 (invariants 1 and 3) and spec 8: a decoded name has at least one
\* byte besides its NUL, and a record is exactly one of inline or stream.
StrictValid(r) ==
    /\ Valid41(r)
    /\ Len(r.name) >= 2
    /\ Cardinality({b \in {XATTR_DATA_STREAM, XATTR_DATA_EMBEDDED} : (r.flags & b) # 0}) = 1

\* apfs_xattr_from_query accepts only records spec 3 allows.
DecodeRejectsSpecCorrupt ==
    (out # NoOut /\ ~IsErr(out.x)) => StrictValid(rec)
=============================================================================
