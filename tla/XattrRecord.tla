----------------------------- MODULE XattrRecord -----------------------------
(***************************************************************************)
(* The on-disk xattr record of src/xattr.c at byte-length level: what      *)
(* apfs_xattr_set encodes (apfs_build_xattr_key, apfs_build_*_xattr_val,   *)
(* the symlink flag), what apfs_xattr_from_query accepts from a catalog    *)
(* node, and the int length apfs_xattr_extents_read derives from a size.   *)
(*                                                                         *)
(* A raw record as the query sees it:                                      *)
(*   klen, vlen  query->key_len and query->len (ints)                      *)
(*   nlen        the u16 name_len field of the key                         *)
(*   name        the key bytes after the key header (0 is the NUL byte)    *)
(*   flags, xlen the u16 flags and xdata_len fields of the value           *)
(*   payload     the value bytes after the value header: inline contents  *)
(*               (data), or a dstream reference (id, size)                 *)
(***************************************************************************)
EXTENDS KernelC, Sequences, Bitwise

CONSTANTS
    SymlinkName,    \* APFS_XATTR_NAME_SYMLINK
    NULL

NUL == 0

\* struct apfs_xattr_key: apfs_key_header (8 bytes) and the u16 name_len.
KeyHdrLen == 10
\* struct apfs_xattr_val: the u16 flags and the u16 xdata_len.
ValHdrLen == 4
\* struct apfs_xattr_dstream: xattr_obj_id and a struct apfs_dstream of 5 u64.
DstreamLen == 48

XATTR_DATA_STREAM == 1
XATTR_DATA_EMBEDDED == 2
XATTR_FILE_SYSTEM_OWNED == 4

U16(x) == x % 65536

-----------------------------------------------------------------------------
(* Encoding: the record apfs_xattr_set builds from name and value.         *)

\* apfs_build_xattr_key: name_len counts the NUL and is a u16.
BuildXattrKey(name) ==
    LET namelen == U16(Len(name) + 1) IN
    [klen |-> KeyHdrLen + namelen, nlen |-> namelen, name |-> name \o <<NUL>>]

\* apfs_build_dstream_xattr_val: the value is a fixed-size dstream reference.
BuildDstreamVal(ds) ==
    [vlen |-> ValHdrLen + DstreamLen, flags |-> XATTR_DATA_STREAM,
     xlen |-> DstreamLen, payload |-> [data |-> NULL, id |-> ds.id, size |-> ds.size]]

\* apfs_build_inline_xattr_val: the value bytes follow the header.
BuildInlineVal(v) ==
    [vlen |-> ValHdrLen + v.len, flags |-> XATTR_DATA_EMBEDDED,
     xlen |-> U16(v.len), payload |-> [data |-> v.data, id |-> NULL, size |-> NULL]]

\* Mutant: the symlink flag overwrites the flags instead of adding to them.
SymlinkFlagsAssigned(flags) == XATTR_FILE_SYSTEM_OWNED

\* raw_val->flags |= cpu_to_le16(APFS_XATTR_FILE_SYSTEM_OWNED)
SymlinkFlags(flags) == flags | XATTR_FILE_SYSTEM_OWNED

\* apfs_xattr_set: key and value (a dstream reference when ds is not NULL),
\* the filesystem-owned bit for the symlink target.
EncodeXattr(name, v, ds) ==
    LET key == BuildXattrKey(name)
        val == IF ds # NULL THEN BuildDstreamVal(ds) ELSE BuildInlineVal(v)
    IN  [klen |-> key.klen, nlen |-> key.nlen, name |-> key.name,
         vlen |-> val.vlen, xlen |-> val.xlen, payload |-> val.payload,
         flags |-> IF name = SymlinkName THEN SymlinkFlags(val.flags) ELSE val.flags]

-----------------------------------------------------------------------------
(* Decoding                                                                *)

\* Mutant: the NUL termination of the name is not checked.
XattrFromQueryNoNul(r) ==
    LET datalen == ToInt(ToWord(r.vlen - ValHdrLen))
        namelen == ToInt(ToWord(r.klen - KeyHdrLen))
        stream == (r.flags & XATTR_DATA_STREAM) # 0
    IN  IF \/ namelen < 1 \/ datalen < 0
           \/ namelen # r.nlen
           \/ stream /\ datalen # DstreamLen
           \/ ~stream /\ datalen # r.xlen
        THEN [err |-> EFSCORRUPTED]
        ELSE [err |-> 0, has_dstream |-> stream, name |-> SubSeq(r.name, 1, namelen - 1),
              xdata |-> r.payload, xdata_len |-> datalen]

\* apfs_xattr_from_query: the lengths are the node's ints less the header
\* sizes (size_t arithmetic stored back in an int); each check is an early
\* return of -EFSCORRUPTED, in the order of the code.  The result has the
\* int the function returns as err, and the decoded struct when it is 0.
XattrFromQuery(r) ==
    LET datalen == ToInt(ToWord(r.vlen - ValHdrLen))
        namelen == ToInt(ToWord(r.klen - KeyHdrLen))
        stream == (r.flags & XATTR_DATA_STREAM) # 0
    IN  IF \/ namelen < 1 \/ datalen < 0
           \/ namelen # r.nlen
           \/ r.name[namelen] # NUL
           \/ stream /\ datalen # DstreamLen
           \/ ~stream /\ datalen # r.xlen
        THEN [err |-> EFSCORRUPTED]
        ELSE [err |-> 0, has_dstream |-> stream, name |-> SubSeq(r.name, 1, namelen - 1),
              xdata |-> r.payload, xdata_len |-> datalen]

\* apfs_dstream_from_xattr: id and size of the referenced dstream.
DstreamFromXattr(x) == [id |-> x.xdata.id, size |-> x.xdata.size]

\* Mutant: a negative int length is let through.
ExtentsLengthNoSign(size) ==
    LET length == ToInt(size) IN
    IF ToWord(length) < size THEN E2BIG ELSE length

\* apfs_xattr_extents_read, lines 109-113: the u64 size is stored in an
\* int; the comparison with the u64 converts the int back to u64.
ExtentsLength(size) ==
    LET length == ToInt(size) IN
    IF length < 0 \/ ToWord(length) < size THEN E2BIG ELSE length
=============================================================================
