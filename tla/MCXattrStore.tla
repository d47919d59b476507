---------------------------- MODULE MCXattrStore ----------------------------
(***************************************************************************)
(* Model-checking instance of XattrStore.  Values of length 1 embed, values*)
(* of length 3 need a two-block dstream (MaxEmbedded 2, BlockSize 2), so  *)
(* four blocks let a dstream value replace another one.  Names of length 1 *)
(* and 2 with the 4-byte "osx." prefix need 6 and 7 bytes in a listing.   *)
(***************************************************************************)
EXTENDS XattrStore, TLC

CONSTANTS t1, t2, o1, o2, n1, n2, d1, d2

MCNameSeq == <<n1, n2>>
MCNameSeq1 == <<n1>>
MCNameLen == n1 :> 1 @@ n2 :> 2

Flags == {{}, {"CREATE"}, {"REPLACE"}}

\* What the VFS can pass: removexattr() is the only caller with a NULL
\* value and it always sets XATTR_REPLACE; setxattr() of size 0 passes "".
VfsSetCalls ==
    {[kind |-> "set", key |-> k, val |-> v, flags |-> f] : k \in Keys, v \in Value, f \in Flags}
    \cup {[kind |-> "set", key |-> k, val |-> NULL, flags |-> {"REPLACE"}] : k \in Keys}

\* In-kernel callers of apfs_xattr_set may also pass a NULL value without
\* XATTR_REPLACE.
AnySetCalls ==
    {[kind |-> "set", key |-> k, val |-> v, flags |-> f] : k \in Keys, v \in Value \cup {NULL}, f \in Flags}

MCGetCalls ==
    {[kind |-> "get", key |-> k, buf |-> FALSE, size |-> 0, whole |-> TRUE] : k \in Keys}
    \cup {[kind |-> "get", key |-> k, buf |-> TRUE, size |-> 2, whole |-> w] : k \in Keys, w \in BOOLEAN}

MCListCalls ==
    {[kind |-> "list", owner |-> o, buf |-> FALSE, size |-> 0] : o \in Owners}
    \cup {[kind |-> "list", owner |-> o, buf |-> TRUE, size |-> s] : o \in Owners, s \in {6, 13}}

\* A record whose name lacks its NUL: apfs_xattr_from_query rejects it.
MCCorruptRaw ==
    [klen |-> KeyHdrLen + 2, nlen |-> 2, name |-> <<65, 65>>,
     vlen |-> ValHdrLen + 1, flags |-> XATTR_DATA_EMBEDDED, xlen |-> 1,
     payload |-> [data |-> NULL, id |-> NULL, size |-> NULL]]

\* The owner's second name in key order is corrupt on the image.
MCCorruptKeys == {<<o1, n2>>}

\* The owner's first name has a sparse dstream on the image.
MCHoleKeys == {<<o1, n1>>}

Symmetry == Permutations({t1, t2}) \cup Permutations({d1, d2})
=============================================================================
