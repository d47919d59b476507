---------------------------- MODULE MCXattrCodec ----------------------------
(***************************************************************************)
(* Model values for XattrCodec.  Name bytes are numbers (0 is NUL); the    *)
(* crafted records cover every early return of apfs_xattr_from_query and  *)
(* the records just around each check, and dstream references of every    *)
(* size a u64 of WordBits bits can hold.                                   *)
(***************************************************************************)
EXTENDS XattrCodec

CONSTANTS d0, d1   \* contents of values

MCNames == {<<65>>, <<66>>}
MCSymlinkName == <<66>>
MCValues == [len : {0, 1, 3}, data : {d0}]
MCObjIds == {1}

\* key bytes after the header: NUL or one other byte
Bytes(k) == IF k <= 0 THEN {<<>>} ELSE [1..k -> {NUL, 65}]

CraftedKeys ==
    UNION {{[klen |-> kl, nlen |-> nl, name |-> nm] : nm \in Bytes(kl - KeyHdrLen)}
           : kl \in 9..13, nl \in 0..4}

CraftedVals ==
    [vlen : (0..6) \cup {51, 52, 53}, flags : 0..7, xlen : {0, 1, 2, 48},
     payload : {[data |-> d1, id |-> 1, size |-> 1]}]

Merge(k, v) ==
    [klen |-> k.klen, nlen |-> k.nlen, name |-> k.name,
     vlen |-> v.vlen, flags |-> v.flags, xlen |-> v.xlen, payload |-> v.payload]

\* well-formed stream records with every size
StreamProbes ==
    {Merge(BuildXattrKey(<<65>>), BuildDstreamVal([id |-> 1, size |-> s])) : s \in 0..(SizeMod - 1)}

MCCraftedRecords == {Merge(k, v) : k \in CraftedKeys, v \in CraftedVals} \cup StreamProbes
=============================================================================
