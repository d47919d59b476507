----------------------------- MODULE XattrStore -----------------------------
(***************************************************************************)
(* The xattr core of src/xattr.c over a shared catalog, a block store and  *)
(* a transaction, run by concurrent threads under nx_big_sem.              *)
(*                                                                         *)
(* Live state (what the running transaction sees):                         *)
(*   cat       the catalog's xattr records, key (owner, name) -> record    *)
(*   ext       the extent records of each dstream: object id -> blocks     *)
(*             (id 0 stands for "no dstream" and never has any)          *)
(*   bdata     block contents: <<data, index of the block in its value>>   *)
(*   free      blocks the allocator may hand out                           *)
(*   nextObjId apfs_next_obj_id of the volume superblock                   *)
(* disk holds the same five fields as of the last transaction commit.      *)
(*                                                                         *)
(* A value is abstracted to [len, data]: its length and a model value for  *)
(* its bytes; block i of a dstream for value v holds <<v.data, i>>.        *)
(* Every thread runs one call at a time: set (apfs_xattr_osx_set),         *)
(* deleteAll (apfs_delete_all_xattrs), get (apfs_xattr_get) or list        *)
(* (apfs_listxattr); pc names the point of the call the thread is at.     *)
(* held names the allocations a thread's locals point to, and kmem counts *)
(* the objects the xattr code has allocated and not freed.                 *)
(***************************************************************************)
EXTENDS XattrRecord, FiniteSets, Functions, FiniteSetsExt

CONSTANTS
    Threads,        \* kernel threads calling into the xattr code
    Owners,         \* inode numbers (cnids)
    Names,          \* attribute names
    NameSeq,        \* Names in catalog key order
    NameLen,        \* strlen of each name
    PrefixLen,      \* XATTR_MAC_OSX_PREFIX_LEN
    Data,           \* contents a value may have
    Lens,           \* lengths a value may have
    MaxEmbedded,    \* APFS_XATTR_MAX_EMBEDDED_SIZE
    BlockSize,      \* sb->s_blocksize
    Blocks,         \* physical block numbers (never 0)
    MaxObjId,       \* bound on apfs_next_obj_id
    SizeMax,        \* XATTR_SIZE_MAX
    SetCalls,       \* [kind "set", key, val, flags] arguments of apfs_xattr_set
    GetCalls,       \* [kind "get", key, buf, size, whole]: ____apfs_xattr_get
    ListCalls,      \* [kind "list", owner, buf, size]: apfs_listxattr
    KcallocMayFail, \* whether kcalloc of the buffer-head array may fail
    MaxKmem,        \* objects the kernel can hold for this code at once
    CorruptKeys,    \* keys whose record on the image is malformed
    CorruptRaw,     \* that record, as XattrRecord lays it out
    HoleKeys        \* keys whose dstream on the image starts with a hole

ASSUME 0 \notin Blocks /\ BlockSize > 0 /\ MaxEmbedded >= 0

Keys == Owners \X Names
ObjIds == 1..MaxObjId
Value == [len : Lens, data : Data]
EmptyValue == [len |-> 0, data |-> NULL]
Garbage == [len |-> -1, data |-> NULL]
Zero == <<NULL, 0>>
NoRec == [kind |-> "none"]
InlineRec(v) == [kind |-> "inline", val |-> v]
StreamRec(id, n) == [kind |-> "stream", id |-> id, size |-> n]
BadRec(raw) == [kind |-> "bad", raw |-> raw]
CorruptVal == [len |-> -2, data |-> NULL]
NoQuery == [key |-> NULL, stale |-> FALSE, rec |-> NoRec]
NoOp == [kind |-> "none"]

ASSUME CorruptKeys \subseteq Keys /\ XattrFromQuery(CorruptRaw).err # 0

\* apfs_xattr_from_query on a catalog record: 0, or the error it returns.
FromQuery(r) == IF r.kind = "bad" THEN XattrFromQuery(r.raw).err ELSE 0

NBlocks(n) == (n + BlockSize - 1) \div BlockSize
Rank(n) == CHOOSE i \in 1..Len(NameSeq) : NameSeq[i] = n
First(S) == CHOOSE n \in S : \A m \in S : Rank(n) <= Rank(m)
CallSize(c) == IF c.val = NULL THEN 0 ELSE c.val.len
Prefix(v, n) == IF n = 0 THEN EmptyValue ELSE [len |-> n, data |-> v.data]

\* A sparse stream on a corrupt image: object id 1, of the largest length,
\* whose first logical block maps to physical block 0 (a hole) and whose
\* second maps to the lowest block.
HoleSize == Max(Lens)
HoleBlock == Min(Blocks)
ASSUME HoleKeys \subseteq Keys \ CorruptKeys /\ Cardinality(HoleKeys) <= 1
       /\ (HoleKeys # {} => NBlocks(HoleSize) = 2)

VARIABLES cat, ext, bdata, free, nextObjId, disk,
          writer, readers,
          pc, op, q, ds, old, ret, res, lfree, lpos,
          held, kmem

liveVars == <<cat, ext, bdata, free, nextObjId>>
lockVars == <<writer, readers>>
memVars == <<held, kmem>>
vars == <<liveVars, disk, lockVars, pc, op, q, ds, old, ret, res, lfree, lpos, memVars>>

Live == [cat |-> cat, ext |-> ext, bdata |-> bdata, free |-> free,
         nextObjId |-> nextObjId]

\* The first n bytes of dstream id, read through the extents and blocks of s.
ReadStream(s, id, n) ==
    LET e == s.ext[id]
        Holds(d) == Len(e) >= NBlocks(n)
                    /\ \A i \in 1..NBlocks(n) : e[i] # 0 /\ s.bdata[e[i]] = <<d, i - 1>>
    IN  IF n = 0 THEN EmptyValue
        ELSE IF \E d \in Data : Holds(d)
             THEN [len |-> n, data |-> CHOOSE d \in Data : Holds(d)]
             ELSE Garbage

\* apfs_logic_to_phys_bno: the physical block of logical block i (from 1)
\* of dstream id in the extents e; 0 for a hole or a block no extent covers.
Bno(e, id, i) == IF i <= Len(e[id]) THEN e[id][i] ELSE 0

\* The attribute values a state s stands for (NULL: no attribute).
Attrs(s) ==
    [k \in Keys |->
        LET r == s.cat[k] IN
        CASE r.kind = "none"   -> NULL
          [] r.kind = "inline" -> r.val
          [] r.kind = "stream" -> ReadStream(s, r.id, r.size)
          [] r.kind = "bad"    -> CorruptVal]

-----------------------------------------------------------------------------
(* Collaborators: catalog cursor invalidation and apfs_truncate.           *)

\* A catalog mutation may restructure nodes: every held query goes stale.
StaleAll ==
    q' = [u \in Threads |-> IF q[u] = NoQuery THEN NoQuery
                            ELSE [q[u] EXCEPT !.stale = TRUE]]

\* apfs_truncate(dstream, 0): free the blocks (a hole has none) and drop
\* the extent records.
Truncate(id) ==
    /\ free' = free \cup (Range(ext[id]) \ {0})
    /\ ext' = [ext EXCEPT ![id] = <<>>]
    /\ StaleAll

\* The space manager hands out the lowest free block (first fit), so a
\* freed block is the first one reused.
AllocBlock == Min(free)

LiveBecomes(s) ==
    /\ cat' = s.cat /\ ext' = s.ext /\ bdata' = s.bdata
    /\ free' = s.free /\ nextObjId' = s.nextObjId

\* A catalog lookup that ends in an error other than -ENODATA: the query
\* cannot be allocated (-ENOMEM) or apfs_btree_query fails reading a node
\* (-EIO stands for its I/O and node errors); the caller frees the query
\* and returns the error.
QueryErrors == {ENOMEM, EIO}

Goto(t, p) == pc' = [pc EXCEPT ![t] = p]
SetRet(t, r) == ret' = [ret EXCEPT ![t] = r]

\* kzalloc, kmalloc or apfs_alloc_query of the allocations S, which the
\* thread's locals then point to; with memory exhausted they fail instead
\* (the -ENOMEM disjuncts).
Alloc(t, S) ==
    /\ kmem + Cardinality(S) <= MaxKmem
    /\ held' = [held EXCEPT ![t] = @ \cup S] /\ kmem' = kmem + Cardinality(S)

\* The function returns after freeing the allocations freed; its locals,
\* and whatever else they pointed to, go out of scope.
Return(t, freed) ==
    held' = [held EXCEPT ![t] = {}] /\ kmem' = kmem - Cardinality(freed)

SetDoneFrees == {"dstream", "old_dstream", "raw_val", "raw_key", "query"}
CreateFailFrees == {"dstream"}
DeleteFailFrees == {"dstream"}
AnyOutFrees == {"query"}
ReadOutFrees == {"dstream"}
GetDoneFrees == {"query"}
ListFailFrees == {"query"}

\* The labels a call of each kind unwinds through when it returns.
ExitFrees(t) ==
    CASE op[t].kind = "set"       -> CreateFailFrees \cup DeleteFailFrees \cup SetDoneFrees
      [] op[t].kind = "deleteall" -> DeleteFailFrees \cup AnyOutFrees
      [] op[t].kind = "get"       -> ReadOutFrees \cup GetDoneFrees
      [] OTHER                    -> ListFailFrees

\* A returning call frees what it holds and its labels name; the rest of
\* what it holds is lost when its locals go out of scope.
DoneFrees(t) == held[t] \cap ExitFrees(t)

\* The done: label of apfs_xattr_set: the error goes back to the caller.
Fail(t, e) == Goto(t, "finish") /\ SetRet(t, e) /\ Return(t, DoneFrees(t))

\* Mutant: the query is a cursor kept from before, maybe invalidated.
HeldQuery(t, k) == [key |-> k, stale |-> q[t].stale, rec |-> cat[k]]

\* apfs_alloc_query + apfs_btree_query: a new cursor on the record of k.
FreshQuery(t, k) == [key |-> k, stale |-> FALSE, rec |-> cat[k]]

\* Mutant: down_read does not wait for the writer.
ReadLockAlways == TRUE

\* down_read(nx_big_sem) proceeds only while no writer holds it.
ReadLockFree == writer = NULL

\* The call returns: its locals are released.
Reset(t) ==
    /\ pc' = [pc EXCEPT ![t] = "idle"]
    /\ op' = [op EXCEPT ![t] = NoOp]
    /\ q' = [q EXCEPT ![t] = NoQuery]
    /\ ds' = [ds EXCEPT ![t] = 0]
    /\ old' = [old EXCEPT ![t] = 0]
    /\ ret' = [ret EXCEPT ![t] = 0]
    /\ res' = [res EXCEPT ![t] = EmptyValue]
    /\ lfree' = [lfree EXCEPT ![t] = 0]
    /\ lpos' = [lpos EXCEPT ![t] = 0]

\* No call in flight: the lock is free, no thread has locals, and the xattr
\* code holds no kernel memory.
NoCalls ==
    /\ writer = NULL /\ readers = {}
    /\ pc = [t \in Threads |-> "idle"]
    /\ op = [t \in Threads |-> NoOp]
    /\ q = [t \in Threads |-> NoQuery]
    /\ ds = [t \in Threads |-> 0] /\ old = [t \in Threads |-> 0]
    /\ ret = [t \in Threads |-> 0] /\ res = [t \in Threads |-> EmptyValue]
    /\ lfree = [t \in Threads |-> 0] /\ lpos = [t \in Threads |-> 0]
    /\ held = [t \in Threads |-> {}] /\ kmem = 0

Init ==
    /\ cat = [k \in Keys |-> CASE k \in CorruptKeys -> BadRec(CorruptRaw)
                               [] k \in HoleKeys    -> StreamRec(1, HoleSize)
                               [] OTHER             -> NoRec]
    /\ ext = [i \in 0..MaxObjId |-> IF i = 1 /\ HoleKeys # {} THEN <<0, HoleBlock>> ELSE <<>>]
    /\ bdata = [b \in Blocks |-> Zero]
    /\ free = IF HoleKeys # {} THEN Blocks \ {HoleBlock} ELSE Blocks
    /\ nextObjId = 1 + Cardinality(HoleKeys)
    /\ disk = Live
    /\ NoCalls
-----------------------------------------------------------------------------
(* Writers.  apfs_transaction_start takes nx_big_sem for writing and the   *)
(* commit or abort at the end of the call releases it.                     *)

\* if (size > APFS_XATTR_MAX_EMBEDDED_SIZE): build the dstream first.
NeedsDstream(c) == CallSize(c) > MaxEmbedded

\* apfs_xattr_osx_set opens the transaction and calls apfs_xattr_set,
\* which builds the dstream first when the value is too big to embed.
StartSet(t, c) ==
    /\ pc[t] = "idle"
    /\ writer = NULL /\ readers = {}
    /\ writer' = t
    /\ op' = [op EXCEPT ![t] = c]
    /\ Goto(t, IF NeedsDstream(c) THEN "create" ELSE "query")
    /\ UNCHANGED <<liveVars, disk, readers, q, ds, old, ret, res, lfree, lpos, memVars>>

\* Inode eviction opens a transaction and calls apfs_delete_all_xattrs.
StartDeleteAll(t, o) ==
    /\ pc[t] = "idle"
    /\ writer = NULL /\ readers = {}
    /\ writer' = t
    /\ op' = [op EXCEPT ![t] = [kind |-> "deleteall", owner |-> o]]
    /\ Goto(t, "da_query")
    /\ UNCHANGED <<liveVars, disk, readers, q, ds, old, ret, res, lfree, lpos, memVars>>

\* Mutant: apfs_next_obj_id is read but never bumped.
BumpObjIdNot == UNCHANGED nextObjId

\* le64_add_cpu(&vsb_raw->apfs_next_obj_id, 1)
BumpObjId == nextObjId' = nextObjId + 1

\* apfs_create_xattr_dstream: the info is allocated, then the new stream
\* takes its id from apfs_next_obj_id.
CreateStart(t) ==
    /\ pc[t] = "create"
    /\ \/ Fail(t, ENOMEM) /\ UNCHANGED <<nextObjId, ds>>
       \/ /\ nextObjId <= MaxObjId
          /\ ds' = [ds EXCEPT ![t] = nextObjId]
          /\ BumpObjId
          /\ Alloc(t, {"dstream"})
          /\ Goto(t, "create_blk")
          /\ UNCHANGED ret
    /\ UNCHANGED <<cat, ext, bdata, free, disk, lockVars, op, q, old, res, lfree, lpos>>

\* One turn of the block loop: allocate block i, read it in, join it to
\* the transaction and copy chunk i of the value into it.
CreateBlock(t) ==
    LET id == ds[t]
        i == Len(ext[id])
    IN
    /\ pc[t] = "create_blk"
    /\ i < NBlocks(op[t].val.len)
    /\ \/ free = {} /\ Fail(t, ENOSPC) /\ UNCHANGED <<ext, bdata, free>>
       \/ /\ free # {}
          /\ ext' = [ext EXCEPT ![id] = Append(@, AllocBlock)]
          /\ free' = free \ {AllocBlock}
          /\ \/ bdata' = [bdata EXCEPT ![AllocBlock] = <<op[t].val.data, i>>]
                /\ UNCHANGED <<pc, ret, memVars>>
             \/ Fail(t, EIO) /\ UNCHANGED bdata
    /\ UNCHANGED <<cat, nextObjId, disk, lockVars, op, q, ds, old, res, lfree, lpos>>

\* Mutant: the last chunk is counted as a whole block (min() dropped).
TocopyWhole(n, i) == BlockSize

\* tocopy = min(s_blocksize, size - off) for chunk i, off = i << bits.
Tocopy(n, i) ==
    IF n - i * BlockSize < BlockSize THEN n - i * BlockSize ELSE BlockSize

\* dstream->ds_size += tocopy after each turn of the loop: the size the
\* dstream record is later built from (apfs_build_dstream_xattr_val).
DsSize(t) ==
    FoldFunction(LAMBDA x, y : x + y, 0,
                 [i \in 0..Len(ext[ds[t]]) - 1 |-> Tocopy(op[t].val.len, i)])

\* After the loop, apfs_flush_extent_cache writes the extent record.
CreateFlush(t) ==
    /\ pc[t] = "create_blk"
    /\ Len(ext[ds[t]]) = NBlocks(op[t].val.len)
    /\ \/ Goto(t, "query") /\ StaleAll /\ UNCHANGED <<ret, memVars>>
       \/ Fail(t, EIO) /\ UNCHANGED q
    /\ UNCHANGED <<liveVars, disk, lockVars, op, ds, old, res, lfree, lpos>>

\* Mutant: XATTR_CREATE is never checked.
CreateRefusedNever(c, r) == FALSE

\* XATTR_CREATE on an existing record: -EEXIST.
CreateRefused(c, r) == r # NoRec /\ "CREATE" \in c.flags

\* apfs_xattr_dstream_from_query on a record that decodes: the id of its
\* dstream, or 0 (dstream_p = NULL) for an inline value.
DstreamFromQuery(r) == IF r.kind = "stream" THEN r.id ELSE 0

\* apfs_xattr_set: exact query for the key, then the decision on
\* XATTR_CREATE, XATTR_REPLACE and a NULL value.  When an existing record
\* is replaced, its dstream is remembered to be truncated later.
Query(t) ==
    LET c == op[t]
        r == cat[c.key]
        Hold == q' = [q EXCEPT ![t] = FreshQuery(t, c.key)]
    IN
    /\ pc[t] = "query"
    /\ \/ \E e \in QueryErrors : Fail(t, e) /\ UNCHANGED <<q, old>>
       \/ r = NoRec /\ "REPLACE" \in c.flags
          /\ Fail(t, ENODATA) /\ UNCHANGED <<q, old>>
       \/ r = NoRec /\ "REPLACE" \notin c.flags
          /\ Hold /\ Alloc(t, {"query"})
          /\ SetRet(t, ENODATA) /\ Goto(t, "update") /\ UNCHANGED old
       \/ CreateRefused(c, r)
          /\ Fail(t, EEXIST) /\ UNCHANGED <<q, old>>
       \/ r # NoRec /\ ~CreateRefused(c, r) /\ c.val = NULL
          /\ Hold /\ Alloc(t, {"query"})
          /\ Goto(t, "del_remove") /\ UNCHANGED <<ret, old>>
       \/ r # NoRec /\ ~CreateRefused(c, r) /\ c.val # NULL
          /\ Hold
          /\ \/ FromQuery(r) # 0 /\ Fail(t, FromQuery(r)) /\ UNCHANGED old
             \/ FromQuery(r) = 0 /\ r.kind = "stream" /\ Fail(t, ENOMEM) /\ UNCHANGED old
             \/ FromQuery(r) = 0 /\ old' = [old EXCEPT ![t] = DstreamFromQuery(r)]
                /\ Alloc(t, {"query"} \cup IF r.kind = "stream" THEN {"old_dstream"} ELSE {})
                /\ Goto(t, "update") /\ UNCHANGED ret
    /\ UNCHANGED <<liveVars, disk, lockVars, op, ds, res, lfree, lpos>>

\* Where apfs_delete_xattr returns to: apfs_xattr_set is done, while
\* apfs_delete_any_xattr returns -EAGAIN and the loop queries again.
AfterDelete(t) == IF op[t].kind = "deleteall" THEN "da_query" ELSE "finish"

\* Mutant: an inline record is reported deleted but left in place.
BtreeRemoveStreamOnly(t) ==
    cat' = IF q[t].rec.kind = "stream" THEN [cat EXCEPT ![q[t].key] = NoRec] ELSE cat

\* apfs_btree_remove(query)
BtreeRemove(t) == cat' = [cat EXCEPT ![q[t].key] = NoRec]

\* Mutant: apfs_delete_xattr removes the record without decoding it.
DelDecodeSkipped(r) == 0

\* apfs_delete_xattr starts with apfs_xattr_from_query.
DelDecode(r) == FromQuery(r)

\* apfs_delete_xattr: the record is removed through the query; a dstream
\* is truncated only after that, since truncation invalidates the query.
DelRemove(t) ==
    LET r == q[t].rec IN
    /\ pc[t] = "del_remove"
    /\ \/ DelDecode(r) # 0 /\ Fail(t, DelDecode(r)) /\ UNCHANGED <<cat, q, old>>
       \/ DelDecode(r) = 0 /\ r.kind = "stream" /\ Fail(t, ENOMEM) /\ UNCHANGED <<cat, q, old>>
       \/ DelDecode(r) = 0 /\ Fail(t, EIO) /\ UNCHANGED <<cat, q, old>>
       \/ /\ DelDecode(r) = 0
          /\ BtreeRemove(t)
          /\ StaleAll
          /\ IF r.kind = "stream"
             THEN /\ Goto(t, "del_truncate") /\ old' = [old EXCEPT ![t] = r.id]
                  /\ Alloc(t, {"dstream"})
             ELSE Goto(t, AfterDelete(t)) /\ Return(t, DoneFrees(t)) /\ UNCHANGED old
          /\ UNCHANGED ret
    /\ UNCHANGED <<ext, bdata, free, nextObjId, disk, lockVars, op, ds, res, lfree, lpos>>

DelTruncate(t) ==
    /\ pc[t] = "del_truncate"
    /\ \/ Truncate(old[t]) /\ Goto(t, AfterDelete(t)) /\ Return(t, DoneFrees(t))
          /\ UNCHANGED ret
       \/ Fail(t, EIO) /\ UNCHANGED <<ext, free, q>>
    /\ old' = [old EXCEPT ![t] = 0]
    /\ UNCHANGED <<cat, bdata, nextObjId, disk, lockVars, op, ds, res, lfree, lpos>>

\* Mutant: the superseded dstream is forgotten.
AfterUpdateNoTrunc(t) == "finish"

\* if (old_dstream): the superseded dstream is truncated next.
AfterUpdate(t) == IF old[t] # 0 THEN "trunc_old" ELSE "finish"

\* apfs_xattr_set: build the key and the value (the dstream reference or
\* the inline bytes), then insert or replace through the query.
Update(t) ==
    LET c == op[t]
        new == IF ds[t] # 0 THEN StreamRec(ds[t], DsSize(t))
               ELSE InlineRec(IF c.val = NULL THEN EmptyValue ELSE c.val)
    IN
    /\ pc[t] = "update"
    /\ \/ Fail(t, ENOMEM) /\ UNCHANGED <<cat, q>>
       \/ /\ cat' = [cat EXCEPT ![c.key] = new]
          /\ StaleAll
          /\ SetRet(t, 0)
          /\ Goto(t, AfterUpdate(t))
          /\ IF AfterUpdate(t) = "finish" THEN Return(t, DoneFrees(t))
             ELSE Alloc(t, {"raw_key", "raw_val"})
    /\ UNCHANGED <<ext, bdata, free, nextObjId, disk, lockVars, op, ds, old, res, lfree, lpos>>

\* Mutant: the new dstream is truncated in place of the old one.
TruncOldNew(t) ==
    /\ pc[t] = "trunc_old"
    /\ \/ Truncate(ds[t]) /\ Goto(t, "finish") /\ Return(t, DoneFrees(t)) /\ UNCHANGED ret
       \/ Fail(t, EIO) /\ UNCHANGED <<ext, free, q>>
    /\ UNCHANGED <<cat, bdata, nextObjId, disk, lockVars, op, ds, old, res, lfree, lpos>>

\* apfs_xattr_set: the superseded dstream is truncated after the replace.
TruncOld(t) ==
    /\ pc[t] = "trunc_old"
    /\ \/ Truncate(old[t]) /\ Goto(t, "finish") /\ Return(t, DoneFrees(t)) /\ UNCHANGED ret
       \/ Fail(t, EIO) /\ UNCHANGED <<ext, free, q>>
    /\ UNCHANGED <<cat, bdata, nextObjId, disk, lockVars, op, ds, old, res, lfree, lpos>>

\* apfs_delete_any_xattr: query for any xattr of the owner; none left ends
\* the loop of apfs_delete_all_xattrs with 0.
DAQuery(t) ==
    LET o == op[t].owner
        left == {n \in Names : cat[<<o, n>>] # NoRec}
        k == <<o, First(left)>>
    IN
    /\ pc[t] = "da_query"
    /\ \/ \E e \in QueryErrors : Fail(t, e) /\ UNCHANGED q
       \/ left = {} /\ Goto(t, "finish") /\ SetRet(t, 0) /\ UNCHANGED <<q, memVars>>
       \/ left # {} /\ Goto(t, "del_remove") /\ UNCHANGED ret
          /\ q' = [q EXCEPT ![t] = FreshQuery(t, k)] /\ Alloc(t, {"query"})
    /\ UNCHANGED <<liveVars, disk, lockVars, op, ds, old, res, lfree, lpos>>

\* apfs_xattr_osx_set: commit on success; abort on an error or when the
\* commit itself fails.  Either releases nx_big_sem.
Finish(t) ==
    /\ pc[t] = "finish"
    /\ \/ ret[t] = 0 /\ disk' = Live /\ UNCHANGED liveVars
       \/ LiveBecomes(disk) /\ UNCHANGED disk
    /\ writer' = NULL
    /\ Reset(t)
    /\ UNCHANGED <<readers, memVars>>

-----------------------------------------------------------------------------
(* Readers hold nx_big_sem for reading: apfs_xattr_get takes it, and the  *)
(* callers of ____apfs_xattr_get hold it.                                  *)

\* The bytes a read returns (inline and dstream alike): the length only
\* with no buffer, -ERANGE when a whole read does not fit, else the
\* length cut to the buffer.
\* Mutant: the bno == 0 test is missing and a hole reads block 0.
HoleNever(id, n) == FALSE

\* The block loop of apfs_xattr_extents_read meets a hole among the n
\* bytes it reads: apfs_logic_to_phys_bno resolved a block to bno 0.
Hole(id, n) == \E i \in 1..NBlocks(n) : Bno(ext, id, i) = 0

ReadLength(len, c) ==
    IF ~c.buf THEN len
    ELSE IF c.whole /\ len > c.size THEN ERANGE
    ELSE IF len > c.size THEN c.size
    ELSE len

\* apfs_xattr_get turns a length above XATTR_SIZE_MAX into -E2BIG; the
\* callers of ____apfs_xattr_get that allow partial reads do not.
GetReturn(c, n) == IF c.whole /\ n > SizeMax THEN E2BIG ELSE n

\* ____apfs_xattr_get: exact query and apfs_xattr_from_query; an inline
\* value is copied at once, a dstream value is read by the next step.
GetStart(t, c) ==
    LET r == cat[c.key] IN
    /\ pc[t] = "idle"
    /\ ReadLockFree
    /\ readers' = readers \cup {t}
    /\ op' = [op EXCEPT ![t] = c]
    /\ \/ \E e \in QueryErrors : SetRet(t, e) /\ Goto(t, "get_unlock")
          /\ UNCHANGED <<q, res, memVars>>
       \/ r = NoRec /\ SetRet(t, ENODATA) /\ Goto(t, "get_unlock")
          /\ UNCHANGED <<q, res, memVars>>
       \/ r # NoRec /\ FromQuery(r) # 0 /\ SetRet(t, FromQuery(r))
          /\ Goto(t, "get_unlock") /\ UNCHANGED <<q, res, memVars>>
       \/ r.kind = "inline" /\ Goto(t, "get_unlock") /\ UNCHANGED <<q, memVars>>
          /\ SetRet(t, GetReturn(c, ReadLength(r.val.len, c)))
          /\ res' = IF c.buf /\ ReadLength(r.val.len, c) >= 0
                    THEN [res EXCEPT ![t] = Prefix(r.val, ReadLength(r.val.len, c))]
                    ELSE res
       \/ r.kind = "stream" /\ Goto(t, "get_read") /\ UNCHANGED <<ret, res>>
          /\ q' = [q EXCEPT ![t] = FreshQuery(t, c.key)] /\ Alloc(t, {"query"})
    /\ UNCHANGED <<liveVars, disk, writer, ds, old, lfree, lpos>>

\* apfs_xattr_extents_read, then done: of ____apfs_xattr_get.  The dstream
\* info is allocated and the int length checked; the -E2BIG return skips
\* kfree(dstream).  With a buffer, kcalloc of the buffer-head array is not
\* checked: when it fails, the block loop writes through NULL and the task
\* dies in an oops with nx_big_sem held, unless block 0 is a hole and the
\* loop leaves before its first store.  Then every block is resolved (a
\* hole fails -EFSCORRUPTED), read and copied out.
GetRead(t) ==
    LET r == q[t].rec
        length == ExtentsLength(r.size)
        n == ReadLength(length, op[t])
        Done == Goto(t, "get_unlock") /\ Return(t, DoneFrees(t))
    IN
    /\ pc[t] = "get_read"
    /\ \/ SetRet(t, ENOMEM) /\ Done /\ UNCHANGED res
       \/ length = E2BIG /\ SetRet(t, E2BIG) /\ Goto(t, "get_unlock") /\ UNCHANGED res
          /\ kmem < MaxKmem /\ held' = [held EXCEPT ![t] = {}]
          /\ kmem' = kmem + 1 - Cardinality(DoneFrees(t))
       \/ length # E2BIG /\ (n < 0 \/ ~op[t].buf)
          /\ SetRet(t, GetReturn(op[t], n)) /\ Done /\ UNCHANGED res
       \/ length # E2BIG /\ op[t].buf /\ n >= 0 /\ NBlocks(n) > 0 /\ KcallocMayFail
          /\ ~Hole(r.id, BlockSize)
          /\ Goto(t, "oops") /\ Alloc(t, {"dstream"}) /\ UNCHANGED <<ret, res>>
       \/ length # E2BIG /\ op[t].buf /\ n >= 0 /\ Done
          /\ \/ NBlocks(n) > 0 /\ SetRet(t, EIO) /\ UNCHANGED res
             \/ Hole(r.id, n) /\ SetRet(t, EFSCORRUPTED) /\ UNCHANGED res
             \/ ~Hole(r.id, n) /\ SetRet(t, GetReturn(op[t], n))
                /\ res' = [res EXCEPT ![t] = ReadStream(Live, r.id, n)]
    /\ UNCHANGED <<liveVars, disk, lockVars, op, q, ds, old, lfree, lpos>>

\* apfs_xattr_get: up_read and return.
GetUnlock(t) ==
    /\ pc[t] = "get_unlock"
    /\ readers' = readers \ {t}
    /\ Reset(t)
    /\ UNCHANGED <<liveVars, disk, writer, memVars>>

\* apfs_listxattr: down_read and a multiple query for all xattrs of the owner.
ListStart(t, c) ==
    /\ pc[t] = "idle"
    /\ ReadLockFree
    /\ readers' = readers \cup {t}
    /\ op' = [op EXCEPT ![t] = c]
    /\ \/ SetRet(t, ENOMEM) /\ Goto(t, "list_unlock") /\ UNCHANGED <<lfree, memVars>>
       \/ Goto(t, "list_next") /\ lfree' = [lfree EXCEPT ![t] = c.size]
          /\ Alloc(t, {"query"}) /\ UNCHANGED ret
    /\ UNCHANGED <<liveVars, disk, writer, q, ds, old, res, lpos>>

\* Mutant: the room check is off by one.
NoRoomOffByOne(c, need, avail) == c.buf /\ need >= avail

\* The -ERANGE test of apfs_listxattr: a buffer without room for the entry.
NoRoom(c, need, avail) == c.buf /\ need > avail

\* Subtraction of size_t values: wraps modulo 2^bits.
SizeSub(a, b) == (a - b) % SizeMod

\* One turn of the apfs_listxattr loop: the next record in key order, its
\* "osx." name appended if the buffer has room; size_t arithmetic.
ListNext(t) ==
    LET c == op[t]
        later == {n \in Names : cat[<<c.owner, n>>] # NoRec /\ Rank(n) > lpos[t]}
        n == First(later)
        need == NameLen[n] + PrefixLen + 1
        err == FromQuery(cat[<<c.owner, n>>])
    IN
    /\ pc[t] = "list_next"
    /\ \/ SetRet(t, EIO) /\ Goto(t, "list_unlock") /\ UNCHANGED <<lfree, lpos>>
       \/ later = {} /\ Goto(t, "list_unlock") /\ UNCHANGED <<lfree, lpos>>
          /\ SetRet(t, SizeSub(c.size, lfree[t]))
       \/ later # {} /\ err # 0
          /\ SetRet(t, err) /\ Goto(t, "list_unlock") /\ UNCHANGED <<lfree, lpos>>
       \/ later # {} /\ err = 0 /\ NoRoom(c, need, lfree[t])
          /\ SetRet(t, ERANGE) /\ Goto(t, "list_unlock") /\ UNCHANGED <<lfree, lpos>>
       \/ later # {} /\ err = 0 /\ ~NoRoom(c, need, lfree[t])
          /\ lfree' = [lfree EXCEPT ![t] = SizeSub(@, need)]
          /\ lpos' = [lpos EXCEPT ![t] = Rank(n)]
          /\ UNCHANGED <<pc, ret>>
    /\ UNCHANGED <<liveVars, disk, lockVars, op, q, ds, old, res, memVars>>

\* apfs_listxattr: free the query, up_read and return.
ListUnlock(t) ==
    /\ pc[t] = "list_unlock"
    /\ readers' = readers \ {t}
    /\ Reset(t)
    /\ Return(t, DoneFrees(t))
    /\ UNCHANGED <<liveVars, disk, writer>>

\* Power loss: every call in flight is lost and the volume comes back as
\* of the last transaction commit.
Crash ==
    /\ \E t \in Threads : pc[t] # "idle"
    /\ LiveBecomes(disk)
    /\ writer' = NULL /\ readers' = {}
    /\ pc' = [t \in Threads |-> "idle"]
    /\ op' = [t \in Threads |-> NoOp]
    /\ q' = [t \in Threads |-> NoQuery]
    /\ ds' = [t \in Threads |-> 0] /\ old' = [t \in Threads |-> 0]
    /\ ret' = [t \in Threads |-> 0] /\ res' = [t \in Threads |-> EmptyValue]
    /\ lfree' = [t \in Threads |-> 0] /\ lpos' = [t \in Threads |-> 0]
    /\ held' = [t \in Threads |-> {}] /\ kmem' = 0
    /\ UNCHANGED disk

-----------------------------------------------------------------------------

\* The steps of a call already under way.
Step(t) ==
    \/ CreateStart(t) \/ CreateBlock(t) \/ CreateFlush(t)
    \/ Query(t) \/ Update(t) \/ TruncOld(t)
    \/ DAQuery(t) \/ DelRemove(t) \/ DelTruncate(t)
    \/ Finish(t)
    \/ GetRead(t) \/ GetUnlock(t)
    \/ ListNext(t) \/ ListUnlock(t)

\* A thread starting a call.
Call(t) ==
    \/ \E c \in SetCalls : StartSet(t, c)
    \/ \E o \in Owners : StartDeleteAll(t, o)
    \/ \E c \in GetCalls : GetStart(t, c)
    \/ \E c \in ListCalls : ListStart(t, c)

Next == (\E t \in Threads : Call(t) \/ Step(t)) \/ Crash

\* No call blocks once it holds nx_big_sem, and the kernel keeps running a
\* thread that is runnable; nobody has to start a call.
Fairness == \A t \in Threads : WF_vars(Step(t))

Spec == Init /\ [][Next]_vars
FairSpec == Spec /\ Fairness

-----------------------------------------------------------------------------
(* Properties.                                                             *)

PCs == {"idle", "create", "create_blk", "query", "update", "trunc_old",
        "da_query", "del_remove", "del_truncate", "finish",
        "get_read", "get_unlock", "list_next", "list_unlock", "oops"}
AllocSites == {"query", "dstream", "old_dstream", "raw_key", "raw_val"}
Rec == {NoRec} \cup {InlineRec(v) : v \in Value \cup {EmptyValue}}
       \cup {StreamRec(i, n) : i \in ObjIds, n \in Lens} \cup {BadRec(CorruptRaw)}

\* The type of every variable.  A record's size is the length of a value a
\* set can write: the ds_size apfs_create_xattr_dstream accumulates from
\* tocopy is never padded to whole blocks.
TypeOK ==
    /\ cat \in [Keys -> Rec]
    /\ ext \in [0..MaxObjId -> Seq(Blocks \cup {0})]
    /\ bdata \in [Blocks -> {Zero} \cup (Data \X Nat)]
    /\ free \subseteq Blocks
    /\ nextObjId \in 1..MaxObjId + 1
    /\ disk.cat \in [Keys -> Rec] /\ disk.free \subseteq Blocks
    /\ writer \in Threads \cup {NULL} /\ readers \subseteq Threads
    /\ pc \in [Threads -> PCs]
    /\ q \in [Threads -> [key : Keys \cup {NULL}, stale : BOOLEAN, rec : Rec]]
    /\ ds \in [Threads -> 0..MaxObjId] /\ old \in [Threads -> 0..MaxObjId]
    /\ ret \in [Threads -> Int]
    /\ lfree \in [Threads -> 0..SizeMod - 1] /\ lpos \in [Threads -> Nat]
    /\ held \in [Threads -> SUBSET AllocSites] /\ kmem \in Nat

\* Spec invariant 5 and the ordering of spec 4.4 step 6, at every step of
\* every thread: a record the catalog holds never points at a dstream whose
\* blocks were freed, are missing, or hold other bytes.  apfs_xattr_set
\* replaces the record before truncating the old dstream and
\* apfs_delete_xattr removes it before truncating.
NoDanglingStream ==
    \A k \in Keys : cat[k].kind = "stream" =>
        /\ Len(ext[cat[k].id]) = NBlocks(cat[k].size)
        /\ Range(ext[cat[k].id]) \cap free = {}
        /\ ReadStream(Live, cat[k].id, cat[k].size) # Garbage

\* Spec invariant 4: two records never share a dstream id or a block; the
\* id comes from apfs_next_obj_id, bumped by apfs_create_xattr_dstream.
ExclusiveStreams ==
    \A k1, k2 \in Keys :
        (k1 # k2 /\ cat[k1].kind = "stream" /\ cat[k2].kind = "stream") =>
            /\ cat[k1].id # cat[k2].id
            /\ Range(ext[cat[k1].id]) \cap Range(ext[cat[k2].id]) = {}

\* After every commit, each block in use belongs to the dstream of a record
\* on disk: a replaced or deleted dstream is reclaimed, and blocks taken by
\* a set() that fails are given back by the abort.
NoLeakedBlocks ==
    \A b \in Blocks \ disk.free :
        \E k \in Keys : /\ disk.cat[k].kind = "stream"
                        /\ b \in Range(disk.ext[disk.cat[k].id])

\* A catalog mutation through a query (apfs_btree_remove in
\* apfs_delete_xattr, apfs_btree_insert/replace in apfs_xattr_set) only
\* happens while no other mutation has invalidated that query: the
\* "remove before truncate" order and the fresh query of each turn of
\* apfs_delete_all_xattrs.
QueryFreshWhenUsed ==
    [][\A t \in Threads :
         (pc[t] \in {"del_remove", "update"} /\ pc'[t] # pc[t] /\ cat' # cat)
            => ~q[t].stale]_vars

\* What get returns (spec 4.3) is the committed value: the length with no
\* buffer, -ERANGE when a whole read does not fit, else that many of its
\* bytes; -ENODATA when it has none; never another writer's uncommitted
\* value, a freed block or a hole.
GetSeesCommitted ==
    \A t \in Threads :
        (pc[t] = "get_unlock" /\ ret[t] \notin {ENOMEM, EIO}) =>
            LET v == Attrs(disk)[op[t].key]
                c == op[t]
            IN  IF v = NULL THEN ret[t] = ENODATA
                ELSE IF ~c.buf THEN ret[t] = v.len
                ELSE IF c.whole /\ v.len > c.size THEN ret[t] = ERANGE
                ELSE /\ ret[t] = IF v.len < c.size THEN v.len ELSE c.size
                     /\ res[t] = Prefix(v, ret[t])

\* apfs_listxattr returns the sum over the owner's committed attributes of
\* prefix + name + NUL (spec 4.5, 8), with or without a buffer, and fails
\* with -ERANGE exactly when a buffer is smaller than that sum.
ListSizeExact ==
    \A t \in Threads :
        (pc[t] = "list_unlock" /\ ret[t] \notin {ENOMEM, EIO}) =>
            LET c == op[t]
                total == MapThenSumSet(LAMBDA n : NameLen[n] + PrefixLen + 1,
                                       {n \in Names : disk.cat[<<c.owner, n>>] # NoRec})
            IN  ret[t] = IF c.buf /\ total > c.size THEN ERANGE ELSE total

\* The committed attribute map behaves as XattrAbstract: the commit of a
\* set() applies exactly the decision table of spec 4.4 to its own
\* arguments, that of a deleteAll() empties only its owner, and a call
\* that fails or is cut by a crash leaves the map as it was.
Abs == INSTANCE XattrAbstract
           WITH attrs <- Attrs(disk),
                call <- [t \in Threads |->
                           IF op[t].kind \in {"set", "deleteall"} THEN op[t] ELSE NoOp],
                NoCall <- NoOp
AbsSpec == Abs!Spec

\* Every call that started returns: the block loop, the deleteAll loop
\* and the listing loop all end.
CallsReturn == \A t \in Threads : pc[t] # "idle" ~> pc[t] = "idle"

\* Spec 4.2: when apfs_create_xattr_dstream fails it has freed all it
\* allocated, so the stream it was building holds no block.
CreateFailureFreesBlocks ==
    [][\A t \in Threads :
         (pc[t] \in {"create", "create_blk"} /\ pc'[t] = "finish")
            => ds[t] = 0 \/ ext'[ds[t]] = <<>>]_vars

\* Every kernel object the xattr code allocated (queries, dstream infos,
\* raw key and value buffers) and has not freed is still pointed to by a
\* local of a call in flight: no exit path, and no early return, of set,
\* delete, deleteAll, get or list loses one.
NoLostAllocation ==
    kmem = MapThenSumSet(LAMBDA t : Cardinality(held[t]), Threads)
\* Spec 8: a record apfs_xattr_from_query rejects fails Corrupted on every
\* path that meets it.  A get of it returns -EFSCORRUPTED (unless the
\* lookup itself failed), a list of its owner never reports a size, and a
\* deleteAll of its owner never returns success, even after it removed the
\* owner's records that sort first.
\* Spec 4.3 and invariant 5: a get whose buffer reaches a hole of a sparse
\* dstream fails (-EFSCORRUPTED, or an earlier I/O or memory error) and
\* never returns the bytes of block 0 as the value.
CorruptFailsConsistently ==
    \A t \in Threads :
        LET c == op[t]
            Bad(o) == \E n \in Names : disk.cat[<<o, n>>].kind = "bad"
            r == disk.cat[c.key]
            ReadsHole ==
                /\ c.kind = "get" /\ c.buf /\ r.kind = "stream"
                /\ LET n == ReadLength(ExtentsLength(r.size), c) IN
                   n >= 0 /\ \E i \in 1..NBlocks(n) : Bno(disk.ext, r.id, i) = 0
        IN
        /\ (pc[t] = "get_unlock" /\ ReadsHole) => ret[t] \in {EFSCORRUPTED} \cup QueryErrors
        /\ (pc[t] = "get_unlock" /\ disk.cat[c.key].kind = "bad" /\ ret[t] \notin QueryErrors)
              => ret[t] = EFSCORRUPTED
        /\ (pc[t] = "list_unlock" /\ Bad(c.owner)) => ret[t] < 0
        /\ (pc[t] = "finish" /\ c.kind = "deleteall" /\ Bad(c.owner)) => ret[t] # 0

=============================================================================
