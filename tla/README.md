# TLA+ models of the APFS extended-attribute core (`src/xattr.c`)

These modules model the xattr code of linux-apfs-rw: reading, writing, deleting
and listing the extended attributes of an inode. The modules are written from
`src/xattr.c`. Its collaborators live outside `src/` (the catalog B-tree,
the space manager, transactions, `nx_big_sem`), so they are modelled from
`spec.md` and marked `spec_modelled` in `PROJECT.json`.

## 1. The system

### Parts and their state

| Part | Code | State it owns or changes |
|---|---|---|
| Record codec | `apfs_xattr_from_query`, `apfs_dstream_from_xattr`, `apfs_xattr_dstream_from_query`, `apfs_build_*` (23-78, 420-495, 571-590) | none. It converts between on-disk records and `struct apfs_xattr` |
| Dstream manager | `apfs_create_xattr_dstream` (506-562) | `apfs_next_obj_id`, allocated blocks, block contents, extent records |
| Value reader | `____apfs_xattr_get`, `apfs_xattr_inline_read`, `apfs_xattr_extents_read`, `apfs_xattr_get` (94-302) | reads only. Holds `nx_big_sem` for reading |
| Attribute writer | `apfs_xattr_set`, `apfs_xattr_osx_set` (602-733) | catalog records, dstreams. Opens and commits or aborts a transaction |
| Deletion | `apfs_delete_xattr`, `apfs_delete_any_xattr`, `apfs_delete_all_xattrs` (318-410) | catalog records, frees dstream blocks |
| Enumerator | `apfs_listxattr` (747-809) | reads only, under `nx_big_sem` for reading |
| Handler table | `apfs_xattr_osx_handler`, `apfs_xattr_handlers` (735-745) | none (dispatch) |
| Outside `src/` | catalog B-tree, space manager, `apfs_truncate`, transactions, `nx_big_sem` | the catalog, the free-block set, the committed image |

### How they interact

1. A set opens a transaction. This takes `nx_big_sem` for writing.
2. If the value is too big to embed, the set builds a dstream first. That bumps `apfs_next_obj_id` and allocates and writes blocks.
3. It then makes an exact query on the catalog and applies the XATTR_CREATE / XATTR_REPLACE / NULL decision. The result is one of:
   - insert or replace the record;
   - delete the record through `apfs_delete_xattr`;
   - fail.
4. On a replace, it truncates the old dstream after the new record is in place.
5. `apfs_xattr_osx_set` commits on success and aborts otherwise.

Deletion removes the record before truncating. Truncation creates queries of its own, which invalidates the caller's query. `apfs_delete_all_xattrs` runs under a transaction opened by its caller. It repeats "query any name of the owner, delete it" until the query finds nothing, with a fresh query every turn.

Get and list take `nx_big_sem` for reading, so they never overlap a transaction.

### What is hard to test

The `hazards` list in `PROJECT.json` gives each one at its line. In short:
- the order of remove and truncate, and of replace and truncate;
- a query used after the catalog changed under it;
- failures in the middle of the block loop, or after the pre-built dstream;
- a truncate that fails after the index already changed;
- power loss between two steps;
- readers racing a writer;
- the `size_t` wrap of `free` in `apfs_listxattr` and its room check;
- the int/`size_t`/u64 conversions in decoding a record and in the length of a dstream read;
- crafted or corrupt records on disk, and a dstream with a hole;
- a call for one inode reaching another inode's records or blocks;
- early returns that skip a `kfree`, and an allocation whose failure is not checked;
- unique stream ids;
- termination of the delete loop.

## 2. Modules

| Module | What it is |
|---|---|
| `KernelC` | C conversions at model widths: `ToWord` (to `size_t`/u64, modulo 2^`WordBits`), `ToInt` (to int, the low `IntBits` bits as two's complement), and the errno values |
| `XattrRecord` | the on-disk record at byte-length level: encoding (`BuildXattrKey`, `BuildDstreamVal`, `BuildInlineVal`, `SymlinkFlags`, `EncodeXattr`), decoding (`XattrFromQuery`, `DstreamFromXattr`) and the int length of a dstream read (`ExtentsLength`) |
| `XattrCodec`, `MCXattrCodec` | one catalog slot written by a set and decoded by a get, over crafted records |
| `XattrAbstract` | what the core promises |
| `XattrStore`, `MCXattrStore` | the code over a shared catalog, block store, transaction and lock. A record of the image may be malformed (`CorruptKeys`); the store decodes it with `XattrFromQuery`. A dstream of the image may start with a hole (`HoleKeys`) |

### `XattrRecord` and `XattrCodec`: the record codec

A raw record is what the query sees:
- `klen` and `vlen`: `query->key_len` and `query->len`;
- `nlen`: the u16 `name_len` field;
- `name`: the key bytes after the header, as numbers, where 0 is NUL;
- `flags` and `xlen`: the u16 `flags` and `xdata_len` fields;
- `payload`: the inline contents, or the dstream id and size.

`XattrFromQuery` computes the two lengths the way the code does. An int less a `sizeof` is a `size_t`, stored back in an int: `ToInt(ToWord(len - hdr))`. It then takes the early returns in the code's order. Its result carries the returned int as `err`, and the decoded struct when `err` is 0. `ExtentsLength` is lines 109-113: `ToInt(size)`, then the comparison with the u64 size, which converts the int back.

`XattrCodec` has three variables:
- `rec`: the record in the slot. Initially one of `CraftedRecords`, afterwards the last one written.
- `written`: what the last `Write` was called with.
- `out`: what the last `Get` decoded, and the length it would return.

`Write(name, v)` is the encoding path of `apfs_xattr_set`. A value above the embedded limit gets a dstream id. `Get` is `____apfs_xattr_get` without a buffer: decode, then the inline length or `ExtentsLength` of the dstream size.

`MCXattrCodec` crafts about 26,000 records:
- every key length from 9 to 13 bytes (one short of the header up to three name bytes);
- every `name_len` from 0 to 4;
- every name made of NUL and one other byte;
- value lengths 0-6 and 51-53 (around the 52 of a dstream value);
- all eight combinations of the three flag bits;
- `xdata_len` 0, 1, 2 and 48;
- plus a well-formed dstream record for each of the 512 sizes of a 9-bit u64.

### `XattrAbstract`: what the core promises

State:
- `attrs`: (owner, name) to a value, or NULL for an absent attribute.
- `call`: the call each thread has in flight.

Actions:
- `Invoke` starts a `set` or a `deleteAll`.
- `Return` applies its effect in one step (the decision table of spec 4.4), or changes nothing (the call failed).
- `Crash` ends every call in flight, and none of them takes effect.

### `XattrStore`: the code

The variables, with the code they stand for:

| Variable | Code |
|---|---|
| `cat` | catalog xattr records: `NoRec`, `InlineRec(value)`, `StreamRec(id, size)`, or `BadRec(raw)` for a malformed record of the image |
| `ext` | the extent records of each dstream id: the physical block of each logical block, 0 for a hole. Id 0 means "no dstream" |
| `bdata`, `free` | block contents and the free set of the space manager |
| `nextObjId` | `apfs_next_obj_id` |
| `disk` | the five fields above as of the last commit |
| `writer`, `readers` | `nx_big_sem` |
| `pc`, `op` | per thread: the point reached in the call, and the call's arguments |
| `q` | the thread's catalog query. `stale` is set when the catalog changes under it |
| `ds`, `old` | `dstream` and `old_dstream` of `apfs_xattr_set` |
| `ret`, `res` | the return value and the bytes a read copied |
| `lfree`, `lpos` | `free` of `apfs_listxattr` and the cursor position of its scan |
| `held` | per thread: the allocations its locals point to (`query`, `dstream`, `old_dstream`, `raw_key`, `raw_val`) |
| `kmem` | the objects the xattr code has allocated and not freed, at most `MaxKmem` |

A value is `[len, data]`: a length and a model value standing for its bytes. Block `i` of a dstream for value `v` holds `<<v.data, i>>`, so a read that picks the wrong block, a freed block or a reused block gives `Garbage`.

Each action is one stretch of code between two points where another thread or a failure can come in:

| Action | Code |
|---|---|
| `StartSet`, `StartDeleteAll` | transaction start (write lock), 617 |
| `CreateStart`, `CreateBlock`, `CreateFlush` | 506-562: one step per block, every `goto fail` |
| `Tocopy`, `DsSize` | 544-551: the size the dstream record is built from, the sum of `tocopy` over the blocks written |
| `Query` | 617-650, the decision table. Nothing is changed yet |
| `Update` | 652-676: build and insert or replace |
| `TruncOld` | 678-679 |
| `DelRemove`, `DelTruncate` | 318-350 |
| `DAQuery` | 360-390: one turn of the deleteAll loop |
| `Finish` | 723-733: commit on success, abort otherwise. It releases the lock |
| `GetStart`, `GetRead`, `GetUnlock` | 239-302. `ReadLength` is the shared length/ERANGE logic. `GetRead` uses `ExtentsLength` for the int check, returns -E2BIG without freeing the dstream info (line 112), and, when `KcallocMayFail`, goes to `oops` on a failed `kcalloc` of a read that needs blocks (133-151), unless block 0 is a hole and the loop leaves first. `Hole` is the `bno == 0` test (137-144) over `Bno`, which stands for `apfs_logic_to_phys_bno` |
| `ListStart`, `ListNext`, `ListUnlock` | 747-809 |
| `Crash` | power loss: the live state returns to `disk` |

Every allocation failure (`-ENOMEM`) and I/O failure (`-EIO`) the code checks is a disjunct of the action in which it happens. A catalog lookup (`apfs_alloc_query` plus `apfs_btree_query`) may end in any of `QueryErrors`: -ENOMEM, or -EIO for a node that cannot be read; `Query`, `DAQuery` and `GetStart` return it, `ListNext` stops its scan with it.

Allocations:
- `Alloc` records an allocation that outlives its step. It is enabled only while `kmem` stays within `MaxKmem`; otherwise only the -ENOMEM disjunct remains.
- `Return` is a function returning: the thread's `held` empties, and `kmem` drops by what the exit path frees (`DoneFrees`).
- `DoneFrees` is what the thread holds and its exit labels name. Each label's `kfree`s are a set of their own: `SetDoneFrees` (681-686), `CreateFailFrees`, `DeleteFailFrees`, `AnyOutFrees`, `ReadOutFrees`, `GetDoneFrees` and `ListFailFrees`. `ExitFrees` joins the labels that a call of each kind unwinds through. Anything held that no label names is lost when the locals go out of scope.
- The -E2BIG path frees the query but not the dstream info it allocated in the same step.
- Allocations that are made and freed within one step are not counted.

Small helpers mark the points where the code is most likely to be wrong. The mutants replace these:
- `BumpObjId`;
- `Tocopy`;
- `CreateRefused`;
- `BtreeRemove`;
- `AfterUpdate`;
- `FreshQuery`;
- `ReadLockFree`;
- `NoRoom`;
- `SetDoneFrees`;
- `DelDecode`;
- `Hole`.

`XattrRecord` has mutants too: `XattrFromQuery`, `SymlinkFlags` and `ExtentsLength`.

`Abs` instantiates `XattrAbstract` with this mapping:
- `attrs` is the attribute map of the committed image, `Attrs(disk)`. The dstream values are read back through extents and blocks.
- Each thread's in-flight set or deleteAll is its `op`.

### `MCXattrStore`

This module defines the model values (threads, owners, names, contents) and the call sets for TLC:
- `VfsSetCalls`: the calls the VFS can make. A NULL value comes only with XATTR_REPLACE.
- `AnySetCalls`: these also allow a NULL value without XATTR_REPLACE.
- `MCGetCalls`: no buffer; or a 2-byte buffer with whole reads and with partial reads.
- `MCListCalls`: no buffer; or buffers of 6 and 13 bytes.
- `MCCorruptKeys`, `MCCorruptRaw`: `<<o1, n2>>` holds a record whose name lacks its NUL.
- `MCHoleKeys`: `<<o1, n1>>` holds a 3-byte dstream (id 1) whose extents are `<<0, 1>>`: logical block 0 is a hole.
- `Symmetry`: symmetry over the thread and content model values. Both are interchangeable in every action.

## 3. Runs

| Run | cfg | Checks | Result |
|---|---|---|---|
| safety | `MCXattrStore.cfg` | `TypeOK`, `NoDanglingStream`, `ExclusiveStreams`, `NoLeakedBlocks`, `GetSeesCommitted`, `ListSizeExact`, `NoLostAllocation`, action property `QueryFreshWhenUsed` | pass, about 467k states |
| refinement | `MCXattrStoreRefine.cfg` | `AbsSpec` | pass, about 285k states |
| liveness | `MCXattrStoreLive.cfg` | `CallsReturn` under `FairSpec` | pass, about 708k states |
| null_set_creates | `MCXattrNullSet.cfg` | `AbsSpec` with `AnySetCalls` | violation (finding 1) |
| create_failure_keeps_blocks | `MCXattrCreateFail.cfg` | `CreateFailureFreesBlocks` | violation (finding 2) |
| corrupt_records | `MCXattrStoreCorrupt.cfg` | `CorruptFailsConsistently` | pass, about 25k states |
| codec | `MCXattrCodec.cfg` | `DecodeMatchesSpec`, `RoundTrip`, `LengthCheckExact` | pass, about 52k states |
| codec_strict_spec | `MCXattrCodecStrict.cfg` | `DecodeRejectsSpecCorrupt` | violation (finding 3) |
| get_e2big_leaks | `MCXattrGetLeak.cfg` | `NoLostAllocation` | violation (finding 4) |
| kcalloc_oops_hangs | `MCXattrKcallocOops.cfg` | `CallsReturn` with `KcallocMayFail` | violation (finding 5) |

What the properties say:
- **NoDanglingStream**: at every step of every thread (and so in every committed image), every stream record has all its blocks. None of them is free, and reading them gives the value. Truncating the wrong stream, or truncating before removing, breaks it.
- **TypeOK** (store): besides the types, every stream record's size is the length of some value a set can write. A copy loop that counts the last partial block as a whole block (`min` dropped at line 545) pads the size and breaks it. The refinement breaks under that mutant too, since a get would then return the padding.
- **ExclusiveStreams**: no two records share a dstream id or a block.
- **NoLeakedBlocks**: in the committed image, every used block belongs to a stream record. An old dstream that is never truncated breaks it.
- **QueryFreshWhenUsed**: a step that changes the catalog through a query never uses a query made stale by an earlier mutation.
- **GetSeesCommitted**: when a get returns without ENOMEM or EIO, its result is what spec 4.3 says for the committed value.
- **ListSizeExact**: list returns the exact sum of prefix + name + NUL over the committed names. It returns -ERANGE exactly when a given buffer is smaller than that sum.
- **AbsSpec**: see the refinement mapping above.
- **CallsReturn**: every call that starts returns.
- **NoLostAllocation**: `kmem` equals the number of allocations the threads' locals still point to. So every exit label's `kfree` list covers what its function allocated before the exit. A done: label of `apfs_xattr_set` without `kfree(old_dstream)` breaks it. In the safety run no exit leaks, since every length fits an int. The one exit that does leak (-E2BIG at line 112) is the violation run get_e2big_leaks.
- **DecodeMatchesSpec**: `apfs_xattr_from_query` rejects exactly the records spec 4.1 calls Corrupted (`Valid41`, stated on the record fields). From the others it returns the name without its NUL, the payload length and the variant.
- **RoundTrip**: a get of what a set wrote returns the name, the variant, and the inline bytes or the dstream id and size, for the symlink name too.
- **LengthCheckExact**: the length of a dstream read is its size when an int holds it, and -E2BIG otherwise. This holds for every size of the word, including those that turn negative or wrap in an int.
- **CorruptFailsConsistently** (spec 8): the image holds a record of `<<o1, n2>>` whose name lacks its NUL. A get of it returns -EFSCORRUPTED, unless the lookup failed first. A list of the owner never reports a size. A deleteAll of the owner never reports success, even though it removes `n1` (first in key order) before it meets the bad record. A delete that skips the decode breaks it. The image also holds a dstream for `<<o1, n1>>` whose first block is a hole: a get with a buffer that reaches it returns -EFSCORRUPTED (or an earlier -EIO or -ENOMEM), never block 0's bytes as the value. A loop without the `bno == 0` test breaks it. A get without a buffer still returns the length, since that path reads no block.

### Findings

1. **A NULL set without XATTR_REPLACE creates an attribute.**
   - Code: `src/xattr.c:637`. On a missing name, `apfs_xattr_set` falls through to insert an empty inline record.
   - Spec: "value=null ⇒ delete", so the call should change nothing.
   - Reach: the VFS always passes XATTR_REPLACE for removexattr, so only in-kernel callers can get here.
   - Trace: `StartSet(val NULL, flags {})`, `Query`, `Update`, `Finish`.
2. **A failed dstream build keeps its blocks.**
   - Code: `src/xattr.c:559`. `apfs_create_xattr_dstream` returns on failure with its blocks still allocated and the id counter bumped.
   - Spec 4.2: a failure frees everything.
   - Impact: the transaction abort undoes it, and `NoLeakedBlocks` holds in the safety run. The disagreement is with the contract of the function itself.

3. **Decode accepts records spec 3 forbids.**
   - Code: `src/xattr.c:32`. Only `namelen < 1` is rejected, so a key holding just the NUL decodes to an empty name (`name_len` 0). The flags are only tested for the stream bit, so a value with neither variant flag, or with both, decodes.
   - Spec: invariants 1 and 3 of section 3, and section 8, say names are non-empty and a value is exactly one of inline or stream.
   - Trace: the initial state is a 1-byte key `<<0>>` with an empty value and flags 0. `Get` accepts it.
4. **A -E2BIG read leaks the dstream info.**
   - Code: `src/xattr.c:112`. `apfs_xattr_extents_read` returns without `goto out` right after the `kzalloc` at 104.
   - Spec: section 7 treats TooLarge as an ordinary error. Section 9 asks for a deterministic TooLarge.
   - Trace: set a 4-byte value with `IntBits` 3, commit, then get it.
   - Impact: every read of an oversized value leaks one `apfs_dstream_info`.
5. **An unchecked kcalloc hangs the volume.**
   - Code: `src/xattr.c:133`. When `kcalloc` fails, the loop stores to `bhs[i]` through NULL. The task dies holding `nx_big_sem` for reading.
   - Spec: section 7 says allocation failures are ResourceExhausted. Section 5 says an operation runs to completion or failure.
   - Effect: the get never returns, and every later transaction waits forever.

### Bounds and why they are enough

The safety and refinement constants:

| Constant | Value | Why |
|---|---|---|
| threads | 2 | a writer against a reader, or two writers queued on the lock |
| names | 2 (refinement: 1 name, 2 owners) | two records of one owner are enough for the deleteAll loop and the list scan |
| lengths | 1 and 2 (inline) and 3 (two blocks of 2, a dstream); the other store runs 1 and 3 | the embedded limit is 2, so 2 is the boundary of the size test |
| blocks | 4 | room for two live dstreams, or an old one plus a new one during a replace. With first-fit allocation, a freed block is reused at once, so the reuse cases appear |
| `MaxObjId` | 3 | |
| `WordBits`, `IntBits` | 4 and 3: `size_t` is 16 wide, `INT_MAX` is 3 | list without a buffer wraps `free` below zero. Every length (at most 3) fits in an int, so no -E2BIG in the safety runs |
| `MaxKmem` | 10 | above the 2 × 5 objects two calls can hold, so memory never runs out in the safety runs; allocation failures are still the -ENOMEM disjuncts |
| `KcallocMayFail` | TRUE in the safety run, FALSE in the others | the oops step is reached in the safety run; the liveness run checks the code with a kcalloc that succeeds |
| `PrefixLen` | 4 | "osx." |
| list buffers | 6 and 13 | 6 is enough for one entry but not two. 13 is exactly two entries, which catches an off-by-one in either direction |

The liveness run has one thread: a call holding `nx_big_sem` never waits on another thread. It uses lengths 1, 3 and 4 with `SizeMax` 2 (XATTR_SIZE_MAX) and `IntBits` 3 (INT_MAX 3), so both -E2BIG returns of a get happen. Each -E2BIG leaks one object, so `MaxKmem` is 5: once memory is full, allocations fail with -ENOMEM. The leak and kcalloc runs use the same constants.

The codec run uses `IntBits` 8 and `WordBits` 9:
- every record length (at most 63) and -EFSCORRUPTED (-117) fit in an int;
- the 512 sizes of a dstream include ones that fit, ones that turn negative in an int (128-255), and ones that wrap to a positive int (256-511).

The block allocator is first-fit (`Min(free)`) rather than any free block. Any choice gave the same behaviours up to the block names, with 40 times the states.

### Fairness

`FairSpec` adds weak fairness for `Step(t)`, the steps of a call under way, for each thread. This is justified because:
- a call that holds the lock never blocks;
- the kernel keeps scheduling a runnable thread.

Starting a call is not fair: nobody has to call. `Crash` is not fair either.

## 4. Not modelled, and the plan

Not modelled, and why:
- **Records the decoder accepts against the spec (finding 3) in the store.** A malformed record that fails decoding is modelled (`CorruptKeys`), and so is a dstream with a hole (`HoleKeys`). An empty name, which decodes, is shown in the codec run only: in the store, list would report it as the 5-byte entry "osx." and deleteAll would remove it, and nothing in `src/` decides whether a get can name it (the VFS resolves the prefix), so a store run would only restate finding 3.
- **Transient allocations.** Allocations made and freed within one step are not counted: a query that finds nothing, the raw key and value of a set that ends in the same step, the buffer-head array of a successful read.
- **The handler table.** It is dispatch only.
- **A failing `apfs_transaction_start` (718-719).** The osx handler returns its error before `apfs_xattr_set` runs. The transaction code is outside `src/`; this failure changes no state of this file, and a returning call's locals are reset, so in the model it would be a stuttering step. `StartSet` models the successful start.
- **Where the data goes (line 617).** Values above the embedded limit go to a dstream and the rest inline; `NeedsDstream` keeps the code's `>`. Both forms read back the same value, so no property tells the threshold apart (it is an on-disk format question, spec invariant 3).
- **Catalog node layout.** The B-tree is a map plus key order, and any mutation invalidates every held query.

- **A third thread.** With three threads the safety run takes about four minutes (2.1M states) and shows nothing two do not: `nx_big_sem` admits one writer alone or only readers, and readers change no shared state, so a third thread adds only another reader beside the others.

Still open: `ListNext` returns `size - free` as a `size_t` at `WordBits` without the conversion to `ssize_t`. At the safety width the exact-fit 13 would be negative as a 4-bit `ssize_t`, so the model keeps the unsigned value that a full-width `ssize_t` holds.
