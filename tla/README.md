# A TLA+ verification project for ext2fs

The repository is a macOS kernel extension for ext2/3/4 volumes (a port of
FreeBSD's ext2fs, `src/kext`, `src/include/fs/ext2fs`), the userland programs that
make, check and mount such volumes (`src/fs`), and tools (`src/tools`). This
project models the kernel extension's own logic, fsck_ext2fs and newfs_ext2fs, checks
the models with TLC on small instances, and proves the most important properties with
TLAPS for every value of the constants.

`PROJECT.json` lists the components, the runs, which definition stands for which
lines of the source, and the hazards the properties are aimed at.

## 1. Inventory

| Component | Source | State | Operations | Hard because |
|---|---|---|---|---|
| Block and inode allocator | `kext/ext2_alloc.c` | group bitmaps (buffers), descriptor counters, superblock totals, directory counts | `ext2_alloc`, `ext2_valloc`, `ext2_hashalloc`, `ext2_alloccg`, `ext2_nodealloccg`, `ext2_blkfree`, `ext2_vfree` | two locks; the mutex is dropped to read a bitmap, so every check is stale when used; errors half way |
| Bit search | same file | none (a bitmap in hand) | scan for 8 blocks, `ext2_mapsearch`, inode search | bit numbering, sign of `char`, byte boundaries |
| In-core inodes | `kext/ext2_ihash.c`, `ext2_vfsops.c`, `ext2_inode.c` | hash chains, `struct inode`, vnodes | `ext2_ihashget/ins/rem`, `ext2_vget_typed`, `ext2_inactive`, `ext2_reclaim` | no lock from miss to insertion; vnodes recycled under a walk; numbers reused before the old inode is gone |
| Mount, sync, unmount | `kext/ext2_vfsops.c` | superblock and descriptors in core, `fmod`, `wasvalid`, the clean flag on disk | `ext2_mountfs`, `ext2_sync`, `ext2_cgupdate`, `ext2_sbupdate`, `ext2_unmount` | write order and crashes; I/O errors; `fmod` read without the mutex |
| Journal replay | `kext/ext2_vfsops.c` | journal blocks, sequence number | `ext2_journal_replay` | circular log, partial transactions |
| Superblock checks | `kext/ext2_vfsops.c` | none | `ext2_check_sb_compat`, `compute_sb_data` | feature bits, arithmetic |
| Directories | `kext/ext2_lookup.c` | directory blocks; `i_offset`, `i_count`, `i_endoff`, `i_diroff` of the directory's inode | lookup, `ext2_readdir`, `ext2_direnter`, `ext2_dirremove`, `ext2_dirrewrite`, `ext2_dirempty`, `ext2_checkpath` | result of a lookup kept in the inode for a later call |
| Vnode operations | `kext/ext2_vnops.c` | link counts | create, mknod, symlink, link, remove, rename, mkdir, rmdir, fsync, setattr ... | several inodes changed one after another, failures in between, write order |
| Block map | `kext/ext2_balloc.c`, `ext2_bmap.c`, `ext2_inode.c` | direct and indirect pointers | `ext2_balloc`, `ext2_bmaparray`, `ext2_getlbns`, `ext2_blockmap`, `ext2_truncate`, `ext2_indirtrunc` | two writers of one hole, undo of half an allocation, crash order of truncate |
| Extent trees | `kext/ext2_extents.c` | extent nodes in inode and blocks | find, insert, grow, split, remove | tree shape, order of keys |
| Read and write | `kext/ext2_readwrite.c` | file size, cluster I/O | `ext2_read`, `ext2_write` | size before or after data, undo on error |
| fsck_ext2fs | `fs/fsck_ext2fs` | block map, inode states, link counts, the list of directories | passes 1 to 5, `setup`, `ckfini` | a repair can undo what an earlier pass relied on; interrupts; any damage is an input |
| newfs_ext2fs | `fs/newfs_ext2fs` | the layout of a new volume | `mke2fs` | geometry arithmetic that two other programs repeat; what was on the device before |
| mount_ext2fs, ext2fs.util | `fs/` | none | option parsing, probing | - |
| extfsmgr | `tools/extfsmgr` | set of media | Disk Arbitration callbacks | callbacks and calls under one lock |
| e2undel | `tools/e2undel` | - | third-party undelete tool | - |

How the parts interact. The vnode operations look up a name (directories), get an
in-core inode (inode hash), and change its blocks (block map), which come from and
go back to the allocator; what the allocator changes in core - descriptors, totals
and `fmod` - reaches the disk only through `ext2_sync` and `ext2_unmount`, while
bitmaps and inodes are delayed writes of the kernel's buffer cache. An inode number
is freed by `ext2_inactive` of the vnode layer and may be given out by the allocator
at once. fsck and the kernel extension talk through two bits of the superblock,
`E2FS_ISCLEAN` and `E2FS_ERRORS`.

What makes each part correct: a block or inode has one owner and the counters agree
with the bitmaps (allocator); a number has one in-core inode, which is the one a
caller gets (inode hash); a volume that says it is clean is consistent, whenever the
machine stops (mount); every name refers to an allocated inode whose link count is
the number of its names (directories, vnode operations); every block is in at most
one file and at one place in it (block map, extents); fsck leaves a consistent
volume, and changes nothing in one (fsck).

## 2. Plan

1. **Done.** Allocator (`SlotPool`, `Ext2Alloc`) with the bit search (`AllocSearch`);
   inode hash (`Ext2Ihash`); mount life cycle (`Ext2Mount`); directory blocks, name
   lookup and listing (`Ext2Dir`); proofs of the allocator and of the bit search.
2. **Done.** `Ext2Vnops`: the calls that change the name space, on directories that are
   maps from names to inodes (what `Ext2Dir` shows them to be).
3. **Done.** `Ext2File`: the block map of a file with indirect blocks, written and
   truncated; blocks come from a pool (what `Ext2Alloc` shows the allocator to be).
4. **Done.** `Ext2Fsck`, setup and passes 1 to 5 on a damaged volume, and `Ext2Newfs`, a
   new volume as the two other programs read it.
5. **Done.** Proofs about `Ext2Mount`, `Ext2Ihash` and `Ext2Vnops`, and what was left of
   the allocator and the bit search.
6. **Done.** Proofs that go through recursive functions: the tree of directories
   (`Ext2TreeProofs`) and the blocks of a file (`Ext2FileProofs`), with the induction they need
   (`BoundedInduction`).
7. Left to prove: of `Ext2Dir`, that the records tile their blocks and a call changes the name
   it was made for; of `Ext2Fsck` and `Ext2Newfs`, what can be said for all geometries.

Not planned any more are the extent trees and the journal (section 7 says why).

The components meet in these places: `Ext2Alloc` refines `SlotPool`, and `Ext2File` and
`Ext2Vnops` take blocks and inodes from such a pool; `Ext2Vnops` assumes of a lookup what
`Ext2Dir` checks; `Ext2Mount` has fsck as one step, of which `Ext2Fsck` has the detail;
`Ext2Newfs` ends with the geometry and bitmaps from which `Ext2Alloc` and `AllocSearch` start.

## 3. Modules

| Module | What it is |
|---|---|
| `SlotPool` | abstract: each slot is free, held or lent, and moves one step at a time |
| `Ext2Alloc` | the allocator, run by any number of threads |
| `AllocSearch` | one search of one bitmap, a loop turn per step |
| `Ext2Ihash` | in-core inodes, their hash and the vnode layer |
| `Ext2Mount` | a volume's life: mount, changes, sync, unmount, crash, fsck |
| `Ext2Dir` | the blocks of one directory, name lookup, listing, and the calls that change an entry |
| `Ext2Vnops` | names, link counts and inodes: the calls that change the name space, step by step |
| `Ext2File` | the blocks of one file: write, extend, truncate, in memory and on disk |
| `Ext2Fsck` | fsck_ext2fs on a damaged volume |
| `Ext2Newfs` | newfs_ext2fs, and what fsck and the kernel extension read out of its volume |
| `Ext2AllocProofs`, `AllocSearchProofs`, `Ext2IhashProofs`, `Ext2MountProofs`, `Ext2VnopsProofs`, `Ext2FileProofs` | theorems about the module of that name |
| `Ext2TreeProofs` | the directories of `Ext2Vnops` are a tree |
| `BoundedInduction` | induction up to a bound, and functions defined by it, for the proofs |
| `MC*` and `*.cfg` | instances for TLC |

### Ext2Alloc

Blocks and inodes follow the same protocol, so a bitmap is a *cell* `<<kind, group>>`
and a bit of it a *slot*. `mtx` is `EXT2_LOCK`, `holder[c]` the thread that
`buf_meta_bread()` gave the bitmap's buffer to, `bits`, `nfree`, `total`, `ndirs`,
`totaldir` what the code keeps under them. A thread's `pc` names the stretch of code
between two lock operations:

* allocation: `Alloc`/`Valloc` (checks of totals, reserve, start of
  `ext2_hashalloc`), `Probe` (a group's counter under the mutex, `Bread` next), `Bread`
  (the buffer, or a read error), `Recheck` (the counter again, without the mutex),
  `Search` (set a bit, or panic), `AccountAlloc` (counters, with both locks),
  `AllocDone`; `Relock` and `SearchOn` go on to the next group, in the order of the
  preferred group, the quadratic rehash and the brute-force loop; `VallocVget` is the
  rest of `ext2_valloc`, whose failure frees the inode again;
* freeing: `Free`, `FreeBread` (a read error leaks the slot: `leaked`), `FreeClear`,
  `AccountFree`, `FreeDone`.

Which bit a search picks is left open here (`AllocSearch` is about it); which preferred group `ext2_dirpref` or
`ext2_blkpref` computes too (any group).

### AllocSearch

A byte of the bitmap is the set of its one bits, so `ext2_fls` and `ffs` are what
their C text computes. `Alloccg` is the preferred block, `ScanByte`/`ScanRetry` the
scan for eight blocks, `Mapsearch`, `Memcchr`, `MemcchrAgain` the byte search,
`Nodealloccg` the entry of the inode search. `dtogd()` is applied twice to the goal,
as in the code.

### Ext2Ihash

`hashed` is the set of inodes in the chains; a `struct inode` is indexed by its
vnode. `Walk` and `Getwithvid` are the two halves of `ext2_ihashget`, with the hash
mutex dropped in between; `Read`, `Create` and `Ihashins` the rest of
`ext2_vget_typed`; `Inactive`, `Vfree`, `Update`, `Recycle` are `ext2_inactive`;
`Ihashrem` and `Reclaim` are `ext2_reclaim`. The inode of a device (`Devices`) is not written by
`ext2_inactive` but left for `ext2_reclaim` (`IN_LAZYMOD`); either write may fail at the read
of the inode's block, and is then forgotten. The vnode layer (`Put`, `Evict`, vnode
identifiers) belongs to the kernel and is modelled from what the calls rely on. A
lookup may name any inode number, because `ext2_fhtovp` takes any.

### Ext2Mount

The number of blocks of a group in use is kept four times: bitmap, descriptor,
superblock and inodes; `d*` is on disk, `b*` in the buffer cache, `fs` and `ip` in
core. `Mount`/`MountMark`, `Sync`, `Unmount`, `Vnode`, `SyncFmod`, `CgSb`, `CgGd`,
`CgGdEnd`, `UnmountCg`, `UnmountMark`, `UnmountFlush` are the stretches of the VFS
operations between two writes; `AllocBegin`/`FreeBegin`, `Bit`, `Account`, `Bdwrite`
are a thread that changes a file; `BufWrite` is the kernel writing a delayed buffer at
any time; `Crash` and `Panic` leave the disk as it is; `Fsck` is what fsck_ext2fs makes
of a volume. Abstracted: which blocks (only their number), the journal, and a write of
`buf_bawrite()` ends at once, although it may fail.

### Ext2Dir

`dir` is the directory unit by unit, where a unit is what the shortest entry takes (the
model's stand-in for multiples of four bytes); an entry has inode, record length and
name. `i_offset`, `i_count`, `i_endoff` and `i_diroff` are the fields of the inode in which
a lookup leaves its result. A call has two steps after `Begin`: `Lookup`, the whole of
`ext2_lookup_ino` (`StartSearch`, the turns `SlotBlock`, `Slot`, `Advance`, the second pass,
and `Found`, `NotFound` or `Dirbad`), and the change - `EnterNewBlock` or `EnterSlot` with
its `Compaction` for `ext2_direnter`, `Dirremove`, `Dirrewrite`. Only the operation
`"move"`, a rename within the directory, makes two lookups and two changes. Reads and
writes may fail; `torn` is the set of blocks whose very first write did. Abstracted: the
steps inside a lookup, file types, asynchronous writes, the directory's own removal, and
what the rename does to inodes. Which lookups the kernel makes before a call is external.
`Readdir(start, room)` is what `ext2_readdir` copies out in one call; `ListExact`, a part of
`SearchExact`, follows it from call to call with buffers of half a block and of a block.

### Ext2Vnops

A directory is `ent[d]`, a map from names to inodes, and `dotdot[d]`; both are what is on
the disk, since a directory block is written at once on every mount that is not
`MNT_ASYNC`. An inode is in `core` and, older, on `disk`; `used` are the allocated ones. One
call runs at a time; `call.pc` is the place between two writes. `Makeinode`,
`MakeinodeInit`, `Enter`, `Bad` and then `Create`, `Mknod` or `Symlink` are
`ext2_makeinode` and its three callers; `MkdirInit`, `MkdirParent`, `MkdirFill` with `Enter`
are `ext2_mkdir`; `Link`, `Remove` and `Rmdir` the calls of these names; `Rename` and the
`Rename*` steps are `ext2_rename` in its order: raise the link count (`Rename`),
`RenameCheckpath`, `RenameTarget` with `RenameEnter`, or `RenameRefuse` and `RenameRewrite`,
then `RenameOldparent`, `RenameDotdot`, `RenameUnlink`, and `RenameBad` for every error.
`Inactive` and `Fsync` (with `Flush`, the write that `ext2_sync` makes as well) may come between any two steps. Each read or write may
fail. `ext2_rename` ends by removing an entry (`RenameUnlink`), and what `ext2_dirremove` removes is
where the last lookup in that directory was. Between two directories that is the old name;
within one it is the place of the new name (finding 1), so that the old name, the new one, any
other or none may go (`Removals`). `stray` records that a name was left without its inode, or a
directory with two: an entry was written and then reported as failed (`ext2_lookup.c:933`: the
directory's tail could not be cut off), or a rename removed an entry that is not one of its
file. After it the tree is not followed further. Where the rename removed one of
the file's two names (`Moved`, `Undone`), or failed and left both to a file, it is. `mknod` and `symlink` leave the name behind when they fail after
`ext2_makeinode`; so does the model. Abstracted: contents, owners, times; a call refused before
it changes anything does not begin. Left out: `ext2_rename` gives back two vnodes that the
VFS owns, although its own comment (859) says that nothing is released there.

### Ext2File

`i_db`, `i_ib`, `i_size`, `i_blocks` are the inode's; `ind[b]` is an indirect block in the
buffer cache, `dinode` and `dind` are what is on disk, `free` the blocks left. `Count`, `Base`,
`Levels`, `InOff` are `ext2_getlbns`; `Bmaparray` and `Blockmap` read a place, and `Run` counts how
many blocks follow it, in the one array of pointers that it is in (the count backwards is
never asked for: `ext2_blockmap` passes no place for it); `Balloc` is `ext2_balloc` with its undo of what it had allocated
(a mutex that is given back twice on two error paths, `ext2_balloc.c:329` and 340, is the
state "panic"); `WriteSize`, `WriteCluster`, `MetaWrite` are what `ext2_write` and
`ext2_meta_write` do to size and blocks; `Lengthen` and `Shorten` are `ext2_truncate`, with
`ext2_indirtrunc`, a step for each write or free. In that step any of the indirect blocks on the
way may be unreadable (`bad`; all below it stays, and is lost), and any that is kept
unwritable (`lost`): the code notes the error and frees the blocks, to which there are
pointers on the disk and, since the buffer of a failed write is not kept, soon in memory. Such a file is in
the state "torn" (`Torn`), where the model stops. `FlushInode` and `FlushBuf` write inode and
indirect blocks at any time. `exposed` records that the inode was written while
`ext2_truncate` had put old pointers back into it (`ext2_inode.c:249`). Abstracted: data, mounts
with `MNT_ASYNC`, delayed writes of an indirect block that fail,
which free block is chosen (the first), preferred blocks. One thread: with two, both find no
block at the same hole, and one of the two they allocate is lost.

### Ext2Fsck

`disk` is the volume: inodes with mode, link count, size, one block and block count; what
each block holds if it is read as a directory; bitmaps, counters, the clean flag, the boot
block. `Damage` changes one field of it. `w` is the volume in fsck's buffers with
the tables of a run (`statemap`, `lncntp`, `blockmap`, duplicates, `inpsort`, `lfdir`), and `pc`
with `at` is the place in the passes, one inode or directory per step. The operators have the
names of the functions: `Setup`, `Checkinode`, `Pass1bcheck`, `Dotcheck`, `Dotdotcheck`,
`Entrycheck`, `Parentcheck`, `Propagate` with its `Walk`, `Linkup`, `Adjust`, `Clri`, `Freeino`,
`Pass4check`, `Summary` (pass 5), `Ckfini`. `Fatal` ends a run with `-p` and answers yes with `-y`; `WarnIf` is `pwarn`,
which repairs in both. A run may be interrupted between two steps, and another one
begins on what it left. Two ends of the program that are not exits are kept: "crash" (a hash modulo
`numdirs = 0`) and "hang" (a walk that would not end). With `-p` the superblock goes to sector 0
(`setup.c:357` keeps the block number of another unit), which is why the boot block is
part of the state. Not modelled: `-n` and single answers, file types in entries,
indirect blocks, directories of several blocks (`expanddir` never succeeds in any case).

### Ext2Newfs

`opt` are the options, `g` the geometry that `mke2fs` works out (`Layout`), `gd` and `sb` the
counters in core; `Zap` wipes older superblocks, `Initcg` writes a group, `Resizeino`,
`Lostfound`, `Root` and `Super` are the rest; `Fail` is the exit over a volume that is
half written, `Trap` the division by `e2fs_ipg`, which newfs never sets in core (x86_64 traps;
on arm64 the quotient is 0 and the program goes on). The sizes of the code - 1024 bytes of boot block, 32 of a
descriptor, 4 of a block number - are constants, scaled down together, so that a group is
64 blocks and a volume of a few hundred sectors has several. Readers of the volume are
operators (numbers of 16 and 32 bits wrap at `U16Max` and `U32Max`, scaled as well, where the code
computes in such: the room for reserved descriptors in `Reserved`, the places to wipe in
`Zapped`): `Readsb`, `Calcsb`, and pass 1 and 5 (`Blockmap`, `Bbmap`, `Ibmap`, `Summary`) of
fsck, `Sbdata` (`compute_sb_data`), `Compatible` (sizes, revision, first inode and feature bits) and `Fblocks` of the kernel extension.

## 4. Runs

| Run | Result | What it shows |
|---|---|---|
| `alloc` | pass | Two threads in the allocator: no slot handed out twice (`NoDoubleAlloc`), bitmaps and counters exact (`BitmapExact`, `CountsExact`, `TotalsExact`), no panic (`NoPanic`), ENOSPC only after every group was asked (`TriedAll`), refinement of `SlotPool` (`ImplementsPool`), every call returns (`CallsReturn`) |
| `search` | pass | The bit chosen is clear and in the group (`ResultClear`), eight blocks are eight (`RunClear`), a panic means a full bitmap (`PanicOnlyIfFull`) |
| `ihash` | pass | Every in-core inode can be found and no freed one is in the hash (`HashExact`); the caller gets the inode asked for (`RightVnode`) |
| `ihash_live` | pass | A vnode is recycled under the walks of `ext2_vget` any number of times; once that ends, every call returns (`VgetReturns`) |
| `mount` | pass | The clean flag is a promise kept but for five named windows (`CleanMeansConsistent`), and `ext2_sync` forgets no counter (`FmodCovers`) |
| `dir` | pass | One thread: records tile their blocks and a name is there once (`WellFormed`), a search and a listing are exact wherever they start (`SearchExact`), a call changes the name it was made for (`RightName`), and no panic is reached but on a torn block (`NoPanic`) |
| `dir_move` | violation | Finding 1 |
| `vnops` | pass | Up to the removal of a wrong entry (finding 1, `stray`): link counts are the names, after a failure at least the names (`LinkCounts`); directories stay a tree, with the `..` that belongs there (`Tree`); the disk never names a free inode (`DiskNamesInode`); a rename leaves its file a name at every step, whatever it removes (`RenameKeepsName`); the panics of `ext2_rename` are not reached, but for one (`NoPanic`) |
| `file` | pass | A block has one place and is not free while it has it (`Owned`), on disk too (`DiskOwned`); a run that is counted in one array leads where the paths of its blocks do, to blocks that are not free and within the file (`RunExact`); a truncation takes what lies behind the new end, and nothing else changes a place (`KeptMapping`); all but for a truncation that could not write an indirect block (`Torn`) |
| `fsck` | pass | `propagate`'s walk ends (`WalkEnds`); a run that completes leaves bitmaps and owners right (`BlocksRepaired`); fsck is silent exactly on a consistent volume (`QuietIffConsistent`); any one damage is repaired by three runs (`OneDamageRepaired`); `-p` loses no file that can be reached (`PreenKeepsFiles`) |
| `fsck_orphans` | violation | Finding 2 |
| `newfs` | pass | fsck agrees with a new volume but for the blocks of the resize inode (`FsckQuiet`); the kernel extension reads the same geometry, with counters its allocator can rely on (`KextAgrees`); in the first 4 GiB no older superblock is left where fsck would find it first (`OldGone`) |

Bounds, and why they are enough:

* `alloc`: 2 threads, because every conflict here is between a thread that looked and
  one that came in between; 3 groups, the smallest number for which preferred group,
  quadratic rehash and brute-force loop all run; two free blocks in group 0 and one
  free inode in group 2, so that both threads get something, are refused, and have to
  move on. `MaxLeaks = 1` read error while freeing. The proofs have no bounds.
* `search`: bitmaps of 3 bytes (a run of eight touches two, and one must lie on either
  side of the byte started from), eight byte patterns with free bits low, high, at both
  ends, in the middle and nowhere; goals at both sides of each boundary and outside
  the group; `FirstDblock = 1`, for which applying `dtogd()` twice matters.
* `ihash`: 2 threads, 2 numbers, 2 vnodes of which one is used a second time, the least
  for which a walk can find a vnode that is another inode's when it is referenced.
  Devices are left to `ihash_live`: one vnode, recycled without end: after two identifiers
  they start again, as the 32-bit ones of the kernel do in the end, so that a thread may also meet
  an identifier that has come back. Every inode is a device there, the kind
  that `ext2_reclaim` has to write. The proofs have any set of devices.
* `mount`: 2 groups (one descriptor write can cover up the error of another), 1 block
  each, 1 I/O error, 1 crash, 2 changes: a change before and one during `ext2_sync`.
* `dir`: blocks of 5 units, of which 3 are left in the first, and names of 1, 1, 2 and 3:
  the directory grows to two blocks and is cut back, an entry fits into a gap, into
  several gaps of one block only after compaction (behind an entry in use, and behind an
  unused first entry), or not at all; with three names the second kind of compaction
  never happens. Two inodes (a rewrite is seen), 1 fault. One thread: with two, the first
  race breaks everything (section 6). The `VIEW` leaves out the remains of removed entries
  and, outside of a call, the result of the last lookup: neither is read again.
* `vnops`: the root and 3 more inodes, so that a directory can be moved into one that lies
  two levels down, which `ext2_checkpath` has to refuse, and there is a third to be
  replaced; 2 names; `LinkMax = 4`, which a directory reaches with 2 children; 1 fault.
  The three inodes are symmetric: no step tells them apart.
* `file`: 1 direct pointer, a single and a double indirect one of 2 entries each, files up to
  6 blocks, so that each level begins and ends inside a file and both
  indirect blocks of the second level are used; 5 blocks, fewer than data and indirect
  blocks of such a file, so that the disk runs full in the middle of a write; ends of
  files in the middle and at the edge of a block; 3 calls, 1 fault, writes of up to 2 blocks.
* `fsck`: 6 inodes, 8 blocks, 3 entries to a directory. Two trees: one with lost+found,
  directories two deep and a file of two names, one without lost+found. Every damage of
  one field, followed by three runs of which one may be interrupted, and every pair
  of damages, followed by one run.
* `newfs`: every size from 15 to 330 sectors and around the steps at 511 and 1000 (the
  scaled `SMALL` and `MEDIUM`), three block sizes, both inode sizes, both revisions: one group to
  several, the last one complete, too small and dropped, or just large enough; sizes around
  2048 and 2180 sectors, on both sides of 2^32 bytes (8192 here) and beyond the place that would
  come after it; and 8320 sectors in blocks of the smallest size, where there are more descriptors
  than the target of the reservation.

Deadlock is checked everywhere but in `search`, `fsck` and `newfs`, which end when they are
done, and in the `dir` runs, where a panic stops the machine; in `vnops` and `file` the
state after a panic, and that of a torn file, is the action `Stopped`.

Fairness. `alloc` assumes strong fairness of a thread inside a call: the mutex
(`lck_mtx`) and busy buffers are sleep locks that wake their waiters, so a thread for
which the lock is free again and again gets it. `ihash_live` assumes only that a thread
in `ext2_vget` keeps running (weak fairness) and that the kernel goes on with the
teardown of a vnode it has begun, up to its removal from the hash. Nothing is assumed about new
calls, evictions or vnodes being put. `VgetReturns` has a condition instead: vnodes are
recycled finitely often. Without it the property is false, as TLC shows: each time a
thread has found the vnode, the kernel may have begun to tear it down again, and
`ext2_ihashget` starts over (`ext2_ihash.c:160`) without a bound. What the
property says is that nothing else keeps it there: no vnode stays in the hash that is torn down
for good, and no thread waits for another that waits for it. The other runs check safety only.

Histories: `tried` (groups asked), `leaked` (slots that a failed free left set), `torn`
(blocks of a directory whose first write failed), `lost` (how `Ext2Mount` came to a
damaged volume that is not marked so) and `exposed` (`Ext2File`) are not program state, and
nothing the program does depends on them. `stray` of `Ext2Vnops` is one too, but the model stops
at it: the tree has an entry for an inode that is about to be freed, an inode that counts a
link it has no entry for, or a directory with two entries, and what later
calls do with it is not followed. So does `Ext2File` at the place "torn", which is a place in
`ext2_truncate` that the program goes on from.

`lost` deserves a word, as `CleanMeansConsistent` is stated relative to it. The ways in
which the code can leave a volume marked clean and inconsistent are: `mark`, the write
that clears the clean flag at mount fails unnoticed; `inode`, `ext2_update` cleared
`IN_MODIFIED` and then failed; `desc`, the error of a descriptor's write was overwritten
by a later one's success; `flush`, a delayed write failed in `buf_invalidateblks`;
`window`, a crash between the write of the clean flag and the end of
`buf_invalidateblks` (`ext2_unmount` sets the flag before it writes what is dirty).
The run shows that these are all there are.

The exceptions that other properties name are of the same kind, each the exact extent of
something the code does: `FsckQuiet` leaves out the blocks of the resize inode
(`checkinode()` skips reserved inodes, `pass1.c:130`, and pass 1 does not mark reserved
descriptor blocks either, so that on a volume of `newfs -O 1` pass 5 takes them as
free, with `-p` too); `KextAgrees` states the inode counter where the inodes of a group fill
bytes; `OldGone` leaves out what lies beyond 2^32 bytes (`Beyond`), in the last, incomplete block of a
larger size or behind a dropped last group; the properties of `Ext2File` leave out what follows
a failed write of an indirect block in `ext2_truncate`, and those of `Ext2Vnops`, but for
`RenameKeepsName`, what follows the removal of a wrong entry, both of which break them:
freed blocks that a file leads to, names of freed inodes, a directory of two names whose
second removal ends in a panic ("linked directory"); `NoPanic` of `Ext2Vnops` leaves out the move of a directory
into the root of a volume without `FTYPE`, which always panics.

## 5. Proofs

`Ext2AllocProofs`, for any number of threads, groups, blocks and inodes (assumptions
`ThreadsAssumption`, `GeometryAssumption`, `ReservedAssumption` of `Ext2Alloc`):

* `TypeCorrect`: the type invariant is inductive.
* `LocksHeld`: a thread holds a lock exactly where its `pc` says so.
* `SearchComplete` (`TriedAll`): the invariant `SearchInv` says, for each of the three
  loops, which groups have been asked when its counter is `i`; the brute-force loop
  starts at two groups past the first and relies on the quadratic one for the second.
* `AllocatorInvariant`: `IInv`, the conjunction of the locks, `NoDoubleAlloc`,
  `BitmapExact`, `CountsExact`, `NoPanic` and `HandInv` (what a thread knows of the
  bitmap it holds: with a counter above zero there is a clear bit). None is inductive
  alone: a panic is excluded by the counter, the counter is exact because the buffer is
  held, and a freed bit was set because its slot was in use. `NeverTwice`,
  `BitmapsExact`, `GroupCountsExact` and `NeverPanics` follow.
* `TotalsAreExact` (`TotalsExact`): the superblock's counters, updated after the group's
  buffer was let go, differ from the free slots by exactly the threads on their way from
  the one to the other. No sum is needed: a step moves one slot and one thread, and the
  cardinalities of the sets they leave and enter change by one.
* `PoolRefinement`: every step is a step of `SlotPool` or a stuttering step.

`AllocSearchProofs`, for every bitmap, goal and geometry (`SearchAssumption`, of which
`Ipg % 8 = 0` is not checked by the kernel extension, and not kept by newfs with 256-byte
inodes in 1 KB blocks):
`HandsOutClear`, `RunsAreFree` and `PanicsOnFull`, from one inductive invariant that
says what part of the bitmap is known to be in use at each loop turn and that the
current run is one. `SearchTypes`: no loop leaves the bitmap.

`Ext2IhashProofs`, for any number of threads, inode numbers and vnodes, however often a
vnode is used again. `IhashInvariant`: `IInv` is inductive. `RightVnode` alone is not,
because between the walk of the hash and `vnode_getwithvid` a thread has a pointer that
nothing protects; `VidInv` says what protects it: an identifier never comes back, so if the
vnode still has the one that the thread noted, it has not been reclaimed and carries the
inode of the walk. `HashedInCore` and `LiveHashed` say from both sides who is in the hash: no
vnode that has been taken apart, and every live one but for the one its maker is about to
enter. `VgetIsRight` and `HashIsExact` follow.

`Ext2MountProofs`, for any number of groups and any bounds on blocks, changes, I/O errors
and crashes:

* `MountTypes`: the type invariant.
* `SyncCovers` (`FmodCovers`), from `FmodInv`: `ext2_cgupdate` has written the superblock and
  the descriptors below its counter as they are, or a change came in between and set the
  flag again.
* `CleanIsConsistent` (`CleanMeansConsistent`), from `CleanInv`. `Agree` is its core: on a
  volume that was good when it was mounted, counters, bitmap and inode of a group
  differ by what the change under way has done to one and not to the other yet, and by
  the time `ext2_unmount` marks the volume clean there is none under way and no inode left to
  write. `Good` carries that over the flush to the disk, `RwInv` says that the flag is off
  the disk in between, `RoInv` and `Quiet` that a clean volume mounted read-only stays
  as it is.

`Ext2VnopsProofs`, for any number of inodes and names, any link limit above two
(`VnopsAssumption`) and any number of failed writes. `VnopsInvariant`: `IInv` is
inductive. A link count is wrong in the middle of almost every call, so the invariant
keeps an account: at every step `nlink = Refs + Owed + Slack`, where `Owed` is what the running call has counted and not
entered yet, or entered and not counted, and `Slack` is zero as long as no write has
failed and never negative. Every step is then one lemma about how it moves the three. `Home` and
`Once` say where a directory's entry is, with the one exception of a rename between the
entry in the new directory and the removal of the old; `RenameInv` carries what `ext2_rename`
looked up before it to the step that relies on it; `DiskInv` and `Written` say that an inode is
on disk before its name is. The tree's part is stated where `stray` is false, as the model
stops there (section 4): each theorem but the last holds up to a failed `ext2_direnter` that had written
its entry, or a rename within one directory that removed a wrong one. From it:

* `LinksCounted` (`LinkCounts`), `NamesOnDisk` (`DiskNamesInode`),
  `PanicOnlyWithoutFtype` (`NoPanic`).
* `OneParent`: between calls a directory that has a name has exactly one, in the directory that
  its `..` names: the part of `Tree` that speaks of one step up. `Ext2TreeProofs` has the rest.
* `AlwaysNamed` (`RenameKeepsName`): an action property, from the invariant and
  each step of `ext2_rename`. It is about the wrong removals too: whichever entry goes, the file had
  two by then.

`BoundedInduction`: what a recursive function computes has to be proved by induction, and the
library's induction takes an operator as its parameter, which the provers here cannot
instantiate. `InductTo` states it of a set instead (a set with 0 in it that goes on from each
number below n to the next has all up to n), from the least element of a set of natural
numbers; `Iterates` and `StepsExist` then show that a function defined step by step up to a bound
exists, so that its CHOOSE meets its equation.

`Ext2TreeProofs`, for any number of inodes and names. `Above(d)`, through which `ext2_checkpath`
walks, is shown to be the least set with `d` in it that `..` does not lead out of
(`AboveFacts`); from there on the argument is about sets. `UpInvariant`: `UpInv` is
inductive. `Loopless` is its core: directories that `..` does not lead out of have the root
among them. A rename could close a loop between the check and the writing of the
new `..`, with syncs and inactive inodes in between; `Apart` carries the answer of
`ext2_checkpath` over these steps. `DirectoriesAreATree` (`Tree`) follows.

`Ext2FileProofs`, for any number of blocks, direct and indirect pointers, levels and calls,
and any number of failed reads and writes (`FileAssumption`; `CapacityAssumption`: the bound on a
file is not above what its pointers can reach, beyond which `ext2_getlbns` returns EFBIG), and
for one thread: the hypothesis `Threads = {t}` of its theorems. With two the properties are
false (section 3). `Pointers` is shown to be the least set that has the inode's pointers in
it and what is in the blocks they lead to (`PointersFacts`), and `ext2_indirtrunc` to cut
exactly below the block it is given, at each level at the right offset or altogether, and not
below a block that it could not read (`CutFacts`).
`FileInvariant`: `FileInv` is inductive. None of the properties is:

* `FileInv` is stated as long as the file is not torn: the theorems hold up to a truncation
  that could not write an indirect block it keeps.
* `Held` are the pointers the file has in truth. `ext2_truncate` clears them in memory,
  writes the inode, puts them back and frees what is behind the end, so `Owned` fails half way
  if it is read as a statement about the inode's fields; `Held` is what they
  were or will be again.
* `MemOk`: no block of `Held` is free or at two places, and without a fault the blocks that are
  not free are those of `Held`, and `i_blocks` counts them and the ones released in this call.
* `CallOk`: what each step knows, for instance that the place a new block is put into is empty,
  and that the indirect block in hand is the file's, at the level where the walk is.
* `IndOk` and the clause about `dinode`: inode and indirect blocks on disk are older, and have
  either the pointer that memory has or none; in the window of `ext2_truncate` only what stays
  (`LongDb`, `LongIb`).

`FileOwnsItsBlocks` (`Owned`) and `DiskOwnsItsBlocks` (`DiskOwned`) follow. `PlacesAreKept` (`KeptMapping`), an action property, needs more:

* `ext2_bmaparray` is a walk down one path (`PathFacts`), whose pointers are pointers of the
  file (`PathHeld`); so a block keeps its place when a new one is put in elsewhere (`MapGrown`).
* `ext2_getlbns` takes the offsets of that path as the digits of the block number
  (`RemFacts`, from `Digits`), and `ext2_indirtrunc` those of the last block that is kept. The
  visits of `ext2_indirtrunc` are shown to be a set of a block, the last that is kept below it and
  a level (`VisitFacts`). By induction down a path, a block before the end meets no cut
  (`KeptPath`, `KeptCut`): where its digits are those of the end so far, the rest of its number
  is not above the rest of the end (`DivMono`). Where they are above, the path meets
  one (`GoneCut`).
* `DoneInv` adds to the invariant what `ext2_truncate` has done so far: the indirect
  pointers it has gone through are 0, and when it is done without a fault nothing behind the end
  has a place. That it may stop at the first level with something to keep is `EndFacts`: the blocks
  of the levels below are all before the end.

Each inductive invariant was model-checked on the instance of its run before it was
proved (`Ext2Ihash`: 6,393,280 states, `Ext2Mount`: 5,604,550, `Ext2Vnops` with `UpInv`:
1,348,485, `Ext2File` with `DoneInv`: 187,757).

Only model-checked: liveness (`CallsReturn`, `VgetReturns`), which is out of the prover's
reach; `RunExact`, whose loop has a recursion of its own; and `Ext2Dir`, `Ext2Fsck` and `Ext2Newfs`. The loops of `Ext2Dir` carry records of ten fields through a
recursive function, and what compaction does to a block would have to be said for
each of its turns; `Ext2Fsck` starts from any damage, so that its invariants are about walks
that may not end; the properties of `Ext2Newfs` hold for the sizes of the code and not for all
geometries (16-bit counters, powers of 3, 5 and 7).

## 6. Findings

With a run that shows them:

1. `dir_move`: `ext2_rename` used to look the source up again before it removed it; the
   port dropped that lookup, but `ext2_dirremove` works on what the last lookup left in the
   directory's inode. Within one directory that is the lookup of the new name: the entry
   just made, or a neighbour, is removed, and the old name stays. A neighbour keeps a link
   count without a name; if the removal takes none, or a name of another file, the file renamed has two names
   and one link, and is freed when one of them goes; a directory can be brought to the
   panic "linked directory" from there.
2. `fsck_orphans`: `propagate()` begins at the root each time and goes down only to a first
   child that is `DSTATE` (`dir.c:89`); the root's is `DFOUND` since pass 2, so nothing below
   a directory that pass 3 has put into lost+found is marked, and pass 4 clears it. The
   manual (`fsck_ext2fs.8:224`) says that orphans are reconnected.

Met while modelling; the models have these steps, and the properties are stated so that
they hold all the same:

* `ext2_alloc.c:540`: the scan for eight contiguous blocks stops at byte
  `howmany(fpg, NBBY) - start` instead of the end of the bitmap, and forgets a run that
  crosses the byte it started from; it then takes a single block.
* `ext2_vfsops.c:1036`: nothing is locked between the miss in the hash and the insertion,
  although `ext2_ihash.c:142` relies on it; two in-core inodes of one number can come of it.
* `ext2_vfsops.c:1039`: the type asked for is ignored when the number is still in the
  hash; `ext2_vfree` runs before the old inode leaves it, so that a new file can get the
  vnode, and the vnode type, of the removed one.
* `utilities.c:260`: the kernel extension refuses a volume with `E2FS_ERRORS` and says to run
  fsck (`ext2_vfsops.c:190`), but `ckfini` leaves the state alone if `E2FS_ISCLEAN` is set too.
* `ext2_lookup.c:548`: no lock is taken there, although a comment counts on one; with two
  threads, a lookup replaces what the other has found.
* `ext2_inode.c:525`: `ext2_inactive` frees an unlinked inode on a read-only mount too.
* `ext2_inode.c:468`: `ext2_indirtrunc` clears pointers in an indirect block, to "zero those entries
  corresponding to blocks to be free'd, and update on disk copy first" (430), but if that write
  fails it frees the blocks all the same, which the block on the disk then still leads to.
* `ext2_ihash.c:160`: `ext2_ihashget` starts over each time the vnode it found is being torn
  down, without a bound or a wait.
* `ext2_balloc.c:84`: two threads that write the same hole allocate two blocks, one of which
  is lost.
* `ext2_rename` without `FTYPE` (what `newfs -O 0` makes): it takes the type field of the
  entry `..` for its name's length; moving a directory into the root panics ("mangled
  dir"), moving it elsewhere ends in ENOTDIR.
* newfs: with 256-byte inodes in 1 KB blocks the last inodes of a group are counted as
  free and marked as used (`mke2fs.c:733`); a volume of a single group that is too small
  divides by zero (336), as does `ino_to_cg` since `e2fs_ipg` is never set; more inodes
  per group than a bitmap has bits give `memset` a negative length (739); values that are
  adjusted are not checked again (346); the place of an older superblock is a product of 32 bits
  (583), so that beyond 4 GiB none is wiped and a place near the start is instead; with `-O 1` and
  1 KB blocks, above 64 GiB, the number of blocks to reserve for descriptors goes below zero
  (467), all the room of the last group is taken, and the program ends in an error at the
  resize inode (1184), with the volume half written; `-i` divides sectors by bytes (`newfs_ext2fs.c:368`).
* fsck: `calcsb` takes blocks to be 1 KB, so that of other volumes no alternate superblock
  is found; `allocdir` does not look whether `allocino` failed; `expanddir` never succeeds.

## 7. Not modelled

* Extent trees (`ext2_extents.c`). Growing and cutting them cannot be run as written:
  `ext4_ext_new_block` and `ext2_ext_balloc` (`ext2_balloc.c:86`) give back a mutex that
  `ext2_alloc` has given back, which panics; `ext4_ext_drop_refs` counts a `uint16_t` down
  for as long as it is `>= 0`; insertion into an empty leaf dereferences NULL. What is left is the
  search, which does not ask whether the extent it finds covers the block: a hole reads
  as the blocks behind the extent, although `ext2_readwrite.c:220` says that "A hole comes
  back from blockmap as a -1 block number".
* Journal replay (`ext2_journal_replay`): it reads block numbers of the journal as block
  numbers of the device, takes start and length from the superblock's copy of the journal
  inode, and looks for the logged blocks among buffers that it has not read yet. It copies
  nothing back of a journal that another system wrote, so there is no promise to check.
* `ext2_clusteralloc` and the cluster summary, which nothing uses; `ext2_inode_cnv.c` but
  for mode and links (copies field by field); the kernel's cluster I/O; setattr, access,
  pathconf and special files, which change nothing that a property is about; name cache
  and file handles; start and stop of the kernel extension.
* Option parsing and probing in userland (`mount_ext2fs`, `ext2fs.util`), the Disk
  Arbitration front end (`extfsmgr`), and e2undel (third-party).
* fsck and newfs: what sections Ext2Fsck and Ext2Newfs name.
