# TLA+ models of partclone-utils

partclone-utils serves a partclone, ntfsclone or raw image as a Linux network
block device.  `imagemount` opens the image, connects `/dev/nbdX` and answers
the kernel's read and write requests in one thread; what is written goes to a
copy-on-write *change file* next to the image.  The image itself is never
written.  This directory models the parts of it whose correctness depends on
the order of several steps: what reaches the change file and in which order,
which of two places a block is read from, and how the server, its children and
its signal handlers come to an end.

## 1. Inventory

| Part | Source | State | Operations | What makes it correct |
|---|---|---|---|---|
| change file | `changefile.c`, `changefileint.h` | file: header, block map, appended slots (data, trailer); handle: block count, map, used count, dirty flag, position | init, verify, create, seek, readblock, writeblock, sync, finish | the map leads to complete slots of the right block; nothing that was flushed is lost; a failed call damages one block at most |
| system calls | `sysdep_posix.c` | none | open, close, seek, read, write, malloc, free, file_size | an error or a short transfer never looks like a success |
| partclone images | `libpartclone.c` | flags, bitmap, counts per 1024 blocks, current block, number of stored blocks before it | open, verify (versions 1 and 2), seek, readblocks, writeblocks, sync, close | a block is the change if there is one, else the stored block, else zeros |
| raw images | `librawimage.c` | flags, current block | the same | the same, without a bitmap |
| ntfsclone images | `libntfsclone.c` | flags, bitmap and first atom per 1024 clusters, current bucket and its free clusters, current block | the same, tolerant mode | the same, with an index of atoms that is built by reading the image; damage is refused |
| image type dispatch | `libimage.c` | type and library handle | probes the types, forwards calls | an image is served by the library of its own type, after it was verified |
| server | `imagemount.c` | timetoleave, someonedied, whodied, svc_toreap, handlers, children, socket | open, verify, connect, mount, request loop, signal handlers, umount, disconnect, exit; per request: buffer, priming reads, payload, reply | it ends when told to, closes the image, and serves its umount; it is a block device to the kernel |
| checksum | `libchecksum.c` | none | CRC | detects mixtures of two writes |
| tools | `partclone_imageinfo.c`, `ntfsclone_imageinfo.c`, `cfdump.c`, `cfchanges.c` | none | print | - |

Interactions: the server calls `image_open`, `image_verify`, `image_seek`,
`image_readblocks`, `image_writeblocks` and `image_close`; these call the
library of the image type, and that calls `changefile.c`, which calls the
dispatch table of `sysdep_posix.c`.  All of that is one thread.  Concurrent with
it are the kernel's side of the device, the child that sits in `NBD_DO_IT`, the
children that call `mount` and `umount` (and so send requests to their parent),
and the signals.

What is hard here: the process can be killed between any two system calls; any
call can fail and a transfer can be short; sessions follow each other on one
change file; a request of several blocks takes its blocks from two files; three
kinds of children are told apart by one flag and one one-shot handler; a read
can be about to sleep when the signal comes; a write of parts of blocks reads,
receives and writes in turn, and each of these can fail halfway.
`PROJECT.json` lists these hazards line by line.

## 2. Modules

| Module | Models | Extends |
|---|---|---|
| `ChangeFile` | `changefile.c` on `sysdep_posix.c`, one step per system call that changes the file | - |
| `Overlay` | what a change file promises: an abstract specification | - |
| `ChangeFileHistory` | `ChangeFile` and what acknowledged writes are owed | `ChangeFile` |
| `ChangeFileProofs` | proofs about the change file, its history, that it implements `Overlay`, and about the sessions of `RawImage` | `ChangeFileHistory`, `RawImage` |
| `Buckets` | buckets of `2^v1_bitmap_factor` blocks, `2^v10_bucket_factor` clusters | - |
| `BlockIndex` | `precalculate_sumcount`, `v1_seek`, `rblock2offset` and the version 2 bitmap, with reference definitions | `Buckets` |
| `IndexProofs` | what the operators of `BlockIndex` and `AtomIndex` compute | `BlockIndex`, `AtomIndex` |
| `ImageIndex` | seeking and reading in a partclone image without a change file | `BlockIndex` |
| `ImageIndexProofs` | proofs about `ImageIndex` | `ImageIndex`, `IndexProofs` |
| `Partclone` | sessions of `libpartclone.c` with a change file | `ChangeFile`, `BlockIndex` |
| `PartcloneProofs` | proofs about `Partclone` | `Partclone`, `IndexProofs` |
| `RawImage` | sessions of `librawimage.c` with a change file | `ChangeFile` |
| `AtomIndex` | the index of an ntfsclone image: `v10_verify`, `v10_seek`, `seek2cluster`, with reference definitions | `Buckets` |
| `NtfsIndex` | seeking and reading in an ntfsclone image without a change file | `AtomIndex` |
| `NtfsIndexProofs` | proofs about `NtfsIndex` | `NtfsIndex`, `IndexProofs` |
| `NtfsClone` | sessions of `libntfsclone.c` with a change file | `ChangeFile`, `AtomIndex` |
| `NtfsCloneProofs` | proofs about `NtfsClone` | `NtfsClone`, `IndexProofs` |
| `Libimage` | `libimage.c`: which type an image is opened as, and whether it verifies | - |
| `NbdService` | the life of the `imagemount` process, from `image_open` to `image_close` | `Libimage` |
| `NbdServiceProofs` | proofs about `NbdService` | `NbdService` |
| `NbdRequest` | the path of one request after another through `nbd_service_requests` | - |
| `BlockDevice` | what a server promises to the kernel: an abstract specification | - |
| `NbdRequestProofs` | proofs about `NbdRequest`, and that it implements `BlockDevice` | `NbdRequest` |
| `MC...` | constants for the runs | the module they are named after |

**ChangeFile.**  `hdr`, `dused`, `dmap`, `slots` are the file; `st`, `cnt`,
`map`, `used`, `dirty`, `cur` are the handle (`cf_context_t`).  The actions have
the names of the functions; a function that makes several system calls continues
in `cf_create_header`, `cf_create_map`, `cf_create_open`, `write_data`,
`write_trailer` and `SyncMap`, with `pc` saying where it is.  Each of these steps
succeeds, fails, or is short; `ShortRet` says what a short transfer returns,
since `posix_read` and `posix_write` return `errno`, which a short transfer does
not set.  `Crash` can happen anywhere.  A handle that `cf_verify` rejected is kept
apart by what it lacks (`nohdr`, `nodev`, `unread`), because `librawimage.c` syncs
such handles (`cf_sync_unverified`; it is a step of `RawImage` and not of
`ChangeFile!Next`, whose clients sync verified handles only).  `cf_seek` accepts the
entry behind the map, and `cf_readblock` and `cf_writeblock` do not test the position:
with it they come to `pc` = "overrun".  To stay off it is the callers' part:
`ChangeFile!Next` has it as the condition `InMap`, and for the libraries it is the
property `RequestsStayInMap`.
Abstracted: contents are model values, and the CRC is the content; offsets are
slot numbers; the kernel survives, so a write that returned stays.

**Overlay.**  Contents as the handle sees them (`vol`), contents that a new
process would see (`dur`), and the write in progress (`busy`).  `ChangeFile`
implements it under the mapping at its end: `vol` is what the handle's map leads
to, `dur` what the file's map leads to.

**BlockIndex and ImageIndex.**  `v1_bitmap_factor` is a constant, so that bucket
boundaries occur in small images.  `WrittenAt` and `Preceding` are the
references: the layout as partclone writes it block after block, and the number
of blocks before one.  The entry of `v1_sumcount` that is never assigned has the
value `Garbage`.  A bitmap byte may be 0, 1 or anything else; `sought` remembers the
last seek, so that `Plain` can say where the bytes matter that `== 1` and `!= 0` tell
apart.

**Partclone and RawImage.**  `at` says where the library is while `changefile.c`
runs; the actions of `ChangeFile` are conjoined with the library's own
assignments.  A session is opened read-only or read-write, verified (or rejected),
used and closed; it may be killed at any step, and the next session starts on
what is in the file.  Contents read from the image are `<<"base", b>>`, so that a
block read from the wrong place is seen.  In `Partclone`, `given` says whether a
change file was named.  `RawImage` always has a named one: without it
`librawimage.c` makes up a name from memory it did not initialise.

**AtomIndex, NtfsIndex, NtfsClone.**  An image is a sequence of atoms: a used
cluster, a run of empty ones, or damage; a file offset is the number of an atom.
`ScanAtom` is a turn of the loop of `v10_verify`, `ScanEnd` what happens when the
file ends before the last cluster, `WalkTo` the loop of `seek2cluster`.
`UsedClusters` and `ClusterOf` are the references: which clusters are used, and
where an atom's clusters begin.  `IndexIsRight` compares an index with them, and
`Covers` says that the atoms are those of an image of so many clusters.  Two
places are undefined in the code and have both outcomes: the bit of the trailing cluster when it lies
behind the bitmap (`StrayBits`), and the `errno` of a read at the end of the file
(`ShortErrno`).  `NtfsIndex` runs over all images of a size with every sequence of
seeks and reads; `NtfsClone` has the sessions, in the manner of `Partclone`, on a
few images.  `nr` is `nr_clusters` of the header, which `v10_verify` increments;
`ClustersForInit` is what `v10_init` passes to `cf_init`.  `Tolerant` is `-T` or a named
change file, since the two flags have one bit.  The bits of the header and the byte order of its fields are left out.

**Libimage and NbdService.**  `Libimage` tells files apart by what the probes and
the verification tell apart; a probe may also fail by itself.  In `NbdService`,
`spc` is the program counter of the server; `ttl`, `died`, `who`, `toreap` are
`timetoleave`, `someonedied`, `whodied`, `svc_toreap`; `armed` and `diedp` are the
one-shot `SIGCHLD` handler and what it counts in.  `enter_read` and `read_request`
are separate steps: a signal in between does not interrupt the read.  A request is
represented by who waits for the answer, which is what makes a child depend on
the server.  A request may have a payload that is yet to come (`read_payload`), and
`sync` says whether what is next in the socket is a header: a failed priming read or a
signal in a payload makes it false, and `read_lost` is what the server then reads.
`Interrupt` is what a signal does to the system call that the server is in: a read
returns, a payload is shifted, a reply may be given up, `wait` returns.  `img` is forgotten once the image is served, because nothing after
that depends on it here.

**NbdRequest and BlockDevice.**  The socket is a stream of headers and payload
bytes, of which `avail` are there to be read; the image is an array of bytes that
is read and written in blocks.  Every byte of the device and of a payload has a
name of its own (`Old(o)`, `New(o)`), so that a byte in the wrong place is seen.
`rembp`, `remlen`, `readbuf`, `error` are the variables of the code, and each
`read` of the payload, priming read, image write, reply header (`send_reply`) and reply
data (`send_data`) is a step.  `cut_reply` is a signal during one of the last two: what
was not written by then is not written any more, or the whole of it is given up; `whole`
in `reply` says that nothing is missing.
`BlockDevice` is the promise: `NbdRequest` implements it with `disk`, `req` and
`reply` for its device, request in progress and answer.  `NbdRequest` and
`NbdService` share the loop of `nbd_service_requests`: the first has what happens
within a request, the second what happens around it.

## 3. Runs

| Run | Result | Shows |
|---|---|---|
| `changefile` | passes | Map, slots, handle and used count stay consistent, entries of the file's map are permanent, the change file implements `Overlay`, a file whose creation was cut short gets no block, and what `cf_writeblock` stored and acknowledged reads back, in later sessions too if it was flushed: through failed and short transfers, crashes and new sessions |
| `image_index` | passes | For every bitmap of up to six blocks, with bytes 0, 1 and 2, both formats and three checksum layouts, every seek and run of reads counts the preceding stored blocks and finds each one where partclone wrote it, with the exception below |
| `partclone` | passes | The first block after a seek is right, and still that block when the change file fails; a session has one handle for its writes, and only writes touch the change file |
| `raw_image` | passes | Every block of every request reported as read is right, a session has one handle for its writes, nothing but writes and a rejected handle touches the file, and no request comes to the entry behind its map |
| `ntfs_index` | passes | For every ntfsclone image of up to six clusters and a trailing one, whole or with a run of damage, both versions, strict and tolerant: an index that was built in strict mode is right and that of an undamaged image, and so are the reads of every bucket that was entered at or behind its first used cluster |
| `ntfsclone` | passes | Sessions with a change file: a file of an earlier session is accepted (`VerifyAcceptsOwnFile`, which partclone images violate), changes win over the image, and no request comes to the entry behind its map |
| `nbd_request` | passes | The request path implements `BlockDevice`, stays inside the buffer, stays in step with the kernel, stores a write's own payload and answers what it begins, for every offset and length, with payloads in pieces, failing images, a signal, replies that are cut short and a socket that goes away |
| `nbd` | passes | The process serves only what it verified; it ends when told to unless it is stuck in a read; a DISC that is read and answered leads to `image_close` and removes the pid file; the last `wait` returns; a umount is served to its end; all with the exceptions below |
| `multi_block` | violated | In a request of several blocks, a stored block that the change file supplies is not counted in `v1_nvbcount`, and the next block comes from the wrong place |
| `reopen` | violated | A named change file that an earlier session created is refused: `v1_init` passes a block count of 0 to `cf_init` |
| `ntfs_stale` | violated | `v10_bsfcount` is kept for a bucket from the seek that entered it, and is 0 for the first bucket from the start: a used cluster behind a free one reads as a later cluster |
| `ntfs_tolerant` | violated | `NC_HAVE_CF_PATH` and `NC_TOLERANT` are one bit (`libntfsclone.c:41`, `:43`): with a named change file a damaged image is served although `-T`, to which the man page gives tolerant mode, was not given |

### What the properties leave out

A property that holds has an exception where the code really does otherwise.
These are the exceptions, and what the code does in them:

- `AckedWritesReadBack` speaks of writes none of whose transfers was short.  After
  a short `write` that leaves `errno` 0, `posix_write` returns 0 and
  `cf_writeblock` acknowledges a block that is not stored (`sysdep_posix.c:158`).
- `HandleCoversFile`, `MapEntriesArePermanent` and others are checked with `open`
  failing on missing files only; otherwise `cf_create` empties a file that could
  not be opened once (`changefile.c:135`).
- `FirstBlockIsRight`: when the change file fails, the reader gets the block as it
  was before the changes, without an error (`libpartclone.c:398`).
- `RawImage!OnlyWritesTouchFile`: a rejected change file is overwritten at close
  (`librawimage.c:108`).
- `CountsPrecedingBlocks`, `ReadsWhereWritten`: a byte other than 0 and 1 between the
  start of the bucket that was sought and the current block is counted by `v1_seek` and
  `v1_readblock` and not by `precalculate_sumcount` (`libpartclone.c:333`).
- `VerifiedIndexIsRight`, `ReadsOwnCluster`, `BlockIsRight` speak of strict mode or
  of whole images, of the clusters before the trailing one, and not of a stale
  count.  In tolerant mode the clusters behind damage are numbered too low.
- `BlockDevice` allows a write of parts of blocks to spoil the blocks that it
  touches: the payload goes to the start of the buffer instead of `sboffs`
  (`imagemount.c:510`).  The kernel sends such writes only when its block size is
  smaller than that of the image.
- `BufferInBounds` assumes that a block is no larger than `READBUF_INITIAL`: a
  request within one block never makes the buffer grow (`imagemount.c:448`).
- `StaysInSync`: a priming read that fails leaves the payload in the socket
  (`imagemount.c:557`).
- `StoresOwnPayload`, `BufferInBounds`, `ImplementsDevice`, `StaysInSync`: a termination
  signal hits a read of a payload (`hit`).  `read` returns -1 into a `size_t`, which is
  taken for a short read and no error; `rembp` moves back by one and `remlen` grows by
  one (`imagemount.c:537`, `:549`), and the write is carried out and acknowledged with a
  payload that is shifted by a byte and ends in the next request.  This is a bug of
  the code: the comment at `:515` only speaks of not repeating the read.  Without the
  exception TLC finds it within one request.
- `ImplementsDevice`, `RequestIsAnswered`: a signal during the `write` of a reply
  (`cut_reply`).  If it is time to leave, the header or the data is given up
  (`imagemount.c:588-591`, `:602-605`); if `write` returns less than it was asked for,
  the rest is never sent and nobody is told (`:592`, `:606-615`).  The kernel then waits
  for the rest of an answer, or takes the next header for data.
- `RequestIsAnswered`: when the socket was shut down within a payload, the loop at
  `imagemount.c:512` reads the end of the file for ever.
- `LeavesWhenAwake`: a signal between the tests of the loop and the sleep in `read`
  is not noticed while the device is idle (`imagemount.c:421`), and neither is one in
  the endless loop of a payload (`Stuck`).  With a mount nothing is claimed: a signal
  during the umount sets `timetoleave` back from 2 to 1, another umount is started, and
  the first one's death may use up the handler with `timetoleave` at 2.
- `UmountIsServed`: the handler is armed for one signal, and if another child (the
  mounting one, or that in `NBD_DO_IT`) dies first, the server goes while the
  umount still needs the device (`imagemount.c:299`).
- `DisconnectCloses`: if the driver shuts the socket down before DISC is answered,
  `SIGPIPE` ends the process before `image_close` (`imagemount.c:588`).  A server that
  lost sync may read past DISC (`~sync`), and a signal during the reply to DISC leaves
  it unanswered (`Unanswered`): the driver then waits, and a later signal that sets
  `timetoleave` back may find the server asleep.
- `FinalReapReturns`: if the umount could not be forked, the server may wait for a
  mounting child that waits for the server (`imagemount.c:697`).  The same happens when
  the first `malloc` fails (`:335`): `timetoleave` is 3, the mount is forked all the same,
  the loop is skipped, and `wait` gets the mounter (`toreap # Mounter`).
- `NcRefusesDamage` speaks of sessions without a named change file, for the reason that
  run `ntfs_tolerant` shows; `ServesSoundImage` counts `-c` among the ways to ask for
  tolerance.
- `WalkTo` gives `EIO` at the end of the file, where the code returns the `errno` of an
  earlier call; both end the read with an error, and no property tells them apart.

### Bounds

- `N` = 2 blocks (3 for `Partclone` and `NtfsClone`): two blocks are needed for one to be damaged
  by another's write, and three for a request of two blocks that does not start
  at 0 with a bucket boundary (`Factor` = 1, two blocks a bucket) inside the image.
- `Data` has two contents where overwriting is looked at, one where only the place
  a block comes from matters.
- `MaxSlots` = 2 (1 in `NtfsClone`, where the change file itself is not the
  question): as many appended slots as blocks, so the file can be full, one
  slot can be an orphan of a failed write, and blocks can be in either order.
- `MaxBlocks` = 2: the second block of a request is where the position has moved.
- `MaxTotal` = 6 with two blocks a bucket: full and partial last buckets.
  `BitmapBytes` = {0, 1, 2}: 2 stands for all bytes that are neither 0 nor 1.
- `MaxTerm` = 2, `MaxQueue` = 2: a second signal during the first one's umount, and
  a request queued behind another.  A request whose buffer cannot be had counts as a
  signal, since it sets `timetoleave` the same way.  `Umounts` has a process id for each.
- `MaxClusters` = 6 with four clusters a bucket, `MaxDamage` = 2, `MaxSync` = 0: two
  buckets, the second one partial, either of which may begin with free clusters,
  and enough damage to exhaust the patience of tolerant mode.  `ByteBits` = 2, so
  that the trailing cluster's bit falls inside and outside of the bitmap.
- `BlockSize` = 2, `BlockCount` = 2, `InitBuf` = 2: requests within a block, across
  both, and with a partial first, last or only block; a buffer that must grow.
  `MaxRequests` = 2: what a request leaves behind meets the next one.
- `FourSettings`: without a mount where `malloc` may fail or where the socket may go
  away early, with one where both may happen, and with one where `fork` may fail.
- `Counts`: the block counts that the libraries really pass to `cf_init`.

### Fairness

`NbdService` assumes weak fairness of the server (`Server`), of each child's exit
(`Exit`) and of the driver's socket shutdown after DISC (`ShutDown`): the kernel
schedules runnable processes, a `mount` or `umount` that was answered or can no
longer be answered returns, the driver sends the rest of a payload, takes what it is
sent, and finishes a disconnect.  Nothing is assumed of signals, requests or DISC:
nobody has to send anything, and a server that is out of sync may sleep in front of an
empty socket (`read_lost` is fair only while something is queued).  The server
process really ends, so this run does not check deadlock.

`NbdRequest` assumes weak fairness of the server and of the delivery of what the
kernel has begun to send (`Deliver`): the kernel writes a header and its payload
together, and takes the replies.  Nobody has to send a request, and a signal or a shutdown may come at
any time or never.  All other specifications are safety specifications without
fairness.

## 4. Proofs

The theorems hold for every value of the constants that satisfies the assumptions
of the modules: every number of blocks and of slots, every set of contents, every
length of a request, every outcome of short transfers, every size of buckets and
blocks, any number of signals and of requests in the socket.  "Assumes" is what a
theorem adds to that.

| Theorem | Property | Assumes |
|---|---|---|
| `ChangeFileProofs!TypeCorrect` | `TypeOK` | - |
| `ChangeFileProofs!SlotsAreOwned` | `MapsLeadToOwnSlots` | - |
| `ChangeFileProofs!HandleCovers` | `HandleCoversFile` | `~TransientOpen` |
| `ChangeFileProofs!MapGoesFirst` | `NoBlockBeforeMap` | `~TransientOpen` |
| `ChangeFileProofs!EntriesArePermanent` | `MapEntriesArePermanent` | `~TransientOpen` |
| `ChangeFileProofs!UsedCountCovers` | `UsedCountCoversMap` | `~TransientOpen` |
| `ChangeFileProofs!OverlayIsImplemented` | `ImplementsOverlay` | `~TransientOpen` |
| `ChangeFileProofs!AckedWritesAreKept` | `AckedWritesReadBack` | `~TransientOpen` |
| `ImageIndexProofs!IndexTypeCorrect` | `TypeOK` | - |
| `ImageIndexProofs!CountIsRight` | `CountsPrecedingBlocks` | - |
| `ImageIndexProofs!OffsetIsRight` | `ReadsWhereWritten` | - |
| `PartcloneProofs!PcTypeCorrect` | `PTypeOK` | - |
| `PartcloneProofs!PcWritesShareOneHandle` | `WritesShareOneHandle` | - |
| `PartcloneProofs!PcOnlyWritesTouchFile` | `OnlyWritesTouchFile` | - |
| `PartcloneProofs!PcRequestsStayInMap` | `RequestsStayInMap` | - |
| `PartcloneProofs!FirstBlockIsRightAlways` | `FirstBlockIsRight` | `Bitmap` has bytes 0 and 1 |
| `ChangeFileProofs!RawTypeCorrect` | `RTypeOK` | - |
| `ChangeFileProofs!RawWritesShareOneHandle` | `WritesShareOneHandle` | - |
| `ChangeFileProofs!RawBlocksAreRight` | `EveryBlockIsRight` | `"ok" \notin ShortRet` |
| `ChangeFileProofs!RawOnlyWritesTouchFile` | `OnlyWritesTouchFile` | `~TransientOpen` |
| `ChangeFileProofs!RawRequestsStayInMap` | `RequestsStayInMap` | - |
| `NtfsIndexProofs!NxTypeCorrect` | `TypeOK` | - |
| `NtfsIndexProofs!NxVerifiedIndexIsRight` | `VerifiedIndexIsRight` | - |
| `NtfsIndexProofs!NxReadsOwnCluster` | `ReadsOwnCluster` | - |
| `NtfsCloneProofs!NcTypeCorrect` | `NcTypeOK` | - |
| `NtfsCloneProofs!NcWritesShareOneHandle` | `WritesShareOneHandle` | - |
| `NtfsCloneProofs!NcVerifyAcceptsOwnFile` | `VerifyAcceptsOwnFile` | - |
| `NtfsCloneProofs!NcOnlyWritesTouchFile` | `OnlyWritesTouchFile` | - |
| `NtfsCloneProofs!NcRequestsStayInMap` | `RequestsStayInMap` | - |
| `NtfsCloneProofs!NcRefusesDamage` | `~given => RefusesDamage` | - |
| `NtfsCloneProofs!NcBlockIsRight` | `BlockIsRight` | - |
| `NbdServiceProofs!ServiceTypeCorrect` | `NTypeOK` | - |
| `NbdServiceProofs!UmountsAreServed` | `UmountIsServed` | - |
| `NbdServiceProofs!ServedImageIsSound` | `ServesSoundImage` | - |
| `NbdRequestProofs!RequestTypeCorrect` | `QTypeOK` | - |
| `NbdRequestProofs!BufferIsInBounds` | `BufferInBounds` | `InitBuf >= BlockSize` |
| `NbdRequestProofs!ServerStaysInSync` | `StaysInSync` | - |
| `NbdRequestProofs!WriteStoresOwnPayload` | `StoresOwnPayload` | - |
| `NbdRequestProofs!DeviceIsImplemented` | `ImplementsDevice` | - |

The assumptions are those of the runs, and the code does otherwise where they do
not hold.  `~TransientOpen` says that `open` fails only on missing files; without
it `cf_create` empties an existing file.  `Bitmap` has what partclone writes;
`precalculate_sumcount` and `v1_seek` disagree on other bytes.
`"ok" \notin ShortRet` says that a short read leaves an error in `errno`; without
it a short read looks like a block.  `InitBuf >= BlockSize` says that a block fits
`READBUF_INITIAL`.  The images of `NtfsClone` are a constant, and
`NtfsCoverAssumption` says of them that the header counts the clusters of the
atoms: TLC evaluates it for the images of the run, and `ImagesCover` of
`NtfsIndexProofs` proves it for every image that `NtfsIndex` enumerates.

None of the properties is inductive.  The invariants below were checked with TLC
before they were proved.

**Change file.**

- `CallsInProgress` ties `pc` to the handle: a write or sync in progress has a
  verified handle, a write has a block in `cur` and a content in `buf`.
- `NewSlotIsFree`: while a new block's trailer is being written, its slot is the
  last one and no map leads to it.  With it `SlotInv` is inductive: a map entry is
  added only when the slot is complete, and a slot that a map leads to only has
  its data or checksum changed, never its block number.
- `OnlyNewFilesAreFilled`: while `cf_create` writes header and map, the file's map
  has no entries.  This needs `~TransientOpen`, and `CoverInv` rests on it: the
  file's map only ever grows towards the map of the verified handle, so every
  short or complete write of the map keeps what was there.  Permanence of the
  entries follows step by step, and so does `NoBlockBeforeMap`: a write in progress
  has a verified handle, and there is none on a file without a whole map.
- `CountGoesFirst`: while the map is being written, the count in the file is
  already that of the handle.  With it `CountInv` is inductive.  The cardinality
  of the map's domain is handled by lemmas on adding one entry and on subsets.
- `OverlayInv` adds `DataGoesFirst` (while the trailer is written, the slot has the
  data already) and `CreatesBesideClean` (no handle with unflushed blocks is
  dropped by a creation).  Every step is then one of a few kinds (`Quiet`, `Opens`,
  `Closes`, `Flushes`, or a step of a write), and each kind is a step of `Overlay`.
  `AckedIsKept` is the same argument for the history: what is owed is what the
  handle sees, and what the file has of it is owed to the next session.

**Partclone index.**  `IndexProofs` shows that `precalculate_sumcount` and
`v1_seek` together count the stored blocks before a block, for buckets of any size,
and that `rblock2offset` is where the blocks written before it end.  Both are
inductions over a recursive function.  They are done over sets: `NatSetInduction`,
from the well-foundedness of the naturals, takes the set of the numbers for which a
formula holds.  Exponents are unknown to the provers, so the module's assumption
says that `2 ^ Factor` is a positive natural, which TLC evaluates.  `IndexInv` then
only says that count and position agree after each seek and read, as long as the bytes
since the start of the sought bucket are 0 or 1 (`Plain`); the bytes before that bucket
are counted by `precalculate_sumcount` alone and may be anything.

**ntfsclone index.**  `IndexProofs` follows the loops over the atoms, again by
induction over sets.

- The scan.  `ScannedTo` is what the loop of `v10_verify` knows after `m` atoms: it
  is at cluster `ClusterOf(atoms, m + 1)`, has the bits of the used atoms so far,
  and for each bucket the first of them.  `ScannedStep` keeps it over an undamaged
  atom; `StrictRefuses` says that a damaged one ends a strict scan with an error
  that no later atom takes away.  The end is the delicate part: a version 10.0 image
  ends before the trailing cluster, and the loop may go on with what its last read
  left.  `ScanBehind` shows that whatever it then does concerns the trailing cluster
  only.  Together they are `VerifyRight`: strict mode accepts undamaged images only,
  and the index of an undamaged image is right.
- The walk.  `WalkArrives`: from the first atom of a bucket, `seek2cluster` comes to
  the atom of any later used cluster.  `ReadRight` puts the two together: with a
  right index and a right count of the bucket's free clusters, a read gives the
  cluster's own bytes.
- The images.  `WrittenCovers` and `DamagedCovers` show that the atoms which
  `NtfsIndex` makes of a set of used clusters add up to the clusters of the header,
  by counting how many atoms begin before a cluster (`RankStep`).
- `IndexInv` of `NtfsIndexProofs` adds what is kept between calls.  `EntryIsKept`: the
  count of the current bucket leads to its first used cluster, or to where the
  seek that entered the bucket stopped looking, and no used cluster is before that.
  The second case is that of run `ntfs_stale`, and the theorem's exception.

**Sessions.**  `PcInv`, `RawInv` and `NcInv` have the same three parts:
`RequestInImage` (a request in progress stays inside the image), `CallsFromLibrary`
(which call into `changefile.c` can be in progress where in the library) and
`FlagsMeanHandle` (the flags "have" and "verified" together stand for a verified
handle, and nothing was written through another one).  From these the handle
discipline and `RequestsStayInMap` follow, for all three libraries alike, with nothing assumed of `open`
but for raw images, whose close writes the file again: there `HandleIsFile` says
that a handle that was not written through is what is in the file.  `CountsAgree`
has the block counts of `v10_init` and `cf_create` of ntfsclone images; its
counterpart for partclone images is false (run `reopen`).  `SeekIsCounted` carries
the count of the index from a seek to the first read.  `IndexInv` of
`NtfsCloneProofs` does the same for the atoms: from the return of `v10_verify` to
the close, the image is whole or was opened tolerantly, and the index of a whole
image is right.

**Server.**  `CountsOnce` says that the `SIGCHLD` handler counts one death each time
it is armed, `StartsQuiet` that nobody uses the device before it is connected;
with `AskersWereStarted`, `UmountsAfterArming` and `LeavesWhenSpent` they make
`UmountIsServed` inductive: the server leaves with a umount in progress only
after the handler was spent.  `ImageIsChecked` follows the handle of the image
from the probes to the connection.

**Requests.**  `ServesOwnRequest` and `PayloadAddsUp` tie the request to the step
the server is in, and what was read of a payload to what is left of it.
`BufferFits` says how large the buffer is at each step.  `InSync` says that what is
left in the socket parses: the rest of a payload, then headers, each followed by
its own bytes (`Parses`), and `HoldsPayload` that the buffer has the beginning of
the payload, which is `StoresOwnPayload` when all of it is there.  It is stated by positions in the stream, so that it needs no
recursion.  With `ReadyToReply`, what the buffer and the device have when the reply
is sent, every step is a step of `BlockDevice`.  The arithmetic of first and last
blocks (`\div`, `%` of a block size that is not known) is in lemmas of its own.

Only model-checked: liveness (`LeavesWhenAwake`, `DisconnectCloses`,
`FinalReapReturns`, `RequestIsAnswered`), since the prover has no fairness.  Every
other property of the passing runs has a theorem.  `Partclone!RequestsStayInMap` and
`NtfsClone!OnlyWritesTouchFile`, which are those of the other two libraries again, have
their theorems and no run of their own.

## 5. Not modelled

- `libchecksum.c` and the CRC tables: pure arithmetic.
- The header fields of the images and device sizes.  Tolerant mode of partclone and
  raw images is a flag that is set and never tested.
- The made-up name of a raw image's change file: it is taken from uninitialised
  memory, so there is nothing to say about it.
- Damage of an ntfsclone image that shifts the atoms behind it: the bytes of a
  cluster would be read as atoms, and what they are depends on the data.
- The printing tools (`cfdump`, `cfchanges`, `*_imageinfo`), which run once from
  start to end and keep no state, and the test programs.
- Options and logging of `imagemount`.
- Power loss: nothing in the code calls `fsync`, so nothing is promised.

## 6. Plan

Done, in this order: `ChangeFile` (everything else writes through it), `Overlay`,
`BlockIndex` and `ImageIndex`, `Partclone`, `RawImage`, `NbdService`,
`ChangeFileProofs`; then `AtomIndex`, `NtfsIndex` and `NtfsClone`, `NbdRequest` with
`BlockDevice`, `Libimage` and the start of the process in `NbdService`, and
`NoBlockBeforeMap` for creations that were cut short.

Then the proofs of section 4, in the order change file, refinement of `Overlay`,
raw images, partclone index and sessions, ntfsclone sessions, server, requests,
ntfsclone index.

Left: proofs of the liveness properties, with a prover that reasons about fairness.
