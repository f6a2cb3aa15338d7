# NVME-IOCTL: formal models, checks and proofs

The repository measures and uses NVMe devices through the kernel's pass-through
ioctls. It holds three user-space transfer programs of its own
(`src/my_version`), a tensor store for DeepSpeed built on the same ioctls
(`src/phison_version`), and a modified copy of the kernel files behind those
ioctls (`src/kernel_modification`). This directory models the user-space
programs, the kernel's pass-through interface (`ioctl.c`) and its mapping of a
user's buffer into a request (`blk-map.c`) in TLA+, model-checks them with TLC and
proves theorems about all of them with TLAPS.

## 1. Inventory

| Component | State it keeps | Operations | What is hard | What makes it correct |
|---|---|---|---|---|
| **Transfer test** `my_version/nvme_transfer` | two huge-page buffers, loop cursors, a vector of futures, the device | reserve huge pages, open, allocate, per round: split the file in chunks, one `std::async` per chunk, join, second half, compare; free on all paths | threads in any order; a failing join leaves threads running; `goto fail` paths; the same data in every round | buffers outlive threads; chunks tile the file; a passing round is on the device; it ends |
| **Measuring programs** `my_version/ioctl_thread`, `my_version/ioctl` | buffers, per-command `params`, `error`, the device | fill, open, write, read, compare, close, per round; `nvme_io` as pthreads or as a loop | `error` overwritten by each command; `rand()` never seeded, so data of an earlier run is the data of this one | `nvme_io` outlives its threads; what a printed verdict says of the device |
| **`nvme_operation_handler`** `phison_version/nvme_transfer/nvme-ioctl.cpp` | `size`, `slba`, bounce buffers, futures | one tensor to or from the device, in threads with bounce buffers (shipped) or inline | bounce buffers counted by rounding down and commands by rounding up; pointer arithmetic; joins before unmapping | every block moved or the program stops; no block outside the request; bounce buffers enough for whole chunks; read returns what was written |
| **Layer manager** `phison_version/nvme_transfer/layer_manager.cpp` | the map of layers (LBAs, hash, CRCs), the next free LBA, the previous operation | `parsefromFileName`: find or create the layer, link a hash, pick the region, transfer, check the CRC | identity of a layer inferred from the previous call; all state lost at a restart while the device keeps its contents | regions never overlap; a write stays in the region its file names; a read that returns is the last write of that name |
| **libaio context** `phison_version/nvme_transfer/nvme-aio.cpp` | two counters of pending events, `io_ctx` | submit, `sync_write`, `sync_read`, `synchronize`, destructor | refused submissions are counted; any sync takes the events of the other direction | counters cover what is outstanding; sync means complete; each callback once |
| **Libaio method of the layer manager** `layer_manager.cpp` under `currentIOMethod 1` | a context per call, an open file per request, the callbacks' counter | one request, or 32 of the whole tensor; wait; close; delete | results of `open`, `io_setup` and `io_submit` are not looked at; contexts are kept; an `int` offset | requests end before what they use does; calls return |
| **phison `main`, DeepSpeed handle** (`main.cpp`, `modify_function.cpp`) | the handle's count of pending operations | write and read the files of a list; `sync_pread`, `wait` | the handle is the client of the layer manager | what `wait` reports is complete |
| **CRC32** `crc32.h` | none | CRC of 8 bytes | covers the first bytes of a tensor only | - |
| **ioctl_block, huge_page** demos | none | one command; one huge page | nothing | - |
| **Kernel pass-through** `kernel_modification/ioctl.c` | request, bio, metadata buffer, the uring command's private unions, the locks and references of the entry points | synchronous ioctls, uring commands: submit, retry without polling, completion in task work or in the poller | completion on another CPU before the submitter returns; who owns request, bio and metadata on each error path; a namespace removed meanwhile, by the command itself, too; waiting for one's own task work | each is released exactly once; the outcome reaches the program once; every command ends |
| **Kernel mapping** `blk-map.c` | bio, pinned pages, copy buffers | map or copy user memory into a request, unmap | partial success half-way in the vector; merged pages; pages that did not fit | each page dropped once; the iterator stands where the bio ends |
| **Kernel bio pages, iov_iter** `bio.c`, `iov_iter.c`, `uio.h` | bio_vec table, iterator | merge and add pages; pin the pages of an iterator | this repository's contiguous variant of both | bytes added = bytes advanced |

How they interact: every user-space program reaches the device by
`ioctl(fd, NVME_IOCTL_SUBMIT_IO)` only, from several threads at once, and shares
its buffers with those threads until they are joined. The phison program calls
the layer manager, which turns a file name into an LBA and a size and calls
`nvme_operation_handler` (or, with another compile-time setting, the libaio
context). In the kernel the ioctl allocates a request, `blk-map.c` pins or copies the user's
pages into a bio by way of `iov_iter` and `bio.c`, the request is executed, and
its status is returned: 0, a negative errno, **or a positive NVMe status**, which
the programs treat differently from one another.

## 2. Modules

| Module | Models | State and actions |
|---|---|---|
| `BlockTransfer` | what any transfer routine promises (abstract) | `idle / busy / stopped`; a request goes back to `idle` only when all its blocks moved |
| `SubmitTest` | the transfer test, both values of `ASYNC_IOCTL` | one variable for each local of `submit_test` that steers it; `pc` is the position of the main thread; one action per step of it (`ReserveHugePages` ... `MainPassed`), `RunTask(i)` for a thread in `submit_io` |
| `SubmitTestProofs` | theorems about `SubmitTest` | `IInv` |
| `IoTest` | both measuring programs, which differ in `nvme_io` only (`threaded`) | as above; `CreateThread`/`RunThread`/`JoinNext` or `IssueCommand` |
| `IoTestProofs` | theorems about `IoTest` | `IoInv` |
| `OperationHandler` | `nvme_operation_handler`: `build` is `"bounce"` (shipped) or `"inline"` (either synchronous setting) | `Call`, `Open`, the submit loop (`SubmitTask`, `AsyncThrows`; `SubmitInline`, `SubmitEmpty`, `CheckInline`), `RunTask(i)`, the join loop, `FreeBuffer`, `Return` |
| `OperationHandlerProofs` | theorems about `OperationHandler` | `HInv` |
| `LayerManager` | `layerVecMap` with its ioctl method, its client, restarts | one action per outcome of `parsefromFileName`: `Unresolved` (no layer, or another size), `ReadFile`, `WriteFile`, `TransferFails`; `Restart` |
| `LayerManagerProofs` | theorems about `LayerManager`: types and regions | `LInv` |
| `LayerManagerReadProofs` | extends it with contents: what a read returns | `RInv` |
| `AioContext` | `AIOAsyncIO` over an external libaio, for any caller | `Submit`, `Complete` (device), `Sync`, `GetEvent`, `SyncReturns`, `Destroy`, `Hang` |
| `AioMethod` | extends it with its caller: the libaio method of `parsefromFileName` in both settings of `libAIOasync`, and the DeepSpeed handle | `at` is the position in the call: `NewCall`, `SubmitNext`, `WaitForAll`, `Event` (a callback), `AllDone`, `CloseFiles`, `DeleteContext`; `Wait` of the handle |
| `AioProofs` | theorems about both, under `MethodSpec` | `AioInv` |
| `MappedBuffer` | what mapping a buffer promises the driver (abstract) | `idle / busy / mapped`; either the whole buffer is covered or nothing is held |
| `BioMap` | `blk_rq_map_user_iov` (pinned, copied, and registered buffers) and `blk_rq_unmap_user` with what they call in `bio.c` and `iov_iter.c` | `pos` is the iterator, `bio` the bio being filled, `chain` those of the request, `pages`, `j`, `bytes`, `offs` the locals of one pass of `bio_map_user_iov`, `refs` the references on each page frame; one action per step of the loops and per way to fail (`NoBio`, `PinFails`, `NoPage`, `FillBio` on a fault, `AppendBio` when it does not fit) |
| `BioMapProofs` | theorems about `BioMap` | `BInv` |
| `UserCommand` | what a pass-through command promises its program (abstract) | per command `idle / issued / over`, what the device did, what was reported, whether anything is held |
| `UserRequest` | the part of `ioctl.c` both ways of issuing a command share: entry points, `nvme_alloc_user_request`, `nvme_map_user_request`, the metadata helpers | per command its input `cmd`, the position `pc` of its thread, how often it `holds` each resource, the request `rq`, the completion's way `io`, the output `out`; one action per step and per way to fail |
| `PassthruIoctl` | the synchronous ioctls, from the mapped request on | `ExecuteSync`, `CompleteSync`, `FinishSync`, `EndSync`, `LeaveSync` |
| `UringCmd` | the io_uring commands, from the mapped request on | `pdu`, the two unions of the command's private part; `RetryUnpolled`, `Prepare`, `ExecuteNowait`, `LeaveUring`; `EndIo`, `EndIoMeta` (any CPU); `TaskCb`, `TaskMetaCb` |
| `NvmePassthru` | composes them: tasks that issue commands of both kinds and exit, two queues with their tags, a namespace that is removed | `Start`, `Thread`, `Device`, `TaskWork`, `Exit`, `Unlink`, `Dying`, `Gone` |
| `NvmePassthruProofs` | theorems about `NvmePassthru` | `PInv` |
| `MC*` | the instances TLC checks | |

`NvmePassthru` uses of the mapping what `MappedBuffer` promises (`Map` succeeds and holds
the buffer, `MapFails` holds nothing), and `BioMap` is checked to keep that promise;
`SubmitTest` and `OperationHandler` keep that of `BlockTransfer`, and
`LayerManager` uses what `OperationHandler` shows of its synchronous builds.

Conventions.

* Data is one value per block, and sizes are counted in blocks; in
  `OperationHandler` in parts of a block, because what a size that is no multiple
  of a block does is the interesting part.
* An ioctl returns `"ok"` having moved all its blocks, `"errno"` having moved
  none, or `"status"`, a positive NVMe status, having moved any of them. It moves
  them in one step; two ioctls happen in either order. No program of the repository
  has two ioctls in flight that share a block (`ChunksPartition` checks it for
  the transfer test, `StaysInRequest` and the refinement for the handler), so
  finer steps would show nothing more.
* Undefined behaviour is a state of its own (`pc = "undefined"`) that claims
  nothing further: freeing a pointer that was never assigned (`open` failed),
  indexing past `data_pointers`, a synchronous read of a tensor below one block, which
  overruns the caller's buffer, the copy of what `end()` points to when an optimizer file
  has no layer (`layer_manager.cpp:217`); in the kernel, reading `ns->ctrl`
  of a namespace that is gone (`ioctl.c:902`). These are reached. Two are not: reading past the
  read buffer in the synchronous transfer test, which needs a buffer without slack where
  the run's has some, and appending to
  the freed bio of a registered buffer that has a gap (`blk-map.c:649`), since a
  registered buffer is consecutive memory.
* Definitions marked `(mutant)` are plausible bugs; no specification uses them.
  Each is what one property was seen to fail for.

Points where a model's choice needs its reason:

* `IoTest.fresh` (ghost). `rand()` is not seeded, so an earlier run of the program
  leaves on the device exactly the data that this run writes. `MatchIsReal`
  can be claimed for a device without such leftovers only, and says so. Even that the
  device holds the data of a round that printed success is claimed for a fresh device only: in a third
  round `readData` may still hold what an earlier run left, read two rounds ago,
  where a write of this round put nothing and a read fetched nothing.
* `OperationHandler.SubmitEmpty`. A command of 0 blocks goes out as one of `MaxBlocks`
  (65536: `nblocks - 1` in 16 bits). It may move any of them that lie on the device. Where
  a synchronous build writes, they come from behind the caller's buffer (or from the copy
  `nvme_write` makes), and a block so written holds `Stray`, which is no block of any tensor.
  So `StaysInRequest` has an exception for tensors below one block, which ask for no block at all, and
  `ReadBackInline` one for what such a write left. `WholeChunksFit` says that these tensors,
  and in the shipped build those that are not whole chunks, are the only ones for which the code
  leaves its buffers. The handler's client does not check the size: the layer manager passes on what
  the file's name says, and `SizeAssumption` of `LayerManager` excludes tensors below a block there.
* `LayerManager.recounted` (ghost). Once a layer is known, nothing compares the element count in
  a name with the one the layer's regions were sized for, neither for the layer's own
  files (`layer_manager.cpp:178`) nor for an optimizer file found by its hash (line 212). A
  layer is `recounted` once it was used under another count. A tensor larger than
  its region spills into the next one, of the same layer or of another:
  `WritesStayInRegion` excepts writes to such a layer, and `ReadReturnsLastWrite` is claimed as
  long as there is none. ASSERT 0136 compares the counts at the moment of linking, and only then.
* `LayerManager` takes a file as the record of the parts its path is parsed into.
  The CRC of the first eight bytes is the identity of the tensor's first block.
  `MapOrder` is the order of `std::map<string, ...>` (`"10"` before `"2"`),
  which decides where the search for a hash stops.
  `contract = TRUE` is a client that reads only what it wrote and first uses an
  optimizer file right after a read of its own layer's parameters, and names the files of a layer with one
  number of elements; `FALSE` is any client. `WritesStayInRegion` speaks of the regions of the present
  run: what an earlier run left on the device is overwritten as soon as its blocks are
  handed out again. That no such leftover is ever returned is part of `ReadReturnsLastWrite`.
* `BioMap` counts memory in units of a sector, several to the page, and takes a queue as
  NVMe makes it: aligned to a unit, with a virtual boundary of a page
  (`VirtBoundary`, a constant: most is claimed for every queue). Without that
  boundary two segments that meet inside a page are merged and the page's second
  reference is never given back: `bio_map_user_iov` looks at `same_page` where `bio_add_hw_page` failed
  (`blk-map.c:360`), and it is set only where that succeeds; `bio_iov_add_page` (`bio.c:1301`) does it the
  other way round. With the boundary such a vector is
  copied, so `PagesHeldOnce` and the refinement are claimed for `VirtBoundary = TRUE` only
  (with `FALSE` in `MCBioMap.cfg` TLC finds the page that stays). `get_user_pages_fast` pins any non-empty part of what it is asked for, or
  fails. A vector is its addresses in order, with the ends of its segments, so that
  `iov_iter` is one number. A registered buffer has a bvec per page of its consecutive
  memory; one that is used in part only is refused, as its bvecs are longer than the transfer
  (`blk-map.c:656`). A read's copy back to the user moves no page and is not modelled.
* `UserRequest` takes a command as the answers to what the code asks of it: which
  node it came by, which queue, is there data, a metadata length, a metadata buffer. Inputs are
  given per place for a command, which keeps the instances small. A namespace
  and a controller are one each; the handle of a file keeps its namespace alive, so what a
  command through it needs is always there, and only its queue may be dying. Of
  the outcome `failed` stands for a positive status and for the -EINTR of a cancelled
  command, `error` for any other errno.
* The contents of data buffers are no part of `NvmePassthru`; the metadata is, since it
  is copied after the command completed, by whoever runs the completion.
* A task runs task work between its system calls, not in them; a task that exited has
  its task work run by a worker, which has no address space to copy to (`orphan`).
* `AioContext`: `io_getevents` returns any non-empty set of completed requests. A
  return without events makes the loop call it again and is no step. A context takes
  `max_nr` requests and may take more. What a request did is not modelled, as
  nothing looks at `event.res`.
* `AioMethod` counts offsets in blocks; `Wrap` is the conversion to `int` of
  `offset += size`. A request that would start before the device is refused by `io_submit`;
  what is written past the tensor's region by 32 requests of its whole size is not modelled.

## 3. Runs

| Run | Configuration | Shows |
|---|---|---|
| `submit_test` | `MCSubmitTest.cfg` | both builds, with and without error statuses: `NoUseAfterFree`, `ChunksPartition`, `PassMeansOnDevice`, `Termination`, implements `BlockTransfer` |
| `io_test` | `MCIoTest.cfg` | `NvmeIoOutlivesThreads`; `MatchIsReal` and `MismatchMeansFailure`: what the verdict is worth although errors are overwritten; `Termination` |
| `op_handler` | `MCOperationHandler.cfg` | three calls in both builds: `NoTaskWithoutBuffer`, `StaysInRequest`, `WholeChunksFit`, `CallReturns`, implements `BlockTransfer`; `ReadBackInline` for the synchronous builds |
| `layer_manager` | `MCLayerManager.cfg` | `RegionsDisjoint`, `WritesStayInRegion` (of the named layer and slot, also when a layer is found under another count), `ReadReturnsLastWrite` (also across a restart), `ContractSuffices` |
| `bio_map` | `MCBioMap.cfg` | `PagesHeldOnce`, `ImageInOrder`, `WithinLimits`, implements `MappedBuffer`, with a failure at any step, for vectors and registered buffers |
| `nvme_passthru` | `MCNvmePassthru.cfg` | `HeldUntilDone`, `PduReadAsWritten`, `NsOutlivesUse`, `MetadataDelivered`, `EndsUnlessSelfWait`, implements `UserCommand`, with a failure at any step, completions at any time, a namespace removed and tasks that exit |
| `aio_context` | `MCAioContext.cfg` | `CountersCover`, `SyncMeansComplete`, `CallbacksInScope`; `CallsReturn`: a sync call returns when nothing was refused, and what may be refused in the layer manager's calls |

Five runs show what the repository says of the program and the program does not do:

| Run | Configuration | What it contradicts |
|---|---|---|
| `submit_status` | `MCSubmitTestStatus.cfg` | "@return 0 if the operation was successful" of `submit_io`: a positive status is success to it |
| `submit_sync` | `MCSubmitTestSync.cfg` | with `ASYNC_IOCTL 0` the loop that is timed as the write reads |
| `op_handler_shipped` | `MCOperationHandlerShipped.cfg` | the comparison that is disabled in phison's `main.cpp`: in the shipped build every chunk is copied from and to the start of the tensor |
| `layer_link` | `MCLayerManagerLink.cfg` | the comment on linking "hash ID is the same": one hash ends up with two layers |
| `passthru_fixed` | `MCNvmePassthruFixed.cfg` | "fixedbufs is only for non-vectored io" (`ioctl.c:185`): a command that combines both is refused, but by a `return` past the label that frees its request, so each such command takes a tag for ever |

What holds nevertheless is worth as much: the transfer test's comparison catches
every lost write although `submit_io` hides it (`PassMeansOnDevice`: the read
buffer is cleared before each round, and a wrong block of the device has never
been right before), and the layer manager's CRC turns every wrong link into an
assertion rather than wrong data (`ReadReturnsLastWrite`), because its regions
are disjoint and a region is only ever written from its start. (This holds as long as the counts
in the file names agree, which the code does not check.) In `ioctl.c` every other failing
path gives back what it took, the unions of the private part are read as they were
last written, and the completion may run before the submitter has returned.

Two results are about how far a promise goes. `EndsUnlessSelfWait`: a completed io_uring
command with metadata keeps its request until task work runs (`ioctl.c:631`), and a task
waiting in an ioctl, for a tag or for the end of a namespace it deleted, runs none; if it waits for that
very request it waits for ever. TLC reaches this state (`SelfWait`), and
without the exception the property fails; with it, every command ends. `CallsReturn`: the
libaio method with `libAIOasync 1` keeps its contexts (`layer_manager.cpp:301`) and wraps
an `int` offset (line 337); both end in requests that are refused, and a call that waits for one does so
for ever. With one request per call neither happens, however many calls are made.

### Bounds, and why they are enough

* `submit_test`: 5 blocks in chunks of 2 give full chunks and a short last one,
  three threads at once; the buffer of 10 is what alignment leaves, so that the
  synchronous build stays inside it; two rounds, so that the second finds what
  the first left; huge pages from none to both. A device is one that reports
  every failure as an errno or one that does not.
* `io_test`: 3 blocks, at most 2 a command, two threads, three rounds, any outcome: what a round fetched
  may be compared two rounds later.
* `op_handler`: a block has two parts, a chunk two blocks. The requests are two full
  chunks; one chunk and a bit, which is not moved; two chunks and a half, whose last command has no
  bounce buffer in the shipped build; and half a block, whose command has no blocks. Three calls: write, overwrite
  in part, read. `MaxBlocks` is 4, more than a chunk: the wrapped count at block 3 fits on the
  device of 7 blocks and reaches blocks that other requests wrote.
* `layer_manager`: layers "10" and "2" of 4 elements, and two optimizer files of one
  hash, one with the layers' count and one with 6, for the last region of a layer: without a gap between
  regions (`Gap = 0`) what it has too much reaches the next layer. Two versions of each
  content; a device of 12 blocks, on which one layer fits and the first two regions of the other;
  one restart, after which files can
  appear in the other order. That a bfloat16 file itself states another count for a known
  layer (line 178) needs a third file of one layer; that instance is too large for TLC, and the
  theorems hold for every set of files.
* `bio_map`: four pages of two units; every buffer inside them, aligned or not, vectors of
  two to four segments, with and without gaps, with a page several times or in two parts. A bio holds 2
  bvecs, a segment 2 pages and no segment crosses the end of the first page, a request 3 segments and 8
  units: so pages merge, or may not merge for each of the reasons; the bio is full in the
  middle of a pinned segment; requests of two bios succeed, and a further bio fails
  while earlier ones are appended. Four kernel pages, of which two are
  neighbours.
* `nvme_passthru`: two tasks, two commands under way and one tag per queue, so that a command
  finds no tag, by another task and by its own. One place takes a read with metadata, a
  deprecated controller write, the deletion of the namespace and an io_uring command with
  metadata, the other io_uring commands with and without data, metadata and polling, so every branch of the
  submission, the retry and the completions is taken, and each pair of them. Places are used
  again and again; the namespace is removed once.
* `aio_context`: for any caller a context of three entries and four submissions, so that it is
  found full and a sync call leaves requests of the other direction behind. For the layer
  manager three requests (32 in the code), tensors of one block and of three, of which the third request is past an
  `int` of -4 .. 3; at block 0 it is refused, at block 5 it is not. Three
  calls over two contexts, so that the contexts run out.

### Fairness

The main thread and every thread it started run (weak fairness of `Main`,
`Handler`, `RunTask`, `RunThread`), and every ioctl returns: the NVMe driver has a
timeout on each command. `AioContext` assumes that the device completes each request
and that a thread in a sync call goes on, `AioMethod` that a call does.
`NvmePassthru` assumes for each command weak fairness of its thread and of the device (whose timeout
cancels what it does not answer), and strong fairness of two steps that others may disable again and
again: getting a tag, since tags are handed to the waiting threads in turn, and
task work, which runs each time its task returns to user mode. A
polled command is one that somebody polls. The removal of a namespace goes on when it can, and
begins if a deleting command waits for it. Nothing is assumed of the caller, of
a successful outcome, of an exit, or of the restart. Safety properties are checked under
the same specifications and need no fairness.

Deadlock is checked in every run but the two of `NvmePassthru`: a state where the
program ended, was stopped or waits for ever for a refused request (`Hang`) has
a stuttering step that names it. In `NvmePassthru` all tasks may exit, and a task may wait for itself,
and then nothing happens any more; `EndsUnlessSelfWait` says that nothing else stops it.

## 4. Proofs

TLAPS checks the theorems for every value of the constants that meets the named
assumptions of the models. Most only give the constants their types. Those that say more:

* `SizeAssumption`, `BuildAssumption` (`SubmitTest`): what alignment leaves of sizes.
* `HandlerAssumption` (`OperationHandler`): a request lies on the device, and a chunk is no more blocks
  than a command can name (`MaxBlocks`).
* `NameAssumption`, `OrderAssumption`, `SizeAssumption` (`LayerManager`): an optimizer file
  is named by an object's id and never by a layer's number, the bfloat16 tensors are those of
  `bfloat16params`, `MapOrder` lists every layer, and every tensor fills a block. These are facts of the
  file names that DeepSpeed makes. Of the numbers of elements in the names nothing is assumed.
* `InputAssumption` (`UserRequest`): inputs are what the entry points let through, there is
  a task and a tag.
* `QueueAssumption`, `VectorAssumption` (`BioMap`): a page fits in a request and in a segment and
  the boundary of segments is one of pages, which the block layer's setters of these limits
  enforce; the user's pages are not those the kernel allocates for itself; the addresses of
  a segment follow each other, and a registered buffer is one segment.
* `MethodAssumption` (`AioMethod`): the bound on requests is no smaller than `max_nr` for the
  layer manager's own calls, so that it never ends one early.

TLC evaluates each of them in the runs. None of the properties below is inductive;
each proof has an inductive invariant, checked with TLC on the runs' instances first, with one
lemma per action or group of actions (`...Keeps`).

| Module | Theorem | Statement |
|---|---|---|
| `SubmitTestProofs` | `Invariance` | `Spec => []IInv` |
| | `TypeCorrect` | `Spec => []TypeOK` |
| | `BuffersOutliveThreads` | `Spec => []NoUseAfterFree` |
| | `ChunksArePartition` | `Spec => []ChunksPartition` |
| | `PassingRoundIsReal` | `Spec => []PassMeansOnDevice` |
| | `DeviceKeepsPattern` | `Spec => DevicePatternStable` |
| | `Refinement` | `Spec => RefinesBlockTransfer` |
| `IoTestProofs` | `IoTypeCorrect` | `Spec => []TypeOK` |
| | `ThreadsAreJoined` | `Spec => []NvmeIoOutlivesThreads` |
| | `SuccessIsReal` | `Spec => []MatchIsReal` |
| | `FailureIsReal` | `Spec => []MismatchMeansFailure` |
| `OperationHandlerProofs` | `HandlerInvariant` | `Spec => []HInv` |
| | `HandlerTypeCorrect` | `Spec => []TypeOK` |
| | `BuffersOutliveTasks` | `Spec => []NoTaskWithoutBuffer` |
| | `InlineReadsBack` | `Spec => []ReadBackInline` |
| | `WholeChunksFitBuffers` | `Spec => []WholeChunksFit` |
| | `WritesStayInRequest` | `Spec => StaysInRequest` |
| | `HandlerRefinement` | `Spec => RefinesBlockTransfer` |
| `LayerManagerProofs` | `ManagerTypeCorrect` | `Spec => []TypeOK` |
| | `RegionsNeverOverlap` | `Spec => []RegionsDisjoint` |
| `LayerManagerReadProofs` | `ReadsLastWrite` | `Spec => []ReadReturnsLastWrite` |
| | `ContractIsEnough` | `Spec => []ContractSuffices` |
| | `TensorsDoNotSpill` | `Spec => WritesStayInRegion` |
| `AioProofs` | `MethodTypeCorrect` | `MethodSpec => []MethodTypeOK` |
| | `CountersAreExact` | `MethodSpec => []CountersCover` |
| | `CallbacksStayInScope` | `MethodSpec => []CallbacksInScope` |
| | `SyncIsComplete` | `MethodSpec => SyncMeansComplete` |
| `NvmePassthruProofs` | `Invariance` | `Spec => []PInv` |
| | `TypeCorrect` | `Spec => []TypeOK` |
| | `NothingFreedNothingLeft` | `Spec => []HeldUntilDone` |
| | `UnionsReadAsWritten` | `Spec => []PduReadAsWritten` |
| | `NamespaceOutlivesUse` | `Spec => []NsOutlivesUse` |
| | `MetadataReachesUser` | `Spec => []MetadataDelivered` |
| | `Refinement` | `NoFixedVectorInput => (Spec => RefinesUserCommand)` |
| `BioMapProofs` | `BioInvariance` | `Spec => []BInv` |
| | `BioTypeCorrect` | `Spec => []TypeOK` |
| | `PagesAreHeldOnce` | `VirtBoundary => (Spec => []PagesHeldOnce)` |
| | `NoPageGivenBackTwice` | `Spec => []EnoughHeld` |
| | `BiosFollowVector` | `Spec => []ImageInOrder` |
| | `BiosWithinLimits` | `Spec => []WithinLimits` |
| | `MappingRefinement` | `VirtBoundary => (Spec => RefinesMappedBuffer)` |

**`SubmitTest`.** The invariant `IInv` adds: what the
position of the main thread implies about buffers, futures and the loop
(`PcInv`), how the cursors move together (`CursorInv`), that each task's chunk lies in
the file at its own offset (`TaskInv`), that tasks are disjoint and
cover what was submitted (`DisjointInv`, `CoverInv`), what has been joined (`JoinInv`),
that a completed task has moved its blocks if the device reports failures as errno
(`MovedInv`), and that a block of the read buffer is either still cleared or was fetched
in this round and is then the device's (`ReadInv`), which needs that the device's
right blocks stay right. The last is the heart of
`PassingRoundIsReal`: the comparison can succeed only for blocks
that were fetched after the buffer was cleared. `Refinement` maps every step to a step
of `BlockTransfer` or a stutter (`StepRefines`); the step from `join` onwards uses that
all tasks are joined and tile the file (`JoinedIsComplete`).

**`IoTest`.** `readData` is not cleared here, so the argument is another: the data of a
round is larger than all data before it (`DataOfRound`). `NewDataInv` says that on a
fresh device a block of the device or of `readData` is either at most the data of the
earlier rounds or was moved in this round; `LostInv` that a command that failed
leaves a block behind that no other command of the round makes up for, because
the commands are disjoint (`ThreadInv`) and cover what is before `currentLba` (`CursorInv`).
A comparison that succeeds then leaves no room for a failure, however many errors
were overwritten. That without a failure all is moved is `MovedInv`.

**`OperationHandler`.** `HInv` says that what was submitted and what remains are the
request (`CursorInv`, with the arithmetic of `BlocksOfSize` and `CommandOfSize`: a size that fills no
last block loses its rest with the last command, and never wraps), that a thread has a bounce
buffer and a part of the request (`TaskInv`), that what was moved is part of the request, and all
of every command that returned 0 (`MovedInv`: when every future was joined with 0, the parts of the
tasks cover the request), and, for the synchronous builds, that the device is what was
intended, or stray, but for the part of the request that has been written (`DataInv`, `Kept`).
`ChunkInv` is what `WholeChunksFit` needs: as long as something remains, only whole chunks were
submitted, so a command without a bounce buffer is the rest of a tensor that is no
multiple of a chunk. `CursorInv` also says that only the first command of a call can have no blocks,
that of a tensor below one block (`EmptyCommand`); so no other tensor ever sends the wrapped count,
which is the core of `WritesStayInRequest`. Where the code left its buffers (`pc = "undefined"`) the
refinement maps the state to `stopped` of `BlockTransfer`.

**`LayerManager`.** `RegionsDisjoint` is not inductive: nothing in it keeps a new layer off the old
ones. `LInv` adds that a layer's five regions lie where
`getTempLBAMgr` puts them from one base (`LaidOut`), that each layer ends at or below
`allocLBAoffset`, and that whole layers are apart. That the regions of one layer
are disjoint is arithmetic over their sizes (`LbaChain`, `SlotsApart`), for
every alignment, block size and gap. `RInv` adds what is stored: every region
that has a CRC holds the whole tensor of one file (`Storage`, which needs `RegionsApart`, that a
transfer is no larger than its region), and if this is the region at which the search
for the file's name stops first, in string order, the tensor is the one last written under that
name. Nothing of this is claimed once a layer is `recounted`; until then a transfer is as large as its
region, because the layer it finds has the count that the name states (`Counted`,
`CountedUnlessRecounted`). A link made later can only move the place where the search stops
to a layer before it, whose CRC then differs or is missing, and the manager stops instead of
returning. `Contracted` says where a client that keeps the contract finds what it wrote, and such a
client never makes a layer `recounted` (`ContractCounts`). `WritesStayInRegion` needs no contents: `LInv`,
and that a layer whose count is the file's has a region as large as the file.

**`AioContext` and `AioMethod`.** `AioInv` makes the counters exact: each is the
number of requests of its direction whose event was not taken, refused ones
included (`CoverInv`). `CallPlace` and `ScopeInv` say where a call of the
layer manager is when requests are outstanding and what is open then. The proofs count
requests by the cardinality of sets of indices (`FiniteSetTheorems`).

**`NvmePassthru`.** `PInv` is one formula per command, for every interleaving of it with the
others. Its core is `HoldInv`: how often a command holds its request, bio, metadata, SRCU and
reference is a function of the position of its thread and of its completion. `PlaceInv` says
which pairs of positions occur (the completion may be over before the submitter left), `PduInv`
what the unions of the private part hold at each, `OutcomeInv` what was reported.
The proof of the step is by what a step of one command may change of another (`Kept`, nothing but
the namespace's state), so that each action is looked at for its own command only. `Refinement` needs the
hypothesis `NoFixedVectorInput`: with a vectored registered buffer a request
is lost (run `passthru_fixed`), and the command is over with something held, which `UserCommand` does
not allow. The instance `nvme_passthru`, like every program without such a
command, meets the hypothesis; the other six theorems do not need it.

**`BioMap`.** `BInv` says how far the bios of the request, the bio being filled and
the iterator are (`CursorInv`), that what a pass has pinned and not added yet is the user's next
units (`PassInv`), that each bio is its part of the vector (`DataInv`) and within the limits
(`LimitInv`), and how often each page is held (`HoldInv`). `HoldInv` is an inequality on any queue
and an equality where gaps are refused: there a pinned vector has later segments that begin with
a page (`AlignInv`, since any other is copied), so that what is merged inside a page is never
another segment's, and the flag `same_page` is not needed. This is why two theorems have the
hypothesis `VirtBoundary`, which the instance `bio_map` meets; the other five hold of any queue. The lengths of bvecs
and bios are added up along sequences by a recursive function, and what the
proof needs of it (that the function exists, its first value and its step, that sums of sequences that
agree are equal) is shown first, by looking at the least length at which it would fail
(`SumsExist` ... `SumIsNat`). `AddedShape` and the lemmas after it say what adding a page does to a bio, merged or not,
one for each of units, image, limits and page references. A registered buffer's bio is
a function of its vector (`FixedParts` ... `FixedLegal`).

What the proofs found in the models. `MatchIsReal` used to claim one half of itself for any
device; its invariant could not be made inductive, and TLC then found the
counterexample in a third round (section 2). `EntryHolds` of `UserRequest`
had a `CASE` with overlapping guards, of which TLC took the first and the prover could assume
neither; it says now what the code does. A place of `NvmePassthru` whose command
leaked its request could be used again, and the leak was forgotten; it is
not used again now. `LayerManager` assumed facts about file names that it
did not state, among them that all files of a layer state one count, which the code does not check: it is
now the ghost `recounted` that says how far the properties reach. `BioMap` did not state that a registered buffer is one segment; and the
equality of `HoldInv` could be shown under `VirtBoundary` only, for which the reason is in section 2.

Model-checked only: all liveness (`Termination`, `CallReturns`, `CallsReturn`, `EndsUnlessSelfWait`;
fairness and `ENABLED` are out of the prover's reach). Every safety property, action property and refinement of a passing run
is a theorem. That `bio_map_user_iov`'s loops end is not claimed in temporal form: `WithinLimits` (no bio is
empty) and `CursorInv` say that each round makes progress.

## 5. Not modelled, and why

* Timing, printing, random numbers as such, the parsing of arguments and paths.
* 32-bit overflow of file sizes in the transfer test (`2 * aligned_file_bytes` is an `int`):
  listed as a hazard. Its sizes are counted in blocks.
* Of the libaio method, the data it moves and the build that opens a file per
  request (`libAIOPhysical 0`); `debugCompare`; `nvme_flush` (nothing calls it).
* phison's `main`: a loop that writes and reads each of 291 files, whose check is
  commented out; a special case of the client of `LayerManager`.
* `ioctl_block`, `huge_page`: straight-line programs.
* CRC32: pure, and its collisions are of no interest here.
* Of `ioctl.c`: commands that take no request (`NVME_IOCTL_ID`, resets, rescan, `sed_ioctl`); the
  layout of a command; that `ns_head` and namespaces are reclaimed by RCU, which only the
  poller relies on.
* Of `blk-map.c`: kernel buffers (`bio_map_kern`, `bio_copy_kern`), which no ioctl of this
  repository maps; the copy of a bounced read back to the user, whose failure
  `nvme_submit_user_cmd` does not look at (a hazard without a property).
* Of `bio.c` and `iov_iter.c` only what `BioMap` uses is modelled. The rest is Linux 6.2.16, and
  the contiguous variants that this repository added are called by nothing.

## 6. Plan

1. *Done*: `BlockTransfer`, `SubmitTest` and its proofs, `OperationHandler`,
   `LayerManager` and its first theorem, `IoTest`, `AioContext`, `MappedBuffer`, `BioMap`.
2. *Done*: `UserCommand`, `UserRequest`, `PassthruIoctl`, `UringCmd`, `NvmePassthru`: who owns request, bio,
   metadata and locks on each path of both ways to issue a command, their completion anywhere, and
   the removal of the namespace; registered buffers in `BioMap`; `AioMethod`, the caller of `AioContext`.
3. *Done*: the proofs of section 4, of every safety property and refinement that a run checks
   of `SubmitTest`, `IoTest`, `OperationHandler`, `LayerManager`, `AioContext`, `AioMethod` and `NvmePassthru`.
4. *Done*: the refactoring of `BioMap` for proofs, its theorems.
5. Perhaps: the copy of bounced data back to the user, with the data in the model of the
   request; the contiguous variants, should anything come to call them.

## 7. Running

In this directory: `tlc -workers 2 -config MCSubmitTest.cfg MCSubmitTest` (and so for
each pair of the tables above; a configuration `MC<Module><Case>.cfg` belongs to module
`MC<Module>`), and `tlapm` for each module `*Proofs.tla` (`tlapm SubmitTestProofs.tla`).
`PROJECT.json` maps every definition to the lines it models, and lists the hazards
with the properties that cover them.
