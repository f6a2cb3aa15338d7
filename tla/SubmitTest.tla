------------------------------ MODULE SubmitTest ------------------------------
(***************************************************************************)
(* The benchmark my_version/nvme_transfer: main, submit_tests, submit_test *)
(* and submit_io.  The main thread splits a file into chunks and gives     *)
(* each chunk to a std::async thread that issues one NVME_IOCTL_SUBMIT_IO; *)
(* it waits for the write chunks, then does the same for the read chunks,  *)
(* then compares the two buffers.  The threads, the main thread and the    *)
(* device interleave freely.                                               *)
(*                                                                         *)
(* Data is modelled one value per 512-byte block.  Block b of the write    *)
(* buffer holds b + 1 (rand() is never seeded, so it is the same in every  *)
(* round and in every run of the program), a cleared block holds Zero, and *)
(* a device block nobody wrote holds Junk.  An ioctl moves its blocks in   *)
(* one step; the calls of different threads happen in any order.           *)
(***************************************************************************)
EXTENDS Integers, Sequences

CONSTANTS
  NBlocks,          \* nblocks: sectors of the file
  BufBlocks,        \* sectors of one buffer (aligned_file_bytes)
  EachSubmitBlocks, \* CHUNK_SIZE / NVME_SECTOR_SIZE
  BufPages,         \* huge pages one buffer takes
  TestRound,        \* test_round
  Builds,           \* the values of ASYNC_IOCTL, a subset of BOOLEAN
  HugePageStrategy, \* HUGE_PAGE_STRATEGY
  Devices,          \* the kinds of device: each the set of results of its ioctls
  OpenMayFail,      \* whether open() may fail
  SpawnMayFail      \* whether std::async may fail to start a thread

AllOutcomes == {"ok", "errno", "status"}

ASSUME SizeAssumption ==
  /\ NBlocks \in Nat \ {0}
  /\ BufBlocks \in Nat /\ BufBlocks >= NBlocks
  /\ EachSubmitBlocks \in Nat \ {0}
  /\ BufPages \in Nat \ {0}
  /\ TestRound \in Nat

ASSUME BuildAssumption ==
  /\ Builds \subseteq BOOLEAN /\ HugePageStrategy \in BOOLEAN
  /\ OpenMayFail \in BOOLEAN /\ SpawnMayFail \in BOOLEAN
  /\ Devices \subseteq SUBSET AllOutcomes

VARIABLES
  async,            \* ASYNC_IOCTL of this build
  outcomes,         \* what an ioctl on this device may return
  pc,               \* where the main thread is
  phase,            \* "write" or "read": which half of submit_test
  round,            \* i in submit_tests
  remainBlocks, eachSubmitBlocks, currentLba,
  writeOffset,      \* currentWriteBuffer - writeBuffer, in blocks
  readOffset,       \* currentReadBuffer - readBuffer, in blocks
  futures,          \* the std::async calls of this phase, in order
  next,             \* the future the join loop waits for
  ret,              \* ret of submit_test
  buffers,          \* "write" / "read" -> "uninit", "allocated" or "freed"
  readData,         \* contents of the read buffer
  device,           \* contents of the LBAs of the file
  hugePages,        \* vm.nr_hugepages
  exitCode,         \* of the process, -1 while it runs
  written, fetched  \* ghosts: blocks moved by this round's writes and reads

setting == <<async, outcomes>>   \* chosen once, never changed
cursor == <<remainBlocks, eachSubmitBlocks, currentLba, writeOffset, readOffset>>
memory == <<readData, device, written, fetched>>
vars == <<setting, pc, phase, round, cursor, futures, next, ret, buffers, memory,
          hugePages, exitCode>>

-----------------------------------------------------------------------------

Zero == 0
Junk == -1
Blocks == 0 .. NBlocks - 1
BufferBlocks == 0 .. BufBlocks - 1
Pattern == [b \in BufferBlocks |-> b + 1]

Phases == {"write", "read"}
Opcode(p) == IF p = "write" THEN "WRITE" ELSE "READ"

\* The process is gone, or (undefined) it has no defined behaviour left.
Terminated == pc \in {"exited", "crashed", "undefined"}

IMin(a, b) == IF a < b THEN a ELSE b

\* `ioctl(...) < 0`: a positive NVMe status is not an error to submit_io.
SubmitIoRet(outcome) == IF outcome = "errno" THEN 1 ELSE 0

(***************************************************************************)
(* The blocks (relative to the command) that a command of n blocks moves.  *)
(* A command the device fails with a status may have moved some of them.   *)
(***************************************************************************)
MovedBy(outcome, n) ==
  CASE outcome = "ok"     -> {0 .. n - 1}
    [] outcome = "errno"  -> {{}}
    [] outcome = "status" -> SUBSET (0 .. n - 1)

(***************************************************************************)
(* One NVME_IOCTL_SUBMIT_IO of n blocks at LBA slba, to or from the buffer *)
(* at block offset off, that moves the blocks in `mv'.                     *)
(***************************************************************************)
Transfer(op, slba, off, mv) ==
  IF op = "WRITE"
  THEN /\ device' = [b \in Blocks |-> IF b - slba \in mv
                                        THEN Pattern[b - slba + off]
                                        ELSE device[b]]
       /\ written' = written \union {b \in Blocks : b - slba \in mv}
       /\ UNCHANGED <<readData, fetched>>
  ELSE /\ readData' = [b \in BufferBlocks |-> IF b - off \in mv
                                                THEN device[b - off + slba]
                                                ELSE readData[b]]
       /\ fetched' = fetched \union {b \in Blocks : b - off \in mv}
       /\ UNCHANGED <<device, written>>

-----------------------------------------------------------------------------

Init ==
  /\ async \in Builds
  /\ outcomes \in Devices
  /\ pc = "reserve"
  /\ phase = "write"
  /\ round = 0
  /\ remainBlocks = 0
  /\ eachSubmitBlocks = 0
  /\ currentLba = 0
  /\ writeOffset = 0
  /\ readOffset = 0
  /\ futures = <<>>
  /\ next = 1
  /\ ret = 0
  /\ buffers = [b \in Phases |-> "uninit"]
  /\ readData = [b \in BufferBlocks |-> Zero]
  /\ device \in {[b \in Blocks |-> Junk], [b \in Blocks |-> Pattern[b]]}
  /\ hugePages = 0
  /\ exitCode = -1
  /\ written = {}
  /\ fetched = {}

(***************************************************************************)
(* Process start and end                                                   *)
(***************************************************************************)

Exit(code) ==
  /\ pc' = "exited"
  /\ exitCode' = code

\* reserve_system_huge_page ignores what sysctl says: the kernel may grant
\* fewer pages than asked for.
ReserveHugePages ==
  /\ pc = "reserve"
  /\ pc' = "open"
  /\ IF HugePageStrategy
     THEN hugePages' \in 0 .. 2 * BufPages
     ELSE UNCHANGED hugePages
  /\ UNCHANGED <<phase, setting, round, cursor, futures, next, ret, buffers, memory, exitCode>>

OpenDevice ==
  /\ pc = "open"
  /\ \/ pc' = "alloc_write"
     \/ OpenMayFail /\ pc' = "fail"
  /\ UNCHANGED <<phase, setting, round, cursor, futures, next, ret, buffers, memory,
                 hugePages, exitCode>>

\* The huge pages taken by the buffers that are allocated.
PagesInUse ==
  BufPages * ((IF buffers["write"] = "allocated" THEN 1 ELSE 0)
              + (IF buffers["read"] = "allocated" THEN 1 ELSE 0))

CanAllocate ==
  HugePageStrategy => hugePages - PagesInUse >= BufPages

AllocateBuffer(b, here, there) ==
  /\ pc = here
  /\ \/ /\ CanAllocate
        /\ buffers' = [buffers EXCEPT ![b] = "allocated"]
        /\ pc' = there
        /\ UNCHANGED exitCode
     \/ /\ HugePageStrategy => ~CanAllocate
        /\ Exit(1)
        /\ UNCHANGED buffers
  /\ UNCHANGED <<phase, setting, round, cursor, futures, next, ret, memory, hugePages>>

AllocateWrite == AllocateBuffer("write", "alloc_write", "alloc_read")
AllocateRead == AllocateBuffer("read", "alloc_read", "round")

\* free_buffer on a pointer that was never assigned has no defined outcome.
FreeBuffers(there) ==
  IF \E b \in Phases : buffers[b] # "allocated"
  THEN pc' = "undefined" /\ UNCHANGED buffers
  ELSE pc' = there /\ buffers' = [b \in Phases |-> "freed"]

FailTests ==
  /\ pc = "fail"
  /\ FreeBuffers("main_failed")
  /\ UNCHANGED <<phase, setting, round, cursor, futures, next, ret, memory, hugePages, exitCode>>

FinishTests ==
  /\ pc = "round" /\ round = TestRound
  /\ FreeBuffers("main_passed")
  /\ UNCHANGED <<phase, setting, round, cursor, futures, next, ret, memory, hugePages, exitCode>>

\* assert_msg(ret == 0, ..., true) calls std::exit(1) before the revert.
MainFailed ==
  /\ pc = "main_failed"
  /\ Exit(1)
  /\ UNCHANGED <<phase, setting, round, cursor, futures, next, ret, buffers, memory, hugePages>>

MainPassed ==
  /\ pc = "main_passed"
  /\ Exit(0)
  /\ hugePages' = IF HugePageStrategy THEN 0 ELSE hugePages
  /\ UNCHANGED <<phase, setting, round, cursor, futures, next, ret, buffers, memory>>

(***************************************************************************)
(* submit_test: one round                                                  *)
(***************************************************************************)

\* (mutant) the read buffer is not cleared between rounds
StartRound_NoReset ==
  /\ pc = "round" /\ round < TestRound
  /\ written' = {} /\ fetched' = {}
  /\ remainBlocks' = NBlocks
  /\ eachSubmitBlocks' = EachSubmitBlocks
  /\ currentLba' = 0 /\ writeOffset' = 0 /\ readOffset' = 0
  /\ futures' = <<>> /\ next' = 1 /\ ret' = 0
  /\ phase' = "write"
  /\ pc' = "submit"
  /\ UNCHANGED <<setting, round, buffers, readData, device, hugePages, exitCode>>

StartRound ==
  /\ pc = "round" /\ round < TestRound
  /\ readData' = [b \in BufferBlocks |-> Zero]
  /\ written' = {} /\ fetched' = {}
  /\ remainBlocks' = NBlocks
  /\ eachSubmitBlocks' = EachSubmitBlocks
  /\ currentLba' = 0 /\ writeOffset' = 0 /\ readOffset' = 0
  /\ futures' = <<>> /\ next' = 1 /\ ret' = 0
  /\ phase' = "write"
  /\ pc' = "submit"
  /\ UNCHANGED <<setting, round, buffers, device, hugePages, exitCode>>

\* The chunk the loop is about to submit, and the advance of its cursors.
ChunkSize == IMin(remainBlocks, eachSubmitBlocks)
ChunkOffset == IF phase = "write" /\ async THEN writeOffset ELSE readOffset

\* (mutant) remainBlocks goes down by a full chunk every time
Advance_FullChunk ==
  /\ eachSubmitBlocks' = ChunkSize
  /\ remainBlocks' = remainBlocks - EachSubmitBlocks
  /\ currentLba' = currentLba + ChunkSize
  /\ IF phase = "write" /\ async
     THEN writeOffset' = writeOffset + ChunkSize /\ UNCHANGED readOffset
     ELSE readOffset' = readOffset + ChunkSize /\ UNCHANGED writeOffset

\* (mutant) the block address stays behind by one block
Advance_OneShort ==
  /\ eachSubmitBlocks' = ChunkSize
  /\ remainBlocks' = remainBlocks - ChunkSize
  /\ currentLba' = currentLba + ChunkSize - 1
  /\ IF phase = "write" /\ async
     THEN writeOffset' = writeOffset + ChunkSize /\ UNCHANGED readOffset
     ELSE readOffset' = readOffset + ChunkSize /\ UNCHANGED writeOffset

Advance ==
  /\ eachSubmitBlocks' = ChunkSize
  /\ remainBlocks' = remainBlocks - ChunkSize
  /\ currentLba' = currentLba + ChunkSize
  /\ IF phase = "write" /\ async
     THEN writeOffset' = writeOffset + ChunkSize /\ UNCHANGED readOffset
     ELSE readOffset' = readOffset + ChunkSize /\ UNCHANGED writeOffset

SpawnTask ==
  /\ pc = "submit" /\ async /\ remainBlocks > 0
  /\ futures' = Append(futures, [op   |-> Opcode(phase),
                                 slba |-> currentLba,
                                 off  |-> ChunkOffset,
                                 n    |-> ChunkSize,
                                 st   |-> "running",
                                 ret  |-> 0])
  /\ Advance
  /\ UNCHANGED <<pc, phase, setting, round, next, ret, buffers, memory, hugePages, exitCode>>

\* std::async throws std::system_error, which nothing catches.
SpawnFails ==
  /\ pc = "submit" /\ async /\ remainBlocks > 0 /\ SpawnMayFail
  /\ pc' = "crashed"
  /\ UNCHANGED <<phase, setting, round, cursor, futures, next, ret, buffers, memory,
                 hugePages, exitCode>>

\* The synchronous build: both loops read, and both advance currentReadBuffer.
SubmitInline ==
  /\ pc = "submit" /\ ~async /\ remainBlocks > 0
  /\ IF ChunkOffset + ChunkSize > BufBlocks
     THEN pc' = "undefined" /\ UNCHANGED <<cursor, ret, memory>>
     ELSE \E outcome \in outcomes : \E mv \in MovedBy(outcome, ChunkSize) :
            /\ Transfer("READ", currentLba, ChunkOffset, mv)
            /\ ret' = SubmitIoRet(outcome)
            /\ IF ret' = 0
               THEN Advance /\ UNCHANGED pc
               ELSE /\ pc' = "unwind"
                    /\ eachSubmitBlocks' = ChunkSize
                    /\ UNCHANGED <<remainBlocks, currentLba, writeOffset, readOffset>>
  /\ UNCHANGED <<phase, setting, round, futures, next, buffers, hugePages, exitCode>>

SubmitDone ==
  /\ pc = "submit" /\ remainBlocks = 0
  /\ pc' = "join"
  /\ UNCHANGED <<phase, setting, round, cursor, futures, next, ret, buffers, memory,
                 hugePages, exitCode>>

Returned(task, r) == [task EXCEPT !.st = "done", !.ret = r]

\* A std::async thread runs submit_io.
RunTask(i) ==
  /\ i \in DOMAIN futures /\ futures[i].st = "running"
  /\ ~Terminated
  /\ \E outcome \in outcomes : \E mv \in MovedBy(outcome, futures[i].n) :
       /\ Transfer(futures[i].op, futures[i].slba, futures[i].off, mv)
       /\ futures' = [futures EXCEPT ![i] = Returned(@, SubmitIoRet(outcome))]
  /\ UNCHANGED <<pc, phase, setting, round, cursor, next, ret, buffers, hugePages, exitCode>>

\* (mutant) ret is overwritten by the next future instead of being tested
JoinNext_IgnoreRet ==
  /\ pc = "join" /\ next \in DOMAIN futures
  /\ futures[next].st = "done"
  /\ ret' = futures[next].ret
  /\ next' = next + 1
  /\ UNCHANGED <<pc, phase, setting, round, cursor, futures, buffers, memory, hugePages, exitCode>>

\* (mutant) the loop never leaves a future whose call succeeded
JoinNext_NoAdvance ==
  /\ pc = "join" /\ next \in DOMAIN futures
  /\ futures[next].st = "done"
  /\ ret' = futures[next].ret
  /\ pc' = IF ret' = 0 THEN pc ELSE "unwind"
  /\ UNCHANGED <<phase, setting, round, cursor, futures, next, buffers, memory, hugePages, exitCode>>

\* f.get() returns
JoinNext ==
  /\ pc = "join" /\ next \in DOMAIN futures
  /\ futures[next].st = "done"
  /\ ret' = futures[next].ret
  /\ IF ret' = 0
     THEN next' = next + 1 /\ UNCHANGED pc
     ELSE pc' = "unwind" /\ UNCHANGED next
  /\ UNCHANGED <<phase, setting, round, cursor, futures, buffers, memory, hugePages, exitCode>>

JoinDone ==
  /\ pc = "join" /\ next = Len(futures) + 1
  /\ pc' = IF phase = "write" THEN "write_done" ELSE "compare"
  /\ UNCHANGED <<phase, setting, round, cursor, futures, next, ret, buffers, memory,
                 hugePages, exitCode>>

\* The destructor of a std::async future waits for its thread.
AllDone == \A i \in DOMAIN futures : futures[i].st = "done"

\* currentReadBuffer is not reset between the two halves.
StartRead ==
  /\ pc = "write_done"
  /\ AllDone
  /\ phase' = "read"
  /\ remainBlocks' = NBlocks
  /\ eachSubmitBlocks' = EachSubmitBlocks
  /\ currentLba' = 0
  /\ futures' = <<>> /\ next' = 1
  /\ pc' = "submit"
  /\ UNCHANGED <<setting, round, writeOffset, readOffset, ret, buffers, memory, hugePages, exitCode>>

\* (mutant) detached threads: nothing waits for them on the error path
Unwind_NoWait ==
  /\ pc = "unwind"
  /\ pc' = "fail"
  /\ UNCHANGED <<phase, setting, round, cursor, futures, next, ret, buffers, memory,
                 hugePages, exitCode>>

\* `fail: return 1': the vector of futures is destroyed.
Unwind ==
  /\ pc = "unwind"
  /\ AllDone
  /\ futures' = <<>>
  /\ pc' = "fail"
  /\ UNCHANGED <<phase, setting, round, cursor, next, ret, buffers, memory, hugePages, exitCode>>

Compare ==
  /\ pc = "compare"
  /\ AllDone
  /\ futures' = <<>>
  /\ IF \A b \in Blocks : readData[b] = Pattern[b]
     THEN /\ ret' = 0
          /\ round' = round + 1
          /\ pc' = "round"
     ELSE /\ ret' = 1
          /\ pc' = "fail"
          /\ UNCHANGED round
  /\ UNCHANGED <<phase, setting, cursor, next, buffers, memory, hugePages, exitCode>>

Done == Terminated /\ UNCHANGED vars

Main ==
  \/ ReserveHugePages \/ OpenDevice \/ AllocateWrite \/ AllocateRead
  \/ StartRound \/ SpawnTask \/ SpawnFails \/ SubmitInline \/ SubmitDone
  \/ JoinNext \/ JoinDone \/ StartRead \/ Unwind \/ Compare
  \/ FailTests \/ FinishTests \/ MainFailed \/ MainPassed

Next ==
  \/ Main
  \/ \E i \in DOMAIN futures : RunTask(i)
  \/ Done

Spec == Init /\ [][Next]_vars

MaxTasks == (NBlocks + EachSubmitBlocks - 1) \div EachSubmitBlocks

\* The scheduler runs every runnable thread and every ioctl returns.
FairSpec ==
  /\ Spec
  /\ WF_vars(Main)
  /\ \A i \in 1 .. MaxTasks : WF_vars(RunTask(i))

-----------------------------------------------------------------------------
(***************************************************************************)
(* Properties                                                              *)
(***************************************************************************)

Task ==
  [op : {"WRITE", "READ"}, slba : Nat, off : Nat, n : Nat \ {0},
   st : {"running", "done"}, ret : {0, 1}]

PcNames ==
  {"reserve", "open", "alloc_write", "alloc_read", "round", "submit", "join",
   "write_done", "compare", "unwind", "fail", "main_failed", "main_passed",
   "exited", "crashed", "undefined"}

\* Every variable has its type; in particular no cursor goes negative.
TypeOK ==
  /\ async \in Builds
  /\ outcomes \in Devices
  /\ pc \in PcNames
  /\ phase \in Phases
  /\ round \in 0 .. TestRound
  /\ remainBlocks \in 0 .. NBlocks
  /\ eachSubmitBlocks \in Nat
  /\ currentLba \in Nat
  /\ writeOffset \in Nat
  /\ readOffset \in Nat
  /\ futures \in Seq(Task)
  /\ next \in Nat \ {0}
  /\ ret \in {0, 1}
  /\ buffers \in [Phases -> {"uninit", "allocated", "freed"}]
  /\ readData \in [BufferBlocks -> Int]
  /\ device \in [Blocks -> Int]
  /\ hugePages \in Nat
  /\ exitCode \in {-1, 0, 1}
  /\ written \in SUBSET Blocks
  /\ fetched \in SUBSET Blocks

\* While any thread may still be inside its ioctl, both buffers are mapped:
\* no path out of submit_test, not even a failed join, reaches free_buffer
\* ahead of a thread that uses the buffer.
NoUseAfterFree ==
  (\E i \in DOMAIN futures : futures[i].st = "running")
    => \A b \in Phases : buffers[b] = "allocated"

\* The chunks handed to the threads of one phase do not overlap, stay inside
\* the file, and leave no gap: they are exactly the blocks below currentLba.
ChunksPartition ==
  /\ \A i \in DOMAIN futures :
       /\ futures[i].off = futures[i].slba
       /\ futures[i].slba + futures[i].n <= NBlocks
       /\ \A j \in DOMAIN futures :
            i < j => futures[i].slba + futures[i].n <= futures[j].slba
  /\ futures # <<>> =>
       \A b \in 0 .. currentLba - 1 : \E i \in DOMAIN futures :
         b \in futures[i].slba .. futures[i].slba + futures[i].n - 1

\* When a round has passed, every block of the read buffer was fetched from
\* the device in that very round and the device holds the file, whatever the
\* ioctls returned and although submit_io takes a positive status for success.
\* This is what clearing the read buffer before each round is for.
PassMeansOnDevice ==
  (pc = "round" /\ round > 0) =>
    /\ fetched = Blocks
    /\ \A b \in Blocks : device[b] = Pattern[b]

\* The program does not hang: no join waits for ever.
Termination == <>Terminated

TransferState ==
  CASE pc \in {"submit", "join", "unwind"} -> "busy"
    [] pc \in {"reserve", "open", "alloc_write", "alloc_read", "round",
               "write_done", "compare"}    -> "idle"
    [] OTHER                               -> "stopped"

Moved == IF phase = "write" THEN written ELSE fetched

\* The asynchronous build on a device that reports every failure as an errno.
\* Nothing is claimed about the others: they are mapped to a BlockTransfer that
\* is never used.
Faithful == async /\ "status" \notin outcomes

BT == INSTANCE BlockTransfer
        WITH state <- IF Faithful THEN TransferState ELSE "idle",
             request <- Blocks,
             moved <- IF Faithful THEN Moved ELSE {}

\* In the asynchronous build, if the device never completes a command with a
\* status, each half of submit_test is a request for all blocks of the file, and
\* submit_test goes on to what follows it only when every block was moved.
RefinesBlockTransfer == BT!Spec

\* What the doc of submit_io says: it returns 0 only if the operation was
\* successful, that is, if the device moved the blocks.
SubmitIoReportsFailure ==
  \A i \in DOMAIN futures :
    (futures[i].st = "done" /\ futures[i].ret = 0) =>
      \A b \in Blocks :
        b \in futures[i].slba .. futures[i].slba + futures[i].n - 1
          => b \in (IF futures[i].op = "WRITE" THEN written ELSE fetched)

\* What the doc of submit_test says of the first half, in either build: the
\* write buffer is written to the device before the read is timed.
WriteLoopWrites == pc = "write_done" => written = Blocks

-----------------------------------------------------------------------------
(***************************************************************************)
(* The inductive invariant behind the theorems of SubmitTestProofs         *)
(***************************************************************************)

Startup == {"reserve", "open", "alloc_write", "alloc_read"}
InTest == {"submit", "join", "write_done", "compare", "unwind"}

\* Where the main thread is determines which buffers it holds, whether there
\* are tasks, and how far the loop has come.
PcInv ==
  /\ pc \in Startup => round = 0
  /\ pc \in InTest => round < TestRound
  /\ pc = "alloc_read" => buffers["write"] = "allocated"
  /\ pc \in InTest \union {"round", "crashed"} => \A b \in Phases : buffers[b] = "allocated"
  /\ pc \notin InTest \union {"crashed"} => futures = <<>>
  /\ pc \in {"join", "write_done", "compare"} => remainBlocks = 0
  /\ pc = "submit" => eachSubmitBlocks > 0 /\ next = 1
  /\ pc = "write_done" => phase = "write"
  /\ pc = "compare" => phase = "read"

\* How the cursors of the loop move together.
CursorInv ==
  /\ currentLba <= NBlocks
  /\ pc \in {"submit", "join", "write_done", "compare"} => currentLba + remainBlocks = NBlocks
  /\ pc = "submit" /\ async => ChunkOffset = currentLba
  /\ pc \in InTest /\ async /\ phase = "write" => readOffset = 0
  /\ pc \in {"submit", "join", "write_done"} /\ ~async =>
       readOffset = currentLba + (IF phase = "write" THEN 0 ELSE NBlocks)

\* A task moves its blocks between equal offsets of the file and the buffer.
TaskInv ==
  /\ ~async => futures = <<>>
  /\ \A i \in DOMAIN futures :
       /\ futures[i].op = Opcode(phase)
       /\ futures[i].off = futures[i].slba
       /\ futures[i].slba + futures[i].n <= currentLba

DisjointInv ==
  \A i, j \in DOMAIN futures :
    i < j => futures[i].slba + futures[i].n <= futures[j].slba

BlocksOf(task) == task.slba .. task.slba + task.n - 1

CoverInv ==
  (pc \in InTest \ {"unwind"} /\ async) \/ futures # <<>> =>
    \A b \in 0 .. currentLba - 1 : \E i \in DOMAIN futures : b \in BlocksOf(futures[i])

JoinInv ==
  /\ pc = "join" => \A i \in DOMAIN futures : i < next => futures[i].st = "done" /\ futures[i].ret = 0
  /\ pc \in {"write_done", "compare"} => \A i \in DOMAIN futures : futures[i].st = "done" /\ futures[i].ret = 0

\* A call that returned 0 moved its blocks, if no call can return a status.
MovedInv ==
  "status" \notin outcomes => SubmitIoReportsFailure

\* The part of the read buffer that is compared holds what was fetched in this
\* round, and Zero elsewhere.
ReadInv ==
  pc \in InTest =>
    /\ async /\ phase = "write" => fetched = {}
    /\ \A b \in Blocks :
         IF b \in fetched THEN readData[b] = device[b] ELSE readData[b] = Zero

IInv ==
  /\ TypeOK /\ PcInv /\ CursorInv /\ TaskInv /\ DisjointInv /\ CoverInv
  /\ JoinInv /\ MovedInv /\ ReadInv /\ PassMeansOnDevice
=============================================================================
