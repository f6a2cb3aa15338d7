--------------------------- MODULE OperationHandler ---------------------------
(***************************************************************************)
(* phison_version: nvme_operation_handler moves one tensor between memory  *)
(* and the device.  It opens the device, splits the tensor into commands   *)
(* of at most chunkSize blocks and issues them, in the shipped build each  *)
(* on a std::async thread with a bounce buffer of its own, in the two      *)
(* synchronous builds one after the other.  Anything that goes wrong stops *)
(* the program with assert (NDEBUG is not defined).                        *)
(*                                                                         *)
(* A size is counted in parts of a block (PartsPerBlock to the block), so  *)
(* that a tensor need not fill its last block; data is one value to the    *)
(* block.                                                                  *)
(***************************************************************************)
EXTENDS Integers, Sequences

CONSTANTS
  ChunkSize,      \* chunkSize: blocks of the largest command
  MaxBlocks,      \* what the 16-bit field nblocks stands for when it wraps
  PartsPerBlock,  \* the unit of size: size >> 9 is size \div PartsPerBlock
  Lbas,           \* blocks of the device
  Requests,       \* the calls the program makes: sets of [op, slba, size]
  MaxCalls,       \* bound on the number of calls
  Builds,         \* subset of {"bounce", "inline"}
  Outcomes        \* what an ioctl may return, a subset of AllOutcomes

AllOutcomes == {"ok", "errno", "status"}

ASSUME HandlerAssumption ==
  /\ ChunkSize \in Nat \ {0} /\ PartsPerBlock \in Nat \ {0} /\ Lbas \in Nat
  /\ MaxBlocks \in Nat /\ ChunkSize <= MaxBlocks /\ MaxCalls \in Nat
  /\ Requests \subseteq [op : {"READ", "WRITE"}, slba : Nat, size : Nat \ {0}]
  /\ \A r \in Requests : r.slba + r.size \div PartsPerBlock <= Lbas
  /\ Builds \subseteq {"bounce", "inline"}
  /\ Outcomes \subseteq AllOutcomes

VARIABLES
  build,          \* "bounce": asyncFeat 1, as shipped; "inline": asyncFeat 0
  pc,             \* where the call is
  returnVal,      \* what the last ioctl of a synchronous build returned
  req,            \* the arguments of the call
  slba, size,     \* the two arguments the loop counts
  newData,        \* newData - data, in blocks
  bounce,         \* data_pointers: the contents of each bounce buffer
  mapped,         \* which bounce buffers are mapped
  tasks,          \* the std::async calls
  next,           \* the future, then the bounce buffer, the loop is at
  backupSize,
  data,           \* the caller's buffer
  device,         \* the blocks of the device
  intended,       \* ghost: what the calls that returned should have stored
  moved,          \* ghost: blocks of this request the device has moved
  calls           \* number of calls so far

loop == <<slba, size, newData>>
ghosts == <<intended, calls>>
vars == <<build, pc, returnVal, req, loop, bounce, mapped, tasks, next, backupSize, data,
          device, ghosts, moved>>

-----------------------------------------------------------------------------

Blank == 0
Async == build = "bounce"
BlocksOf(parts) == parts \div PartsPerBlock
ReqBlocks == 0 .. BlocksOf(req.size) - 1
\* "undefined": memory that is not the call's was used; nothing is said of what follows.
Stopped == pc \in {"aborted", "undefined"}

\* The caller's tensor for its n-th call: every block is different.
Tensor(n) == [b \in 0 .. Lbas - 1 |-> n * Lbas + b + 1]
\* A block of what lies behind the caller's buffer: no block of any tensor.
Stray == MaxCalls * Lbas + 1

\* The size of the next command, and what it leaves of a size.
CommandBlocks(parts) == IF BlocksOf(parts) > ChunkSize THEN ChunkSize ELSE BlocksOf(parts)
\* (mutant) no special case for the last command: an unsigned size wraps
Rest_Always(parts) == parts - ChunkSize * PartsPerBlock

\* (mutant) `>=' for `>': what does not fill a block is left to a command of its own
Rest_AtLeast(parts) == IF BlocksOf(parts) >= ChunkSize THEN parts - ChunkSize * PartsPerBlock ELSE 0

Rest(parts) == IF BlocksOf(parts) > ChunkSize THEN parts - ChunkSize * PartsPerBlock ELSE 0

\* The blocks a command of n blocks moves.
MovedBy(outcome, n) ==
  CASE outcome = "ok"     -> {0 .. n - 1}
    [] outcome = "errno"  -> {{}}
    [] outcome = "status" -> SUBSET (0 .. n - 1)

Init ==
  /\ build \in Builds
  /\ pc = "idle"
  /\ returnVal = "ok"
  /\ req = [op |-> "READ", slba |-> 0, size |-> 1]
  /\ slba = 0 /\ size = 0 /\ newData = 0
  /\ bounce = <<>> /\ mapped = {} /\ tasks = <<>> /\ next = 1
  /\ backupSize = 0
  /\ data = [b \in 0 .. Lbas - 1 |-> Blank]
  /\ device = [b \in 0 .. Lbas - 1 |-> Blank]
  /\ intended = [b \in 0 .. Lbas - 1 |-> Blank]
  /\ moved = {}
  /\ calls = 0

\* A call maps its bounce buffers; the assert on a failed mmap or open stops the
\* program (Open).
Call(r) ==
  /\ pc = "idle" /\ calls < MaxCalls
  /\ calls' = calls + 1
  /\ req' = r
  /\ slba' = r.slba /\ size' = r.size /\ newData' = 0
  /\ backupSize' = r.size
  /\ data' = IF r.op = "WRITE" THEN Tensor(calls) ELSE [b \in 0 .. Lbas - 1 |-> Blank]
  /\ LET buffers == IF Async THEN BlocksOf(r.size) \div ChunkSize ELSE 0
     IN  /\ bounce' = [i \in 1 .. buffers |-> [k \in 0 .. ChunkSize - 1 |-> Blank]]
         /\ mapped' = 1 .. buffers
  /\ tasks' = <<>> /\ next' = 1 /\ moved' = {}
  /\ pc' = "open"
  /\ UNCHANGED <<build, returnVal, device, intended>>

Open ==
  /\ pc = "open"
  /\ pc' \in {"loop", "aborted"}
  /\ UNCHANGED <<build, returnVal, req, loop, bounce, mapped, tasks, next, backupSize, data,
                 device, ghosts, moved>>

\* The effect of one ioctl of n blocks at LBA lba that moves the blocks mv of
\* it, between the device and the buffer `mem' (block 0 of the command first).
DeviceAfter(op, lba, mem, mv) ==
  IF op = "WRITE"
  THEN [b \in 0 .. Lbas - 1 |-> IF b - lba \in mv THEN mem[b - lba] ELSE device[b]]
  ELSE device

MemoryAfter(op, lba, mem, mv) ==
  IF op = "READ"
  THEN [k \in DOMAIN mem |-> IF k \in mv THEN device[lba + k] ELSE mem[k]]
  ELSE mem

Requested(lba, mv) == {lba - req.slba + k : k \in mv}

\* The shipped build: the first block of `data', not of newData, is copied to
\* the bounce buffer.  data_pointers has no entry for an incomplete chunk.
SubmitTask ==
  /\ pc = "loop" /\ Async /\ size > 0
  /\ LET n == CommandBlocks(size)
         i == Len(tasks) + 1
     IN  IF i > Len(bounce)
         THEN pc' = "undefined" /\ UNCHANGED <<loop, bounce, tasks>>
         ELSE /\ bounce' = IF req.op = "WRITE"
                           THEN [bounce EXCEPT ![i] = [k \in DOMAIN @ |->
                                  IF k < n THEN data[k] ELSE @[k]]]
                           ELSE bounce
              /\ tasks' = Append(tasks, [slba |-> slba, n |-> n, st |-> "running", ret |-> "ok"])
              /\ size' = Rest(size)
              /\ slba' = slba + n
              /\ newData' = newData + n
              /\ UNCHANGED pc
  /\ UNCHANGED <<build, returnVal, req, mapped, next, backupSize, data, device, ghosts, moved>>

\* std::async throws std::system_error when it gets no thread; nothing catches it.
AsyncThrows ==
  /\ pc = "loop" /\ Async /\ size > 0 /\ Len(tasks) < Len(bounce)
  /\ pc' = "aborted"
  /\ UNCHANGED <<build, returnVal, req, loop, bounce, mapped, tasks, next, backupSize, data,
                 device, ghosts, moved>>

\* (mutant) newData stays where it is, as in the memcpy of the shipped build
SubmitInline_SameData ==
  /\ pc = "loop" /\ ~Async /\ CommandBlocks(size) > 0
  /\ LET n == CommandBlocks(size)
         mem == [k \in 0 .. n - 1 |-> data[k]]
     IN  \E outcome \in Outcomes : \E mv \in MovedBy(outcome, n) :
           /\ device' = DeviceAfter(req.op, slba, mem, mv)
           /\ data' = [b \in DOMAIN data |->
                         IF b \in 0 .. n - 1
                         THEN MemoryAfter(req.op, slba, mem, mv)[b] ELSE data[b]]
           /\ moved' = moved \union Requested(slba, mv)
           /\ returnVal' = outcome /\ pc' = "check"
           /\ size' = Rest(size)
           /\ slba' = slba + n
           /\ UNCHANGED newData
  /\ UNCHANGED <<build, req, bounce, mapped, tasks, next, backupSize, ghosts>>

\* The synchronous builds; where posixMemalignFeat is 1 a command goes through
\* a copy of its own, which changes nothing but one more way to fail.
SubmitInline ==
  /\ pc = "loop" /\ ~Async /\ CommandBlocks(size) > 0
  /\ LET n == CommandBlocks(size)
         mem == [k \in 0 .. n - 1 |-> data[newData + k]]
     IN  \E outcome \in Outcomes : \E mv \in MovedBy(outcome, n) :
           /\ device' = DeviceAfter(req.op, slba, mem, mv)
           /\ data' = [b \in DOMAIN data |->
                         IF b - newData \in 0 .. n - 1
                         THEN MemoryAfter(req.op, slba, mem, mv)[b - newData]
                         ELSE data[b]]
           /\ moved' = moved \union Requested(slba, mv)
           /\ returnVal' = outcome /\ pc' = "check"
           /\ size' = Rest(size)
           /\ slba' = slba + n
           /\ newData' = newData + n
  /\ UNCHANGED <<build, req, bounce, mapped, tasks, next, backupSize, ghosts>>

\* A command of no blocks: `nblocks - 1' wraps in the 16-bit field, and the device is
\* asked for MaxBlocks blocks.  It moves what lies on it and no more.  A write takes
\* them from behind the caller's buffer, a read puts them there.
SubmitEmpty ==
  /\ pc = "loop" /\ ~Async /\ size > 0 /\ CommandBlocks(size) = 0
  /\ \E outcome \in Outcomes : \E mv \in MovedBy(outcome, MaxBlocks) :
       /\ \A k \in mv : slba + k < Lbas
       /\ IF req.op = "READ" /\ mv # {}
          THEN pc' = "undefined" /\ UNCHANGED <<returnVal, size, device>>
          ELSE /\ device' = DeviceAfter(req.op, slba, [k \in 0 .. MaxBlocks - 1 |-> Stray], mv)
               /\ returnVal' = outcome /\ pc' = "check"
               /\ size' = Rest(size)
  /\ UNCHANGED <<build, req, slba, newData, bounce, mapped, tasks, next, backupSize, data, ghosts,
                 moved>>

\* `assert(returnVal == 0)'.
CheckInline ==
  /\ pc = "check"
  /\ pc' = IF returnVal = "ok" THEN "loop" ELSE "aborted"
  /\ UNCHANGED <<build, returnVal, req, loop, bounce, mapped, tasks, next, backupSize,
                 data, device, ghosts, moved>>

LoopDone ==
  /\ pc = "loop" /\ size = 0
  /\ pc' = IF Async THEN "join" ELSE "close"
  /\ UNCHANGED <<build, returnVal, req, loop, bounce, mapped, tasks, next, backupSize, data,
                 device, ghosts, moved>>

\* A thread issues its ioctl on its bounce buffer.
RunTask(i) ==
  /\ i \in DOMAIN tasks /\ tasks[i].st = "running" /\ ~Stopped
  /\ \E outcome \in Outcomes : \E mv \in MovedBy(outcome, tasks[i].n) :
       /\ device' = DeviceAfter(req.op, tasks[i].slba, bounce[i], mv)
       /\ bounce' = [bounce EXCEPT ![i] = MemoryAfter(req.op, tasks[i].slba, @, mv)]
       /\ moved' = moved \union Requested(tasks[i].slba, mv)
       /\ tasks' = [tasks EXCEPT ![i].st = "done", ![i].ret = outcome]
  /\ UNCHANGED <<build, returnVal, pc, req, loop, mapped, next, backupSize, data, ghosts>>

\* (mutant) `result < 0', as in the other programs of the repository
JoinNext_NegativeOnly ==
  /\ pc = "join" /\ next \in DOMAIN tasks
  /\ tasks[next].st = "done"
  /\ pc' = IF tasks[next].ret # "errno" THEN "join" ELSE "aborted"
  /\ next' = next + 1
  /\ UNCHANGED <<build, returnVal, req, loop, bounce, mapped, tasks, backupSize, data, device,
                 ghosts, moved>>

\* (mutant) the loop does not go on to the next future
JoinNext_Stuck ==
  /\ pc = "join" /\ next \in DOMAIN tasks
  /\ tasks[next].st = "done"
  /\ pc' = IF tasks[next].ret = "ok" THEN "join" ELSE "aborted"
  /\ UNCHANGED <<build, returnVal, req, loop, bounce, mapped, tasks, next, backupSize, data, device,
                 ghosts, moved>>

\* `if (result != 0) assert(0)': a positive status is an error here.
JoinNext ==
  /\ pc = "join" /\ next \in DOMAIN tasks
  /\ tasks[next].st = "done"
  /\ pc' = IF tasks[next].ret = "ok" THEN "join" ELSE "aborted"
  /\ next' = next + 1
  /\ UNCHANGED <<build, returnVal, req, loop, bounce, mapped, tasks, backupSize, data, device,
                 ghosts, moved>>

\* (mutant) the loop stops one future early
JoinDone_Early ==
  /\ pc = "join" /\ next >= Len(tasks)
  /\ pc' = "free"
  /\ next' = 1
  /\ UNCHANGED <<build, returnVal, req, loop, bounce, mapped, tasks, backupSize, data, device,
                 ghosts, moved>>

JoinDone ==
  /\ pc = "join" /\ next = Len(tasks) + 1
  /\ pc' = "free"
  /\ next' = 1
  /\ UNCHANGED <<build, returnVal, req, loop, bounce, mapped, tasks, backupSize, data, device,
                 ghosts, moved>>

\* Every bounce buffer is copied to the start of `data', then unmapped.
FreeBuffer ==
  /\ pc = "free" /\ next \in DOMAIN bounce
  /\ IF backupSize = 0
     THEN pc' = "aborted" /\ UNCHANGED <<next, mapped, backupSize, data>>
     ELSE /\ data' = IF req.op = "READ"
                     THEN [b \in DOMAIN data |-> IF b < CommandBlocks(backupSize)
                                                   THEN bounce[next][b] ELSE data[b]]
                     ELSE data
          /\ mapped' = mapped \ {next}
          /\ backupSize' = Rest(backupSize)
          /\ next' = next + 1
          /\ UNCHANGED pc
  /\ UNCHANGED <<build, returnVal, req, loop, bounce, tasks, device, ghosts, moved>>

FreeDone ==
  /\ pc = "free" /\ next = Len(bounce) + 1
  /\ bounce' = <<>>
  /\ pc' = "close"
  /\ UNCHANGED <<build, returnVal, req, loop, mapped, tasks, next, backupSize, data, device,
                 ghosts, moved>>

Return ==
  /\ pc = "close"
  /\ pc' = "idle"
  /\ intended' = IF req.op = "WRITE"
                 THEN [b \in DOMAIN intended |-> IF b - req.slba \in ReqBlocks
                                                   THEN data[b - req.slba] ELSE intended[b]]
                 ELSE intended
  /\ UNCHANGED <<build, returnVal, req, loop, bounce, mapped, tasks, next, backupSize, data,
                 device, moved, calls>>

Done ==
  /\ Stopped \/ (pc = "idle" /\ calls = MaxCalls)
  /\ UNCHANGED vars

Caller == \E r \in Requests : Call(r)
Handler == Open \/ SubmitTask \/ AsyncThrows \/ SubmitInline \/ SubmitEmpty \/ CheckInline
           \/ LoopDone \/ JoinNext \/ JoinDone \/ FreeBuffer \/ FreeDone \/ Return
Threads == \E i \in DOMAIN tasks : RunTask(i)

Next == Caller \/ Handler \/ Threads \/ Done

Spec == Init /\ [][Next]_vars
\* Every ioctl returns and every runnable thread runs.
FairSpec == Spec /\ WF_vars(Handler) /\ WF_vars(Threads)

-----------------------------------------------------------------------------
(* Properties                                                              *)

Task == [slba : 0 .. Lbas, n : 0 .. ChunkSize, st : {"running", "done"}, ret : AllOutcomes]
Contents == [0 .. Lbas - 1 -> Nat]

\* Every variable has its type; in particular the unsigned size never wraps and
\* no command starts outside the device.
TypeOK ==
  /\ build \in Builds
  /\ pc \in {"idle", "open", "loop", "check", "join", "free", "close", "aborted", "undefined"}
  /\ returnVal \in AllOutcomes
  /\ slba \in 0 .. Lbas /\ size \in Nat /\ newData \in 0 .. Lbas /\ backupSize \in Nat
  /\ bounce \in Seq([0 .. ChunkSize - 1 -> Nat])
  /\ mapped \subseteq DOMAIN bounce
  /\ tasks \in Seq(Task) /\ next \in Nat \ {0}
  /\ data \in Contents /\ device \in Contents /\ intended \in Contents
  /\ moved \subseteq 0 .. Lbas - 1 /\ calls \in 0 .. MaxCalls

\* No bounce buffer is unmapped, and the device is not closed, while a thread
\* may still be inside an ioctl that uses them.
NoTaskWithoutBuffer ==
  ~Stopped => \A i \in DOMAIN tasks :
    tasks[i].st = "running" => i \in mapped /\ pc \in {"loop", "join"}

\* However a tensor of at least one block is cut into commands, a call writes no block
\* of the device outside its request.  A tensor below one block asks for no block; the
\* shipped build writes none, the synchronous builds may write any of the MaxBlocks
\* blocks from slba on, and no other.
StaysInRequest ==
  [][\A b \in DOMAIN device :
       device'[b] # device[b] =>
         /\ req.op = "WRITE"
         /\ \/ b - req.slba \in ReqBlocks
            \/ ~Async /\ ReqBlocks = {} /\ b - req.slba \in 0 .. MaxBlocks - 1]_vars

\* In the synchronous builds a read returns, block for block, what the last
\* calls that wrote those blocks were given, but for blocks that a write of a tensor
\* below one block has overwritten with what lay behind its buffer.
ReadBackInline ==
  (pc = "idle" /\ calls > 0 /\ req.op = "READ" /\ ~Async) =>
    \A b \in ReqBlocks : data[b] = intended[req.slba + b] \/ data[b] = Stray

\* The shipped build goes past its bounce buffers (data_pointers[pointer_idx]) only for
\* a tensor whose blocks are not whole chunks, or that has none; a synchronous build
\* overruns the caller's buffer only in the read of a tensor below one block.
WholeChunksFit ==
  pc = "undefined" =>
    IF Async THEN ReqBlocks = {} \/ BlocksOf(req.size) % ChunkSize # 0
    ELSE ReqBlocks = {} /\ req.op = "READ"

\* Every call returns or stops the program.
CallReturns == pc = "open" ~> (pc = "idle" \/ Stopped)

BT == INSTANCE BlockTransfer
        WITH Blocks <- 0 .. Lbas - 1,
             state <- IF Stopped THEN "stopped" ELSE IF pc = "idle" THEN "idle" ELSE "busy",
             request <- IF calls = 0 THEN {} ELSE ReqBlocks,
             moved <- moved

\* A call that returns has moved every block of its request, in every build
\* and whatever the device answers.
RefinesBlockTransfer == BT!Spec

\* What the disabled comparison in main says of the shipped build: the tensor
\* that is read is the tensor that was written.
ReadBack ==
  (pc = "idle" /\ calls > 0 /\ req.op = "READ") =>
    \A b \in ReqBlocks : data[b] = intended[req.slba + b]
=============================================================================
