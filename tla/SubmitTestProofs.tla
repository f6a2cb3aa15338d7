--------------------------- MODULE SubmitTestProofs ---------------------------
(***************************************************************************)
(* Proofs about SubmitTest for every file size, chunk size, number of      *)
(* rounds, and every behaviour of the device.                              *)
(***************************************************************************)
EXTENDS SubmitTest, SequenceTheorems, TLAPS

USE DEF setting

-----------------------------------------------------------------------------
(* Helpers                                                                 *)

\* What Init and the actions leave out of the picture: the fields of a task.
LEMMA TaskFields ==
  ASSUME NEW t \in Task
  PROVE  /\ t.slba \in Nat /\ t.off \in Nat /\ t.n \in Nat \ {0}
         /\ t.st \in {"running", "done"} /\ t.ret \in {0, 1}
         /\ t.op \in {"WRITE", "READ"}
  BY DEF Task

\* Appending one task to the futures.
LEMMA AppendTask ==
  ASSUME NEW s \in Seq(Task), NEW t \in Task
  PROVE  /\ Append(s, t) \in Seq(Task)
         /\ DOMAIN Append(s, t) = 1 .. Len(s) + 1
         /\ DOMAIN s = 1 .. Len(s) /\ Len(s) \in Nat
         /\ Append(s, t)[Len(s) + 1] = t
         /\ \A i \in 1 .. Len(s) : Append(s, t)[i] = s[i]
  OBVIOUS

\* A returned task differs from the running one in st and ret only.
LEMMA ReturnedTask ==
  ASSUME NEW t \in Task, NEW r \in {0, 1}
  PROVE  /\ Returned(t, r) \in Task
         /\ Returned(t, r).op = t.op /\ Returned(t, r).slba = t.slba
         /\ Returned(t, r).off = t.off /\ Returned(t, r).n = t.n
         /\ Returned(t, r).st = "done" /\ Returned(t, r).ret = r
  BY DEF Task, Returned

\* The futures after the i-th task returned.
LEMMA FuturesAfterReturn ==
  ASSUME NEW s \in Seq(Task), NEW i \in DOMAIN s, NEW r \in {0, 1}
  PROVE  LET f == [s EXCEPT ![i] = Returned(@, r)]
         IN  /\ f \in Seq(Task)
             /\ DOMAIN f = DOMAIN s /\ DOMAIN s = 1 .. Len(s) /\ Len(s) \in Nat
             /\ f[i] = Returned(s[i], r)
             /\ \A j \in DOMAIN s : j # i => f[j] = s[j]
             /\ \A j \in DOMAIN s : /\ f[j].op = s[j].op /\ f[j].slba = s[j].slba
                                    /\ f[j].off = s[j].off /\ f[j].n = s[j].n
<1>1. DOMAIN s = 1 .. Len(s) /\ Len(s) \in Nat
  BY LenProperties
<1>2. s[i] \in Task
  BY <1>1, ElementOfSeq
<1>3. Returned(s[i], r) \in Task
  BY <1>2, ReturnedTask
<1>4. /\ [s EXCEPT ![i] = Returned(s[i], r)] \in Seq(Task)
      /\ \A j \in 1 .. Len(s) :
           [s EXCEPT ![i] = Returned(s[i], r)][j] = IF j = i THEN Returned(s[i], r) ELSE s[j]
  BY <1>1, <1>3, ExceptSeq
<1>5. /\ Returned(s[i], r).op = s[i].op /\ Returned(s[i], r).slba = s[i].slba
      /\ Returned(s[i], r).off = s[i].off /\ Returned(s[i], r).n = s[i].n
  BY <1>2, ReturnedTask
<1> QED
  BY <1>1, <1>4, <1>5

\* A chunk is never empty and never larger than what remains.
LEMMA ChunkBounds ==
  ASSUME TypeOK, remainBlocks > 0, eachSubmitBlocks > 0
  PROVE  /\ ChunkSize \in Nat \ {0}
         /\ ChunkSize <= remainBlocks
  BY DEF TypeOK, ChunkSize, IMin

\* A command moves some of its own blocks.
LEMMA MovedByRange ==
  ASSUME NEW outcome \in AllOutcomes, NEW n \in Nat, NEW mv \in MovedBy(outcome, n)
  PROVE  /\ mv \subseteq 0 .. n - 1
         /\ outcome = "ok" => mv = 0 .. n - 1
  BY DEF MovedBy, AllOutcomes

-----------------------------------------------------------------------------
(* The inductive invariant: initially                                      *)

LEMMA InitIInv == Init => IInv
<1> SUFFICES ASSUME Init PROVE IInv
  OBVIOUS
<1> USE SizeAssumption, BuildAssumption
<1>1. <<>> \in Seq(Task) /\ DOMAIN <<>> = {}
  BY EmptySeq
<1>2. TypeOK
  <2>1. device \in [Blocks -> Int]
    <3>1. \A b \in Blocks : Pattern[b] \in Int
      BY DEF Pattern, Blocks, BufferBlocks
    <3> QED
      BY <3>1 DEF Init, Junk
  <2>2. readData \in [BufferBlocks -> Int]
    BY DEF Init, Zero
  <2>3. buffers \in [Phases -> {"uninit", "allocated", "freed"}]
    BY DEF Init, Phases
  <2> QED
    BY <1>1, <2>1, <2>2, <2>3 DEF Init, TypeOK, PcNames, Phases
<1>3. PcInv /\ CursorInv
  BY DEF Init, PcInv, CursorInv, Startup, InTest
<1>4. TaskInv /\ DisjointInv /\ CoverInv
  BY <1>1 DEF Init, TaskInv, DisjointInv, CoverInv, InTest
<1>5. JoinInv /\ MovedInv /\ ReadInv /\ PassMeansOnDevice
  BY <1>1 DEF Init, JoinInv, MovedInv, SubmitIoReportsFailure, ReadInv, InTest,
              PassMeansOnDevice
<1> QED
  BY <1>2, <1>3, <1>4, <1>5 DEF IInv

(* Actions outside submit_test                                             *)

\* The invariant is kept by the steps before the first round.
LEMMA StartupKeeps == IInv /\ (ReserveHugePages \/ OpenDevice \/ AllocateWrite \/ AllocateRead) => IInv'
<1> SUFFICES ASSUME IInv, ReserveHugePages \/ OpenDevice \/ AllocateWrite \/ AllocateRead PROVE IInv'
  OBVIOUS
<1> USE SizeAssumption, BuildAssumption DEF IInv
<1>1. CASE ReserveHugePages
  <2>1. (TypeOK /\ PcInv /\ CursorInv)'
    BY <1>1 DEF ReserveHugePages, TypeOK, PcNames, Phases, PcInv, CursorInv, ChunkOffset,
      Startup, InTest, cursor, memory, vars, Exit, AllocateBuffer, FreeBuffers,
      CanAllocate, PagesInUse, Terminated
  <2>2. (TaskInv /\ DisjointInv /\ CoverInv /\ JoinInv /\ MovedInv)'
    BY <1>1, <2>1 DEF ReserveHugePages, PcInv, TaskInv, DisjointInv, CoverInv, JoinInv, MovedInv,
      SubmitIoReportsFailure, BlocksOf, InTest, cursor, memory, vars, Exit,
      AllocateBuffer, FreeBuffers, Terminated
  <2>3. (ReadInv /\ PassMeansOnDevice)'
    BY <1>1 DEF ReserveHugePages, ReadInv, PassMeansOnDevice, PcInv, Startup, InTest, cursor, memory, vars, Exit,
      AllocateBuffer, FreeBuffers, Terminated
  <2> QED
    BY <2>1, <2>2, <2>3
<1>2. CASE OpenDevice
  <2>1. (TypeOK /\ PcInv /\ CursorInv)'
    BY <1>2 DEF OpenDevice, TypeOK, PcNames, Phases, PcInv, CursorInv, ChunkOffset,
      Startup, InTest, cursor, memory, vars, Exit, AllocateBuffer, FreeBuffers,
      CanAllocate, PagesInUse, Terminated
  <2>2. (TaskInv /\ DisjointInv /\ CoverInv /\ JoinInv /\ MovedInv)'
    BY <1>2, <2>1 DEF OpenDevice, PcInv, TaskInv, DisjointInv, CoverInv, JoinInv, MovedInv,
      SubmitIoReportsFailure, BlocksOf, InTest, cursor, memory, vars, Exit,
      AllocateBuffer, FreeBuffers, Terminated
  <2>3. (ReadInv /\ PassMeansOnDevice)'
    BY <1>2 DEF OpenDevice, ReadInv, PassMeansOnDevice, PcInv, Startup, InTest, cursor, memory, vars, Exit,
      AllocateBuffer, FreeBuffers, Terminated
  <2> QED
    BY <2>1, <2>2, <2>3
<1>3. CASE AllocateWrite
  <2>1. (TypeOK /\ PcInv /\ CursorInv)'
    BY <1>3 DEF AllocateWrite, TypeOK, PcNames, Phases, PcInv, CursorInv, ChunkOffset,
      Startup, InTest, cursor, memory, vars, Exit, AllocateBuffer, FreeBuffers,
      CanAllocate, PagesInUse, Terminated
  <2>2. (TaskInv /\ DisjointInv /\ CoverInv /\ JoinInv /\ MovedInv)'
    BY <1>3, <2>1 DEF AllocateWrite, PcInv, TaskInv, DisjointInv, CoverInv, JoinInv, MovedInv,
      SubmitIoReportsFailure, BlocksOf, InTest, cursor, memory, vars, Exit,
      AllocateBuffer, FreeBuffers, Terminated
  <2>3. (ReadInv /\ PassMeansOnDevice)'
    BY <1>3 DEF AllocateWrite, ReadInv, PassMeansOnDevice, PcInv, Startup, InTest, cursor, memory, vars, Exit,
      AllocateBuffer, FreeBuffers, Terminated
  <2> QED
    BY <2>1, <2>2, <2>3
<1>4. CASE AllocateRead
  <2>1. (TypeOK /\ PcInv /\ CursorInv)'
    BY <1>4 DEF AllocateRead, TypeOK, PcNames, Phases, PcInv, CursorInv, ChunkOffset,
      Startup, InTest, cursor, memory, vars, Exit, AllocateBuffer, FreeBuffers,
      CanAllocate, PagesInUse, Terminated
  <2>2. (TaskInv /\ DisjointInv /\ CoverInv /\ JoinInv /\ MovedInv)'
    BY <1>4, <2>1 DEF AllocateRead, PcInv, TaskInv, DisjointInv, CoverInv, JoinInv, MovedInv,
      SubmitIoReportsFailure, BlocksOf, InTest, cursor, memory, vars, Exit,
      AllocateBuffer, FreeBuffers, Terminated
  <2>3. (ReadInv /\ PassMeansOnDevice)'
    BY <1>4 DEF AllocateRead, ReadInv, PassMeansOnDevice, PcInv, Startup, InTest, cursor, memory, vars, Exit,
      AllocateBuffer, FreeBuffers, Terminated
  <2> QED
    BY <2>1, <2>2, <2>3
<1> QED
  BY <1>1, <1>2, <1>3, <1>4

\* The invariant is kept by the steps after the last round.
LEMMA EndingKeeps == IInv /\ (FailTests \/ FinishTests \/ MainFailed \/ MainPassed \/ Done) => IInv'
<1> SUFFICES ASSUME IInv, FailTests \/ FinishTests \/ MainFailed \/ MainPassed \/ Done PROVE IInv'
  OBVIOUS
<1> USE SizeAssumption, BuildAssumption DEF IInv
<1>1. CASE FailTests
  <2>1. (TypeOK /\ PcInv /\ CursorInv)'
    BY <1>1 DEF FailTests, TypeOK, PcNames, Phases, PcInv, CursorInv, ChunkOffset,
      Startup, InTest, cursor, memory, vars, Exit, AllocateBuffer, FreeBuffers,
      CanAllocate, PagesInUse, Terminated
  <2>2. (TaskInv /\ DisjointInv /\ CoverInv /\ JoinInv /\ MovedInv)'
    BY <1>1, <2>1 DEF FailTests, PcInv, TaskInv, DisjointInv, CoverInv, JoinInv, MovedInv,
      SubmitIoReportsFailure, BlocksOf, InTest, cursor, memory, vars, Exit,
      AllocateBuffer, FreeBuffers, Terminated
  <2>3. (ReadInv /\ PassMeansOnDevice)'
    BY <1>1 DEF FailTests, ReadInv, PassMeansOnDevice, PcInv, Startup, InTest, cursor, memory, vars, Exit,
      AllocateBuffer, FreeBuffers, Terminated
  <2> QED
    BY <2>1, <2>2, <2>3
<1>2. CASE FinishTests
  <2>1. (TypeOK /\ PcInv /\ CursorInv)'
    BY <1>2 DEF FinishTests, TypeOK, PcNames, Phases, PcInv, CursorInv, ChunkOffset,
      Startup, InTest, cursor, memory, vars, Exit, AllocateBuffer, FreeBuffers,
      CanAllocate, PagesInUse, Terminated
  <2>2. (TaskInv /\ DisjointInv /\ CoverInv /\ JoinInv /\ MovedInv)'
    BY <1>2, <2>1 DEF FinishTests, PcInv, TaskInv, DisjointInv, CoverInv, JoinInv, MovedInv,
      SubmitIoReportsFailure, BlocksOf, InTest, cursor, memory, vars, Exit,
      AllocateBuffer, FreeBuffers, Terminated
  <2>3. (ReadInv /\ PassMeansOnDevice)'
    BY <1>2 DEF FinishTests, ReadInv, PassMeansOnDevice, PcInv, Startup, InTest, cursor, memory, vars, Exit,
      AllocateBuffer, FreeBuffers, Terminated
  <2> QED
    BY <2>1, <2>2, <2>3
<1>3. CASE MainFailed
  <2>1. (TypeOK /\ PcInv /\ CursorInv)'
    BY <1>3 DEF MainFailed, TypeOK, PcNames, Phases, PcInv, CursorInv, ChunkOffset,
      Startup, InTest, cursor, memory, vars, Exit, AllocateBuffer, FreeBuffers,
      CanAllocate, PagesInUse, Terminated
  <2>2. (TaskInv /\ DisjointInv /\ CoverInv /\ JoinInv /\ MovedInv)'
    BY <1>3, <2>1 DEF MainFailed, PcInv, TaskInv, DisjointInv, CoverInv, JoinInv, MovedInv,
      SubmitIoReportsFailure, BlocksOf, InTest, cursor, memory, vars, Exit,
      AllocateBuffer, FreeBuffers, Terminated
  <2>3. (ReadInv /\ PassMeansOnDevice)'
    BY <1>3 DEF MainFailed, ReadInv, PassMeansOnDevice, PcInv, Startup, InTest, cursor, memory, vars, Exit,
      AllocateBuffer, FreeBuffers, Terminated
  <2> QED
    BY <2>1, <2>2, <2>3
<1>4. CASE MainPassed
  <2>1. (TypeOK /\ PcInv /\ CursorInv)'
    BY <1>4 DEF MainPassed, TypeOK, PcNames, Phases, PcInv, CursorInv, ChunkOffset,
      Startup, InTest, cursor, memory, vars, Exit, AllocateBuffer, FreeBuffers,
      CanAllocate, PagesInUse, Terminated
  <2>2. (TaskInv /\ DisjointInv /\ CoverInv /\ JoinInv /\ MovedInv)'
    BY <1>4, <2>1 DEF MainPassed, PcInv, TaskInv, DisjointInv, CoverInv, JoinInv, MovedInv,
      SubmitIoReportsFailure, BlocksOf, InTest, cursor, memory, vars, Exit,
      AllocateBuffer, FreeBuffers, Terminated
  <2>3. (ReadInv /\ PassMeansOnDevice)'
    BY <1>4 DEF MainPassed, ReadInv, PassMeansOnDevice, PcInv, Startup, InTest, cursor, memory, vars, Exit,
      AllocateBuffer, FreeBuffers, Terminated
  <2> QED
    BY <2>1, <2>2, <2>3
<1>5. CASE Done
  <2>1. (TypeOK /\ PcInv /\ CursorInv)'
    BY <1>5 DEF Done, TypeOK, PcNames, Phases, PcInv, CursorInv, ChunkOffset,
      Startup, InTest, cursor, memory, vars, Exit, AllocateBuffer, FreeBuffers,
      CanAllocate, PagesInUse, Terminated
  <2>2. (TaskInv /\ DisjointInv /\ CoverInv /\ JoinInv /\ MovedInv)'
    BY <1>5, <2>1 DEF Done, PcInv, TaskInv, DisjointInv, CoverInv, JoinInv, MovedInv,
      SubmitIoReportsFailure, BlocksOf, InTest, cursor, memory, vars, Exit,
      AllocateBuffer, FreeBuffers, Terminated
  <2>3. (ReadInv /\ PassMeansOnDevice)'
    BY <1>5 DEF Done, ReadInv, PassMeansOnDevice, PcInv, Startup, InTest, cursor, memory, vars, Exit,
      AllocateBuffer, FreeBuffers, Terminated
  <2> QED
    BY <2>1, <2>2, <2>3
<1> QED
  BY <1>1, <1>2, <1>3, <1>4, <1>5

-----------------------------------------------------------------------------
(* The inductive invariant: submit_test                                    *)

\* Starting a round resets the cursors, the tasks and the read buffer.
LEMMA StartRoundKeeps == IInv /\ StartRound => IInv'
<1> SUFFICES ASSUME IInv, StartRound PROVE IInv'
  OBVIOUS
<1> USE SizeAssumption, BuildAssumption DEF IInv, StartRound
<1>1. futures' = <<>> /\ <<>> \in Seq(Task) /\ DOMAIN <<>> = {}
  BY EmptySeq
<1>2. (TypeOK /\ PcInv /\ CursorInv)'
  BY <1>1 DEF TypeOK, PcNames, Phases, PcInv, CursorInv, ChunkOffset, Startup, InTest, Zero
<1>3. (TaskInv /\ DisjointInv /\ CoverInv /\ JoinInv /\ MovedInv)'
  BY <1>1 DEF TaskInv, DisjointInv, CoverInv, JoinInv, MovedInv, SubmitIoReportsFailure
<1>4. (ReadInv /\ PassMeansOnDevice)'
  BY DEF ReadInv, PassMeansOnDevice, Zero, Blocks, BufferBlocks
<1> QED
  BY <1>2, <1>3, <1>4

\* So does the start of the read half, except for the read buffer, which no
\* task has touched yet.
LEMMA StartReadKeeps == IInv /\ StartRead => IInv'
<1> SUFFICES ASSUME IInv, StartRead PROVE IInv'
  OBVIOUS
<1> USE SizeAssumption, BuildAssumption DEF IInv, StartRead
<1>1. futures' = <<>> /\ <<>> \in Seq(Task) /\ DOMAIN <<>> = {}
  BY EmptySeq
<1>2. (TypeOK /\ PcInv /\ CursorInv)'
  BY <1>1 DEF TypeOK, PcNames, Phases, PcInv, CursorInv, ChunkOffset, Startup, InTest, memory
<1>3. (TaskInv /\ DisjointInv /\ CoverInv /\ JoinInv /\ MovedInv)'
  BY <1>1 DEF TaskInv, DisjointInv, CoverInv, JoinInv, MovedInv, SubmitIoReportsFailure
<1>4. (ReadInv /\ PassMeansOnDevice)'
  BY DEF ReadInv, PassMeansOnDevice, InTest, memory
<1> QED
  BY <1>2, <1>3, <1>4

\* The steps of the main thread that only move its program counter.
LEMMA ControlKeeps == IInv /\ (SpawnFails \/ SubmitDone \/ JoinDone \/ JoinNext) => IInv'
<1> SUFFICES ASSUME IInv, SpawnFails \/ SubmitDone \/ JoinDone \/ JoinNext PROVE IInv'
  OBVIOUS
<1> USE SizeAssumption, BuildAssumption DEF IInv, cursor, memory
<1>0. /\ DOMAIN futures = 1 .. Len(futures) /\ Len(futures) \in Nat
      /\ \A i \in DOMAIN futures : futures[i] \in Task
  BY LenProperties, ElementOfSeq DEF TypeOK
<1>a. \A i \in DOMAIN futures : futures[i].ret \in {0, 1}
  BY <1>0, TaskFields
<1>1. CASE SpawnFails
  <2>1. (TypeOK /\ PcInv /\ CursorInv)'
    BY <1>1 DEF SpawnFails, TypeOK, PcNames, PcInv, CursorInv, Startup, InTest
  <2>2. (TaskInv /\ DisjointInv /\ CoverInv /\ JoinInv /\ MovedInv /\ ReadInv /\ PassMeansOnDevice)'
    BY <1>1 DEF SpawnFails, TaskInv, DisjointInv, CoverInv, BlocksOf, JoinInv, MovedInv,
      SubmitIoReportsFailure, ReadInv, PassMeansOnDevice, InTest
  <2> QED
    BY <2>1, <2>2
<1>2. CASE SubmitDone
  <2>1. (TypeOK /\ PcInv /\ CursorInv)'
    BY <1>2 DEF SubmitDone, TypeOK, PcNames, PcInv, CursorInv, ChunkOffset, Startup, InTest
  <2>2. (TaskInv /\ DisjointInv /\ CoverInv /\ MovedInv /\ ReadInv /\ PassMeansOnDevice)'
    BY <1>2 DEF SubmitDone, TaskInv, DisjointInv, CoverInv, BlocksOf, MovedInv,
      SubmitIoReportsFailure, ReadInv, PassMeansOnDevice, InTest
  <2>3. JoinInv'
    BY <1>0, <1>2 DEF SubmitDone, JoinInv, PcInv
  <2> QED
    BY <2>1, <2>2, <2>3
<1>3. CASE JoinDone
  <2>1. (TypeOK /\ PcInv /\ CursorInv)'
    BY <1>3 DEF JoinDone, TypeOK, PcNames, Phases, PcInv, CursorInv, Startup, InTest
  <2>2. (TaskInv /\ DisjointInv /\ CoverInv /\ MovedInv /\ ReadInv /\ PassMeansOnDevice)'
    BY <1>3 DEF JoinDone, TaskInv, DisjointInv, CoverInv, BlocksOf, MovedInv,
      SubmitIoReportsFailure, ReadInv, PassMeansOnDevice, InTest
  <2>3. JoinInv'
    BY <1>0, <1>3 DEF JoinDone, JoinInv
  <2> QED
    BY <2>1, <2>2, <2>3
<1>4. CASE JoinNext
  <2>0. next \in 1 .. Len(futures) /\ futures[next].st = "done" /\ futures[next].ret \in {0, 1}
    BY <1>0, <1>a, <1>4 DEF JoinNext
  <2>1. (TypeOK /\ PcInv /\ CursorInv)'
    BY <1>4, <2>0 DEF JoinNext, TypeOK, PcNames, Phases, PcInv, CursorInv, Startup, InTest
  <2>2. (TaskInv /\ DisjointInv /\ CoverInv /\ MovedInv /\ ReadInv /\ PassMeansOnDevice)'
    BY <1>4 DEF JoinNext, TaskInv, DisjointInv, CoverInv, BlocksOf, MovedInv,
      SubmitIoReportsFailure, ReadInv, PassMeansOnDevice, InTest
  <2>3. JoinInv'
    BY <1>0, <1>4, <2>0 DEF JoinNext, JoinInv, TypeOK
  <2> QED
    BY <2>1, <2>2, <2>3
<1> QED
  BY <1>1, <1>2, <1>3, <1>4

\* The two ways out of submit_test: the error path and the comparison.
LEMMA LeaveKeeps == IInv /\ (Unwind \/ Compare) => IInv'
<1> SUFFICES ASSUME IInv, Unwind \/ Compare PROVE IInv'
  OBVIOUS
<1> USE SizeAssumption, BuildAssumption DEF IInv, cursor, memory
<1>1. futures' = <<>> /\ <<>> \in Seq(Task) /\ DOMAIN <<>> = {}
  BY EmptySeq DEF Unwind, Compare
<1>2. (TypeOK /\ PcInv /\ CursorInv)'
  <2>1. round' \in 0 .. TestRound
    BY DEF Unwind, Compare, TypeOK, PcInv, InTest
  <2>2. ret' \in {0, 1}
    BY DEF Unwind, Compare, TypeOK
  <2> QED
    BY <1>1, <2>1, <2>2 DEF Unwind, Compare, TypeOK, PcNames, PcInv, CursorInv, Startup, InTest
<1>3. (TaskInv /\ DisjointInv /\ CoverInv /\ JoinInv /\ MovedInv /\ ReadInv)'
  BY <1>1 DEF Unwind, Compare, TaskInv, DisjointInv, CoverInv, JoinInv, MovedInv,
    SubmitIoReportsFailure, ReadInv, InTest
<1>4. PassMeansOnDevice'
  <2> SUFFICES ASSUME (pc = "round" /\ round > 0)'
               PROVE  PassMeansOnDevice'
    BY DEF PassMeansOnDevice
  <2>1. Compare /\ \A b \in Blocks : readData[b] = Pattern[b]
    BY DEF Unwind, Compare
  \* Zero is not in the pattern, so every block was fetched, from this device.
  <2>2. \A b \in Blocks : Pattern[b] # Zero
    BY DEF Pattern, Zero, Blocks, BufferBlocks
  <2>3. \A b \in Blocks : b \in fetched /\ device[b] = Pattern[b]
    BY <2>1, <2>2 DEF ReadInv, Compare, InTest
  <2>4. fetched \subseteq Blocks
    BY DEF TypeOK
  <2> QED
    BY <2>1, <2>3, <2>4 DEF PassMeansOnDevice, Compare
<1> QED
  BY <1>2, <1>3, <1>4

\* Handing the next chunk to a thread: the new task starts where the last one
\* ends.
LEMMA SpawnTaskKeeps == IInv /\ SpawnTask => IInv'
<1> SUFFICES ASSUME IInv, SpawnTask PROVE IInv'
  OBVIOUS
<1> USE SizeAssumption, BuildAssumption DEF IInv, memory
<1> DEFINE t == [op |-> Opcode(phase), slba |-> currentLba, off |-> ChunkOffset,
                 n |-> ChunkSize, st |-> "running", ret |-> 0]
<1>0. async \in BOOLEAN /\ async
  BY DEF TypeOK, SpawnTask
<1>1. ChunkSize \in Nat \ {0} /\ ChunkSize <= remainBlocks
  BY ChunkBounds DEF SpawnTask, PcInv
<1>2. currentLba \in Nat /\ remainBlocks \in Nat /\ ChunkOffset = currentLba
  BY DEF TypeOK, SpawnTask, CursorInv
<1>3. /\ t \in Task /\ t.slba = currentLba /\ t.off = currentLba /\ t.n = ChunkSize
      /\ t.op = Opcode(phase) /\ t.st = "running"
  BY <1>1, <1>2 DEF Task, TypeOK, Phases, Opcode
<1> HIDE DEF t
<1>4. futures \in Seq(Task) /\ futures' = Append(futures, t)
  BY DEF TypeOK, SpawnTask, t
<1>5. /\ futures' \in Seq(Task)
      /\ DOMAIN futures' = 1 .. Len(futures) + 1
      /\ DOMAIN futures = 1 .. Len(futures) /\ Len(futures) \in Nat
      /\ futures'[Len(futures) + 1] = t
      /\ \A i \in 1 .. Len(futures) : futures'[i] = futures[i]
  BY <1>3, <1>4, AppendTask
<1>6. \A i \in 1 .. Len(futures) :
        /\ futures[i].slba \in Nat /\ futures[i].n \in Nat
        /\ futures[i].slba + futures[i].n <= currentLba
  BY <1>4, <1>5, ElementOfSeq, TaskFields DEF TaskInv
<1>7. currentLba' = currentLba + ChunkSize /\ remainBlocks' = remainBlocks - ChunkSize
  BY DEF SpawnTask, Advance
<1>8. (TypeOK /\ PcInv /\ CursorInv)'
  <2>1. TypeOK'
    <3>1. writeOffset' \in Nat /\ readOffset' \in Nat
      BY <1>1 DEF TypeOK, SpawnTask, Advance
    <3>2. eachSubmitBlocks' \in Nat /\ currentLba' \in Nat /\ remainBlocks' \in 0 .. NBlocks
      BY <1>1, <1>2, <1>7 DEF TypeOK, SpawnTask, Advance
    <3> QED
      BY <1>5, <3>1, <3>2 DEF TypeOK, SpawnTask
  <2>2. PcInv'
    BY <1>1, <1>5 DEF PcInv, SpawnTask, Advance, InTest, Startup
  <2>3. CursorInv'
    <3>1. CASE phase = "write"
      BY <3>1, <1>1, <1>2, <1>7 DEF CursorInv, SpawnTask, Advance, ChunkOffset, InTest, TypeOK
    <3>2. CASE phase = "read"
      BY <3>2, <1>1, <1>2, <1>7 DEF CursorInv, SpawnTask, Advance, ChunkOffset, InTest, TypeOK
    <3> QED
      BY <3>1, <3>2 DEF TypeOK, Phases
  <2> QED
    BY <2>1, <2>2, <2>3
<1>9. TaskInv'
  BY <1>1, <1>2, <1>3, <1>5, <1>6, <1>7 DEF TaskInv, SpawnTask
<1>10. DisjointInv'
  BY <1>1, <1>2, <1>3, <1>5, <1>6 DEF DisjointInv
<1>11. CoverInv'
  <2> SUFFICES ASSUME NEW b \in 0 .. currentLba' - 1
               PROVE  \E i \in DOMAIN futures' : b \in BlocksOf(futures'[i])
    BY DEF CoverInv
  <2>1. CASE b \in 0 .. currentLba - 1
    <3>1. PICK i \in DOMAIN futures : b \in BlocksOf(futures[i])
      BY <2>1 DEF CoverInv, SpawnTask, InTest
    <3> QED
      BY <3>1, <1>5
  <2>2. CASE b \in currentLba .. currentLba + ChunkSize - 1
    BY <2>2, <1>3, <1>5 DEF BlocksOf
  <2> QED
    BY <1>1, <1>2, <1>7, <2>1, <2>2
<1>12. (JoinInv /\ ReadInv /\ PassMeansOnDevice)'
  BY DEF JoinInv, ReadInv, PassMeansOnDevice, SpawnTask, InTest
<1>13. MovedInv'
  BY <1>3, <1>5 DEF MovedInv, SubmitIoReportsFailure, SpawnTask
<1> QED
  BY <1>8, <1>9, <1>10, <1>11, <1>12, <1>13

\* The synchronous build has no tasks; its reads stay inside the device.
LEMMA SubmitInlineKeeps == IInv /\ SubmitInline => IInv'
<1> SUFFICES ASSUME IInv, SubmitInline PROVE IInv'
  OBVIOUS
<1> USE SizeAssumption, BuildAssumption DEF IInv, cursor, memory
<1>1. ChunkSize \in Nat \ {0} /\ ChunkSize <= remainBlocks
  BY ChunkBounds DEF SubmitInline, PcInv
<1>2. futures = <<>> /\ futures' = <<>> /\ DOMAIN <<>> = {} /\ <<>> \in Seq(Task)
  BY EmptySeq DEF TaskInv, SubmitInline
<1>3. currentLba + remainBlocks = NBlocks /\ currentLba \in Nat /\ remainBlocks \in Nat
      /\ ChunkOffset \in Nat
  BY DEF CursorInv, SubmitInline, TypeOK, ChunkOffset
\* The write half reads to the blocks' own place in the buffer, the read half
\* to the part of the buffer that is not compared.
<1>4. /\ device' = device /\ readData' \in [BufferBlocks -> Int]
      /\ written' = written /\ fetched' \in SUBSET Blocks /\ ret' \in {0, 1}
      /\ \A b \in Blocks : \/ b \in fetched' /\ readData'[b] = device[b]
                           \/ /\ b \in fetched' <=> b \in fetched
                              /\ readData'[b] = readData[b]
  <2>1. CASE ChunkOffset + ChunkSize > BufBlocks
    BY <2>1 DEF SubmitInline, TypeOK
  <2>2. CASE ~(ChunkOffset + ChunkSize > BufBlocks)
    <3>1. PICK outcome \in outcomes : \E mv \in MovedBy(outcome, ChunkSize) :
             Transfer("READ", currentLba, ChunkOffset, mv) /\ ret' = SubmitIoRet(outcome)
      BY <2>2 DEF SubmitInline
    <3>2. PICK mv \in MovedBy(outcome, ChunkSize) :
             Transfer("READ", currentLba, ChunkOffset, mv)
      BY <3>1
    <3>3. mv \subseteq 0 .. ChunkSize - 1
      BY <1>1, MovedByRange DEF TypeOK
    <3>4. \A b \in BufferBlocks : b - ChunkOffset \in mv => b - ChunkOffset + currentLba \in Blocks
      BY <1>1, <1>3, <3>3 DEF Blocks, BufferBlocks
    <3>5. \A b \in BufferBlocks :
            (IF b - ChunkOffset \in mv THEN device[b - ChunkOffset + currentLba] ELSE readData[b]) \in Int
      BY <3>4 DEF TypeOK
    <3>6. ASSUME NEW b \in Blocks, b - ChunkOffset \in mv
          PROVE  b - ChunkOffset + currentLba = b
      BY <1>1, <1>3, <3>3, <3>6 DEF SubmitInline, CursorInv, ChunkOffset, Blocks
    <3>7. \A b \in Blocks : b \in BufferBlocks
      BY DEF Blocks, BufferBlocks
    <3>8. /\ fetched' = fetched \union {b \in Blocks : b - ChunkOffset \in mv}
          /\ readData' = [b \in BufferBlocks |->
                            IF b - ChunkOffset \in mv
                            THEN device[b - ChunkOffset + currentLba] ELSE readData[b]]
      BY <3>2 DEF Transfer
    <3>9. \A b \in Blocks : \/ b \in fetched' /\ readData'[b] = device[b]
                           \/ /\ b \in fetched' <=> b \in fetched
                              /\ readData'[b] = readData[b]
      BY <3>6, <3>7, <3>8
    <3> QED
      BY <3>1, <3>2, <3>5, <3>9 DEF Transfer, TypeOK, SubmitIoRet
  <2> QED
    BY <2>1, <2>2
<1>5. (TypeOK /\ PcInv /\ CursorInv)'
  <2>1. TypeOK'
    BY <1>1, <1>2, <1>3, <1>4 DEF TypeOK, PcNames, SubmitInline, Advance, ChunkOffset
  <2>2. PcInv'
    BY <1>1, <1>2 DEF PcInv, SubmitInline, Advance, InTest, Startup
  <2>3. CursorInv'
    <3>1. ~async /\ currentLba' \in {currentLba, currentLba + ChunkSize}
      BY DEF SubmitInline, Advance
    <3>2. pc' = "submit" => /\ currentLba' = currentLba + ChunkSize
                            /\ remainBlocks' = remainBlocks - ChunkSize
      BY DEF SubmitInline, Advance
    <3>3. pc' \in {"submit", "unwind", "undefined"}
      BY DEF SubmitInline
    <3>4. pc' = "submit" => readOffset' = readOffset + ChunkSize
      BY <3>1 DEF SubmitInline, Advance
    <3>5. phase' = phase /\ async' = async /\ pc = "submit" /\ readOffset \in Nat
      BY DEF SubmitInline, TypeOK
    <3> QED
      BY <1>1, <1>3, <3>1, <3>2, <3>3, <3>4, <3>5 DEF CursorInv
  <2> QED
    BY <2>1, <2>2, <2>3
<1>6. (TaskInv /\ DisjointInv /\ CoverInv /\ JoinInv /\ MovedInv)'
  BY <1>2 DEF TaskInv, DisjointInv, CoverInv, JoinInv, MovedInv, SubmitIoReportsFailure, SubmitInline
<1>7. (ReadInv /\ PassMeansOnDevice)'
  BY <1>4 DEF ReadInv, PassMeansOnDevice, SubmitInline, InTest, CursorInv
<1> QED
  BY <1>5, <1>6, <1>7

\* What the ioctl of a task does to the buffers and the device, given that the
\* task moves its blocks between equal offsets.
LEMMA TransferEffect ==
  ASSUME TypeOK, NEW t \in Task, t.off = t.slba, t.slba + t.n <= NBlocks,
         NEW outcome \in outcomes, NEW mv \in MovedBy(outcome, t.n),
         Transfer(t.op, t.slba, t.off, mv)
  PROVE  LET S == {b \in Blocks : b - t.slba \in mv}
         IN  /\ S \subseteq BlocksOf(t)
             /\ outcome = "ok" => \A b \in Blocks : b \in BlocksOf(t) => b \in S
             /\ t.op = "WRITE" =>
                  /\ written' = written \union S
                  /\ fetched' = fetched /\ readData' = readData
                  /\ \A b \in Blocks : device'[b] = IF b \in S THEN Pattern[b] ELSE device[b]
             /\ t.op = "READ" =>
                  /\ fetched' = fetched \union S
                  /\ written' = written /\ device' = device
                  /\ \A b \in Blocks : readData'[b] = IF b \in S THEN device[b] ELSE readData[b]
             /\ device' \in [Blocks -> Int] /\ readData' \in [BufferBlocks -> Int]
<1> USE SizeAssumption, BuildAssumption
<1> DEFINE S == {b \in Blocks : b - t.slba \in mv}
<1>1. t.slba \in Nat /\ t.n \in Nat \ {0} /\ t.op \in {"WRITE", "READ"} /\ t.off = t.slba
  BY TaskFields
<1>2. mv \subseteq 0 .. t.n - 1 /\ (outcome = "ok" => mv = 0 .. t.n - 1)
  BY <1>1, MovedByRange DEF TypeOK
<1>3. \A b \in Int : b - t.slba + t.off = b /\ b - t.off + t.slba = b
  BY <1>1
<1>4. /\ S \subseteq BlocksOf(t)
      /\ outcome = "ok" => \A b \in Blocks : b \in BlocksOf(t) => b \in S
  BY <1>1, <1>2 DEF BlocksOf, Blocks
<1>5. Blocks \subseteq BufferBlocks /\ BufferBlocks \subseteq Int
  BY DEF Blocks, BufferBlocks
<1>6. \A b \in BufferBlocks : Pattern[b] \in Int
  BY DEF Pattern, BufferBlocks
<1>7. CASE t.op = "WRITE"
  <2>1. device' = [b \in Blocks |-> IF b \in S THEN Pattern[b] ELSE device[b]]
    BY <1>3, <1>5, <1>7 DEF Transfer
  <2>2. UNCHANGED <<readData, fetched>> /\ written' = written \union S
    BY <1>7 DEF Transfer
  <2>3. device' \in [Blocks -> Int]
    BY <2>1, <1>5, <1>6 DEF TypeOK
  <2> QED
    BY <1>4, <1>7, <2>1, <2>2, <2>3 DEF TypeOK
<1>8. CASE t.op = "READ"
  <2>1. readData' = [b \in BufferBlocks |-> IF b - t.slba \in mv THEN device[b] ELSE readData[b]]
    BY <1>1, <1>3, <1>5, <1>8 DEF Transfer
  <2>2. UNCHANGED <<device, written>> /\ fetched' = fetched \union S
    BY <1>1, <1>8 DEF Transfer
  <2>3. \A b \in BufferBlocks : b - t.slba \in mv => b \in Blocks
    BY <1>1, <1>2 DEF Blocks, BufferBlocks
  <2>4. readData' \in [BufferBlocks -> Int]
    BY <2>1, <2>3 DEF TypeOK
  <2> QED
    BY <1>4, <1>5, <1>8, <2>1, <2>2, <2>4 DEF TypeOK
<1> QED
  BY <1>1, <1>7, <1>8

\* A step of one of the std::async threads.
LEMMA RunTaskKeeps ==
  ASSUME IInv, NEW i \in DOMAIN futures, RunTask(i)
  PROVE  IInv'
<1> USE SizeAssumption, BuildAssumption DEF IInv
<1>a. TypeOK /\ futures \in Seq(Task)
  BY DEF TypeOK
<1>0. PICK outcome \in outcomes : \E mv \in MovedBy(outcome, futures[i].n) :
        /\ Transfer(futures[i].op, futures[i].slba, futures[i].off, mv)
        /\ futures' = [futures EXCEPT ![i] = Returned(@, SubmitIoRet(outcome))]
  BY DEF RunTask
<1>1. PICK mv \in MovedBy(outcome, futures[i].n) :
        /\ Transfer(futures[i].op, futures[i].slba, futures[i].off, mv)
        /\ futures' = [futures EXCEPT ![i] = Returned(@, SubmitIoRet(outcome))]
  BY <1>0
<1> DEFINE r == SubmitIoRet(outcome)
           t == futures[i]
           S == {b \in Blocks : b - t.slba \in mv}
<1>2. r \in {0, 1} /\ (r = 0 => outcome \in {"ok", "status"})
  BY DEF SubmitIoRet, AllOutcomes, TypeOK
<1>3. /\ futures' \in Seq(Task)
      /\ DOMAIN futures' = DOMAIN futures
      /\ DOMAIN futures = 1 .. Len(futures) /\ Len(futures) \in Nat
      /\ futures'[i] = Returned(t, r)
      /\ \A j \in DOMAIN futures : j # i => futures'[j] = futures[j]
      /\ \A j \in DOMAIN futures :
           /\ futures'[j].op = futures[j].op /\ futures'[j].slba = futures[j].slba
           /\ futures'[j].off = futures[j].off /\ futures'[j].n = futures[j].n
  BY <1>1, <1>2, <1>a, FuturesAfterReturn
<1>4. \A j \in DOMAIN futures : futures[j] \in Task
  BY <1>3, <1>a, ElementOfSeq
<1>5. futures'[i].st = "done" /\ futures'[i].ret = r
  BY <1>2, <1>3, <1>4, ReturnedTask
<1>6. /\ UNCHANGED <<setting, async, outcomes, pc, phase, round, next, ret, buffers, hugePages, exitCode>>
      /\ UNCHANGED <<remainBlocks, eachSubmitBlocks, currentLba, writeOffset, readOffset>>
      /\ pc \notin {"exited", "crashed", "undefined"} /\ t.st = "running"
  BY DEF RunTask, Terminated, cursor
<1>7. t \in Task /\ t.off = t.slba /\ t.slba + t.n <= NBlocks /\ t.op = Opcode(phase)
  <2>1. t.slba + t.n <= currentLba /\ currentLba <= NBlocks /\ t.off = t.slba /\ t.op = Opcode(phase)
    BY DEF TaskInv, CursorInv
  <2>2. t.slba \in Nat /\ t.n \in Nat /\ currentLba \in Nat
    BY <1>4, TaskFields DEF TypeOK
  <2> QED
    BY <1>4, <2>1, <2>2
<1>8. /\ S \subseteq BlocksOf(t)
      /\ outcome = "ok" => \A b \in Blocks : b \in BlocksOf(t) => b \in S
      /\ t.op = "WRITE" =>
           /\ written' = written \union S
           /\ fetched' = fetched /\ readData' = readData
           /\ \A b \in Blocks : device'[b] = IF b \in S THEN Pattern[b] ELSE device[b]
      /\ t.op = "READ" =>
           /\ fetched' = fetched \union S
           /\ written' = written /\ device' = device
           /\ \A b \in Blocks : readData'[b] = IF b \in S THEN device[b] ELSE readData[b]
      /\ device' \in [Blocks -> Int] /\ readData' \in [BufferBlocks -> Int]
  BY <1>1, <1>7, <1>a, TransferEffect
<1>9. t.op \in {"WRITE", "READ"} /\ (phase = "write" <=> t.op = "WRITE") /\ S \subseteq Blocks
  BY <1>7 DEF Opcode, TypeOK, Phases
<1> HIDE DEF t, S, r
<1>10. TypeOK'
  BY <1>3, <1>6, <1>8, <1>9 DEF TypeOK
<1>11. (PcInv /\ CursorInv)'
  BY <1>3, <1>6 DEF PcInv, CursorInv, ChunkOffset, t
<1>12. (TaskInv /\ DisjointInv)'
  BY <1>3, <1>6 DEF TaskInv, DisjointInv
<1>13. CoverInv'
  BY <1>3, <1>6 DEF CoverInv, BlocksOf, t
<1>14. JoinInv'
  BY <1>3, <1>6 DEF JoinInv, t
<1>15. MovedInv'
  <2> SUFFICES ASSUME "status" \notin outcomes,
                      NEW j \in DOMAIN futures,
                      futures'[j].st = "done", futures'[j].ret = 0,
                      NEW b \in Blocks, b \in BlocksOf(futures[j])
               PROVE  b \in (IF futures[j].op = "WRITE" THEN written' ELSE fetched')
    BY <1>3, <1>6 DEF MovedInv, SubmitIoReportsFailure, BlocksOf
  <2>1. CASE j = i
    BY <2>1, <1>2, <1>5, <1>8, <1>9 DEF t
  <2>2. CASE j # i
    <3>1. b \in (IF futures[j].op = "WRITE" THEN written ELSE fetched)
      BY <2>2, <1>3 DEF MovedInv, SubmitIoReportsFailure, BlocksOf
    <3> QED
      BY <3>1, <1>8, <1>9
  <2> QED
    BY <2>1, <2>2
<1>16. ReadInv'
  <2> SUFFICES ASSUME pc \in InTest
               PROVE  /\ async /\ phase = "write" => fetched' = {}
                      /\ \A b \in Blocks : IF b \in fetched' THEN readData'[b] = device'[b]
                                                             ELSE readData'[b] = Zero
    BY <1>6 DEF ReadInv
  <2>0. async
    BY EmptySeq DEF TaskInv
  <2>1. CASE phase = "write"
    BY <2>0, <2>1, <1>8, <1>9 DEF ReadInv
  <2>2. CASE phase # "write"
    BY <2>2, <1>8, <1>9 DEF ReadInv
  <2> QED
    BY <2>1, <2>2
<1>17. PassMeansOnDevice'
  <2>1. pc # "round"
    BY <1>6 DEF PcInv, InTest
  <2> QED
    BY <2>1, <1>6 DEF PassMeansOnDevice
<1> QED
  BY <1>10, <1>11, <1>12, <1>13, <1>14, <1>15, <1>16, <1>17

\* Every step keeps the invariant.
LEMMA StepKeeps == IInv /\ [Next]_vars => IInv'
<1> SUFFICES ASSUME IInv, [Next]_vars PROVE IInv'
  OBVIOUS
<1>1. CASE Main
  BY <1>1, StartupKeeps, EndingKeeps, StartRoundKeeps, StartReadKeeps, ControlKeeps,
     LeaveKeeps, SpawnTaskKeeps, SubmitInlineKeeps DEF Main
<1>2. CASE \E i \in DOMAIN futures : RunTask(i)
  BY <1>2, RunTaskKeeps
<1>3. CASE UNCHANGED vars
  BY <1>3, EndingKeeps DEF Done, vars, IInv, TypeOK, PcInv, CursorInv, ChunkOffset, TaskInv,
     DisjointInv, CoverInv, BlocksOf, JoinInv, MovedInv, SubmitIoReportsFailure, ReadInv,
     PassMeansOnDevice, cursor, memory
<1>4. CASE Done
  BY <1>4, EndingKeeps
<1> QED
  BY <1>1, <1>2, <1>3, <1>4 DEF Next

\* IInv is an invariant of the program.
THEOREM Invariance == Spec => []IInv
<1>1. IInv /\ [Next]_vars => IInv'
  BY StepKeeps
<1> QED
  BY <1>1, InitIInv, PTL DEF Spec

-----------------------------------------------------------------------------
(* What follows from the invariant                                         *)

\* Every variable keeps its type; in particular no cursor goes negative.
THEOREM TypeCorrect == Spec => []TypeOK
<1>1. IInv => TypeOK
  BY DEF IInv
<1> QED
  BY <1>1, Invariance, PTL

\* No thread uses a buffer that free_buffer has released.
THEOREM BuffersOutliveThreads == Spec => []NoUseAfterFree
<1>1. IInv => NoUseAfterFree
  <2> SUFFICES ASSUME IInv, NEW i \in DOMAIN futures, futures[i].st = "running"
               PROVE  \A b \in Phases : buffers[b] = "allocated"
    BY DEF NoUseAfterFree
  <2>1. futures # <<>>
    BY EmptySeq
  <2> QED
    BY <2>1 DEF IInv, PcInv
<1> QED
  BY <1>1, Invariance, PTL

\* The chunks of a phase are disjoint and cover the blocks handed out so far.
THEOREM ChunksArePartition == Spec => []ChunksPartition
<1>1. IInv => ChunksPartition
  <2> SUFFICES ASSUME IInv PROVE ChunksPartition
    OBVIOUS
  <2>1. \A i \in DOMAIN futures : futures[i] \in Task
    BY LenProperties, ElementOfSeq DEF IInv, TypeOK
  <2>2. \A i \in DOMAIN futures : futures[i].slba \in Nat /\ futures[i].n \in Nat
    BY <2>1, TaskFields
  <2>3. \A i \in DOMAIN futures : futures[i].off = futures[i].slba
                                  /\ futures[i].slba + futures[i].n <= NBlocks
    BY <2>2, SizeAssumption DEF IInv, TypeOK, TaskInv, CursorInv
  <2> QED
    BY <2>3 DEF IInv, DisjointInv, CoverInv, BlocksOf, ChunksPartition
<1> QED
  BY <1>1, Invariance, PTL

\* A round that passed read every block back from a
\* device that holds the file, whatever the ioctls returned.
THEOREM PassingRoundIsReal == Spec => []PassMeansOnDevice
<1>1. IInv => PassMeansOnDevice
  BY DEF IInv
<1> QED
  BY <1>1, Invariance, PTL

\* Once a block of the device holds the file's data it keeps holding it: no
\* later chunk, round or phase, in whatever order the threads run, puts
\* another block's data there.
DevicePatternStable ==
  [][\A b \in Blocks : device[b] = Pattern[b] => device'[b] = Pattern[b]]_vars

\* A block of the device that holds the file's data never loses it.
THEOREM DeviceKeepsPattern == Spec => DevicePatternStable
<1>1. IInv /\ [Next]_vars =>
        [\A b \in Blocks : device[b] = Pattern[b] => device'[b] = Pattern[b]]_vars
  <2> SUFFICES ASSUME IInv, Next, NEW b \in Blocks, device[b] = Pattern[b]
               PROVE  device'[b] = Pattern[b]
    BY DEF vars
  <2>1. CASE Main
    <3>1. CASE SubmitInline
      BY <3>1 DEF SubmitInline, Transfer, memory
    <3>2. CASE ~SubmitInline
      BY <2>1, <3>2 DEF Main, memory, ReserveHugePages, OpenDevice, AllocateWrite, AllocateRead,
        AllocateBuffer, StartRound, SpawnTask, SpawnFails, SubmitDone, JoinNext, JoinDone,
        StartRead, Unwind, Compare, FailTests, FinishTests, MainFailed, MainPassed
    <3> QED
      BY <3>1, <3>2
  <2>2. CASE \E i \in DOMAIN futures : RunTask(i)
    <3>1. PICK i \in DOMAIN futures : RunTask(i)
      BY <2>2
    <3>2. PICK outcome \in outcomes : \E mv \in MovedBy(outcome, futures[i].n) :
            Transfer(futures[i].op, futures[i].slba, futures[i].off, mv)
      BY <3>1 DEF RunTask
    <3>3. PICK mv \in MovedBy(outcome, futures[i].n) :
            Transfer(futures[i].op, futures[i].slba, futures[i].off, mv)
      BY <3>2
    <3>4. futures[i] \in Task /\ TypeOK
      BY LenProperties, ElementOfSeq DEF IInv, TypeOK
    <3>5. /\ futures[i].slba \in Nat /\ futures[i].n \in Nat
          /\ futures[i].op \in {"WRITE", "READ"}
      BY <3>4, TaskFields
    <3>6. futures[i].off = futures[i].slba /\ futures[i].slba + futures[i].n <= NBlocks
      BY <3>5, SizeAssumption DEF IInv, TypeOK, TaskInv, CursorInv
    <3> QED
      BY <3>3, <3>4, <3>5, <3>6, TransferEffect
  <2>3. CASE Done
    BY <2>3 DEF Done, vars, memory
  <2> QED
    BY <2>1, <2>2, <2>3 DEF Next
<1> QED
  BY <1>1, Invariance, PTL DEF Spec, DevicePatternStable

-----------------------------------------------------------------------------
(* Refinement of BlockTransfer                                             *)

\* When the join loop ends, every block of the phase has been moved.
LEMMA JoinedIsComplete ==
  ASSUME IInv, Faithful, JoinDone
  PROVE  Moved = Blocks
<1>1. \A b \in Blocks : \E i \in DOMAIN futures : b \in BlocksOf(futures[i])
  BY SizeAssumption DEF Faithful, IInv, TypeOK, CoverInv, PcInv, CursorInv, JoinDone, InTest, Blocks
<1>2. DOMAIN futures = 1 .. Len(futures) /\ Len(futures) \in Nat
  BY LenProperties DEF IInv, TypeOK
<1>3. \A i \in DOMAIN futures : futures[i].st = "done" /\ futures[i].ret = 0
  BY <1>2 DEF IInv, JoinInv, JoinDone
<1>4. \A i \in DOMAIN futures : phase = "write" <=> futures[i].op = "WRITE"
  BY DEF IInv, TaskInv, TypeOK, Opcode
<1>5. \A b \in Blocks : b \in Moved
  BY <1>1, <1>3, <1>4 DEF Faithful, IInv, MovedInv, SubmitIoReportsFailure, BlocksOf, Moved
<1> QED
  BY <1>5 DEF Moved, IInv, TypeOK

\* A step of the program is a step of BlockTransfer or leaves it alone.
LEMMA StepRefines ==
  ASSUME IInv, [Next]_vars
  PROVE  [BT!Next]_(BT!vars)
<1>0. Faithful' = Faithful
  BY DEF Faithful, Next, vars, Main, ReserveHugePages, OpenDevice, AllocateWrite,
    AllocateRead, AllocateBuffer, SpawnTask, SpawnFails, SubmitInline, SubmitDone, JoinNext,
    JoinDone, StartRound, StartRead, Unwind, Compare, FailTests, FinishTests, MainFailed,
    MainPassed, RunTask, Done
<1>a. CASE ~Faithful
  BY <1>0, <1>a DEF BT!vars
<1>b. SUFFICES ASSUME Faithful PROVE [BT!Next]_(BT!vars)
  BY <1>a
<1> USE <1>0, <1>b DEF BT!vars, TransferState
<1>1. CASE StartRound \/ StartRead
  <2>1. TransferState = "idle" /\ TransferState' = "busy"
    BY <1>1 DEF StartRound, StartRead
  <2>2. Moved' = {}
    BY <1>1 DEF StartRound, StartRead, IInv, ReadInv, InTest, PcInv, memory, Moved, Faithful
  <2> QED
    BY <2>1, <2>2 DEF BT!Next, BT!Begin
<1>2. CASE \E i \in DOMAIN futures : RunTask(i)
  <2>1. PICK i \in DOMAIN futures : RunTask(i)
    BY <1>2
  <2>2. UNCHANGED <<pc, phase>> /\ pc \notin {"exited", "crashed", "undefined"}
    BY <2>1 DEF RunTask, Terminated
  <2>3. futures # <<>>
    BY EmptySeq
  <2>4. futures[i].st = "running"
    BY <2>1 DEF RunTask
  <2>5. pc \in {"submit", "join", "unwind"}
    BY <2>2, <2>3, <2>4 DEF IInv, PcInv, InTest, JoinInv
  <2>6. PICK S \in SUBSET Blocks :
           Moved' = Moved \union S
    <3>1. PICK outcome \in outcomes : \E mv \in MovedBy(outcome, futures[i].n) :
            Transfer(futures[i].op, futures[i].slba, futures[i].off, mv)
      BY <2>1 DEF RunTask
    <3>2. PICK mv \in MovedBy(outcome, futures[i].n) :
            Transfer(futures[i].op, futures[i].slba, futures[i].off, mv)
      BY <3>1
    <3>3. futures[i].op = "WRITE" <=> phase = "write"
      BY DEF IInv, TaskInv, TypeOK, Opcode
    <3>4. CASE phase = "write"
      BY <2>2, <3>2, <3>3, <3>4 DEF Transfer, Moved
    <3>5. CASE phase # "write"
      BY <2>2, <3>2, <3>3, <3>5 DEF Transfer, Moved
    <3> QED
      BY <3>4, <3>5
  <2>7. Moved \subseteq Blocks
    BY DEF IInv, TypeOK, Moved
  <2> QED
    BY <2>2, <2>5, <2>6, <2>7 DEF BT!Next, BT!Move
<1>3. CASE JoinDone
  <2>1. TransferState = "busy" /\ TransferState' = "idle"
    BY <1>3 DEF JoinDone
  <2>2. Moved = Blocks /\ Moved' = Moved
    BY <1>3, JoinedIsComplete DEF JoinDone, memory, Moved
  <2> QED
    BY <2>1, <2>2 DEF BT!Next, BT!Succeed, Moved
<1>4. CASE \/ ReserveHugePages \/ OpenDevice \/ AllocateWrite \/ AllocateRead \/ SpawnTask
           \/ SpawnFails \/ SubmitInline \/ SubmitDone \/ JoinNext \/ Unwind \/ Compare
           \/ FailTests \/ FinishTests \/ MainFailed \/ MainPassed
  <2>1. UNCHANGED <<phase, written, fetched>>
    BY <1>4 DEF Faithful, SubmitInline, memory, ReserveHugePages, OpenDevice, AllocateWrite,
      AllocateRead, AllocateBuffer, SpawnTask, SpawnFails, SubmitDone, JoinNext, Unwind,
      Compare, FailTests, FinishTests, MainFailed, MainPassed
  <2>2. \/ TransferState' = TransferState
        \/ TransferState \in {"idle", "busy"} /\ TransferState' = "stopped"
    BY <1>4 DEF Faithful, SubmitInline, ReserveHugePages, OpenDevice, AllocateWrite,
      AllocateRead, AllocateBuffer, SpawnTask, SpawnFails, SubmitDone, JoinNext, Unwind,
      Compare, FailTests, FinishTests, FreeBuffers, MainFailed, MainPassed, Exit
  <2> QED
    BY <2>1, <2>2 DEF BT!Next, BT!Stop, Moved
<1>5. CASE Done \/ UNCHANGED vars
  BY <1>5 DEF Done, vars, memory, Moved
<1> QED
  BY <1>1, <1>2, <1>3, <1>4, <1>5 DEF Next, Main

\* In the asynchronous build, if the device never completes a command with a
\* status, each half of submit_test is a request of BlockTransfer for all the
\* blocks of the file.
THEOREM Refinement == Spec => RefinesBlockTransfer
<1>1. Init => BT!Init
  BY DEF Init, BT!Init, TransferState, Moved
<1>2. IInv /\ [Next]_vars => [BT!Next]_(BT!vars)
  BY StepRefines
<1> QED
  BY <1>1, <1>2, Invariance, PTL DEF Spec, RefinesBlockTransfer, BT!Spec
=============================================================================
