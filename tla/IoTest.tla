-------------------------------- MODULE IoTest --------------------------------
(***************************************************************************)
(* my_version/ioctl and my_version/ioctl_thread: the first two measuring   *)
(* programs.  Every round fills the write buffer with new random data,     *)
(* opens the device, writes the buffer, reads it back, compares and closes.*)
(* nvme_io splits a transfer into commands of at most MAX_BLOCK_NUM        *)
(* blocks: ioctl_thread gives each a pthread of its own and joins them     *)
(* all, ioctl issues them one after the other.  The two programs differ    *)
(* in nvme_io only, and `threaded' says which one runs.                    *)
(*                                                                         *)
(* `error' is assigned, not accumulated, for every command, so only the    *)
(* last command decides whether nvme_io ends the program; what the data    *)
(* comparison makes of the other failures is what the properties are about.*)
(***************************************************************************)
EXTENDS Integers, Sequences

CONSTANTS
  NBlocks,        \* blocks of the buffers
  MAX_BLOCK_NUM,  \* blocks of the largest command
  TestRounds,
  Programs,       \* subset of BOOLEAN: TRUE is ioctl_thread, FALSE is ioctl
  Outcomes        \* what an ioctl may return, a subset of AllOutcomes

AllOutcomes == {"ok", "errno", "status"}

ASSUME IoTestAssumption ==
  /\ NBlocks \in Nat \ {0} /\ MAX_BLOCK_NUM \in Nat \ {0} /\ TestRounds \in Nat
  /\ Programs \subseteq BOOLEAN
  /\ Outcomes \subseteq AllOutcomes

VARIABLES
  threaded,
  pc,
  op,             \* ioType of the running nvme_io
  round,
  remainBlocks, currentLba,
  offset,         \* offsetBytes, in blocks
  threads,        \* params and threads: the commands of this nvme_io
  next,           \* the thread the join loop waits for
  error,
  writeData, readData,
  device,
  verdict,        \* what the round printed
  fd,             \* is the device open?
  failed,         \* ghost: an ioctl of this round moved less than its blocks
  fresh           \* ghost: no earlier run left its data on the device

cursor == <<remainBlocks, currentLba, offset>>
memory == <<readData, device, failed>>
setting == <<threaded, fresh>>   \* chosen once, never changed
vars == <<setting, pc, op, round, cursor, threads, next, error, writeData, memory,
          verdict, fd>>

-----------------------------------------------------------------------------

Junk == 0
Blocks == 0 .. NBlocks - 1
MaxThreads == (NBlocks + MAX_BLOCK_NUM - 1) \div MAX_BLOCK_NUM

\* generate_random_data: rand() goes on, so every round of a run has data of its
\* own; but it is never seeded, so the rounds of every run have the same.
RandomData(r) == [b \in Blocks |-> r * NBlocks + b + 1]

\* (mutant) the last command is as long as the others
OperateBlocks_Full == MAX_BLOCK_NUM
\* get_operate_block
OperateBlocks == IF remainBlocks < MAX_BLOCK_NUM THEN remainBlocks ELSE MAX_BLOCK_NUM

\* The blocks a command of n blocks moves: all, none, or any of them.
MovedBy(outcome, n) ==
  CASE outcome = "ok"     -> {0 .. n - 1}
    [] outcome = "errno"  -> {{}}
    [] outcome = "status" -> SUBSET (0 .. n - 1)

\* One ioctl at LBA slba, from or to offset off of the buffer of `op'.
Transfer(slba, off, n, outcome) ==
  \E mv \in MovedBy(outcome, n) :
    /\ failed' = (failed \/ mv # 0 .. n - 1)
    /\ IF op = "WRITE"
       THEN /\ device' = [b \in Blocks |-> IF b - slba \in mv THEN writeData[off + b - slba]
                                            ELSE device[b]]
            /\ UNCHANGED readData
       ELSE /\ readData' = [b \in Blocks |-> IF b - off \in mv THEN device[slba + b - off]
                                              ELSE readData[b]]
            /\ UNCHANGED device

Init ==
  /\ threaded \in Programs
  /\ pc = "round"
  /\ op = "WRITE" /\ round = 0
  /\ remainBlocks = 0 /\ currentLba = 0 /\ offset = 0
  /\ threads = <<>> /\ next = 1 /\ error = FALSE
  /\ writeData = [b \in Blocks |-> Junk]
  /\ readData = [b \in Blocks |-> Junk]
  /\ fresh \in BOOLEAN
  /\ IF fresh THEN device = [b \in Blocks |-> Junk]
     ELSE \E r \in 0 .. TestRounds - 1 : device = RandomData(r)
  /\ verdict = "none" /\ fd = "closed" /\ failed = FALSE

\* check_error: the program ends, its threads with it.
Exit ==
  /\ pc' = "exited"
  /\ UNCHANGED <<setting, op, round, cursor, threads, next, error, writeData, memory,
                 verdict, fd>>

\* The start of nvme_io.
NvmeIo(type) ==
  /\ pc' = "submit" /\ op' = type
  /\ remainBlocks' = NBlocks /\ currentLba' = 0 /\ offset' = 0
  /\ threads' = <<>> /\ next' = 1 /\ error' = FALSE

\* (mutant) the write buffer is filled once, as in nvme_transfer
StartRound_OneFill ==
  /\ pc = "round" /\ round < TestRounds
  /\ writeData' = RandomData(0)
  /\ fd' = "open"
  /\ NvmeIo("WRITE")
  /\ failed' = FALSE
  /\ verdict' = "none"
  /\ UNCHANGED <<setting, round, readData, device>>

\* io_test and single_test: new data, open the device, start writing.
StartRound ==
  /\ pc = "round" /\ round < TestRounds
  /\ writeData' = RandomData(round)
  /\ fd' = "open"
  /\ NvmeIo("WRITE")
  /\ failed' = FALSE
  /\ verdict' = "none"
  /\ UNCHANGED <<setting, round, readData, device>>

OpenFails == pc = "round" /\ round < TestRounds /\ Exit

Advance ==
  /\ remainBlocks' = remainBlocks - OperateBlocks
  /\ currentLba' = currentLba + OperateBlocks
  /\ offset' = offset + OperateBlocks

\* ioctl_thread: the params of the command are filled in and its thread created.
CreateThread ==
  /\ pc = "submit" /\ threaded /\ remainBlocks > 0
  /\ threads' = Append(threads, [slba |-> currentLba, off |-> offset,
                                 n |-> OperateBlocks, st |-> "running", result |-> 0])
  /\ Advance
  /\ UNCHANGED <<setting, pc, op, round, next, error, writeData, memory, verdict, fd>>

CreateFails == pc = "submit" /\ threaded /\ remainBlocks > 0 /\ Exit

\* The value of the ioctl, as a sign: `< 0' is all that is asked of it.
Sign(outcome) == CASE outcome = "ok" -> 0 [] outcome = "errno" -> -1 [] outcome = "status" -> 1

\* _nvme_io of ioctl_thread
RunThread(i) ==
  /\ pc # "exited"
  /\ i \in DOMAIN threads /\ threads[i].st = "running"
  /\ \E outcome \in Outcomes :
       /\ Transfer(threads[i].slba, threads[i].off, threads[i].n, outcome)
       /\ threads' = [threads EXCEPT ![i].st = "done", ![i].result = Sign(outcome)]
  /\ UNCHANGED <<setting, pc, op, round, cursor, next, error, writeData, verdict, fd>>

\* The loop of ioctl.
IssueCommand ==
  /\ pc = "submit" /\ ~threaded /\ remainBlocks > 0
  /\ \E outcome \in Outcomes :
       /\ Transfer(currentLba, offset, OperateBlocks, outcome)
       /\ error' = (Sign(outcome) < 0)
  /\ Advance
  /\ UNCHANGED <<setting, pc, op, round, threads, next, writeData, verdict, fd>>

SubmitDone ==
  /\ pc = "submit" /\ remainBlocks = 0
  /\ pc' = IF threaded THEN "join" ELSE "check"
  /\ UNCHANGED <<setting, op, round, cursor, threads, next, error, writeData, memory,
                 verdict, fd>>

\* (mutant) a thread is not waited for
JoinNext_NoWait ==
  /\ pc = "join" /\ next \in DOMAIN threads
  /\ error' = (threads[next].result < 0)
  /\ next' = next + 1
  /\ UNCHANGED <<setting, pc, op, round, cursor, threads, writeData, memory, verdict, fd>>

\* (mutant) the loop waits for the first thread for ever
JoinNext_Stuck ==
  /\ pc = "join" /\ next \in DOMAIN threads
  /\ threads[next].st = "done"
  /\ error' = (threads[next].result < 0)
  /\ UNCHANGED <<setting, pc, op, round, cursor, threads, next, writeData, memory, verdict,
                 fd>>

\* pthread_join: the error of the threads before is forgotten.
JoinNext ==
  /\ pc = "join" /\ next \in DOMAIN threads
  /\ threads[next].st = "done"
  /\ error' = (threads[next].result < 0)
  /\ next' = next + 1
  /\ UNCHANGED <<setting, pc, op, round, cursor, threads, writeData, memory, verdict, fd>>

\* After the last join params is deleted.
JoinDone ==
  /\ pc = "join" /\ next = Len(threads) + 1
  /\ pc' = "check"
  /\ UNCHANGED <<setting, op, round, cursor, threads, next, error, writeData, memory,
                 verdict, fd>>

CheckError == pc = "check" /\ error /\ Exit

\* nvme_io returns: the read half follows the write half, the comparison that.
NextHalf ==
  /\ pc = "check" /\ ~error /\ op = "WRITE"
  /\ NvmeIo("READ")
  /\ UNCHANGED <<setting, round, writeData, memory, verdict, fd>>

Compare ==
  /\ pc = "check" /\ ~error /\ op = "READ"
  /\ verdict' = IF readData = writeData THEN "match" ELSE "mismatch"
  /\ fd' = "closed"
  /\ round' = round + 1
  /\ pc' = "round"
  /\ UNCHANGED <<setting, op, cursor, threads, next, error, writeData, memory>>

Finish == pc = "round" /\ round = TestRounds /\ Exit

Done == pc = "exited" /\ UNCHANGED vars

Main ==
  \/ StartRound \/ OpenFails \/ CreateThread \/ CreateFails \/ IssueCommand \/ SubmitDone
  \/ JoinNext \/ JoinDone \/ CheckError \/ NextHalf \/ Compare \/ Finish

Next == Main \/ (\E i \in DOMAIN threads : RunThread(i)) \/ Done

Spec == Init /\ [][Next]_vars

\* The main thread runs, every pthread runs, every ioctl returns.
FairSpec == Spec /\ WF_vars(Main) /\ WF_vars(\E i \in DOMAIN threads : RunThread(i))

-----------------------------------------------------------------------------
(* Properties                                                              *)

Thread ==
  [slba : Blocks, off : Blocks, n : 1 .. MAX_BLOCK_NUM, st : {"running", "done"},
   result : -1 .. 1]

\* Every variable has its type; no command starts past the end of the buffer,
\* and the arrays of threadNums entries hold every thread.
TypeOK ==
  /\ threaded \in Programs
  /\ pc \in {"round", "submit", "join", "check", "exited"}
  /\ op \in {"READ", "WRITE"} /\ round \in 0 .. TestRounds
  /\ remainBlocks \in 0 .. NBlocks /\ currentLba \in 0 .. NBlocks /\ offset \in 0 .. NBlocks
  /\ threads \in Seq(Thread) /\ Len(threads) <= MaxThreads
  /\ next \in 1 .. MaxThreads + 1 /\ error \in BOOLEAN
  /\ \A d \in {writeData, readData, device} : d \in [Blocks -> Nat]
  /\ verdict \in {"none", "match", "mismatch"} /\ fd \in {"open", "closed"}
  /\ failed \in BOOLEAN /\ fresh \in BOOLEAN

\* While a thread may still be inside its ioctl, nvme_io has not returned: the
\* params it reads are not deleted, the buffer it uses is not refilled and the
\* file it uses is not closed.
NvmeIoOutlivesThreads ==
  pc # "exited" => \A i \in DOMAIN threads :
    threads[i].st = "running" => pc \in {"submit", "join"} /\ fd = "open"

\* On a fresh device "Validation successful" is only printed of a round whose data
\* is on the device and none of whose commands failed, although all errors but the
\* last are forgotten and a positive status is none: the data of every round is new.
\* Where an earlier run left its data neither holds, since that run's rounds had the
\* same data: it may have been read two rounds ago and be in readData still.
MatchIsReal == (verdict = "match" /\ fresh) => device = writeData /\ ~failed

\* "Validation failed" is only printed when an ioctl of the round did not move
\* all its blocks: the commands cover the buffer, and the reads come after all
\* the writes.
MismatchMeansFailure == verdict = "mismatch" => failed

\* The program ends.
Termination == <>(pc = "exited")
=============================================================================
