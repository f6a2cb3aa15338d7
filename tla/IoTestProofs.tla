------------------------------ MODULE IoTestProofs ------------------------------
(***************************************************************************)
(* Proofs about IoTest for every size of the buffers and of a command,     *)
(* every number of rounds, both programs and every order of the threads.   *)
(***************************************************************************)
EXTENDS IoTest, TLAPS

InNvmeIo == pc \in {"submit", "join", "check"}
Extent(t) == t.slba .. t.slba + t.n - 1

\* No command that moves the block has ended yet.
Pending(b) ==
  \/ b >= currentLba
  \/ \E i \in DOMAIN threads : threads[i].st = "running" /\ b \in Extent(threads[i])

\* The data of the rounds before is at most Base, that of this round is larger.
Base == round * NBlocks

\* Where the program is in a round.
PcInv ==
  /\ InNvmeIo => /\ fd = "open" /\ verdict = "none" /\ round < TestRounds
                 /\ writeData = RandomData(round)
  /\ pc \in {"join", "check"} => remainBlocks = 0
  /\ ~threaded => threads = <<>>

\* The commands so far are as long as they can be, so they cover the blocks before
\* currentLba and fit into the array.
CursorInv ==
  /\ InNvmeIo => offset = currentLba /\ remainBlocks = NBlocks - currentLba
  /\ (pc = "submit" /\ threaded /\ remainBlocks > 0) => currentLba = Len(threads) * MAX_BLOCK_NUM

\* Every thread has blocks of its own.
ThreadInv ==
  /\ \A i \in DOMAIN threads : /\ threads[i].slba = threads[i].off
                               /\ threads[i].slba + threads[i].n <= currentLba
  /\ \A i, j \in DOMAIN threads : i < j => threads[i].slba + threads[i].n <= threads[j].slba

\* Which threads have ended.
JoinInv ==
  /\ pc = "submit" => next = 1
  /\ pc = "join" => \A i \in DOMAIN threads : i < next => threads[i].st = "done"
  /\ pc \in {"check", "round"} => \A i \in DOMAIN threads : threads[i].st = "done"

\* As long as no command failed, what was to be moved has been.
MovedInv ==
  InNvmeIo /\ ~failed =>
    \A b \in Blocks :
      IF op = "WRITE" THEN ~Pending(b) => device[b] = writeData[b]
      ELSE device[b] = writeData[b] /\ (~Pending(b) => readData[b] = writeData[b])

\* On a fresh device the data of this round is only where a command of this round
\* moved it.
NewDataInv ==
  fresh =>
    /\ pc = "round" => \A b \in Blocks : device[b] <= Base /\ readData[b] <= Base
    /\ InNvmeIo => \A b \in Blocks :
         /\ device[b] <= Base \/ device[b] = writeData[b]
         /\ op = "WRITE" => readData[b] <= Base /\ (Pending(b) => device[b] <= Base)
         /\ op = "READ" => /\ Pending(b) => readData[b] <= Base
                           /\ readData[b] <= Base \/ readData[b] = device[b]

\* A block that a failed command left behind; no later command makes up for it.
Lost(b) ==
  IF op = "WRITE" THEN device[b] <= Base /\ ~Pending(b)
  ELSE device[b] <= Base \/ (readData[b] <= Base /\ ~Pending(b))

LostInv == (InNvmeIo /\ fresh /\ failed) => \E b \in Blocks : Lost(b)

IoInv ==
  /\ TypeOK
  /\ pc # "exited" => /\ PcInv /\ CursorInv /\ ThreadInv /\ JoinInv
                      /\ MovedInv /\ NewDataInv /\ LostInv
  /\ MatchIsReal /\ MismatchMeansFailure

-----------------------------------------------------------------------------
(* Data, commands and threads                                              *)

\* The data of a round is larger than that of the rounds before.
LEMMA DataOfRound ==
  ASSUME NEW r \in Nat
  PROVE  /\ r * NBlocks \in Nat
         /\ (r + 1) * NBlocks = r * NBlocks + NBlocks
         /\ RandomData(r) \in [Blocks -> Nat]
         /\ \A b \in Blocks : RandomData(r)[b] = r * NBlocks + b + 1
<1>1. NBlocks \in Nat \ {0}
  BY IoTestAssumption
<1>2. r * NBlocks \in Nat /\ (r + 1) * NBlocks = r * NBlocks + NBlocks
  BY <1>1
<1>3. \A b \in Blocks : RandomData(r)[b] = r * NBlocks + b + 1
  BY DEF RandomData
<1>4. \A b \in Blocks : r * NBlocks + b + 1 \in Nat
  BY <1>1, <1>2 DEF Blocks
<1> QED
  BY <1>2, <1>3, <1>4 DEF RandomData

\* There is room for a command as long as the full ones leave a block.
LEMMA RoomForThread ==
  ASSUME NEW k \in Nat, k * MAX_BLOCK_NUM < NBlocks
  PROVE  k + 1 <= MaxThreads /\ MaxThreads \in Nat
<1> DEFINE m == MAX_BLOCK_NUM
           y == NBlocks + m - 1
           q == y \div m
<1>1. m \in Nat \ {0} /\ NBlocks \in Nat \ {0} /\ y \in Nat
  BY IoTestAssumption
<1>2. q = MaxThreads
  BY DEF MaxThreads
<1> HIDE DEF y
<1>3. q \in Nat /\ y < m * q + m
  BY <1>1
<1>4. y = NBlocks + m - 1 /\ k * m < NBlocks
  BY DEF y
<1> HIDE DEF q, m
<1>5. (k + 1) * m = k * m + m /\ (q + 1) * m = m * q + m /\ k * m \in Nat /\ m * q \in Nat
  BY <1>1, <1>3
<1>6. (k + 1) * m < (q + 1) * m
  BY <1>1, <1>3, <1>4, <1>5
<1>7. k + 1 >= q + 1 => (k + 1) * m >= (q + 1) * m
  BY <1>1, <1>3
<1>8. (k + 1) * m \in Nat /\ (q + 1) * m \in Nat
  BY <1>1, <1>3
<1>9. k + 1 <= q
  BY <1>3, <1>6, <1>7, <1>8
<1> QED
  BY <1>2, <1>3, <1>9

\* The blocks a command moves, under their numbers in the buffer.
LEMMA TransferEffect ==
  ASSUME TypeOK, NEW slba \in Blocks, NEW n \in Nat, slba + n <= NBlocks,
         NEW outcome \in Outcomes, Transfer(slba, slba, n, outcome)
  PROVE  \E ms \in SUBSET (slba .. slba + n - 1) :
           /\ failed' = (failed \/ ms # slba .. slba + n - 1)
           /\ op = "WRITE" =>
                /\ readData' = readData
                /\ device' = [b \in Blocks |-> IF b \in ms THEN writeData[b] ELSE device[b]]
           /\ op = "READ" =>
                /\ device' = device
                /\ readData' = [b \in Blocks |-> IF b \in ms THEN device[b] ELSE readData[b]]
<1>1. PICK mv \in MovedBy(outcome, n) :
        /\ failed' = (failed \/ mv # 0 .. n - 1)
        /\ IF op = "WRITE"
           THEN /\ device' = [b \in Blocks |-> IF b - slba \in mv THEN writeData[slba + b - slba]
                                                ELSE device[b]]
                /\ UNCHANGED readData
           ELSE /\ readData' = [b \in Blocks |-> IF b - slba \in mv THEN device[slba + b - slba]
                                                  ELSE readData[b]]
                /\ UNCHANGED device
  BY DEF Transfer
<1>2. mv \subseteq 0 .. n - 1
  BY IoTestAssumption DEF MovedBy, AllOutcomes
<1> DEFINE ms == {b \in slba .. slba + n - 1 : b - slba \in mv}
<1>3. slba \in Nat /\ \A b \in Blocks : b \in Nat /\ slba + b - slba = b
  BY DEF Blocks
<1>4. \A b \in Blocks : b - slba \in mv <=> b \in ms
  BY <1>2, <1>3
<1>5. mv # 0 .. n - 1 <=> ms # slba .. slba + n - 1
  <2>1. ASSUME mv = 0 .. n - 1 PROVE ms = slba .. slba + n - 1
    BY <1>3, <2>1
  <2>2. ASSUME ms = slba .. slba + n - 1, NEW k \in 0 .. n - 1 PROVE k \in mv
    <3>1. slba + k \in slba .. slba + n - 1 /\ (slba + k) - slba = k
      BY <1>3
    <3>2. slba + k \in ms
      BY <2>2, <3>1
    <3> QED
      BY <3>1, <3>2
  <2> QED
    BY <1>2, <2>1, <2>2
<1> HIDE DEF ms
<1>6. op = "WRITE" => /\ readData' = readData
                      /\ device' = [b \in Blocks |-> IF b \in ms THEN writeData[b] ELSE device[b]]
  BY <1>1, <1>3, <1>4
<1>7. op = "READ" => /\ device' = device
                     /\ readData' = [b \in Blocks |-> IF b \in ms THEN device[b] ELSE readData[b]]
  BY <1>1, <1>3, <1>4
<1>8. ms \in SUBSET (slba .. slba + n - 1)
  BY DEF ms
<1> QED
  BY <1>1, <1>5, <1>6, <1>7, <1>8

\* One command that ends: what it says of the data.
LEMMA CommandKeeps ==
  ASSUME IoInv, InNvmeIo, NEW slba \in Blocks, NEW n \in Nat, slba + n <= NBlocks,
         NEW outcome \in Outcomes, Transfer(slba, slba, n, outcome),
         pc' = pc, UNCHANGED <<op, round, writeData, fresh>>,
         \A b \in Blocks : Pending(b)' <=> Pending(b) /\ b \notin slba .. slba + n - 1,
         \A b \in slba .. slba + n - 1 : Pending(b)
  PROVE  /\ MovedInv' /\ NewDataInv' /\ LostInv'
         /\ device' \in [Blocks -> Nat] /\ readData' \in [Blocks -> Nat] /\ failed' \in BOOLEAN
<1> DEFINE E == slba .. slba + n - 1
<1>1. /\ TypeOK /\ PcInv /\ MovedInv /\ NewDataInv /\ LostInv
      /\ pc # "exited" /\ pc # "round"
  BY DEF IoInv, InNvmeIo
<1>2. PICK ms \in SUBSET E :
        /\ failed' = (failed \/ ms # E)
        /\ op = "WRITE" =>
             /\ readData' = readData
             /\ device' = [b \in Blocks |-> IF b \in ms THEN writeData[b] ELSE device[b]]
        /\ op = "READ" =>
             /\ device' = device
             /\ readData' = [b \in Blocks |-> IF b \in ms THEN device[b] ELSE readData[b]]
  BY <1>1, TransferEffect
<1>3. E \subseteq Blocks
  BY IoTestAssumption DEF Blocks
<1> HIDE DEF E
<1>4. op \in {"READ", "WRITE"} /\ round \in Nat /\ failed \in BOOLEAN
      /\ writeData \in [Blocks -> Nat] /\ device \in [Blocks -> Nat]
      /\ readData \in [Blocks -> Nat]
  BY <1>1 DEF TypeOK
<1>5. Base \in Nat /\ \A b \in Blocks : writeData[b] > Base
  <2>1. writeData = RandomData(round)
    BY <1>1 DEF PcInv
  <2>2. Base \in Nat /\ \A b \in Blocks : writeData[b] = Base + b + 1
    BY <1>4, <2>1, DataOfRound DEF Base
  <2>3. \A b \in Blocks : b \in Nat
    BY DEF Blocks
  <2> QED
    BY <2>2, <2>3
<1>6. Base' = Base
  BY DEF Base
<1>7. \A b \in Blocks : Pending(b)' <=> Pending(b) /\ b \notin E
  BY DEF E
<1>8. \A b \in E : Pending(b)
  BY DEF E
<1>9. MovedInv'
  <2> SUFFICES ASSUME ~failed', NEW b \in Blocks
               PROVE  IF op = "WRITE" THEN ~Pending(b)' => device'[b] = writeData[b]
                      ELSE device'[b] = writeData[b] /\ (~Pending(b)' => readData'[b] = writeData[b])
    BY DEF MovedInv
  <2>1. ~failed /\ ms = E
    BY <1>2, <1>4
  <2>2. IF op = "WRITE" THEN ~Pending(b) => device[b] = writeData[b]
        ELSE device[b] = writeData[b] /\ (~Pending(b) => readData[b] = writeData[b])
    BY <1>1, <2>1 DEF MovedInv
  <2> QED
    BY <1>2, <1>4, <1>7, <2>1, <2>2
<1>10. NewDataInv'
  <2> SUFFICES ASSUME fresh, NEW b \in Blocks
               PROVE  /\ device'[b] <= Base \/ device'[b] = writeData[b]
                      /\ op = "WRITE" => readData'[b] <= Base /\ (Pending(b)' => device'[b] <= Base)
                      /\ op = "READ" => /\ Pending(b)' => readData'[b] <= Base
                                        /\ readData'[b] <= Base \/ readData'[b] = device'[b]
    BY <1>1, <1>6 DEF NewDataInv, InNvmeIo
  <2>1. /\ device[b] <= Base \/ device[b] = writeData[b]
        /\ op = "WRITE" => readData[b] <= Base /\ (Pending(b) => device[b] <= Base)
        /\ op = "READ" => /\ Pending(b) => readData[b] <= Base
                          /\ readData[b] <= Base \/ readData[b] = device[b]
    BY <1>1 DEF NewDataInv
  <2> QED
    BY <1>2, <1>4, <1>7, <2>1
<1>11. LostInv'
  <2> SUFFICES ASSUME fresh, failed' PROVE \E b \in Blocks : Lost(b)'
    BY DEF LostInv
  <2>1. CASE failed
    <3>1. PICK b \in Blocks : Lost(b)
      BY <1>1, <2>1 DEF LostInv
    <3>2. IF op = "WRITE" THEN device[b] <= Base /\ ~Pending(b)
          ELSE device[b] <= Base \/ (readData[b] <= Base /\ ~Pending(b))
      BY <3>1 DEF Lost
    <3>3. IF op = "WRITE" THEN device'[b] <= Base /\ ~Pending(b)'
          ELSE device'[b] <= Base \/ (readData'[b] <= Base /\ ~Pending(b)')
      BY <1>2, <1>4, <1>7, <1>8, <3>2
    <3> QED
      BY <1>6, <3>3 DEF Lost
  <2>2. CASE ~failed
    <3>1. PICK b \in E : b \notin ms
      BY <1>2, <2>2
    <3>2. b \in Blocks /\ Pending(b) /\ ~Pending(b)'
      BY <1>3, <1>7, <1>8, <3>1
    <3>3. op = "WRITE" => device'[b] <= Base
      BY <1>1, <1>2, <3>1, <3>2 DEF NewDataInv
    <3>4. op = "READ" => readData'[b] <= Base
      BY <1>1, <1>2, <3>1, <3>2 DEF NewDataInv
    <3> QED
      BY <1>4, <1>6, <3>2, <3>3, <3>4 DEF Lost
  <2> QED
    BY <1>4, <2>1, <2>2
<1>12. device' \in [Blocks -> Nat] /\ readData' \in [Blocks -> Nat] /\ failed' \in BOOLEAN
  BY <1>2, <1>4
<1> QED
  BY <1>9, <1>10, <1>11, <1>12

-----------------------------------------------------------------------------
(* Initially and between the commands                                      *)

LEMMA InitIoInv == Init => IoInv
<1> SUFFICES ASSUME Init PROVE IoInv
  OBVIOUS
<1> USE IoTestAssumption
<1>1. threads = <<>> /\ DOMAIN threads = {} /\ Len(threads) = 0 /\ threads \in Seq(Thread)
  BY DEF Init
<1>2. MaxThreads \in Nat
  BY RoomForThread
<1>3. /\ writeData \in [Blocks -> Nat] /\ readData \in [Blocks -> Nat]
      /\ \A b \in Blocks : readData[b] = 0
  BY DEF Init, Junk
<1>4. device \in [Blocks -> Nat] /\ (fresh => \A b \in Blocks : device[b] = 0)
  <2>1. CASE fresh
    BY <2>1 DEF Init, Junk
  <2>2. CASE ~fresh
    <3>1. PICK r \in 0 .. TestRounds - 1 : device = RandomData(r)
      BY <2>2 DEF Init
    <3> QED
      BY <2>2, <3>1, DataOfRound
  <2> QED
    BY <2>1, <2>2
<1>5. TypeOK
  <2>1. 1 \in 1 .. MaxThreads + 1 /\ Len(threads) <= MaxThreads
    BY <1>1, <1>2
  <2>2. /\ threaded \in Programs /\ pc = "round" /\ op = "WRITE" /\ round \in 0 .. TestRounds
        /\ remainBlocks \in 0 .. NBlocks /\ currentLba \in 0 .. NBlocks /\ offset \in 0 .. NBlocks
        /\ next = 1 /\ error = FALSE /\ verdict = "none" /\ fd = "closed"
        /\ failed = FALSE /\ fresh \in BOOLEAN
    BY DEF Init
  <2> QED
    BY <1>1, <1>3, <1>4, <2>1, <2>2 DEF TypeOK
<1>6. PcInv /\ CursorInv /\ ThreadInv /\ JoinInv
  BY <1>1 DEF Init, PcInv, CursorInv, ThreadInv, JoinInv, InNvmeIo
<1>7. Base = 0
  BY DEF Init, Base
<1>8. MovedInv /\ NewDataInv /\ LostInv
  BY <1>3, <1>4, <1>7 DEF Init, MovedInv, NewDataInv, LostInv, InNvmeIo
<1>9. MatchIsReal /\ MismatchMeansFailure
  BY DEF Init, MatchIsReal, MismatchMeansFailure
<1> QED
  BY <1>5, <1>6, <1>8, <1>9 DEF IoInv

\* The program ends: what it printed stays true.
LEMMA ExitKeeps ==
  ASSUME IoInv, Exit
  PROVE  IoInv'
  BY DEF IoInv, Exit, TypeOK, MatchIsReal, MismatchMeansFailure, setting, cursor, memory

\* nvme_io starts with everything pending.
LEMMA NvmeIoPending ==
  ASSUME NEW type, NvmeIo(type)
  PROVE  \A b \in Blocks : Pending(b)'
  BY DEF NvmeIo, Pending, Blocks

LEMMA NvmeIoControl ==
  ASSUME IoInv, NEW type \in {"READ", "WRITE"}, NvmeIo(type), UNCHANGED threaded,
         fd' = "open", verdict' = "none", round' < TestRounds, writeData' = RandomData(round')
  PROVE  PcInv' /\ CursorInv' /\ ThreadInv' /\ JoinInv'
<1>1. NBlocks \in Nat /\ NBlocks - 0 = NBlocks
  BY IoTestAssumption
<1>2. DOMAIN threads' = {} /\ Len(threads') = 0 /\ 0 * MAX_BLOCK_NUM = 0
  BY IoTestAssumption DEF NvmeIo
<1> QED
  BY <1>1, <1>2 DEF NvmeIo, PcInv, CursorInv, ThreadInv, JoinInv, InNvmeIo

LEMMA NvmeIoTypes ==
  ASSUME TypeOK, NEW type \in {"READ", "WRITE"}, NvmeIo(type)
  PROVE  /\ pc' = "submit" /\ op' \in {"READ", "WRITE"}
         /\ remainBlocks' \in 0 .. NBlocks /\ currentLba' \in 0 .. NBlocks
         /\ offset' \in 0 .. NBlocks
         /\ threads' \in Seq(Thread) /\ Len(threads') <= MaxThreads
         /\ next' \in 1 .. MaxThreads + 1 /\ error' \in BOOLEAN
<1>1. MaxThreads \in Nat
  BY IoTestAssumption, RoomForThread
<1>2. NBlocks \in Nat \ {0} /\ 0 \in 0 .. NBlocks /\ NBlocks \in 0 .. NBlocks
  BY IoTestAssumption
<1>3. <<>> \in Seq(Thread) /\ Len(<<>>) = 0
  OBVIOUS
<1>4. 1 \in 1 .. MaxThreads + 1 /\ 0 <= MaxThreads
  BY <1>1
<1> QED
  BY <1>2, <1>3, <1>4 DEF NvmeIo

LEMMA StartRoundKeeps ==
  ASSUME IoInv, StartRound
  PROVE  IoInv'
<1>1. /\ TypeOK /\ NewDataInv /\ pc = "round" /\ round < TestRounds /\ round \in Nat
      /\ UNCHANGED <<threaded, fresh, round, readData, device>>
      /\ writeData' = RandomData(round) /\ fd' = "open" /\ failed' = FALSE /\ verdict' = "none"
      /\ NvmeIo("WRITE")
  BY DEF IoInv, StartRound, TypeOK, setting
<1>2. pc' = "submit" /\ op' = "WRITE"
  BY <1>1 DEF NvmeIo
<1>3. TypeOK'
  BY <1>1, NvmeIoTypes, DataOfRound DEF TypeOK
<1>4. PcInv' /\ CursorInv' /\ ThreadInv' /\ JoinInv'
  BY <1>1, NvmeIoControl
<1>5. \A b \in Blocks : Pending(b)'
  BY <1>1, NvmeIoPending
<1>6. MovedInv'
  BY <1>2, <1>5 DEF MovedInv
<1>7. NewDataInv'
  BY <1>1, <1>2 DEF NewDataInv, InNvmeIo, Base
<1>8. LostInv' /\ MatchIsReal' /\ MismatchMeansFailure'
  BY <1>1 DEF LostInv, MatchIsReal, MismatchMeansFailure
<1> QED
  BY <1>3, <1>4, <1>6, <1>7, <1>8 DEF IoInv

\* At the check every command has ended.
LEMMA NothingPending ==
  ASSUME IoInv, pc = "check"
  PROVE  \A b \in Blocks : ~Pending(b)
<1>1. currentLba = NBlocks
  <2>1. remainBlocks = 0 /\ remainBlocks = NBlocks - currentLba
    BY DEF IoInv, PcInv, CursorInv, InNvmeIo
  <2>2. currentLba \in Nat /\ NBlocks \in Nat
    BY IoTestAssumption DEF IoInv, TypeOK
  <2> QED
    BY <2>1, <2>2
<1>2. \A i \in DOMAIN threads : threads[i].st = "done"
  BY DEF IoInv, JoinInv
<1> QED
  BY <1>1, <1>2, IoTestAssumption DEF Pending, Blocks

LEMMA NextHalfKeeps ==
  ASSUME IoInv, NextHalf
  PROVE  IoInv'
<1>1. /\ TypeOK /\ PcInv /\ MovedInv /\ NewDataInv /\ LostInv
      /\ pc = "check" /\ op = "WRITE"
      /\ UNCHANGED <<threaded, fresh, round, writeData, readData, device, failed, verdict, fd>>
      /\ NvmeIo("READ")
  BY DEF IoInv, NextHalf, setting, memory
<1>2. /\ pc' = "submit" /\ op' = "READ" /\ Base' = Base
      /\ fd = "open" /\ verdict = "none" /\ round < TestRounds /\ writeData = RandomData(round)
  BY <1>1 DEF NvmeIo, Base, PcInv, InNvmeIo
<1>3. TypeOK'
  BY <1>1, NvmeIoTypes DEF TypeOK
<1>4. PcInv' /\ CursorInv' /\ ThreadInv' /\ JoinInv'
  BY <1>1, <1>2, NvmeIoControl
<1>5. \A b \in Blocks : Pending(b)' /\ ~Pending(b)
  BY <1>1, NvmeIoPending, NothingPending
<1>6. MovedInv'
  BY <1>1, <1>2, <1>5 DEF MovedInv, InNvmeIo
<1>7. NewDataInv'
  BY <1>1, <1>2, <1>5 DEF NewDataInv, InNvmeIo
<1>8. LostInv'
  <2> SUFFICES ASSUME fresh, failed PROVE \E b \in Blocks : Lost(b)'
    BY <1>1 DEF LostInv
  <2>1. PICK b \in Blocks : Lost(b)
    BY <1>1 DEF LostInv, InNvmeIo
  <2>2. device[b] <= Base
    BY <1>1, <2>1 DEF Lost
  <2> QED
    BY <1>1, <1>2, <2>2 DEF Lost
<1>9. MatchIsReal' /\ MismatchMeansFailure'
  BY <1>1, <1>2 DEF MatchIsReal, MismatchMeansFailure
<1> QED
  BY <1>3, <1>4, <1>6, <1>7, <1>8, <1>9 DEF IoInv

LEMMA CompareKeeps ==
  ASSUME IoInv, Compare
  PROVE  IoInv'
<1>1. /\ TypeOK /\ PcInv /\ MovedInv /\ NewDataInv /\ LostInv /\ JoinInv /\ ThreadInv
      /\ pc = "check" /\ op = "READ" /\ pc' = "round" /\ round' = round + 1 /\ fd' = "closed"
      /\ verdict' = IF readData = writeData THEN "match" ELSE "mismatch"
      /\ UNCHANGED <<threaded, fresh, op, remainBlocks, currentLba, offset, threads, next, error,
                     writeData, readData, device, failed>>
  BY DEF IoInv, Compare, setting, cursor, memory
<1>2. /\ round < TestRounds /\ writeData = RandomData(round)
      /\ round \in Nat /\ TestRounds \in Nat /\ NBlocks \in Nat \ {0}
  BY <1>1, IoTestAssumption DEF PcInv, InNvmeIo, TypeOK
<1>3. /\ Base \in Nat /\ Base' = Base + NBlocks
      /\ \A b \in Blocks : writeData[b] = Base + b + 1
  BY <1>1, <1>2, DataOfRound DEF Base
<1>4. \A b \in Blocks : /\ b \in Nat /\ b < NBlocks
                        /\ device[b] \in Nat /\ readData[b] \in Nat /\ writeData[b] \in Nat
  BY <1>1, <1>2 DEF Blocks, TypeOK
<1>5. \A b \in Blocks : ~Pending(b)
  BY <1>1, NothingPending
<1>6. TypeOK'
  BY <1>1, <1>2 DEF TypeOK
<1>7. PcInv' /\ CursorInv' /\ ThreadInv' /\ JoinInv'
  BY <1>1 DEF PcInv, CursorInv, ThreadInv, JoinInv, InNvmeIo
<1>8. MovedInv' /\ LostInv'
  BY <1>1 DEF MovedInv, LostInv, InNvmeIo
<1>9. NewDataInv'
  <2> SUFFICES ASSUME fresh, NEW b \in Blocks PROVE device[b] <= Base' /\ readData[b] <= Base'
    BY <1>1 DEF NewDataInv, InNvmeIo
  <2>1. /\ device[b] <= Base \/ device[b] = writeData[b]
        /\ readData[b] <= Base \/ readData[b] = device[b]
    BY <1>1 DEF NewDataInv, InNvmeIo
  <2>2. device[b] <= Base'
    BY <1>2, <1>3, <1>4, <2>1
  <2> QED
    BY <1>2, <1>3, <1>4, <2>1, <2>2
<1>10. MatchIsReal'
  <2> SUFFICES ASSUME readData = writeData, fresh PROVE device = writeData /\ ~failed
    BY <1>1 DEF MatchIsReal
  <2>1. ASSUME NEW b \in Blocks PROVE device[b] = writeData[b] /\ ~Lost(b)
    <3>1. readData[b] <= Base \/ readData[b] = device[b]
      BY <1>1 DEF NewDataInv, InNvmeIo
    <3>2. ~(writeData[b] <= Base)
      BY <1>3, <1>4
    <3> QED
      BY <1>1, <3>1, <3>2 DEF Lost
  <2>2. device = writeData
    BY <1>1, <2>1 DEF TypeOK
  <2> QED
    BY <1>1, <2>1, <2>2 DEF LostInv, InNvmeIo
<1>11. MismatchMeansFailure'
  <2> SUFFICES ASSUME ~failed PROVE readData = writeData
    BY <1>1 DEF MismatchMeansFailure
  <2>1. \A b \in Blocks : readData[b] = writeData[b]
    BY <1>1, <1>5 DEF MovedInv, InNvmeIo
  <2> QED
    BY <1>1, <2>1 DEF TypeOK
<1> QED
  BY <1>6, <1>7, <1>8, <1>9, <1>10, <1>11 DEF IoInv

-----------------------------------------------------------------------------
(* The commands                                                            *)

LEMMA CommandSize ==
  ASSUME TypeOK, remainBlocks > 0
  PROVE  OperateBlocks \in 1 .. MAX_BLOCK_NUM /\ OperateBlocks <= remainBlocks
  BY IoTestAssumption DEF TypeOK, OperateBlocks

\* Where the next command starts and what it leaves.
LEMMA AdvanceFacts ==
  ASSUME TypeOK, CursorInv, pc = "submit", remainBlocks > 0, Advance
  PROVE  /\ currentLba \in Blocks /\ offset = currentLba
         /\ currentLba + OperateBlocks <= NBlocks
         /\ currentLba' = currentLba + OperateBlocks /\ offset' = currentLba'
         /\ remainBlocks' = NBlocks - currentLba'
         /\ remainBlocks' \in 0 .. NBlocks /\ currentLba' \in 0 .. NBlocks
         /\ remainBlocks' > 0 => OperateBlocks = MAX_BLOCK_NUM
<1>1. NBlocks \in Nat \ {0} /\ MAX_BLOCK_NUM \in Nat \ {0}
  BY IoTestAssumption
<1>2. remainBlocks \in 0 .. NBlocks /\ currentLba \in 0 .. NBlocks
  BY DEF TypeOK
<1>3. offset = currentLba /\ remainBlocks = NBlocks - currentLba
  BY DEF CursorInv, InNvmeIo
<1>4. OperateBlocks \in Nat /\ OperateBlocks >= 1 /\ OperateBlocks <= remainBlocks
  BY <1>1, CommandSize
<1>5. OperateBlocks = MAX_BLOCK_NUM \/ OperateBlocks = remainBlocks
  BY DEF OperateBlocks
<1> QED
  BY <1>1, <1>2, <1>3, <1>4, <1>5 DEF Advance, Blocks

LEMMA CreateThreadKeeps ==
  ASSUME IoInv, CreateThread
  PROVE  IoInv'
<1> DEFINE t == [slba |-> currentLba, off |-> offset, n |-> OperateBlocks, st |-> "running",
                 result |-> 0]
<1>1. /\ TypeOK /\ PcInv /\ CursorInv /\ ThreadInv /\ JoinInv /\ MovedInv /\ NewDataInv /\ LostInv
      /\ pc = "submit" /\ threaded /\ remainBlocks > 0 /\ pc' = pc
      /\ threads' = Append(threads, t) /\ Advance
      /\ UNCHANGED <<threaded, fresh, op, round, next, error, writeData, readData, device, failed,
                     verdict, fd>>
  BY DEF IoInv, CreateThread, setting, memory
<1>2. /\ currentLba \in Blocks /\ offset = currentLba
      /\ currentLba + OperateBlocks <= NBlocks
      /\ currentLba' = currentLba + OperateBlocks /\ offset' = currentLba'
      /\ remainBlocks' = NBlocks - currentLba'
      /\ remainBlocks' \in 0 .. NBlocks /\ currentLba' \in 0 .. NBlocks
      /\ remainBlocks' > 0 => OperateBlocks = MAX_BLOCK_NUM
  BY <1>1, AdvanceFacts
<1>3. OperateBlocks \in 1 .. MAX_BLOCK_NUM /\ NBlocks \in Nat \ {0} /\ MAX_BLOCK_NUM \in Nat \ {0}
  BY <1>1, CommandSize, IoTestAssumption
<1>4. t \in Thread
  BY <1>2, <1>3 DEF Thread
<1>5. threads \in Seq(Thread) /\ Len(threads) \in Nat /\ DOMAIN threads = 1 .. Len(threads)
  BY <1>1 DEF TypeOK
<1> HIDE DEF t
<1>6. /\ threads' \in Seq(Thread) /\ Len(threads') = Len(threads) + 1
      /\ DOMAIN threads' = 1 .. Len(threads) + 1
      /\ threads'[Len(threads) + 1] = t
      /\ \A i \in 1 .. Len(threads) : threads'[i] = threads[i]
  BY <1>1, <1>4, <1>5
<1>7. /\ t.slba = currentLba /\ t.off = currentLba /\ t.n = OperateBlocks /\ t.st = "running"
  BY <1>2 DEF t
<1>8. currentLba = Len(threads) * MAX_BLOCK_NUM
  BY <1>1 DEF CursorInv
<1>9. TypeOK'
  <2>1. Len(threads') <= MaxThreads
    BY <1>2, <1>3, <1>5, <1>6, <1>8, RoomForThread DEF Blocks
  <2> QED
    BY <1>1, <1>2, <1>6, <2>1 DEF TypeOK
<1>10. PcInv'
  BY <1>1 DEF PcInv, InNvmeIo
<1>11. CursorInv'
  <2>1. (Len(threads) + 1) * MAX_BLOCK_NUM = Len(threads) * MAX_BLOCK_NUM + MAX_BLOCK_NUM
    BY <1>3, <1>5
  <2>2. remainBlocks' > 0 => currentLba' = Len(threads') * MAX_BLOCK_NUM
    BY <1>2, <1>6, <1>8, <2>1
  <2> QED
    BY <1>1, <1>2, <2>2 DEF CursorInv
<1>12. currentLba \in Nat /\ OperateBlocks \in Nat /\ currentLba' \in Nat /\ OperateBlocks >= 1
  BY <1>2, <1>3 DEF Blocks
<1>13. \A i \in DOMAIN threads : /\ threads[i].slba \in Nat /\ threads[i].n \in Nat
                                 /\ threads[i].slba = threads[i].off
                                 /\ threads[i].slba + threads[i].n <= currentLba
  <2>1. \A i \in DOMAIN threads : threads[i] \in Thread
    BY <1>5
  <2>2. \A i \in DOMAIN threads : threads[i].slba \in Nat /\ threads[i].n \in Nat
    BY <1>3, <2>1 DEF Thread, Blocks
  <2> QED
    BY <1>1, <2>2 DEF ThreadInv
<1>14. ThreadInv'
  <2>1. ASSUME NEW i \in DOMAIN threads'
        PROVE  threads'[i].slba = threads'[i].off /\ threads'[i].slba + threads'[i].n <= currentLba'
    BY <1>2, <1>5, <1>6, <1>7, <1>12, <1>13
  <2>2. ASSUME NEW i \in DOMAIN threads', NEW j \in DOMAIN threads', i < j
        PROVE  threads'[i].slba + threads'[i].n <= threads'[j].slba
    <3>1. CASE j = Len(threads) + 1
      BY <1>5, <1>6, <1>7, <1>13, <2>2, <3>1
    <3>2. CASE j # Len(threads) + 1
      BY <1>1, <1>5, <1>6, <2>2, <3>2 DEF ThreadInv
    <3> QED
      BY <3>1, <3>2
  <2> QED
    BY <2>1, <2>2 DEF ThreadInv
<1>15. JoinInv'
  BY <1>1 DEF JoinInv
<1>16. \A b \in Blocks : Pending(b)' <=> Pending(b)
  <2> SUFFICES ASSUME NEW b \in Blocks PROVE Pending(b)' <=> Pending(b)
    OBVIOUS
  <2>1. b \in Nat
    BY DEF Blocks
  <2>2. (\E i \in DOMAIN threads' : threads'[i].st = "running" /\ b \in Extent(threads'[i]))
          <=> \/ \E i \in DOMAIN threads : threads[i].st = "running" /\ b \in Extent(threads[i])
              \/ b \in Extent(t)
    BY <1>5, <1>6, <1>7
  <2>3. b \in Extent(t) <=> b >= currentLba /\ b < currentLba'
    BY <1>2, <1>7, <1>12, <2>1 DEF Extent
  <2>4. b >= currentLba <=> b >= currentLba' \/ b \in Extent(t)
    BY <1>2, <1>12, <2>1, <2>3
  <2> QED
    BY <2>2, <2>4 DEF Pending
<1>17. MovedInv' /\ NewDataInv' /\ LostInv'
  BY <1>1, <1>16 DEF MovedInv, NewDataInv, LostInv, Lost, InNvmeIo, Base
<1>18. MatchIsReal' /\ MismatchMeansFailure'
  BY <1>1 DEF PcInv, InNvmeIo, MatchIsReal, MismatchMeansFailure
<1> QED
  BY <1>9, <1>10, <1>11, <1>14, <1>15, <1>17, <1>18 DEF IoInv

LEMMA IssueCommandKeeps ==
  ASSUME IoInv, IssueCommand
  PROVE  IoInv'
<1>1. /\ TypeOK /\ PcInv /\ CursorInv /\ ThreadInv /\ JoinInv
      /\ pc = "submit" /\ ~threaded /\ remainBlocks > 0 /\ pc' = pc /\ Advance
      /\ UNCHANGED <<threaded, fresh, op, round, threads, next, writeData, verdict, fd>>
      /\ error' \in BOOLEAN
  BY DEF IoInv, IssueCommand, setting
<1>2. /\ currentLba \in Blocks /\ offset = currentLba
      /\ currentLba + OperateBlocks <= NBlocks
      /\ currentLba' = currentLba + OperateBlocks /\ offset' = currentLba'
      /\ remainBlocks' = NBlocks - currentLba'
      /\ remainBlocks' \in 0 .. NBlocks /\ currentLba' \in 0 .. NBlocks
  BY <1>1, AdvanceFacts
<1>3. OperateBlocks \in Nat /\ OperateBlocks >= 1 /\ NBlocks \in Nat
  BY <1>1, CommandSize, IoTestAssumption
<1>4. PICK outcome \in Outcomes : Transfer(currentLba, currentLba, OperateBlocks, outcome)
  BY <1>2 DEF IssueCommand
<1>5. threads = <<>> /\ threads' = <<>>
  BY <1>1 DEF PcInv
<1>6. \A b \in Blocks : Pending(b) <=> b >= currentLba
  BY <1>5 DEF Pending
<1>7. \A b \in Blocks : Pending(b)' <=> b >= currentLba'
  BY <1>5 DEF Pending
<1>8. \A b \in Blocks : Pending(b)' <=> Pending(b) /\ b \notin currentLba .. currentLba + OperateBlocks - 1
  BY <1>2, <1>3, <1>6, <1>7 DEF Blocks
<1>9. \A b \in currentLba .. currentLba + OperateBlocks - 1 : Pending(b)
  BY <1>2, <1>3, <1>6 DEF Blocks
<1>10. /\ MovedInv' /\ NewDataInv' /\ LostInv'
       /\ device' \in [Blocks -> Nat] /\ readData' \in [Blocks -> Nat] /\ failed' \in BOOLEAN
  BY <1>1, <1>2, <1>3, <1>4, <1>8, <1>9, CommandKeeps DEF InNvmeIo
<1>11. TypeOK'
  BY <1>1, <1>2, <1>10 DEF TypeOK
<1>12. PcInv' /\ CursorInv' /\ ThreadInv' /\ JoinInv'
  BY <1>1, <1>2, <1>5 DEF PcInv, CursorInv, ThreadInv, JoinInv, InNvmeIo
<1>13. MatchIsReal' /\ MismatchMeansFailure'
  BY <1>1 DEF PcInv, InNvmeIo, MatchIsReal, MismatchMeansFailure
<1> QED
  BY <1>10, <1>11, <1>12, <1>13 DEF IoInv

\* _nvme_io on thread i: one command at any time before it is joined.
LEMMA RunThreadKeeps ==
  ASSUME IoInv, NEW i \in DOMAIN threads, RunThread(i)
  PROVE  IoInv'
<1>1. /\ TypeOK /\ PcInv /\ CursorInv /\ ThreadInv /\ JoinInv
      /\ pc # "exited" /\ threads[i].st = "running" /\ pc' = pc
      /\ UNCHANGED <<threaded, fresh, op, round, remainBlocks, currentLba, offset, next, error,
                     writeData, verdict, fd>>
  BY DEF IoInv, RunThread, setting, cursor
<1>2. PICK outcome \in Outcomes :
        /\ Transfer(threads[i].slba, threads[i].off, threads[i].n, outcome)
        /\ threads' = [threads EXCEPT ![i].st = "done", ![i].result = Sign(outcome)]
  BY DEF RunThread
<1>3. InNvmeIo /\ pc \in {"submit", "join"}
  BY <1>1 DEF JoinInv, InNvmeIo, TypeOK
<1>4. threads \in Seq(Thread) /\ Len(threads) \in Nat /\ DOMAIN threads = 1 .. Len(threads)
  BY <1>1 DEF TypeOK
<1>5. \A j \in DOMAIN threads : threads[j] \in Thread
  BY <1>4
<1>6. Sign(outcome) \in -1 .. 1
  BY IoTestAssumption DEF Sign, AllOutcomes
<1>7. /\ threads' \in Seq(Thread) /\ Len(threads') = Len(threads) /\ DOMAIN threads' = DOMAIN threads
      /\ threads'[i].st = "done"
      /\ \A j \in DOMAIN threads : j # i => threads'[j] = threads[j]
      /\ \A j \in DOMAIN threads : /\ threads'[j].slba = threads[j].slba
                                   /\ threads'[j].off = threads[j].off
                                   /\ threads'[j].n = threads[j].n
  <2> DEFINE u == [threads[i] EXCEPT !.st = "done", !.result = Sign(outcome)]
  <2>1. threads' = [threads EXCEPT ![i] = u]
    BY <1>2
  <2>2. /\ u \in Thread /\ u.slba = threads[i].slba /\ u.off = threads[i].off
        /\ u.n = threads[i].n /\ u.st = "done"
    BY <1>5, <1>6 DEF Thread
  <2> HIDE DEF u
  <2> QED
    BY <1>4, <1>5, <2>1, <2>2
<1>8. \A j \in DOMAIN threads : /\ threads[j].slba \in Nat /\ threads[j].n \in Nat
                                /\ threads[j].slba \in Blocks
                                /\ threads[j].slba = threads[j].off
                                /\ threads[j].slba + threads[j].n <= currentLba
  BY <1>1, <1>5 DEF ThreadInv, Thread, Blocks
<1>9. currentLba \in Nat /\ NBlocks \in Nat /\ currentLba <= NBlocks
  BY <1>1, IoTestAssumption DEF TypeOK
<1>10. \A b \in Blocks : Pending(b)' <=> Pending(b) /\ b \notin Extent(threads[i])
  <2> SUFFICES ASSUME NEW b \in Blocks
               PROVE  Pending(b)' <=> Pending(b) /\ b \notin Extent(threads[i])
    OBVIOUS
  <2>1. b \in Nat
    BY DEF Blocks
  <2>2. \A j \in DOMAIN threads : Extent(threads'[j]) = Extent(threads[j])
    BY <1>7 DEF Extent
  <2>3. b \in Extent(threads[i]) => ~(b >= currentLba)
    BY <1>8, <1>9, <2>1 DEF Extent
  <2>4. ASSUME NEW j \in DOMAIN threads, j # i, b \in Extent(threads[i])
        PROVE  b \notin Extent(threads[j])
    <3>1. i \in Nat /\ j \in Nat /\ (i < j \/ j < i)
      BY <1>4, <2>4
    <3>2. CASE i < j
      BY <1>1, <1>8, <2>1, <2>4, <3>2 DEF ThreadInv, Extent
    <3>3. CASE j < i
      BY <1>1, <1>8, <2>1, <2>4, <3>3 DEF ThreadInv, Extent
    <3> QED
      BY <3>1, <3>2, <3>3
  <2>5. (\E j \in DOMAIN threads' : threads'[j].st = "running" /\ b \in Extent(threads'[j]))
          <=> /\ \E j \in DOMAIN threads : threads[j].st = "running" /\ b \in Extent(threads[j])
              /\ b \notin Extent(threads[i])
    BY <1>1, <1>7, <2>2, <2>4
  <2> QED
    BY <1>1, <2>3, <2>5 DEF Pending
<1>11. \A b \in Extent(threads[i]) : Pending(b)
  BY <1>1 DEF Pending
<1>12. /\ MovedInv' /\ NewDataInv' /\ LostInv'
       /\ device' \in [Blocks -> Nat] /\ readData' \in [Blocks -> Nat] /\ failed' \in BOOLEAN
  <2>1. /\ threads[i].slba \in Blocks /\ threads[i].n \in Nat
        /\ threads[i].slba + threads[i].n <= NBlocks
        /\ Transfer(threads[i].slba, threads[i].slba, threads[i].n, outcome)
    BY <1>2, <1>8, <1>9
  <2> QED
    BY <1>1, <1>3, <1>10, <1>11, <2>1, CommandKeeps DEF Extent
<1>13. TypeOK'
  BY <1>1, <1>7, <1>12 DEF TypeOK
<1>14. PcInv' /\ CursorInv'
  BY <1>1, <1>4, <1>7 DEF PcInv, CursorInv, InNvmeIo
<1>15. ThreadInv' /\ JoinInv'
  BY <1>1, <1>7 DEF ThreadInv, JoinInv
<1>16. MatchIsReal' /\ MismatchMeansFailure'
  BY <1>1, <1>3 DEF PcInv, MatchIsReal, MismatchMeansFailure
<1> QED
  BY <1>12, <1>13, <1>14, <1>15, <1>16 DEF IoInv

\* The end of the loop and the joins move no data.
LEMMA JoinKeeps ==
  ASSUME IoInv, SubmitDone \/ JoinNext \/ JoinDone
  PROVE  IoInv'
<1>1. /\ TypeOK /\ PcInv /\ CursorInv /\ ThreadInv /\ JoinInv /\ MovedInv /\ NewDataInv /\ LostInv
      /\ pc \in {"submit", "join"} /\ pc' \in {"join", "check"} /\ remainBlocks = 0
      /\ UNCHANGED <<threaded, fresh, op, round, remainBlocks, currentLba, offset, threads,
                     writeData, readData, device, failed, verdict, fd>>
  BY DEF IoInv, SubmitDone, JoinNext, JoinDone, PcInv, setting, cursor, memory
<1>2. threads \in Seq(Thread) /\ Len(threads) \in Nat /\ DOMAIN threads = 1 .. Len(threads)
      /\ Len(threads) <= MaxThreads /\ MaxThreads \in Nat /\ next \in 1 .. MaxThreads + 1
  <2>1. MaxThreads \in Nat
    BY IoTestAssumption, RoomForThread
  <2> QED
    BY <1>1, <2>1 DEF TypeOK
<1>3. TypeOK'
  <2>1. next' \in 1 .. MaxThreads + 1 /\ error' \in BOOLEAN
    <3>1. CASE SubmitDone \/ JoinDone
      BY <1>1, <3>1 DEF SubmitDone, JoinDone, TypeOK
    <3>2. CASE JoinNext
      BY <1>2, <3>2 DEF JoinNext
    <3> QED
      BY <3>1, <3>2
  <2> QED
    BY <1>1, <2>1 DEF TypeOK
<1>4. PcInv' /\ CursorInv'
  BY <1>1 DEF PcInv, CursorInv, InNvmeIo
<1>5. ThreadInv'
  BY <1>1 DEF ThreadInv
<1>6. JoinInv'
  <2>1. CASE SubmitDone
    <3>1. CASE threaded
      BY <1>1, <1>2, <2>1, <3>1 DEF SubmitDone, JoinInv
    <3>2. CASE ~threaded
      BY <1>1, <2>1, <3>2 DEF SubmitDone, JoinInv, PcInv
    <3> QED
      BY <3>1, <3>2
  <2>2. CASE JoinNext
    BY <1>1, <1>2, <2>2 DEF JoinNext, JoinInv
  <2>3. CASE JoinDone
    BY <1>1, <1>2, <2>3 DEF JoinDone, JoinInv
  <2> QED
    BY <2>1, <2>2, <2>3
<1>7. MovedInv' /\ NewDataInv' /\ LostInv'
  BY <1>1 DEF MovedInv, NewDataInv, LostInv, Lost, Pending, InNvmeIo, Base
<1>8. MatchIsReal' /\ MismatchMeansFailure'
  BY <1>1 DEF PcInv, InNvmeIo, MatchIsReal, MismatchMeansFailure
<1> QED
  BY <1>3, <1>4, <1>5, <1>6, <1>7, <1>8 DEF IoInv

-----------------------------------------------------------------------------
(* The theorems                                                            *)

LEMMA StepKeepsIoInv == IoInv /\ [Next]_vars => IoInv'
<1> SUFFICES ASSUME IoInv, [Next]_vars PROVE IoInv'
  OBVIOUS
<1>1. CASE UNCHANGED vars
  BY <1>1 DEF vars, setting, cursor, memory, IoInv, TypeOK, PcInv, CursorInv, ThreadInv, JoinInv,
              MovedInv, NewDataInv, LostInv, Lost, Pending, InNvmeIo, Base, MatchIsReal,
              MismatchMeansFailure
<1>2. CASE OpenFails \/ CreateFails \/ CheckError \/ Finish
  BY <1>2, ExitKeeps DEF OpenFails, CreateFails, CheckError, Finish
<1> QED
  BY <1>1, <1>2, StartRoundKeeps, CreateThreadKeeps, IssueCommandKeeps, JoinKeeps, NextHalfKeeps,
     CompareKeeps, RunThreadKeeps DEF Next, Main, Done

\* No command starts past the end of the buffer and the arrays of threadNums
\* entries hold every thread, for every size of buffer and command (nvme_io).
THEOREM IoTypeCorrect == Spec => []TypeOK
<1>1. IoInv => TypeOK
  BY DEF IoInv
<1> QED
  BY <1>1, InitIoInv, StepKeepsIoInv, PTL DEF Spec

\* A thread's params, buffer and file outlive its ioctl (the joins of nvme_io).
THEOREM ThreadsAreJoined == Spec => []NvmeIoOutlivesThreads
<1>1. IoInv => NvmeIoOutlivesThreads
  BY DEF IoInv, TypeOK, PcInv, JoinInv, InNvmeIo, NvmeIoOutlivesThreads
<1> QED
  BY <1>1, InitIoInv, StepKeepsIoInv, PTL DEF Spec

\* On a fresh device "Validation successful" is true of every round it is printed
\* of, although most errors are forgotten (single_test).
THEOREM SuccessIsReal == Spec => []MatchIsReal
<1>1. IoInv => MatchIsReal
  BY DEF IoInv
<1> QED
  BY <1>1, InitIoInv, StepKeepsIoInv, PTL DEF Spec

\* "Validation failed" is never printed of a round whose commands all moved their
\* blocks: the commands cover the buffer (single_test, nvme_io).
THEOREM FailureIsReal == Spec => []MismatchMeansFailure
<1>1. IoInv => MismatchMeansFailure
  BY DEF IoInv
<1> QED
  BY <1>1, InitIoInv, StepKeepsIoInv, PTL DEF Spec

=============================================================================
