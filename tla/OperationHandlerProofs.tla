------------------------- MODULE OperationHandlerProofs -------------------------
(***************************************************************************)
(* Proofs about OperationHandler for every tensor, chunk and device, both  *)
(* builds, any number of calls and any answer of the device.               *)
(***************************************************************************)
EXTENDS OperationHandler, SequenceTheorems, TLAPS

Total == BlocksOf(req.size)

\* The blocks of the request a command of n blocks at lba is about.
Part(lba, n) == lba - req.slba .. lba - req.slba + n - 1

\* The request lies on the device.
ReqInv ==
  /\ calls > 0 => /\ req.op \in {"READ", "WRITE"}
                  /\ req.slba \in Nat /\ req.size \in Nat \ {0}
                  /\ req.slba + Total <= Lbas
  /\ pc # "idle" => calls > 0
  /\ pc = "check" => ~Async
  /\ pc \in {"join", "free"} => Async

\* What was submitted and what remains are the request.
CursorInv ==
  /\ pc \in {"open", "loop", "check", "join", "free", "close"} =>
       newData + BlocksOf(size) = Total /\ slba = req.slba + newData
  /\ pc \in {"join", "free", "close"} => size = 0
  /\ pc = "open" => newData = 0
  /\ pc \in {"open", "loop", "check"} /\ size > 0 => newData = 0 \/ BlocksOf(size) > 0

\* The shipped build has a bounce buffer for every whole chunk; as long as something
\* remains, only whole chunks were submitted.
ChunkInv ==
  Async /\ pc \in {"open", "loop"} =>
    /\ Len(bounce) = Total \div ChunkSize
    /\ size > 0 => newData = Len(tasks) * ChunkSize

\* Every thread has a bounce buffer and a part of the request; it has ended when the
\* futures are joined.
TaskInv ==
  /\ \A i \in DOMAIN tasks : /\ req.slba <= tasks[i].slba
                             /\ tasks[i].slba + tasks[i].n <= req.slba + newData
  /\ pc \in {"open", "loop", "check", "join"} => mapped = DOMAIN bounce /\ Len(tasks) <= Len(bounce)
  /\ pc = "open" \/ ~Async => tasks = <<>>
  /\ pc \in {"free", "close", "idle"} => \A i \in DOMAIN tasks : tasks[i].st = "done"
  /\ pc \in {"open", "loop", "check"} => next = 1
  /\ pc = "free" => \A i \in mapped : next <= i
  /\ pc = "join" => \A i \in DOMAIN tasks :
                      i < next => tasks[i].st = "done" /\ tasks[i].ret = "ok"

\* What the device moved: nothing but blocks of the request, and all blocks of the
\* commands that returned 0.
MovedInv ==
  /\ moved \subseteq IF calls = 0 THEN {} ELSE ReqBlocks
  /\ pc = "open" => moved = {}
  /\ ~Async /\ (pc = "loop" \/ (pc = "check" /\ returnVal = "ok")) => moved = 0 .. newData - 1
  /\ Async /\ pc \in {"loop", "join"} =>
       /\ \A i \in DOMAIN tasks : tasks[i].st = "done" /\ tasks[i].ret = "ok" =>
            Part(tasks[i].slba, tasks[i].n) \subseteq moved
       /\ \A k \in 0 .. newData - 1 : \E i \in DOMAIN tasks : k \in Part(tasks[i].slba, tasks[i].n)
  /\ pc \in {"free", "close"} => moved = ReqBlocks

\* The block holds what was intended, or what lay behind the buffer of a tensor too small.
Kept(b) == device[b] \in {intended[b], Stray}

\* In the synchronous builds every block is kept, but for the part of the request that has
\* been written; a read has its part of the device.
DataInv ==
  ~Async =>
    /\ pc = "idle" => \A b \in 0 .. Lbas - 1 : Kept(b)
    /\ pc \in {"open", "loop", "close"} \/ (pc = "check" /\ returnVal = "ok") =>
         /\ req.op = "WRITE" => \A b \in 0 .. Lbas - 1 :
              IF b - req.slba \in 0 .. newData - 1 THEN device[b] = data[b - req.slba] ELSE Kept(b)
         /\ req.op = "READ" => /\ \A b \in 0 .. Lbas - 1 : Kept(b)
                               /\ \A k \in 0 .. newData - 1 : data[k] = device[req.slba + k]

HInv ==
  /\ TypeOK
  /\ ~Stopped => ReqInv /\ CursorInv /\ ChunkInv /\ TaskInv /\ MovedInv /\ DataInv
  /\ ReadBackInline /\ WholeChunksFit

-----------------------------------------------------------------------------
(* Sizes and commands                                                      *)

\* A size that is divided into blocks, and what a command leaves of it.
LEMMA BlocksOfSize ==
  ASSUME NEW x \in Nat
  PROVE  /\ BlocksOf(x) \in Nat
         /\ BlocksOf(0) = 0
         /\ \A c \in Nat : BlocksOf(x) >= c =>
              x - c * PartsPerBlock \in Nat /\ BlocksOf(x - c * PartsPerBlock) = BlocksOf(x) - c
<1> DEFINE P == PartsPerBlock
           q == x \div P
<1>1. P \in Nat \ {0}
  BY HandlerAssumption
<1>2. q \in Nat /\ 0 \div P = 0 /\ x >= P * q /\ x < P * q + P
  BY <1>1
<1>3. ASSUME NEW c \in Nat, q >= c
      PROVE  x - c * P \in Nat /\ (x - c * P) \div P = q - c
  <2> HIDE DEF q, P
  <2>1. c * P \in Nat /\ P * q \in Nat /\ P * (q - c) = P * q - c * P /\ q - c \in Nat
    BY <1>1, <1>2, <1>3
  <2>2. P * (q - c) \in Nat
    BY <1>1, <2>1
  <2>3. x - c * P \in Nat
    BY <1>1, <1>2, <2>1, <2>2
  <2>4. x - c * P >= P * (q - c) /\ x - c * P < P * (q - c) + P
    BY <1>1, <1>2, <2>1
  <2> DEFINE y == x - c * P
             d == q - c
             e == y \div P
  <2>5. y \in Nat /\ d \in Nat /\ y >= P * d /\ y < P * d + P
    BY <2>1, <2>3, <2>4
  <2> HIDE DEF y, d
  <2>6. e \in Nat /\ y >= P * e /\ y < P * e + P
    BY <1>1, <2>5
  <2> HIDE DEF e
  <2>7. P * e < P * (d + 1) /\ P * d < P * (e + 1)
    BY <1>1, <2>5, <2>6
  <2>8. e < d + 1 /\ d < e + 1
    BY <1>1, <2>5, <2>6, <2>7
  <2>9. e = d
    BY <2>5, <2>6, <2>8
  <2> QED
    BY <2>3, <2>9 DEF e, d, y
<1> QED
  BY <1>2, <1>3 DEF BlocksOf

LEMMA CommandOfSize ==
  ASSUME NEW x \in Nat
  PROVE  /\ CommandBlocks(x) \in 0 .. ChunkSize
         /\ CommandBlocks(x) <= BlocksOf(x)
         /\ Rest(x) \in Nat
         /\ BlocksOf(Rest(x)) = BlocksOf(x) - CommandBlocks(x)
         /\ Rest(x) > 0 => CommandBlocks(x) = ChunkSize /\ BlocksOf(Rest(x)) > 0
<1>1. ChunkSize \in Nat \ {0}
  BY HandlerAssumption
<1>2. CASE BlocksOf(x) > ChunkSize
  <2>1. Rest(x) = x - ChunkSize * PartsPerBlock /\ CommandBlocks(x) = ChunkSize
    BY <1>2 DEF Rest, CommandBlocks
  <2>2. x - ChunkSize * PartsPerBlock \in Nat
        /\ BlocksOf(x - ChunkSize * PartsPerBlock) = BlocksOf(x) - ChunkSize
    BY <1>1, <1>2, BlocksOfSize
  <2>3. BlocksOf(x) \in Nat
    BY BlocksOfSize
  <2> QED
    BY <1>1, <1>2, <2>1, <2>2, <2>3
<1>3. CASE ~(BlocksOf(x) > ChunkSize)
  <2>1. Rest(x) = 0 /\ CommandBlocks(x) = BlocksOf(x)
    BY <1>3 DEF Rest, CommandBlocks
  <2>2. BlocksOf(0) = 0 /\ BlocksOf(x) \in Nat
    BY BlocksOfSize
  <2> QED
    BY <1>1, <1>3, <2>1, <2>2
<1> QED
  BY <1>2, <1>3

\* A command moves nothing but its blocks, and all of them when it returns 0.
LEMMA BlocksMoved ==
  ASSUME NEW outcome \in Outcomes, NEW n \in Nat, NEW mv \in MovedBy(outcome, n)
  PROVE  mv \subseteq 0 .. n - 1 /\ (outcome = "ok" => mv = 0 .. n - 1)
BY HandlerAssumption DEF MovedBy, AllOutcomes

-----------------------------------------------------------------------------
(* Every step keeps the invariant                                          *)

LEMMA InitInvariant == Init => HInv
<1> SUFFICES ASSUME Init PROVE HInv
  OBVIOUS
<1>1. TypeOK
  BY HandlerAssumption DEF Init, TypeOK, AllOutcomes, Contents, Blank
<1>2. ReqInv /\ CursorInv /\ TaskInv /\ ChunkInv /\ WholeChunksFit
  BY DEF Init, ReqInv, CursorInv, TaskInv, ChunkInv, WholeChunksFit
<1>3. MovedInv /\ DataInv /\ ReadBackInline
  BY DEF Init, MovedInv, DataInv, Kept, ReadBackInline
<1> QED
  BY <1>1, <1>2, <1>3 DEF HInv

\* What a step that does not touch the data leaves to show.
LEMMA DataUnchanged ==
  ASSUME TypeOK', DataInv, ~Stopped, pc' # "idle", UNCHANGED <<build, req, data, device, intended, newData>>,
         pc' \in {"open", "loop", "close"} \/ (pc' = "check" /\ returnVal' = "ok") =>
           pc \in {"open", "loop", "close"} \/ (pc = "check" /\ returnVal = "ok") \/ Async
  PROVE  DataInv'
BY DEF DataInv, Kept, Async

\* Outside its loop a call has no more to show of the chunks.
LEMMA ChunksBehind ==
  /\ pc' \notin {"open", "loop"} => ChunkInv'
  /\ pc' # "undefined" => WholeChunksFit'
BY DEF ChunkInv, WholeChunksFit

LEMMA CallKeeps ==
  ASSUME HInv, NEW r \in Requests, Call(r)
  PROVE  HInv'
<1>1. /\ TypeOK /\ ReqInv /\ CursorInv /\ TaskInv /\ MovedInv /\ DataInv
      /\ ~Stopped /\ ~Stopped'
  BY DEF HInv, Stopped, Call
<1>2. /\ r.op \in {"READ", "WRITE"} /\ r.slba \in Nat /\ r.size \in Nat \ {0}
      /\ r.slba + BlocksOf(r.size) <= Lbas /\ Lbas \in Nat /\ ChunkSize \in Nat \ {0}
      /\ MaxCalls \in Nat
  BY HandlerAssumption DEF BlocksOf
<1>3. BlocksOf(r.size) \in Nat
  BY <1>2, BlocksOfSize
<1>4. /\ calls \in Nat /\ calls' = calls + 1 /\ calls' \in 0 .. MaxCalls
      /\ req' = r /\ slba' = r.slba /\ size' = r.size /\ newData' = 0 /\ backupSize' = r.size
      /\ tasks' = <<>> /\ next' = 1 /\ moved' = {} /\ pc' = "open"
      /\ UNCHANGED <<build, returnVal, device, intended>>
  BY <1>1, <1>2 DEF Call, TypeOK
<1>5. bounce' \in Seq([0 .. ChunkSize - 1 -> Nat]) /\ mapped' = DOMAIN bounce'
      /\ Len(bounce') \in Nat
  <2> DEFINE buffers == IF Async THEN BlocksOf(r.size) \div ChunkSize ELSE 0
             blank == [k \in 0 .. ChunkSize - 1 |-> Blank]
  <2>1. buffers \in Nat
    BY <1>2, <1>3
  <2>2. blank \in [0 .. ChunkSize - 1 -> Nat]
    BY DEF Blank
  <2>3. bounce' = [i \in 1 .. buffers |-> blank] /\ mapped' = 1 .. buffers
    BY DEF Call
  <2> HIDE DEF buffers, blank
  <2> QED
    BY <2>1, <2>2, <2>3
<1>6. data' \in Contents
  <2>1. \A b \in 0 .. Lbas - 1 : calls * Lbas + b + 1 \in Nat
    BY <1>2, <1>4
  <2>2. Tensor(calls) \in Contents
    BY <2>1 DEF Tensor, Contents
  <2>3. [b \in 0 .. Lbas - 1 |-> Blank] \in Contents
    BY DEF Contents, Blank
  <2> QED
    BY <2>2, <2>3 DEF Call
<1>7. TypeOK'
  <2>1. tasks' \in Seq(Task) /\ moved' \subseteq 0 .. Lbas - 1 /\ mapped' \subseteq DOMAIN bounce'
    BY <1>4, <1>5
  <2> QED
    BY <1>1, <1>2, <1>3, <1>4, <1>5, <1>6, <2>1 DEF TypeOK
<1>8. ReqInv' /\ CursorInv'
  BY <1>1, <1>2, <1>3, <1>4 DEF ReqInv, CursorInv, Total, BlocksOf
<1>13. ChunkInv' /\ WholeChunksFit'
  <2>1. WholeChunksFit'
    BY <1>4, ChunksBehind
  <2>2. ASSUME Async' PROVE Len(bounce') = Total' \div ChunkSize
    <3> DEFINE buffers == BlocksOf(r.size) \div ChunkSize
               blank == [k \in 0 .. ChunkSize - 1 |-> Blank]
    <3>1. buffers \in Nat /\ Total' = BlocksOf(r.size)
      BY <1>2, <1>3, <1>4 DEF Total, BlocksOf
    <3>2. bounce' = [j \in 1 .. buffers |-> blank]
      BY <1>4, <2>2 DEF Call, Async
    <3> HIDE DEF buffers, blank
    <3>3. Len(bounce') = buffers
      BY <3>1, <3>2
    <3> QED
      BY <3>1, <3>3 DEF buffers
  <2>3. newData' = Len(tasks') * ChunkSize
    BY <1>2, <1>4
  <2> QED
    BY <2>1, <2>2, <2>3 DEF ChunkInv
<1>9. TaskInv'
  BY <1>4, <1>5 DEF TaskInv
<1>10. MovedInv'
  BY <1>4 DEF MovedInv
<1>11. DataInv'
  <2> SUFFICES ASSUME ~Async PROVE DataInv'
    BY <1>4 DEF DataInv, Async
  <2>1. \A b \in 0 .. Lbas - 1 : Kept(b)'
    BY <1>1, <1>4 DEF DataInv, Call, Kept
  <2>2. 0 .. newData' - 1 = {}
    BY <1>4
  <2> QED
    BY <1>4, <2>1, <2>2 DEF DataInv, Async
<1>12. ReadBackInline'
  BY <1>4 DEF ReadBackInline
<1> QED
  BY <1>1, <1>7, <1>8, <1>9, <1>10, <1>11, <1>12, <1>13 DEF HInv

LEMMA OpenKeeps == HInv /\ Open => HInv'
<1> SUFFICES ASSUME HInv, Open PROVE HInv'
  OBVIOUS
<1>1. TypeOK /\ ReqInv /\ CursorInv /\ ChunkInv /\ TaskInv /\ MovedInv /\ DataInv /\ ~Stopped
  BY DEF HInv, Stopped, Open
<1>2. TypeOK' /\ ReadBackInline' /\ WholeChunksFit'
  BY <1>1, ChunksBehind DEF Open, TypeOK, ReadBackInline, loop, ghosts
<1>3. CASE pc' = "aborted"
  BY <1>2, <1>3 DEF HInv, Stopped
<1>4. CASE pc' = "loop"
  <2>1. ReqInv' /\ CursorInv'
    BY <1>1, <1>4 DEF Open, ReqInv, CursorInv, Total, BlocksOf, Async, loop, ghosts
  <2>2. TaskInv'
    BY <1>1, <1>4 DEF Open, TaskInv, Async, loop
  <2>3. MovedInv'
    <3>1. tasks = <<>> /\ moved = {} /\ newData = 0
      BY <1>1 DEF Open, TaskInv, MovedInv, CursorInv
    <3>2. 0 .. newData - 1 = {}
      BY <3>1
    <3> QED
      BY <1>1, <1>4, <3>1, <3>2 DEF Open, MovedInv, ReqBlocks, BlocksOf, Async, loop, ghosts
  <2>4. DataInv'
    BY <1>1, <1>2, <1>4, DataUnchanged DEF Open, loop, ghosts
  <2>5. ChunkInv'
    BY <1>1 DEF Open, ChunkInv, Total, BlocksOf, Async, loop
  <2> QED
    BY <1>2, <2>1, <2>2, <2>3, <2>4, <2>5 DEF HInv
<1> QED
  BY <1>3, <1>4 DEF Open

LEMMA CheckInlineKeeps == HInv /\ CheckInline => HInv'
<1> SUFFICES ASSUME HInv, CheckInline PROVE HInv'
  OBVIOUS
<1>1. TypeOK /\ ReqInv /\ CursorInv /\ TaskInv /\ MovedInv /\ DataInv /\ ~Stopped /\ ~Async
  BY DEF HInv, Stopped, CheckInline, ReqInv
<1>2. TypeOK' /\ ReadBackInline' /\ ChunkInv' /\ WholeChunksFit'
  BY <1>1, ChunksBehind DEF CheckInline, TypeOK, ReadBackInline, ChunkInv, Async, loop, ghosts
<1>3. CASE returnVal # "ok"
  BY <1>2, <1>3 DEF HInv, Stopped, CheckInline
<1>4. CASE returnVal = "ok"
  <2>1. ReqInv' /\ CursorInv'
    BY <1>1, <1>4 DEF CheckInline, ReqInv, CursorInv, Total, BlocksOf, Async, loop, ghosts
  <2>2. TaskInv'
    BY <1>1, <1>4 DEF CheckInline, TaskInv, Async, loop
  <2>3. MovedInv'
    BY <1>1, <1>4 DEF CheckInline, MovedInv, ReqBlocks, BlocksOf, Async, loop, ghosts
  <2>4. DataInv'
    BY <1>1, <1>2, <1>4, DataUnchanged DEF CheckInline, loop, ghosts
  <2> QED
    BY <1>2, <2>1, <2>2, <2>3, <2>4 DEF HInv
<1> QED
  BY <1>3, <1>4

LEMMA LoopDoneKeeps == HInv /\ LoopDone => HInv'
<1> SUFFICES ASSUME HInv, LoopDone PROVE HInv'
  OBVIOUS
<1>1. TypeOK /\ ReqInv /\ CursorInv /\ TaskInv /\ MovedInv /\ DataInv /\ ~Stopped /\ pc = "loop"
      /\ size = 0
  BY DEF HInv, Stopped, LoopDone
<1>2. TypeOK' /\ ReadBackInline' /\ ChunkInv' /\ WholeChunksFit'
  BY <1>1, ChunksBehind DEF LoopDone, TypeOK, ReadBackInline, loop, ghosts
<1>3. ReqInv' /\ CursorInv'
  BY <1>1 DEF LoopDone, ReqInv, CursorInv, Total, BlocksOf, Async, loop, ghosts
<1>4. TaskInv'
  <2>1. \A i \in DOMAIN tasks : ~(i < 1)
    BY <1>1 DEF TypeOK
  <2> QED
    BY <1>1, <2>1 DEF LoopDone, TaskInv, Async, loop
<1>5. MovedInv'
  <2>1. BlocksOf(0) = 0 /\ newData = Total
    <3>1. newData + BlocksOf(0) = Total
      BY <1>1 DEF CursorInv
    <3>2. newData \in Nat
      BY <1>1 DEF TypeOK
    <3>3. BlocksOf(0) = 0
      BY BlocksOfSize
    <3> QED
      BY <3>1, <3>2, <3>3
  <2>2. CASE Async
    BY <1>1, <2>2 DEF LoopDone, MovedInv, ReqBlocks, BlocksOf, Async, Part, loop, ghosts
  <2>3. CASE ~Async
    <3>1. moved = ReqBlocks
      BY <1>1, <2>1, <2>3 DEF MovedInv, ReqBlocks, Total
    <3> QED
      BY <1>1, <2>3, <3>1 DEF LoopDone, MovedInv, ReqBlocks, BlocksOf, Async, loop, ghosts
  <2> QED
    BY <2>2, <2>3
<1>6. DataInv'
  BY <1>1, <1>2, DataUnchanged DEF LoopDone, loop, ghosts
<1> QED
  BY <1>2, <1>3, <1>4, <1>5, <1>6 DEF HInv

LEMMA JoinNextKeeps == HInv /\ JoinNext => HInv'
<1> SUFFICES ASSUME HInv, JoinNext PROVE HInv'
  OBVIOUS
<1>1. TypeOK /\ ReqInv /\ CursorInv /\ TaskInv /\ MovedInv /\ DataInv /\ ~Stopped /\ Async
      /\ pc = "join" /\ next \in DOMAIN tasks
  BY DEF HInv, Stopped, JoinNext, ReqInv
<1>2. TypeOK' /\ ReadBackInline' /\ ChunkInv' /\ WholeChunksFit'
  BY <1>1, ChunksBehind DEF JoinNext, TypeOK, ReadBackInline, loop, ghosts
<1>3. CASE tasks[next].ret # "ok"
  BY <1>2, <1>3 DEF HInv, Stopped, JoinNext
<1>4. CASE tasks[next].ret = "ok"
  <2>1. ReqInv' /\ CursorInv'
    BY <1>1, <1>4 DEF JoinNext, ReqInv, CursorInv, Total, BlocksOf, Async, loop, ghosts
  <2>2. TaskInv'
    <3>1. tasks[next].st = "done" /\ next' = next + 1 /\ pc' = "join"
      BY <1>4 DEF JoinNext
    <3>2. \A i \in DOMAIN tasks : i < next + 1 => i < next \/ i = next
      BY <1>1 DEF TypeOK
    <3> QED
      BY <1>1, <1>4, <3>1, <3>2 DEF JoinNext, TaskInv, Async, loop
  <2>3. MovedInv'
    BY <1>1, <1>4 DEF JoinNext, MovedInv, ReqBlocks, BlocksOf, Async, Part, loop, ghosts
  <2>4. DataInv'
    BY <1>1 DEF JoinNext, DataInv, Kept, Async
  <2> QED
    BY <1>2, <2>1, <2>2, <2>3, <2>4 DEF HInv
<1> QED
  BY <1>3, <1>4

LEMMA JoinDoneKeeps == HInv /\ JoinDone => HInv'
<1> SUFFICES ASSUME HInv, JoinDone PROVE HInv'
  OBVIOUS
<1>1. TypeOK /\ ReqInv /\ CursorInv /\ TaskInv /\ MovedInv /\ DataInv /\ ~Stopped /\ Async
      /\ pc = "join" /\ next = Len(tasks) + 1
  BY DEF HInv, Stopped, JoinDone, ReqInv
<1>2. TypeOK' /\ ReadBackInline' /\ ChunkInv' /\ WholeChunksFit'
  BY <1>1, ChunksBehind DEF JoinDone, TypeOK, ReadBackInline, loop, ghosts
<1>3. ReqInv' /\ CursorInv'
  BY <1>1 DEF JoinDone, ReqInv, CursorInv, Total, BlocksOf, Async, loop, ghosts
<1>4. \A i \in DOMAIN tasks : i < next
  BY <1>1 DEF TypeOK
<1>5. \A i \in DOMAIN tasks : tasks[i].st = "done" /\ tasks[i].ret = "ok"
  BY <1>1, <1>4 DEF TaskInv
<1>6. TaskInv'
  <2>1. \A i \in mapped : 1 <= i
    BY <1>1 DEF TypeOK
  <2> QED
    BY <1>1, <1>5, <2>1 DEF JoinDone, TaskInv, Async, loop
<1>7. moved = ReqBlocks
  <2>1. newData = Total
    <3>1. newData + BlocksOf(0) = Total
      BY <1>1 DEF CursorInv
    <3>2. newData \in Nat
      BY <1>1 DEF TypeOK
    <3>3. BlocksOf(0) = 0
      BY BlocksOfSize
    <3> QED
      BY <3>1, <3>2, <3>3
  <2>2. moved \subseteq ReqBlocks
    BY <1>1 DEF MovedInv, ReqInv
  <2>3. \A k \in ReqBlocks : k \in moved
    BY <1>1, <1>5, <2>1 DEF MovedInv, ReqBlocks, Total
  <2> QED
    BY <2>2, <2>3
<1>8. MovedInv'
  BY <1>1, <1>7 DEF JoinDone, MovedInv, ReqBlocks, BlocksOf, Async, loop, ghosts
<1>9. DataInv'
  BY <1>1 DEF JoinDone, DataInv, Kept, Async
<1> QED
  BY <1>2, <1>3, <1>6, <1>8, <1>9 DEF HInv

LEMMA FreeBufferKeeps == HInv /\ FreeBuffer => HInv'
<1> SUFFICES ASSUME HInv, FreeBuffer PROVE HInv'
  OBVIOUS
<1>1. TypeOK /\ ReqInv /\ CursorInv /\ TaskInv /\ MovedInv /\ DataInv /\ ~Stopped /\ Async
      /\ pc = "free" /\ next \in DOMAIN bounce
  BY DEF HInv, Stopped, FreeBuffer, ReqInv
<1>2. TypeOK'
  <2>1. CASE backupSize = 0
    BY <1>1, <2>1 DEF FreeBuffer, TypeOK, loop, ghosts
  <2>2. CASE backupSize # 0
    <3>1. backupSize' \in Nat
      BY <1>1, <2>2, CommandOfSize DEF FreeBuffer, TypeOK
    <3>2. data' \in Contents
      <4>1. bounce[next] \in [0 .. ChunkSize - 1 -> Nat] /\ data \in Contents
        BY <1>1 DEF TypeOK
      <4>2. CommandBlocks(backupSize) \in 0 .. ChunkSize /\ ChunkSize \in Nat
        BY <1>1, CommandOfSize, HandlerAssumption DEF TypeOK
      <4>3. \A b \in 0 .. Lbas - 1 : b < CommandBlocks(backupSize) => bounce[next][b] \in Nat
        BY <4>1, <4>2, HandlerAssumption
      <4> QED
        BY <2>2, <4>1, <4>3 DEF FreeBuffer, Contents
    <3>3. next' \in Nat \ {0} /\ mapped' \subseteq mapped
      BY <1>1, <2>2 DEF FreeBuffer, TypeOK
    <3> QED
      BY <1>1, <2>2, <3>1, <3>2, <3>3 DEF FreeBuffer, TypeOK, loop, ghosts
  <2> QED
    BY <2>1, <2>2
<1>3. ReadBackInline' /\ ChunkInv' /\ WholeChunksFit'
  BY <1>1, ChunksBehind DEF FreeBuffer, ReadBackInline
<1>4. CASE backupSize = 0
  BY <1>2, <1>3, <1>4 DEF HInv, Stopped, FreeBuffer
<1>5. CASE backupSize # 0
  <2>1. pc' = pc /\ next' = next + 1 /\ mapped' = mapped \ {next}
        /\ UNCHANGED <<build, returnVal, req, loop, bounce, tasks, device, ghosts, moved>>
    BY <1>5 DEF FreeBuffer
  <2>2. ReqInv' /\ CursorInv'
    BY <1>1, <2>1 DEF ReqInv, CursorInv, Total, BlocksOf, Async, loop, ghosts
  <2>3. TaskInv'
    <3>1. \A i \in mapped' : next' <= i
      BY <1>1, <2>1 DEF TaskInv, TypeOK
    <3> QED
      BY <1>1, <2>1, <3>1 DEF TaskInv, Async, loop
  <2>4. MovedInv'
    BY <1>1, <2>1 DEF MovedInv, ReqBlocks, BlocksOf, Async, loop, ghosts
  <2>5. DataInv'
    BY <1>1, <2>1 DEF DataInv, Async
  <2> QED
    BY <1>2, <1>3, <2>2, <2>3, <2>4, <2>5 DEF HInv
<1> QED
  BY <1>4, <1>5

LEMMA FreeDoneKeeps == HInv /\ FreeDone => HInv'
<1> SUFFICES ASSUME HInv, FreeDone PROVE HInv'
  OBVIOUS
<1>1. TypeOK /\ ReqInv /\ CursorInv /\ TaskInv /\ MovedInv /\ DataInv /\ ~Stopped /\ Async
      /\ pc = "free" /\ next = Len(bounce) + 1
  BY DEF HInv, Stopped, FreeDone, ReqInv
<1>2. mapped = {}
  BY <1>1 DEF TaskInv, TypeOK
<1>3. TypeOK' /\ ReadBackInline' /\ ChunkInv' /\ WholeChunksFit'
  <2>1. bounce' \in Seq([0 .. ChunkSize - 1 -> Nat]) /\ mapped' \subseteq DOMAIN bounce'
    BY <1>2 DEF FreeDone
  <2> QED
    BY <1>1, <2>1, ChunksBehind DEF FreeDone, TypeOK, ReadBackInline, loop, ghosts
<1>4. ReqInv' /\ CursorInv'
  BY <1>1 DEF FreeDone, ReqInv, CursorInv, Total, BlocksOf, Async, loop, ghosts
<1>5. TaskInv' /\ DataInv'
  BY <1>1 DEF FreeDone, TaskInv, DataInv, Async, loop
<1>6. MovedInv'
  BY <1>1 DEF FreeDone, MovedInv, ReqBlocks, BlocksOf, Async, loop, ghosts
<1> QED
  BY <1>3, <1>4, <1>5, <1>6 DEF HInv

LEMMA ReturnKeeps == HInv /\ Return => HInv'
<1> SUFFICES ASSUME HInv, Return PROVE HInv'
  OBVIOUS
<1>1. TypeOK /\ ReqInv /\ CursorInv /\ TaskInv /\ MovedInv /\ DataInv /\ ~Stopped
      /\ pc = "close" /\ pc' = "idle" /\ size = 0 /\ calls > 0
  BY DEF HInv, Stopped, Return, CursorInv, ReqInv
<1>2. newData = Total /\ Total \in Nat /\ Lbas \in Nat
  <2>1. newData + BlocksOf(0) = Total
    BY <1>1 DEF CursorInv
  <2>2. newData \in Nat
    BY <1>1 DEF TypeOK
  <2>3. BlocksOf(0) = 0
    BY BlocksOfSize
  <2> QED
    BY <2>1, <2>2, <2>3, HandlerAssumption
<1>3. /\ intended' \in Contents
      /\ req.op # "WRITE" => intended' = intended
      /\ req.op = "WRITE" => \A b \in 0 .. Lbas - 1 :
           intended'[b] = IF b - req.slba \in ReqBlocks THEN data[b - req.slba] ELSE intended[b]
  <2>1. data \in Contents /\ intended \in Contents
    BY <1>1 DEF TypeOK
  <2>2. req.slba \in Nat /\ req.slba + Total <= Lbas
    BY <1>1 DEF ReqInv
  <2>3. \A b \in 0 .. Lbas - 1 : b - req.slba \in ReqBlocks => b - req.slba \in 0 .. Lbas - 1
    BY <1>2, <2>2 DEF ReqBlocks, Total
  <2> QED
    BY <2>1, <2>3 DEF Return, Contents
<1>4. TypeOK'
  BY <1>1, <1>3 DEF Return, TypeOK, loop
<1>5. ReqInv' /\ CursorInv' /\ TaskInv' /\ MovedInv'
  BY <1>1 DEF Return, ReqInv, CursorInv, TaskInv, MovedInv, ReqBlocks, Total, BlocksOf, Async, loop
<1>6. DataInv' /\ ReadBackInline'
  <2>1. CASE Async
    BY <1>1, <2>1 DEF Return, DataInv, ReadBackInline, Async
  <2>2. CASE ~Async
    <3>1. req.op \in {"READ", "WRITE"} /\ req.slba \in Nat /\ req.slba + Total <= Lbas
      BY <1>1 DEF ReqInv
    <3>2. CASE req.op = "WRITE"
      <4>1. \A b \in 0 .. Lbas - 1 : Kept(b)'
        BY <1>1, <1>2, <1>3, <2>2, <3>2 DEF DataInv, Kept, Return, ReqBlocks, Total
      <4> QED
        BY <1>1, <3>2, <4>1 DEF Return, DataInv, ReadBackInline
    <3>3. CASE req.op = "READ"
      <4>1. intended' = intended /\ \A b \in 0 .. Lbas - 1 : Kept(b) /\ Kept(b)'
        BY <1>1, <1>3, <2>2, <3>3 DEF DataInv, Kept, Return
      <4>2. \A k \in ReqBlocks : data[k] = device[req.slba + k]
        BY <1>1, <1>2, <2>2, <3>3 DEF DataInv, ReqBlocks, Total
      <4>3. \A k \in ReqBlocks : req.slba + k \in 0 .. Lbas - 1
        BY <1>2, <3>1 DEF ReqBlocks, Total
      <4>4. \A k \in ReqBlocks : data[k] = intended[req.slba + k] \/ data[k] = Stray
        BY <4>1, <4>2, <4>3 DEF Kept
      <4> QED
        BY <1>1, <3>3, <4>1, <4>4 DEF Return, DataInv, ReadBackInline, ReqBlocks, BlocksOf
    <3> QED
      BY <3>1, <3>2, <3>3
  <2> QED
    BY <2>1, <2>2
<1>7. ChunkInv' /\ WholeChunksFit'
  BY <1>1, ChunksBehind
<1> QED
  BY <1>4, <1>5, <1>6, <1>7 DEF HInv

LEMMA StutterKeeps == HInv /\ UNCHANGED vars => HInv'
<1> SUFFICES ASSUME HInv, UNCHANGED vars PROVE HInv'
  OBVIOUS
<1>1. TypeOK' /\ ReadBackInline' /\ (Stopped' <=> Stopped)
  BY DEF HInv, TypeOK, ReadBackInline, ReqBlocks, BlocksOf, Async, Stopped, vars, loop, ghosts
<1>2. ~Stopped => ReqInv' /\ CursorInv' /\ TaskInv'
  BY DEF HInv, ReqInv, CursorInv, TaskInv, Total, BlocksOf, Async, vars, loop, ghosts
<1>3. ~Stopped => MovedInv' /\ DataInv'
  BY DEF HInv, MovedInv, DataInv, Kept, ReqBlocks, Part, BlocksOf, Async, vars, loop, ghosts
<1>4. (~Stopped => ChunkInv') /\ WholeChunksFit'
  BY DEF HInv, ChunkInv, WholeChunksFit, Total, ReqBlocks, BlocksOf, Async, vars, loop
<1> QED
  BY <1>1, <1>2, <1>3, <1>4 DEF HInv

\* The next command lies inside the request.
LEMMA NextCommand ==
  ASSUME HInv, pc = "loop", size > 0,
         NEW n, n = CommandBlocks(size)
  PROVE  /\ n \in 0 .. ChunkSize /\ n \in Nat
         /\ Rest(size) \in Nat /\ BlocksOf(Rest(size)) = BlocksOf(size) - n
         /\ Rest(size) > 0 => n = ChunkSize /\ BlocksOf(Rest(size)) > 0
         /\ req.op \in {"READ", "WRITE"} /\ req.slba \in Nat /\ Total \in Nat /\ Lbas \in Nat
         /\ newData \in Nat /\ slba = req.slba + newData /\ BlocksOf(size) \in Nat
         /\ newData + BlocksOf(size) = Total /\ newData + n <= Total
         /\ slba + n <= Lbas /\ slba \in Nat /\ newData + n <= Lbas
<1>1. TypeOK /\ ReqInv /\ CursorInv
  BY DEF HInv, Stopped
<1>2. size \in Nat /\ newData \in Nat /\ ChunkSize \in Nat /\ Lbas \in Nat
  BY <1>1, HandlerAssumption DEF TypeOK
<1>3. /\ n \in 0 .. ChunkSize /\ n <= BlocksOf(size)
      /\ Rest(size) \in Nat /\ BlocksOf(Rest(size)) = BlocksOf(size) - n
      /\ Rest(size) > 0 => n = ChunkSize /\ BlocksOf(Rest(size)) > 0
  BY <1>2, CommandOfSize
<1>4. BlocksOf(size) \in Nat
  BY <1>2, BlocksOfSize
<1>5. req.op \in {"READ", "WRITE"} /\ req.slba \in Nat /\ req.slba + Total <= Lbas
  BY <1>1 DEF ReqInv
<1>6. newData + BlocksOf(size) = Total /\ slba = req.slba + newData
  BY <1>1 DEF CursorInv
<1> QED
  BY <1>2, <1>3, <1>4, <1>5, <1>6

LEMMA SubmitTaskKeeps == HInv /\ SubmitTask => HInv'
<1> SUFFICES ASSUME HInv, SubmitTask PROVE HInv'
  OBVIOUS
<1> DEFINE n == CommandBlocks(size)
           i == Len(tasks) + 1
           t == [slba |-> slba, n |-> n, st |-> "running", ret |-> "ok"]
<1>1. TypeOK /\ ReqInv /\ CursorInv /\ ChunkInv /\ TaskInv /\ MovedInv /\ ~Stopped /\ Async
      /\ pc = "loop" /\ size > 0
  BY DEF HInv, Stopped, SubmitTask
<1>2. UNCHANGED <<build, returnVal, req, mapped, next, backupSize, data, device, intended, calls, moved>>
  BY DEF SubmitTask, ghosts
<1>3. ReadBackInline' /\ DataInv'
  BY <1>1, <1>2 DEF ReadBackInline, DataInv, Async
<1>4. CASE i > Len(bounce)
  <2>1. pc' = "undefined" /\ UNCHANGED <<loop, bounce, tasks>>
    BY <1>4 DEF SubmitTask
  <2>2. TypeOK'
    BY <1>1, <1>2, <2>1 DEF TypeOK, loop
  <2>3. ASSUME Total % ChunkSize = 0 PROVE Total = 0
    <3>1. ChunkSize \in Nat \ {0} /\ Total \in Nat /\ newData \in Nat /\ BlocksOf(size) \in Nat
          /\ newData + BlocksOf(size) = Total
      BY <1>1, NextCommand, HandlerAssumption
    <3>2. Len(tasks) = Len(bounce)
      BY <1>1, <1>4 DEF TaskInv, TypeOK
    <3>3. newData = (Total \div ChunkSize) * ChunkSize
      BY <1>1, <3>2 DEF ChunkInv
    <3>4. Total = newData
      BY <2>3, <3>1, <3>3
    <3>5. BlocksOf(size) = 0
      BY <3>1, <3>4
    <3> QED
      BY <1>1, <3>4, <3>5 DEF CursorInv
  <2>4. WholeChunksFit'
    <3>1. Total' = Total /\ ReqBlocks' = 0 .. Total - 1 /\ Total = BlocksOf(req.size)
      BY <1>2 DEF Total, ReqBlocks, BlocksOf
    <3>2. CASE Total % ChunkSize = 0
      <4>1. ReqBlocks' = {}
        BY <2>3, <3>1, <3>2
      <4> QED
        BY <1>1, <1>2, <4>1 DEF WholeChunksFit, Async
    <3>3. CASE Total % ChunkSize # 0
      BY <1>1, <1>2, <3>3 DEF WholeChunksFit, Total, BlocksOf, Async
    <3> QED
      BY <3>2, <3>3
  <2> QED
    BY <1>3, <2>1, <2>2, <2>4 DEF HInv, Stopped
<1>5. CASE ~(i > Len(bounce))
  <2>1. size' = Rest(size) /\ slba' = slba + n /\ newData' = newData + n /\ pc' = pc
    BY <1>5 DEF SubmitTask
  <2>a. /\ bounce' = IF req.op = "WRITE"
                     THEN [bounce EXCEPT ![i] = [k \in DOMAIN @ |-> IF k < n THEN data[k] ELSE @[k]]]
                     ELSE bounce
        /\ tasks' = Append(tasks, t)
    BY <1>5 DEF SubmitTask
  <2>2. /\ n \in 0 .. ChunkSize /\ n \in Nat
        /\ Rest(size) \in Nat /\ BlocksOf(Rest(size)) = BlocksOf(size) - n
        /\ Rest(size) > 0 => n = ChunkSize /\ BlocksOf(Rest(size)) > 0
        /\ req.slba \in Nat /\ Total \in Nat /\ Lbas \in Nat /\ newData \in Nat
        /\ slba = req.slba + newData /\ BlocksOf(size) \in Nat
        /\ newData + BlocksOf(size) = Total /\ newData + n <= Total
        /\ slba + n <= Lbas /\ slba \in Nat /\ newData + n <= Lbas
    BY <1>1, NextCommand
  <2> HIDE DEF n
  <2>3. Len(tasks) \in Nat /\ Len(bounce) \in Nat /\ i \in 1 .. Len(bounce)
    BY <1>1, <1>5 DEF TypeOK
  <2>4. t \in Task
    BY <2>2 DEF Task, AllOutcomes
  <2>5. /\ tasks' \in Seq(Task) /\ DOMAIN tasks' = 1 .. i /\ Len(tasks') = i
        /\ tasks'[i] = t /\ \A j \in DOMAIN tasks : j \in 1 .. i /\ j # i /\ tasks'[j] = tasks[j]
        /\ \A j \in DOMAIN tasks' : j = i \/ j \in DOMAIN tasks
    BY <1>1, <2>a, <2>3, <2>4 DEF TypeOK
  <2>6. bounce' \in Seq([0 .. ChunkSize - 1 -> Nat]) /\ Len(bounce') = Len(bounce)
        /\ DOMAIN bounce' = DOMAIN bounce
    <3> DEFINE new == [k \in DOMAIN bounce[i] |-> IF k < n THEN data[k] ELSE bounce[i][k]]
    <3>1. bounce \in Seq([0 .. ChunkSize - 1 -> Nat]) /\ data \in Contents
          /\ bounce[i] \in [0 .. ChunkSize - 1 -> Nat]
      BY <1>1, <2>3 DEF TypeOK
    <3>2. \A k \in 0 .. ChunkSize - 1 : k < n => k \in 0 .. Lbas - 1
      BY <2>2, HandlerAssumption
    <3>3. new \in [0 .. ChunkSize - 1 -> Nat]
      BY <3>1, <3>2 DEF Contents
    <3>4. bounce' = [bounce EXCEPT ![i] = new] \/ bounce' = bounce
      BY <2>a
    <3> HIDE DEF new
    <3> QED
      BY <2>3, <3>1, <3>3, <3>4
  <2>7. TypeOK'
    <3>1. slba' \in 0 .. Lbas /\ size' \in Nat /\ newData' \in 0 .. Lbas
      BY <2>1, <2>2
    <3>2. mapped' \subseteq DOMAIN bounce'
      BY <1>1, <1>2, <2>6 DEF TypeOK
    <3>3. tasks' \in Seq(Task) /\ bounce' \in Seq([0 .. ChunkSize - 1 -> Nat])
      BY <2>5, <2>6
    <3> QED
      BY <1>1, <1>2, <2>1, <3>1, <3>2, <3>3 DEF TypeOK
  <2>8. ReqInv' /\ CursorInv'
    BY <1>1, <1>2, <2>1, <2>2 DEF ReqInv, CursorInv, Total, BlocksOf, Async
  <2>11. ChunkInv'
    <3>1. Len(bounce') = Total' \div ChunkSize
      BY <1>1, <1>2, <2>6 DEF ChunkInv, Total, BlocksOf
    <3>2. ASSUME size' > 0 PROVE newData' = Len(tasks') * ChunkSize
      <4>1. newData' = newData + ChunkSize /\ newData = Len(tasks) * ChunkSize
        BY <1>1, <2>1, <2>2, <3>2 DEF ChunkInv
      <4>2. Len(tasks') = Len(tasks) + 1 /\ Len(tasks) \in Nat /\ ChunkSize \in Nat
        BY <2>3, <2>5, HandlerAssumption
      <4> QED
        BY <4>1, <4>2
    <3> QED
      BY <3>1, <3>2 DEF ChunkInv
  <2>12. WholeChunksFit'
    BY <1>1, <2>1, ChunksBehind
  <2>9. TaskInv'
    <3>1. \A j \in DOMAIN tasks' : /\ req.slba <= tasks'[j].slba
                                  /\ tasks'[j].slba + tasks'[j].n <= req.slba + newData'
      <4> TAKE j \in DOMAIN tasks'
      <4>1. CASE j = i
        <5>1. tasks'[j].slba = slba /\ tasks'[j].n = n
          BY <2>5, <4>1
        <5>2. /\ newData' = newData + n /\ slba = req.slba + newData
              /\ n \in Nat /\ newData \in Nat /\ req.slba \in Nat
          BY <2>1, <2>2
        <5> HIDE DEF t
        <5> QED
          BY <5>1, <5>2
      <4>2. CASE j \in DOMAIN tasks
        <5>1. req.slba <= tasks[j].slba /\ tasks[j].slba + tasks[j].n <= req.slba + newData
          BY <1>1, <4>2 DEF TaskInv
        <5>2. tasks[j] \in Task /\ tasks'[j] = tasks[j]
          BY <1>1, <2>5, <4>2 DEF TypeOK
        <5>3. tasks[j].slba \in Int /\ tasks[j].n \in Int
          BY <5>2 DEF Task
        <5>4. newData' = newData + n /\ n \in Nat /\ newData \in Nat /\ req.slba \in Nat
          BY <2>1, <2>2
        <5>5. tasks[j].slba + tasks[j].n <= req.slba + newData'
          BY <5>1, <5>3, <5>4
        <5> QED
          BY <5>1, <5>2, <5>5
      <4> QED
        BY <2>5, <4>1, <4>2
    <3>2. mapped' = DOMAIN bounce' /\ Len(tasks') <= Len(bounce')
      BY <1>1, <1>2, <2>3, <2>5, <2>6 DEF TaskInv
    <3> QED
      BY <1>1, <1>2, <2>1, <3>1, <3>2 DEF TaskInv, Async
  <2>10. MovedInv'
    <3>1. \A j \in DOMAIN tasks' : tasks'[j].st = "done" => j \in DOMAIN tasks /\ tasks'[j] = tasks[j]
      BY <2>5
    <3>2. \A k \in 0 .. newData' - 1 : \E j \in DOMAIN tasks' : k \in Part(tasks'[j].slba, tasks'[j].n)
      <4> TAKE k \in 0 .. newData' - 1
      <4>1. CASE k < newData
        <5>1. PICK j \in DOMAIN tasks : k \in Part(tasks[j].slba, tasks[j].n)
          BY <1>1, <2>2, <4>1 DEF MovedInv
        <5> QED
          BY <2>5, <5>1
      <4>2. CASE ~(k < newData)
        <5>1. k \in Part(slba, n)
          BY <2>1, <2>2, <4>2 DEF Part
        <5> QED
          BY <2>5, <5>1
      <4> QED
        BY <4>1, <4>2
    <3>3. \A j \in DOMAIN tasks' : tasks'[j].st = "done" /\ tasks'[j].ret = "ok" =>
            Part(tasks'[j].slba, tasks'[j].n) \subseteq moved
      BY <1>1, <3>1 DEF MovedInv
    <3> QED
      BY <1>1, <1>2, <2>1, <3>2, <3>3 DEF MovedInv, Part, ReqBlocks, BlocksOf, Async
  <2> QED
    BY <1>3, <2>7, <2>8, <2>9, <2>10, <2>11, <2>12 DEF HInv
<1> QED
  BY <1>4, <1>5

\* The numbers of the moved blocks in the request.
LEMMA RequestedBlocks ==
  ASSUME NEW lba \in Nat, req.slba \in Nat, NEW n \in Nat, NEW mv \in SUBSET (0 .. n - 1)
  PROVE  /\ Requested(lba, mv) \subseteq Part(lba, n)
         /\ mv = 0 .. n - 1 => Requested(lba, mv) = Part(lba, n)
<1>1. \A k \in 0 .. n - 1 : lba - req.slba + k \in Part(lba, n)
  BY DEF Part
<1>2. \A j \in Part(lba, n) : j - (lba - req.slba) \in 0 .. n - 1
                              /\ lba - req.slba + (j - (lba - req.slba)) = j
  BY DEF Part
<1>3. Requested(lba, mv) \subseteq Part(lba, n)
  BY <1>1 DEF Requested
<1>4. ASSUME mv = 0 .. n - 1 PROVE Part(lba, n) \subseteq Requested(lba, mv)
  BY <1>2, <1>4 DEF Requested
<1> QED
  BY <1>3, <1>4

LEMMA SubmitInlineKeeps == HInv /\ SubmitInline => HInv'
<1> SUFFICES ASSUME HInv, SubmitInline PROVE HInv'
  OBVIOUS
<1> DEFINE n == CommandBlocks(size)
           mem == [k \in 0 .. n - 1 |-> data[newData + k]]
<1>a. TypeOK /\ ReqInv /\ CursorInv /\ TaskInv /\ MovedInv /\ DataInv /\ ~Stopped /\ ~Async
      /\ pc = "loop" /\ size > 0
  <2>1. TypeOK /\ ReqInv /\ CursorInv /\ TaskInv /\ MovedInv /\ DataInv /\ ~Stopped /\ ~Async
        /\ pc = "loop" /\ CommandBlocks(size) > 0
    BY DEF HInv, Stopped, SubmitInline
  <2>2. BlocksOf(0) = 0
    BY BlocksOfSize
  <2>3. CommandBlocks(0) = 0
    BY <2>2, HandlerAssumption DEF CommandBlocks
  <2> QED
    BY <2>1, <2>3 DEF TypeOK
<1>b. UNCHANGED <<build, req, bounce, mapped, tasks, next, backupSize, intended, calls>>
  BY DEF SubmitInline, ghosts
<1>1. PICK outcome \in Outcomes : \E mv \in MovedBy(outcome, n) :
        /\ device' = DeviceAfter(req.op, slba, mem, mv)
        /\ data' = [b \in DOMAIN data |->
                      IF b - newData \in 0 .. n - 1
                      THEN MemoryAfter(req.op, slba, mem, mv)[b - newData] ELSE data[b]]
        /\ moved' = moved \union Requested(slba, mv)
        /\ returnVal' = outcome /\ pc' = "check"
        /\ size' = Rest(size) /\ slba' = slba + n /\ newData' = newData + n
  BY DEF SubmitInline
<1>2. PICK mv \in MovedBy(outcome, n) :
        /\ device' = DeviceAfter(req.op, slba, mem, mv)
        /\ data' = [b \in DOMAIN data |->
                      IF b - newData \in 0 .. n - 1
                      THEN MemoryAfter(req.op, slba, mem, mv)[b - newData] ELSE data[b]]
        /\ moved' = moved \union Requested(slba, mv)
        /\ returnVal' = outcome /\ pc' = "check"
        /\ size' = Rest(size) /\ slba' = slba + n /\ newData' = newData + n
  BY <1>1
<1>3. /\ Rest(size) > 0 => BlocksOf(Rest(size)) > 0
      /\ n \in Nat /\ Rest(size) \in Nat /\ BlocksOf(Rest(size)) = BlocksOf(size) - n
      /\ req.op \in {"READ", "WRITE"} /\ req.slba \in Nat /\ Total \in Nat /\ Lbas \in Nat
      /\ newData \in Nat /\ slba = req.slba + newData /\ BlocksOf(size) \in Nat
      /\ newData + BlocksOf(size) = Total /\ newData + n <= Total
      /\ slba + n <= Lbas /\ slba \in Nat /\ newData + n <= Lbas
  BY <1>a, NextCommand
<1>4. mv \in SUBSET (0 .. n - 1) /\ (outcome = "ok" => mv = 0 .. n - 1) /\ outcome \in AllOutcomes
  BY <1>3, BlocksMoved, HandlerAssumption
<1> DEFINE after == MemoryAfter(req.op, slba, mem, mv)
<1>5. data \in Contents /\ device \in Contents /\ intended \in Contents
  BY <1>a DEF TypeOK
<1>6. mem \in [0 .. n - 1 -> Nat] /\ \A k \in 0 .. n - 1 : mem[k] = data[newData + k] /\ mem[k] \in Nat
  <2>1. \A k \in 0 .. n - 1 : newData + k \in 0 .. Lbas - 1
    BY <1>3
  <2> QED
    BY <1>5, <2>1 DEF Contents
<1> HIDE DEF n, mem
<1>7. /\ device' \in Contents
      /\ req.op # "WRITE" => device' = device
      /\ req.op = "WRITE" => \A b \in 0 .. Lbas - 1 :
           device'[b] = IF b - slba \in mv THEN mem[b - slba] ELSE device[b]
  <2>1. \A k \in 0 .. n - 1 : mem[k] \in Nat
    BY <1>6
  <2>2. device' = DeviceAfter(req.op, slba, mem, mv) /\ slba \in Nat /\ n \in Nat
    BY <1>2, <1>3
  <2> QED
    BY <1>4, <1>5, <2>1, <2>2 DEF DeviceAfter, Contents
<1>8. /\ after \in [0 .. n - 1 -> Nat]
      /\ req.op # "READ" => after = mem
      /\ req.op = "READ" => \A k \in 0 .. n - 1 :
           after[k] = IF k \in mv THEN device[slba + k] ELSE mem[k]
  <2>1. n \in Nat /\ slba \in Nat /\ Lbas \in Nat /\ slba + n <= Lbas
    BY <1>3
  <2>2. mem \in [0 .. n - 1 -> Nat]
    BY <1>6
  <2>3. \A k \in mv : slba + k \in 0 .. Lbas - 1
    BY <1>4, <2>1
  <2> QED
    BY <1>4, <1>5, <2>1, <2>2, <2>3 DEF after, MemoryAfter, Contents
<1>9. data' = [b \in DOMAIN data |-> IF b - newData \in 0 .. n - 1 THEN after[b - newData] ELSE data[b]]
  BY <1>2
<1> HIDE DEF after
<1>10. /\ data' \in Contents
       /\ \A b \in 0 .. Lbas - 1 : data'[b] = IF b - newData \in 0 .. n - 1 THEN after[b - newData]
                                               ELSE data[b]
  BY <1>5, <1>8, <1>9 DEF Contents
<1>11. Requested(slba, mv) \subseteq newData .. newData + n - 1
       /\ (mv = 0 .. n - 1 => Requested(slba, mv) = newData .. newData + n - 1)
  <2>1. Part(slba, n) = newData .. newData + n - 1
    <3>1. slba - req.slba = newData
      BY <1>3
    <3> QED
      BY <3>1 DEF Part
  <2> QED
    BY <1>3, <1>4, <2>1, RequestedBlocks
<1>12. ReqBlocks = 0 .. Total - 1 /\ ReqBlocks \subseteq 0 .. Lbas - 1
  <2>1. req.slba + Total <= Lbas
    BY <1>a DEF ReqInv
  <2> QED
    BY <1>3, <2>1 DEF ReqBlocks, Total
<1>13. moved' \subseteq ReqBlocks
  <2>1. newData .. newData + n - 1 \subseteq 0 .. Total - 1
    BY <1>3
  <2>2. moved \subseteq ReqBlocks
    BY <1>a DEF MovedInv, ReqInv
  <2> QED
    BY <1>2, <1>11, <1>12, <2>1, <2>2
<1>14. TypeOK'
  <2>1. slba' \in 0 .. Lbas /\ size' \in Nat /\ newData' \in 0 .. Lbas
    BY <1>2, <1>3
  <2>2. moved' \subseteq 0 .. Lbas - 1
    BY <1>12, <1>13
  <2> QED
    BY <1>a, <1>b, <1>2, <1>4, <1>7, <1>10, <2>1, <2>2 DEF TypeOK
<1>15. ReqInv' /\ CursorInv'
  BY <1>a, <1>b, <1>2, <1>3 DEF ReqInv, CursorInv, Total, BlocksOf, Async
<1>16. TaskInv'
  BY <1>a, <1>b, <1>2 DEF TaskInv, Async
<1>17. MovedInv'
  <2>1. ASSUME outcome = "ok" PROVE moved' = 0 .. newData' - 1
    <3>1. moved = 0 .. newData - 1
      BY <1>a DEF MovedInv
    <3>2. moved' = (0 .. newData - 1) \union (newData .. newData + n - 1)
      BY <1>2, <1>4, <1>11, <2>1, <3>1
    <3>3. (0 .. newData - 1) \union (newData .. newData + n - 1) = 0 .. newData + n - 1
      BY <1>3
    <3>4. newData' - 1 = newData + n - 1
      BY <1>2, <1>3
    <3> QED
      BY <3>2, <3>3, <3>4
  <2>2. calls > 0
    BY <1>a DEF ReqInv
  <2>3. calls # 0
    BY <1>a, <2>2 DEF TypeOK
  <2> QED
    BY <1>a, <1>b, <1>2, <1>13, <2>1, <2>3 DEF MovedInv, ReqBlocks, BlocksOf, Async
<1>18. DataInv'
  <2> SUFFICES ASSUME outcome = "ok" PROVE DataInv'
    BY <1>a, <1>b, <1>2 DEF DataInv, Async
  <2>1. mv = 0 .. n - 1
    BY <1>4
  <2>2. CASE req.op = "WRITE"
    <3>1. \A b \in 0 .. Lbas - 1 : data'[b] = data[b]
      <4> TAKE b \in 0 .. Lbas - 1
      <4>1. CASE b - newData \in 0 .. n - 1
        <5>1. data'[b] = mem[b - newData] /\ newData + (b - newData) = b
          BY <1>3, <1>8, <1>10, <2>2, <4>1
        <5> QED
          BY <1>6, <4>1, <5>1
      <4> QED
        BY <1>10, <4>1
    <3>2. \A b \in 0 .. Lbas - 1 :
            IF b - req.slba \in 0 .. newData - 1 THEN device[b] = data[b - req.slba] ELSE Kept(b)
      BY <1>a, <2>2 DEF DataInv
    <3>3. \A b \in 0 .. Lbas - 1 :
            IF b - req.slba \in 0 .. newData' - 1 THEN device'[b] = data'[b - req.slba] ELSE Kept(b)'
      <4> TAKE b \in 0 .. Lbas - 1
      <4> DEFINE k == b - req.slba
      <4>1. k \in Int /\ b - slba = k - newData /\ newData' = newData + n /\ b \in Int
        BY <1>2, <1>3
      <4>2. CASE k \in newData .. newData + n - 1
        <5>1. b - slba \in 0 .. n - 1 /\ newData + (b - slba) = k /\ k \in 0 .. newData' - 1
              /\ k \in 0 .. Lbas - 1
          BY <1>3, <4>1, <4>2
        <5>2. device'[b] = mem[b - slba] /\ mem[b - slba] = data[newData + (b - slba)]
          BY <1>6, <1>7, <2>1, <2>2, <5>1
        <5> QED
          BY <3>1, <5>1, <5>2
      <4>3. CASE k \in 0 .. newData - 1
        <5>1. ~(b - slba \in 0 .. n - 1) /\ k \in 0 .. newData' - 1 /\ k \in 0 .. Lbas - 1
          BY <1>3, <4>1, <4>3
        <5>2. device'[b] = device[b] /\ device[b] = data[k]
          BY <1>7, <2>1, <2>2, <3>2, <4>3, <5>1
        <5> QED
          BY <3>1, <5>1, <5>2
      <4>4. CASE ~(k \in newData .. newData + n - 1) /\ ~(k \in 0 .. newData - 1)
        <5>1. ~(b - slba \in 0 .. n - 1) /\ ~(k \in 0 .. newData' - 1)
          BY <1>3, <4>1, <4>4
        <5>2. device'[b] = device[b] /\ Kept(b)
          BY <1>7, <2>1, <2>2, <3>2, <4>4, <5>1
        <5> QED
          BY <1>b, <5>1, <5>2 DEF Kept
      <4> QED
        BY <4>2, <4>3, <4>4
    <3> QED
      BY <1>a, <1>b, <1>2, <2>2, <3>3 DEF DataInv, Async
  <2>3. CASE req.op = "READ"
    <3>1. device' = device /\ \A b \in 0 .. Lbas - 1 : Kept(b)'
      BY <1>a, <1>b, <1>7, <2>3 DEF DataInv, Kept
    <3>2. \A k \in 0 .. newData' - 1 : data'[k] = device[req.slba + k]
      <4> TAKE k \in 0 .. newData' - 1
      <4>1. k \in 0 .. Lbas - 1 /\ newData' = newData + n
        BY <1>2, <1>3
      <4>2. CASE k < newData
        <5>1. ~(k - newData \in 0 .. n - 1) /\ k \in 0 .. newData - 1
          BY <1>3, <4>1, <4>2
        <5>2. data'[k] = data[k] /\ data[k] = device[req.slba + k]
          BY <1>a, <1>10, <2>3, <4>1, <5>1 DEF DataInv
        <5> QED
          BY <5>2
      <4>3. CASE ~(k < newData)
        <5>1. k - newData \in 0 .. n - 1 /\ slba + (k - newData) = req.slba + k
          BY <1>3, <4>1, <4>3
        <5>2. data'[k] = after[k - newData] /\ after[k - newData] = device[slba + (k - newData)]
          BY <1>8, <1>10, <2>1, <2>3, <4>1, <5>1
        <5> QED
          BY <5>1, <5>2
      <4> QED
        BY <4>2, <4>3
    <3> QED
      BY <1>a, <1>b, <1>2, <2>3, <3>1, <3>2 DEF DataInv, Async
  <2> QED
    BY <1>3, <2>2, <2>3
<1>19. ReadBackInline' /\ ChunkInv' /\ WholeChunksFit'
  BY <1>2, ChunksBehind DEF ReadBackInline
<1> QED
  BY <1>14, <1>15, <1>16, <1>17, <1>18, <1>19 DEF HInv

\* A command of no blocks is that of a tensor below one block: nothing is asked for.
LEMMA EmptyCommand ==
  ASSUME HInv, pc = "loop", size > 0, CommandBlocks(size) = 0
  PROVE  BlocksOf(size) = 0 /\ newData = 0 /\ Total = 0 /\ ReqBlocks = {} /\ Rest(size) = 0
<1>1. TypeOK /\ CursorInv
  BY DEF HInv, Stopped
<1>2. ChunkSize \in Nat \ {0} /\ BlocksOf(size) \in Nat
  BY <1>1, BlocksOfSize, HandlerAssumption DEF TypeOK
<1>3. BlocksOf(size) = 0 /\ Rest(size) = 0
  BY <1>2 DEF CommandBlocks, Rest
<1>4. newData = 0 /\ Total = 0
  BY <1>1, <1>3 DEF CursorInv
<1> QED
  BY <1>3, <1>4 DEF ReqBlocks, Total

LEMMA SubmitEmptyKeeps == HInv /\ SubmitEmpty => HInv'
<1> SUFFICES ASSUME HInv, SubmitEmpty PROVE HInv'
  OBVIOUS
<1>1. TypeOK /\ ReqInv /\ CursorInv /\ TaskInv /\ MovedInv /\ DataInv /\ ~Stopped /\ ~Async
      /\ pc = "loop" /\ size > 0 /\ CommandBlocks(size) = 0
  BY DEF HInv, Stopped, SubmitEmpty
<1>2. newData = 0 /\ Total = 0 /\ ReqBlocks = {} /\ Rest(size) = 0
  BY <1>1, EmptyCommand
<1>3. UNCHANGED <<build, req, slba, newData, bounce, mapped, tasks, next, backupSize, data,
                  intended, calls, moved>>
  BY DEF SubmitEmpty, ghosts
<1>4. req.op \in {"READ", "WRITE"} /\ req.slba \in Nat /\ slba = req.slba
  BY <1>1, <1>2 DEF ReqInv, CursorInv
<1>5. ReadBackInline'
  BY DEF SubmitEmpty, ReadBackInline
<1>6. CASE pc' = "undefined"
  <2>1. req.op = "READ" /\ UNCHANGED <<returnVal, size, device>>
    BY <1>6 DEF SubmitEmpty
  <2>2. TypeOK'
    BY <1>1, <1>3, <1>6, <2>1 DEF TypeOK
  <2>3. WholeChunksFit'
    BY <1>1, <1>2, <1>3, <2>1 DEF WholeChunksFit, ReqBlocks, BlocksOf, Async
  <2> QED
    BY <1>5, <1>6, <2>2, <2>3 DEF HInv, Stopped
<1>7. CASE pc' # "undefined"
  <2> DEFINE stray == [k \in 0 .. MaxBlocks - 1 |-> Stray]
  <2>1. PICK outcome \in Outcomes : \E mv \in MovedBy(outcome, MaxBlocks) :
          /\ device' = DeviceAfter(req.op, slba, stray, mv)
          /\ returnVal' = outcome /\ pc' = "check" /\ size' = Rest(size)
    BY <1>7 DEF SubmitEmpty
  <2>2. PICK mv \in MovedBy(outcome, MaxBlocks) :
          /\ device' = DeviceAfter(req.op, slba, stray, mv)
          /\ returnVal' = outcome /\ pc' = "check" /\ size' = Rest(size)
    BY <2>1
  <2>3. MaxBlocks \in Nat /\ Lbas \in Nat /\ MaxCalls \in Nat /\ outcome \in AllOutcomes
    BY HandlerAssumption
  <2>4. mv \subseteq 0 .. MaxBlocks - 1
    BY <2>3, BlocksMoved
  <2>5. Stray \in Nat
    BY <2>3 DEF Stray
  <2>6. device' \in Contents
        /\ \A b \in 0 .. Lbas - 1 : device'[b] = device[b] \/ device'[b] = Stray
    <3>1. device \in Contents
      BY <1>1 DEF TypeOK
    <3>2. \A k \in mv : stray[k] = Stray
      BY <2>4
    <3> HIDE DEF stray
    <3> QED
      BY <2>2, <2>5, <3>1, <3>2 DEF DeviceAfter, Contents
  <2>7. req.op = "READ" => device' = device
    BY <2>2 DEF DeviceAfter
  <2> HIDE DEF stray
  <2>8. TypeOK'
    <3>1. size' \in Nat
      BY <1>2, <2>2
    <3> QED
      BY <1>1, <1>3, <2>2, <2>3, <2>6, <3>1 DEF TypeOK
  <2>9. ReqInv' /\ CursorInv' /\ TaskInv'
    <3>1. BlocksOf(size') = 0 /\ size' = 0
      <4>1. BlocksOf(0) = 0
        BY BlocksOfSize
      <4> QED
        BY <1>2, <2>2, <4>1
    <3> QED
      BY <1>1, <1>2, <1>3, <1>4, <2>2, <3>1 DEF ReqInv, CursorInv, TaskInv, Total, BlocksOf, Async
  <2>10. MovedInv'
    BY <1>1, <1>3, <2>2 DEF MovedInv, ReqBlocks, BlocksOf, Async
  <2>11. DataInv'
    <3>1. 0 .. newData - 1 = {}
      BY <1>2
    <3>2. \A b \in 0 .. Lbas - 1 : Kept(b)
      BY <1>1, <1>4, <3>1 DEF DataInv
    <3>3. Stray' = Stray
      BY DEF Stray
    <3>4. \A b \in 0 .. Lbas - 1 : Kept(b)'
      BY <1>3, <2>6, <3>2 DEF Kept, Stray
    <3> QED
      BY <1>2, <1>3, <2>2, <3>1, <3>4 DEF DataInv
  <2>12. ChunkInv' /\ WholeChunksFit'
    BY <2>2, ChunksBehind
  <2> QED
    BY <1>5, <2>8, <2>9, <2>10, <2>11, <2>12 DEF HInv
<1> QED
  BY <1>6, <1>7

LEMMA AsyncThrowsKeeps == HInv /\ AsyncThrows => HInv'
<1> SUFFICES ASSUME HInv, AsyncThrows PROVE HInv'
  OBVIOUS
<1>1. TypeOK' /\ ReadBackInline' /\ WholeChunksFit'
  BY ChunksBehind DEF HInv, AsyncThrows, TypeOK, ReadBackInline, loop, ghosts
<1> QED
  BY <1>1 DEF HInv, AsyncThrows, Stopped

LEMMA RunTaskKeeps ==
  ASSUME HInv, NEW i \in DOMAIN tasks, RunTask(i)
  PROVE  HInv'
<1> DEFINE n == tasks[i].n
           lba == tasks[i].slba
           mem == bounce[i]
<1>1. TypeOK /\ ReqInv /\ CursorInv /\ TaskInv /\ MovedInv /\ DataInv /\ ~Stopped
      /\ tasks[i].st = "running"
  BY DEF HInv, RunTask
<1>2. Async /\ pc \in {"loop", "join"}
  BY <1>1 DEF TaskInv, ReqInv, Stopped, TypeOK
<1>3. UNCHANGED <<build, returnVal, pc, req, slba, size, newData, mapped, next, backupSize, data,
                  intended, calls>>
  BY DEF RunTask, loop, ghosts
<1>4. PICK outcome \in Outcomes : \E mv \in MovedBy(outcome, n) :
        /\ device' = DeviceAfter(req.op, lba, mem, mv)
        /\ bounce' = [bounce EXCEPT ![i] = MemoryAfter(req.op, lba, @, mv)]
        /\ moved' = moved \union Requested(lba, mv)
        /\ tasks' = [tasks EXCEPT ![i].st = "done", ![i].ret = outcome]
  BY DEF RunTask
<1>5. PICK mv \in MovedBy(outcome, n) :
        /\ device' = DeviceAfter(req.op, lba, mem, mv)
        /\ bounce' = [bounce EXCEPT ![i] = MemoryAfter(req.op, lba, @, mv)]
        /\ moved' = moved \union Requested(lba, mv)
        /\ tasks' = [tasks EXCEPT ![i].st = "done", ![i].ret = outcome]
  BY <1>4
<1>6. tasks \in Seq(Task) /\ tasks[i] \in Task /\ i \in 1 .. Len(tasks) /\ Len(tasks) \in Nat
  BY <1>1 DEF TypeOK
<1>7. n \in 0 .. ChunkSize /\ lba \in 0 .. Lbas
  BY <1>6 DEF Task
<1>8. n \in Nat /\ lba \in Nat /\ ChunkSize \in Nat /\ Lbas \in Nat /\ n <= ChunkSize
  BY <1>7, HandlerAssumption
<1>9. req.slba \in Nat /\ req.slba + Total <= Lbas /\ calls # 0
  BY <1>1, <1>2 DEF ReqInv, TypeOK
<1>10. newData \in Nat /\ Total \in Nat /\ newData <= Total
  <2>1. size \in Nat /\ newData \in Nat
    BY <1>1, HandlerAssumption DEF TypeOK
  <2>2. BlocksOf(size) \in Nat /\ newData + BlocksOf(size) = Total
    BY <1>1, <1>2, <2>1, BlocksOfSize DEF CursorInv
  <2> QED
    BY <2>1, <2>2
<1>11. req.slba <= lba /\ lba + n <= req.slba + newData /\ lba + n <= Lbas
  <2>1. req.slba <= lba /\ lba + n <= req.slba + newData
    BY <1>1 DEF TaskInv
  <2> QED
    BY <1>8, <1>9, <1>10, <2>1
<1>12. mv \in SUBSET (0 .. n - 1) /\ (outcome = "ok" => mv = 0 .. n - 1) /\ outcome \in AllOutcomes
  BY <1>8, BlocksMoved, HandlerAssumption
<1>13. mem \in [0 .. ChunkSize - 1 -> Nat] /\ i \in 1 .. Len(bounce) /\ Len(bounce) \in Nat
       /\ bounce \in Seq([0 .. ChunkSize - 1 -> Nat]) /\ device \in Contents
  <2>1. Len(tasks) <= Len(bounce) /\ bounce \in Seq([0 .. ChunkSize - 1 -> Nat])
        /\ device \in Contents
    BY <1>1, <1>2 DEF TaskInv, TypeOK
  <2>2. Len(bounce) \in Nat /\ i \in 1 .. Len(bounce)
    BY <1>6, <2>1
  <2> QED
    BY <2>1, <2>2
<1>14. /\ tasks' \in Seq(Task) /\ DOMAIN tasks' = DOMAIN tasks /\ Len(tasks') = Len(tasks)
       /\ tasks'[i].slba = lba /\ tasks'[i].n = n /\ tasks'[i].st = "done" /\ tasks'[i].ret = outcome
       /\ \A j \in DOMAIN tasks : j # i => tasks'[j] = tasks[j]
  <2> DEFINE t == [tasks[i] EXCEPT !.st = "done", !.ret = outcome]
  <2>1. tasks' = [tasks EXCEPT ![i] = t]
    BY <1>5
  <2>2. t \in Task /\ t.slba = lba /\ t.n = n /\ t.st = "done" /\ t.ret = outcome
    BY <1>6, <1>12 DEF Task
  <2> HIDE DEF t
  <2>3. tasks' \in Seq(Task) /\ DOMAIN tasks' = DOMAIN tasks /\ Len(tasks') = Len(tasks)
        /\ tasks'[i] = t /\ \A j \in DOMAIN tasks : j # i => tasks'[j] = tasks[j]
    BY <1>6, <2>1, <2>2
  <2> QED
    BY <2>2, <2>3
<1>15. \A j \in DOMAIN tasks : tasks'[j].slba = tasks[j].slba /\ tasks'[j].n = tasks[j].n
  BY <1>14
<1> DEFINE after == MemoryAfter(req.op, lba, mem, mv)
<1>16. bounce' = [bounce EXCEPT ![i] = after]
  BY <1>5
<1>17. device' = DeviceAfter(req.op, lba, mem, mv) /\ moved' = moved \union Requested(lba, mv)
  BY <1>5
<1> HIDE DEF mem
<1>18. after \in [0 .. ChunkSize - 1 -> Nat]
  <2>1. \A k \in mv : lba + k \in 0 .. Lbas - 1
    BY <1>8, <1>11, <1>12
  <2> QED
    BY <1>13, <2>1 DEF MemoryAfter, Contents
<1> HIDE DEF after, n, lba
<1>19. bounce' \in Seq([0 .. ChunkSize - 1 -> Nat]) /\ DOMAIN bounce' = DOMAIN bounce
       /\ Len(bounce') = Len(bounce)
  BY <1>13, <1>16, <1>18
<1>20. device' \in Contents
  <2>1. \A k \in mv : mem[k] \in Nat
    BY <1>8, <1>12, <1>13
  <2> QED
    BY <1>13, <1>17, <2>1 DEF DeviceAfter, Contents
<1>21. /\ Requested(lba, mv) \subseteq Part(lba, n)
       /\ outcome = "ok" => Requested(lba, mv) = Part(lba, n)
  BY <1>8, <1>9, <1>12, RequestedBlocks
<1>22. moved' \subseteq ReqBlocks /\ moved' \subseteq 0 .. Lbas - 1
  <2>1. Part(lba, n) \subseteq 0 .. Total - 1 /\ 0 .. Total - 1 \subseteq 0 .. Lbas - 1
    BY <1>8, <1>9, <1>10, <1>11 DEF Part
  <2>2. moved \subseteq ReqBlocks /\ ReqBlocks = 0 .. Total - 1
    BY <1>1, <1>9 DEF MovedInv, ReqBlocks, Total
  <2> QED
    BY <1>17, <1>21, <2>1, <2>2
<1>23. TypeOK'
  <2>1. mapped' \subseteq DOMAIN bounce'
    BY <1>1, <1>3, <1>19 DEF TypeOK
  <2> QED
    BY <1>1, <1>3, <1>14, <1>19, <1>20, <1>22, <2>1 DEF TypeOK
<1>24. ReqInv' /\ CursorInv' /\ DataInv' /\ ReadBackInline'
  BY <1>1, <1>2, <1>3 DEF ReqInv, CursorInv, DataInv, ReadBackInline, Total, BlocksOf, Async
<1>25. TaskInv'
  <2>1. \A j \in DOMAIN tasks' : /\ req.slba <= tasks'[j].slba
                                /\ tasks'[j].slba + tasks'[j].n <= req.slba + newData
    BY <1>1, <1>14, <1>15 DEF TaskInv
  <2>2. mapped = DOMAIN bounce' /\ Len(tasks') <= Len(bounce') /\ (pc = "loop" => next = 1)
    BY <1>1, <1>2, <1>14, <1>19 DEF TaskInv
  <2>3. pc = "join" => \A j \in DOMAIN tasks' : j < next => tasks'[j].st = "done" /\ tasks'[j].ret = "ok"
    BY <1>1, <1>14 DEF TaskInv
  <2> QED
    BY <1>2, <1>3, <2>1, <2>2, <2>3 DEF TaskInv, Async
<1>26. ChunkInv' /\ WholeChunksFit'
  <2>1. Len(bounce') = Len(bounce) /\ Len(tasks') = Len(tasks) /\ ChunkInv
    BY <1>1, <1>14, <1>19 DEF HInv
  <2>2. ChunkInv'
    BY <1>3, <2>1 DEF ChunkInv, Total, BlocksOf, Async
  <2> QED
    BY <1>2, <1>3, <2>2, ChunksBehind
<1>27. MovedInv'
  <2>1. \A j \in DOMAIN tasks' : tasks'[j].st = "done" /\ tasks'[j].ret = "ok" =>
          Part(tasks'[j].slba, tasks'[j].n) \subseteq moved'
    <3> TAKE j \in DOMAIN tasks'
    <3>1. CASE j = i
      BY <1>14, <1>17, <1>21, <3>1
    <3>2. CASE j # i
      BY <1>1, <1>2, <1>14, <1>17, <3>2 DEF MovedInv
    <3> QED
      BY <3>1, <3>2
  <2>2. \A k \in 0 .. newData - 1 : \E j \in DOMAIN tasks' : k \in Part(tasks'[j].slba, tasks'[j].n)
    BY <1>1, <1>2, <1>14, <1>15 DEF MovedInv
  <2> QED
    BY <1>2, <1>3, <1>9, <1>22, <2>1, <2>2 DEF MovedInv, Part, ReqBlocks, BlocksOf, Async
<1> QED
  BY <1>23, <1>24, <1>25, <1>26, <1>27 DEF HInv

LEMMA NextInvariant == HInv /\ [Next]_vars => HInv'
<1> SUFFICES ASSUME HInv, [Next]_vars PROVE HInv'
  OBVIOUS
<1>1. CASE Caller
  BY <1>1, CallKeeps DEF Caller
<1>2. CASE Handler
  BY <1>2, OpenKeeps, SubmitTaskKeeps, AsyncThrowsKeeps, SubmitInlineKeeps, SubmitEmptyKeeps,
     CheckInlineKeeps, LoopDoneKeeps, JoinNextKeeps, JoinDoneKeeps, FreeBufferKeeps, FreeDoneKeeps,
     ReturnKeeps DEF Handler
<1>3. CASE Threads
  BY <1>3, RunTaskKeeps DEF Threads
<1>4. CASE Done \/ UNCHANGED vars
  BY <1>4, StutterKeeps DEF Done
<1> QED
  BY <1>1, <1>2, <1>3, <1>4 DEF Next

\* The inductive invariant holds in every state, whatever the device answers.
THEOREM HandlerInvariant == Spec => []HInv
<1> QED
  BY InitInvariant, NextInvariant, PTL DEF Spec

-----------------------------------------------------------------------------
(* What the runs check, for every value of the constants                   *)

\* The unsigned size never wraps, no command starts outside the device and no thread
\* uses a bounce buffer there is not: TypeOK in every state.
THEOREM HandlerTypeCorrect == Spec => []TypeOK
<1>1. HInv => TypeOK
  BY DEF HInv
<1> QED
  BY <1>1, HandlerInvariant, PTL

\* async_nvme_operation_handler unmaps a bounce buffer and closes the device only after
\* every thread that uses them has ended.
THEOREM BuffersOutliveTasks == Spec => []NoTaskWithoutBuffer
<1>1. HInv => NoTaskWithoutBuffer
  <2> SUFFICES ASSUME HInv, ~Stopped, NEW i \in DOMAIN tasks, tasks[i].st = "running"
               PROVE  i \in mapped /\ pc \in {"loop", "join"}
    BY DEF NoTaskWithoutBuffer
  <2>1. TypeOK /\ ReqInv /\ TaskInv
    BY DEF HInv
  <2>2. pc \in {"loop", "join"}
    BY <2>1 DEF TypeOK, ReqInv, TaskInv, Stopped
  <2>3. mapped = DOMAIN bounce /\ Len(tasks) <= Len(bounce)
    BY <2>1, <2>2 DEF TaskInv
  <2> QED
    BY <2>1, <2>2, <2>3 DEF TypeOK
<1> QED
  BY <1>1, HandlerInvariant, PTL

\* In the synchronous builds a read returns what the last writes of its blocks were given,
\* but for blocks that the write of a tensor below one block has overwritten since.
THEOREM InlineReadsBack == Spec => []ReadBackInline
<1>1. HInv => ReadBackInline
  BY DEF HInv
<1> QED
  BY <1>1, HandlerInvariant, PTL

\* data_pointers is indexed past its end only for a tensor that is not whole chunks, and
\* the caller's buffer is overrun only by the read of a tensor below one block, whatever
\* the chunk size and the sizes of the tensors.
THEOREM WholeChunksFitBuffers == Spec => []WholeChunksFit
<1>1. HInv => WholeChunksFit
  BY DEF HInv
<1> QED
  BY <1>1, HandlerInvariant, PTL

\* What StaysInRequest lets a step write: a block of the request or, for a tensor below one
\* block in the synchronous builds, one of the MaxBlocks blocks of a wrapped count.
MayWrite(b) ==
  /\ req.op = "WRITE"
  /\ \/ b - req.slba \in ReqBlocks
     \/ ~Async /\ ReqBlocks = {} /\ b - req.slba \in 0 .. MaxBlocks - 1

\* A step changes no other block.
LEMMA StepStaysInRequest ==
  ASSUME HInv, [Next]_vars, NEW b \in DOMAIN device, device'[b] # device[b]
  PROVE  MayWrite(b)
<1> DEFINE Lands(lba, n) ==
             \E mem : \E mv \in SUBSET (0 .. n - 1) : device' = DeviceAfter(req.op, lba, mem, mv)
<1>1. TypeOK /\ b \in 0 .. Lbas - 1 /\ Lbas \in Nat
  BY HandlerAssumption DEF HInv, TypeOK, Contents
<1>2. ASSUME NEW lba \in Nat, NEW n \in Nat, Lands(lba, n), req.slba \in Nat, Total \in Nat,
             req.slba <= lba, lba + n <= req.slba + Total
      PROVE  MayWrite(b)
  <2>1. PICK mem : \E mv \in SUBSET (0 .. n - 1) : device' = DeviceAfter(req.op, lba, mem, mv)
    BY <1>2
  <2>2. PICK mv \in SUBSET (0 .. n - 1) : device' = DeviceAfter(req.op, lba, mem, mv)
    BY <2>1
  <2>3. req.op = "WRITE" /\ b - lba \in mv
    BY <1>1, <2>2 DEF DeviceAfter
  <2>4. b - lba \in 0 .. n - 1
    BY <2>3
  <2>5. b - req.slba \in 0 .. Total - 1
    BY <1>1, <1>2, <2>4
  <2> QED
    BY <2>3, <2>5 DEF MayWrite, ReqBlocks, Total
<1>3. CASE SubmitInline
  <2> DEFINE n == CommandBlocks(size)
  <2>1. /\ n \in Nat /\ slba \in Nat /\ req.slba \in Nat /\ Total \in Nat /\ newData \in Nat
        /\ slba = req.slba + newData /\ newData + n <= Total
    <3>1. size > 0 /\ pc = "loop"
      <4>1. BlocksOf(0) = 0
        BY BlocksOfSize
      <4>2. CommandBlocks(0) = 0
        BY <4>1, HandlerAssumption DEF CommandBlocks
      <4> QED
        BY <1>1, <1>3, <4>2 DEF SubmitInline, TypeOK
    <3> QED
      BY <3>1, NextCommand
  <2>2. PICK outcome \in Outcomes : \E mv \in MovedBy(outcome, n) :
          device' = DeviceAfter(req.op, slba, [k \in 0 .. n - 1 |-> data[newData + k]], mv)
    BY <1>3 DEF SubmitInline
  <2>3. \A mv \in MovedBy(outcome, n) : mv \in SUBSET (0 .. n - 1)
    BY <2>1, BlocksMoved
  <2>4. Lands(slba, n)
    BY <2>2, <2>3
  <2>5. req.slba <= slba /\ slba + n <= req.slba + Total
    BY <2>1
  <2> HIDE DEF n, Lands
  <2> QED
    BY <1>2, <2>1, <2>4, <2>5
<1>4. CASE Threads
  <2>1. PICK i \in DOMAIN tasks : RunTask(i)
    BY <1>4 DEF Threads
  <2> DEFINE n == tasks[i].n
             lba == tasks[i].slba
  <2>2. ReqInv /\ CursorInv /\ TaskInv /\ Async /\ pc \in {"loop", "join"} /\ calls > 0
    BY <1>1, <2>1 DEF HInv, RunTask, TaskInv, ReqInv, Stopped, TypeOK
  <2>3. tasks[i] \in Task
    BY <1>1 DEF TypeOK
  <2>4. n \in Nat /\ lba \in Nat
    BY <2>3, HandlerAssumption DEF Task
  <2>5. req.slba \in Nat /\ Total \in Nat /\ newData <= Total /\ newData \in Nat
    <3>1. size \in Nat /\ newData \in Nat /\ req.slba \in Nat
      BY <1>1, <2>2, HandlerAssumption DEF TypeOK, ReqInv
    <3>2. BlocksOf(size) \in Nat /\ newData + BlocksOf(size) = Total
      BY <2>2, <3>1, BlocksOfSize DEF CursorInv
    <3> QED
      BY <3>1, <3>2
  <2>6. req.slba <= lba /\ lba + n <= req.slba + newData
    BY <2>2 DEF TaskInv
  <2>7. PICK outcome \in Outcomes : \E mv \in MovedBy(outcome, n) :
          device' = DeviceAfter(req.op, lba, bounce[i], mv)
    BY <2>1 DEF RunTask
  <2>8. \A mv \in MovedBy(outcome, n) : mv \in SUBSET (0 .. n - 1)
    BY <2>4, BlocksMoved
  <2>9. Lands(lba, n)
    BY <2>7, <2>8
  <2> HIDE DEF n, lba, Lands
  <2>10. lba + n <= req.slba + Total
    BY <2>4, <2>5, <2>6
  <2> QED
    BY <1>2, <2>4, <2>5, <2>6, <2>9, <2>10
<1>5. CASE SubmitEmpty
  <2>1. ~Async /\ pc = "loop" /\ size > 0 /\ CommandBlocks(size) = 0
    BY <1>5 DEF SubmitEmpty
  <2>2. ReqBlocks = {} /\ newData = 0
    BY <2>1, EmptyCommand
  <2>3. slba = req.slba
    <3>1. CursorInv /\ ReqInv
      BY <2>1 DEF HInv, Stopped
    <3>2. slba = req.slba + 0 /\ req.slba \in Nat
      BY <2>1, <2>2, <3>1 DEF CursorInv, ReqInv
    <3> QED
      BY <3>2
  <2>4. PICK outcome \in Outcomes : \E mv \in MovedBy(outcome, MaxBlocks) :
          device' = DeviceAfter(req.op, slba, [k \in 0 .. MaxBlocks - 1 |-> Stray], mv)
    BY <1>1, <1>5 DEF SubmitEmpty
  <2>5. MaxBlocks \in Nat
    BY HandlerAssumption
  <2>6. PICK mv \in SUBSET (0 .. MaxBlocks - 1) :
          device' = DeviceAfter(req.op, slba, [k \in 0 .. MaxBlocks - 1 |-> Stray], mv)
    BY <2>4, <2>5, BlocksMoved
  <2>7. req.op = "WRITE" /\ b - slba \in mv
    BY <1>1, <2>6 DEF DeviceAfter
  <2> QED
    BY <2>1, <2>2, <2>3, <2>7 DEF MayWrite
<1>6. CASE Caller \/ (Handler /\ ~SubmitInline /\ ~SubmitEmpty) \/ Done \/ UNCHANGED vars
  BY <1>6 DEF Caller, Call, Handler, Open, SubmitTask, AsyncThrows, CheckInline, LoopDone,
              JoinNext, JoinDone, FreeBuffer, FreeDone, Return, Done, vars
<1> QED
  BY <1>3, <1>4, <1>5, <1>6 DEF Next

\* However a tensor of at least one block is cut into commands, a call writes no block
\* outside its request; for a smaller one the shipped build writes none at all, and the
\* synchronous builds none but the MaxBlocks blocks from slba on.
THEOREM WritesStayInRequest == Spec => StaysInRequest
<1>1. HInv /\ [Next]_vars =>
        [\A b \in DOMAIN device :
           device'[b] # device[b] =>
             /\ req.op = "WRITE"
             /\ \/ b - req.slba \in ReqBlocks
                \/ ~Async /\ ReqBlocks = {} /\ b - req.slba \in 0 .. MaxBlocks - 1]_vars
  BY StepStaysInRequest DEF MayWrite
<1> QED
  BY <1>1, HandlerInvariant, PTL DEF Spec, StaysInRequest

-----------------------------------------------------------------------------
(* The refinement of BlockTransfer                                         *)

\* The values BT gives to its variables.
AbstractState == IF Stopped THEN "stopped" ELSE IF pc = "idle" THEN "idle" ELSE "busy"
AbstractRequest == IF calls = 0 THEN {} ELSE ReqBlocks

\* An ioctl moves further blocks of the request.
LEMMA MoveRefines ==
  ASSUME AbstractState = "busy", AbstractState' = "busy", AbstractRequest' = AbstractRequest,
         moved \subseteq moved', moved' \subseteq AbstractRequest
  PROVE  BT!Next
BY DEF BT!Next, BT!Move, AbstractState, AbstractRequest

\* The other steps of a call change neither what was asked for nor what was moved: they
\* stutter or stop the program.
LEMMA QuietRefines ==
  ASSUME UNCHANGED <<req, calls, moved>>,
         AbstractState' = AbstractState \/ (AbstractState # "stopped" /\ AbstractState' = "stopped")
  PROVE  [BT!Next]_(BT!vars)
<1>1. AbstractRequest' = AbstractRequest
  BY DEF AbstractRequest, ReqBlocks, BlocksOf
<1>2. CASE AbstractState' = AbstractState
  BY <1>1, <1>2 DEF BT!vars, AbstractState, AbstractRequest
<1>3. CASE AbstractState # "stopped" /\ AbstractState' = "stopped"
  BY <1>1, <1>3 DEF BT!Next, BT!Stop, AbstractState, AbstractRequest
<1> QED
  BY <1>2, <1>3

LEMMA CallRefines ==
  ASSUME HInv, HInv', NEW r \in Requests, Call(r)
  PROVE  BT!Next
<1>1. AbstractState = "idle" /\ AbstractState' = "busy" /\ moved' = {}
  BY DEF Call, AbstractState, Stopped
<1>2. AbstractRequest' \subseteq 0 .. Lbas - 1
  <2>1. ReqInv' /\ req' = r /\ calls' > 0 /\ req.size' \in Nat /\ Lbas \in Nat
    BY HandlerAssumption DEF HInv, Call, Stopped, ReqInv
  <2>2. BlocksOf(r.size) \in Nat /\ r.slba \in Nat /\ r.slba + BlocksOf(r.size) <= Lbas
    BY <2>1, BlocksOfSize, HandlerAssumption DEF BlocksOf
  <2>3. ReqBlocks' = 0 .. BlocksOf(r.size) - 1
    BY <2>1 DEF ReqBlocks, BlocksOf
  <2> QED
    BY <2>1, <2>2, <2>3 DEF AbstractRequest
<1> QED
  BY <1>1, <1>2 DEF BT!Next, BT!Begin, AbstractState, AbstractRequest

LEMMA ReturnRefines ==
  ASSUME HInv, Return
  PROVE  BT!Next
<1>1. AbstractState = "busy" /\ AbstractState' = "idle" /\ UNCHANGED <<req, calls, moved>>
  BY DEF Return, AbstractState, Stopped
<1>2. AbstractRequest' = AbstractRequest
  BY <1>1 DEF AbstractRequest, ReqBlocks, BlocksOf
<1>3. moved = AbstractRequest
  BY DEF HInv, Return, Stopped, MovedInv, ReqInv, AbstractRequest, TypeOK
<1> QED
  BY <1>1, <1>2, <1>3 DEF BT!Next, BT!Succeed, AbstractState, AbstractRequest

LEMMA SubmitInlineRefines ==
  ASSUME HInv, HInv', SubmitInline
  PROVE  BT!Next
<1>1. pc' = "check" /\ moved \subseteq moved' /\ UNCHANGED <<req, calls>>
  BY DEF SubmitInline, ghosts
<1>2. AbstractState = "busy" /\ AbstractState' = "busy"
  BY <1>1 DEF SubmitInline, AbstractState, Stopped
<1>3. AbstractRequest' = AbstractRequest
  BY <1>1 DEF AbstractRequest, ReqBlocks, BlocksOf
<1>4. moved' \subseteq AbstractRequest'
  BY <1>1 DEF HInv, Stopped, MovedInv, AbstractRequest
<1> QED
  BY <1>1, <1>2, <1>3, <1>4, MoveRefines

LEMMA RunTaskRefines ==
  ASSUME HInv, HInv', NEW i \in DOMAIN tasks, RunTask(i)
  PROVE  BT!Next
<1>1. pc' = pc /\ moved \subseteq moved' /\ UNCHANGED <<req, calls>> /\ ~Stopped /\ tasks[i].st = "running"
  BY DEF RunTask, ghosts
<1>2. pc # "idle"
  BY <1>1 DEF HInv, TaskInv
<1>3. AbstractState = "busy" /\ AbstractState' = "busy"
  BY <1>1, <1>2 DEF AbstractState, Stopped
<1>4. AbstractRequest' = AbstractRequest
  BY <1>1 DEF AbstractRequest, ReqBlocks, BlocksOf
<1>5. moved' \subseteq AbstractRequest'
  BY <1>1 DEF HInv, Stopped, MovedInv, AbstractRequest
<1> QED
  BY <1>1, <1>3, <1>4, <1>5, MoveRefines

LEMMA QuietSteps ==
  ASSUME Open \/ SubmitTask \/ AsyncThrows \/ SubmitEmpty \/ CheckInline \/ LoopDone
         \/ JoinNext \/ JoinDone \/ FreeBuffer \/ FreeDone \/ Done \/ UNCHANGED vars
  PROVE  [BT!Next]_(BT!vars)
<1>1. UNCHANGED <<req, calls, moved>>
  BY DEF Open, SubmitTask, AsyncThrows, SubmitEmpty, CheckInline, LoopDone, JoinNext, JoinDone,
         FreeBuffer, FreeDone, Done, vars, ghosts
<1>2. AbstractState' = AbstractState \/ (AbstractState # "stopped" /\ AbstractState' = "stopped")
  BY DEF Open, SubmitTask, AsyncThrows, SubmitEmpty, CheckInline, LoopDone, JoinNext, JoinDone,
         FreeBuffer, FreeDone, Done, vars, AbstractState, Stopped
<1> QED
  BY <1>1, <1>2, QuietRefines

LEMMA StepRefines == HInv /\ HInv' /\ [Next]_vars => [BT!Next]_(BT!vars)
<1> SUFFICES ASSUME HInv, HInv', [Next]_vars PROVE [BT!Next]_(BT!vars)
  OBVIOUS
<1>1. CASE Caller
  BY <1>1, CallRefines DEF Caller
<1>2. CASE Threads
  BY <1>2, RunTaskRefines DEF Threads
<1>3. CASE SubmitInline
  BY <1>3, SubmitInlineRefines
<1>4. CASE Return
  BY <1>4, ReturnRefines
<1>5. CASE (Handler /\ ~SubmitInline /\ ~Return) \/ Done \/ UNCHANGED vars
  BY <1>5, QuietSteps DEF Handler
<1> QED
  BY <1>1, <1>2, <1>3, <1>4, <1>5 DEF Next

\* A call of nvme_operation_handler or async_nvme_operation_handler that returns has moved
\* every block of its request: the model implements BlockTransfer.
THEOREM HandlerRefinement == Spec => RefinesBlockTransfer
<1>1. Init => BT!Init
  BY DEF Init, BT!Init, Stopped
<1> QED
  BY <1>1, StepRefines, HandlerInvariant, PTL DEF Spec, RefinesBlockTransfer, BT!Spec
=============================================================================
