-------------------------- MODULE NvmePassthruProofs --------------------------
(***************************************************************************)
(* Proofs about NvmePassthru for any number of tasks, commands and tags,   *)
(* any commands the entry points let through, every interleaving and every *)
(* failure.  What a command holds is a function of where its thread and    *)
(* its completion are: HoldInv says which, and the rest of the invariant   *)
(* is what that needs.                                                     *)
(***************************************************************************)
EXTENDS NvmePassthru, TLAPS

-----------------------------------------------------------------------------
(* The inductive invariant                                                 *)

\* Where the thread is inside the entry point, with what that took.
Inside(c) ==
  pc[c] \in {"ctrl", "undefined", "alloc", "map", "meta", "prepare", "execute", "wait", "end",
             "leave"}

\* Where a request was allocated and not yet started.
Building(c) == pc[c] \in {"map", "meta", "prepare", "execute"}

\* The device, or a completion that has not run, has the request.
Flying(c) == io[c] \in {"device", "completed", "task_work", "inline"}

\* Where the buffer is mapped, and where the metadata is attached.
BufferReady(c) == pc[c] \in {"meta", "prepare", "execute"} \/ Flying(c)
MetaReady(c) == pc[c] \in {"prepare", "execute"} \/ Flying(c)

HoldsRequest(c) == Building(c) \/ (Flying(c) /\ (io[c] = "task_work" => cmd[c].metaLen))

\* The vectored command with a registered buffer: it may have kept its request.
MayLeak(c) ==
  /\ cmd[c].fixedVec /\ cmd[c].data
  /\ pc[c] \in {"leave", "over"} /\ io[c] = "none" /\ out[c].ret = "error"

One(condition) == IF condition THEN 1 ELSE 0

HoldInv(c) ==
  /\ holds[c]["srcu"] = One(Inside(c) /\ cmd[c].node = "head" /\ ~ToController(c))
  /\ holds[c]["ref"] = One(Inside(c) /\ (ToController(c) \/ cmd[c].node = "dev"))
  /\ holds[c]["bio"] = One(cmd[c].data /\ BufferReady(c))
  /\ holds[c]["meta"] = One(WithMeta(c) /\ MetaReady(c))
  /\ holds[c]["request"] = One(HoldsRequest(c)) \/ (MayLeak(c) /\ holds[c]["request"] = 1)

\* Where the completion may be while the thread is where it is.
PlaceInv(c) ==
  /\ pc[c] \in {"ctrl", "undefined"} => ToController(c)
  /\ Uring(c) => pc[c] \notin {"wait", "end"} /\ io[c] # "completed"
  /\ ~Uring(c) => pc[c] \notin {"prepare", "queued"}
  /\ Uring(c) /\ io[c] # "none" => pc[c] \in {"leave", "queued"}
  /\ ~Uring(c) /\ io[c] # "none" => pc[c] = "wait"
  /\ pc[c] = "wait" => io[c] \in {"device", "completed"}
  /\ pc[c] = "queued" => io[c] # "none"
  /\ pc[c] = "meta" => WithMeta(c)
  /\ pc[c] = "map" => ~rq[c].bio
  /\ BufferReady(c) => (rq[c].bio <=> cmd[c].data) /\ ~(cmd[c].data /\ cmd[c].fixedVec)
  /\ rq[c].nowait => Uring(c)

\* What the device did, and what was reported of it.
OutcomeInv(c) ==
  /\ io[c] \in {"none", "device"} /\ pc[c] \notin {"end", "leave", "over"} => rq[c].ran = "none"
  /\ io[c] = "device" => rq[c].ran = "none"
  /\ io[c] \in {"completed", "task_work", "inline"} => rq[c].ran \in Outcomes
  /\ Uring(c) /\ pc[c] = "leave" /\ io[c] = "none" =>
       rq[c].ran = "none" /\ out[c].ret \in {"error", "again"}
  /\ Uring(c) /\ Flying(c) => out[c].ret = "queued"
  /\ io[c] = "done" \/ pc[c] \in {"end", "over"} \/ (~Uring(c) /\ pc[c] = "leave") =>
       out[c].ret = "error" \/ (out[c].ret \in Outcomes /\ out[c].ret = rq[c].ran)

\* What the private part of the io_uring command holds for the completion.
PduInv(c) ==
  /\ Uring(c) /\ (pc[c] = "execute" \/ io[c] = "device") =>
       pdu[c] = [ptr |-> IF cmd[c].data THEN "bio" ELSE "null",
                 u |-> IF cmd[c].metaLen THEN "meta" ELSE "none", status |-> "none"]
  /\ io[c] \in {"task_work", "inline"} =>
       IF cmd[c].metaLen THEN pdu[c].ptr = "req" /\ pdu[c].u = "meta"
       ELSE pdu[c] = [ptr |-> IF cmd[c].data THEN "bio" ELSE "null", u |-> "result",
                      status |-> rq[c].ran]

\* The metadata reaches the user before success is reported.
MetaInv(c) ==
  out[c].ret = "ok" /\ cmd[c].dir = "READ" /\ WithMeta(c) /\ ~out[c].orphan => out[c].meta

\* The SRCU keeps the namespace from being shut down.
LockInv(c) == holds[c]["srcu"] = 1 => ns \in {"live", "unlinked"}

LegalInv(c) == LegalSubmitIo(cmd[c]) /\ LegalUring(cmd[c]) /\ LegalIoctl(cmd[c])

CommandInv(c) ==
  /\ HoldInv(c) /\ PlaceInv(c) /\ OutcomeInv(c) /\ PduInv(c)
  /\ MetaInv(c) /\ LockInv(c) /\ LegalInv(c)

PInv == TypeOK /\ \A c \in Cmds : CommandInv(c)

-----------------------------------------------------------------------------
(* Helpers                                                                 *)

\* The types, without the bound on what is held.
Typed ==
  /\ cmd \in [Cmds -> Input] /\ pc \in [Cmds -> Place] /\ holds \in [Cmds -> [Resources -> Int]]
  /\ rq \in [Cmds -> Request] /\ io \in [Cmds -> Way] /\ out \in [Cmds -> Output]
  /\ pdu \in [Cmds -> Pdu] /\ cookie \in [Cmds -> BOOLEAN]
  /\ exited \subseteq Tasks /\ ns \in {"live", "unlinked", "dying", "gone"}

TypedCommand(c) ==
  /\ cmd[c] \in Input /\ pc[c] \in Place /\ holds[c] \in [Resources -> Int]
  /\ rq[c] \in Request /\ io[c] \in Way /\ out[c] \in Output
  /\ pdu[c] \in Pdu /\ cookie[c] \in BOOLEAN

LEMMA TypedFromPInv == PInv => Typed /\ \A c \in Cmds : TypedCommand(c) /\ CommandInv(c)
<1>1. ASSUME PInv PROVE Typed
  BY <1>1 DEF PInv, TypeOK, Typed
<1>2. ASSUME Typed, NEW c \in Cmds PROVE TypedCommand(c)
  BY <1>2 DEF Typed, TypedCommand
<1> QED
  BY <1>1, <1>2 DEF PInv

\* What is taken and given back.
LEMMA TakenEffect ==
  ASSUME Typed, NEW c \in Cmds, NEW R \in SUBSET Resources, holds' = Taken(c, R)
  PROVE  /\ holds' = [holds EXCEPT ![c] = holds'[c]]
         /\ holds'[c] \in [Resources -> Int]
         /\ \A r \in Resources : holds'[c][r] = holds[c][r] + One(r \in R)
  BY DEF Typed, Taken, One

LEMMA GivenEffect ==
  ASSUME Typed, NEW c \in Cmds, NEW R \in SUBSET Resources, holds' = Given(c, R)
  PROVE  /\ holds' = [holds EXCEPT ![c] = holds'[c]]
         /\ holds'[c] \in [Resources -> Int]
         /\ \A r \in Resources : holds'[c][r] = holds[c][r] - One(r \in R)
  BY DEF Typed, Given, One

\* A step of one command changes what belongs to that command.
Only(c) ==
  /\ cmd' = [cmd EXCEPT ![c] = cmd'[c]] /\ pc' = [pc EXCEPT ![c] = pc'[c]]
  /\ holds' = [holds EXCEPT ![c] = holds'[c]] /\ rq' = [rq EXCEPT ![c] = rq'[c]]
  /\ io' = [io EXCEPT ![c] = io'[c]] /\ out' = [out EXCEPT ![c] = out'[c]]
  /\ pdu' = [pdu EXCEPT ![c] = pdu'[c]] /\ cookie' = [cookie EXCEPT ![c] = cookie'[c]]
  /\ UNCHANGED <<ns, exited>>

\* A step of the thread, the device or task work: the command is under way, and the device
\* tells the outcome only when it works on it.
Progress(c) ==
  /\ Only(c) /\ cmd'[c] = cmd[c]
  /\ pc[c] # "idle" /\ ~Over(c) /\ pc'[c] # "idle"
  /\ \/ rq'[c].ran = rq[c].ran
     \/ io[c] = "device" /\ rq'[c].ran \in Outcomes /\ ~Over(c)'

\* Everything of a command but the namespace, and the set of exited tasks.
Kept(c) ==
  /\ cmd'[c] = cmd[c] /\ pc'[c] = pc[c] /\ holds'[c] = holds[c] /\ rq'[c] = rq[c]
  /\ io'[c] = io[c] /\ out'[c] = out[c] /\ pdu'[c] = pdu[c]

LEMMA KeptKeeps ==
  ASSUME NEW c \in Cmds, CommandInv(c), Kept(c),
         ns' = ns \/ ns' \in {"live", "unlinked"} \/ holds[c]["srcu"] = 0
  PROVE  CommandInv(c)'
  BY DEF CommandInv, HoldInv, PlaceInv, OutcomeInv, PduInv, MetaInv, LockInv, LegalInv, Kept,
         Inside, Building, Flying, BufferReady, MetaReady, HoldsRequest, MayLeak, Uring,
         ToController, WithMeta, LegalSubmitIo, LegalUring, LegalIoctl

\* The bound on what is held follows from what HoldInv says it is.
LEMMA BoundFromHoldInv ==
  ASSUME Typed', \A c \in Cmds : CommandInv(c)'
  PROVE  PInv'
<1>1. ASSUME NEW c \in Cmds
      PROVE  (holds[c] \in [Resources -> 0 .. 1])'
  <2>1. (holds[c] \in [Resources -> Int])'
    BY DEF Typed
  <2>2. HoldInv(c)'
    BY DEF CommandInv
  <2> QED
    BY <2>1, <2>2 DEF HoldInv, One, Resources
<1>2. (holds \in [Cmds -> [Resources -> 0 .. 1]])'
  BY <1>1 DEF Typed
<1> QED
  BY <1>2 DEF PInv, Typed, TypeOK

\* So a step of one command has to be looked at for that command only.
LEMMA OneCommand ==
  ASSUME PInv, NEW c \in Cmds, Only(c), TypedCommand(c)', CommandInv(c)'
  PROVE  PInv'
<1>1. Typed
  BY TypedFromPInv
<1>2. Typed'
  BY <1>1 DEF Typed, Only, TypedCommand
<1>3. ASSUME NEW d \in Cmds \ {c}
      PROVE  CommandInv(d)'
  <2>1. Kept(d)
    BY <1>1 DEF Typed, Only, Kept
  <2> QED
    BY <2>1, KeptKeeps DEF PInv, Only
<1> QED
  BY <1>2, <1>3, BoundFromHoldInv

\* What the entry point takes.
LEMMA EntryHoldsWhat ==
  ASSUME NEW c \in Cmds
  PROVE  /\ EntryHolds(c) \in SUBSET Resources
         /\ "srcu" \in EntryHolds(c) <=> cmd[c].node = "head" /\ ~ToController(c)
         /\ "ref" \in EntryHolds(c) <=> ToController(c) \/ cmd[c].node = "dev"
         /\ "request" \notin EntryHolds(c) /\ "bio" \notin EntryHolds(c) /\ "meta" \notin EntryHolds(c)
  BY DEF EntryHolds, Resources, If

\* What nvme_finish_user_metadata reports and whether the user has the metadata.
LEMMA MetadataOutcome ==
  ASSUME NEW c \in Cmds, NEW orphan \in BOOLEAN, NEW m \in Metadata(c, orphan)
  PROVE  /\ m[1] \in {rq[c].ran, "error"} /\ m[2] \in BOOLEAN
         /\ m[1] = "ok" /\ cmd[c].dir = "READ" /\ ~orphan => m[2]
<1>1. CASE rq[c].ran = "ok" /\ cmd[c].dir = "READ"
  <2>1. m = <<"error", FALSE>> \/ m = <<"ok", ~orphan>>
    BY <1>1 DEF Metadata
  <2>2. CASE m = <<"error", FALSE>>
    BY <2>2
  <2>3. CASE m = <<"ok", ~orphan>>
    <3>1. m[1] = "ok" /\ m[2] = ~orphan
      BY <2>3
    <3>2. m[2] \in BOOLEAN /\ (~orphan => m[2])
      BY <3>1, Zenon
    <3> QED
      BY <1>1, <3>1, <3>2
  <2> QED
    BY <2>1, <2>2, <2>3
<1>2. CASE ~(rq[c].ran = "ok" /\ cmd[c].dir = "READ")
  <2>1. m = <<rq[c].ran, FALSE>>
    BY <1>2 DEF Metadata
  <2>2. m[1] = rq[c].ran /\ m[2] = FALSE
    BY <2>1
  <2> QED
    BY <1>2, <2>2
<1> QED
  BY <1>1, <1>2

-----------------------------------------------------------------------------
(* The way in                                                              *)

\* Enter takes the lock or the reference.
LEMMA EnterKeeps ==
  ASSUME PInv, NEW c \in Cmds, Enter(c), UNCHANGED uringVars
  PROVE  PInv' /\ Progress(c)
<1>1. Typed /\ TypedCommand(c) /\ CommandInv(c)
  BY TypedFromPInv
<1>2. /\ holds' = [holds EXCEPT ![c] = holds'[c]] /\ holds'[c] \in [Resources -> Int]
      /\ \A r \in Resources : holds'[c][r] = holds[c][r] + One(r \in EntryHolds(c))
  <2>1. EntryHolds(c) \in SUBSET Resources
    BY EntryHoldsWhat
  <2>2. holds' = Taken(c, EntryHolds(c))
    BY DEF Enter
  <2> QED
    BY <1>1, <2>1, <2>2, TakenEffect
<1>3. /\ cmd'[c] = cmd[c] /\ rq'[c] = rq[c] /\ io'[c] = io[c] /\ out'[c] = out[c]
      /\ pdu'[c] = pdu[c] /\ cookie'[c] = cookie[c] /\ ns' = ns
      /\ pc[c] = "enter" /\ pc'[c] = IF ToController(c) THEN "ctrl" ELSE "alloc"
      /\ cmd[c].node = "head" => ns = "live"
  BY <1>1 DEF Typed, TypedCommand, Request, Output, Pdu, uringVars, Enter, Finds
<1>4. Only(c)
  BY <1>1, <1>2 DEF Only, Typed, uringVars, Enter
<1>5. TypedCommand(c)'
  BY <1>1, <1>2, <1>3 DEF TypedCommand, Place
<1>6. /\ holds'[c]["request"] = holds[c]["request"]
      /\ holds'[c]["bio"] = holds[c]["bio"]
      /\ holds'[c]["meta"] = holds[c]["meta"]
      /\ holds'[c]["srcu"] = holds[c]["srcu"] + One(cmd[c].node = "head" /\ ~ToController(c))
      /\ holds'[c]["ref"] = holds[c]["ref"] + One(ToController(c) \/ cmd[c].node = "dev")
  BY <1>1, <1>2, EntryHoldsWhat DEF TypedCommand, Resources, One
<1>7. CommandInv(c)'
  <2> USE <1>1, <1>3, <1>6
  <2>1. HoldInv(c)'
    BY DEF CommandInv, HoldInv, PlaceInv, Inside, Building, Flying, BufferReady, MetaReady,
       HoldsRequest, MayLeak, Uring, ToController, WithMeta, One, Resources
  <2>2. PlaceInv(c)'
    BY DEF CommandInv, PlaceInv, Flying, BufferReady, Uring, ToController, WithMeta
  <2>3. OutcomeInv(c)'
    BY DEF CommandInv, PlaceInv, OutcomeInv, Flying, Uring, ToController
  <2>4. PduInv(c)'
    BY DEF CommandInv, PlaceInv, PduInv, Flying, BufferReady, Uring, ToController
  <2>5. MetaInv(c)'
    BY DEF CommandInv, OutcomeInv, PlaceInv, MetaInv, Flying, Uring, WithMeta, ToController
  <2>6. LockInv(c)' /\ LegalInv(c)'
    BY DEF CommandInv, LockInv, LegalInv, LegalSubmitIo, LegalUring, LegalIoctl, Resources,
       HoldInv, One, Inside, ToController
  <2> QED
    BY <2>1, <2>2, <2>3, <2>4, <2>5, <2>6 DEF CommandInv
<1>8. Progress(c)
  BY <1>1, <1>3, <1>4 DEF Progress, Over, CommandInv, PlaceInv
<1> QED
  BY <1>4, <1>5, <1>7, <1>8, OneCommand

\* Nothing was taken yet.
LEMMA RefuseKeeps ==
  ASSUME PInv, NEW c \in Cmds, Refuse(c), UNCHANGED uringVars
  PROVE  PInv' /\ Progress(c)
<1>1. Typed /\ TypedCommand(c) /\ CommandInv(c)
  BY TypedFromPInv
<1>2. holds' = [holds EXCEPT ![c] = holds'[c]] /\ holds'[c] = holds[c]
  BY <1>1 DEF Typed, Refuse
<1>3. /\ cmd'[c] = cmd[c] /\ rq'[c] = rq[c] /\ io'[c] = io[c] /\ pdu'[c] = pdu[c]
      /\ cookie'[c] = cookie[c] /\ ns' = ns
      /\ pc[c] = "enter" /\ pc'[c] = "over"
      /\ out'[c] = [out[c] EXCEPT !.ret = "error"]
  BY <1>1 DEF Typed, TypedCommand, Request, Output, Pdu, uringVars, Refuse
<1>4. Only(c)
  BY <1>1, <1>2 DEF Only, Typed, uringVars, Refuse
<1>5. TypedCommand(c)'
  BY <1>1, <1>2, <1>3 DEF TypedCommand, Place, Output
<1>6. \A r \in Resources : holds'[c][r] = holds[c][r]
  BY <1>2
<1>7. CommandInv(c)'
  <2> USE <1>1, <1>3, <1>6
  <2>1. HoldInv(c)'
    BY DEF CommandInv, HoldInv, PlaceInv, Inside, Building, Flying, BufferReady, MetaReady,
       HoldsRequest, MayLeak, Uring, ToController, WithMeta, One, Resources, Output,
       TypedCommand
  <2>2. PlaceInv(c)'
    BY DEF CommandInv, PlaceInv, Flying, BufferReady, Uring, ToController, WithMeta,
       Output, TypedCommand
  <2>3. OutcomeInv(c)'
    BY DEF CommandInv, PlaceInv, OutcomeInv, Flying, Uring, Output, TypedCommand
  <2>4. PduInv(c)'
    BY DEF CommandInv, PlaceInv, PduInv, Flying, BufferReady, Uring, Output, TypedCommand
  <2>5. MetaInv(c)'
    BY DEF CommandInv, OutcomeInv, PlaceInv, MetaInv, Flying, Uring, WithMeta, Output,
       TypedCommand
  <2>6. LockInv(c)' /\ LegalInv(c)'
    BY DEF CommandInv, LockInv, LegalInv, LegalSubmitIo, LegalUring, LegalIoctl, Resources,
       Output, TypedCommand
  <2> QED
    BY <2>1, <2>2, <2>3, <2>4, <2>5, <2>6 DEF CommandInv
<1>8. Progress(c)
  BY <1>1, <1>3, <1>4 DEF Progress, Over, CommandInv, PlaceInv
<1> QED
  BY <1>4, <1>5, <1>7, <1>8, OneCommand

\* The command goes on with the reference on the controller only.
LEMMA ReadCtrlKeeps ==
  ASSUME PInv, NEW c \in Cmds, ReadCtrl(c), UNCHANGED uringVars
  PROVE  PInv' /\ Progress(c)
<1>1. Typed /\ TypedCommand(c) /\ CommandInv(c)
  BY TypedFromPInv
<1>2. holds' = [holds EXCEPT ![c] = holds'[c]] /\ holds'[c] = holds[c]
  BY <1>1 DEF Typed, ReadCtrl
<1>3. /\ cmd'[c] = cmd[c] /\ rq'[c] = rq[c] /\ io'[c] = io[c] /\ out'[c] = out[c]
      /\ pdu'[c] = pdu[c] /\ cookie'[c] = cookie[c] /\ ns' = ns
      /\ pc[c] = "ctrl" /\ pc'[c] \in {"alloc", "undefined"}
  BY <1>1 DEF Typed, TypedCommand, Request, Output, Pdu, uringVars, ReadCtrl, If
<1>4. Only(c)
  BY <1>1, <1>2 DEF Only, Typed, uringVars, ReadCtrl
<1>5. TypedCommand(c)'
  BY <1>1, <1>2, <1>3 DEF TypedCommand, Place
<1>6. \A r \in Resources : holds'[c][r] = holds[c][r]
  BY <1>2
<1>7. CommandInv(c)'
  <2> USE <1>1, <1>3, <1>6
  <2>1. HoldInv(c)'
    BY DEF CommandInv, HoldInv, PlaceInv, Inside, Building, Flying, BufferReady, MetaReady,
       HoldsRequest, MayLeak, Uring, ToController, WithMeta, One, Resources
  <2>2. PlaceInv(c)'
    BY DEF CommandInv, PlaceInv, Flying, BufferReady, Uring, ToController, WithMeta
  <2>3. OutcomeInv(c)'
    BY DEF CommandInv, PlaceInv, OutcomeInv, Flying, Uring
  <2>4. PduInv(c)'
    BY DEF CommandInv, PlaceInv, PduInv, Flying, BufferReady, Uring
  <2>5. MetaInv(c)'
    BY DEF CommandInv, OutcomeInv, PlaceInv, MetaInv, Flying, Uring, WithMeta
  <2>6. LockInv(c)' /\ LegalInv(c)'
    BY DEF CommandInv, LockInv, LegalInv, LegalSubmitIo, LegalUring, LegalIoctl, Resources
  <2> QED
    BY <2>1, <2>2, <2>3, <2>4, <2>5, <2>6 DEF CommandInv
<1>8. Progress(c)
  BY <1>1, <1>3, <1>4 DEF Progress, Over, CommandInv, PlaceInv
<1> QED
  BY <1>4, <1>5, <1>7, <1>8, OneCommand

\* The command gets a request without a bio.
LEMMA AllocKeeps ==
  ASSUME PInv, NEW c \in Cmds, Alloc(c), UNCHANGED uringVars
  PROVE  PInv' /\ Progress(c)
<1>1. Typed /\ TypedCommand(c) /\ CommandInv(c)
  BY TypedFromPInv
<1>2. /\ holds' = [holds EXCEPT ![c] = holds'[c]] /\ holds'[c] \in [Resources -> Int]
      /\ \A r \in Resources : holds'[c][r] = holds[c][r] + One(r \in {"request"})
  <2>1. {"request"} \in SUBSET Resources
    BY DEF Resources
  <2>2. holds' = Taken(c, {"request"})
    BY DEF Alloc
  <2> QED
    BY <1>1, <2>1, <2>2, TakenEffect
<1>3. /\ cmd'[c] = cmd[c] /\ io'[c] = io[c] /\ out'[c] = out[c] /\ pdu'[c] = pdu[c]
      /\ cookie'[c] = cookie[c] /\ ns' = ns
      /\ pc[c] = "alloc" /\ pc'[c] = "map"
      /\ rq'[c] = [rq[c] EXCEPT !.bio = FALSE]
  BY <1>1 DEF Typed, TypedCommand, Request, Output, Pdu, uringVars, Alloc
<1>4. Only(c)
  BY <1>1, <1>2 DEF Only, Typed, uringVars, Alloc
<1>5. TypedCommand(c)'
  BY <1>1, <1>2, <1>3 DEF TypedCommand, Place, Request
<1>6. /\ holds'[c]["request"] = holds[c]["request"] + 1
      /\ holds'[c]["bio"] = holds[c]["bio"]
      /\ holds'[c]["meta"] = holds[c]["meta"]
      /\ holds'[c]["srcu"] = holds[c]["srcu"]
      /\ holds'[c]["ref"] = holds[c]["ref"]
  BY <1>1, <1>2 DEF TypedCommand, Resources, One
<1>7. CommandInv(c)'
  <2> USE <1>1, <1>3, <1>6
  <2>1. HoldInv(c)'
    BY DEF CommandInv, HoldInv, PlaceInv, Inside, Building, Flying, BufferReady, MetaReady,
       HoldsRequest, MayLeak, Uring, ToController, WithMeta, One, Resources, Request,
       TypedCommand
  <2>2. PlaceInv(c)'
    BY DEF CommandInv, PlaceInv, Flying, BufferReady, Uring, ToController, WithMeta,
       Request, TypedCommand
  <2>3. OutcomeInv(c)'
    BY DEF CommandInv, PlaceInv, OutcomeInv, Flying, Uring, Request, TypedCommand
  <2>4. PduInv(c)'
    BY DEF CommandInv, PlaceInv, PduInv, Flying, BufferReady, Uring, Request, TypedCommand
  <2>5. MetaInv(c)'
    BY DEF CommandInv, OutcomeInv, PlaceInv, MetaInv, Flying, Uring, WithMeta, Request,
       TypedCommand
  <2>6. LockInv(c)' /\ LegalInv(c)'
    BY DEF CommandInv, LockInv, LegalInv, LegalSubmitIo, LegalUring, LegalIoctl, Resources,
       Request, TypedCommand
  <2> QED
    BY <2>1, <2>2, <2>3, <2>4, <2>5, <2>6 DEF CommandInv
<1>8. Progress(c)
  BY <1>1, <1>3, <1>4 DEF Progress, Over, CommandInv, PlaceInv
<1> QED
  BY <1>4, <1>5, <1>7, <1>8, OneCommand

\* Only a command that may not wait is told to try again.
LEMMA AllocFailsKeeps ==
  ASSUME PInv, NEW c \in Cmds, AllocFails(c), UNCHANGED uringVars
  PROVE  PInv' /\ Progress(c)
<1>1. Typed /\ TypedCommand(c) /\ CommandInv(c)
  BY TypedFromPInv
<1>2. holds' = [holds EXCEPT ![c] = holds'[c]] /\ holds'[c] = holds[c]
  BY <1>1 DEF Typed, AllocFails
<1>3. /\ cmd'[c] = cmd[c] /\ rq'[c] = rq[c] /\ io'[c] = io[c] /\ pdu'[c] = pdu[c]
      /\ cookie'[c] = cookie[c] /\ ns' = ns
      /\ pc[c] = "alloc" /\ pc'[c] = "leave"
      /\ \/ out'[c] = [out[c] EXCEPT !.ret = "error"]
         \/ rq[c].nowait /\ out'[c] = [out[c] EXCEPT !.ret = "again"]
  BY <1>1 DEF Typed, TypedCommand, Request, Output, Pdu, uringVars, AllocFails, Return
<1>4. Only(c)
  BY <1>1, <1>2 DEF Only, Typed, uringVars, AllocFails, Return
<1>5. TypedCommand(c)'
  BY <1>1, <1>2, <1>3 DEF TypedCommand, Place, Output
<1>6. \A r \in Resources : holds'[c][r] = holds[c][r]
  BY <1>2
<1>7. CommandInv(c)'
  <2> USE <1>1, <1>3, <1>6
  <2>1. HoldInv(c)'
    BY DEF CommandInv, HoldInv, PlaceInv, Inside, Building, Flying, BufferReady, MetaReady,
       HoldsRequest, MayLeak, Uring, ToController, WithMeta, One, Resources, Output,
       TypedCommand
  <2>2. PlaceInv(c)'
    BY DEF CommandInv, PlaceInv, Flying, BufferReady, Uring, ToController, WithMeta,
       Output, TypedCommand
  <2>3. OutcomeInv(c)'
    BY DEF CommandInv, PlaceInv, OutcomeInv, Flying, Uring, Output, TypedCommand
  <2>4. PduInv(c)'
    BY DEF CommandInv, PlaceInv, PduInv, Flying, BufferReady, Uring, Output, TypedCommand
  <2>5. MetaInv(c)'
    BY DEF CommandInv, OutcomeInv, PlaceInv, MetaInv, Flying, Uring, WithMeta, Output,
       TypedCommand
  <2>6. LockInv(c)' /\ LegalInv(c)'
    BY DEF CommandInv, LockInv, LegalInv, LegalSubmitIo, LegalUring, LegalIoctl, Resources,
       Output, TypedCommand
  <2> QED
    BY <2>1, <2>2, <2>3, <2>4, <2>5, <2>6 DEF CommandInv
<1>8. Progress(c)
  BY <1>1, <1>3, <1>4 DEF Progress, Over, CommandInv, PlaceInv
<1> QED
  BY <1>4, <1>5, <1>7, <1>8, OneCommand

\* The buffer is mapped; the command does not combine a registered buffer and a vector.
LEMMA MapKeeps ==
  ASSUME PInv, NEW c \in Cmds, Map(c), UNCHANGED uringVars
  PROVE  PInv' /\ Progress(c)
<1>1. Typed /\ TypedCommand(c) /\ CommandInv(c)
  BY TypedFromPInv
<1>2. /\ holds' = [holds EXCEPT ![c] = holds'[c]] /\ holds'[c] \in [Resources -> Int]
      /\ \A r \in Resources : holds'[c][r] = holds[c][r] + One(r \in {"bio"})
  <2>1. {"bio"} \in SUBSET Resources
    BY DEF Resources
  <2>2. holds' = Taken(c, {"bio"})
    BY DEF Map
  <2> QED
    BY <1>1, <2>1, <2>2, TakenEffect
<1>3. /\ cmd'[c] = cmd[c] /\ io'[c] = io[c] /\ out'[c] = out[c] /\ pdu'[c] = pdu[c]
      /\ cookie'[c] = cookie[c] /\ ns' = ns
      /\ rq'[c] = [rq[c] EXCEPT !.bio = TRUE]
      /\ pc[c] = "map" /\ cmd[c].data /\ ~cmd[c].fixedVec
      /\ pc'[c] = IF WithMeta(c) THEN "meta" ELSE Mapped(c)
  BY <1>1 DEF Typed, TypedCommand, Request, Output, Pdu, uringVars, Map, Mapped
<1>4. Only(c)
  BY <1>1, <1>2 DEF Only, Typed, uringVars, Map
<1>5. TypedCommand(c)'
  BY <1>1, <1>2, <1>3 DEF TypedCommand, Place, Mapped, Request
<1>6. /\ holds'[c]["request"] = holds[c]["request"]
      /\ holds'[c]["bio"] = holds[c]["bio"] + 1
      /\ holds'[c]["meta"] = holds[c]["meta"]
      /\ holds'[c]["srcu"] = holds[c]["srcu"]
      /\ holds'[c]["ref"] = holds[c]["ref"]
  BY <1>1, <1>2 DEF TypedCommand, Resources, One
<1>7. CommandInv(c)'
  <2> USE <1>1, <1>3, <1>6
  <2>1. HoldInv(c)'
    BY DEF CommandInv, HoldInv, PlaceInv, Inside, Building, Flying, BufferReady, MetaReady,
       HoldsRequest, MayLeak, Uring, ToController, WithMeta, One, Resources, Mapped,
       Request, TypedCommand
  <2>2. PlaceInv(c)'
    BY DEF CommandInv, PlaceInv, Flying, BufferReady, Uring, ToController, WithMeta,
       Mapped, Request, TypedCommand
  <2>3. OutcomeInv(c)'
    BY DEF CommandInv, PlaceInv, OutcomeInv, Flying, Uring, Mapped, Request, TypedCommand
  <2>4. PduInv(c)'
    BY DEF CommandInv, PlaceInv, PduInv, Flying, BufferReady, Uring, Mapped, Request,
       TypedCommand
  <2>5. MetaInv(c)'
    BY DEF CommandInv, OutcomeInv, PlaceInv, MetaInv, Flying, Uring, WithMeta, Mapped,
       Request, TypedCommand
  <2>6. LockInv(c)' /\ LegalInv(c)'
    BY DEF CommandInv, LockInv, LegalInv, LegalSubmitIo, LegalUring, LegalIoctl, Resources,
       Mapped, Request, TypedCommand
  <2> QED
    BY <2>1, <2>2, <2>3, <2>4, <2>5, <2>6 DEF CommandInv
<1>8. Progress(c)
  BY <1>1, <1>3, <1>4 DEF Progress, Over, CommandInv, PlaceInv, Mapped, TypedCommand,
     Request
<1> QED
  BY <1>4, <1>5, <1>7, <1>8, OneCommand

\* A command without data goes on without a bio.
LEMMA NothingToMapKeeps ==
  ASSUME PInv, NEW c \in Cmds, NothingToMap(c), UNCHANGED uringVars
  PROVE  PInv' /\ Progress(c)
<1>1. Typed /\ TypedCommand(c) /\ CommandInv(c)
  BY TypedFromPInv
<1>2. holds' = [holds EXCEPT ![c] = holds'[c]] /\ holds'[c] = holds[c]
  BY <1>1 DEF Typed, NothingToMap
<1>3. /\ cmd'[c] = cmd[c] /\ rq'[c] = rq[c] /\ io'[c] = io[c] /\ out'[c] = out[c]
      /\ pdu'[c] = pdu[c] /\ cookie'[c] = cookie[c] /\ ns' = ns
      /\ pc[c] = "map" /\ ~cmd[c].data /\ pc'[c] = Mapped(c)
  BY <1>1 DEF Typed, TypedCommand, Request, Output, Pdu, uringVars, NothingToMap, Mapped
<1>4. Only(c)
  BY <1>1, <1>2 DEF Only, Typed, uringVars, NothingToMap
<1>5. TypedCommand(c)'
  BY <1>1, <1>2, <1>3 DEF TypedCommand, Place, Mapped
<1>6. \A r \in Resources : holds'[c][r] = holds[c][r]
  BY <1>2
<1>7. CommandInv(c)'
  <2> USE <1>1, <1>3, <1>6
  <2>1. HoldInv(c)'
    BY DEF CommandInv, HoldInv, PlaceInv, Inside, Building, Flying, BufferReady, MetaReady,
       HoldsRequest, MayLeak, Uring, ToController, WithMeta, One, Resources, Mapped,
       Request, TypedCommand
  <2>2. PlaceInv(c)'
    BY DEF CommandInv, PlaceInv, Flying, BufferReady, Uring, ToController, WithMeta,
       Mapped, Request, TypedCommand
  <2>3. OutcomeInv(c)'
    BY DEF CommandInv, PlaceInv, OutcomeInv, Flying, Uring, Mapped, Request, TypedCommand
  <2>4. PduInv(c)'
    BY DEF CommandInv, PlaceInv, PduInv, Flying, BufferReady, Uring, Mapped, Request,
       TypedCommand
  <2>5. MetaInv(c)'
    BY DEF CommandInv, OutcomeInv, PlaceInv, MetaInv, Flying, Uring, WithMeta, Mapped,
       Request, TypedCommand
  <2>6. LockInv(c)' /\ LegalInv(c)'
    BY DEF CommandInv, LockInv, LegalInv, LegalSubmitIo, LegalUring, LegalIoctl, Resources,
       Mapped, Request, TypedCommand
  <2> QED
    BY <2>1, <2>2, <2>3, <2>4, <2>5, <2>6 DEF CommandInv
<1>8. Progress(c)
  BY <1>1, <1>3, <1>4 DEF Progress, Over, CommandInv, PlaceInv, Mapped
<1> QED
  BY <1>4, <1>5, <1>7, <1>8, OneCommand

\* The request is freed, unless a registered buffer came with a vector.
LEMMA MapFailsKeeps ==
  ASSUME PInv, NEW c \in Cmds, MapFails(c), UNCHANGED uringVars
  PROVE  PInv' /\ Progress(c)
<1>1. Typed /\ TypedCommand(c) /\ CommandInv(c)
  BY TypedFromPInv
<1>2. /\ holds' = [holds EXCEPT ![c] = holds'[c]] /\ holds'[c] \in [Resources -> Int]
      /\ \A r \in Resources :
           holds'[c][r] = holds[c][r] - One(r = "request" /\ ~cmd[c].fixedVec)
  <2>1. CASE cmd[c].fixedVec
    BY <1>1, <2>1 DEF Typed, MapFails, One
  <2>2. CASE ~cmd[c].fixedVec
    <3>1. {"request"} \in SUBSET Resources
      BY DEF Resources
    <3>2. holds' = Given(c, {"request"})
      BY <2>2 DEF MapFails
    <3> QED
      BY <1>1, <2>2, <3>1, <3>2, GivenEffect DEF One
  <2> QED
    BY <2>1, <2>2
<1>3. /\ cmd'[c] = cmd[c] /\ rq'[c] = rq[c] /\ io'[c] = io[c] /\ pdu'[c] = pdu[c]
      /\ cookie'[c] = cookie[c] /\ ns' = ns
      /\ pc[c] = "map" /\ cmd[c].data /\ pc'[c] = "leave"
      /\ out'[c] = [out[c] EXCEPT !.ret = "error"]
  BY <1>1 DEF Typed, TypedCommand, Request, Output, Pdu, uringVars, MapFails, Return
<1>4. Only(c)
  BY <1>1, <1>2 DEF Only, Typed, uringVars, MapFails, Return
<1>5. TypedCommand(c)'
  BY <1>1, <1>2, <1>3 DEF TypedCommand, Place, Output
<1>6. /\ holds'[c]["request"] = holds[c]["request"] - One(~cmd[c].fixedVec)
      /\ holds'[c]["bio"] = holds[c]["bio"]
      /\ holds'[c]["meta"] = holds[c]["meta"]
      /\ holds'[c]["srcu"] = holds[c]["srcu"]
      /\ holds'[c]["ref"] = holds[c]["ref"]
  BY <1>1, <1>2 DEF TypedCommand, Resources, One
<1>7. CommandInv(c)'
  <2> USE <1>1, <1>3, <1>6
  <2>1. HoldInv(c)'
    BY DEF CommandInv, HoldInv, PlaceInv, Inside, Building, Flying, BufferReady, MetaReady,
       HoldsRequest, MayLeak, Uring, ToController, WithMeta, One, Resources, Output,
       TypedCommand
  <2>2. PlaceInv(c)'
    BY DEF CommandInv, PlaceInv, Flying, BufferReady, Uring, ToController, WithMeta,
       Output, TypedCommand
  <2>3. OutcomeInv(c)'
    BY DEF CommandInv, PlaceInv, OutcomeInv, Flying, Uring, Output, TypedCommand
  <2>4. PduInv(c)'
    BY DEF CommandInv, PlaceInv, PduInv, Flying, BufferReady, Uring, Output, TypedCommand
  <2>5. MetaInv(c)'
    BY DEF CommandInv, OutcomeInv, PlaceInv, MetaInv, Flying, Uring, WithMeta, Output,
       TypedCommand
  <2>6. LockInv(c)' /\ LegalInv(c)'
    BY DEF CommandInv, LockInv, LegalInv, LegalSubmitIo, LegalUring, LegalIoctl, Resources,
       Output, TypedCommand
  <2> QED
    BY <2>1, <2>2, <2>3, <2>4, <2>5, <2>6 DEF CommandInv
<1>8. Progress(c)
  BY <1>1, <1>3, <1>4 DEF Progress, Over, CommandInv, PlaceInv
<1> QED
  BY <1>4, <1>5, <1>7, <1>8, OneCommand

\* The metadata is attached.
LEMMA AddMetadataKeeps ==
  ASSUME PInv, NEW c \in Cmds, AddMetadata(c), UNCHANGED uringVars
  PROVE  PInv' /\ Progress(c)
<1>1. Typed /\ TypedCommand(c) /\ CommandInv(c)
  BY TypedFromPInv
<1>2. /\ holds' = [holds EXCEPT ![c] = holds'[c]] /\ holds'[c] \in [Resources -> Int]
      /\ \A r \in Resources : holds'[c][r] = holds[c][r] + One(r \in {"meta"})
  <2>1. {"meta"} \in SUBSET Resources
    BY DEF Resources
  <2>2. holds' = Taken(c, {"meta"})
    BY DEF AddMetadata
  <2> QED
    BY <1>1, <2>1, <2>2, TakenEffect
<1>3. /\ cmd'[c] = cmd[c] /\ rq'[c] = rq[c] /\ io'[c] = io[c] /\ out'[c] = out[c]
      /\ pdu'[c] = pdu[c] /\ cookie'[c] = cookie[c] /\ ns' = ns
      /\ pc[c] = "meta" /\ pc'[c] = Mapped(c)
  BY <1>1 DEF Typed, TypedCommand, Request, Output, Pdu, uringVars, AddMetadata, Mapped
<1>4. Only(c)
  BY <1>1, <1>2 DEF Only, Typed, uringVars, AddMetadata
<1>5. TypedCommand(c)'
  BY <1>1, <1>2, <1>3 DEF TypedCommand, Place, Mapped
<1>6. /\ holds'[c]["request"] = holds[c]["request"]
      /\ holds'[c]["bio"] = holds[c]["bio"]
      /\ holds'[c]["meta"] = holds[c]["meta"] + 1
      /\ holds'[c]["srcu"] = holds[c]["srcu"]
      /\ holds'[c]["ref"] = holds[c]["ref"]
  BY <1>1, <1>2 DEF TypedCommand, Resources, One
<1>7. CommandInv(c)'
  <2> USE <1>1, <1>3, <1>6
  <2>1. HoldInv(c)'
    BY DEF CommandInv, HoldInv, PlaceInv, Inside, Building, Flying, BufferReady, MetaReady,
       HoldsRequest, MayLeak, Uring, ToController, WithMeta, One, Resources, Mapped
  <2>2. PlaceInv(c)'
    BY DEF CommandInv, PlaceInv, Flying, BufferReady, Uring, ToController, WithMeta, Mapped
  <2>3. OutcomeInv(c)'
    BY DEF CommandInv, PlaceInv, OutcomeInv, Flying, Uring, Mapped
  <2>4. PduInv(c)'
    BY DEF CommandInv, PlaceInv, PduInv, Flying, BufferReady, Uring, Mapped
  <2>5. MetaInv(c)'
    BY DEF CommandInv, OutcomeInv, PlaceInv, MetaInv, Flying, Uring, WithMeta, Mapped
  <2>6. LockInv(c)' /\ LegalInv(c)'
    BY DEF CommandInv, LockInv, LegalInv, LegalSubmitIo, LegalUring, LegalIoctl, Resources,
       Mapped
  <2> QED
    BY <2>1, <2>2, <2>3, <2>4, <2>5, <2>6 DEF CommandInv
<1>8. Progress(c)
  BY <1>1, <1>3, <1>4 DEF Progress, Over, CommandInv, PlaceInv, Mapped
<1> QED
  BY <1>4, <1>5, <1>7, <1>8, OneCommand

\* The buffer is unmapped and the request freed.
LEMMA MetadataFailsKeeps ==
  ASSUME PInv, NEW c \in Cmds, MetadataFails(c), UNCHANGED uringVars
  PROVE  PInv' /\ Progress(c)
<1>1. Typed /\ TypedCommand(c) /\ CommandInv(c)
  BY TypedFromPInv
<1>2. /\ holds' = [holds EXCEPT ![c] = holds'[c]] /\ holds'[c] \in [Resources -> Int]
      /\ \A r \in Resources : holds'[c][r] = holds[c][r] - One(r \in {"bio", "request"})
  <2>1. {"bio", "request"} \in SUBSET Resources
    BY DEF Resources
  <2>2. holds' = Given(c, {"bio", "request"})
    BY DEF MetadataFails
  <2> QED
    BY <1>1, <2>1, <2>2, GivenEffect
<1>3. /\ cmd'[c] = cmd[c] /\ rq'[c] = rq[c] /\ io'[c] = io[c] /\ pdu'[c] = pdu[c]
      /\ cookie'[c] = cookie[c] /\ ns' = ns
      /\ pc[c] = "meta" /\ pc'[c] = "leave"
      /\ out'[c] = [out[c] EXCEPT !.ret = "error"]
  BY <1>1 DEF Typed, TypedCommand, Request, Output, Pdu, uringVars, MetadataFails, Return
<1>4. Only(c)
  BY <1>1, <1>2 DEF Only, Typed, uringVars, MetadataFails, Return
<1>5. TypedCommand(c)'
  BY <1>1, <1>2, <1>3 DEF TypedCommand, Place, Output
<1>6. /\ holds'[c]["request"] = holds[c]["request"] - 1
      /\ holds'[c]["bio"] = holds[c]["bio"] - 1
      /\ holds'[c]["meta"] = holds[c]["meta"]
      /\ holds'[c]["srcu"] = holds[c]["srcu"]
      /\ holds'[c]["ref"] = holds[c]["ref"]
  BY <1>1, <1>2 DEF TypedCommand, Resources, One
<1>7. CommandInv(c)'
  <2> USE <1>1, <1>3, <1>6
  <2>1. HoldInv(c)'
    BY DEF CommandInv, HoldInv, PlaceInv, Inside, Building, Flying, BufferReady, MetaReady,
       HoldsRequest, MayLeak, Uring, ToController, WithMeta, One, Resources, Output,
       TypedCommand
  <2>2. PlaceInv(c)'
    BY DEF CommandInv, PlaceInv, Flying, BufferReady, Uring, ToController, WithMeta,
       Output, TypedCommand
  <2>3. OutcomeInv(c)'
    BY DEF CommandInv, PlaceInv, OutcomeInv, Flying, Uring, Output, TypedCommand
  <2>4. PduInv(c)'
    BY DEF CommandInv, PlaceInv, PduInv, Flying, BufferReady, Uring, Output, TypedCommand
  <2>5. MetaInv(c)'
    BY DEF CommandInv, OutcomeInv, PlaceInv, MetaInv, Flying, Uring, WithMeta, Output,
       TypedCommand
  <2>6. LockInv(c)' /\ LegalInv(c)'
    BY DEF CommandInv, LockInv, LegalInv, LegalSubmitIo, LegalUring, LegalIoctl, Resources,
       Output, TypedCommand
  <2> QED
    BY <2>1, <2>2, <2>3, <2>4, <2>5, <2>6 DEF CommandInv
<1>8. Progress(c)
  BY <1>1, <1>3, <1>4 DEF Progress, Over, CommandInv, PlaceInv
<1> QED
  BY <1>4, <1>5, <1>7, <1>8, OneCommand

-----------------------------------------------------------------------------
(* The synchronous ioctls                                                  *)

\* The device gets what was prepared.
LEMMA ExecuteSyncKeeps ==
  ASSUME PInv, NEW c \in Cmds, ExecuteSync(c), UNCHANGED uringVars
  PROVE  PInv' /\ Progress(c)
<1>1. Typed /\ TypedCommand(c) /\ CommandInv(c)
  BY TypedFromPInv
<1>2. holds' = [holds EXCEPT ![c] = holds'[c]] /\ holds'[c] = holds[c]
  BY <1>1 DEF Typed, ExecuteSync
<1>3. /\ cmd'[c] = cmd[c] /\ rq'[c] = rq[c] /\ out'[c] = out[c] /\ pdu'[c] = pdu[c]
      /\ cookie'[c] = cookie[c] /\ ns' = ns
      /\ pc[c] = "execute" /\ ~Uring(c)
      /\ pc'[c] = "wait" /\ io'[c] = "device"
  BY <1>1 DEF Typed, TypedCommand, Request, Output, Pdu, uringVars, ExecuteSync
<1>4. Only(c)
  BY <1>1, <1>2 DEF Only, Typed, uringVars, ExecuteSync
<1>5. TypedCommand(c)'
  BY <1>1, <1>2, <1>3 DEF TypedCommand, Place, Way
<1>6. \A r \in Resources : holds'[c][r] = holds[c][r]
  BY <1>2
<1>7. CommandInv(c)'
  <2> USE <1>1, <1>3, <1>6
  <2>1. HoldInv(c)'
    BY DEF CommandInv, HoldInv, PlaceInv, Inside, Building, Flying, BufferReady, MetaReady,
       HoldsRequest, MayLeak, Uring, ToController, WithMeta, One, Resources
  <2>2. PlaceInv(c)'
    BY DEF CommandInv, PlaceInv, Flying, BufferReady, Uring, ToController, WithMeta
  <2>3. OutcomeInv(c)'
    BY DEF CommandInv, PlaceInv, OutcomeInv, Flying, Uring
  <2>4. PduInv(c)'
    BY DEF CommandInv, PlaceInv, PduInv, Flying, BufferReady, Uring
  <2>5. MetaInv(c)'
    BY DEF CommandInv, OutcomeInv, PlaceInv, MetaInv, Flying, Uring, WithMeta
  <2>6. LockInv(c)' /\ LegalInv(c)'
    BY DEF CommandInv, LockInv, LegalInv, LegalSubmitIo, LegalUring, LegalIoctl, Resources
  <2> QED
    BY <2>1, <2>2, <2>3, <2>4, <2>5, <2>6 DEF CommandInv
<1>8. Progress(c)
  BY <1>1, <1>3, <1>4 DEF Progress, Over, CommandInv, PlaceInv
<1> QED
  BY <1>4, <1>5, <1>7, <1>8, OneCommand

\* The outcome is kept in the request.
LEMMA CompleteSyncKeeps ==
  ASSUME PInv, NEW c \in Cmds, CompleteSync(c), UNCHANGED uringVars
  PROVE  PInv' /\ Progress(c)
<1>1. Typed /\ TypedCommand(c) /\ CommandInv(c)
  BY TypedFromPInv
<1>2. holds' = [holds EXCEPT ![c] = holds'[c]] /\ holds'[c] = holds[c]
  BY <1>1 DEF Typed, CompleteSync
<1>3. /\ cmd'[c] = cmd[c] /\ pc'[c] = pc[c] /\ out'[c] = out[c] /\ pdu'[c] = pdu[c]
      /\ cookie'[c] = cookie[c] /\ ns' = ns
      /\ io[c] = "device" /\ ~Uring(c) /\ io'[c] = "completed"
      /\ rq'[c] = [rq[c] EXCEPT !.ran = rq'[c].ran] /\ rq'[c].ran \in Outcomes
  BY <1>1 DEF Typed, TypedCommand, Request, Output, Pdu, uringVars, CompleteSync
<1>4. Only(c)
  BY <1>1, <1>2 DEF Only, Typed, uringVars, CompleteSync
<1>5. TypedCommand(c)'
  BY <1>1, <1>2, <1>3 DEF TypedCommand, Place, Request, Way
<1>6. \A r \in Resources : holds'[c][r] = holds[c][r]
  BY <1>2
<1>7. CommandInv(c)'
  <2> USE <1>1, <1>3, <1>6
  <2>1. HoldInv(c)'
    BY DEF CommandInv, HoldInv, PlaceInv, Inside, Building, Flying, BufferReady, MetaReady,
       HoldsRequest, MayLeak, Uring, ToController, WithMeta, One, Resources, Request,
       TypedCommand
  <2>2. PlaceInv(c)'
    BY DEF CommandInv, PlaceInv, Flying, BufferReady, Uring, ToController, WithMeta,
       Request, TypedCommand
  <2>3. OutcomeInv(c)'
    BY DEF CommandInv, PlaceInv, OutcomeInv, Flying, Uring, Request, TypedCommand
  <2>4. PduInv(c)'
    BY DEF CommandInv, PlaceInv, PduInv, Flying, BufferReady, Uring, Request, TypedCommand
  <2>5. MetaInv(c)'
    BY DEF CommandInv, OutcomeInv, PlaceInv, MetaInv, Flying, Uring, WithMeta, Request,
       TypedCommand
  <2>6. LockInv(c)' /\ LegalInv(c)'
    BY DEF CommandInv, LockInv, LegalInv, LegalSubmitIo, LegalUring, LegalIoctl, Resources,
       Request, TypedCommand
  <2> QED
    BY <2>1, <2>2, <2>3, <2>4, <2>5, <2>6 DEF CommandInv
<1>8. Progress(c)
  BY <1>1, <1>3, <1>4 DEF Progress, Over, CommandInv, PlaceInv
<1> QED
  BY <1>4, <1>5, <1>7, <1>8, OneCommand

\* Everything but the lock or the reference of the entry point is given back.
LEMMA FinishSyncKeeps ==
  ASSUME PInv, NEW c \in Cmds, FinishSync(c), UNCHANGED uringVars
  PROVE  PInv' /\ Progress(c)
<1>1. Typed /\ TypedCommand(c) /\ CommandInv(c)
  BY TypedFromPInv
<1>2. /\ holds' = [holds EXCEPT ![c] = holds'[c]] /\ holds'[c] \in [Resources -> Int]
      /\ \A r \in Resources : holds'[c][r] = holds[c][r] - One(r \in {"request"} \union If(rq[c].bio, "bio")
                        \union If(holds[c]["meta"] = 1, "meta"))
  <2>1. {"request"} \union If(rq[c].bio, "bio")
                        \union If(holds[c]["meta"] = 1, "meta") \in SUBSET Resources
    BY DEF Resources, If
  <2>2. holds' = Given(c, {"request"} \union If(rq[c].bio, "bio")
                        \union If(holds[c]["meta"] = 1, "meta"))
    BY DEF FinishSync
  <2> QED
    BY <1>1, <2>1, <2>2, GivenEffect
<1>3. /\ cmd'[c] = cmd[c] /\ rq'[c] = rq[c] /\ pdu'[c] = pdu[c]
      /\ cookie'[c] = cookie[c] /\ ns' = ns
      /\ pc[c] = "wait" /\ io[c] = "completed" /\ pc'[c] = "end" /\ io'[c] = "none"
      /\ out'[c] = [out[c] EXCEPT !.ret = out'[c].ret, !.meta = out'[c].meta]
      /\ out'[c].ret \in {rq[c].ran, "error"} /\ out'[c].meta \in BOOLEAN
      /\ out'[c].ret = "ok" /\ cmd[c].dir = "READ" /\ holds[c]["meta"] = 1 => out'[c].meta
  <2>1. PICK m \in IF holds[c]["meta"] = 1 THEN Metadata(c, FALSE) ELSE {<<rq[c].ran, FALSE>>} :
          out' = [out EXCEPT ![c].ret = m[1], ![c].meta = m[2]]
    BY DEF FinishSync
  <2>2. /\ m[1] \in {rq[c].ran, "error"} /\ m[2] \in BOOLEAN
        /\ m[1] = "ok" /\ cmd[c].dir = "READ" /\ holds[c]["meta"] = 1 => m[2]
    <3>1. CASE holds[c]["meta"] = 1
      BY <2>1, <3>1, MetadataOutcome
    <3>2. CASE holds[c]["meta"] # 1
      <4>1. m = <<rq[c].ran, FALSE>>
        BY <3>2
      <4>2. m[1] = rq[c].ran /\ m[2] = FALSE
        BY <4>1
      <4> QED
        BY <3>2, <4>2
    <3> QED
      BY <3>1, <3>2
  <2>3. out'[c] = [out[c] EXCEPT !.ret = m[1], !.meta = m[2]]
    BY <1>1, <2>1 DEF Typed
  <2>4. out'[c].ret = m[1] /\ out'[c].meta = m[2]
    BY <1>1, <2>3 DEF TypedCommand, Output
  <2> QED
    BY <1>1, <2>2, <2>3, <2>4 DEF Typed, FinishSync, uringVars
<1>4. Only(c)
  BY <1>1, <1>2 DEF Only, Typed, uringVars, FinishSync
<1>5. TypedCommand(c)'
  BY <1>1, <1>2, <1>3 DEF TypedCommand, Place, Output, Request, Way
<1>6. /\ holds'[c]["request"] = holds[c]["request"] - 1
      /\ holds'[c]["bio"] = holds[c]["bio"] - One(rq[c].bio)
      /\ holds'[c]["meta"] = holds[c]["meta"] - One(holds[c]["meta"] = 1)
      /\ holds'[c]["srcu"] = holds[c]["srcu"]
      /\ holds'[c]["ref"] = holds[c]["ref"]
  BY <1>1, <1>2 DEF TypedCommand, Resources, One, If
<1>7. CommandInv(c)'
  <2> USE <1>1, <1>3, <1>6
  <2>1. HoldInv(c)'
    BY DEF CommandInv, HoldInv, PlaceInv, Inside, Building, Flying, BufferReady, MetaReady,
       HoldsRequest, MayLeak, Uring, ToController, WithMeta, One, Resources, Output,
       TypedCommand, Request
  <2>2. PlaceInv(c)'
    BY DEF CommandInv, PlaceInv, Flying, BufferReady, Uring, ToController, WithMeta,
       Output, TypedCommand, Request
  <2>3. OutcomeInv(c)'
    BY DEF CommandInv, PlaceInv, OutcomeInv, Flying, Uring, Output, TypedCommand, Request
  <2>4. PduInv(c)'
    BY DEF CommandInv, PlaceInv, PduInv, Flying, BufferReady, Uring, Output, TypedCommand,
       Request
  <2>5. MetaInv(c)'
    BY DEF CommandInv, OutcomeInv, PlaceInv, MetaInv, Flying, Uring, WithMeta, HoldInv,
       MetaReady, One, Output, TypedCommand, Request
  <2>6. LockInv(c)' /\ LegalInv(c)'
    BY DEF CommandInv, LockInv, LegalInv, LegalSubmitIo, LegalUring, LegalIoctl, Resources,
       Output, TypedCommand, Request
  <2> QED
    BY <2>1, <2>2, <2>3, <2>4, <2>5, <2>6 DEF CommandInv
<1>8. Progress(c)
  BY <1>1, <1>3, <1>4 DEF Progress, Over, CommandInv, PlaceInv
<1> QED
  BY <1>4, <1>5, <1>7, <1>8, OneCommand

\* At worst the result cannot be stored.
LEMMA EndSyncKeeps ==
  ASSUME PInv, NEW c \in Cmds, EndSync(c), UNCHANGED uringVars
  PROVE  PInv' /\ Progress(c)
<1>1. Typed /\ TypedCommand(c) /\ CommandInv(c)
  BY TypedFromPInv
<1>2. holds' = [holds EXCEPT ![c] = holds'[c]] /\ holds'[c] = holds[c]
  BY <1>1 DEF Typed, EndSync
<1>3. /\ cmd'[c] = cmd[c] /\ rq'[c] = rq[c] /\ io'[c] = io[c] /\ pdu'[c] = pdu[c]
      /\ cookie'[c] = cookie[c] /\ ns' = ns
      /\ pc[c] = "end" /\ pc'[c] = "leave"
      /\ out'[c] = [out[c] EXCEPT !.ret = out'[c].ret] /\ out'[c].ret \in {out[c].ret, "error"}
  <2>1. /\ cmd'[c] = cmd[c] /\ rq'[c] = rq[c] /\ io'[c] = io[c] /\ pdu'[c] = pdu[c]
        /\ cookie'[c] = cookie[c] /\ ns' = ns
    BY DEF uringVars, EndSync
  <2>2. pc[c] = "end" /\ pc'[c] = "leave"
    BY <1>1 DEF Typed, EndSync, Return
  <2>3. PICK ret \in {out[c].ret, "error"} : out' = [out EXCEPT ![c].ret = ret]
    BY DEF EndSync, Return
  <2>4. out'[c] = [out[c] EXCEPT !.ret = ret]
    BY <1>1, <2>3 DEF Typed
  <2>5. out'[c].ret = ret
    BY <1>1, <2>4 DEF TypedCommand, Output
  <2> QED
    BY <2>1, <2>2, <2>4, <2>5
<1>4. Only(c)
  BY <1>1, <1>2 DEF Only, Typed, uringVars, EndSync, Return
<1>5. TypedCommand(c)'
  BY <1>1, <1>2, <1>3 DEF TypedCommand, Place, Output
<1>6. \A r \in Resources : holds'[c][r] = holds[c][r]
  BY <1>2
<1>7. CommandInv(c)'
  <2> USE <1>1, <1>3, <1>6
  <2>1. HoldInv(c)'
    BY DEF CommandInv, HoldInv, PlaceInv, Inside, Building, Flying, BufferReady, MetaReady,
       HoldsRequest, MayLeak, Uring, ToController, WithMeta, One, Resources, Output,
       TypedCommand
  <2>2. PlaceInv(c)'
    BY DEF CommandInv, PlaceInv, Flying, BufferReady, Uring, ToController, WithMeta,
       Output, TypedCommand
  <2>3. OutcomeInv(c)'
    BY DEF CommandInv, PlaceInv, OutcomeInv, Flying, Uring, Output, TypedCommand
  <2>4. PduInv(c)'
    BY DEF CommandInv, PlaceInv, PduInv, Flying, BufferReady, Uring, Output, TypedCommand
  <2>5. MetaInv(c)'
    BY DEF CommandInv, OutcomeInv, PlaceInv, MetaInv, Flying, Uring, WithMeta, Output,
       TypedCommand
  <2>6. LockInv(c)' /\ LegalInv(c)'
    BY DEF CommandInv, LockInv, LegalInv, LegalSubmitIo, LegalUring, LegalIoctl, Resources,
       Output, TypedCommand
  <2> QED
    BY <2>1, <2>2, <2>3, <2>4, <2>5, <2>6 DEF CommandInv
<1>8. Progress(c)
  BY <1>1, <1>3, <1>4 DEF Progress, Over, CommandInv, PlaceInv
<1> QED
  BY <1>4, <1>5, <1>7, <1>8, OneCommand

\* The lock or the reference is dropped.
LEMMA LeaveSyncKeeps ==
  ASSUME PInv, NEW c \in Cmds, LeaveSync(c), UNCHANGED uringVars
  PROVE  PInv' /\ Progress(c)
<1>1. Typed /\ TypedCommand(c) /\ CommandInv(c)
  BY TypedFromPInv
<1>2. /\ holds' = [holds EXCEPT ![c] = holds'[c]] /\ holds'[c] \in [Resources -> Int]
      /\ \A r \in Resources : holds'[c][r] = holds[c][r] - One(r \in EntryHolds(c))
  <2>1. EntryHolds(c) \in SUBSET Resources
    BY EntryHoldsWhat
  <2>2. holds' = Given(c, EntryHolds(c))
    BY DEF LeaveSync
  <2> QED
    BY <1>1, <2>1, <2>2, GivenEffect
<1>3. /\ cmd'[c] = cmd[c] /\ rq'[c] = rq[c] /\ io'[c] = io[c] /\ out'[c] = out[c]
      /\ pdu'[c] = pdu[c] /\ cookie'[c] = cookie[c] /\ ns' = ns
      /\ pc[c] = "leave" /\ ~Uring(c) /\ pc'[c] = "over"
  BY <1>1 DEF Typed, TypedCommand, Request, Output, Pdu, uringVars, LeaveSync
<1>4. Only(c)
  BY <1>1, <1>2 DEF Only, Typed, uringVars, LeaveSync
<1>5. TypedCommand(c)'
  BY <1>1, <1>2, <1>3 DEF TypedCommand, Place
<1>6. /\ holds'[c]["request"] = holds[c]["request"]
      /\ holds'[c]["bio"] = holds[c]["bio"]
      /\ holds'[c]["meta"] = holds[c]["meta"]
      /\ holds'[c]["srcu"] = holds[c]["srcu"] - One(cmd[c].node = "head" /\ ~ToController(c))
      /\ holds'[c]["ref"] = holds[c]["ref"] - One(ToController(c) \/ cmd[c].node = "dev")
  BY <1>1, <1>2, EntryHoldsWhat DEF TypedCommand, Resources, One
<1>7. CommandInv(c)'
  <2> USE <1>1, <1>3, <1>6
  <2>1. HoldInv(c)'
    BY DEF CommandInv, HoldInv, PlaceInv, Inside, Building, Flying, BufferReady, MetaReady,
       HoldsRequest, MayLeak, Uring, ToController, WithMeta, One, Resources
  <2>2. PlaceInv(c)'
    BY DEF CommandInv, PlaceInv, Flying, BufferReady, Uring, ToController, WithMeta
  <2>3. OutcomeInv(c)'
    BY DEF CommandInv, PlaceInv, OutcomeInv, Flying, Uring
  <2>4. PduInv(c)'
    BY DEF CommandInv, PlaceInv, PduInv, Flying, BufferReady, Uring
  <2>5. MetaInv(c)'
    BY DEF CommandInv, OutcomeInv, PlaceInv, MetaInv, Flying, Uring, WithMeta
  <2>6. LockInv(c)' /\ LegalInv(c)'
    BY DEF CommandInv, LockInv, LegalInv, LegalSubmitIo, LegalUring, LegalIoctl, Resources,
       HoldInv, Inside, One
  <2> QED
    BY <2>1, <2>2, <2>3, <2>4, <2>5, <2>6 DEF CommandInv
<1>8. Progress(c)
  BY <1>1, <1>3, <1>4 DEF Progress, Over, CommandInv, PlaceInv
<1> QED
  BY <1>4, <1>5, <1>7, <1>8, OneCommand

-----------------------------------------------------------------------------
(* The io_uring commands                                                   *)

\* The request is freed before another is allocated.
LEMMA RetryUnpolledKeeps ==
  ASSUME PInv, NEW c \in Cmds, RetryUnpolled(c)
  PROVE  PInv' /\ Progress(c)
<1>1. Typed /\ TypedCommand(c) /\ CommandInv(c)
  BY TypedFromPInv
<1>2. /\ holds' = [holds EXCEPT ![c] = holds'[c]] /\ holds'[c] \in [Resources -> Int]
      /\ \A r \in Resources : holds'[c][r] = holds[c][r] - One(r \in {"request"})
  <2>1. {"request"} \in SUBSET Resources
    BY DEF Resources
  <2>2. holds' = Given(c, {"request"})
    BY DEF RetryUnpolled
  <2> QED
    BY <1>1, <2>1, <2>2, GivenEffect
<1>3. /\ cmd'[c] = cmd[c] /\ io'[c] = io[c] /\ out'[c] = out[c] /\ pdu'[c] = pdu[c]
      /\ cookie'[c] = cookie[c] /\ ns' = ns
      /\ pc[c] = "prepare" /\ ~rq[c].bio /\ pc'[c] = "alloc"
      /\ rq'[c] = [rq[c] EXCEPT !.polled = FALSE]
  BY <1>1 DEF Typed, TypedCommand, Request, Output, Pdu, uringVars, RetryUnpolled
<1>4. Only(c)
  BY <1>1, <1>2 DEF Only, Typed, uringVars, RetryUnpolled
<1>5. TypedCommand(c)'
  BY <1>1, <1>2, <1>3 DEF TypedCommand, Place, Request
<1>6. /\ holds'[c]["request"] = holds[c]["request"] - 1
      /\ holds'[c]["bio"] = holds[c]["bio"]
      /\ holds'[c]["meta"] = holds[c]["meta"]
      /\ holds'[c]["srcu"] = holds[c]["srcu"]
      /\ holds'[c]["ref"] = holds[c]["ref"]
  BY <1>1, <1>2 DEF TypedCommand, Resources, One
<1>7. CommandInv(c)'
  <2> USE <1>1, <1>3, <1>6
  <2>1. HoldInv(c)'
    BY DEF CommandInv, HoldInv, PlaceInv, Inside, Building, Flying, BufferReady, MetaReady,
       HoldsRequest, MayLeak, Uring, ToController, WithMeta, One, Resources, Request,
       TypedCommand
  <2>2. PlaceInv(c)'
    BY DEF CommandInv, PlaceInv, Flying, BufferReady, Uring, ToController, WithMeta,
       Request, TypedCommand
  <2>3. OutcomeInv(c)'
    BY DEF CommandInv, PlaceInv, OutcomeInv, Flying, Uring, Request, TypedCommand
  <2>4. PduInv(c)'
    BY DEF CommandInv, PlaceInv, PduInv, Flying, BufferReady, Uring, Request, TypedCommand
  <2>5. MetaInv(c)'
    BY DEF CommandInv, OutcomeInv, PlaceInv, MetaInv, Flying, Uring, WithMeta, Request,
       TypedCommand
  <2>6. LockInv(c)' /\ LegalInv(c)'
    BY DEF CommandInv, LockInv, LegalInv, LegalSubmitIo, LegalUring, LegalIoctl, Resources,
       Request, TypedCommand
  <2> QED
    BY <2>1, <2>2, <2>3, <2>4, <2>5, <2>6 DEF CommandInv
<1>8. Progress(c)
  BY <1>1, <1>3, <1>4 DEF Progress, Over, CommandInv, PlaceInv
<1> QED
  BY <1>4, <1>5, <1>7, <1>8, OneCommand

\* The pdu holds the bio and what becomes of the metadata.
LEMMA PrepareKeeps ==
  ASSUME PInv, NEW c \in Cmds, Prepare(c)
  PROVE  PInv' /\ Progress(c)
<1>1. Typed /\ TypedCommand(c) /\ CommandInv(c)
  BY TypedFromPInv
<1>2. holds' = [holds EXCEPT ![c] = holds'[c]] /\ holds'[c] = holds[c]
  BY <1>1 DEF Typed, Prepare
<1>3. /\ cmd'[c] = cmd[c] /\ rq'[c] = rq[c] /\ io'[c] = io[c] /\ out'[c] = out[c]
      /\ ns' = ns
      /\ pc[c] = "prepare" /\ pc'[c] = "execute" /\ cookie'[c] \in BOOLEAN
      /\ pdu'[c] = [ptr |-> IF rq[c].bio THEN "bio" ELSE "null",
                    u |-> IF cmd[c].metaLen THEN "meta" ELSE "none", status |-> "none"]
  BY <1>1 DEF Typed, TypedCommand, Request, Output, Pdu, uringVars, Prepare
<1>4. Only(c)
  BY <1>1, <1>2 DEF Only, Typed, uringVars, Prepare
<1>5. TypedCommand(c)'
  BY <1>1, <1>2, <1>3 DEF TypedCommand, Place, Pdu
<1>6. \A r \in Resources : holds'[c][r] = holds[c][r]
  BY <1>2
<1>7. CommandInv(c)'
  <2> USE <1>1, <1>3, <1>6
  <2>1. HoldInv(c)'
    BY DEF CommandInv, HoldInv, PlaceInv, Inside, Building, Flying, BufferReady, MetaReady,
       HoldsRequest, MayLeak, Uring, ToController, WithMeta, One, Resources
  <2>2. PlaceInv(c)'
    BY DEF CommandInv, PlaceInv, Flying, BufferReady, Uring, ToController, WithMeta
  <2>3. OutcomeInv(c)'
    BY DEF CommandInv, PlaceInv, OutcomeInv, Flying, Uring
  <2>4. PduInv(c)'
    BY DEF CommandInv, PlaceInv, PduInv, Flying, BufferReady, Uring
  <2>5. MetaInv(c)'
    BY DEF CommandInv, OutcomeInv, PlaceInv, MetaInv, Flying, Uring, WithMeta
  <2>6. LockInv(c)' /\ LegalInv(c)'
    BY DEF CommandInv, LockInv, LegalInv, LegalSubmitIo, LegalUring, LegalIoctl, Resources
  <2> QED
    BY <2>1, <2>2, <2>3, <2>4, <2>5, <2>6 DEF CommandInv
<1>8. Progress(c)
  BY <1>1, <1>3, <1>4 DEF Progress, Over, CommandInv, PlaceInv
<1> QED
  BY <1>4, <1>5, <1>7, <1>8, OneCommand

\* The device gets what was prepared, and the call returns.
LEMMA ExecuteNowaitKeeps ==
  ASSUME PInv, NEW c \in Cmds, ExecuteNowait(c)
  PROVE  PInv' /\ Progress(c)
<1>1. Typed /\ TypedCommand(c) /\ CommandInv(c)
  BY TypedFromPInv
<1>2. holds' = [holds EXCEPT ![c] = holds'[c]] /\ holds'[c] = holds[c]
  BY <1>1 DEF Typed, ExecuteNowait
<1>3. /\ cmd'[c] = cmd[c] /\ rq'[c] = rq[c] /\ pdu'[c] = pdu[c]
      /\ cookie'[c] = cookie[c] /\ ns' = ns
      /\ pc[c] = "execute" /\ Uring(c) /\ pc'[c] = "leave" /\ io'[c] = "device"
      /\ out'[c] = [out[c] EXCEPT !.ret = "queued"]
  BY <1>1 DEF Typed, TypedCommand, Request, Output, Pdu, uringVars, ExecuteNowait, Return
<1>4. Only(c)
  BY <1>1, <1>2 DEF Only, Typed, uringVars, ExecuteNowait, Return
<1>5. TypedCommand(c)'
  BY <1>1, <1>2, <1>3 DEF TypedCommand, Place, Way, Output
<1>6. \A r \in Resources : holds'[c][r] = holds[c][r]
  BY <1>2
<1>7. CommandInv(c)'
  <2> USE <1>1, <1>3, <1>6
  <2>1. HoldInv(c)'
    BY DEF CommandInv, HoldInv, PlaceInv, Inside, Building, Flying, BufferReady, MetaReady,
       HoldsRequest, MayLeak, Uring, ToController, WithMeta, One, Resources, Output,
       TypedCommand
  <2>2. PlaceInv(c)'
    BY DEF CommandInv, PlaceInv, Flying, BufferReady, Uring, ToController, WithMeta,
       Output, TypedCommand
  <2>3. OutcomeInv(c)'
    BY DEF CommandInv, PlaceInv, OutcomeInv, Flying, Uring, Output, TypedCommand
  <2>4. PduInv(c)'
    BY DEF CommandInv, PlaceInv, PduInv, Flying, BufferReady, Uring, Output, TypedCommand
  <2>5. MetaInv(c)'
    BY DEF CommandInv, OutcomeInv, PlaceInv, MetaInv, Flying, Uring, WithMeta, Output,
       TypedCommand
  <2>6. LockInv(c)' /\ LegalInv(c)'
    BY DEF CommandInv, LockInv, LegalInv, LegalSubmitIo, LegalUring, LegalIoctl, Resources,
       Output, TypedCommand
  <2> QED
    BY <2>1, <2>2, <2>3, <2>4, <2>5, <2>6 DEF CommandInv
<1>8. Progress(c)
  BY <1>1, <1>3, <1>4 DEF Progress, Over, CommandInv, PlaceInv
<1> QED
  BY <1>4, <1>5, <1>7, <1>8, OneCommand

\* The lock is dropped, wherever the completion is by now.
LEMMA LeaveUringKeeps ==
  ASSUME PInv, NEW c \in Cmds, LeaveUring(c)
  PROVE  PInv' /\ Progress(c)
<1>1. Typed /\ TypedCommand(c) /\ CommandInv(c)
  BY TypedFromPInv
<1>2. /\ holds' = [holds EXCEPT ![c] = holds'[c]] /\ holds'[c] \in [Resources -> Int]
      /\ \A r \in Resources : holds'[c][r] = holds[c][r] - One(r \in EntryHolds(c))
  <2>1. EntryHolds(c) \in SUBSET Resources
    BY EntryHoldsWhat
  <2>2. holds' = Given(c, EntryHolds(c))
    BY DEF LeaveUring
  <2> QED
    BY <1>1, <2>1, <2>2, GivenEffect
<1>3. /\ cmd'[c] = cmd[c] /\ io'[c] = io[c] /\ out'[c] = out[c] /\ pdu'[c] = pdu[c]
      /\ cookie'[c] = cookie[c] /\ ns' = ns
      /\ pc[c] = "leave" /\ Uring(c)
      /\ \/ /\ out[c].ret = "again" /\ pc'[c] = "enter"
            /\ rq'[c] = [rq[c] EXCEPT !.nowait = FALSE, !.polled = cmd[c].polled]
         \/ /\ out[c].ret # "again" /\ rq'[c] = rq[c]
            /\ pc'[c] = IF out[c].ret = "error" /\ io[c] = "none" THEN "over" ELSE "queued"
  BY <1>1 DEF Typed, TypedCommand, Request, Output, Pdu, uringVars, LeaveUring
<1>4. Only(c)
  BY <1>1, <1>2 DEF Only, Typed, uringVars, LeaveUring
<1>5. TypedCommand(c)'
  BY <1>1, <1>2, <1>3 DEF TypedCommand, Place, Request, Input
<1>6. /\ holds'[c]["request"] = holds[c]["request"]
      /\ holds'[c]["bio"] = holds[c]["bio"]
      /\ holds'[c]["meta"] = holds[c]["meta"]
      /\ holds'[c]["srcu"] = holds[c]["srcu"] - One(cmd[c].node = "head" /\ ~ToController(c))
      /\ holds'[c]["ref"] = holds[c]["ref"] - One(ToController(c) \/ cmd[c].node = "dev")
  BY <1>1, <1>2, EntryHoldsWhat DEF TypedCommand, Resources, One
<1>7. CommandInv(c)'
  <2> USE <1>1, <1>3, <1>6
  <2>1. HoldInv(c)'
    BY DEF CommandInv, HoldInv, PlaceInv, Inside, Building, Flying, BufferReady, MetaReady,
       HoldsRequest, MayLeak, Uring, ToController, WithMeta, One, Resources, TypedCommand,
       Request
  <2>2. PlaceInv(c)'
    <3>1. CASE out[c].ret = "again"
      <4>1. io[c] = "none"
        BY <3>1 DEF CommandInv, OutcomeInv, Flying, Way, TypedCommand, Outcomes
      <4> QED
        BY <3>1, <4>1 DEF CommandInv, PlaceInv, Flying, BufferReady, Uring, ToController,
           WithMeta, TypedCommand, Request
    <3>2. CASE out[c].ret # "again"
      BY <3>2 DEF CommandInv, PlaceInv, OutcomeInv, Flying, BufferReady, Uring,
         ToController, WithMeta
    <3> QED
      BY <3>1, <3>2
  <2>3. OutcomeInv(c)'
    BY DEF CommandInv, PlaceInv, OutcomeInv, Flying, Uring, TypedCommand, Request
  <2>4. PduInv(c)'
    BY DEF CommandInv, PlaceInv, PduInv, Flying, BufferReady, Uring, TypedCommand, Request
  <2>5. MetaInv(c)'
    BY DEF CommandInv, OutcomeInv, PlaceInv, MetaInv, Flying, Uring, WithMeta,
       TypedCommand, Request
  <2>6. LockInv(c)' /\ LegalInv(c)'
    BY DEF CommandInv, LockInv, LegalInv, LegalSubmitIo, LegalUring, LegalIoctl, Resources,
       HoldInv, Inside, One, TypedCommand, Request
  <2> QED
    BY <2>1, <2>2, <2>3, <2>4, <2>5, <2>6 DEF CommandInv
<1>8. Progress(c)
  BY <1>1, <1>3, <1>4 DEF Progress, Over, CommandInv, PlaceInv, TypedCommand, Request
<1> QED
  BY <1>4, <1>5, <1>7, <1>8, OneCommand

\* The outcome replaces the metadata in the pdu; the request is freed unless polled.
LEMMA EndIoKeeps ==
  ASSUME PInv, NEW c \in Cmds, EndIo(c)
  PROVE  PInv' /\ Progress(c)
<1>1. Typed /\ TypedCommand(c) /\ CommandInv(c)
  BY TypedFromPInv
<1>2. /\ holds' = [holds EXCEPT ![c] = holds'[c]] /\ holds'[c] \in [Resources -> Int]
      /\ \A r \in Resources :
           holds'[c][r] = holds[c][r] - One(r = "request" /\ io'[c] = "task_work")
  <2>1. CASE io'[c] = "inline"
    <3>1. holds' = holds
      BY <1>1, <2>1 DEF Typed, EndIo
    <3> QED
      BY <1>1, <2>1, <3>1 DEF Typed, One
  <2>2. CASE io'[c] = "task_work"
    <3>1. {"request"} \in SUBSET Resources
      BY DEF Resources
    <3>2. holds' = Given(c, {"request"})
      BY <1>1, <2>2 DEF Typed, EndIo
    <3> QED
      BY <1>1, <2>2, <3>1, <3>2, GivenEffect DEF One
  <2> QED
    BY <1>1, <2>1, <2>2 DEF Typed, EndIo, Ways, If
<1>3. /\ cmd'[c] = cmd[c] /\ pc'[c] = pc[c] /\ out'[c] = out[c]
      /\ cookie'[c] = cookie[c] /\ ns' = ns
      /\ io[c] = "device" /\ Uring(c) /\ ~cmd[c].metaLen /\ io'[c] \in {"task_work", "inline"}
      /\ rq'[c].ran \in Outcomes
      /\ rq'[c] = [rq[c] EXCEPT !.ran = rq'[c].ran, !.bio = (pdu[c].ptr = "bio")]
      /\ rq'[c].bio <=> pdu[c].ptr = "bio"
      /\ pdu'[c] = [ptr |-> pdu[c].ptr, u |-> "result", status |-> rq'[c].ran]
  <2>1. PICK ran \in Outcomes, way \in Ways(c) :
          /\ rq' = [rq EXCEPT ![c].ran = ran, ![c].bio = (pdu[c].ptr = "bio")]
          /\ pdu' = [pdu EXCEPT ![c].u = "result", ![c].status = ran]
          /\ io' = [io EXCEPT ![c] = way]
    BY DEF EndIo
  <2>2. way \in {"task_work", "inline"} /\ io'[c] = way
    BY <1>1, <2>1 DEF Typed, Ways, If
  <2>3. /\ rq'[c] = [rq[c] EXCEPT !.ran = ran, !.bio = (pdu[c].ptr = "bio")] /\ rq'[c].ran = ran
        /\ (rq'[c].bio <=> pdu[c].ptr = "bio")
    BY <1>1, <2>1 DEF Typed, TypedCommand, Request
  <2>4. pdu'[c] = [pdu[c] EXCEPT !.u = "result", !.status = ran]
    BY <1>1, <2>1 DEF Typed
  <2>5. pdu'[c] = [ptr |-> pdu[c].ptr, u |-> "result", status |-> ran]
    BY <1>1, <2>4 DEF TypedCommand, Pdu
  <2> QED
    BY <1>1, <2>2, <2>3, <2>5 DEF Typed, EndIo
<1>4. Only(c)
  BY <1>1, <1>2 DEF Only, Typed, uringVars, EndIo
<1>5. TypedCommand(c)'
  <2>1. rq'[c] \in Request
    BY <1>1, <1>3 DEF TypedCommand, Request
  <2>2. pdu'[c] \in Pdu
    BY <1>1, <1>3 DEF TypedCommand, Pdu
  <2> QED
    BY <1>1, <1>2, <1>3, <2>1, <2>2 DEF TypedCommand, Way
<1>6. /\ holds'[c]["request"] = holds[c]["request"] - One(io'[c] = "task_work")
      /\ holds'[c]["bio"] = holds[c]["bio"]
      /\ holds'[c]["meta"] = holds[c]["meta"]
      /\ holds'[c]["srcu"] = holds[c]["srcu"]
      /\ holds'[c]["ref"] = holds[c]["ref"]
  BY <1>1, <1>2 DEF TypedCommand, Resources, One
<1>7. CommandInv(c)'
  <2> USE <1>1, <1>3, <1>6
  <2>1. HoldInv(c)'
    BY DEF CommandInv, HoldInv, PlaceInv, Inside, Building, Flying, BufferReady, MetaReady,
       HoldsRequest, MayLeak, Uring, ToController, WithMeta, One, Resources, Request, Pdu,
       TypedCommand
  <2>2. PlaceInv(c)'
    BY DEF CommandInv, PlaceInv, Flying, BufferReady, Uring, ToController, WithMeta,
       PduInv, Request, Pdu, TypedCommand
  <2>3. OutcomeInv(c)'
    BY DEF CommandInv, PlaceInv, OutcomeInv, Flying, Uring, Request, Pdu, TypedCommand
  <2>4. PduInv(c)'
    BY DEF CommandInv, PlaceInv, PduInv, Flying, BufferReady, Uring, Request, Pdu,
       TypedCommand
  <2>5. MetaInv(c)'
    BY DEF CommandInv, OutcomeInv, PlaceInv, MetaInv, Flying, Uring, WithMeta, Request,
       Pdu, TypedCommand
  <2>6. LockInv(c)' /\ LegalInv(c)'
    BY DEF CommandInv, LockInv, LegalInv, LegalSubmitIo, LegalUring, LegalIoctl, Resources,
       Request, Pdu, TypedCommand
  <2> QED
    BY <2>1, <2>2, <2>3, <2>4, <2>5, <2>6 DEF CommandInv
<1>8. Progress(c)
  BY <1>1, <1>3, <1>4 DEF Progress, Over, CommandInv, PlaceInv
<1> QED
  BY <1>4, <1>5, <1>7, <1>8, OneCommand

\* The bio goes from the pdu into the request before the request goes into the pdu.
LEMMA EndIoMetaKeeps ==
  ASSUME PInv, NEW c \in Cmds, EndIoMeta(c)
  PROVE  PInv' /\ Progress(c)
<1>1. Typed /\ TypedCommand(c) /\ CommandInv(c)
  BY TypedFromPInv
<1>2. holds' = [holds EXCEPT ![c] = holds'[c]] /\ holds'[c] = holds[c]
  BY <1>1 DEF Typed, EndIoMeta
<1>3. /\ cmd'[c] = cmd[c] /\ pc'[c] = pc[c] /\ out'[c] = out[c]
      /\ cookie'[c] = cookie[c] /\ ns' = ns
      /\ io[c] = "device" /\ Uring(c) /\ cmd[c].metaLen /\ io'[c] \in {"task_work", "inline"}
      /\ rq'[c].ran \in Outcomes
      /\ rq'[c] = [rq[c] EXCEPT !.ran = rq'[c].ran, !.bio = (pdu[c].ptr = "bio")]
      /\ rq'[c].bio <=> pdu[c].ptr = "bio"
      /\ pdu'[c] = [pdu[c] EXCEPT !.ptr = "req"]
  <2>1. /\ cmd'[c] = cmd[c] /\ pc'[c] = pc[c] /\ out'[c] = out[c]
        /\ cookie'[c] = cookie[c] /\ ns' = ns
        /\ io[c] = "device" /\ Uring(c) /\ cmd[c].metaLen
    BY DEF EndIoMeta
  <2>2. pdu'[c] = [pdu[c] EXCEPT !.ptr = "req"]
    BY <1>1 DEF Typed, EndIoMeta
  <2>3. PICK ran \in Outcomes : \E way \in Ways(c) :
          /\ rq' = [rq EXCEPT ![c].ran = ran, ![c].bio = (pdu[c].ptr = "bio")]
          /\ io' = [io EXCEPT ![c] = way]
    BY DEF EndIoMeta
  <2>4. io'[c] \in {"task_work", "inline"}
    BY <1>1, <2>3 DEF Typed, Ways, If
  <2>5. rq'[c] = [rq[c] EXCEPT !.ran = ran, !.bio = (pdu[c].ptr = "bio")]
    BY <1>1, <2>3 DEF Typed
  <2>6. rq'[c].ran = ran /\ rq'[c].bio = (pdu[c].ptr = "bio")
    BY <1>1, <2>5 DEF TypedCommand, Request
  <2> QED
    BY <2>1, <2>2, <2>3, <2>4, <2>5, <2>6
<1>4. Only(c)
  BY <1>1, <1>2 DEF Only, Typed, uringVars, EndIoMeta
<1>5. TypedCommand(c)'
  BY <1>1, <1>2, <1>3 DEF TypedCommand, Place, Way, Request, Pdu
<1>6. \A r \in Resources : holds'[c][r] = holds[c][r]
  BY <1>2
<1>7. CommandInv(c)'
  <2> USE <1>1, <1>3, <1>6
  <2>1. HoldInv(c)'
    BY DEF CommandInv, HoldInv, PlaceInv, Inside, Building, Flying, BufferReady, MetaReady,
       HoldsRequest, MayLeak, Uring, ToController, WithMeta, One, Resources, Request, Pdu,
       TypedCommand
  <2>2. PlaceInv(c)'
    BY DEF CommandInv, PlaceInv, Flying, BufferReady, Uring, ToController, WithMeta,
       PduInv, Request, Pdu, TypedCommand
  <2>3. OutcomeInv(c)'
    BY DEF CommandInv, PlaceInv, OutcomeInv, Flying, Uring, Request, Pdu, TypedCommand
  <2>4. PduInv(c)'
    BY DEF CommandInv, PlaceInv, PduInv, Flying, BufferReady, Uring, Request, Pdu,
       TypedCommand
  <2>5. MetaInv(c)'
    BY DEF CommandInv, OutcomeInv, PlaceInv, MetaInv, Flying, Uring, WithMeta, Request,
       Pdu, TypedCommand
  <2>6. LockInv(c)' /\ LegalInv(c)'
    BY DEF CommandInv, LockInv, LegalInv, LegalSubmitIo, LegalUring, LegalIoctl, Resources,
       Request, Pdu, TypedCommand
  <2> QED
    BY <2>1, <2>2, <2>3, <2>4, <2>5, <2>6 DEF CommandInv
<1>8. Progress(c)
  BY <1>1, <1>3, <1>4 DEF Progress, Over, CommandInv, PlaceInv
<1> QED
  BY <1>4, <1>5, <1>7, <1>8, OneCommand

\* The pdu tells the bio and the outcome.
LEMMA TaskCbKeeps ==
  ASSUME PInv, NEW c \in Cmds, TaskCb(c)
  PROVE  PInv' /\ Progress(c)
<1>1. Typed /\ TypedCommand(c) /\ CommandInv(c)
  BY TypedFromPInv
<1>2. /\ holds' = [holds EXCEPT ![c] = holds'[c]] /\ holds'[c] \in [Resources -> Int]
      /\ \A r \in Resources : holds'[c][r] = holds[c][r] - One(r \in If(pdu[c].ptr # "null", "bio") \union If(io[c] = "inline", "request"))
  <2>1. If(pdu[c].ptr # "null", "bio") \union If(io[c] = "inline", "request") \in SUBSET Resources
    BY DEF Resources, If
  <2>2. holds' = Given(c, If(pdu[c].ptr # "null", "bio") \union If(io[c] = "inline", "request"))
    BY DEF TaskCb
  <2> QED
    BY <1>1, <2>1, <2>2, GivenEffect
<1>3. /\ cmd'[c] = cmd[c] /\ pc'[c] = pc[c] /\ rq'[c] = rq[c] /\ ns' = ns
      /\ io[c] \in {"task_work", "inline"} /\ ~cmd[c].metaLen /\ io'[c] = "done" /\ cookie'[c] = FALSE
      /\ out'[c] = [ret |-> pdu[c].status, meta |-> FALSE, orphan |-> Orphan(c)]
      /\ pdu'[c] = [ptr |-> "null", u |-> "none", status |-> "none"]
  BY <1>1 DEF Typed, TypedCommand, Request, Output, Pdu, uringVars, TaskCb, Done, CanRun,
     NoPdu
<1>4. Only(c)
  BY <1>1, <1>2 DEF Only, Typed, uringVars, TaskCb, Done
<1>5. TypedCommand(c)'
  <2>1. out'[c] \in Output
    BY <1>1, <1>3 DEF TypedCommand, Output, Pdu, Orphan
  <2>2. pdu'[c] \in Pdu
    BY <1>3 DEF Pdu
  <2> QED
    BY <1>1, <1>2, <1>3, <2>1, <2>2 DEF TypedCommand, Way
<1>6. /\ holds'[c]["request"] = holds[c]["request"] - One(io[c] = "inline")
      /\ holds'[c]["bio"] = holds[c]["bio"] - One(pdu[c].ptr # "null")
      /\ holds'[c]["meta"] = holds[c]["meta"]
      /\ holds'[c]["srcu"] = holds[c]["srcu"]
      /\ holds'[c]["ref"] = holds[c]["ref"]
  BY <1>1, <1>2 DEF TypedCommand, Resources, One, If
<1>7. CommandInv(c)'
  <2> USE <1>1, <1>3, <1>6
  <2>1. HoldInv(c)'
    BY DEF CommandInv, HoldInv, PlaceInv, Inside, Building, Flying, BufferReady, MetaReady,
       HoldsRequest, MayLeak, Uring, ToController, WithMeta, One, Resources, PduInv, Pdu,
       TypedCommand
  <2>2. PlaceInv(c)'
    BY DEF CommandInv, PlaceInv, Flying, BufferReady, Uring, ToController, WithMeta, Pdu,
       TypedCommand
  <2>3. OutcomeInv(c)'
    BY DEF CommandInv, PlaceInv, OutcomeInv, Flying, Uring, PduInv, Pdu, TypedCommand
  <2>4. PduInv(c)'
    BY DEF CommandInv, PlaceInv, PduInv, Flying, BufferReady, Uring, Pdu, TypedCommand
  <2>5. MetaInv(c)'
    BY DEF CommandInv, OutcomeInv, PlaceInv, MetaInv, Flying, Uring, WithMeta, Pdu,
       TypedCommand
  <2>6. LockInv(c)' /\ LegalInv(c)'
    BY DEF CommandInv, LockInv, LegalInv, LegalSubmitIo, LegalUring, LegalIoctl, Resources,
       Pdu, TypedCommand
  <2> QED
    BY <2>1, <2>2, <2>3, <2>4, <2>5, <2>6 DEF CommandInv
<1>8. Progress(c)
  BY <1>1, <1>3, <1>4 DEF Progress, Over, CommandInv, PlaceInv
<1> QED
  BY <1>4, <1>5, <1>7, <1>8, OneCommand

\* The request in the pdu tells the bio, the metadata and the outcome.
LEMMA TaskMetaCbKeeps ==
  ASSUME PInv, NEW c \in Cmds, TaskMetaCb(c)
  PROVE  PInv' /\ Progress(c)
<1>1. Typed /\ TypedCommand(c) /\ CommandInv(c)
  BY TypedFromPInv
<1>2. /\ holds' = [holds EXCEPT ![c] = holds'[c]] /\ holds'[c] \in [Resources -> Int]
      /\ \A r \in Resources : holds'[c][r] = holds[c][r] - One(r \in {"request"} \union If(rq[c].bio, "bio")
                        \union If(holds[c]["meta"] = 1, "meta"))
  <2>1. {"request"} \union If(rq[c].bio, "bio")
                        \union If(holds[c]["meta"] = 1, "meta") \in SUBSET Resources
    BY DEF Resources, If
  <2>2. holds' = Given(c, {"request"} \union If(rq[c].bio, "bio")
                        \union If(holds[c]["meta"] = 1, "meta"))
    BY DEF TaskMetaCb
  <2> QED
    BY <1>1, <2>1, <2>2, GivenEffect
<1>3. /\ cmd'[c] = cmd[c] /\ pc'[c] = pc[c] /\ rq'[c] = rq[c] /\ ns' = ns
      /\ io[c] \in {"task_work", "inline"} /\ cmd[c].metaLen /\ io'[c] = "done" /\ cookie'[c] = FALSE
      /\ out'[c] = [ret |-> out'[c].ret, meta |-> out'[c].meta, orphan |-> Orphan(c)]
      /\ out'[c].ret \in {rq[c].ran, "error"} /\ out'[c].meta \in BOOLEAN
      /\ out'[c].ret = "ok" /\ cmd[c].dir = "READ" /\ ~Orphan(c) => out'[c].meta
      /\ pdu'[c] = [ptr |-> "null", u |-> "none", status |-> "none"]
  <2>1. Orphan(c) \in BOOLEAN
    BY DEF Orphan
  <2>2. PICK m \in Metadata(c, Orphan(c)) : Done(c, m[1], m[2])
    BY DEF TaskMetaCb
  <2>3. /\ m[1] \in {rq[c].ran, "error"} /\ m[2] \in BOOLEAN
        /\ m[1] = "ok" /\ cmd[c].dir = "READ" /\ ~Orphan(c) => m[2]
    BY <2>2, <2>1, MetadataOutcome
  <2>4. out'[c] = [ret |-> m[1], meta |-> m[2], orphan |-> Orphan(c)]
    BY <1>1, <2>2 DEF Typed, Done
  <2> QED
    BY <1>1, <2>2, <2>3, <2>4 DEF Typed, TaskMetaCb, CanRun, Done, NoPdu
<1>4. Only(c)
  BY <1>1, <1>2 DEF Only, Typed, uringVars, TaskMetaCb, Done
<1>5. TypedCommand(c)'
  <2>1. out'[c] \in Output
    <3>1. Orphan(c) \in BOOLEAN /\ rq[c].ran \in Outcomes \union {"none"}
      BY <1>1 DEF Orphan, TypedCommand, Request
    <3> QED
      BY <1>3, <3>1 DEF Output
  <2>2. pdu'[c] \in Pdu
    BY <1>3 DEF Pdu
  <2> QED
    BY <1>1, <1>2, <1>3, <2>1, <2>2 DEF TypedCommand, Way
<1>6. /\ holds'[c]["request"] = holds[c]["request"] - 1
      /\ holds'[c]["bio"] = holds[c]["bio"] - One(rq[c].bio)
      /\ holds'[c]["meta"] = holds[c]["meta"] - One(holds[c]["meta"] = 1)
      /\ holds'[c]["srcu"] = holds[c]["srcu"]
      /\ holds'[c]["ref"] = holds[c]["ref"]
  BY <1>1, <1>2 DEF TypedCommand, Resources, One, If
<1>7. CommandInv(c)'
  <2> USE <1>1, <1>3, <1>6
  <2>1. HoldInv(c)'
    BY DEF CommandInv, HoldInv, PlaceInv, Inside, Building, Flying, BufferReady, MetaReady,
       HoldsRequest, MayLeak, Uring, ToController, WithMeta, One, Resources, Pdu,
       TypedCommand, Request
  <2>2. PlaceInv(c)'
    BY DEF CommandInv, PlaceInv, Flying, BufferReady, Uring, ToController, WithMeta, Pdu,
       TypedCommand, Request
  <2>3. OutcomeInv(c)'
    BY DEF CommandInv, PlaceInv, OutcomeInv, Flying, Uring, Pdu, TypedCommand, Request
  <2>4. PduInv(c)'
    BY DEF CommandInv, PlaceInv, PduInv, Flying, BufferReady, Uring, Pdu, TypedCommand,
       Request
  <2>5. MetaInv(c)'
    BY DEF CommandInv, OutcomeInv, PlaceInv, MetaInv, Flying, Uring, WithMeta, HoldInv,
       MetaReady, One, Pdu, TypedCommand, Request
  <2>6. LockInv(c)' /\ LegalInv(c)'
    BY DEF CommandInv, LockInv, LegalInv, LegalSubmitIo, LegalUring, LegalIoctl, Resources,
       Pdu, TypedCommand, Request
  <2> QED
    BY <2>1, <2>2, <2>3, <2>4, <2>5, <2>6 DEF CommandInv
<1>8. Progress(c)
  BY <1>1, <1>3, <1>4 DEF Progress, Over, CommandInv, PlaceInv
<1> QED
  BY <1>4, <1>5, <1>7, <1>8, OneCommand

-----------------------------------------------------------------------------
(* A command is issued, a task exits, the namespace goes                   *)

\* A new command starts with nothing, whatever the last one in its place did.
LEMMA StartKeeps ==
  ASSUME PInv, NEW c \in Cmds, NEW in \in Inputs[c], Start(c, in)
  PROVE  PInv' /\ Only(c)
<1>1. Typed /\ TypedCommand(c) /\ CommandInv(c)
  BY TypedFromPInv
<1>2. in \in Input /\ LegalSubmitIo(in) /\ LegalUring(in) /\ LegalIoctl(in)
  BY InputAssumption
<1>3. /\ cmd'[c] = in /\ pc'[c] = "enter" /\ io'[c] = "none" /\ ns' = ns
      /\ rq'[c] = [nowait |-> in.kind = "uring", polled |-> in.polled, bio |-> FALSE,
                   ran |-> "none"]
      /\ out'[c] = [ret |-> "none", meta |-> FALSE, orphan |-> FALSE]
      /\ pdu'[c] = [ptr |-> "null", u |-> "none", status |-> "none"]
      /\ cookie'[c] = FALSE /\ holds'[c] = holds[c]
      /\ rq'[c].nowait <=> in.kind = "uring"
  <2>1. rq'[c] = [NoRequest EXCEPT !.nowait = (in.kind = "uring"), !.polled = in.polled]
    BY <1>1 DEF Start, Typed
  <2> QED
    BY <1>1, <2>1 DEF Start, Typed, NoRequest, NoOutput, NoPdu
<1>4. Only(c)
  BY <1>1 DEF Only, Start, Typed
<1>5. TypedCommand(c)'
  <2>1. rq'[c] \in Request
    BY <1>2, <1>3 DEF Request, Input
  <2>2. out'[c] \in Output /\ pdu'[c] \in Pdu
    BY <1>3 DEF Output, Pdu
  <2> QED
    BY <1>1, <1>2, <1>3, <2>1, <2>2 DEF TypedCommand, Place, Way
<1>6. \A r \in Resources : holds[c][r] = 0
  <2>1. /\ pc[c] \in {"idle", "over", "queued"} /\ io[c] \in {"none", "done"}
        /\ pc[c] # "idle" => holds[c]["request"] = 0
    BY <1>1 DEF Start, Over, CommandInv, PlaceInv
  <2>2. holds[c]["request"] = 0
    BY <1>1, <2>1 DEF CommandInv, HoldInv, HoldsRequest, Building, Flying, MayLeak, One
  <2> QED
    BY <1>1, <2>1, <2>2 DEF CommandInv, HoldInv, Inside, BufferReady, MetaReady, Flying, One,
       Resources
<1>7. CommandInv(c)'
  <2> USE <1>2, <1>3, <1>6
  <2>1. HoldInv(c)'
    BY DEF HoldInv, Inside, Building, Flying, BufferReady, MetaReady, HoldsRequest, One,
       Resources
  <2>2. PlaceInv(c)'
    BY DEF PlaceInv, Flying, BufferReady, Uring
  <2>3. OutcomeInv(c)' /\ PduInv(c)' /\ MetaInv(c)'
    BY DEF OutcomeInv, PduInv, MetaInv, Flying
  <2>4. LockInv(c)' /\ LegalInv(c)'
    BY DEF LockInv, LegalInv, Resources
  <2> QED
    BY <2>1, <2>2, <2>3, <2>4 DEF CommandInv
<1> QED
  BY <1>4, <1>5, <1>7, OneCommand

\* An exit and the removal of the namespace leave the commands alone.
LEMMA OthersKeep ==
  ASSUME PInv, UNCHANGED <<cmd, pc, holds, rq, io, out, pdu, cookie>>, exited' \subseteq Tasks,
         ns' \in {"live", "unlinked", "dying", "gone"},
         ns' = ns \/ ns' = "unlinked" \/ \A c \in Cmds : holds[c]["srcu"] = 0
  PROVE  PInv'
<1>1. Typed
  BY TypedFromPInv
<1>2. Typed'
  BY <1>1 DEF Typed
<1>3. ASSUME NEW c \in Cmds
      PROVE  CommandInv(c)'
  <2>1. Kept(c)
    BY DEF Kept
  <2> QED
    BY <2>1, KeptKeeps DEF PInv
<1> QED
  BY <1>2, <1>3, BoundFromHoldInv

\* When the namespace is dying no command reads under its SRCU any more.
LEMMA NobodyReadsDying ==
  ASSUME PInv, ns = "dying", NEW c \in Cmds
  PROVE  holds[c]["srcu"] = 0
<1>1. holds[c]["srcu"] \in 0 .. 1
  BY DEF PInv, TypeOK, Resources
<1> QED
  BY <1>1 DEF PInv, CommandInv, LockInv

LEMMA RemovalKeeps == ASSUME PInv, Unlink \/ Dying \/ Gone PROVE PInv'
<1>1. CASE Unlink
  BY <1>1, OthersKeep DEF Unlink, uringVars, PInv, TypeOK
<1>2. CASE Dying
  BY <1>2, OthersKeep DEF Dying, uringVars, PInv, TypeOK
<1>3. CASE Gone
  BY <1>3, OthersKeep, NobodyReadsDying DEF Gone, uringVars, PInv, TypeOK
<1> QED
  BY <1>1, <1>2, <1>3

LEMMA ExitKeeps == ASSUME PInv, NEW t \in Tasks, Exit(t) PROVE PInv'
<1>1. exited' \subseteq Tasks /\ ns' \in {"live", "unlinked", "dying", "gone"}
  BY DEF Exit, requestVars, PInv, TypeOK
<1> QED
  BY <1>1, OthersKeep DEF Exit, requestVars

-----------------------------------------------------------------------------
(* The invariant                                                           *)

LEMMA InitEstablishes == Init => PInv
<1> SUFFICES ASSUME Init
             PROVE  PInv
  OBVIOUS
<1> USE DEF Init, RequestInit, UringInit
<1>1. NoInput \in Input
  BY InputAssumption DEF NoInput, Input
<1>2. NoRequest \in Request /\ NoOutput \in Output /\ NoPdu \in Pdu
  BY DEF NoRequest, Request, NoOutput, Output, NoPdu, Pdu
<1>3. TypeOK
  BY <1>1, <1>2 DEF TypeOK, Place, Way, Resources
<1>4. ASSUME NEW c \in Cmds
      PROVE  CommandInv(c)
  <2>1. /\ pc[c] = "idle" /\ io[c] = "none" /\ ns = "live" /\ out[c].ret = "none"
        /\ rq[c].ran = "none" /\ ~rq[c].nowait /\ ~rq[c].bio
        /\ cmd[c].kind = "user_cmd" /\ ~cmd[c].polled /\ ~cmd[c].fixedVec /\ ~cmd[c].deletes
        /\ cmd[c].node = "file"
        /\ \A r \in Resources : holds[c][r] = 0
    BY DEF NoInput, NoRequest, NoOutput
  <2>2. HoldInv(c)
    BY <2>1 DEF HoldInv, Inside, Building, Flying, BufferReady, MetaReady, HoldsRequest, One,
       Resources
  <2>3. PlaceInv(c) /\ OutcomeInv(c) /\ PduInv(c)
    BY <2>1 DEF PlaceInv, OutcomeInv, PduInv, Flying, BufferReady, Uring
  <2>4. MetaInv(c) /\ LockInv(c) /\ LegalInv(c)
    BY <2>1 DEF MetaInv, LockInv, LegalInv, LegalSubmitIo, LegalUring, LegalIoctl, Resources
  <2> QED
    BY <2>2, <2>3, <2>4 DEF CommandInv
<1> QED
  BY <1>3, <1>4 DEF PInv

\* A step of the thread, the device or task work.
LEMMA CommandKeeps ==
  ASSUME PInv, NEW c \in Cmds, Thread(c) \/ Device(c) \/ TaskWork(c)
  PROVE  PInv' /\ Progress(c)
<1>1. CASE RequestStep(c)
  BY <1>1, EnterKeeps, RefuseKeeps, ReadCtrlKeeps, AllocKeeps, AllocFailsKeeps, MapKeeps,
     NothingToMapKeeps, MapFailsKeeps, AddMetadataKeeps, MetadataFailsKeeps DEF RequestStep
<1>2. CASE SyncStep(c)
  BY <1>2, ExecuteSyncKeeps, FinishSyncKeeps, EndSyncKeeps, LeaveSyncKeeps DEF SyncStep
<1>3. CASE UringStep(c)
  BY <1>3, RetryUnpolledKeeps, PrepareKeeps, ExecuteNowaitKeeps, LeaveUringKeeps DEF UringStep
<1>4. CASE Device(c)
  BY <1>4, CompleteSyncKeeps, EndIoKeeps, EndIoMetaKeeps DEF Device
<1>5. CASE TaskWork(c)
  BY <1>5, TaskCbKeeps, TaskMetaCbKeeps DEF TaskWork
<1> QED
  BY <1>1, <1>2, <1>3, <1>4, <1>5 DEF Thread

LEMMA NextKeeps == PInv /\ [Next]_vars => PInv'
<1> SUFFICES ASSUME PInv, [Next]_vars
             PROVE  PInv'
  OBVIOUS
<1>1. ASSUME NEW c \in Cmds, NEW in \in Inputs[c], Start(c, in) PROVE PInv'
  BY <1>1, StartKeeps
<1>2. ASSUME NEW c \in Cmds, Thread(c) \/ Device(c) \/ TaskWork(c) PROVE PInv'
  BY <1>2, CommandKeeps
<1>3. ASSUME NEW t \in Tasks, Exit(t) PROVE PInv'
  BY <1>3, ExitKeeps
<1>4. CASE Unlink \/ Dying \/ Gone
  BY <1>4, RemovalKeeps
<1>5. CASE UNCHANGED vars
  <2>1. exited' \subseteq Tasks /\ ns' \in {"live", "unlinked", "dying", "gone"}
    BY <1>5 DEF vars, requestVars, uringVars, PInv, TypeOK
  <2> QED
    BY <1>5, <2>1, OthersKeep DEF vars, requestVars, uringVars
<1> QED
  BY <1>1, <1>2, <1>3, <1>4, <1>5 DEF Next

\* What every state of the interface satisfies: what each command holds follows from
\* where its thread and its completion are.
THEOREM Invariance == Spec => []PInv
<1>1. Init => PInv
  BY InitEstablishes
<1>2. PInv /\ [Next]_vars => PInv'
  BY NextKeeps
<1> QED
  BY <1>1, <1>2, PTL DEF Spec

-----------------------------------------------------------------------------
(* What follows from it                                                    *)

\* No path takes a resource twice or gives it back twice.
THEOREM TypeCorrect == Spec => []TypeOK
<1>1. PInv => TypeOK
  BY DEF PInv
<1> QED
  BY <1>1, Invariance, PTL

\* nvme_map_user_request, nvme_execute_passthru_rq and the completions: the request, the
\* user's pages and the metadata stay while the device works, and nothing is left behind.
THEOREM NothingFreedNothingLeft == Spec => []HeldUntilDone
<1>1. ASSUME PInv, NEW c \in Cmds, io[c] = "device"
      PROVE  /\ Has(c, "request")
             /\ Has(c, "bio") = cmd[c].data
             /\ Has(c, "meta") = WithMeta(c)
  <2>1. HoldInv(c) /\ cmd[c].data \in BOOLEAN /\ WithMeta(c) \in BOOLEAN /\ Flying(c)
    BY <1>1, TypedFromPInv DEF CommandInv, TypedCommand, Input, WithMeta, Flying
  <2>2. Has(c, "request")
    BY <1>1, <2>1 DEF HoldInv, HoldsRequest, One, Has
  <2>3. Has(c, "bio") <=> cmd[c].data
    BY <2>1 DEF HoldInv, BufferReady, One, Has
  <2>4. Has(c, "meta") <=> WithMeta(c)
    BY <2>1 DEF HoldInv, MetaReady, One, Has
  <2> QED
    BY <2>1, <2>2, <2>3, <2>4 DEF Has
<1>2. ASSUME PInv, NEW c \in Cmds, Over(c), ~cmd[c].fixedVec, NEW r \in Resources
      PROVE  ~Has(c, r)
  <2>1. HoldInv(c) /\ PlaceInv(c)
    BY <1>2 DEF PInv, CommandInv
  <2>2. ~Flying(c) /\ pc[c] \in {"over", "queued"}
    BY <1>2, <2>1 DEF Over, PlaceInv, Flying
  <2> QED
    BY <1>2, <2>1, <2>2 DEF HoldInv, HoldsRequest, Building, Inside, BufferReady, MetaReady,
       MayLeak, One, Has, Resources
<1>3. PInv => HeldUntilDone
  BY <1>1, <1>2 DEF HeldUntilDone
<1> QED
  BY <1>3, Invariance, PTL

\* nvme_uring_task_cb and nvme_uring_task_meta_cb find in the unions of the pdu what was
\* last put there.
THEOREM UnionsReadAsWritten == Spec => []PduReadAsWritten
<1>1. ASSUME PInv, NEW c \in Cmds, io[c] \in {"task_work", "inline"}, cmd[c].metaLen
      PROVE  /\ pdu[c].ptr = "req" /\ Has(c, "request") /\ pdu[c].u = "meta"
             /\ rq[c].bio = Has(c, "bio")
  <2>1. /\ HoldInv(c) /\ PlaceInv(c) /\ PduInv(c)
        /\ rq[c].bio \in BOOLEAN /\ cmd[c].data \in BOOLEAN /\ Flying(c)
    BY <1>1, TypedFromPInv DEF CommandInv, TypedCommand, Input, Request, Flying
  <2>2. Has(c, "request")
    BY <1>1, <2>1 DEF HoldInv, HoldsRequest, One, Has
  <2>3. rq[c].bio <=> Has(c, "bio")
    BY <2>1 DEF HoldInv, PlaceInv, BufferReady, One, Has
  <2> QED
    BY <1>1, <2>1, <2>2, <2>3 DEF PduInv, Has
<1>2. ASSUME PInv, NEW c \in Cmds, io[c] \in {"task_work", "inline"}, ~cmd[c].metaLen
      PROVE  /\ pdu[c].ptr # "req" /\ pdu[c].u = "result"
             /\ (pdu[c].ptr = "bio") = Has(c, "bio")
  <2>1. HoldInv(c) /\ PduInv(c) /\ Flying(c)
    BY <1>2 DEF PInv, CommandInv, Flying
  <2>2. Has(c, "bio") <=> cmd[c].data
    BY <2>1 DEF HoldInv, BufferReady, One, Has
  <2> QED
    BY <1>2, <2>1, <2>2 DEF PduInv, Has
<1>3. PInv => PduReadAsWritten
  BY <1>1, <1>2 DEF PduReadAsWritten
<1> QED
  BY <1>3, Invariance, PTL

\* The SRCU of the entry point keeps the namespace while the command uses it.
THEOREM NamespaceOutlivesUse == Spec => []NsOutlivesUse
<1>1. ASSUME PInv, NEW c \in Cmds, cmd[c].node = "head", ~ToController(c), Inside(c)
      PROVE  ns \in {"live", "unlinked"}
  BY <1>1 DEF PInv, CommandInv, HoldInv, LockInv, One
<1>2. PInv => NsOutlivesUse
  BY <1>1 DEF NsOutlivesUse, Inside
<1> QED
  BY <1>2, Invariance, PTL

\* nvme_finish_user_metadata: whoever is told of success has the metadata.
THEOREM MetadataReachesUser == Spec => []MetadataDelivered
<1>1. PInv => MetadataDelivered
  BY DEF PInv, CommandInv, MetaInv, MetadataDelivered
<1> QED
  BY <1>1, Invariance, PTL

-----------------------------------------------------------------------------
(* Refinement of UserCommand                                               *)

\* Of what UserCommand sees, a step of one command changes what belongs to that command.
LEMMA OthersAbstract ==
  ASSUME Typed, NEW c \in Cmds, Only(c), NEW d \in Cmds \ {c}
  PROVE  /\ CommandState(d)' = CommandState(d) /\ rq'[d].ran = rq[d].ran
         /\ Reported(d)' = Reported(d) /\ Held(d)' = Held(d)
<1>1. Kept(d)
  BY DEF Typed, Only, Kept
<1> QED
  BY <1>1 DEF Kept, CommandState, Reported, Held, Over

LEMMA AllKeptRefines ==
  ASSUME \A d \in Cmds : Kept(d)
  PROVE  UNCHANGED Abstract!vars
<1>1. ASSUME NEW d \in Cmds
      PROVE  /\ CommandState(d)' = CommandState(d) /\ rq'[d].ran = rq[d].ran
             /\ Reported(d)' = Reported(d) /\ Held(d)' = Held(d)
  BY DEF Kept, CommandState, Reported, Held, Over
<1> QED
  BY <1>1 DEF Abstract!vars

\* A registered buffer with data does not come with a vector.
NoFixedVector == \A c \in Cmds : ~(cmd[c].fixedVec /\ cmd[c].data)

LEMMA OverMeans ==
  ASSUME PInv', NoFixedVector', NEW c \in Cmds, Over(c)'
  PROVE  /\ Held(c)' = FALSE
         /\ out'[c].ret \in {"ok", "failed", "error"}
         /\ out'[c].ret # "error" => out'[c].ret = rq'[c].ran
<1>1. HoldInv(c)' /\ PlaceInv(c)' /\ OutcomeInv(c)'
  BY DEF PInv, CommandInv
<1>2. (~Flying(c) /\ pc[c] \in {"over", "queued"} /\ (io[c] = "done" \/ pc[c] = "over"))'
  BY <1>1 DEF Over, PlaceInv, Flying
<1>3. \A r \in Resources : holds'[c][r] = 0
  BY <1>1, <1>2 DEF NoFixedVector, HoldInv, HoldsRequest, Building, Inside, BufferReady,
     MetaReady, MayLeak, One, Resources
<1> QED
  BY <1>1, <1>2, <1>3 DEF OutcomeInv, Held, Outcomes

\* A step of a command that is under way is Execute when the device answers, Report when
\* nothing is left to do, and Work otherwise.
LEMMA ProgressRefines ==
  ASSUME PInv, PInv', NoFixedVector', NEW c \in Cmds, Progress(c)
  PROVE  Abstract!Next
<1>1. Typed /\ Only(c) /\ CommandInv(c)
  BY TypedFromPInv DEF Progress
<1>2. \A d \in Cmds \ {c} :
         /\ CommandState(d)' = CommandState(d) /\ rq'[d].ran = rq[d].ran
         /\ Reported(d)' = Reported(d) /\ Held(d)' = Held(d)
  BY <1>1, OthersAbstract
<1>3. CommandState(c) = "issued" /\ Reported(c) = "none"
  BY DEF Progress, CommandState, Reported
<1>4. \A d \in Cmds : Held(d)' \in BOOLEAN
  BY DEF Held
<1>5. CASE Over(c)'
  <2>1. CommandState(c)' = "over" /\ Reported(c)' = out'[c].ret /\ rq'[c].ran = rq[c].ran
    BY <1>5 DEF Progress, CommandState, Reported
  <2>2. /\ Held(c)' = FALSE
        /\ out'[c].ret \in {"ok", "failed", "error"}
        /\ out'[c].ret # "error" => out'[c].ret = rq'[c].ran
    BY <1>5, OverMeans
  <2>3. Abstract!Report(c)
    BY <1>2, <1>3, <2>1, <2>2 DEF Abstract!Report
  <2> QED
    BY <2>3 DEF Abstract!Next
<1>6. CASE ~Over(c)' /\ rq'[c].ran = rq[c].ran
  <2>1. CommandState(c)' = "issued" /\ Reported(c)' = "none"
    BY <1>6 DEF Progress, CommandState, Reported
  <2>2. Abstract!Work(c)
    BY <1>2, <1>3, <1>4, <1>6, <2>1 DEF Abstract!Work
  <2> QED
    BY <2>2 DEF Abstract!Next
<1>7. CASE ~Over(c)' /\ io[c] = "device" /\ rq'[c].ran \in Outcomes
  <2>1. CommandState(c)' = "issued" /\ Reported(c)' = "none"
    BY <1>7 DEF Progress, CommandState, Reported
  <2>2. rq[c].ran = "none" /\ Held(c)
    BY <1>1, <1>7 DEF CommandInv, OutcomeInv, HoldInv, HoldsRequest, Flying, One, Held,
       Resources
  <2>3. Abstract!Execute(c)
    BY <1>2, <1>3, <1>4, <1>7, <2>1, <2>2 DEF Abstract!Execute, Outcomes
  <2> QED
    BY <2>3 DEF Abstract!Next
<1> QED
  BY <1>5, <1>6, <1>7 DEF Progress

LEMMA StartRefines ==
  ASSUME PInv, NEW c \in Cmds, NEW in \in Inputs[c], Start(c, in)
  PROVE  Abstract!Next
<1>1. Typed /\ Only(c)
  BY TypedFromPInv, StartKeeps
<1>2. \A d \in Cmds \ {c} :
         /\ CommandState(d)' = CommandState(d) /\ rq'[d].ran = rq[d].ran
         /\ Reported(d)' = Reported(d) /\ Held(d)' = Held(d)
  BY <1>1, OthersAbstract
<1>3. CommandState(c) \in {"idle", "over"}
  BY DEF Start, CommandState
<1>4. pc'[c] = "enter" /\ rq'[c].ran = "none" /\ holds'[c] = holds[c]
  BY <1>1 DEF Start, Typed, NoRequest
<1>5. CommandState(c)' = "issued" /\ Reported(c)' = "none" /\ Held(c)' = Held(c)
  BY <1>4 DEF CommandState, Reported, Held, Over
<1>6. Abstract!Issue(c)
  BY <1>2, <1>3, <1>4, <1>5 DEF Abstract!Issue
<1> QED
  BY <1>6 DEF Abstract!Next

NoFixedVectorInput == \A c \in Cmds : \A in \in Inputs[c] : ~(in.fixedVec /\ in.data)

LEMMA NoFixedVectorKept ==
  ASSUME NoFixedVectorInput, PInv, NoFixedVector, [Next]_vars
  PROVE  NoFixedVector'
<1>1. ASSUME NEW c \in Cmds, NEW in \in Inputs[c], Start(c, in) PROVE NoFixedVector'
  BY <1>1, TypedFromPInv DEF Start, Typed, NoFixedVector, NoFixedVectorInput
<1>2. ASSUME NEW c \in Cmds, Thread(c) \/ Device(c) \/ TaskWork(c) PROVE NoFixedVector'
  <2>1. Progress(c)
    BY <1>2, CommandKeeps
  <2> QED
    BY <2>1, TypedFromPInv DEF Progress, Only, Typed, NoFixedVector
<1>3. ASSUME UNCHANGED cmd PROVE NoFixedVector'
  BY <1>3 DEF NoFixedVector
<1>4. ASSUME NEW t \in Tasks, Exit(t) PROVE NoFixedVector'
  BY <1>3, <1>4 DEF Exit, requestVars
<1>5. CASE Unlink \/ Dying \/ Gone \/ UNCHANGED vars
  BY <1>3, <1>5 DEF Unlink, Dying, Gone, vars, requestVars
<1> QED
  BY <1>1, <1>2, <1>4, <1>5 DEF Next

LEMMA StepRefines ==
  ASSUME PInv, PInv', NoFixedVector', [Next]_vars
  PROVE  [Abstract!Next]_(Abstract!vars)
<1>1. ASSUME NEW c \in Cmds, NEW in \in Inputs[c], Start(c, in) PROVE Abstract!Next
  BY <1>1, StartRefines
<1>2. ASSUME NEW c \in Cmds, Thread(c) \/ Device(c) \/ TaskWork(c) PROVE Abstract!Next
  BY <1>2, CommandKeeps, ProgressRefines
<1>3. ASSUME UNCHANGED <<cmd, pc, holds, rq, io, out, pdu>> PROVE UNCHANGED Abstract!vars
  BY <1>3, AllKeptRefines DEF Kept
<1>4. ASSUME NEW t \in Tasks, Exit(t) PROVE UNCHANGED Abstract!vars
  BY <1>3, <1>4 DEF Exit, requestVars
<1>5. CASE Unlink \/ Dying \/ Gone \/ UNCHANGED vars
  BY <1>3, <1>5 DEF Unlink, Dying, Gone, vars, requestVars, uringVars
<1> QED
  BY <1>1, <1>2, <1>4, <1>5 DEF Next

\* The pass-through interface implements UserCommand as long as no program combines a
\* registered buffer and a vector: executed at most once, told the outcome once, success
\* only of a command that succeeded, nothing held afterwards.
THEOREM Refinement == NoFixedVectorInput => (Spec => RefinesUserCommand)
<1> SUFFICES ASSUME NoFixedVectorInput
             PROVE  Spec => RefinesUserCommand
  OBVIOUS
<1>1. Init => NoFixedVector
  BY DEF Init, RequestInit, NoInput, NoFixedVector
<1>2. PInv /\ NoFixedVector /\ [Next]_vars => NoFixedVector'
  BY NoFixedVectorKept
<1>3. Init => Abstract!Init
  <2> SUFFICES ASSUME Init
               PROVE  Abstract!Init
    OBVIOUS
  <2>1. ASSUME NEW c \in Cmds
        PROVE  /\ CommandState(c) = "idle" /\ rq[c].ran = "none"
               /\ Reported(c) = "none" /\ Held(c) = FALSE
    BY DEF Init, RequestInit, NoRequest, CommandState, Reported, Over, Held
  <2> QED
    BY <2>1 DEF Abstract!Init
<1>4. PInv /\ PInv' /\ NoFixedVector' /\ [Next]_vars => [Abstract!Next]_(Abstract!vars)
  BY StepRefines
<1> QED
  BY <1>1, <1>2, <1>3, <1>4, Invariance, PTL DEF Spec, RefinesUserCommand, Abstract!Spec
=============================================================================
