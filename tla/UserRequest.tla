----------------------------- MODULE UserRequest ------------------------------
(***************************************************************************)
(* The kernel's NVMe driver, ioctl.c: what the synchronous ioctls and the  *)
(* io_uring commands have in common.  A command finds its namespace, takes *)
(* a request of the queue, maps the user's buffer into it (module          *)
(* MappedBuffer says what that promises) and attaches a buffer for the     *)
(* metadata.  Whatever it holds is counted, so that to give back too much  *)
(* or too little shows.                                                    *)
(*                                                                         *)
(* Several commands are under way at once, of the same task or of several. *)
(* A task is inside at most one system call; one command is one call.      *)
(***************************************************************************)
EXTENDS Integers, FiniteSets

CONSTANTS
  Cmds,      \* places for a command that is under way
  Tasks,
  Inputs,    \* what the programs ask for in each place
  Depth      \* the requests (tags) of a queue

Input ==
  [task : Tasks,
   kind : {"submit_io", "user_cmd", "uring"},
   node : {"head", "dev", "file"},   \* multipath head, controller for a namespace, or
                                     \* a file that keeps what the command needs
   queue : {"io", "admin"}, dir : {"READ", "WRITE"},
   data : BOOLEAN,                   \* a data buffer that is not empty
   metaLen : BOOLEAN,                \* a metadata length other than 0
   metaBuf : BOOLEAN,                \* a metadata buffer
   fixedVec : BOOLEAN,               \* a registered buffer and a vector
   polled : BOOLEAN,                 \* IO_URING_F_IOPOLL
   deletes : BOOLEAN]                \* an admin command that deletes the namespace

\* What the entry points let through: nvme_submit_io asks for a metadata buffer, ...
LegalSubmitIo(i) == i.kind = "submit_io" => i.queue = "io" /\ (i.metaLen => i.metaBuf)

\* ... the controller's node polls no command, the head's takes io commands only, ...
LegalUring(i) ==
  i.kind = "uring" => /\ i.polled => i.queue = "io"
                      /\ i.node = "head" => i.queue = "io"
                      /\ i.node # "dev" /\ ~i.deletes

\* ... and the deprecated ioctl of the controller is for io commands.
LegalIoctl(i) ==
  i.kind # "uring" => /\ ~i.polled /\ ~i.fixedVec
                      /\ i.deletes => i.kind = "user_cmd" /\ i.queue = "admin"
                      /\ i.node = "dev" => i.kind = "user_cmd" /\ i.queue = "io"

ASSUME InputAssumption ==
  /\ Inputs \in [Cmds -> SUBSET Input] /\ Depth \in Nat \ {0} /\ Tasks # {}
  /\ \A i \in UNION {Inputs[c] : c \in Cmds} : LegalSubmitIo(i) /\ LegalUring(i) /\ LegalIoctl(i)

Resources == {"request", "bio", "meta", "srcu", "ref"}

VARIABLES
  cmd,     \* the input of the command
  pc,      \* where the thread that issues it is
  holds,   \* how often the command holds each resource
  rq,      \* the request: its flags, req->bio and the device's outcome
  io,      \* the request's way: "none", "device", ... "done"
  out,     \* what the program gets: [ret, meta, orphan]
  ns       \* the namespace: "live", "unlinked" from the head, "dying" or "gone"

requestVars == <<cmd, pc, holds, rq, io, out, ns>>

Taken(c, R) ==
  [holds EXCEPT ![c] = [r \in Resources |-> IF r \in R THEN @[r] + 1 ELSE @[r]]]
Given(c, R) ==
  [holds EXCEPT ![c] = [r \in Resources |-> IF r \in R THEN @[r] - 1 ELSE @[r]]]

\* The resources a pointer stands for: none if it is NULL.
If(condition, r) == IF condition THEN {r} ELSE {}

NoInput ==
  [kind |-> "user_cmd", node |-> "file", queue |-> "io", dir |-> "READ", data |-> FALSE,
   metaLen |-> FALSE, metaBuf |-> FALSE, fixedVec |-> FALSE, polled |-> FALSE, deletes |-> FALSE,
   task |-> CHOOSE t \in Tasks : TRUE]
NoRequest == [nowait |-> FALSE, polled |-> FALSE, bio |-> FALSE, ran |-> "none"]
NoOutput == [ret |-> "none", meta |-> FALSE, orphan |-> FALSE]

RequestInit ==
  /\ cmd = [c \in Cmds |-> NoInput]
  /\ pc = [c \in Cmds |-> "idle"]
  /\ holds = [c \in Cmds |-> [r \in Resources |-> 0]]
  /\ rq = [c \in Cmds |-> NoRequest]
  /\ io = [c \in Cmds |-> "none"]
  /\ out = [c \in Cmds |-> NoOutput]
  /\ ns = "live"

Uring(c) == cmd[c].kind = "uring"

\* A command that io_uring issues again runs in a worker, not in its task.
InTask(c) == ~Uring(c) \/ rq[c].nowait

Busy(t) ==
  \E c \in Cmds : cmd[c].task = t /\ InTask(c) /\ pc[c] \notin {"idle", "over", "queued", "undefined"}

Over(c) == pc[c] = "over" \/ (pc[c] = "queued" /\ io[c] = "done")

\* The call returns; a reference or a lock that the entry took is dropped first.
Return(c, ret) ==
  /\ out' = [out EXCEPT ![c].ret = ret]
  /\ pc' = [pc EXCEPT ![c] = "leave"]

-----------------------------------------------------------------------------
(* The way in                                                              *)

\* A controller command on the multipath head.
ToController(c) == cmd[c].node = "head" /\ cmd[c].queue = "admin"

\* (mutant) the lock is kept for controller commands, too
EntryHolds_Locked(c) ==
  IF cmd[c].node = "head" THEN {"srcu"} ELSE If(cmd[c].node = "dev", "ref")

\* What the entry point takes for the time of the call: for a controller command on
\* the head only the controller, or its deletion of a namespace would wait for itself.
EntryHolds(c) ==
  If(ToController(c) \/ cmd[c].node = "dev", "ref")                 \* nvme_get_ctrl, kref_get
    \union If(cmd[c].node = "head" /\ ~ToController(c), "srcu")     \* srcu_read_lock

\* Is there a namespace?  nvme_find_path sees those linked to the head, the deprecated
\* ioctl of the controller those of its list, which they leave last.
Finds(node) == (node = "head" => ns = "live") /\ (node = "dev" => ns # "gone")

\* (mutant) the namespace is looked up, but the lock dropped at once
Enter_Unlocked(c) ==
  /\ pc[c] = "enter"
  /\ Finds(cmd[c].node)
  /\ holds' = IF cmd[c].node = "head" THEN holds ELSE Taken(c, EntryHolds(c))
  /\ pc' = [pc EXCEPT ![c] = IF ToController(c) THEN "ctrl" ELSE "alloc"]
  /\ UNCHANGED <<cmd, rq, io, out, ns>>

\* The entry points find the namespace: nvme_ns_head_ioctl and its like lock the
\* head's SRCU, but for a controller command only until they have a reference on
\* the controller.
Enter(c) ==
  /\ pc[c] = "enter"
  /\ Finds(cmd[c].node)
  /\ holds' = Taken(c, EntryHolds(c))
  /\ pc' = [pc EXCEPT ![c] = IF ToController(c) THEN "ctrl" ELSE "alloc"]
  /\ UNCHANGED <<cmd, rq, io, out, ns>>

\* No namespace, or the command is refused: its flags, opcode, namespace id,
\* metadata pointer or privileges (nvme_cmd_allowed).  Nothing is kept.
Refuse(c) ==
  /\ pc[c] = "enter"
  /\ pc' = [pc EXCEPT ![c] = "over"]
  /\ out' = [out EXCEPT ![c].ret = "error"]
  /\ UNCHANGED <<cmd, holds, rq, io, ns>>

\* nvme_ns_head_ctrl_ioctl reads ns->ctrl once more, when the lock is dropped: if
\* the namespace is gone its memory may be in other use.
ReadCtrl(c) ==
  /\ pc[c] = "ctrl"
  /\ \E next \in {"alloc"} \union If(ns = "gone", "undefined") : pc' = [pc EXCEPT ![c] = next]
  /\ UNCHANGED <<cmd, holds, rq, io, out, ns>>

-----------------------------------------------------------------------------
(* nvme_alloc_user_request, nvme_map_user_request                          *)

HasTag(q) == Cardinality({d \in Cmds : cmd[d].queue = q /\ holds[d]["request"] > 0}) < Depth

\* blk_mq_alloc_request; a queue that is dying gives out none.
Alloc(c) ==
  /\ pc[c] = "alloc" /\ HasTag(cmd[c].queue)
  /\ cmd[c].queue = "io" => ns \in {"live", "unlinked"}
  /\ holds' = Taken(c, {"request"})
  /\ rq' = [rq EXCEPT ![c].bio = FALSE]
  /\ pc' = [pc EXCEPT ![c] = "map"]
  /\ UNCHANGED <<cmd, io, out, ns>>

AllocFails(c) ==
  /\ pc[c] = "alloc"
  /\ \/ cmd[c].queue = "io" /\ ns \in {"dying", "gone"} /\ Return(c, "error")
     \/ ~HasTag(cmd[c].queue) /\ rq[c].nowait /\ Return(c, "again")
  /\ UNCHANGED <<cmd, holds, rq, io, ns>>

Mapped(c) == IF Uring(c) THEN "prepare" ELSE "execute"

\* The metadata is used with data and on a namespace only.
WithMeta(c) == cmd[c].data /\ cmd[c].queue = "io" /\ cmd[c].metaBuf /\ cmd[c].metaLen

Map(c) ==
  /\ pc[c] = "map" /\ cmd[c].data /\ ~cmd[c].fixedVec
  /\ rq' = [rq EXCEPT ![c].bio = TRUE]
  /\ holds' = Taken(c, {"bio"})
  /\ pc' = [pc EXCEPT ![c] = IF WithMeta(c) THEN "meta" ELSE Mapped(c)]
  /\ UNCHANGED <<cmd, io, out, ns>>

NothingToMap(c) ==
  /\ pc[c] = "map" /\ ~cmd[c].data
  /\ pc' = [pc EXCEPT ![c] = Mapped(c)]
  /\ UNCHANGED <<cmd, holds, rq, io, out, ns>>

\* `out': the request is freed here, the callers only return.  A registered buffer
\* with a vector is refused before that, and keeps it.
MapFails(c) ==
  /\ pc[c] = "map" /\ cmd[c].data
  /\ holds' = IF cmd[c].fixedVec THEN holds ELSE Given(c, {"request"})
  /\ Return(c, "error")
  /\ UNCHANGED <<cmd, rq, io, ns>>

AddMetadata(c) ==
  /\ pc[c] = "meta"
  /\ holds' = Taken(c, {"meta"})
  /\ pc' = [pc EXCEPT ![c] = Mapped(c)]
  /\ UNCHANGED <<cmd, rq, io, out, ns>>

\* (mutant) the buffer stays mapped
MetadataFails_Mapped(c) ==
  /\ pc[c] = "meta"
  /\ holds' = Given(c, {"request"})
  /\ Return(c, "error")
  /\ UNCHANGED <<cmd, rq, io, ns>>

\* `out_unmap'
MetadataFails(c) ==
  /\ pc[c] = "meta"
  /\ holds' = Given(c, {"bio", "request"})
  /\ Return(c, "error")
  /\ UNCHANGED <<cmd, rq, io, ns>>

-----------------------------------------------------------------------------
(* What both do when the command was executed                              *)

\* Failed: with a status of the device, or cancelled, which is -EINTR.
Outcomes == {"ok", "failed"}

\* (mutant) the metadata is copied when the command failed
Metadata_Inverted(c, orphan) ==
  IF rq[c].ran # "ok" /\ cmd[c].dir = "READ"
  THEN {<<rq[c].ran, TRUE>>, <<"error", FALSE>>} ELSE {<<rq[c].ran, FALSE>>}

\* nvme_finish_user_metadata: the status, and has the user got the metadata?  The copy may
\* fault, and without a buffer (NULL) it does.  An orphan has no address space to
\* copy to: it faults or misses the user.
Metadata(c, orphan) ==
  IF rq[c].ran = "ok" /\ cmd[c].dir = "READ"
  THEN {<<"error", FALSE>>} \union (IF holds[c]["meta"] = 1 THEN {<<"ok", ~orphan>>} ELSE {})
  ELSE {<<rq[c].ran, FALSE>>}
===============================================================================
