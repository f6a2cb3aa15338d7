------------------------------- MODULE UringCmd -------------------------------
(***************************************************************************)
(* The io_uring commands: nvme_uring_cmd_io from where the request is      *)
(* mapped, and the completion, which runs on any CPU as soon as the        *)
(* request was started.  What the completion needs is kept in a part of    *)
(* the io_uring command (nvme_uring_cmd_pdu) of which two pieces are       *)
(* unions: bio or request, and metadata or result.                         *)
(***************************************************************************)
EXTENDS UserRequest

VARIABLES
  pdu,      \* [ptr, u, status]: ptr is "null", "bio" or "req", u "meta" or "result"
  cookie,   \* is ioucmd->cookie set?
  exited    \* the tasks that exited

NoPdu == [ptr |-> "null", u |-> "none", status |-> "none"]

UringInit ==
  /\ pdu = [c \in Cmds |-> NoPdu]
  /\ cookie = [c \in Cmds |-> FALSE]
  /\ exited = {}

\* A request without a bio cannot be polled: it is freed and another allocated.
RetryUnpolled(c) ==
  /\ pc[c] = "prepare" /\ rq[c].polled /\ ~rq[c].bio
  /\ holds' = Given(c, {"request"})
  /\ rq' = [rq EXCEPT ![c].polled = FALSE]
  /\ pc' = [pc EXCEPT ![c] = "alloc"]
  /\ UNCHANGED <<cmd, io, out, ns, pdu, cookie, exited>>

\* The cookie and the pdu are set before the request is started.
Prepare(c) ==
  /\ pc[c] = "prepare" /\ (rq[c].polled => rq[c].bio)
  /\ cookie' = [cookie EXCEPT ![c] = rq[c].polled]
  /\ pdu' = [pdu EXCEPT ![c] = [ptr |-> IF rq[c].bio THEN "bio" ELSE "null",
                                u |-> IF cmd[c].metaLen THEN "meta" ELSE "none",
                                status |-> "none"]]
  /\ pc' = [pc EXCEPT ![c] = "execute"]
  /\ UNCHANGED <<cmd, holds, rq, io, out, ns, exited>>

\* blk_execute_rq_nowait; -EIOCBQUEUED.
ExecuteNowait(c) ==
  /\ pc[c] = "execute" /\ Uring(c)
  /\ io' = [io EXCEPT ![c] = "device"]
  /\ Return(c, "queued")
  /\ UNCHANGED <<cmd, holds, rq, ns, pdu, cookie, exited>>

\* The lock is dropped and the call returns.  After -EAGAIN io_uring issues the
\* command again in a worker, which may wait.
LeaveUring(c) ==
  /\ pc[c] = "leave" /\ Uring(c)
  /\ holds' = Given(c, EntryHolds(c))
  /\ \/ out[c].ret = "again"
        /\ pc' = [pc EXCEPT ![c] = "enter"]
        /\ rq' = [rq EXCEPT ![c].nowait = FALSE, ![c].polled = cmd[c].polled]
     \/ out[c].ret # "again"
        /\ pc' = [pc EXCEPT ![c] = IF out[c].ret = "error" /\ io[c] = "none" THEN "over" ELSE "queued"]
        /\ UNCHANGED rq
  /\ UNCHANGED <<cmd, io, out, ns, pdu, cookie, exited>>

\* In the poller, or in task work of the task?  (A queue without polling ignores the flag.)
Ways(c) == {"task_work"} \union If(cookie[c] /\ rq[c].polled, "inline")

\* nvme_uring_cmd_end_io: the outcome is kept, the request is freed: in the
\* poller after the callback, otherwise here.
EndIo(c) ==
  /\ io[c] = "device" /\ Uring(c) /\ ~cmd[c].metaLen
  /\ \E ran \in Outcomes, way \in Ways(c) :
       /\ rq' = [rq EXCEPT ![c].ran = ran, ![c].bio = (pdu[c].ptr = "bio")]
       /\ pdu' = [pdu EXCEPT ![c].u = "result", ![c].status = ran]
       /\ io' = [io EXCEPT ![c] = way]
       /\ holds' = IF way = "inline" THEN holds ELSE Given(c, {"request"})
  /\ UNCHANGED <<cmd, pc, out, ns, cookie, exited>>

\* (mutant) pdu->req is set first, over pdu->bio
EndIoMeta_Swapped(c) ==
  /\ io[c] = "device" /\ Uring(c) /\ cmd[c].metaLen
  /\ \E ran \in Outcomes, way \in Ways(c) :
       /\ rq' = [rq EXCEPT ![c].ran = ran, ![c].bio = FALSE]
       /\ io' = [io EXCEPT ![c] = way]
  /\ pdu' = [pdu EXCEPT ![c].ptr = "req"]
  /\ UNCHANGED <<cmd, pc, holds, out, ns, cookie, exited>>

\* nvme_uring_cmd_end_io_meta: the request goes into the pdu, in the bio's place,
\* and is kept for the callback.
EndIoMeta(c) ==
  /\ io[c] = "device" /\ Uring(c) /\ cmd[c].metaLen
  /\ \E ran \in Outcomes, way \in Ways(c) :
       /\ rq' = [rq EXCEPT ![c].ran = ran, ![c].bio = (pdu[c].ptr = "bio")]
       /\ io' = [io EXCEPT ![c] = way]
  /\ pdu' = [pdu EXCEPT ![c].ptr = "req"]
  /\ UNCHANGED <<cmd, pc, holds, out, ns, cookie, exited>>

Orphan(c) == cmd[c].task \in exited

\* The poller (nvme_ns_head_chr_uring_cmd_iopoll) runs the callback where it found the
\* completion.  Task work runs when the task returns to user mode, or in a worker if it exited.
CanRun(c) == io[c] = "inline" \/ (io[c] = "task_work" /\ (Orphan(c) \/ ~Busy(cmd[c].task)))

\* io_uring_cmd_done; the command goes, and its pdu with it.
Done(c, ret, meta) ==
  /\ out' = [out EXCEPT ![c] = [ret |-> ret, meta |-> meta, orphan |-> Orphan(c)]]
  /\ io' = [io EXCEPT ![c] = "done"]
  /\ cookie' = [cookie EXCEPT ![c] = FALSE]
  /\ pdu' = [pdu EXCEPT ![c] = NoPdu]

\* nvme_uring_task_cb
TaskCb(c) ==
  /\ CanRun(c) /\ ~cmd[c].metaLen
  /\ Done(c, pdu[c].status, FALSE)
  /\ holds' = Given(c, If(pdu[c].ptr # "null", "bio") \union If(io[c] = "inline", "request"))
  /\ UNCHANGED <<cmd, pc, rq, ns, exited>>

\* (mutant) the bio is looked for in the pdu, where the request is by now
TaskMetaCb_PduBio(c) ==
  /\ CanRun(c) /\ cmd[c].metaLen
  /\ \E m \in Metadata(c, Orphan(c)) : Done(c, m[1], m[2])
  /\ holds' = Given(c, {"request"} \union If(pdu[c].ptr = "bio", "bio")
                         \union If(holds[c]["meta"] = 1, "meta"))
  /\ UNCHANGED <<cmd, pc, rq, ns, exited>>

\* nvme_uring_task_meta_cb
TaskMetaCb(c) ==
  /\ CanRun(c) /\ cmd[c].metaLen
  /\ \E m \in Metadata(c, Orphan(c)) : Done(c, m[1], m[2])
  /\ holds' = Given(c, {"request"} \union If(rq[c].bio, "bio")
                         \union If(holds[c]["meta"] = 1, "meta"))
  /\ UNCHANGED <<cmd, pc, rq, ns, exited>>
===============================================================================
