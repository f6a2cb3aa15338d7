---------------------------- MODULE PassthruIoctl -----------------------------
(***************************************************************************)
(* The synchronous ioctls: nvme_submit_io, nvme_user_cmd, nvme_user_cmd64  *)
(* and nvme_submit_user_cmd, from where the request is mapped.             *)
(***************************************************************************)
EXTENDS UserRequest

\* nvme_execute_passthru_rq: the thread sleeps until the request is complete.
ExecuteSync(c) ==
  /\ pc[c] = "execute" /\ ~Uring(c)
  /\ io' = [io EXCEPT ![c] = "device"]
  /\ pc' = [pc EXCEPT ![c] = "wait"]
  /\ UNCHANGED <<cmd, holds, rq, out, ns>>

CompleteSync(c) ==
  /\ io[c] = "device" /\ ~Uring(c)
  /\ \E ran \in Outcomes : rq' = [rq EXCEPT ![c].ran = ran]
  /\ io' = [io EXCEPT ![c] = "completed"]
  /\ UNCHANGED <<cmd, pc, holds, out, ns>>

\* The metadata is finished, the buffer unmapped and the request freed.
FinishSync(c) ==
  /\ pc[c] = "wait" /\ io[c] = "completed"
  /\ \E m \in IF holds[c]["meta"] = 1 THEN Metadata(c, FALSE) ELSE {<<rq[c].ran, FALSE>>} :
       out' = [out EXCEPT ![c].ret = m[1], ![c].meta = m[2]]
  /\ holds' = Given(c, {"request"} \union If(rq[c].bio, "bio")
                         \union If(holds[c]["meta"] = 1, "meta"))
  /\ io' = [io EXCEPT ![c] = "none"]
  /\ pc' = [pc EXCEPT ![c] = "end"]
  /\ UNCHANGED <<cmd, rq, ns>>

\* The command deleted the namespace: nvme_passthru_end waits for its removal.
AwaitsRemoval(c) == pc[c] = "end" /\ cmd[c].deletes /\ rq[c].ran = "ok" /\ ns # "gone"

\* nvme_passthru_end; then nvme_user_cmd stores the result, which may fault.
EndSync(c) ==
  /\ pc[c] = "end" /\ ~AwaitsRemoval(c)
  /\ \/ Return(c, out[c].ret)
     \/ cmd[c].kind = "user_cmd" /\ out[c].ret \in Outcomes /\ Return(c, "error")
  /\ UNCHANGED <<cmd, holds, rq, io, ns>>

\* The lock or the reference of the entry point is dropped.
LeaveSync(c) ==
  /\ pc[c] = "leave" /\ ~Uring(c)
  /\ holds' = Given(c, EntryHolds(c))
  /\ pc' = [pc EXCEPT ![c] = "over"]
  /\ UNCHANGED <<cmd, rq, io, out, ns>>
===============================================================================
