---------------------------- MODULE NvmePassthru ------------------------------
(***************************************************************************)
(* The pass-through interface of the NVMe driver: synchronous ioctls       *)
(* (PassthruIoctl) and io_uring commands (UringCmd) of several tasks on    *)
(* one controller, with the tags of its two queues, a namespace that may   *)
(* be removed at any time, and tasks that exit before their commands are   *)
(* complete.  Task work, tags, SRCU and the removal of a namespace are     *)
(* modelled from how ioctl.c uses them.                                    *)
(***************************************************************************)
EXTENDS PassthruIoctl, UringCmd

uringVars == <<pdu, cookie, exited>>
vars == <<requestVars, uringVars>>

Init == RequestInit /\ UringInit

\* A program issues a command; io_uring tries it without waiting first.  A place whose
\* command left its request behind (MapFails) goes on standing for that request.
Start(c, in) ==
  /\ pc[c] = "idle" \/ (Over(c) /\ holds[c]["request"] = 0)
  /\ in.task \notin exited /\ ~Busy(in.task)
  /\ cmd' = [cmd EXCEPT ![c] = in]
  /\ pc' = [pc EXCEPT ![c] = "enter"]
  /\ rq' = [rq EXCEPT ![c] = [NoRequest EXCEPT !.nowait = (in.kind = "uring"), !.polled = in.polled]]
  /\ io' = [io EXCEPT ![c] = "none"]
  /\ out' = [out EXCEPT ![c] = NoOutput]
  /\ pdu' = [pdu EXCEPT ![c] = NoPdu]
  /\ cookie' = [cookie EXCEPT ![c] = FALSE]
  /\ UNCHANGED <<holds, ns, exited>>

\* A task exits when it is in no call and its workers are done.  (An exit that leaves
\* no command behind is that of a task that issues no more.)
Exit(t) ==
  /\ t \notin exited
  /\ \A c \in Cmds : cmd[c].task = t => pc[c] \in {"idle", "over", "queued", "undefined"}
  /\ \E c \in Cmds : cmd[c].task = t /\ pc[c] = "queued" /\ io[c] # "done"
  /\ exited' = exited \union {t}
  /\ UNCHANGED <<requestVars, pdu, cookie>>

\* The namespace is removed: because a command deleted it, or for another reason.
Unlink ==
  /\ ns = "live" /\ ns' = "unlinked"
  /\ UNCHANGED <<cmd, pc, holds, rq, io, out, uringVars>>

\* Its removal waits for the readers of the SRCU, then nobody gets a request of its
\* queue, then it waits for those that are left.
Dying ==
  /\ ns = "unlinked" /\ ns' = "dying"
  /\ \A c \in Cmds : holds[c]["srcu"] = 0
  /\ UNCHANGED <<cmd, pc, holds, rq, io, out, uringVars>>

Gone ==
  /\ ns = "dying" /\ ns' = "gone"
  /\ \A c \in Cmds : cmd[c].queue = "io" => holds[c]["request"] = 0
  /\ UNCHANGED <<cmd, pc, holds, rq, io, out, uringVars>>

RequestStep(c) ==
  /\ \/ Enter(c) \/ Refuse(c) \/ ReadCtrl(c) \/ Alloc(c) \/ AllocFails(c)
     \/ Map(c) \/ NothingToMap(c) \/ MapFails(c) \/ AddMetadata(c) \/ MetadataFails(c)
  /\ UNCHANGED uringVars

SyncStep(c) ==
  /\ ExecuteSync(c) \/ FinishSync(c) \/ EndSync(c) \/ LeaveSync(c)
  /\ UNCHANGED uringVars

UringStep(c) == RetryUnpolled(c) \/ Prepare(c) \/ ExecuteNowait(c) \/ LeaveUring(c)

\* What the thread that issues the command does, the device, and task work.
Thread(c) == RequestStep(c) \/ SyncStep(c) \/ UringStep(c)
Device(c) == (CompleteSync(c) /\ UNCHANGED uringVars) \/ EndIo(c) \/ EndIoMeta(c)
TaskWork(c) == TaskCb(c) \/ TaskMetaCb(c)

Next ==
  \/ \E c \in Cmds : (\E in \in Inputs[c] : Start(c, in))
                     \/ Thread(c) \/ Device(c) \/ TaskWork(c)
  \/ \E t \in Tasks : Exit(t)
  \/ Unlink \/ Dying \/ Gone

\* Threads run, the device answers (or the driver's timeout does), a removal that
\* can go on does, and so does the one a deleting command waits for.  Tags go to the
\* waiting threads in turn, and task work runs when its task returns from a call:
\* both are enabled again and again, not always.
Fairness ==
  /\ \A c \in Cmds :
       /\ WF_vars(Thread(c)) /\ WF_vars(Device(c))
       /\ SF_vars(Alloc(c) /\ UNCHANGED uringVars) /\ SF_vars(TaskWork(c))
  /\ WF_vars(Dying \/ Gone)
  /\ WF_vars(Unlink /\ \E c \in Cmds : AwaitsRemoval(c))

Spec == Init /\ [][Next]_vars /\ Fairness

-----------------------------------------------------------------------------
(* Properties                                                              *)

Place == {"idle", "enter", "ctrl", "alloc", "map", "meta", "prepare", "execute", "wait", "end",
          "leave", "queued", "over", "undefined"}
Request == [nowait : BOOLEAN, polled : BOOLEAN, bio : BOOLEAN, ran : Outcomes \union {"none"}]
Way == {"none", "device", "completed", "task_work", "inline", "done"}
Output == [ret : Outcomes \union {"none", "error", "again", "queued"},
           meta : BOOLEAN, orphan : BOOLEAN]
Pdu == [ptr : {"null", "bio", "req"}, u : {"none", "meta", "result"},
        status : Outcomes \union {"none"}]

\* Types.  In particular no path of the error handling, the retry or the
\* completions takes a resource twice or gives it back twice.
TypeOK ==
  /\ cmd \in [Cmds -> Input] /\ pc \in [Cmds -> Place] /\ holds \in [Cmds -> [Resources -> 0..1]]
  /\ rq \in [Cmds -> Request] /\ io \in [Cmds -> Way] /\ out \in [Cmds -> Output]
  /\ pdu \in [Cmds -> Pdu] /\ cookie \in [Cmds -> BOOLEAN]
  /\ exited \subseteq Tasks /\ ns \in {"live", "unlinked", "dying", "gone"}

Has(c, r) == holds[c][r] = 1

\* While the device works on a command its request, the user's pages and the
\* metadata stay: no path of the submitter, which may be gone by then, frees them.
\* When the command is over none of them, nor a lock or reference, is left, whichever
\* step failed; but see FixedVectorHoldsNothing.
HeldUntilDone ==
  \A c \in Cmds :
    /\ io[c] = "device" => /\ Has(c, "request")
                           /\ Has(c, "bio") = cmd[c].data
                           /\ Has(c, "meta") = WithMeta(c)
    /\ Over(c) /\ ~cmd[c].fixedVec => \A r \in Resources : ~Has(c, r)

\* nvme_uring_task_cb and nvme_uring_task_meta_cb take out of the unions of the pdu
\* what was last put into them: a result where a result is, a request where a
\* request is, and the bio that is still held.
PduReadAsWritten ==
  \A c \in Cmds :
    io[c] \in {"task_work", "inline"} =>
      IF cmd[c].metaLen
      THEN /\ pdu[c].ptr = "req" /\ Has(c, "request") /\ pdu[c].u = "meta"
           /\ rq[c].bio = Has(c, "bio")
      ELSE /\ pdu[c].ptr # "req" /\ pdu[c].u = "result"
           /\ (pdu[c].ptr = "bio") = Has(c, "bio")

\* nvme_ns_head_ioctl and its like: from when the namespace was found until the lock
\* is dropped, its removal does not get to shut down the queue, let alone to free it.
NsOutlivesUse ==
  \A c \in Cmds :
    cmd[c].node = "head" /\ ~ToController(c)
      /\ pc[c] \in {"alloc", "map", "meta", "prepare", "execute", "wait", "end", "leave"}
    => ns \in {"live", "unlinked"}

\* A command that succeeded has brought its metadata to the user, if it still has an
\* address space, although the metadata passes through a kernel buffer that is copied
\* after the command completed (nvme_finish_user_metadata).
MetadataDelivered ==
  \A c \in Cmds :
    Over(c) /\ out[c].ret = "ok" /\ cmd[c].dir = "READ" /\ WithMeta(c) /\ ~out[c].orphan
    => out[c].meta

\* A task in a call that waits: for a tag, or for the removal of a namespace.
Waits(c) ==
  /\ ~Uring(c)
  /\ (pc[c] = "alloc" /\ ~HasTag(cmd[c].queue)) \/ AwaitsRemoval(c)

\* The request of a completed io_uring command with metadata is only freed by task
\* work (RQ_END_IO_NONE), which a task that waits for that request does not get to.
SelfWait ==
  \E c, d \in Cmds :
    /\ Waits(c) /\ cmd[d].task = cmd[c].task
    /\ io[d] = "task_work" /\ Has(d, "request")

\* Every command is over in the end, with a single tag and a namespace that may be
\* deleted by one of them, unless a task waits for its own task work for ever.
EndsUnlessSelfWait ==
  (\A c \in Cmds : pc[c] # "idle" ~> (Over(c) \/ pc[c] = "undefined")) \/ <>[]SelfWait

\* What the program sees of a command, and whether the kernel holds anything of it.
CommandState(c) == IF pc[c] = "idle" THEN "idle" ELSE IF Over(c) THEN "over" ELSE "issued"
Reported(c) == IF Over(c) THEN out[c].ret ELSE "none"
Held(c) == \E r \in Resources : holds[c][r] # 0

\* The interface keeps the promise of UserCommand.
Abstract == INSTANCE UserCommand WITH
  state <- [c \in Cmds |-> CommandState(c)],
  ran <- [c \in Cmds |-> rq[c].ran],
  reported <- [c \in Cmds |-> Reported(c)],
  held <- [c \in Cmds |-> Held(c)]

\* Executed at most once, told the outcome once, success only of a command that
\* succeeded, nothing held afterwards: nvme_uring_cmd_io, nvme_submit_user_cmd and
\* the completions together implement UserCommand.
RefinesUserCommand == Abstract!Spec

\* A registered buffer is "only for non-vectored io" (ioctl.c:185): a command that
\* combines both is refused like any other and leaves nothing behind.
FixedVectorHoldsNothing ==
  \A c \in Cmds : Over(c) /\ cmd[c].fixedVec => \A r \in Resources : ~Has(c, r)
===============================================================================
