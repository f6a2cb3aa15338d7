---------------------------- MODULE MCNvmePassthru ----------------------------
(* Small instances of NvmePassthru for TLC. *)
EXTENDS NvmePassthru, TLC

CONSTANTS t1, t2, c1, c2

Command(t, k, n) ==
  [NoInput EXCEPT !.task = t, !.kind = k, !.node = n, !.data = TRUE]
Meta(i) == [i EXCEPT !.metaLen = TRUE, !.metaBuf = TRUE]

ReadMeta == Meta(Command(t1, "submit_io", "head"))
Write == [Command(t1, "user_cmd", "dev") EXCEPT !.dir = "WRITE"]
Delete == [Command(t1, "user_cmd", "head") EXCEPT !.queue = "admin", !.data = FALSE, !.deletes = TRUE]
UringMeta == Meta(Command(t1, "uring", "file"))

Polled == [Command(t2, "uring", "head") EXCEPT !.polled = TRUE]
PolledNoData == [Command(t2, "uring", "file") EXCEPT !.polled = TRUE, !.data = FALSE]
MetaNoData == [Command(t2, "uring", "file") EXCEPT !.queue = "admin", !.data = FALSE, !.metaLen = TRUE]

\* One program mixes ioctls and io_uring, another one polls.
SomeInputs == (c1 :> {ReadMeta, Write, Delete, UringMeta})
           @@ (c2 :> {UringMeta, Polled, PolledNoData, Meta(Polled), MetaNoData})

VectoredFixed == [c \in {c1, c2} |-> {[Command(t1, "uring", "file") EXCEPT !.fixedVec = TRUE]}]
===============================================================================
