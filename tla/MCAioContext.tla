----------------------------- MODULE MCAioContext -----------------------------
(* A small instance of AioContext, with its caller in the layer manager, for TLC. *)
EXTENDS AioMethod

TensorsDef == {[lba |-> 0, size |-> 1], [lba |-> 0, size |-> 3], [lba |-> 5, size |-> 3]}
===============================================================================
