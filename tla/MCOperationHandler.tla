-------------------------- MODULE MCOperationHandler --------------------------
(* Small instances of OperationHandler for TLC. *)
EXTENDS OperationHandler

AnyOutcome == AllOutcomes

\* Tensors of two full chunks, of one chunk and a bit, of two chunks and a half,
\* and of half a block.
SomeRequests ==
  {[op |-> o, slba |-> s[1], size |-> s[2]] :
     o \in {"READ", "WRITE"}, s \in {<<0, 8>>, <<1, 5>>, <<1, 10>>, <<3, 1>>}}

\* The same tensor of two chunks is written and read.
OneTensor == {[op |-> o, slba |-> 0, size |-> 8] : o \in {"READ", "WRITE"}}
=============================================================================
