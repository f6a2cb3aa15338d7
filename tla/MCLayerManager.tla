----------------------------- MODULE MCLayerManager -----------------------------
(* Small instances of LayerManager for TLC. *)
EXTENDS LayerManager

\* std::map<string, ...> puts "10" before "2".
LayerOrder == <<10, 2>>

ParamFile(l, n) == [dir |-> "bfloat16params", id |-> l, numel |-> n, slot |-> "param16"]
OptimizerFile(h, n, s) == [dir |-> "optimizer", id |-> h, numel |-> n, slot |-> s]

\* Two layers of 4 elements, and two files of one hash that may be linked to either of
\* them: one states the layers' number of elements, the other 6.
SomeFiles ==
  {ParamFile(2, 4), ParamFile(10, 4), OptimizerFile(102, 4, "param32"),
   OptimizerFile(102, 6, "variance32")}

TensorLayer == [h \in {102} |-> h - 100]
===============================================================================
