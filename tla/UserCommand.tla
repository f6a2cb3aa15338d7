----------------------------- MODULE UserCommand ------------------------------
(***************************************************************************)
(* What a pass-through command promises the program that issues it: the    *)
(* device executes it at most once, the program is told the outcome once,  *)
(* success is reported only of a command that succeeded, and when the      *)
(* outcome is known the kernel holds nothing of the command any more.      *)
(* NvmePassthru is checked against this module.                            *)
(***************************************************************************)
CONSTANT Cmds

VARIABLES
  state,     \* "idle", "issued" or "over"
  ran,       \* the device's outcome: "none", "ok" or "failed"
  reported,  \* what the program was told: "none", an outcome or an error
  held       \* does the kernel hold anything of the command?

vars == <<state, ran, reported, held>>

Init ==
  /\ state = [c \in Cmds |-> "idle"]
  /\ ran = [c \in Cmds |-> "none"]
  /\ reported = [c \in Cmds |-> "none"]
  /\ held = [c \in Cmds |-> FALSE]

Issue(c) ==
  /\ state[c] \in {"idle", "over"}
  /\ state' = [state EXCEPT ![c] = "issued"]
  /\ ran' = [ran EXCEPT ![c] = "none"]
  /\ reported' = [reported EXCEPT ![c] = "none"]
  /\ UNCHANGED held

Work(c) ==
  /\ state[c] = "issued"
  /\ held' \in [Cmds -> BOOLEAN] /\ \A d \in Cmds \ {c} : held'[d] = held[d]
  /\ UNCHANGED <<state, ran, reported>>

Execute(c) ==
  /\ state[c] = "issued" /\ ran[c] = "none" /\ held[c]
  /\ \E r \in {"ok", "failed"} : ran' = [ran EXCEPT ![c] = r]
  /\ held' \in [Cmds -> BOOLEAN] /\ \A d \in Cmds \ {c} : held'[d] = held[d]
  /\ UNCHANGED <<state, reported>>

Report(c) ==
  /\ state[c] = "issued"
  /\ state' = [state EXCEPT ![c] = "over"]
  /\ \E r \in {"ok", "failed", "error"} :
       /\ r # "error" => r = ran[c]
       /\ reported' = [reported EXCEPT ![c] = r]
  /\ held' = [held EXCEPT ![c] = FALSE]
  /\ UNCHANGED ran

Next == \E c \in Cmds : Issue(c) \/ Work(c) \/ Execute(c) \/ Report(c)

Spec == Init /\ [][Next]_vars
===============================================================================
