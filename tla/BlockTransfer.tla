---------------------------- MODULE BlockTransfer ----------------------------
(***************************************************************************)
(* What every transfer routine of the repository promises its caller: a    *)
(* request for a set of blocks is begun, the blocks are moved in any order *)
(* and any grouping, and the routine returns success only when every block *)
(* of the request was moved.  A routine that cannot keep that promise must *)
(* stop (the program, or at least this use of the device) instead of       *)
(* returning success.  The transfer programs are checked against this      *)
(* module with INSTANCE.                                                   *)
(***************************************************************************)

CONSTANT Blocks        \* the blocks a request can name

VARIABLES
  state,               \* "idle", "busy" (a request is under way) or "stopped"
  request,             \* the blocks of the current or last request
  moved                \* those of them that were moved

vars == <<state, request, moved>>

Init ==
  /\ state = "idle"
  /\ request \in SUBSET Blocks
  /\ moved = {}

Begin ==
  /\ state = "idle"
  /\ state' = "busy"
  /\ request' \in SUBSET Blocks
  /\ moved' = {}

Move ==
  /\ state = "busy"
  /\ moved \subseteq moved'
  /\ moved' \subseteq request
  /\ UNCHANGED <<state, request>>

\* The only way back to "idle": a request that returns success is complete.
Succeed ==
  /\ state = "busy"
  /\ moved = request
  /\ state' = "idle"
  /\ UNCHANGED <<request, moved>>

Stop ==
  /\ state \in {"idle", "busy"}
  /\ state' = "stopped"
  /\ UNCHANGED <<request, moved>>

Next == Begin \/ Move \/ Succeed \/ Stop

Spec == Init /\ [][Next]_vars
=============================================================================
