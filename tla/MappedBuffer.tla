----------------------------- MODULE MappedBuffer -----------------------------
(***************************************************************************)
(* What mapping a user's buffer into a request promises the driver that    *)
(* asks for it: either the request covers the whole buffer, or the call    *)
(* fails and nothing is held; and what is held is given back when the      *)
(* driver unmaps the request.  BioMap is checked against this module.      *)
(***************************************************************************)
EXTENDS Naturals

VARIABLES
  state,     \* "idle", "busy" (the call is under way) or "mapped"
  wanted,    \* the size of the buffer
  covered,   \* how much of it the request covers
  held       \* the pages that are pinned or allocated for it

vars == <<state, wanted, covered, held>>

Nothing == covered = 0 /\ held = {}

Init == state = "idle" /\ wanted = 0 /\ Nothing

Begin ==
  /\ state = "idle" /\ state' = "busy"
  /\ wanted' \in Nat
  /\ UNCHANGED <<covered, held>>

Work ==
  /\ state = "busy"
  /\ covered' <= wanted
  /\ UNCHANGED <<state, wanted>>

Succeed ==
  /\ state = "busy" /\ state' = "mapped"
  /\ covered' = wanted
  /\ UNCHANGED <<wanted, held>>

GiveUp ==
  /\ state = "busy" /\ state' = "idle"
  /\ Nothing'
  /\ UNCHANGED wanted

Release ==
  /\ state = "mapped" /\ state' = "idle"
  /\ Nothing'
  /\ UNCHANGED wanted

Next == Begin \/ Work \/ Succeed \/ GiveUp \/ Release

Spec == Init /\ [][Next]_vars
=============================================================================
