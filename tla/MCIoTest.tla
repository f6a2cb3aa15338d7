------------------------------- MODULE MCIoTest -------------------------------
(* A small instance of IoTest for TLC. *)
EXTENDS IoTest

AnyOutcome == AllOutcomes
BothPrograms == BOOLEAN
===============================================================================
