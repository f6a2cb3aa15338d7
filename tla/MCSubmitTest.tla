----------------------------- MODULE MCSubmitTest -----------------------------
(* Small instances of SubmitTest for TLC. *)
EXTENDS SubmitTest

\* A device that reports every failure as an errno, and one that does not.
BothDevices == {{"ok", "errno"}, {"ok", "errno", "status"}}
ErrnoDevice == {{"ok", "errno"}}
=============================================================================
