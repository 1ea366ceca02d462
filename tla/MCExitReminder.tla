--------------------------- MODULE MCExitReminder ---------------------------
(* Small instances of ExitReminder for TLC. *)
EXTENDS ExitReminder
=============================================================================
