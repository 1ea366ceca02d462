--------------------------- MODULE MCOpenPosition ---------------------------
(* Small instances of OpenPosition for TLC. *)
EXTENDS OpenPosition
=============================================================================
