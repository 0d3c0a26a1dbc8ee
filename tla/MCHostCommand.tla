--------------------------- MODULE MCHostCommand ---------------------------
(* Two threads that use the host API. *)
EXTENDS HostCommand

CONSTANTS c1, c2

MCCallers  == {c1, c2}
MCOutcomes == {"ok", "error"}
=============================================================================
