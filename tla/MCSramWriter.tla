---------------------------- MODULE MCSramWriter ----------------------------
(* Two ROMs, two contents, three snapshots per life of the process. *)
EXTENDS SramWriter

CONSTANTS n1, n2, d1, d2

MCNames == {n1, n2}
MCData  == {d1, d2}
=============================================================================
