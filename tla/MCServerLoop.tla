---------------------------- MODULE MCServerLoop ----------------------------
(* Two slots: the viewer's and one that everybody else competes for. *)
EXTENDS ServerLoop

MCSlots == 1..2
=============================================================================
