------------------------------ MODULE MCBrowser ------------------------------
(* Two connections may overlap: the current one and one that is ending. *)
EXTENDS Browser

MCSockets == 1..2
=============================================================================
