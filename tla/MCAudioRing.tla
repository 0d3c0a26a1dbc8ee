---------------------------- MODULE MCAudioRing ----------------------------
(* Two kinds of frames in a ring of three cells; a batch of up to four frames is
   longer than the ring. *)
EXTENDS AudioRing

CONSTANTS f1, f2

MCFrames == {f1, f2}
=============================================================================
