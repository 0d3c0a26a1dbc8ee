--------------------------- MODULE MCVideoStream ---------------------------
(* Instances of VideoStream for TLC. *)
EXTENDS VideoStream

TwoRates == {1, 2}
=============================================================================
