------------------------------ MODULE MCUpload ------------------------------
(* Two daemons on one directory, the first with two clients.  Every body is *)
(* a ROM: one that rom_fd_valid refuses ends like an upload that fails for  *)
(* another reason (FinishFails), which any of them may.                     *)
EXTENDS Upload, TLC

CONSTANTS d1, d2, c1, c2, c3, n1, n2, rom

MCClients == {c1, c2, c3}
MCServer  == [c \in MCClients |-> IF c = c3 THEN d2 ELSE d1]
MCLength  == [b \in {rom} |-> 2]
MCNames   == {n1, n2}

\* The two clients of the first daemon, and the two names, are alike.
MCSymmetry == Permutations({c1, c2}) \cup Permutations(MCNames)
=============================================================================
