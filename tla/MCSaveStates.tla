---------------------------- MODULE MCSaveStates ----------------------------
(* Two slots; three machine states, two of which share their battery RAM. *)
EXTENDS SaveStates

CONSTANTS s1, s2, m1, m2, m3, r1, r2

MCSlots    == {s1, s2}
MCMachines == {m1, m2, m3}
MCRam      == [m \in MCMachines |-> IF m = m2 THEN r2 ELSE r1]
MCFresh    == [r \in {r1, r2} |-> IF r = r2 THEN m2 ELSE m1]
=============================================================================
