---------------------------- MODULE MCHostWorker ----------------------------
(* Two cartridges, one with and one without battery RAM. *)
EXTENDS HostWorker

CONSTANTS n1, n2, d1, d2

MCOneName == {n1}
MCNames   == {n1, n2}
MCData    == {d1, d2}

\* The cartridge without battery RAM has no file: nothing reads or writes it.
MCInit == HostInit /\ disk[n2] = Missing
MCSpec == MCInit /\ [][HostNext]_vars /\ HostFairness
=============================================================================
