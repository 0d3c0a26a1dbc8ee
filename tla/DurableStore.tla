---------------------------- MODULE DurableStore ----------------------------
(***************************************************************************)
(* What the SRAM persistence of nesd promises to the emulation thread: a   *)
(* store with one value per name.  Until a save is acknowledged the name   *)
(* may be found with the old or with the new contents, also after a crash; *)
(* contents that were given up never come back; an acknowledged save       *)
(* leaves one candidate only.                                              *)
(***************************************************************************)
CONSTANTS
    Names,          \* what can be saved
    Data,           \* the values
    NoData          \* the value of a name nobody has saved

VARIABLES
    candidates,     \* per name, the contents a reader may find
    current,        \* <<name, data>> of the last save, <<>> after a restart
    settled         \* has the last save been acknowledged?

vars == <<candidates, current, settled>>

\* Candidates only disappear, and never the last one of a name.
Narrows(extra) ==
    /\ \A n \in Names : candidates'[n] # {}
    /\ \A n \in Names : candidates'[n] \subseteq candidates[n] \cup extra[n]

Nothing == [n \in Names |-> {}]

Save(n, d) ==
    /\ Narrows([Nothing EXCEPT ![n] = {d}])
    /\ d \in candidates'[n]
    /\ current' = <<n, d>>
    /\ settled' = FALSE

Settle ==
    /\ Narrows(Nothing)
    /\ UNCHANGED <<current, settled>>

Acknowledge ==
    /\ current # <<>>
    /\ ~settled
    /\ Narrows(Nothing)
    /\ candidates'[current[1]] = {current[2]}
    /\ settled' = TRUE
    /\ UNCHANGED current

Restart ==
    /\ Narrows(Nothing)
    /\ current' = <<>>
    /\ settled' = FALSE

Init ==
    /\ \E content \in [Names -> Data \cup {NoData}] :
         candidates = [n \in Names |-> {content[n]}]
    /\ current = <<>>
    /\ settled = FALSE

Next ==
    \/ \E n \in Names, d \in Data : Save(n, d)
    \/ Settle
    \/ Acknowledge
    \/ Restart

Spec == Init /\ [][Next]_vars
=============================================================================
