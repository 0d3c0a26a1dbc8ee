----------------------------- MODULE LatestFifo -----------------------------
(***************************************************************************)
(* What the audio ring of nesd promises: a queue that never blocks its     *)
(* producer.  It keeps the newest frames in order, loses only the oldest,  *)
(* and a consumer that fell behind gets recent sound, not old sound.       *)
(***************************************************************************)
EXTENDS Integers, Sequences

CONSTANTS
    Frames,
    Capacity,       \* frames the queue holds
    MaxBatch        \* bound: frames pushed or pulled at once

VARIABLES
    queue,          \* oldest frame first
    out             \* what the last pull returned

vars == <<queue, out>>

Newest(s, n) == SubSeq(s, (IF Len(s) > n THEN Len(s) - n ELSE 0) + 1, Len(s))

Batches == UNION {[1..n -> Frames] : n \in 1..MaxBatch}

Push(batch) ==
    /\ queue' = Newest(queue \o batch, Capacity)
    /\ UNCHANGED out

\* At most `recent' frames survive, at most `max' of them are returned.
Pull(max, recent) ==
    LET fresh == Newest(queue, recent)
        n == IF Len(fresh) < max THEN Len(fresh) ELSE max
    IN  /\ out' = SubSeq(fresh, 1, n)
        /\ queue' = SubSeq(fresh, n + 1, Len(fresh))

Clear ==
    /\ queue' = <<>>
    /\ UNCHANGED out

Init == queue = <<>> /\ out = <<>>

Next ==
    \/ \E batch \in Batches : Push(batch)
    \/ \E max \in 1..MaxBatch, recent \in 1..Capacity : Pull(max, recent)
    \/ Clear

Spec == Init /\ [][Next]_vars
=============================================================================
