----------------------------- MODULE AudioRing -----------------------------
(***************************************************************************)
(* The PCM ring between the emulation thread and the network thread of     *)
(* nesd (audio_push_frames, clear_audio and host_copy_audio in host.c).    *)
(* Every operation is one critical section of audio_mu.                    *)
(***************************************************************************)
EXTENDS Integers, Sequences

CONSTANTS
    Frames,         \* stereo frames
    Silence,        \* what the zeroed ring holds at first
    N,              \* NES_AUDIO_RING_FRAMES
    MaxBatch        \* bound: frames pushed or copied at once

ASSUME RingAssumption ==
    /\ N \in Nat \ {0}
    /\ MaxBatch \in Nat \ {0}
    /\ Silence \notin Frames

VARIABLES
    ring,           \* audio_ring, one cell per frame
    r, w, count,    \* audio_r, audio_w, audio_count
    out             \* what the last host_copy_audio copied

ringVars == <<ring, r, w, count, out>>

Batches == UNION {[1..n -> Frames] : n \in 1..MaxBatch}

-----------------------------------------------------------------------------
\* The two memcpy calls of audio_push_frames: up to the end of the ring, and
\* the rest from its start.
Store(at, batch) ==
    LET first == IF N - at > Len(batch) THEN Len(batch) ELSE N - at
    IN  [i \in 0..N-1 |->
            IF at <= i /\ i < at + first THEN batch[i - at + 1]
            ELSE IF i < Len(batch) - first THEN batch[first + i + 1]
            ELSE ring[i]]

\* Fault: the reader is not moved past the frames that were overwritten.
PushOverReader(batch) ==
    LET whole == Len(batch) >= N
        kept  == IF whole THEN SubSeq(batch, Len(batch) - N + 1, Len(batch))
                          ELSE batch
        n     == Len(kept)
        start == IF whole THEN 0 ELSE w
    IN  /\ r' = IF whole THEN 0 ELSE r
        /\ ring' = Store(start, kept)
        /\ w' = (start + n) % N
        /\ count' = IF count + n > N THEN N ELSE count + n
        /\ UNCHANGED out

\* A batch that fills the ring replaces it; otherwise the oldest frames make
\* room.
Push(batch) ==
    LET whole   == Len(batch) >= N
        kept    == IF whole THEN SubSeq(batch, Len(batch) - N + 1, Len(batch))
                            ELSE batch
        n       == Len(kept)
        dropped == IF count + n > N THEN count + n - N ELSE 0
        start   == IF whole THEN 0 ELSE w
    IN  /\ r' = IF whole THEN 0 ELSE (r + dropped) % N
        /\ ring' = Store(start, kept)
        /\ w' = (start + n) % N
        /\ count' = IF whole THEN n ELSE count - dropped + n
        /\ UNCHANGED out

\* clear_audio
Clear ==
    /\ r' = 0 /\ w' = 0 /\ count' = 0
    /\ UNCHANGED <<ring, out>>

\* host_copy_audio: discard what is older than the recent window, then copy
\* at most max frames, again in two pieces.
Copy(max, recent) ==
    LET stale  == IF count > recent THEN count - recent ELSE 0
        start  == (r + stale) % N
        fresh  == count - stale
        copied == IF fresh < max THEN fresh ELSE max
        first  == IF N - start > copied THEN copied ELSE N - start
    IN  /\ out' = [i \in 1..copied |->
                      IF i <= first THEN ring[start + i - 1]
                                    ELSE ring[i - first - 1]]
        /\ r' = (start + copied) % N
        /\ count' = fresh - copied
        /\ UNCHANGED <<ring, w>>

RingInit ==
    /\ ring = [i \in 0..N-1 |-> Silence]
    /\ r = 0 /\ w = 0 /\ count = 0
    /\ out = <<>>

PushAny == \E batch \in Batches : Push(batch)
CopyAny == \E max \in 1..MaxBatch, recent \in 1..N : Copy(max, recent)

RingNext == PushAny \/ CopyAny \/ Clear

RingSpec == RingInit /\ [][RingNext]_ringVars

-----------------------------------------------------------------------------
(* Properties *)

\* What the ring holds, oldest first.
Contents == [i \in 1..count |-> ring[(r + i - 1) % N]]

\* Indices stay inside the ring, and a copy returns stored frames only.
RingTypeOK ==
    /\ ring \in [0..N-1 -> Frames \cup {Silence}]
    /\ r \in 0..N-1 /\ w \in 0..N-1 /\ count \in 0..N
    /\ out \in Seq(Frames)

\* Indices and count agree: the writer continues exactly where the contents
\* end, so neither wrap-around nor dropping ever exposes a stale cell.
RingShape == w = (r + count) % N

Fifo == INSTANCE LatestFifo WITH Capacity <- N, queue <- Contents

\* The ring is a queue that drops only its oldest frames.
ImplementsFifo == Fifo!Spec
=============================================================================
