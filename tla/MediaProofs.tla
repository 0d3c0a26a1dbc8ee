---------------------------- MODULE MediaProofs ----------------------------
(***************************************************************************)
(* Proofs about the two streams of the console: the PCM ring, for every    *)
(* capacity and every batch size, and the video stream, for any number of  *)
(* pictures, viewers and host commands, with and without the encoder       *)
(* thread.                                                                 *)
(***************************************************************************)
EXTENDS AudioRing, VideoStream, SequenceTheorems, TLAPS

-----------------------------------------------------------------------------
(* The ring: its indices stay consistent, and it implements LatestFifo.    *)
(* All arithmetic modulo N is reduced to a case distinction by ModSmall.   *)

\* Sums of two ring indices wrap around at most once.
LEMMA ModSmall ==
    ASSUME NEW x \in Nat, x < 2 * N
    PROVE  x % N = IF x < N THEN x ELSE x - N
<1>1. N \in Nat /\ N > 0
  BY RingAssumption
<1>2. CASE x < N
  BY <1>1, <1>2
<1>3. CASE x >= N
  <2> DEFINE y == x - N
  <2>1. y \in 0..N-1 /\ x = y + N
    BY <1>1, <1>3
  <2>2. y % N = y
    BY <1>1, <2>1
  <2>3. (y + N) % N = y % N
    BY <1>1, <2>1
  <2> QED
    BY <2>1, <2>2, <2>3, <1>1, <1>3
<1> QED
  BY <1>1, <1>2, <1>3

\* The cell k places after cell a.
Step(a, k) == IF a + k < N THEN a + k ELSE a + k - N

\* Stepping ahead in the ring is the % of the C code.
LEMMA StepIsMod ==
    ASSUME NEW a \in 0..N-1, NEW k \in 0..N
    PROVE  (a + k) % N = Step(a, k) /\ Step(a, k) \in 0..N-1
BY RingAssumption, ModSmall DEF Step

\* Two ways around the ring that differ by a whole turn end in one cell.
LEMMA StepSum ==
    ASSUME NEW a \in 0..N-1, NEW i \in 0..N, NEW j \in 0..N,
           NEW k \in 0..N, NEW l \in 0..N,
           i + j = k + l \/ i + j = k + l + N \/ i + j + N = k + l
    PROVE  Step(Step(a, i), j) = Step(Step(a, k), l)
<1>1. N \in Nat /\ N > 0
  BY RingAssumption
<1>2. /\ Step(a, i) \in 0..N-1 /\ Step(a, k) \in 0..N-1
      /\ Step(a, i) = a + i \/ Step(a, i) = a + i - N
      /\ Step(a, k) = a + k \/ Step(a, k) = a + k - N
  BY <1>1 DEF Step
<1>3. /\ Step(Step(a, i), j) \in 0..N-1 /\ Step(Step(a, k), l) \in 0..N-1
      /\ \/ Step(Step(a, i), j) = Step(a, i) + j
         \/ Step(Step(a, i), j) = Step(a, i) + j - N
      /\ \/ Step(Step(a, k), l) = Step(a, k) + l
         \/ Step(Step(a, k), l) = Step(a, k) + l - N
  BY <1>1, <1>2 DEF Step
<1> DEFINE x == Step(Step(a, i), j)
           y == Step(Step(a, k), l)
           s == a + i + j
           t == a + k + l
<1>4. /\ s \in Int /\ t \in Int /\ x \in Int /\ y \in Int
      /\ 0 <= x /\ x < N /\ 0 <= y /\ y < N
  BY <1>1, <1>3
<1>5. /\ x = s \/ x = s - N \/ x = s - N - N
      /\ y = t \/ y = t - N \/ y = t - N - N
  BY <1>1, <1>2, <1>3
<1>6. s = t \/ s = t + N \/ s + N = t
  BY <1>1
<1> HIDE DEF x, y, s, t
<1>7. x = y
  BY <1>1, <1>4, <1>5, <1>6
<1> QED
  BY <1>7 DEF x, y

\* Going nowhere, or once round.
LEMMA StepZero == \A a \in 0..N-1 : Step(a, 0) = a /\ Step(a, N) = a
BY RingAssumption DEF Step

Indices ==
    /\ ring \in [0..N-1 -> Frames \cup {Silence}]
    /\ r \in 0..N-1 /\ w \in 0..N-1 /\ count \in 0..N
    /\ w = Step(r, count)

\* Every cell between the indices was written.
Written == \A k \in 0..N-1 : k < count => ring[Step(r, k)] \in Frames

RingInv ==
    /\ Indices
    /\ Written
    /\ out \in Seq(Frames)

-----------------------------------------------------------------------------
(* Store: batch[k + 1] lands k places after the start, the rest stays. *)

LEMMA StoreCells ==
    ASSUME NEW at \in 0..N-1, NEW batch \in Seq(Frames), Len(batch) <= N,
           ring \in [0..N-1 -> Frames \cup {Silence}]
    PROVE  /\ Store(at, batch) \in [0..N-1 -> Frames \cup {Silence}]
           /\ \A k \in 0..N-1 :
                 Store(at, batch)[Step(at, k)] =
                    IF k < Len(batch) THEN batch[k + 1] ELSE ring[Step(at, k)]
<1> DEFINE L == Len(batch)
           first == IF N - at > L THEN L ELSE N - at
<1>1. N \in Nat /\ N > 0 /\ L \in Nat /\ L <= N
  BY RingAssumption
<1>2. first \in 0..L /\ at + first <= N
  BY <1>1
<1>3. \A j \in 1..L : batch[j] \in Frames
  OBVIOUS
<1>4. \A i \in 0..N-1 :
         Store(at, batch)[i] =
            IF at <= i /\ i < at + first THEN batch[i - at + 1]
            ELSE IF i < L - first THEN batch[first + i + 1]
            ELSE ring[i]
  BY DEF Store
<1>5. Store(at, batch) \in [0..N-1 -> Frames \cup {Silence}]
  <2>1. \A i \in 0..N-1 : Store(at, batch)[i] \in Frames \cup {Silence}
    <3> TAKE i \in 0..N-1
    <3>1. CASE at <= i /\ i < at + first
      <4>1. i - at + 1 \in 1..L
        BY <1>1, <1>2, <3>1
      <4> QED
        BY <1>3, <1>4, <3>1, <4>1
    <3>2. CASE ~(at <= i /\ i < at + first) /\ i < L - first
      <4>1. first + i + 1 \in 1..L
        BY <1>1, <1>2, <3>2
      <4> QED
        BY <1>3, <1>4, <3>2, <4>1
    <3>3. CASE ~(at <= i /\ i < at + first) /\ ~(i < L - first)
      BY <1>4, <3>3
    <3> QED
      BY <3>1, <3>2, <3>3
  <2> QED
    BY <2>1 DEF Store
<1>6. ASSUME NEW k \in 0..N-1
      PROVE  Store(at, batch)[Step(at, k)] =
                IF k < L THEN batch[k + 1] ELSE ring[Step(at, k)]
  <2> DEFINE c == Step(at, k)
  <2>1. c \in 0..N-1
    <3>1. k \in 0..N
      BY <1>1
    <3> QED
      BY <3>1, StepIsMod
  <2>2. CASE k < first
    <3>1. c = at + k /\ at <= c /\ c < at + first /\ c - at + 1 = k + 1 /\ k < L
      BY <1>1, <1>2, <2>2 DEF Step
    <3> QED
      BY <1>4, <2>1, <3>1
  <2>3. CASE first <= k /\ k < L
    <3>1. first = N - at
      BY <1>1, <2>3
    <3>2. c = k - first /\ c < at /\ c < L - first /\ first + c + 1 = k + 1
      BY <1>1, <1>2, <2>3, <3>1 DEF Step
    <3> QED
      BY <1>4, <2>1, <2>3, <3>2
  <2>4. CASE L <= k
    <3>1. ~(at <= c /\ c < at + first) /\ ~(c < L - first)
      BY <1>1, <1>2, <2>4 DEF Step
    <3> QED
      BY <1>1, <1>4, <2>1, <2>4, <3>1
  <2> QED
    BY <1>1, <1>2, <2>2, <2>3, <2>4
<1> QED
  BY <1>5, <1>6

-----------------------------------------------------------------------------
(* Push *)

\* The frames queued and pushed, counted from 0.
Joined(batch, j) ==
    IF j < count THEN ring[Step(r, j)] ELSE batch[j - count + 1]

Excess(n, m) == IF n > m THEN n - m ELSE 0
Overflow(n) == Excess(n, N)

\* What Push leaves in the cells and in the indices.
LEMMA PushCells ==
    ASSUME RingInv, NEW batch \in Batches, Push(batch)
    PROVE  /\ Indices'
           /\ count' = count + Len(batch) - Overflow(count + Len(batch))
           /\ \A k \in 0..N-1 : k < count' =>
                 ring'[Step(r', k)]
                    = Joined(batch, k + Overflow(count + Len(batch)))
<1> DEFINE L == Len(batch)
<1>1. /\ N \in Nat /\ N > 0
      /\ batch \in Seq(Frames) /\ L \in Nat /\ L > 0
      /\ \A j \in 1..L : batch[j] \in Frames
  BY RingAssumption DEF Batches
<1>2. /\ ring \in [0..N-1 -> Frames \cup {Silence}]
      /\ r \in 0..N-1 /\ w \in 0..N-1 /\ count \in 0..N
      /\ w = Step(r, count)
  BY DEF RingInv, Indices
<1>3. CASE L >= N
  <2> DEFINE kept == SubSeq(batch, L - N + 1, L)
  <2>1. /\ kept \in Seq(Frames) /\ Len(kept) = N
        /\ \A j \in 1..N : kept[j] = batch[L - N + j]
    BY <1>1, <1>3
  <2>2. /\ r' = 0 /\ w' = (0 + N) % N /\ count' = N
        /\ ring' = Store(0, kept)
    BY <1>1, <1>3, <2>1 DEF Push
  <2>3. w' = 0
    BY <1>1, <2>2
  <2>4. 0 \in 0..N-1 /\ \A k \in 0..N-1 : Step(0, k) = k
    BY <1>1 DEF Step
  <2>5. /\ ring' \in [0..N-1 -> Frames \cup {Silence}]
        /\ \A k \in 0..N-1 : ring'[k] = kept[k + 1]
    BY <1>1, <1>2, <2>1, <2>2, <2>4, StoreCells
  <2>6. Indices'
    <3>1. Step(r', count') = 0
      BY <2>2, <2>4, StepZero
    <3>2. r' \in 0..N-1 /\ w' \in 0..N-1 /\ count' \in 0..N
      BY <1>1, <2>2, <2>3
    <3> QED
      BY <2>3, <2>5, <3>1, <3>2 DEF Indices
  <2>7. Overflow(count + L) = count + L - N
    BY <1>1, <1>2, <1>3 DEF Overflow, Excess
  <2>8. ASSUME NEW k \in 0..N-1
        PROVE  ring'[Step(r', k)] = Joined(batch, k + Overflow(count + L))
    <3>1. ring'[Step(r', k)] = batch[L - N + k + 1]
      <4>1. Step(r', k) = k /\ k + 1 \in 1..N
        BY <1>1, <2>2, <2>4
      <4>2. kept[k + 1] = batch[L - N + (k + 1)]
        BY <2>1, <4>1
      <4>3. L - N + (k + 1) = L - N + k + 1
        BY <1>1
      <4> QED
        BY <2>5, <4>1, <4>2, <4>3
    <3>2. ~(k + (count + L - N) < count)
      BY <1>1, <1>2, <1>3
    <3>3. k + (count + L - N) - count + 1 = L - N + k + 1
      BY <1>1, <1>2
    <3>4. Joined(batch, k + (count + L - N)) = batch[L - N + k + 1]
      <4>1. Joined(batch, k + (count + L - N))
               = batch[k + (count + L - N) - count + 1]
        BY <1>1, <1>2, <3>2 DEF Joined
      <4> QED
        BY <3>3, <4>1
    <3> QED
      BY <2>7, <3>1, <3>4
  <2> QED
    BY <1>1, <1>2, <2>2, <2>6, <2>7, <2>8
<1>4. CASE L < N
  <2> DEFINE d == Overflow(count + L)
  <2>1. d \in 0..count /\ count - d + L \in 0..N
    BY <1>1, <1>2, <1>4 DEF Overflow, Excess
  <2>2. /\ r' = (r + d) % N /\ w' = (w + L) % N /\ count' = count - d + L
        /\ ring' = Store(w, batch)
    <3>1. ~(Len(batch) >= N)
      BY <1>1, <1>4
    <3>2. r' = (r + d) % N
      BY <1>1, <1>2, <3>1 DEF Push, Overflow, Excess
    <3>3. w' = (w + L) % N /\ ring' = Store(w, batch)
      BY <3>1 DEF Push
    <3>4. count' = count - d + L
      BY <1>1, <1>2, <3>1 DEF Push, Overflow, Excess
    <3> QED
      BY <3>2, <3>3, <3>4
  <2>3. d \in 0..N /\ L \in 0..N
    BY <1>1, <1>2, <1>4, <2>1
  <2>9. ASSUME NEW k \in 0..N-1, k < count - d + L
        PROVE  /\ k < count - d =>
                     /\ k + N - (count - d) \in 0..N-1
                     /\ ~(k + N - (count - d) < L)
                     /\ k + d \in 0..N /\ k + d < count
                     /\ count + (k + N - (count - d)) = 0 + (k + d) + N
               /\ ~(k < count - d) =>
                     /\ k - (count - d) \in 0..N-1
                     /\ k - (count - d) < L
                     /\ ~(k + d < count)
                     /\ k + d - count + 1 = k - (count - d) + 1
    <3> HIDE DEF d, L
    <3> QED
      BY <1>1, <1>2, <1>4, <2>1, <2>3, <2>9
  <2>4. /\ r' = Step(r, d) /\ r' \in 0..N-1
        /\ w' = Step(w, L) /\ w' \in 0..N-1
    BY <1>2, <2>2, <2>3, StepIsMod
  <2>5. w' = Step(r', count')
    <3>1. count + L = d + (count - d + L)
      BY <1>1, <1>2, <2>1
    <3>2. Step(Step(r, count), L) = Step(Step(r, d), count - d + L)
      BY <1>2, <2>1, <2>3, <3>1, StepSum
    <3> QED
      BY <1>2, <2>2, <2>4, <3>2
  <2>6. /\ ring' \in [0..N-1 -> Frames \cup {Silence}]
        /\ \A k \in 0..N-1 : ring'[Step(w, k)] =
              IF k < L THEN batch[k + 1] ELSE ring[Step(w, k)]
    <3>1. L <= N
      BY <1>1, <1>4
    <3> QED
      BY <1>1, <1>2, <2>2, <3>1, StoreCells
  <2>7. Indices'
    BY <2>1, <2>2, <2>4, <2>5, <2>6 DEF Indices
  <2>8. ASSUME NEW k \in 0..N-1, k < count'
        PROVE  ring'[Step(r', k)] = Joined(batch, k + d)
    <3>1. CASE k < count - d
      <4> DEFINE m == k + N - (count - d)
      <4>1. m \in 0..N-1 /\ ~(m < L)
        BY <2>2, <2>8, <2>9, <3>1
      <4>2. Step(r', k) = Step(w, m)
        <5>1. d + k + N = count + m /\ k \in 0..N /\ m \in 0..N
          BY <1>1, <1>2, <2>1, <4>1
        <5>2. Step(Step(r, d), k) = Step(Step(r, count), m)
          BY <1>2, <2>3, <5>1, StepSum
        <5> QED
          BY <1>2, <2>4, <5>2
      <4>3. Step(w, m) = Step(r, k + d)
        <5>1. /\ count + m = 0 + (k + d) + N
              /\ k + d \in 0..N /\ m \in 0..N /\ 0 \in 0..N
          BY <1>1, <2>2, <2>8, <2>9, <3>1, <4>1
        <5>2. Step(Step(r, count), m) = Step(Step(r, 0), k + d)
          BY <1>2, <5>1, StepSum
        <5> QED
          BY <1>2, <5>2, StepZero
      <4>4. k + d < count
        BY <2>2, <2>8, <2>9, <3>1
      <4>5. ring'[Step(w, m)] = ring[Step(w, m)]
        BY <2>6, <4>1
      <4> QED
        BY <4>2, <4>3, <4>4, <4>5 DEF Joined
    <3>2. CASE ~(k < count - d)
      <4> DEFINE m == k - (count - d)
      <4>1. m \in 0..N-1 /\ m < L
        BY <2>2, <2>8, <2>9, <3>2
      <4>2. Step(r', k) = Step(w, m)
        <5>1. d + k = count + m /\ k \in 0..N /\ m \in 0..N
          BY <1>1, <1>2, <2>1, <4>1
        <5>2. Step(Step(r, d), k) = Step(Step(r, count), m)
          BY <1>2, <2>3, <5>1, StepSum
        <5> QED
          BY <1>2, <2>4, <5>2
      <4>3. ~(k + d < count) /\ k + d - count + 1 = m + 1
        BY <2>2, <2>8, <2>9, <3>2
      <4>5. Joined(batch, k + d) = batch[m + 1]
        <5>1. Joined(batch, k + d) = batch[k + d - count + 1]
          BY <1>2, <2>1, <4>3 DEF Joined
        <5> QED
          BY <4>3, <5>1
      <4>4. ring'[Step(w, m)] = batch[m + 1]
        BY <2>6, <4>1
      <4> QED
        BY <4>2, <4>4, <4>5
    <3> QED
      BY <3>1, <3>2
  <2> QED
    BY <1>1, <1>2, <2>1, <2>2, <2>7, <2>8
<1> QED
  BY <1>1, <1>3, <1>4

-----------------------------------------------------------------------------
(* Copy *)

Stale(recent) == Excess(count, recent)

Copied(max, recent) ==
    IF count - Stale(recent) < max THEN count - Stale(recent) ELSE max

\* What Copy hands out, and where it leaves the indices.
LEMMA CopyCells ==
    ASSUME RingInv, NEW max \in 1..MaxBatch, NEW recent \in 1..N,
           Copy(max, recent)
    PROVE  /\ Indices'
           /\ Stale(recent) \in 0..count
           /\ Copied(max, recent) \in 0..(count - Stale(recent))
           /\ count' = count - Stale(recent) - Copied(max, recent)
           /\ \A k \in 0..N-1 : k < count' =>
                 ring'[Step(r', k)]
                    = ring[Step(r, Stale(recent) + Copied(max, recent) + k)]
           /\ out' = [i \in 1..Copied(max, recent) |->
                         ring[Step(r, Stale(recent) + i - 1)]]
<1> DEFINE d == Stale(recent)
           n == Copied(max, recent)
           start == (r + d) % N
           first == IF N - start > n THEN n ELSE N - start
<1>1. N \in Nat /\ N > 0 /\ MaxBatch \in Nat
  BY RingAssumption
<1>2. /\ ring \in [0..N-1 -> Frames \cup {Silence}]
      /\ r \in 0..N-1 /\ w \in 0..N-1 /\ count \in 0..N
      /\ w = Step(r, count)
  BY DEF RingInv, Indices
<1>3. d \in 0..count /\ n \in 0..(count - d)
  <2>1. d \in 0..count
    BY <1>1, <1>2 DEF Stale, Excess
  <2>2. n = (IF count - d < max THEN count - d ELSE max)
    BY DEF Copied
  <2> HIDE DEF d, n
  <2> QED
    BY <1>1, <1>2, <2>1, <2>2
<1>4. /\ out' = [i \in 1..n |-> IF i <= first THEN ring[start + i - 1]
                                 ELSE ring[i - first - 1]]
      /\ r' = (start + n) % N
      /\ count' = count - d - n
      /\ ring' = ring /\ w' = w
  BY DEF Copy, Stale, Excess, Copied
<1>5. start = Step(r, d) /\ start \in 0..N-1 /\ d \in 0..N /\ n \in 0..N
  <2>1. d \in 0..N /\ n \in 0..N
    BY <1>1, <1>2, <1>3
  <2> QED
    BY <1>2, <2>1, StepIsMod
<1> HIDE DEF d, n, start
<1>6. r' = Step(start, n) /\ r' \in 0..N-1
  BY <1>4, <1>5, StepIsMod
<1>7. ASSUME NEW k \in 0..N, d + n + k <= count
      PROVE  Step(r', k) = Step(r, d + n + k)
  <2>1. /\ d + (n + k) = 0 + (d + n + k)
        /\ n + (n + k - n) = n + k
        /\ d + n + k \in 0..N /\ n + k \in 0..N /\ 0 \in 0..N /\ d + n \in 0..N
        /\ d + n = 0 + (d + n) /\ (d + n) + k = 0 + (d + n + k)
    BY <1>1, <1>2, <1>3, <1>5, <1>7
  <2>2. Step(Step(r, d), n) = Step(Step(r, 0), d + n)
    BY <1>2, <1>5, <2>1, StepSum
  <2>3. Step(Step(r, d + n), k) = Step(Step(r, 0), d + n + k)
    BY <1>2, <1>7, <2>1, StepSum
  <2> QED
    BY <1>2, <1>5, <1>6, <2>2, <2>3, StepZero
<1>8. Indices'
  <2>1. count' \in 0..N /\ d + n + count' <= count /\ d + n + count' = count
    BY <1>1, <1>2, <1>3, <1>4
  <2>2. Step(r', count') = Step(r, d + n + count')
    BY <1>7, <2>1
  <2> QED
    BY <1>2, <1>4, <1>6, <2>1, <2>2 DEF Indices
<1>9. ASSUME NEW k \in 0..N-1, k < count'
      PROVE  ring'[Step(r', k)] = ring[Step(r, d + n + k)]
  <2>1. k \in 0..N /\ d + n + k <= count
    BY <1>1, <1>2, <1>3, <1>4, <1>9
  <2> QED
    BY <1>4, <1>7, <2>1
<1>10. ASSUME NEW i \in 1..n
       PROVE  (IF i <= first THEN ring[start + i - 1] ELSE ring[i - first - 1])
                 = ring[Step(r, d + i - 1)]
  <2>1. /\ i - 1 \in 0..N /\ d + i - 1 \in 0..N /\ 0 \in 0..N
        /\ d + (i - 1) = 0 + (d + i - 1)
    BY <1>1, <1>2, <1>3, <1>5
  <2>2. Step(start, i - 1) = Step(r, d + i - 1)
    <3>1. Step(Step(r, d), i - 1) = Step(Step(r, 0), d + i - 1)
      BY <1>2, <1>5, <2>1, StepSum
    <3> QED
      BY <1>2, <1>5, <3>1, StepZero
  <2>3. CASE i <= first
    <3>1. Step(start, i - 1) = start + i - 1
      BY <1>1, <1>5, <2>3 DEF Step
    <3> QED
      BY <2>2, <2>3, <3>1
  <2>4. CASE ~(i <= first)
    <3>1. Step(start, i - 1) = i - first - 1
      BY <1>1, <1>5, <2>4 DEF Step
    <3> QED
      BY <2>2, <2>4, <3>1
  <2> QED
    BY <2>3, <2>4
<1>11. out' = [i \in 1..n |-> ring[Step(r, d + i - 1)]]
  BY <1>4, <1>10
<1> QED
  BY <1>3, <1>4, <1>8, <1>9, <1>11 DEF d, n

-----------------------------------------------------------------------------
(* The contents as a sequence *)

ContentsCells ==
    /\ Contents \in Seq(Frames) /\ Len(Contents) = count
    /\ \A i \in 1..count : Contents[i] = ring[Step(r, i - 1)]

\* Contents is the sequence of the frames between r and w.
LEMMA ContentsSeq == RingInv => ContentsCells
<1> SUFFICES ASSUME RingInv PROVE ContentsCells
  OBVIOUS
<1>1. N \in Nat /\ r \in 0..N-1 /\ count \in 0..N
  BY RingAssumption DEF RingInv, Indices
<1>2. ASSUME NEW i \in 1..count
      PROVE  /\ ring[(r + i - 1) % N] = ring[Step(r, i - 1)]
             /\ ring[Step(r, i - 1)] \in Frames
  <2>1. i - 1 \in 0..N /\ i - 1 \in 0..N-1 /\ i - 1 < count /\ r + i - 1 = r + (i - 1)
    BY <1>1
  <2>2. (r + (i - 1)) % N = Step(r, i - 1)
    BY <1>1, <2>1, StepIsMod
  <2> QED
    BY <2>1, <2>2 DEF RingInv, Written
<1>3. Contents \in [1..count -> Frames]
  BY <1>2 DEF Contents
<1>4. count \in Nat
  BY <1>1
<1> QED
  BY <1>2, <1>3, <1>4 DEF Contents, ContentsCells

\* The newest frames of a sequence: length and elements.
LEMMA NewestProperties ==
    ASSUME NEW s \in Seq(Frames), NEW n \in Nat
    PROVE  /\ Fifo!Newest(s, n) \in Seq(Frames)
           /\ Len(Fifo!Newest(s, n)) = Len(s) - Excess(Len(s), n)
           /\ \A i \in 1..(Len(s) - Excess(Len(s), n)) :
                 Fifo!Newest(s, n)[i] = s[i + Excess(Len(s), n)]
<1> DEFINE d == Excess(Len(s), n)
<1>1. Len(s) \in Nat /\ d \in 0..Len(s)
  BY DEF Excess
<1>2. Fifo!Newest(s, n) = SubSeq(s, d + 1, Len(s))
  BY DEF Fifo!Newest, Excess
<1> HIDE DEF d
<1>3. \A i \in (d + 1)..Len(s) : s[i] \in Frames
  BY <1>1
<1>4. /\ SubSeq(s, d + 1, Len(s)) \in Seq(Frames)
      /\ Len(SubSeq(s, d + 1, Len(s))) = Len(s) - d
      /\ \A i \in 1..(Len(s) - d) : SubSeq(s, d + 1, Len(s))[i] = s[i + d]
  <2>1. d + 1 \in Int /\ Len(s) \in Int
    BY <1>1
  <2>2. /\ SubSeq(s, d + 1, Len(s)) \in Seq(Frames)
        /\ Len(SubSeq(s, d + 1, Len(s)))
              = IF d + 1 <= Len(s) THEN Len(s) - (d + 1) + 1 ELSE 0
        /\ \A i \in 1..(Len(s) - (d + 1) + 1) :
              SubSeq(s, d + 1, Len(s))[i] = s[(d + 1) + i - 1]
    BY <1>3, <2>1, SubSeqProperties
  <2>3. Len(s) - (d + 1) + 1 = Len(s) - d
    BY <1>1
  <2>4. \A i \in 1..(Len(s) - d) : (d + 1) + i - 1 = i + d
    BY <1>1
  <2> QED
    <3>1. d + 1 <= Len(s) \/ Len(s) - d = 0
      BY <1>1
    <3>2. Len(SubSeq(s, d + 1, Len(s))) = Len(s) - d
      BY <1>1, <2>2, <2>3, <3>1
    <3>3. \A i \in 1..(Len(s) - d) : SubSeq(s, d + 1, Len(s))[i] = s[i + d]
      BY <2>2, <2>3, <2>4
    <3> QED
      BY <2>2, <3>2, <3>3
<1> QED
  BY <1>2, <1>4 DEF d

-----------------------------------------------------------------------------
(* The invariant, and the steps of LatestFifo *)

LEMMA PushRefines ==
    ASSUME RingInv, NEW batch \in Batches, Push(batch)
    PROVE  RingInv' /\ Fifo!Push(batch)
<1> DEFINE L == Len(batch)
           d == Overflow(count + L)
           joined == Contents \o batch
<1>1. /\ N \in Nat /\ N > 0 /\ batch \in Seq(Frames) /\ L \in Nat
      /\ \A j \in 1..L : batch[j] \in Frames
      /\ r \in 0..N-1 /\ count \in 0..N
  BY RingAssumption DEF Batches, RingInv, Indices
<1>2. /\ Indices' /\ count' = count + L - d
      /\ \A k \in 0..N-1 : k < count' =>
            ring'[Step(r', k)] = Joined(batch, k + d)
  BY PushCells
<1>3. /\ Contents \in Seq(Frames) /\ Len(Contents) = count
      /\ \A i \in 1..count : Contents[i] = ring[Step(r, i - 1)]
  BY ContentsSeq DEF ContentsCells
<1>4. /\ joined \in Seq(Frames) /\ Len(joined) = count + L
      /\ \A i \in 1..(count + L) :
            joined[i] = IF i <= count THEN Contents[i] ELSE batch[i - count]
  BY <1>1, <1>3, ConcatProperties
<1>5. d \in 0..(count + L) /\ count + L - d <= N
  BY <1>1 DEF Overflow, Excess
<1> HIDE DEF d, joined, L
<1>6. \A j \in 0..(count + L - 1) :
         Joined(batch, j) = joined[j + 1] /\ joined[j + 1] \in Frames
  <2> TAKE j \in 0..(count + L - 1)
  <2>1. j + 1 \in 1..(count + L) /\ j + 1 - 1 = j /\ j + 1 - count = j - count + 1
    BY <1>1
  <2>2. joined[j + 1] \in Frames
    BY <1>4, <2>1
  <2>3. CASE j < count
    <3>1. j + 1 \in 1..count
      BY <1>1, <2>3
    <3>2. joined[j + 1] = ring[Step(r, j)]
      BY <1>3, <1>4, <2>1, <3>1
    <3> QED
      BY <2>2, <2>3, <3>2 DEF Joined
  <2>4. CASE ~(j < count)
    <3>1. ~(j + 1 <= count)
      BY <1>1, <2>4
    <3>2. joined[j + 1] = batch[j - count + 1]
      <4>1. joined[j + 1] = batch[j + 1 - count]
        BY <1>1, <1>4, <2>1, <3>1
      <4> QED
        BY <2>1, <4>1
    <3>3. Joined(batch, j) = batch[j - count + 1]
      BY <1>1, <2>4 DEF Joined
    <3> QED
      BY <2>2, <3>2, <3>3
  <2> QED
    BY <2>3, <2>4
<1>7. UNCHANGED out
  BY DEF Push
<1>8. \A k \in 0..N-1 : k < count' =>
         /\ ring'[Step(r', k)] = joined[k + d + 1]
         /\ joined[k + d + 1] \in Frames
  <2> TAKE k \in 0..N-1
  <2> HAVE k < count'
  <2>1. k + d \in 0..(count + L - 1)
    BY <1>1, <1>2, <1>5
  <2> QED
    BY <1>2, <1>6, <2>1
<1>9. RingInv'
  BY <1>2, <1>7, <1>8 DEF RingInv, Written
<1>10. /\ Contents' \in Seq(Frames) /\ Len(Contents') = count'
       /\ \A i \in 1..count' : Contents'[i] = ring'[Step(r', i - 1)]
  <2>1. ContentsCells'
    BY <1>9, ContentsSeq, PTL
  <2> QED
    BY <2>1 DEF ContentsCells
<1>11. Contents' = Fifo!Newest(joined, N)
  <2>1. /\ Fifo!Newest(joined, N) \in Seq(Frames)
        /\ Len(Fifo!Newest(joined, N)) = Len(joined) - Excess(Len(joined), N)
        /\ \A i \in 1..(Len(joined) - Excess(Len(joined), N)) :
              Fifo!Newest(joined, N)[i] = joined[i + Excess(Len(joined), N)]
    BY <1>1, <1>4, NewestProperties
  <2>2. Excess(Len(joined), N) = d
    BY <1>4 DEF d, L, Overflow
  <2>3. /\ Len(Fifo!Newest(joined, N)) = count'
        /\ \A i \in 1..count' : Fifo!Newest(joined, N)[i] = joined[i + d]
    <3>1. Len(joined) - Excess(Len(joined), N) = count'
      <4>1. Len(joined) = count + L /\ count' = count + L - d
        BY <1>2, <1>4
      <4> QED
        BY <1>1, <1>5, <2>2, <4>1
    <3> QED
      BY <2>1, <2>2, <3>1
  <2>4. ASSUME NEW i \in 1..count' PROVE Contents'[i] = joined[i + d]
    <3>1. i - 1 \in 0..N-1 /\ i - 1 < count' /\ (i - 1) + d + 1 = i + d
      BY <1>1, <1>2, <1>5
    <3> QED
      BY <1>8, <1>10, <3>1
  <2> QED
    BY <1>10, <2>1, <2>3, <2>4, SeqEqual
<1> QED
  BY <1>7, <1>9, <1>11 DEF joined, Fifo!Push

\* A copy is a take of the queue.
LEMMA CopyRefines ==
    ASSUME RingInv, NEW max \in 1..MaxBatch, NEW recent \in 1..N,
           Copy(max, recent)
    PROVE  RingInv' /\ Fifo!Pull(max, recent)
<1> DEFINE d == Stale(recent)
           n == Copied(max, recent)
           fresh == Fifo!Newest(Contents, recent)
<1>1. /\ N \in Nat /\ N > 0 /\ count \in 0..N
      /\ recent \in Nat /\ max \in Nat
  BY RingAssumption DEF RingInv, Indices
<1>2. /\ Indices' /\ d \in 0..count /\ n \in 0..(count - d)
      /\ count' = count - d - n
      /\ \A k \in 0..N-1 : k < count' =>
            ring'[Step(r', k)] = ring[Step(r, d + n + k)]
      /\ out' = [i \in 1..n |-> ring[Step(r, d + i - 1)]]
  BY CopyCells
<1>3. /\ Contents \in Seq(Frames) /\ Len(Contents) = count
      /\ \A i \in 1..count : Contents[i] = ring[Step(r, i - 1)]
  BY ContentsSeq DEF ContentsCells
<1>4. /\ fresh \in Seq(Frames) /\ Len(fresh) = count - d
      /\ \A i \in 1..(count - d) : fresh[i] = Contents[i + d]
  BY <1>1, <1>3, NewestProperties DEF Stale
<1>5. n = IF Len(fresh) < max THEN Len(fresh) ELSE max
  BY <1>4 DEF Copied
<1>6. Fifo!Pull(max, recent) <=>
         /\ out' = SubSeq(fresh, 1, n)
         /\ Contents' = SubSeq(fresh, n + 1, Len(fresh))
  BY <1>5 DEF Fifo!Pull
<1> HIDE DEF d, n, fresh
<1>7. \A i \in 1..(count - d) :
         fresh[i] = ring[Step(r, d + i - 1)] /\ fresh[i] \in Frames
  <2> TAKE i \in 1..(count - d)
  <2>1. i + d \in 1..count /\ i + d - 1 = d + i - 1
    BY <1>1, <1>2
  <2>2. fresh[i] = Contents[i + d] /\ Contents[i + d] = ring[Step(r, i + d - 1)]
    BY <1>1, <1>2, <1>3, <1>4, <2>1
  <2>3. fresh[i] \in Frames
    BY <1>3, <1>4, <2>1
  <2> QED
    BY <2>1, <2>2, <2>3
<1>8. /\ SubSeq(fresh, 1, n) \in Seq(Frames) /\ Len(SubSeq(fresh, 1, n)) = n
      /\ \A i \in 1..n : SubSeq(fresh, 1, n)[i] = fresh[i]
  <2>1. \A i \in 1..n : fresh[i] \in Frames /\ i \in 1..(count - d)
    BY <1>1, <1>2, <1>7
  <2>2. 1 \in Int /\ n \in Int /\ n \in Nat
    BY <1>1, <1>2
  <2>3. /\ SubSeq(fresh, 1, n) \in Seq(Frames)
        /\ Len(SubSeq(fresh, 1, n)) = IF 1 <= n THEN n - 1 + 1 ELSE 0
        /\ \A i \in 1..(n - 1 + 1) : SubSeq(fresh, 1, n)[i] = fresh[1 + i - 1]
    BY <2>1, <2>2, SubSeqProperties
  <2>4. n - 1 + 1 = n /\ (1 <= n \/ n = 0) /\ \A i \in 1..n : 1 + i - 1 = i
    BY <2>2
  <2> QED
    BY <2>3, <2>4
<1>9. out' = SubSeq(fresh, 1, n)
  <2>1. \A i \in 1..n : /\ SubSeq(fresh, 1, n)[i] = ring[Step(r, d + i - 1)]
                        /\ ring[Step(r, d + i - 1)] \in Frames
    <3> TAKE i \in 1..n
    <3>1. i \in 1..(count - d)
      BY <1>1, <1>2
    <3> QED
      BY <1>7, <1>8, <3>1
  <2>2. n \in Nat
    BY <1>1, <1>2
  <2>3. out' \in Seq(Frames) /\ Len(out') = n
    <3>1. out' \in [1..n -> Frames]
      BY <1>2, <2>1
    <3> QED
      BY <2>2, <3>1
  <2>4. \A i \in 1..n : out'[i] = SubSeq(fresh, 1, n)[i]
    BY <1>2, <2>1
  <2> QED
    BY <1>8, <2>3, <2>4, SeqEqual
<1>10. RingInv'
  <2>1. \A k \in 0..N-1 : k < count' => ring'[Step(r', k)] \in Frames
    <3> TAKE k \in 0..N-1
    <3> HAVE k < count'
    <3>1. n + k + 1 \in 1..(count - d) /\ d + (n + k + 1) - 1 = d + n + k
      BY <1>1, <1>2
    <3>2. ring[Step(r, d + n + k)] \in Frames
      BY <1>7, <3>1
    <3> QED
      BY <1>2, <3>2
  <2>2. out' \in Seq(Frames)
    BY <1>8, <1>9
  <2> QED
    BY <1>2, <2>1, <2>2 DEF RingInv, Written
<1>11. /\ Contents' \in Seq(Frames) /\ Len(Contents') = count'
       /\ \A i \in 1..count' : Contents'[i] = ring'[Step(r', i - 1)]
  <2>1. ContentsCells'
    BY <1>10, ContentsSeq, PTL
  <2> QED
    BY <2>1 DEF ContentsCells
<1>12. Contents' = SubSeq(fresh, n + 1, Len(fresh))
  <2>1. \A i \in (n + 1)..Len(fresh) : fresh[i] \in Frames
    <3> TAKE i \in (n + 1)..Len(fresh)
    <3>1. i \in 1..(count - d)
      BY <1>1, <1>2, <1>4
    <3> QED
      BY <1>7, <3>1
  <2>2. n + 1 \in Int /\ Len(fresh) \in Int
    BY <1>1, <1>2, <1>4
  <2>3. /\ SubSeq(fresh, n + 1, Len(fresh)) \in Seq(Frames)
        /\ Len(SubSeq(fresh, n + 1, Len(fresh)))
              = IF n + 1 <= Len(fresh) THEN Len(fresh) - (n + 1) + 1 ELSE 0
        /\ \A i \in 1..(Len(fresh) - (n + 1) + 1) :
              SubSeq(fresh, n + 1, Len(fresh))[i] = fresh[(n + 1) + i - 1]
    BY <2>1, <2>2, SubSeqProperties
  <2>4. /\ Len(fresh) - (n + 1) + 1 = count'
        /\ n + 1 <= Len(fresh) \/ count' = 0
    BY <1>1, <1>2, <1>4
  <2>5. Len(SubSeq(fresh, n + 1, Len(fresh))) = count'
    BY <2>3, <2>4
  <2>6. ASSUME NEW i \in 1..count'
        PROVE  Contents'[i] = SubSeq(fresh, n + 1, Len(fresh))[i]
    <3>1. /\ i - 1 \in 0..N-1 /\ i - 1 < count'
          /\ n + i \in 1..(count - d) /\ (n + 1) + i - 1 = n + i
          /\ d + n + (i - 1) = d + (n + i) - 1
      BY <1>1, <1>2
    <3>2. Contents'[i] = ring[Step(r, d + n + (i - 1))]
      BY <1>2, <1>11, <3>1
    <3>3. SubSeq(fresh, n + 1, Len(fresh))[i] = fresh[n + i]
      BY <2>3, <2>4, <3>1
    <3>4. fresh[n + i] = ring[Step(r, d + (n + i) - 1)]
      BY <1>7, <3>1
    <3> QED
      BY <3>1, <3>2, <3>3, <3>4
  <2> QED
    BY <1>11, <2>3, <2>5, <2>6, SeqEqual
<1> QED
  BY <1>6, <1>9, <1>10, <1>12

\* clear_audio empties the queue.
LEMMA ClearRefines ==
    ASSUME RingInv, Clear PROVE RingInv' /\ Fifo!Clear
<1>1. N \in Nat /\ N > 0
  BY RingAssumption
<1>2. Indices' /\ Written' /\ out' \in Seq(Frames)
  BY <1>1 DEF Clear, RingInv, Indices, Written, Step
<1>3. Contents' = <<>>
  BY DEF Clear, Contents
<1> QED
  BY <1>2, <1>3 DEF RingInv, Fifo!Clear, Clear

\* The zeroed ring is the empty queue.
LEMMA InitRefines == RingInit => RingInv /\ Fifo!Init
<1> SUFFICES ASSUME RingInit PROVE RingInv /\ Fifo!Init
  OBVIOUS
<1>1. N \in Nat /\ N > 0
  BY RingAssumption
<1>2. Indices /\ Written /\ out \in Seq(Frames)
  BY <1>1 DEF RingInit, Indices, Written, Step
<1>3. Contents = <<>>
  BY DEF RingInit, Contents
<1> QED
  BY <1>2, <1>3 DEF RingInv, Fifo!Init, RingInit

\* Every step of the ring is a step of the queue, or a stutter.
LEMMA NextRefines ==
    RingInv /\ [RingNext]_ringVars => RingInv' /\ [Fifo!Next]_(Fifo!vars)
<1>1. ASSUME RingInv, UNCHANGED ringVars
      PROVE  RingInv' /\ UNCHANGED Fifo!vars
  <2>1. RingInv'
    BY <1>1 DEF ringVars, RingInv, Indices, Written
  <2>2. Contents' = Contents /\ out' = out
    BY <1>1 DEF ringVars, Contents
  <2> QED
    BY <2>1, <2>2 DEF Fifo!vars
<1>2. ASSUME RingInv, PushAny PROVE RingInv' /\ Fifo!Next
  <2>1. PICK batch \in Batches : Push(batch)
    BY <1>2 DEF PushAny
  <2>2. Batches = Fifo!Batches
    BY DEF Batches, Fifo!Batches
  <2> QED
    BY <1>2, <2>1, <2>2, PushRefines DEF Fifo!Next
<1>3. ASSUME RingInv, CopyAny PROVE RingInv' /\ Fifo!Next
  <2>1. PICK max \in 1..MaxBatch, recent \in 1..N : Copy(max, recent)
    BY <1>3 DEF CopyAny
  <2> QED
    BY <1>3, <2>1, CopyRefines DEF Fifo!Next
<1>4. ASSUME RingInv, Clear PROVE RingInv' /\ Fifo!Next
  BY <1>4, ClearRefines DEF Fifo!Next
<1> QED
  BY <1>1, <1>2, <1>3, <1>4 DEF RingNext

\* For every capacity the indices stay in range and the contents between
\* them were written (audio_push_frames, host_copy_audio, clear_audio).
THEOREM RingInvariant == RingSpec => []RingInv
BY InitRefines, NextRefines, PTL DEF RingSpec

\* The types of the ring's state, for every capacity.
THEOREM RingTyped == RingSpec => []RingTypeOK
<1>1. RingInv => RingTypeOK
  BY DEF RingInv, Indices, RingTypeOK
<1> QED
  BY <1>1, RingInvariant, PTL

\* The write index is always where the contents end.
THEOREM RingShaped == RingSpec => []RingShape
<1>1. RingInv => RingShape
  BY StepIsMod DEF RingInv, Indices, RingShape
<1> QED
  BY <1>1, RingInvariant, PTL

\* The ring of any capacity, used with batches of any size, is a queue that
\* loses only its oldest frames.
THEOREM RingIsFifo == RingSpec => ImplementsFifo
BY InitRefines, NextRefines, PTL DEF RingSpec, ImplementsFifo, Fifo!Spec

-----------------------------------------------------------------------------
(* The video stream *)

-----------------------------------------------------------------------------
(* The inductive invariant *)

\* The counters of the history, and what the network thread knows.
Bookkeeping ==
    /\ frameId <= stamp /\ viewer <= nextSession
    /\ loads <= epoch /\ epoch <= changes
    /\ drawn => frameId > 0 /\ shows = loads
    /\ net \in {"collect", "submit"} => viewer # 0
    /\ net \in {"expire", "collect", "submit"} /\ HasWorker
         => session = viewer
    /\ viewer = 0 => slot = None
    /\ begun => slot # None
    /\ ~HasWorker => /\ session = 0
                     /\ active = None /\ pending = None
    /\ stop => net \in {"joining", "done"}

\* j was submitted in the present generation.
Live(j) == j # None /\ j.generation = generation

\* A job of the present generation shows what the encoder's viewer may see.
JobValid(j) ==
    /\ j.generation <= generation
    /\ j.picture.viewer <= nextSession
    /\ j.picture.stamp <= stamp
    /\ j.generation = generation
         => /\ j.picture.viewer = session
            /\ net # "reset" => j.picture.shows = loads /\ j.picture.epoch = epoch

JobsValid ==
    /\ active # None => JobValid(active)
    /\ pending # None => JobValid(pending) /\ pending.generation = generation

\* Who owns the packet.
PacketOwned ==
    /\ worker \in {"encode", "finish"}
         => /\ active # None /\ ~completed
            /\ packet # None => packet = active.picture
    /\ completed => Live(active) /\ packet = active.picture /\ session # 0

WakeOwed ==
    completed /\ ~looked /\ net \in {"submit", "top", "poll"}
        => bell \/ worker = "notify"

\* The present viewer got, or gets, nothing drawn after j.
NotBefore(j) ==
    j.picture.viewer = viewer =>
        /\ shown <= j.picture.stamp
        /\ slot # None => slot.stamp <= j.picture.stamp

InOrder ==
    /\ shown <= stamp
    /\ slot # None => shown <= slot.stamp /\ slot.stamp <= stamp
    /\ Live(active) => NotBefore(active)
    /\ pending # None => NotBefore(pending)
    /\ pending # None /\ Live(active)
         => active.picture.stamp <= pending.picture.stamp

StreamInv ==
    /\ TypeOK /\ Bookkeeping /\ JobsValid /\ PacketOwned /\ NothingStale
    /\ WakeOwed /\ InOrder

-----------------------------------------------------------------------------
(* Every action preserves it *)

LEMMA PollKeeps == StreamInv /\ Poll => StreamInv'
BY StreamAssumption DEF HasWorker, StreamInv, TypeOK, Bookkeeping, JobsValid, JobValid,
   PacketOwned, Live, NothingStale, WakeOwed, InOrder, NotBefore, Jobs,
   Pictures, NetStates, WorkerStates, Poll, hostVars, pacerVars, linkVars,
   boxVars, workerVars

\* The pipe is emptied.
LEMMA DrainWakeKeeps == StreamInv /\ DrainWake => StreamInv'
BY StreamAssumption DEF HasWorker, StreamInv, TypeOK, Bookkeeping, JobsValid, JobValid,
   PacketOwned, Live, NothingStale, WakeOwed, InOrder, NotBefore, Jobs,
   Pictures, NetStates, WorkerStates, DrainWake, hostVars, pacerVars,
   linkVars, boxVars, workerVars

\* The clients were served.
LEMMA ClientsDoneKeeps == StreamInv /\ ClientsDone => StreamInv'
BY StreamAssumption DEF HasWorker, StreamInv, TypeOK, Bookkeeping, JobsValid, JobValid,
   PacketOwned, Live, NothingStale, WakeOwed, InOrder, NotBefore, Jobs,
   Pictures, NetStates, WorkerStates, ClientsDone, hostVars, pacerVars,
   linkVars, boxVars, workerVars

\* jpeg_worker_destroy asks the encoder to stop.
LEMMA StopWorkerKeeps == StreamInv /\ StopWorker => StreamInv'
BY StreamAssumption DEF HasWorker, StreamInv, TypeOK, Bookkeeping, JobsValid, JobValid,
   PacketOwned, Live, NothingStale, WakeOwed, InOrder, NotBefore, Jobs,
   Pictures, NetStates, WorkerStates, StopWorker, hostVars, pacerVars,
   linkVars, boxVars, workerVars

\* pthread_join returns.
LEMMA JoinWorkerKeeps == StreamInv /\ JoinWorker => StreamInv'
BY StreamAssumption DEF HasWorker, StreamInv, TypeOK, Bookkeeping, JobsValid, JobValid,
   PacketOwned, Live, NothingStale, WakeOwed, InOrder, NotBefore, Jobs,
   Pictures, NetStates, WorkerStates, JoinWorker, hostVars, pacerVars,
   linkVars, boxVars, workerVars

\* The encoder rings the pipe.
LEMMA NotifyKeeps == StreamInv /\ Notify => StreamInv'
BY StreamAssumption DEF HasWorker, StreamInv, TypeOK, Bookkeeping, JobsValid, JobValid,
   PacketOwned, Live, NothingStale, WakeOwed, InOrder, NotBefore, Jobs,
   Pictures, NetStates, WorkerStates, Notify, hostVars, pacerVars, linkVars,
   boxVars, workerVars

\* The encoder thread ends.
LEMMA ExitKeeps == StreamInv /\ Exit => StreamInv'
BY StreamAssumption DEF HasWorker, StreamInv, TypeOK, Bookkeeping, JobsValid, JobValid,
   PacketOwned, Live, NothingStale, WakeOwed, InOrder, NotBefore, Jobs,
   Pictures, NetStates, WorkerStates, Exit, hostVars, pacerVars, linkVars,
   boxVars, workerVars

\* The console is reset.
LEMMA ResetConsoleKeeps == StreamInv /\ ResetConsole => StreamInv'
BY StreamAssumption DEF HasWorker, StreamInv, TypeOK, Bookkeeping, JobsValid, JobValid,
   PacketOwned, Live, NothingStale, WakeOwed, InOrder, NotBefore, Jobs,
   Pictures, NetStates, WorkerStates, ResetConsole, hostVars, pacerVars,
   linkVars, boxVars, workerVars

\* The console draws.
LEMMA DrawPictureKeeps == StreamInv /\ DrawPicture => StreamInv'
BY StreamAssumption DEF HasWorker, StreamInv, TypeOK, Bookkeeping, JobsValid, JobValid,
   PacketOwned, Live, NothingStale, WakeOwed, InOrder, NotBefore, Jobs,
   Pictures, NetStates, WorkerStates, DrawPicture, hostVars, pacerVars,
   linkVars, boxVars, workerVars

\* A pass begins, and old media may be dropped.
LEMMA TopKeeps == StreamInv /\ Top => StreamInv'
<1> SUFFICES ASSUME StreamInv, Top PROVE StreamInv'
  OBVIOUS
<1>1. TypeOK'
  <2>1. net' \in NetStates
    BY StreamAssumption DEF HasWorker, StreamInv, TypeOK, Top, AfterExpiry, DropViewer,
       NetStates, hostVars, pacerVars, linkVars, boxVars, workerVars
  <2>2. loopFps' \in Rates
    BY StreamAssumption DEF HasWorker, StreamInv, TypeOK, Top, AfterExpiry, DropViewer,
       hostVars, pacerVars, linkVars, boxVars, workerVars
  <2>3. viewer' \in 0..MaxSessions
    BY StreamAssumption DEF HasWorker, StreamInv, TypeOK, Top, AfterExpiry, DropViewer,
       hostVars, pacerVars, linkVars, boxVars, workerVars
  <2>4. slot' \in Pictures \cup {None}
    BY StreamAssumption DEF HasWorker, StreamInv, TypeOK, Top, AfterExpiry, DropViewer,
       hostVars, pacerVars, linkVars, boxVars, workerVars
  <2>5. begun' \in BOOLEAN
    BY StreamAssumption DEF HasWorker, StreamInv, TypeOK, Top, AfterExpiry, DropViewer,
       hostVars, pacerVars, linkVars, boxVars, workerVars
  <2>6. shown' \in 0..MaxPictures
    BY StreamAssumption DEF HasWorker, StreamInv, TypeOK, Top, AfterExpiry, DropViewer,
       hostVars, pacerVars, linkVars, boxVars, workerVars
  <2> QED
    BY <2>1, <2>2, <2>3, <2>4, <2>5, <2>6 DEF HasWorker, StreamInv, TypeOK, Top,
       AfterExpiry, DropViewer, hostVars, pacerVars, linkVars, boxVars,
       workerVars
<1>2. Bookkeeping'
  BY StreamAssumption DEF HasWorker, StreamInv, TypeOK, Bookkeeping, Top, AfterExpiry,
     DropViewer, hostVars, pacerVars, linkVars, boxVars, workerVars
<1>3. JobsValid'
  BY StreamAssumption DEF HasWorker, StreamInv, TypeOK, Bookkeeping, JobsValid, JobValid,
     Jobs, Pictures, Top, AfterExpiry, DropViewer, hostVars, pacerVars,
     linkVars, boxVars, workerVars
<1>4. PacketOwned'
  BY StreamAssumption DEF HasWorker, StreamInv, TypeOK, Bookkeeping, JobsValid, JobValid,
     PacketOwned, Live, Top, AfterExpiry, DropViewer, hostVars, pacerVars,
     linkVars, boxVars, workerVars
<1>5. NothingStale'
  BY StreamAssumption DEF HasWorker, StreamInv, TypeOK, Bookkeeping, JobsValid, JobValid,
     PacketOwned, Live, NothingStale, Top, AfterExpiry, DropViewer, hostVars,
     pacerVars, linkVars, boxVars, workerVars
<1>6. WakeOwed'
  BY StreamAssumption DEF HasWorker, StreamInv, TypeOK, Bookkeeping, PacketOwned,
     WakeOwed, Top, AfterExpiry, DropViewer, hostVars, pacerVars, linkVars,
     boxVars, workerVars
<1>7. InOrder'
  BY StreamAssumption DEF HasWorker, StreamInv, TypeOK, Bookkeeping, JobsValid, JobValid,
     PacketOwned, Live, InOrder, NotBefore, Jobs, Pictures, Top, AfterExpiry,
     DropViewer, hostVars, pacerVars, linkVars, boxVars, workerVars
<1> QED
  BY <1>1, <1>2, <1>3, <1>4, <1>5, <1>6, <1>7 DEF StreamInv

\* The viewer goes.
LEMMA LeaveKeeps == StreamInv /\ Leave => StreamInv'
<1> SUFFICES ASSUME StreamInv, Leave PROVE StreamInv'
  OBVIOUS
<1>1. TypeOK'
  <2>1. viewer' \in 0..MaxSessions
    BY StreamAssumption DEF HasWorker, StreamInv, TypeOK, Leave, DropViewer, hostVars,
       pacerVars, linkVars, boxVars, workerVars
  <2>2. slot' \in Pictures \cup {None}
    BY StreamAssumption DEF HasWorker, StreamInv, TypeOK, Leave, DropViewer, hostVars,
       pacerVars, linkVars, boxVars, workerVars
  <2>3. begun' \in BOOLEAN
    BY StreamAssumption DEF HasWorker, StreamInv, TypeOK, Leave, DropViewer, hostVars,
       pacerVars, linkVars, boxVars, workerVars
  <2>4. shown' \in 0..MaxPictures
    BY StreamAssumption DEF HasWorker, StreamInv, TypeOK, Leave, DropViewer, hostVars,
       pacerVars, linkVars, boxVars, workerVars
  <2> QED
    BY <2>1, <2>2, <2>3, <2>4 DEF HasWorker, StreamInv, TypeOK, Leave, DropViewer,
       hostVars, pacerVars, linkVars, boxVars, workerVars
<1>2. Bookkeeping'
  BY StreamAssumption DEF HasWorker, StreamInv, TypeOK, Bookkeeping, Leave, DropViewer,
     hostVars, pacerVars, linkVars, boxVars, workerVars
<1>3. JobsValid'
  BY StreamAssumption DEF HasWorker, StreamInv, TypeOK, Bookkeeping, JobsValid, JobValid,
     Jobs, Pictures, Leave, DropViewer, hostVars, pacerVars, linkVars,
     boxVars, workerVars
<1>4. PacketOwned'
  BY StreamAssumption DEF HasWorker, StreamInv, TypeOK, Bookkeeping, JobsValid, JobValid,
     PacketOwned, Live, Leave, DropViewer, hostVars, pacerVars, linkVars,
     boxVars, workerVars
<1>5. NothingStale'
  BY StreamAssumption DEF HasWorker, StreamInv, TypeOK, Bookkeeping, JobsValid, JobValid,
     PacketOwned, Live, NothingStale, Leave, DropViewer, hostVars, pacerVars,
     linkVars, boxVars, workerVars
<1>6. WakeOwed'
  BY StreamAssumption DEF HasWorker, StreamInv, TypeOK, Bookkeeping, PacketOwned,
     WakeOwed, Leave, DropViewer, hostVars, pacerVars, linkVars, boxVars,
     workerVars
<1>7. InOrder'
  BY StreamAssumption DEF HasWorker, StreamInv, TypeOK, Bookkeeping, JobsValid, JobValid,
     PacketOwned, Live, InOrder, NotBefore, Jobs, Pictures, Leave, DropViewer,
     hostVars, pacerVars, linkVars, boxVars, workerVars
<1> QED
  BY <1>1, <1>2, <1>3, <1>4, <1>5, <1>6, <1>7 DEF StreamInv

\* A viewer comes.
LEMMA JoinKeeps == StreamInv /\ Join => StreamInv'
<1> SUFFICES ASSUME StreamInv, Join PROVE StreamInv'
  OBVIOUS
<1>1. TypeOK'
  <2>1. nextSession' \in 0..MaxSessions
    BY StreamAssumption DEF HasWorker, StreamInv, TypeOK, Join, hostVars, pacerVars,
       linkVars, boxVars, workerVars
  <2>2. viewer' \in 0..MaxSessions
    BY StreamAssumption DEF HasWorker, StreamInv, TypeOK, Join, hostVars, pacerVars,
       linkVars, boxVars, workerVars
  <2>3. greeted' \in BOOLEAN
    BY StreamAssumption DEF HasWorker, StreamInv, TypeOK, Join, hostVars, pacerVars,
       linkVars, boxVars, workerVars
  <2> QED
    BY <2>1, <2>2, <2>3 DEF HasWorker, StreamInv, TypeOK, Join, hostVars, pacerVars,
       linkVars, boxVars, workerVars
<1>2. Bookkeeping'
  BY StreamAssumption DEF HasWorker, StreamInv, TypeOK, Bookkeeping, Join, hostVars,
     pacerVars, linkVars, boxVars, workerVars
<1>3. JobsValid'
  BY StreamAssumption DEF HasWorker, StreamInv, TypeOK, Bookkeeping, JobsValid, JobValid,
     Jobs, Pictures, Join, hostVars, pacerVars, linkVars, boxVars, workerVars
<1>4. PacketOwned'
  BY StreamAssumption DEF HasWorker, StreamInv, TypeOK, Bookkeeping, JobsValid, JobValid,
     PacketOwned, Live, Join, hostVars, pacerVars, linkVars, boxVars,
     workerVars
<1>5. NothingStale'
  BY StreamAssumption DEF HasWorker, StreamInv, TypeOK, Bookkeeping, JobsValid, JobValid,
     PacketOwned, Live, NothingStale, Join, hostVars, pacerVars, linkVars,
     boxVars, workerVars
<1>6. WakeOwed'
  BY StreamAssumption DEF HasWorker, StreamInv, TypeOK, Bookkeeping, PacketOwned,
     WakeOwed, Join, hostVars, pacerVars, linkVars, boxVars, workerVars
<1>7. InOrder'
  BY StreamAssumption DEF HasWorker, StreamInv, TypeOK, Bookkeeping, JobsValid, JobValid,
     PacketOwned, Live, InOrder, NotBefore, Jobs, Pictures, Join, hostVars,
     pacerVars, linkVars, boxVars, workerVars
<1> QED
  BY <1>1, <1>2, <1>3, <1>4, <1>5, <1>6, <1>7 DEF StreamInv

\* The first bytes of a picture leave.
LEMMA SendFirstKeeps == StreamInv /\ SendFirst => StreamInv'
<1> SUFFICES ASSUME StreamInv, SendFirst PROVE StreamInv'
  OBVIOUS
<1>1. TypeOK'
  <2>1. begun' \in BOOLEAN
    BY StreamAssumption DEF HasWorker, StreamInv, TypeOK, SendFirst, hostVars, pacerVars,
       linkVars, boxVars, workerVars
  <2>2. shown' \in 0..MaxPictures
    BY StreamAssumption DEF HasWorker, StreamInv, TypeOK, SendFirst, Pictures, hostVars,
       pacerVars, linkVars, boxVars, workerVars
  <2> QED
    BY <2>1, <2>2 DEF HasWorker, StreamInv, TypeOK, SendFirst, hostVars, pacerVars,
       linkVars, boxVars, workerVars
<1>2. Bookkeeping'
  BY StreamAssumption DEF HasWorker, StreamInv, TypeOK, Bookkeeping, SendFirst, hostVars,
     pacerVars, linkVars, boxVars, workerVars
<1>3. JobsValid'
  BY StreamAssumption DEF HasWorker, StreamInv, TypeOK, Bookkeeping, JobsValid, JobValid,
     Jobs, Pictures, SendFirst, hostVars, pacerVars, linkVars, boxVars,
     workerVars
<1>4. PacketOwned'
  BY StreamAssumption DEF HasWorker, StreamInv, TypeOK, Bookkeeping, JobsValid, JobValid,
     PacketOwned, Live, SendFirst, hostVars, pacerVars, linkVars, boxVars,
     workerVars
<1>5. NothingStale'
  BY StreamAssumption DEF HasWorker, StreamInv, TypeOK, Bookkeeping, JobsValid, JobValid,
     PacketOwned, Live, NothingStale, SendFirst, hostVars, pacerVars,
     linkVars, boxVars, workerVars
<1>6. WakeOwed'
  BY StreamAssumption DEF HasWorker, StreamInv, TypeOK, Bookkeeping, PacketOwned,
     WakeOwed, SendFirst, hostVars, pacerVars, linkVars, boxVars, workerVars
<1>7. InOrder'
  BY StreamAssumption DEF HasWorker, StreamInv, TypeOK, Bookkeeping, JobsValid, JobValid,
     PacketOwned, Live, InOrder, NotBefore, Jobs, Pictures, SendFirst,
     hostVars, pacerVars, linkVars, boxVars, workerVars
<1> QED
  BY <1>1, <1>2, <1>3, <1>4, <1>5, <1>6, <1>7 DEF StreamInv

\* The last bytes of a picture leave.
LEMMA SendLastKeeps == StreamInv /\ SendLast => StreamInv'
<1> SUFFICES ASSUME StreamInv, SendLast PROVE StreamInv'
  OBVIOUS
<1>1. TypeOK'
  <2>1. slot' \in Pictures \cup {None}
    BY StreamAssumption DEF HasWorker, StreamInv, TypeOK, SendLast, hostVars, pacerVars,
       linkVars, boxVars, workerVars
  <2>2. begun' \in BOOLEAN
    BY StreamAssumption DEF HasWorker, StreamInv, TypeOK, SendLast, hostVars, pacerVars,
       linkVars, boxVars, workerVars
  <2> QED
    BY <2>1, <2>2 DEF HasWorker, StreamInv, TypeOK, SendLast, hostVars, pacerVars,
       linkVars, boxVars, workerVars
<1>2. Bookkeeping'
  BY StreamAssumption DEF HasWorker, StreamInv, TypeOK, Bookkeeping, SendLast, hostVars,
     pacerVars, linkVars, boxVars, workerVars
<1>3. JobsValid'
  BY StreamAssumption DEF HasWorker, StreamInv, TypeOK, Bookkeeping, JobsValid, JobValid,
     Jobs, Pictures, SendLast, hostVars, pacerVars, linkVars, boxVars,
     workerVars
<1>4. PacketOwned'
  BY StreamAssumption DEF HasWorker, StreamInv, TypeOK, Bookkeeping, JobsValid, JobValid,
     PacketOwned, Live, SendLast, hostVars, pacerVars, linkVars, boxVars,
     workerVars
<1>5. NothingStale'
  BY StreamAssumption DEF HasWorker, StreamInv, TypeOK, Bookkeeping, JobsValid, JobValid,
     PacketOwned, Live, NothingStale, SendLast, hostVars, pacerVars, linkVars,
     boxVars, workerVars
<1>6. WakeOwed'
  BY StreamAssumption DEF HasWorker, StreamInv, TypeOK, Bookkeeping, PacketOwned,
     WakeOwed, SendLast, hostVars, pacerVars, linkVars, boxVars, workerVars
<1>7. InOrder'
  BY StreamAssumption DEF HasWorker, StreamInv, TypeOK, Bookkeeping, JobsValid, JobValid,
     PacketOwned, Live, InOrder, NotBefore, Jobs, Pictures, SendLast,
     hostVars, pacerVars, linkVars, boxVars, workerVars
<1> QED
  BY <1>1, <1>2, <1>3, <1>4, <1>5, <1>6, <1>7 DEF StreamInv

\* A ROM or a state is loaded.
LEMMA ChangeSceneKeeps == StreamInv /\ ChangeScene => StreamInv'
<1> SUFFICES ASSUME StreamInv, ChangeScene PROVE StreamInv'
  OBVIOUS
<1>1. TypeOK'
  <2>1. changes' \in 0..MaxChanges
    BY StreamAssumption DEF HasWorker, StreamInv, TypeOK, ChangeScene, hostVars,
       pacerVars, linkVars, boxVars, workerVars
  <2>2. /\ loads' \in 0..MaxChanges /\ shows' \in 0..MaxChanges
        /\ epoch' \in 0..MaxChanges
    BY StreamAssumption DEF HasWorker, StreamInv, TypeOK, ChangeScene, Bookkeeping,
       hostVars, pacerVars, linkVars, boxVars, workerVars
  <2>3. frameId' \in 0..MaxPictures
    BY StreamAssumption DEF HasWorker, StreamInv, TypeOK, ChangeScene, Bookkeeping,
       hostVars, pacerVars, linkVars, boxVars, workerVars
  <2>4. drawn' \in BOOLEAN
    BY StreamAssumption DEF HasWorker, StreamInv, TypeOK, ChangeScene, hostVars,
       pacerVars, linkVars, boxVars, workerVars
  <2>5. fps' \in Rates
    BY StreamAssumption DEF HasWorker, StreamInv, TypeOK, ChangeScene, hostVars,
       pacerVars, linkVars, boxVars, workerVars
  <2>6. stamp' \in 0..MaxPictures
    BY StreamAssumption DEF HasWorker, StreamInv, TypeOK, ChangeScene, hostVars,
       pacerVars, linkVars, boxVars, workerVars
  <2>7. net' \in NetStates
    BY StreamAssumption DEF HasWorker, StreamInv, TypeOK, ChangeScene, NetStates,
       hostVars, pacerVars, linkVars, boxVars, workerVars
  <2> QED
    BY <2>1, <2>2, <2>3, <2>4, <2>5, <2>6, <2>7 DEF HasWorker, StreamInv, TypeOK,
       ChangeScene, hostVars, pacerVars, linkVars, boxVars, workerVars
<1>2. Bookkeeping'
  BY StreamAssumption DEF HasWorker, StreamInv, TypeOK, Bookkeeping, ChangeScene,
     hostVars, pacerVars, linkVars, boxVars, workerVars
<1>3. JobsValid'
  BY StreamAssumption DEF HasWorker, StreamInv, TypeOK, Bookkeeping, JobsValid, JobValid,
     Jobs, Pictures, ChangeScene, hostVars, pacerVars, linkVars, boxVars,
     workerVars
<1>4. PacketOwned'
  BY StreamAssumption DEF HasWorker, StreamInv, TypeOK, Bookkeeping, JobsValid, JobValid,
     PacketOwned, Live, ChangeScene, hostVars, pacerVars, linkVars, boxVars,
     workerVars
<1>5. NothingStale'
  BY StreamAssumption DEF HasWorker, StreamInv, TypeOK, Bookkeeping, JobsValid, JobValid,
     PacketOwned, Live, NothingStale, ChangeScene, hostVars, pacerVars,
     linkVars, boxVars, workerVars
<1>6. WakeOwed'
  BY StreamAssumption DEF HasWorker, StreamInv, TypeOK, Bookkeeping, PacketOwned,
     WakeOwed, ChangeScene, hostVars, pacerVars, linkVars, boxVars, workerVars
<1>7. InOrder'
  BY StreamAssumption DEF HasWorker, StreamInv, TypeOK, Bookkeeping, JobsValid, JobValid,
     PacketOwned, Live, InOrder, NotBefore, Jobs, Pictures, ChangeScene,
     hostVars, pacerVars, linkVars, boxVars, workerVars
<1> QED
  BY <1>1, <1>2, <1>3, <1>4, <1>5, <1>6, <1>7 DEF StreamInv

\* A ROM load fails.
LEMMA FailLoadKeeps == StreamInv /\ FailLoad => StreamInv'
<1> SUFFICES ASSUME StreamInv, FailLoad PROVE StreamInv'
  OBVIOUS
<1>1. TypeOK'
  <2>1. changes' \in 0..MaxChanges
    BY StreamAssumption DEF HasWorker, StreamInv, TypeOK, FailLoad, hostVars, pacerVars,
       linkVars, boxVars, workerVars
  <2>2. frameId' \in 0..MaxPictures
    BY StreamAssumption DEF HasWorker, StreamInv, TypeOK, FailLoad, Bookkeeping,
       hostVars, pacerVars, linkVars, boxVars, workerVars
  <2>3. drawn' \in BOOLEAN
    BY StreamAssumption DEF HasWorker, StreamInv, TypeOK, FailLoad, hostVars, pacerVars,
       linkVars, boxVars, workerVars
  <2>4. fps' \in Rates
    BY StreamAssumption DEF HasWorker, StreamInv, TypeOK, FailLoad, hostVars, pacerVars,
       linkVars, boxVars, workerVars
  <2> QED
    BY <2>1, <2>2, <2>3, <2>4 DEF HasWorker, StreamInv, TypeOK, FailLoad, hostVars,
       pacerVars, linkVars, boxVars, workerVars
<1>2. Bookkeeping'
  BY StreamAssumption DEF HasWorker, StreamInv, TypeOK, Bookkeeping, FailLoad, hostVars,
     pacerVars, linkVars, boxVars, workerVars
<1>3. JobsValid'
  BY StreamAssumption DEF HasWorker, StreamInv, TypeOK, Bookkeeping, JobsValid, JobValid,
     Jobs, Pictures, FailLoad, hostVars, pacerVars, linkVars, boxVars,
     workerVars
<1>4. PacketOwned'
  BY StreamAssumption DEF HasWorker, StreamInv, TypeOK, Bookkeeping, JobsValid, JobValid,
     PacketOwned, Live, FailLoad, hostVars, pacerVars, linkVars, boxVars,
     workerVars
<1>5. NothingStale'
  BY StreamAssumption DEF HasWorker, StreamInv, TypeOK, Bookkeeping, JobsValid, JobValid,
     PacketOwned, Live, NothingStale, FailLoad, hostVars, pacerVars, linkVars,
     boxVars, workerVars
<1>6. WakeOwed'
  BY StreamAssumption DEF HasWorker, StreamInv, TypeOK, Bookkeeping, PacketOwned,
     WakeOwed, FailLoad, hostVars, pacerVars, linkVars, boxVars, workerVars
<1>7. InOrder'
  BY StreamAssumption DEF HasWorker, StreamInv, TypeOK, Bookkeeping, JobsValid, JobValid,
     PacketOwned, Live, InOrder, NotBefore, Jobs, Pictures, FailLoad,
     hostVars, pacerVars, linkVars, boxVars, workerVars
<1> QED
  BY <1>1, <1>2, <1>3, <1>4, <1>5, <1>6, <1>7 DEF StreamInv

\* What the change made stale is thrown away.
LEMMA DiscardKeeps == StreamInv /\ Discard => StreamInv'
<1> SUFFICES ASSUME StreamInv, Discard PROVE StreamInv'
  OBVIOUS
<1>1. TypeOK'
  <2>1. generation' \in Nat
    BY StreamAssumption DEF HasWorker, StreamInv, TypeOK, Discard, hostVars, pacerVars,
       linkVars, boxVars, workerVars
  <2>2. pending' \in Jobs \cup {None}
    BY StreamAssumption DEF HasWorker, StreamInv, TypeOK, Discard, hostVars, pacerVars,
       linkVars, boxVars, workerVars
  <2>3. completed' \in BOOLEAN
    BY StreamAssumption DEF HasWorker, StreamInv, TypeOK, Discard, hostVars, pacerVars,
       linkVars, boxVars, workerVars
  <2>4. slot' \in Pictures \cup {None}
    BY StreamAssumption DEF HasWorker, StreamInv, TypeOK, Discard, hostVars, pacerVars,
       linkVars, boxVars, workerVars
  <2>5. net' \in NetStates
    BY StreamAssumption DEF HasWorker, StreamInv, TypeOK, Discard, NetStates, hostVars,
       pacerVars, linkVars, boxVars, workerVars
  <2> QED
    BY <2>1, <2>2, <2>3, <2>4, <2>5 DEF HasWorker, StreamInv, TypeOK, Discard, hostVars,
       pacerVars, linkVars, boxVars, workerVars
<1>2. Bookkeeping'
  BY StreamAssumption DEF HasWorker, StreamInv, TypeOK, Bookkeeping, Discard, hostVars,
     pacerVars, linkVars, boxVars, workerVars
<1>3. JobsValid'
  BY StreamAssumption DEF HasWorker, StreamInv, TypeOK, Bookkeeping, JobsValid, JobValid,
     Jobs, Pictures, Discard, hostVars, pacerVars, linkVars, boxVars,
     workerVars
<1>4. PacketOwned'
  BY StreamAssumption DEF HasWorker, StreamInv, TypeOK, Bookkeeping, JobsValid, JobValid,
     PacketOwned, Live, Discard, hostVars, pacerVars, linkVars, boxVars,
     workerVars
<1>5. NothingStale'
  BY StreamAssumption DEF HasWorker, StreamInv, TypeOK, Bookkeeping, JobsValid, JobValid,
     PacketOwned, Live, NothingStale, Discard, hostVars, pacerVars, linkVars,
     boxVars, workerVars
<1>6. WakeOwed'
  BY StreamAssumption DEF HasWorker, StreamInv, TypeOK, Bookkeeping, PacketOwned,
     WakeOwed, Discard, hostVars, pacerVars, linkVars, boxVars, workerVars
<1>7. InOrder'
  BY StreamAssumption DEF HasWorker, StreamInv, TypeOK, Bookkeeping, JobsValid, JobValid,
     PacketOwned, Live, InOrder, NotBefore, Jobs, Pictures, Discard, hostVars,
     pacerVars, linkVars, boxVars, workerVars
<1> QED
  BY <1>1, <1>2, <1>3, <1>4, <1>5, <1>6, <1>7 DEF StreamInv

\* The encoder learns who watches.
LEMMA SetSessionKeeps == StreamInv /\ SetSession => StreamInv'
<1> SUFFICES ASSUME StreamInv, SetSession PROVE StreamInv'
  OBVIOUS
<1>1. TypeOK'
  <2>1. session' \in 0..MaxSessions
    BY StreamAssumption DEF HasWorker, StreamInv, TypeOK, SetSession, Install, hostVars,
       pacerVars, linkVars, boxVars, workerVars
  <2>2. generation' \in Nat
    BY StreamAssumption DEF HasWorker, StreamInv, TypeOK, SetSession, Install, hostVars,
       pacerVars, linkVars, boxVars, workerVars
  <2>3. pending' \in Jobs \cup {None}
    BY StreamAssumption DEF HasWorker, StreamInv, TypeOK, SetSession, Install, hostVars,
       pacerVars, linkVars, boxVars, workerVars
  <2>4. completed' \in BOOLEAN
    BY StreamAssumption DEF HasWorker, StreamInv, TypeOK, SetSession, Install, hostVars,
       pacerVars, linkVars, boxVars, workerVars
  <2>5. net' \in NetStates
    BY StreamAssumption DEF HasWorker, StreamInv, TypeOK, SetSession, Install, NetStates,
       hostVars, pacerVars, linkVars, boxVars, workerVars
  <2> QED
    BY <2>1, <2>2, <2>3, <2>4, <2>5 DEF HasWorker, StreamInv, TypeOK, SetSession,
       Install, hostVars, pacerVars, linkVars, boxVars, workerVars
<1>2. Bookkeeping'
  BY StreamAssumption DEF HasWorker, StreamInv, TypeOK, Bookkeeping, SetSession, Install,
     hostVars, pacerVars, linkVars, boxVars, workerVars
<1>3. JobsValid'
  BY StreamAssumption DEF HasWorker, StreamInv, TypeOK, Bookkeeping, JobsValid, JobValid,
     Jobs, Pictures, SetSession, Install, hostVars, pacerVars, linkVars,
     boxVars, workerVars
<1>4. PacketOwned'
  BY StreamAssumption DEF HasWorker, StreamInv, TypeOK, Bookkeeping, JobsValid, JobValid,
     PacketOwned, Live, SetSession, Install, hostVars, pacerVars, linkVars,
     boxVars, workerVars
<1>5. NothingStale'
  BY StreamAssumption DEF HasWorker, StreamInv, TypeOK, Bookkeeping, JobsValid, JobValid,
     PacketOwned, Live, NothingStale, SetSession, Install, hostVars,
     pacerVars, linkVars, boxVars, workerVars
<1>6. WakeOwed'
  BY StreamAssumption DEF HasWorker, StreamInv, TypeOK, Bookkeeping, PacketOwned,
     WakeOwed, SetSession, Install, hostVars, pacerVars, linkVars, boxVars,
     workerVars
<1>7. InOrder'
  BY StreamAssumption DEF HasWorker, StreamInv, TypeOK, Bookkeeping, JobsValid, JobValid,
     PacketOwned, Live, InOrder, NotBefore, Jobs, Pictures, SetSession,
     Install, hostVars, pacerVars, linkVars, boxVars, workerVars
<1> QED
  BY <1>1, <1>2, <1>3, <1>4, <1>5, <1>6, <1>7 DEF StreamInv

\* An old packet is dropped.
LEMMA ExpireCompletedKeeps == StreamInv /\ ExpireCompleted => StreamInv'
<1> SUFFICES ASSUME StreamInv, ExpireCompleted PROVE StreamInv'
  OBVIOUS
<1>1. TypeOK'
  <2>1. completed' \in BOOLEAN
    BY StreamAssumption DEF HasWorker, StreamInv, TypeOK, ExpireCompleted, hostVars,
       pacerVars, linkVars, boxVars, workerVars
  <2>2. pacerFps' \in Rates \cup {0}
    BY StreamAssumption DEF HasWorker, StreamInv, TypeOK, ExpireCompleted, hostVars,
       pacerVars, linkVars, boxVars, workerVars
  <2>3. lastId' \in 0..MaxPictures
    BY StreamAssumption DEF HasWorker, StreamInv, TypeOK, ExpireCompleted, hostVars,
       pacerVars, linkVars, boxVars, workerVars
  <2>4. net' \in NetStates
    BY StreamAssumption DEF HasWorker, StreamInv, TypeOK, ExpireCompleted, NetStates,
       hostVars, pacerVars, linkVars, boxVars, workerVars
  <2> QED
    BY <2>1, <2>2, <2>3, <2>4 DEF HasWorker, StreamInv, TypeOK, ExpireCompleted,
       hostVars, pacerVars, linkVars, boxVars, workerVars
<1>2. Bookkeeping'
  BY StreamAssumption DEF HasWorker, StreamInv, TypeOK, Bookkeeping, ExpireCompleted,
     hostVars, pacerVars, linkVars, boxVars, workerVars
<1>3. JobsValid'
  BY StreamAssumption DEF HasWorker, StreamInv, TypeOK, Bookkeeping, JobsValid, JobValid,
     Jobs, Pictures, ExpireCompleted, hostVars, pacerVars, linkVars, boxVars,
     workerVars
<1>4. PacketOwned'
  <2>1. completed' => completed
    BY DEF HasWorker, StreamInv, TypeOK, ExpireCompleted
  <2>2. completed \in BOOLEAN /\ completed' \in BOOLEAN
    BY <1>1 DEF StreamInv, TypeOK
  <2> QED
    BY <2>1, <2>2 DEF StreamInv, PacketOwned, Live, ExpireCompleted,
       linkVars, workerVars
<1>5. NothingStale'
  BY StreamAssumption DEF HasWorker, StreamInv, TypeOK, Bookkeeping, JobsValid, JobValid,
     PacketOwned, Live, NothingStale, ExpireCompleted, hostVars, pacerVars,
     linkVars, boxVars, workerVars
<1>6. WakeOwed'
  BY StreamAssumption DEF HasWorker, StreamInv, TypeOK, Bookkeeping, PacketOwned,
     WakeOwed, ExpireCompleted, hostVars, pacerVars, linkVars, boxVars,
     workerVars
<1>7. InOrder'
  BY StreamAssumption DEF HasWorker, StreamInv, TypeOK, Bookkeeping, JobsValid, JobValid,
     PacketOwned, Live, InOrder, NotBefore, Jobs, Pictures, ExpireCompleted,
     hostVars, pacerVars, linkVars, boxVars, workerVars
<1> QED
  BY <1>1, <1>2, <1>3, <1>4, <1>5, <1>6, <1>7 DEF StreamInv

\* A packet moves to the link.
LEMMA CollectKeeps == StreamInv /\ Collect => StreamInv'
<1> SUFFICES ASSUME StreamInv, Collect PROVE StreamInv'
  OBVIOUS
<1>1. TypeOK'
  <2>1. looked' \in BOOLEAN
    BY StreamAssumption DEF HasWorker, StreamInv, TypeOK, Collect, AfterExpiry, hostVars,
       pacerVars, linkVars, boxVars, workerVars
  <2>2. net' \in NetStates
    BY StreamAssumption DEF HasWorker, StreamInv, TypeOK, Collect, AfterExpiry,
       NetStates, hostVars, pacerVars, linkVars, boxVars, workerVars
  <2>3. slot' \in Pictures \cup {None}
    BY StreamAssumption DEF HasWorker, StreamInv, TypeOK, Collect, AfterExpiry,
       PacketOwned, Live, hostVars, pacerVars, linkVars, boxVars, workerVars
  <2>4. completed' \in BOOLEAN
    BY StreamAssumption DEF HasWorker, StreamInv, TypeOK, Collect, AfterExpiry, hostVars,
       pacerVars, linkVars, boxVars, workerVars
  <2> QED
    BY <2>1, <2>2, <2>3, <2>4 DEF HasWorker, StreamInv, TypeOK, Collect, AfterExpiry,
       hostVars, pacerVars, linkVars, boxVars, workerVars
<1>2. Bookkeeping'
  BY StreamAssumption DEF HasWorker, StreamInv, TypeOK, Bookkeeping, Collect,
     AfterExpiry, hostVars, pacerVars, linkVars, boxVars, workerVars
<1>3. JobsValid'
  BY StreamAssumption DEF HasWorker, StreamInv, TypeOK, Bookkeeping, JobsValid, JobValid,
     Jobs, Pictures, Collect, AfterExpiry, hostVars, pacerVars, linkVars,
     boxVars, workerVars
<1>4. PacketOwned'
  BY StreamAssumption DEF HasWorker, StreamInv, TypeOK, Bookkeeping, JobsValid, JobValid,
     PacketOwned, Live, Collect, AfterExpiry, hostVars, pacerVars, linkVars,
     boxVars, workerVars
<1>5. NothingStale'
  BY StreamAssumption DEF HasWorker, StreamInv, TypeOK, Bookkeeping, JobsValid, JobValid,
     PacketOwned, Live, NothingStale, Collect, AfterExpiry, hostVars,
     pacerVars, linkVars, boxVars, workerVars
<1>6. WakeOwed'
  BY StreamAssumption DEF HasWorker, StreamInv, TypeOK, Bookkeeping, PacketOwned,
     WakeOwed, Collect, AfterExpiry, hostVars, pacerVars, linkVars, boxVars,
     workerVars
<1>7. InOrder'
  BY StreamAssumption DEF HasWorker, StreamInv, TypeOK, Bookkeeping, JobsValid, JobValid,
     PacketOwned, Live, InOrder, NotBefore, Jobs, Pictures, Collect,
     AfterExpiry, hostVars, pacerVars, linkVars, boxVars, workerVars
<1> QED
  BY <1>1, <1>2, <1>3, <1>4, <1>5, <1>6, <1>7 DEF StreamInv

\* The pacer hands a picture over.
LEMMA SubmitKeeps == StreamInv /\ Submit => StreamInv'
<1> SUFFICES ASSUME StreamInv, Submit PROVE StreamInv'
  OBVIOUS
<1>1. TypeOK'
  BY StreamAssumption DEF HasWorker, StreamInv, TypeOK, Bookkeeping, Jobs, Pictures,
     NetStates, WorkerStates, Submit, SubmitDue, Accept, Fresh, AfterExpiry,
     Current, hostVars, pacerVars, linkVars, boxVars, workerVars
<1>2. Bookkeeping'
  BY StreamAssumption DEF HasWorker, StreamInv, TypeOK, Bookkeeping, Submit, SubmitDue,
     Accept, Fresh, AfterExpiry, Current, hostVars, pacerVars, linkVars,
     boxVars, workerVars
<1>3. JobsValid'
  BY StreamAssumption DEF HasWorker, StreamInv, TypeOK, Bookkeeping, JobsValid, JobValid,
     Jobs, Pictures, Submit, SubmitDue, Accept, Fresh, AfterExpiry, Current,
     hostVars, pacerVars, linkVars, boxVars, workerVars
<1>4. PacketOwned'
  BY StreamAssumption DEF HasWorker, StreamInv, TypeOK, Bookkeeping, JobsValid, JobValid,
     PacketOwned, Live, Submit, SubmitDue, Accept, Fresh, AfterExpiry,
     Current, hostVars, pacerVars, linkVars, boxVars, workerVars
<1>5. NothingStale'
  BY StreamAssumption DEF HasWorker, StreamInv, TypeOK, Bookkeeping, JobsValid, JobValid,
     PacketOwned, Live, NothingStale, Submit, SubmitDue, Accept, Fresh,
     AfterExpiry, Current, hostVars, pacerVars, linkVars, boxVars, workerVars
<1>6. WakeOwed'
  BY StreamAssumption DEF HasWorker, StreamInv, TypeOK, Bookkeeping, PacketOwned,
     WakeOwed, Submit, SubmitDue, Accept, Fresh, AfterExpiry, Current,
     hostVars, pacerVars, linkVars, boxVars, workerVars
<1>7. InOrder'
  <2> DEFINE Kept == slot' \in {slot, None} /\ UNCHANGED pending
             ToWorker == /\ HasWorker /\ slot' = None
                         /\ pending' = [picture |-> Current,
                                        generation |-> generation]
             ToLink == ~HasWorker /\ slot' = Current /\ UNCHANGED pending
  <2>1. Kept \/ ToWorker \/ ToLink
    BY StreamAssumption DEF HasWorker, StreamInv, TypeOK, Bookkeeping, Submit, SubmitDue,
       Accept, AfterExpiry, boxVars
  <2>2. UNCHANGED <<stamp, shown, viewer, active, generation>>
    BY DEF Submit, hostVars, workerVars
  <2>3. CASE Kept
    BY <2>2, <2>3 DEF StreamInv, InOrder, NotBefore, Live
  <2>4. CASE ToWorker
    BY <2>2, <2>4 DEF HasWorker, StreamInv, TypeOK, InOrder, NotBefore, Live, JobsValid,
       JobValid, Current
  <2>5. CASE ToLink
    BY <2>2, <2>5 DEF HasWorker, StreamInv, TypeOK, Bookkeeping, InOrder, NotBefore, Live,
       Current
  <2> QED
    BY <2>1, <2>3, <2>4, <2>5
<1> QED
  BY <1>1, <1>2, <1>3, <1>4, <1>5, <1>6, <1>7 DEF StreamInv

\* http_serve ends its loop.
LEMMA BeginShutdownKeeps == StreamInv /\ BeginShutdown => StreamInv'
<1> SUFFICES ASSUME StreamInv, BeginShutdown PROVE StreamInv'
  OBVIOUS
<1>1. TypeOK'
  <2>1. viewer' \in 0..MaxSessions
    BY StreamAssumption DEF HasWorker, StreamInv, TypeOK, BeginShutdown, DropViewer,
       hostVars, pacerVars, linkVars, boxVars, workerVars
  <2>2. slot' \in Pictures \cup {None}
    BY StreamAssumption DEF HasWorker, StreamInv, TypeOK, BeginShutdown, DropViewer,
       hostVars, pacerVars, linkVars, boxVars, workerVars
  <2>3. begun' \in BOOLEAN
    BY StreamAssumption DEF HasWorker, StreamInv, TypeOK, BeginShutdown, DropViewer,
       hostVars, pacerVars, linkVars, boxVars, workerVars
  <2>4. shown' \in 0..MaxPictures
    BY StreamAssumption DEF HasWorker, StreamInv, TypeOK, BeginShutdown, DropViewer,
       hostVars, pacerVars, linkVars, boxVars, workerVars
  <2>5. net' \in NetStates
    BY StreamAssumption DEF HasWorker, StreamInv, TypeOK, BeginShutdown, DropViewer,
       NetStates, hostVars, pacerVars, linkVars, boxVars, workerVars
  <2> QED
    BY <2>1, <2>2, <2>3, <2>4, <2>5 DEF HasWorker, StreamInv, TypeOK, BeginShutdown,
       DropViewer, hostVars, pacerVars, linkVars, boxVars, workerVars
<1>2. Bookkeeping'
  BY StreamAssumption DEF HasWorker, StreamInv, TypeOK, Bookkeeping, BeginShutdown,
     DropViewer, hostVars, pacerVars, linkVars, boxVars, workerVars
<1>3. JobsValid'
  BY StreamAssumption DEF HasWorker, StreamInv, TypeOK, Bookkeeping, JobsValid, JobValid,
     Jobs, Pictures, BeginShutdown, DropViewer, hostVars, pacerVars, linkVars,
     boxVars, workerVars
<1>4. PacketOwned'
  BY StreamAssumption DEF HasWorker, StreamInv, TypeOK, Bookkeeping, JobsValid, JobValid,
     PacketOwned, Live, BeginShutdown, DropViewer, hostVars, pacerVars,
     linkVars, boxVars, workerVars
<1>5. NothingStale'
  BY StreamAssumption DEF HasWorker, StreamInv, TypeOK, Bookkeeping, JobsValid, JobValid,
     PacketOwned, Live, NothingStale, BeginShutdown, DropViewer, hostVars,
     pacerVars, linkVars, boxVars, workerVars
<1>6. WakeOwed'
  BY StreamAssumption DEF HasWorker, StreamInv, TypeOK, Bookkeeping, PacketOwned,
     WakeOwed, BeginShutdown, DropViewer, hostVars, pacerVars, linkVars,
     boxVars, workerVars
<1>7. InOrder'
  BY StreamAssumption DEF HasWorker, StreamInv, TypeOK, Bookkeeping, JobsValid, JobValid,
     PacketOwned, Live, InOrder, NotBefore, Jobs, Pictures, BeginShutdown,
     DropViewer, hostVars, pacerVars, linkVars, boxVars, workerVars
<1> QED
  BY <1>1, <1>2, <1>3, <1>4, <1>5, <1>6, <1>7 DEF StreamInv

\* The connections are closed.
LEMMA EndSessionKeeps == StreamInv /\ EndSession => StreamInv'
<1> SUFFICES ASSUME StreamInv, EndSession PROVE StreamInv'
  OBVIOUS
<1>1. TypeOK'
  <2>1. session' \in 0..MaxSessions
    BY StreamAssumption DEF HasWorker, StreamInv, TypeOK, EndSession, Install, hostVars,
       pacerVars, linkVars, boxVars, workerVars
  <2>2. generation' \in Nat
    BY StreamAssumption DEF HasWorker, StreamInv, TypeOK, EndSession, Install, hostVars,
       pacerVars, linkVars, boxVars, workerVars
  <2>3. pending' \in Jobs \cup {None}
    BY StreamAssumption DEF HasWorker, StreamInv, TypeOK, EndSession, Install, hostVars,
       pacerVars, linkVars, boxVars, workerVars
  <2>4. completed' \in BOOLEAN
    BY StreamAssumption DEF HasWorker, StreamInv, TypeOK, EndSession, Install, hostVars,
       pacerVars, linkVars, boxVars, workerVars
  <2>5. net' \in NetStates
    BY StreamAssumption DEF HasWorker, StreamInv, TypeOK, EndSession, Install, NetStates,
       hostVars, pacerVars, linkVars, boxVars, workerVars
  <2> QED
    BY <2>1, <2>2, <2>3, <2>4, <2>5 DEF HasWorker, StreamInv, TypeOK, EndSession,
       Install, hostVars, pacerVars, linkVars, boxVars, workerVars
<1>2. Bookkeeping'
  BY StreamAssumption DEF HasWorker, StreamInv, TypeOK, Bookkeeping, EndSession, Install,
     hostVars, pacerVars, linkVars, boxVars, workerVars
<1>3. JobsValid'
  BY StreamAssumption DEF HasWorker, StreamInv, TypeOK, Bookkeeping, JobsValid, JobValid,
     Jobs, Pictures, EndSession, Install, hostVars, pacerVars, linkVars,
     boxVars, workerVars
<1>4. PacketOwned'
  BY StreamAssumption DEF HasWorker, StreamInv, TypeOK, Bookkeeping, JobsValid, JobValid,
     PacketOwned, Live, EndSession, Install, hostVars, pacerVars, linkVars,
     boxVars, workerVars
<1>5. NothingStale'
  BY StreamAssumption DEF HasWorker, StreamInv, TypeOK, Bookkeeping, JobsValid, JobValid,
     PacketOwned, Live, NothingStale, EndSession, Install, hostVars,
     pacerVars, linkVars, boxVars, workerVars
<1>6. WakeOwed'
  BY StreamAssumption DEF HasWorker, StreamInv, TypeOK, Bookkeeping, PacketOwned,
     WakeOwed, EndSession, Install, hostVars, pacerVars, linkVars, boxVars,
     workerVars
<1>7. InOrder'
  BY StreamAssumption DEF HasWorker, StreamInv, TypeOK, Bookkeeping, JobsValid, JobValid,
     PacketOwned, Live, InOrder, NotBefore, Jobs, Pictures, EndSession,
     Install, hostVars, pacerVars, linkVars, boxVars, workerVars
<1> QED
  BY <1>1, <1>2, <1>3, <1>4, <1>5, <1>6, <1>7 DEF StreamInv

\* The encoder takes a picture.
LEMMA TakeKeeps == StreamInv /\ Take => StreamInv'
<1> SUFFICES ASSUME StreamInv, Take PROVE StreamInv'
  OBVIOUS
<1>1. TypeOK'
  BY StreamAssumption DEF HasWorker, StreamInv, TypeOK, Bookkeeping, Jobs, Pictures,
     NetStates, WorkerStates, Take, hostVars, pacerVars, linkVars, boxVars,
     workerVars
<1>2. Bookkeeping'
  BY StreamAssumption DEF HasWorker, StreamInv, TypeOK, Bookkeeping, Take, hostVars,
     pacerVars, linkVars, boxVars, workerVars
<1>3. JobsValid'
  BY StreamAssumption DEF HasWorker, StreamInv, TypeOK, Bookkeeping, JobsValid, JobValid,
     Jobs, Pictures, Take, hostVars, pacerVars, linkVars, boxVars, workerVars
<1>4. PacketOwned'
  BY StreamAssumption DEF HasWorker, StreamInv, TypeOK, Bookkeeping, JobsValid, JobValid,
     PacketOwned, Live, Take, hostVars, pacerVars, linkVars, boxVars,
     workerVars
<1>5. NothingStale'
  BY StreamAssumption DEF HasWorker, StreamInv, TypeOK, Bookkeeping, JobsValid, JobValid,
     PacketOwned, Live, NothingStale, Take, hostVars, pacerVars, linkVars,
     boxVars, workerVars
<1>6. WakeOwed'
  BY StreamAssumption DEF HasWorker, StreamInv, TypeOK, Bookkeeping, PacketOwned,
     WakeOwed, Take, hostVars, pacerVars, linkVars, boxVars, workerVars
<1>7. InOrder'
  BY StreamAssumption DEF HasWorker, StreamInv, TypeOK, Bookkeeping, JobsValid, JobValid,
     PacketOwned, Live, InOrder, NotBefore, Jobs, Pictures, Take, hostVars,
     pacerVars, linkVars, boxVars, workerVars
<1> QED
  BY <1>1, <1>2, <1>3, <1>4, <1>5, <1>6, <1>7 DEF StreamInv

\* The encoder writes into the packet.
LEMMA EncodeKeeps == StreamInv /\ Encode => StreamInv'
<1> SUFFICES ASSUME StreamInv, Encode PROVE StreamInv'
  OBVIOUS
<1>1. TypeOK'
  <2>1. packet' \in Pictures \cup {None}
    BY StreamAssumption DEF HasWorker, StreamInv, TypeOK, Encode, Jobs, PacketOwned,
       Live, hostVars, pacerVars, linkVars, boxVars, workerVars
  <2>2. worker' \in WorkerStates
    BY StreamAssumption DEF HasWorker, StreamInv, TypeOK, Encode, WorkerStates, hostVars,
       pacerVars, linkVars, boxVars, workerVars
  <2> QED
    BY <2>1, <2>2 DEF HasWorker, StreamInv, TypeOK, Encode, hostVars, pacerVars,
       linkVars, boxVars, workerVars
<1>2. Bookkeeping'
  BY StreamAssumption DEF HasWorker, StreamInv, TypeOK, Bookkeeping, Encode, hostVars,
     pacerVars, linkVars, boxVars, workerVars
<1>3. JobsValid'
  BY StreamAssumption DEF HasWorker, StreamInv, TypeOK, Bookkeeping, JobsValid, JobValid,
     Jobs, Pictures, Encode, hostVars, pacerVars, linkVars, boxVars,
     workerVars
<1>4. PacketOwned'
  BY StreamAssumption DEF HasWorker, StreamInv, TypeOK, Bookkeeping, JobsValid, JobValid,
     PacketOwned, Live, Encode, hostVars, pacerVars, linkVars, boxVars,
     workerVars
<1>5. NothingStale'
  BY StreamAssumption DEF HasWorker, StreamInv, TypeOK, Bookkeeping, JobsValid, JobValid,
     PacketOwned, Live, NothingStale, Encode, hostVars, pacerVars, linkVars,
     boxVars, workerVars
<1>6. WakeOwed'
  BY StreamAssumption DEF HasWorker, StreamInv, TypeOK, Bookkeeping, PacketOwned,
     WakeOwed, Encode, hostVars, pacerVars, linkVars, boxVars, workerVars
<1>7. InOrder'
  BY StreamAssumption DEF HasWorker, StreamInv, TypeOK, Bookkeeping, JobsValid, JobValid,
     PacketOwned, Live, InOrder, NotBefore, Jobs, Pictures, Encode, hostVars,
     pacerVars, linkVars, boxVars, workerVars
<1> QED
  BY <1>1, <1>2, <1>3, <1>4, <1>5, <1>6, <1>7 DEF StreamInv

\* The encoder publishes or drops the packet.
LEMMA FinishKeeps == StreamInv /\ Finish => StreamInv'
<1> SUFFICES ASSUME StreamInv, Finish PROVE StreamInv'
  OBVIOUS
<1>1. TypeOK'
  BY StreamAssumption DEF HasWorker, StreamInv, TypeOK, Bookkeeping, Jobs, Pictures,
     NetStates, WorkerStates, Finish, Publishable, hostVars, pacerVars,
     linkVars, boxVars, workerVars
<1>2. Bookkeeping'
  BY StreamAssumption DEF HasWorker, StreamInv, TypeOK, Bookkeeping, Finish, Publishable,
     hostVars, pacerVars, linkVars, boxVars, workerVars
<1>3. JobsValid'
  BY StreamAssumption DEF HasWorker, StreamInv, TypeOK, Bookkeeping, JobsValid, JobValid,
     Jobs, Pictures, Finish, Publishable, hostVars, pacerVars, linkVars,
     boxVars, workerVars
<1>4. PacketOwned'
  BY StreamAssumption DEF HasWorker, StreamInv, TypeOK, Bookkeeping, JobsValid, JobValid,
     PacketOwned, Live, Finish, Publishable, hostVars, pacerVars, linkVars,
     boxVars, workerVars
<1>5. NothingStale'
  BY StreamAssumption DEF HasWorker, StreamInv, TypeOK, Bookkeeping, JobsValid, JobValid,
     PacketOwned, Live, NothingStale, Finish, Publishable, hostVars,
     pacerVars, linkVars, boxVars, workerVars
<1>6. WakeOwed'
  BY StreamAssumption DEF HasWorker, StreamInv, TypeOK, Bookkeeping, PacketOwned,
     WakeOwed, Finish, Publishable, hostVars, pacerVars, linkVars, boxVars,
     workerVars
<1>7. InOrder'
  BY StreamAssumption DEF HasWorker, StreamInv, TypeOK, Bookkeeping, JobsValid, JobValid,
     PacketOwned, Live, InOrder, NotBefore, Jobs, Pictures, Finish,
     Publishable, hostVars, pacerVars, linkVars, boxVars, workerVars
<1> QED
  BY <1>1, <1>2, <1>3, <1>4, <1>5, <1>6, <1>7 DEF StreamInv
-----------------------------------------------------------------------------
(* The theorems *)

LEMMA StreamInit == Init => StreamInv
<1> SUFFICES ASSUME Init PROVE StreamInv
  OBVIOUS
<1> USE DEF Init
<1>1. TypeOK
  <2>1. /\ frameId \in 0..MaxPictures /\ stamp \in 0..MaxPictures
        /\ lastId \in 0..MaxPictures /\ shown \in 0..MaxPictures
        /\ loads \in 0..MaxChanges /\ shows \in 0..MaxChanges
        /\ epoch \in 0..MaxChanges /\ changes \in 0..MaxChanges
        /\ viewer \in 0..MaxSessions /\ nextSession \in 0..MaxSessions
        /\ session \in 0..MaxSessions
    BY StreamAssumption
  <2>2. net \in NetStates /\ worker \in WorkerStates
    BY DEF NetStates, WorkerStates
  <2> QED
    BY <2>1, <2>2 DEF TypeOK
<1>2. Bookkeeping /\ JobsValid /\ PacketOwned
  BY DEF Bookkeeping, JobsValid, PacketOwned
<1>3. NothingStale /\ WakeOwed /\ InOrder
  BY DEF NothingStale, WakeOwed, InOrder, Live
<1> QED
  BY <1>1, <1>2, <1>3 DEF StreamInv

\* A stutter.
LEMMA StreamStutter == StreamInv /\ UNCHANGED vars => StreamInv'
<1> SUFFICES ASSUME StreamInv, UNCHANGED vars PROVE StreamInv'
  OBVIOUS
<1> USE DEF StreamInv, vars, hostVars, pacerVars, linkVars, boxVars,
            workerVars
<1>1. TypeOK'
  BY DEF TypeOK
<1>2. Bookkeeping' /\ WakeOwed' /\ NothingStale'
  BY DEF HasWorker, Bookkeeping, WakeOwed, NothingStale
<1>3. JobsValid' /\ PacketOwned' /\ InOrder'
  BY DEF JobsValid, JobValid, PacketOwned, Live, InOrder, NotBefore
<1> QED
  BY <1>1, <1>2, <1>3

\* Every step.
LEMMA StreamStep == StreamInv /\ [Next]_vars => StreamInv'
<1> SUFFICES ASSUME StreamInv, [Next]_vars PROVE StreamInv'
  OBVIOUS
<1>1. CASE Worker
  BY <1>1, TakeKeeps, EncodeKeeps, FinishKeeps, NotifyKeeps, ExitKeeps
     DEF Worker
<1>2. CASE Pass
  BY <1>2, PollKeeps, DrainWakeKeeps, DiscardKeeps, ClientsDoneKeeps,
     SetSessionKeeps, ExpireCompletedKeeps, CollectKeeps, SubmitKeeps DEF Pass
<1>3. CASE Network /\ ~Pass
  BY <1>3, TopKeeps, LeaveKeeps, JoinKeeps, SendFirstKeeps, SendLastKeeps,
     ChangeSceneKeeps, ResetConsoleKeeps, FailLoadKeeps, BeginShutdownKeeps,
     EndSessionKeeps, StopWorkerKeeps, JoinWorkerKeeps DEF Network, Transfer
<1>4. CASE DrawPicture
  BY <1>4, DrawPictureKeeps
<1>5. CASE UNCHANGED vars
  BY <1>5, StreamStutter
<1> QED
  BY <1>1, <1>2, <1>3, <1>4, <1>5 DEF Next, Done

\* The inductive invariant is one.
THEOREM StreamInvariant == Spec => []StreamInv
<1>1. Init => StreamInv
  BY StreamInit
<1>2. StreamInv /\ [Next]_vars => StreamInv'
  BY StreamStep
<1> QED
  BY <1>1, <1>2, PTL DEF Spec

\* Every variable keeps its type.
THEOREM StreamTyped == Spec => []TypeOK
<1>1. StreamInv => TypeOK
  BY DEF StreamInv
<1> QED
  BY <1>1, StreamInvariant, PTL

\* The network thread never copies a packet that is being written.
THEOREM PacketsStable == Spec => []PacketStable
<1>1. StreamInv => PacketStable
  <2> SUFFICES ASSUME StreamInv, completed PROVE PacketStable
    BY DEF PacketStable
  <2>1. active \in Jobs /\ packet = active.picture
    BY DEF HasWorker, StreamInv, TypeOK, PacketOwned, Live
  <2>2. packet # None
    BY <2>1, StreamAssumption DEF Jobs
  <2>3. worker \notin {"encode", "finish"}
    BY DEF StreamInv, PacketOwned
  <2> QED
    BY <2>2, <2>3 DEF PacketStable
<1> QED
  BY <1>1, StreamInvariant, PTL

\* No picture of an earlier viewer is queued, none of an earlier game or saved
\* state, and none that was copied before the last load or reset.
THEOREM PicturesCurrent == Spec => []NothingStale
<1>1. StreamInv => NothingStale
  BY DEF StreamInv
<1> QED
  BY <1>1, StreamInvariant, PTL

\* The network thread does not fall asleep on a packet it has not seen.
THEOREM WakeNotLost == Spec => []NoLostWake
<1>1. StreamInv => NoLostWake
  BY DEF StreamInv, WakeOwed, NoLostWake
<1> QED
  BY <1>1, StreamInvariant, PTL

\* A viewer receives pictures in the order they were drawn.
THEOREM PicturesOrdered == Spec => PicturesInOrder
<1>1. StreamInv /\ [Next]_vars => [SendFirst => slot.stamp >= shown]_vars
  BY DEF HasWorker, StreamInv, TypeOK, InOrder, Pictures, SendFirst
<1> QED
  BY <1>1, StreamInvariant, PTL DEF Spec, PicturesInOrder

=============================================================================
