--------------------------- MODULE WsClientProofs ---------------------------
(***************************************************************************)
(* Proofs about WsClient for every depth of the audio queue and every      *)
(* bound on messages.  What can be said of the socket depends on what      *)
(* waits behind the active frame; the invariant QueueInv relates the       *)
(* places a frame can be in to each other and to what has left, and each   *)
(* queue function of the source is shown to keep it.                       *)
(***************************************************************************)
EXTENDS WsClient, SequenceTheorems, TLAPS

Wires == [acked : 0..MaxSeq, played : 0..MaxAudio, pinged : 0..MaxPings,
          drawn : 0..MaxAudio, closed : BOOLEAN]

\* Each place has its kinds of frames.
Waiting(d) ==
    /\ d.control # None => d.control.kind \in {"close", "ping", "pong"}
    /\ d.heartbeat # None => d.heartbeat.kind = "ack"

\* A connection that is being closed has nothing left to send but the Close,
\* and one that is not has no Close anywhere.
Closes(d, w) ==
    /\ d.closing => /\ d.heartbeat = None /\ ~d.status
                    /\ d.audio = <<>> /\ ~d.video
                    /\ d.control # None => d.control.kind = "close"
                    /\ d.out # None /\ ~d.begun => d.out.kind = "close"
    /\ d.out # None /\ d.out.kind = "close" => d.closing /\ d.control = None
    /\ d.control # None /\ d.control.kind = "close" => d.closing
    /\ w.closed => /\ d.closing /\ d.control = None
                   /\ d.out # None => d.out.kind = "close"

\* A waiting acknowledgement is newer than the last one that left, and only
\* one waits.
Acks(d, w) ==
    /\ w.acked <= d.lastSeq
    /\ Unsent(d, {"ack"}) => /\ w.acked < d.out.n /\ d.out.n <= d.lastSeq
                             /\ d.heartbeat = None
    /\ d.heartbeat # None => /\ w.acked < d.heartbeat.n
                             /\ d.heartbeat.n <= d.lastSeq

\* Waiting audio is in the order it was drawn, behind what has left.
Sound(d, w) ==
    /\ Len(d.audio) <= AudioSlots
    /\ w.played <= w.drawn
    /\ Unsent(d, {"audio"}) =>
         /\ w.played < d.out.n /\ d.out.n <= w.drawn
         /\ \A i \in 1..Len(d.audio) : d.out.n < d.audio[i].n
    /\ \A i \in 1..Len(d.audio) :
         w.played < d.audio[i].n /\ d.audio[i].n <= w.drawn
    /\ \A i, j \in 1..Len(d.audio) : i < j => d.audio[i].n < d.audio[j].n

PingControl(d) == d.control # None /\ d.control.kind = "ping"

\* At most one Ping waits, ping_queued says whether one does, and no payload
\* was ever used that is above the present one.
Pings(d, w) ==
    /\ w.pinged <= d.payload
    /\ Unsent(d, {"ping"}) => d.out.n <= d.payload /\ ~PingControl(d)
    /\ PingControl(d) => d.control.n <= d.payload
    /\ ~d.dead => (d.pingQueued <=> Unsent(d, {"ping"}) \/ PingControl(d))

QueueInv(d, w) ==
    Waiting(d) /\ Closes(d, w) /\ Acks(d, w) /\ Sound(d, w) /\ Pings(d, w)

\* A frame waits only behind another one, unless the connection is lost.
Flowing(d) ==
    ~d.dead /\ d.out = None =>
        /\ d.control = None /\ d.heartbeat = None
        /\ ~d.status /\ d.audio = <<>> /\ ~d.video

\* What the queue functions leave alone.
Untouched(d, e) ==
    /\ e.joy = d.joy /\ e.silent = d.silent /\ e.dead = d.dead
    /\ e.lastSeq = d.lastSeq /\ e.payload = d.payload

-----------------------------------------------------------------------------
(* The queue functions *)

LEMMA ActivateTyped ==
    \A d \in Clients, f \in Frames \cup {None} : Activate(d, f) \in Clients
BY DEF Activate, Clients

\* Activate changes the active frame and its marks only.
LEMMA ActivateFields ==
    \A d \in Clients, f \in Frames \cup {None} :
        LET e == Activate(d, f) IN
        /\ Untouched(d, e) /\ e.closing = d.closing
        /\ e.out = f /\ e.begun = FALSE
        /\ e.control = d.control /\ e.heartbeat = d.heartbeat
        /\ e.status = d.status /\ e.audio = d.audio /\ e.video = d.video
        /\ e.pingQueued = d.pingQueued
BY DEF Activate, Clients, Untouched

\* A frame is its kind and its number.
LEMMA FrameFields ==
    ASSUME NEW k \in Kinds, NEW n \in Numbers
    PROVE  /\ Frame(k, n) \in Frames /\ Frame(k, n) # None
           /\ Frame(k, n).kind = k /\ Frame(k, n).n = n
BY NoneAssumption DEF Frame, Frames

LEMMA NumberFacts ==
    /\ 0 \in Numbers
    /\ \A n \in 0..MaxSeq : n \in Numbers
    /\ \A n \in 0..MaxPings : n \in Numbers
    /\ \A n \in 0..MaxAudio : n \in Numbers
BY ClientAssumption DEF Numbers

\* Dropping packets from the front keeps a queue a queue.
LEMMA SuffixFacts ==
    ASSUME NEW q \in Seq(Packets), NEW i \in 1..(Len(q) + 1)
    PROVE  /\ SubSeq(q, i, Len(q)) \in Seq(Packets)
           /\ Len(SubSeq(q, i, Len(q))) = Len(q) - i + 1
           /\ \A k \in 1..(Len(q) - i + 1) :
                /\ k + i - 1 \in 1..Len(q)
                /\ SubSeq(q, i, Len(q))[k] = q[k + i - 1]
<1>1. Len(q) \in Nat /\ \A k \in 1..Len(q) : q[k] \in Packets
  BY LenProperties, ElementOfSeq
<1>2. /\ SubSeq(q, i, Len(q)) \in Seq(Packets)
      /\ Len(SubSeq(q, i, Len(q))) = IF i <= Len(q) THEN Len(q) - i + 1 ELSE 0
      /\ \A k \in 1..(Len(q) - i + 1) : SubSeq(q, i, Len(q))[k] = q[i + k - 1]
  <2>1. i \in Int /\ Len(q) \in Int /\ \A k \in i..Len(q) : q[k] \in Packets
    BY <1>1
  <2> HIDE DEF Packets
  <2>2. QED
    BY <2>1, SubSeqProperties
<1>3. QED
  BY <1>1, <1>2

\* The two lists of media without their first packets.
LEMMA SuffixKeeps ==
    ASSUME NEW d \in Clients, NEW w \in Wires, Sound(d, w),
           NEW i \in 1..(Len(d.audio) + 1)
    PROVE  LET q == SubSeq(d.audio, i, Len(d.audio)) IN
           /\ q \in Seq(Packets) /\ Len(q) <= Len(d.audio)
           /\ d.audio = <<>> => q = <<>>
           /\ \A k \in 1..Len(q) : \E m \in 1..Len(d.audio) :
                m >= i /\ q[k] = d.audio[m]
           /\ \A k \in 1..Len(q) :
                w.played < q[k].n /\ q[k].n <= w.drawn
           /\ \A k, m \in 1..Len(q) : k < m => q[k].n < q[m].n
<1> DEFINE q == SubSeq(d.audio, i, Len(d.audio))
<1>1. d.audio \in Seq(Packets) /\ Len(d.audio) \in Nat
  BY LenProperties DEF Clients
<1>2. /\ q \in Seq(Packets) /\ Len(q) = Len(d.audio) - i + 1
      /\ \A k \in 1..Len(q) :
           k + i - 1 \in 1..Len(d.audio) /\ q[k] = d.audio[k + i - 1]
  BY <1>1, SuffixFacts
<1> HIDE DEF q
<1>3. Len(q) <= Len(d.audio) /\ Len(q) \in Nat
  BY <1>1, <1>2, LenProperties
<1>4. d.audio = <<>> => q = <<>>
  BY <1>1, <1>2, <1>3, EmptySeq
<1>5. \A k \in 1..Len(q) : \E m \in 1..Len(d.audio) : m >= i /\ q[k] = d.audio[m]
  <2> TAKE k \in 1..Len(q)
  <2>1. /\ k + i - 1 \in 1..Len(d.audio) /\ q[k] = d.audio[k + i - 1]
        /\ k + i - 1 >= i
    BY <1>2, <1>3
  <2>2. QED
    BY <2>1
<1>6. \A k \in 1..Len(q) : w.played < q[k].n /\ q[k].n <= w.drawn
  BY <1>2 DEF Sound
<1>7. \A k, m \in 1..Len(q) : k < m => q[k].n < q[m].n
  <2> SUFFICES ASSUME NEW k \in 1..Len(q), NEW m \in 1..Len(q), k < m
               PROVE  q[k].n < q[m].n
    OBVIOUS
  <2>1. k + i - 1 < m + i - 1
    BY <1>3
  <2>2. QED
    BY <1>2, <2>1 DEF Sound
<1>8. QED
  BY <1>2, <1>3, <1>4, <1>5, <1>6, <1>7 DEF q

\* websocket_promote_next moves one waiting frame forward and keeps the order.
LEMMA PromoteKeeps ==
    ASSUME NEW d \in Clients, NEW w \in Wires, QueueInv(d, w),
           NEW e \in Promote(d)
    PROVE  /\ e \in Clients /\ QueueInv(e, w)
           /\ Untouched(d, e) /\ e.closing = d.closing /\ Flowing(e)
<1>1. CASE d.out # None
  BY <1>1 DEF Promote, Untouched, Flowing
<1>2. CASE d.out = None /\ d.control # None
  <2>1. e = Activate([d EXCEPT !.control = None], d.control)
    BY <1>2 DEF Promote
  <2>2. /\ e \in Clients /\ Untouched(d, e) /\ e.closing = d.closing
        /\ e.out = d.control /\ ~e.begun /\ e.control = None
        /\ e.heartbeat = d.heartbeat /\ e.status = d.status
        /\ e.audio = d.audio /\ e.video = d.video
        /\ e.pingQueued = d.pingQueued
    BY <2>1 DEF Activate, Clients, Untouched
  <2>3. Waiting(e) /\ Closes(e, w)
    BY <1>2, <2>2 DEF QueueInv, Waiting, Closes
  <2>4. Acks(e, w) /\ Sound(e, w)
    BY <1>2, <2>2 DEF QueueInv, Acks, Sound, Unsent, Waiting, Untouched
  <2>5. Pings(e, w)
    BY <1>2, <2>2 DEF QueueInv, Pings, PingControl, Unsent, Untouched
  <2>6. QED
    BY <1>2, <2>2, <2>3, <2>4, <2>5 DEF QueueInv, Flowing
<1>3. CASE d.out = None /\ d.control = None /\ d.heartbeat # None
  <2>1. e = Activate([d EXCEPT !.heartbeat = None], d.heartbeat)
    BY <1>3 DEF Promote
  <2>2. /\ e \in Clients /\ Untouched(d, e) /\ e.closing = d.closing
        /\ e.out = d.heartbeat /\ ~e.begun /\ e.control = None
        /\ e.heartbeat = None /\ e.status = d.status
        /\ e.audio = d.audio /\ e.video = d.video
        /\ e.pingQueued = d.pingQueued
    BY <1>3, <2>1 DEF Activate, Clients, Untouched
  <2>3. Waiting(e) /\ Closes(e, w)
    BY <1>3, <2>2 DEF QueueInv, Waiting, Closes
  <2>4. Acks(e, w) /\ Sound(e, w)
    BY <1>3, <2>2 DEF QueueInv, Acks, Sound, Unsent, Waiting, Untouched
  <2>5. Pings(e, w)
    BY <1>3, <2>2 DEF QueueInv, Pings, PingControl, Unsent, Waiting, Untouched
  <2>6. QED
    BY <1>3, <2>2, <2>3, <2>4, <2>5 DEF QueueInv, Flowing
<1>4. CASE /\ d.out = None /\ d.control = None /\ d.heartbeat = None
           /\ d.status
  <2>1. e = Activate([d EXCEPT !.status = FALSE], Frame("status", 0))
    BY <1>4 DEF Promote
  <2>2. /\ e.out # None /\ e.out.kind = "status"
        /\ e \in Clients /\ Untouched(d, e) /\ e.closing = d.closing
        /\ ~e.begun /\ e.control = None
        /\ e.heartbeat = None /\ e.audio = d.audio
        /\ e.pingQueued = d.pingQueued
    <3>1. /\ Frame("status", 0) \in Frames /\ Frame("status", 0) # None
          /\ Frame("status", 0).kind = "status"
      BY FrameFields, NumberFacts DEF Kinds
    <3> DEFINE bare == [d EXCEPT !.status = FALSE]
    <3>2. /\ bare \in Clients /\ Untouched(d, bare)
          /\ bare.closing = d.closing
          /\ bare.control = d.control /\ bare.heartbeat = d.heartbeat
          /\ bare.audio = d.audio /\ bare.pingQueued = d.pingQueued
      BY DEF Clients, Untouched
    <3> HIDE DEF bare
    <3>3. e = Activate(bare, Frame("status", 0))
      BY <2>1 DEF bare
    <3>4. /\ e \in Clients /\ Untouched(bare, e) /\ e.closing = bare.closing
          /\ e.out = Frame("status", 0) /\ e.begun = FALSE
          /\ e.control = bare.control /\ e.heartbeat = bare.heartbeat
          /\ e.audio = bare.audio /\ e.pingQueued = bare.pingQueued
      BY <3>1, <3>2, <3>3, ActivateTyped, ActivateFields
    <3>5. QED
      BY <1>4, <3>1, <3>2, <3>4 DEF Untouched
  <2>3. Waiting(e) /\ Closes(e, w)
    BY <1>4, <2>2 DEF QueueInv, Waiting, Closes
  <2>4. Acks(e, w) /\ Sound(e, w)
    BY <1>4, <2>2 DEF QueueInv, Acks, Sound, Unsent, Waiting, Untouched
  <2>5. Pings(e, w)
    BY <1>4, <2>2 DEF QueueInv, Pings, PingControl, Unsent, Waiting, Untouched
  <2>6. QED
    BY <2>2, <2>3, <2>4, <2>5 DEF QueueInv, Flowing
<1> DEFINE Idle == /\ d.out = None /\ d.control = None /\ d.heartbeat = None
                   /\ ~d.status
<1> DEFINE From(i) == Activate([d EXCEPT !.audio =
                                     SubSeq(d.audio, i + 1, Len(d.audio))],
                               Frame("audio", d.audio[i].n))
<1>5. ASSUME Idle, NEW i \in 1..Len(d.audio), e = From(i)
      PROVE  /\ e \in Clients /\ QueueInv(e, w)
             /\ Untouched(d, e) /\ e.closing = d.closing /\ Flowing(e)
  <2> DEFINE q == SubSeq(d.audio, i + 1, Len(d.audio))
  <2>1. /\ d.audio \in Seq(Packets) /\ Len(d.audio) \in Nat
        /\ d.audio[i] \in Packets /\ d.audio # <<>>
    BY LenProperties, ElementOfSeq, EmptySeq DEF Clients
  <2>2. /\ q \in Seq(Packets) /\ Len(q) <= Len(d.audio)
        /\ d.audio = <<>> => q = <<>>
        /\ \A k \in 1..Len(q) : \E m \in 1..Len(d.audio) :
             m >= i + 1 /\ q[k] = d.audio[m]
        /\ \A k \in 1..Len(q) :
             w.played < q[k].n /\ q[k].n <= w.drawn
        /\ \A k, m \in 1..Len(q) : k < m => q[k].n < q[m].n
    <3>1. i + 1 \in 1..(Len(d.audio) + 1) /\ Sound(d, w)
      BY <2>1 DEF QueueInv
    <3>2. QED
      BY <3>1, SuffixKeeps
  <2>3. \A k \in 1..Len(q) : d.audio[i].n < q[k].n
    <3> TAKE k \in 1..Len(q)
    <3>1. PICK m \in 1..Len(d.audio) : m >= i + 1 /\ q[k] = d.audio[m]
      BY <2>2
    <3>2. i < m
      BY <3>1
    <3>3. QED
      BY <3>1, <3>2 DEF QueueInv, Sound
  <2> HIDE DEF q
  <2>4. /\ Frame("audio", d.audio[i].n) \in Frames
        /\ Frame("audio", d.audio[i].n) # None
        /\ Frame("audio", d.audio[i].n).kind = "audio"
        /\ Frame("audio", d.audio[i].n).n = d.audio[i].n
    <3>1. d.audio[i].n \in 0..MaxAudio
      BY <2>1, ClientAssumption DEF Packets
    <3>2. QED
      BY <3>1, FrameFields, NumberFacts DEF Kinds
  <2>5. /\ e.out # None /\ e.out.kind = "audio" /\ e.out.n = d.audio[i].n
        /\ e \in Clients /\ Untouched(d, e) /\ e.closing = d.closing
        /\ ~e.begun /\ e.control = None
        /\ e.heartbeat = None /\ e.audio = q
        /\ e.pingQueued = d.pingQueued
    BY <1>5, <2>2, <2>4 DEF Activate, Clients, Untouched, q
  <2>6. Waiting(e) /\ Closes(e, w)
    BY <1>5, <2>1, <2>5 DEF QueueInv, Waiting, Closes
  <2>7. Acks(e, w) /\ Pings(e, w)
    BY <1>5, <2>5 DEF QueueInv, Acks, Pings, PingControl, Unsent, Untouched
  <2>8. Sound(e, w)
    <3>1. w.played < d.audio[i].n /\ d.audio[i].n <= w.drawn
      BY DEF QueueInv, Sound
    <3>2. Len(q) <= AudioSlots
      BY <2>1, <2>2, LenProperties, ClientAssumption DEF QueueInv, Sound
    <3>3. QED
      BY <2>2, <2>3, <2>5, <3>1, <3>2 DEF QueueInv, Sound, Unsent
  <2>9. QED
    BY <2>5, <2>6, <2>7, <2>8 DEF QueueInv, Flowing
<1> DEFINE quiet == [d EXCEPT !.audio = <<>>, !.video = FALSE]
           shown == Activate(quiet, Frame("video", 0))
<1>6. ASSUME Idle, e = quiet \/ (d.video /\ e = shown)
      PROVE  /\ e \in Clients /\ QueueInv(e, w)
             /\ Untouched(d, e) /\ e.closing = d.closing /\ Flowing(e)
  <2>1. /\ Frame("video", 0) \in Frames /\ Frame("video", 0) # None
        /\ Frame("video", 0).kind = "video"
    BY FrameFields, NumberFacts DEF Kinds
  <2>2. /\ e.out = None \/ (e.out.kind = "video" /\ ~d.closing)
        /\ e \in Clients /\ Untouched(d, e) /\ e.closing = d.closing
        /\ e.control = None /\ ~e.status /\ ~e.video
        /\ e.heartbeat = None /\ e.audio = <<>>
        /\ e.pingQueued = d.pingQueued
    <3>1. /\ quiet \in Clients /\ Untouched(d, quiet)
          /\ quiet.closing = d.closing /\ quiet.out = d.out
          /\ quiet.control = d.control /\ quiet.heartbeat = d.heartbeat
          /\ quiet.status = d.status
          /\ quiet.audio = <<>> /\ ~quiet.video
          /\ quiet.pingQueued = d.pingQueued
      BY EmptySeq DEF Clients, Untouched
    <3> HIDE DEF quiet
    <3>2. CASE e = quiet
      BY <1>6, <3>1, <3>2
    <3>3. CASE d.video /\ e = Activate(quiet, Frame("video", 0))
      <4>1. /\ e \in Clients /\ Untouched(quiet, e)
            /\ e.closing = quiet.closing /\ e.out = Frame("video", 0)
            /\ e.control = quiet.control /\ e.heartbeat = quiet.heartbeat
            /\ e.status = quiet.status /\ e.video = quiet.video
            /\ e.audio = quiet.audio /\ e.pingQueued = quiet.pingQueued
        BY <2>1, <3>1, <3>3, ActivateTyped, ActivateFields
      <4>2. QED
        BY <1>6, <2>1, <3>1, <3>3, <4>1 DEF Untouched, QueueInv, Closes
    <3>4. QED
      BY <1>6, <3>2, <3>3
  <2>3. Waiting(e) /\ Closes(e, w)
    BY <1>6, <2>2 DEF QueueInv, Waiting, Closes
  <2>4. Acks(e, w) /\ Pings(e, w)
    BY <1>6, <2>2 DEF QueueInv, Acks, Pings, PingControl, Unsent, Untouched
  <2>5. Sound(e, w)
    <3>1. Len(e.audio) = 0
      BY <2>2, EmptySeq
    <3>2. QED
      BY <2>2, <3>1, ClientAssumption DEF QueueInv, Sound, Unsent
  <2>6. QED
    BY <2>2, <2>3, <2>4, <2>5 DEF QueueInv, Flowing
<1>7. QED
  <2>1. CASE Idle
    <3>1. e \in {From(i) : i \in 1..Len(d.audio)}
                \cup {quiet} \cup IF d.video THEN {shown} ELSE {}
      BY <2>1, Zenon DEF Promote
    <3> HIDE DEF From, shown, quiet, Idle
    <3>2. \/ \E i \in 1..Len(d.audio) : e = From(i)
          \/ e = quiet \/ (d.video /\ e = shown)
      BY <3>1
    <3>3. CASE \E i \in 1..Len(d.audio) : e = From(i)
      BY <1>5, <2>1, <3>3
    <3>4. CASE e = quiet \/ (d.video /\ e = shown)
      BY <1>6, <2>1, <3>4
    <3>5. QED
      BY <3>2, <3>3, <3>4
  <2>2. QED
    BY <1>1, <1>2, <1>3, <1>4, <2>1

\* Dropping media or a status, and an active frame of media that has not
\* begun, keeps everything.
LEMMA DropKeeps ==
    ASSUME NEW d \in Clients, NEW e \in Clients, NEW w \in Wires,
           QueueInv(d, w), NEW i \in 1..(Len(d.audio) + 1),
           e.audio = SubSeq(d.audio, i, Len(d.audio)),
           e.status => d.status, e.video => d.video,
           e.control = d.control, e.heartbeat = d.heartbeat,
           e.pingQueued = d.pingQueued, e.closing = d.closing,
           e.dead = d.dead, e.lastSeq = d.lastSeq, e.payload = d.payload,
           \/ e.out = d.out /\ e.begun = d.begun
           \/ Unsent(d, {"audio", "video"}) /\ e.out = None
    PROVE  QueueInv(e, w)
<1>1. /\ Len(e.audio) \in Nat /\ Len(d.audio) \in Nat
      /\ Len(e.audio) <= Len(d.audio)
      /\ d.audio = <<>> => e.audio = <<>>
      /\ \A k \in 1..Len(e.audio) : \E m \in 1..Len(d.audio) :
           m >= i /\ e.audio[k] = d.audio[m]
      /\ \A k \in 1..Len(e.audio) :
           w.played < e.audio[k].n /\ e.audio[k].n <= w.drawn
      /\ \A k, m \in 1..Len(e.audio) : k < m => e.audio[k].n < e.audio[m].n
  <2>1. Len(e.audio) \in Nat /\ Len(d.audio) \in Nat
    BY LenProperties DEF Clients
  <2>2. Sound(d, w)
    BY DEF QueueInv
  <2> DEFINE q == SubSeq(d.audio, i, Len(d.audio))
  <2>3. /\ Len(q) <= Len(d.audio)
        /\ d.audio = <<>> => q = <<>>
        /\ \A k \in 1..Len(q) : \E m \in 1..Len(d.audio) :
             m >= i /\ q[k] = d.audio[m]
        /\ \A k \in 1..Len(q) :
             w.played < q[k].n /\ q[k].n <= w.drawn
        /\ \A k, m \in 1..Len(q) : k < m => q[k].n < q[m].n
    BY <2>2, SuffixKeeps
  <2>4. e.audio = q
    OBVIOUS
  <2> HIDE DEF q
  <2>5. QED
    BY <2>1, <2>3, <2>4
<1>2. Waiting(e)
  BY DEF QueueInv, Waiting
<1>3. Closes(e, w)
  BY <1>1 DEF QueueInv, Closes
<1>4. Acks(e, w)
  BY DEF QueueInv, Acks, Unsent
<1>5. Sound(e, w)
  <2>1. Len(e.audio) <= AudioSlots /\ w.played <= w.drawn
    BY <1>1, ClientAssumption DEF QueueInv, Sound
  <2>2. Unsent(e, {"audio"}) =>
          /\ w.played < e.out.n /\ e.out.n <= w.drawn
          /\ \A k \in 1..Len(e.audio) : e.out.n < e.audio[k].n
    <3>1. SUFFICES ASSUME Unsent(e, {"audio"})
                   PROVE  /\ w.played < e.out.n /\ e.out.n <= w.drawn
                          /\ \A k \in 1..Len(e.audio) : e.out.n < e.audio[k].n
      OBVIOUS
    <3>2. Unsent(d, {"audio"}) /\ e.out = d.out
      BY <3>1 DEF Unsent
    <3>3. /\ w.played < d.out.n /\ d.out.n <= w.drawn
          /\ \A m \in 1..Len(d.audio) : d.out.n < d.audio[m].n
      BY <3>2 DEF QueueInv, Sound
    <3>4. QED
      BY <1>1, <3>2, <3>3
  <2>3. QED
    BY <1>1, <2>1, <2>2 DEF Sound
<1>6. Pings(e, w)
  BY DEF QueueInv, Pings, PingControl, Unsent
<1>7. QED
  BY <1>2, <1>3, <1>4, <1>5, <1>6 DEF QueueInv

\* websocket_expire_stale_media
LEMMA StaleKeeps ==
    ASSUME NEW d \in Clients, NEW w \in Wires, QueueInv(d, w), Flowing(d),
           NEW e \in Stale(d)
    PROVE  /\ e \in Clients /\ QueueInv(e, w)
           /\ Untouched(d, e) /\ e.closing = d.closing /\ Flowing(e)
<1> DEFINE Kept(i, v) == [d EXCEPT !.audio = SubSeq(d.audio, i, Len(d.audio)),
                                   !.video = v]
           Late(v) == {Kept(i, v) : i \in 1..(Len(d.audio) + 1)}
           kept == Late(d.video) \cup Late(FALSE)
<1>1. ASSUME NEW i \in 1..(Len(d.audio) + 1), NEW v \in {d.video, FALSE},
             NEW k, k = Kept(i, v)
      PROVE  /\ k \in Clients /\ QueueInv(k, w)
             /\ Untouched(d, k) /\ k.closing = d.closing /\ Flowing(k)
             /\ Unsent(d, {"audio", "video"}) =>
                  /\ ClearActive(k) \in Clients /\ QueueInv(ClearActive(k), w)
                  /\ Untouched(d, ClearActive(k))
                  /\ ClearActive(k).closing = d.closing
  <2>1. d.audio \in Seq(Packets) /\ d.video \in BOOLEAN
    BY DEF Clients
  <2>2. SubSeq(d.audio, i, Len(d.audio)) \in Seq(Packets)
    BY <2>1, SuffixFacts
  <2>3. /\ k \in Clients /\ Untouched(d, k) /\ k.closing = d.closing
        /\ k.audio = SubSeq(d.audio, i, Len(d.audio))
        /\ k.video = v /\ k.status = d.status
        /\ k.control = d.control /\ k.heartbeat = d.heartbeat
        /\ k.pingQueued = d.pingQueued
        /\ k.out = d.out /\ k.begun = d.begun
    <3> DEFINE q == SubSeq(d.audio, i, Len(d.audio))
    <3>1. q \in Seq(Packets) /\ k = [d EXCEPT !.audio = q, !.video = v]
      BY <1>1, <2>2
    <3> HIDE DEF q
    <3>2. QED
      BY <2>1, <3>1 DEF Clients, Untouched, q
  <2>4. QueueInv(k, w)
    BY <2>1, <2>3, DropKeeps DEF Untouched
  <2>5. ASSUME Unsent(d, {"audio", "video"})
        PROVE  /\ ClearActive(k) \in Clients /\ QueueInv(ClearActive(k), w)
               /\ Untouched(d, ClearActive(k))
               /\ ClearActive(k).closing = d.closing
    <3> DEFINE b == ClearActive(k)
    <3>1. /\ b \in Clients /\ Untouched(k, b) /\ b.closing = k.closing
          /\ b.audio = k.audio /\ b.video = k.video /\ b.status = k.status
          /\ b.control = k.control /\ b.heartbeat = k.heartbeat
          /\ b.pingQueued = k.pingQueued /\ b.out = None
      BY <2>3, ActivateTyped, ActivateFields DEF ClearActive
    <3> HIDE DEF b
    <3>2. Untouched(d, b)
      BY <2>3, <3>1 DEF Untouched
    <3>3. QueueInv(b, w)
      BY <2>1, <2>3, <2>5, <3>1, <3>2, DropKeeps DEF Untouched
    <3>4. QED
      BY <2>3, <3>1, <3>2, <3>3 DEF b
  <2>6. Flowing(k)
    <3>1. d.audio = <<>> => k.audio = <<>>
      BY <2>1, <2>3, LenProperties, SubSeqEmpty
    <3>2. QED
      BY <2>3, <3>1 DEF Flowing, Untouched
  <2>7. QED
    BY <2>3, <2>4, <2>5, <2>6
<1>2. \/ e \in kept
      \/ Unsent(d, {"audio", "video"})
           /\ e \in UNION {Promote(ClearActive(k)) : k \in kept}
  <2>1. e \in kept \cup IF Unsent(d, {"audio", "video"})
                          THEN UNION {Promote(ClearActive(k)) : k \in kept}
                          ELSE {}
    BY DEF Stale
  <2> HIDE DEF kept
  <2>2. QED
    BY <2>1
<1> HIDE DEF Kept
<1>3. \A k \in kept : \E i \in 1..(Len(d.audio) + 1), v \in {d.video, FALSE} :
                          k = Kept(i, v)
  OBVIOUS
<1> HIDE DEF kept
<1>4. PICK i \in 1..(Len(d.audio) + 1), v \in {d.video, FALSE} :
        \/ e = Kept(i, v)
        \/ /\ Unsent(d, {"audio", "video"})
           /\ e \in Promote(ClearActive(Kept(i, v)))
  <2>1. CASE e \in kept
    BY <1>3, <2>1
  <2>2. CASE /\ Unsent(d, {"audio", "video"})
             /\ e \in UNION {Promote(ClearActive(k)) : k \in kept}
    <3>1. PICK k \in kept : e \in Promote(ClearActive(k))
      BY <2>2
    <3>2. QED
      BY <1>3, <2>2, <3>1
  <2>3. QED
    BY <1>2, <2>1, <2>2
<1>5. CASE e = Kept(i, v)
  BY <1>1, <1>5
<1>6. CASE /\ Unsent(d, {"audio", "video"})
           /\ e \in Promote(ClearActive(Kept(i, v)))
  <2> DEFINE b == ClearActive(Kept(i, v))
  <2>1. /\ b \in Clients /\ QueueInv(b, w)
        /\ Untouched(d, b) /\ b.closing = d.closing
    BY <1>1, <1>6
  <2>2. e \in Promote(b)
    BY <1>6
  <2> HIDE DEF b
  <2>3. /\ e \in Clients /\ QueueInv(e, w)
        /\ Untouched(b, e) /\ e.closing = b.closing /\ Flowing(e)
    BY <2>1, <2>2, PromoteKeeps
  <2>4. QED
    BY <2>1, <2>3 DEF Untouched
<1>7. QED
  BY <1>4, <1>5, <1>6

\* websocket_close leaves nothing to send but the Close, behind at most the
\* rest of a frame that has begun.
LEMMA CloseKeeps ==
    ASSUME NEW d \in Clients, NEW w \in Wires, QueueInv(d, w), Flowing(d)
    PROVE  /\ Close(d) \in Clients /\ QueueInv(Close(d), w)
           /\ Untouched(d, Close(d)) /\ Close(d).closing /\ Flowing(Close(d))
<1>1. CASE d.closing
  BY <1>1 DEF Close, Untouched
<1>2. CASE ~d.closing
  <2> DEFINE b == Preempt([d EXCEPT !.closing = TRUE])
             f == Frame("close", 0)
             e == Enqueue(b, f)
  <2>1. /\ f \in Frames /\ f # None /\ f.kind = "close"
    BY FrameFields, NumberFacts DEF Kinds
  <2>2. /\ b \in Clients /\ Untouched(d, b) /\ b.closing
        /\ b.control = None /\ b.heartbeat = None /\ ~b.status
        /\ b.audio = <<>> /\ ~b.video
        /\ b.out = IF d.out # None /\ ~d.begun THEN None ELSE d.out
        /\ b.out # None => b.begun
        /\ ~d.dead => ~b.pingQueued
    <3>1. d.dead \/ (d.pingQueued <=> Unsent(d, {"ping"}) \/ PingControl(d))
      BY DEF QueueInv, Pings
    <3>2. <<>> \in Seq(Packets)
      BY EmptySeq
    <3> DEFINE p == d.pingQueued /\ (d.control = None \/ d.control.kind # "ping")
               r == p /\ d.out.kind # "ping"
               bare == [d EXCEPT !.closing = TRUE,
                                 !.audio = <<>>, !.video = FALSE,
                                 !.status = FALSE, !.heartbeat = None,
                                 !.control = None, !.pingQueued = p]
    <3>3. p \in BOOLEAN /\ r \in BOOLEAN /\ (r => p) /\ (p => ~PingControl(d))
          /\ (p => d.pingQueued) /\ (r => d.out.kind # "ping")
      BY DEF PingControl
    <3>4. b = IF d.out # None /\ ~d.begun
                THEN ClearActive([bare EXCEPT !.pingQueued = r]) ELSE bare
      BY DEF Preempt, Clients
    <3> HIDE DEF p, r, b
    <3>5. /\ bare \in Clients /\ Untouched(d, bare) /\ bare.closing
          /\ bare.control = None /\ bare.heartbeat = None /\ ~bare.status
          /\ bare.audio = <<>> /\ ~bare.video
          /\ bare.out = d.out /\ bare.begun = d.begun /\ bare.pingQueued = p
      <4>1. p \in BOOLEAN
        BY <3>3
      <4>2. bare \in Clients
        BY <3>2, <4>1 DEF Clients
      <4>3. /\ Untouched(d, bare) /\ bare.closing
            /\ bare.control = None /\ bare.heartbeat = None /\ ~bare.status
        BY <4>1 DEF Clients, Untouched
      <4>4. /\ bare.audio = <<>> /\ ~bare.video
            /\ bare.out = d.out /\ bare.begun = d.begun /\ bare.pingQueued = p
        BY <4>1 DEF Clients
      <4>5. QED
        BY <4>2, <4>3, <4>4
    <3> HIDE DEF bare
    <3>6. CASE d.out # None /\ ~d.begun
      <4>1. b = Activate([bare EXCEPT !.pingQueued = r], None)
        BY <3>4, <3>6 DEF ClearActive
      <4>2. /\ b \in Clients /\ Untouched(bare, b) /\ b.closing
            /\ b.control = None /\ b.heartbeat = None /\ ~b.status
            /\ b.audio = <<>> /\ ~b.video /\ b.out = None
            /\ b.pingQueued = r
        <5> DEFINE g == [bare EXCEPT !.pingQueued = r]
        <5>1. r \in BOOLEAN
          BY <3>3
        <5>2. /\ g \in Clients /\ Untouched(bare, g) /\ g.closing
              /\ g.control = None /\ g.heartbeat = None /\ ~g.status
              /\ g.audio = <<>> /\ ~g.video /\ g.pingQueued = r
          BY <3>5, <5>1 DEF Clients, Untouched
        <5> HIDE DEF g
        <5>3. b = Activate(g, None)
          BY <4>1 DEF g
        <5>4. /\ b \in Clients /\ Untouched(g, b) /\ b.closing = g.closing
              /\ b.out = None /\ b.control = g.control
              /\ b.heartbeat = g.heartbeat /\ b.status = g.status
              /\ b.audio = g.audio /\ b.video = g.video
              /\ b.pingQueued = g.pingQueued
          <6>1. g \in Clients /\ None \in Frames \cup {None}
            BY <5>2
          <6>2. QED
            BY <5>3, <6>1, ActivateTyped, ActivateFields
        <5>5. QED
          BY <5>2, <5>4 DEF Untouched
      <4>3. ~d.dead => ~r
        BY <3>1, <3>3, <3>6 DEF Unsent
      <4>4. QED
        BY <3>5, <3>6, <4>2, <4>3 DEF Untouched
    <3>7. CASE ~(d.out # None /\ ~d.begun)
      <4>1. b = bare
        BY <3>4, <3>7
      <4>2. ~d.dead => ~p
        BY <3>1, <3>3, <3>7 DEF Unsent
      <4>3. d.out # None => d.begun
        BY <3>7
      <4>4. QED
        BY <3>5, <3>7, <4>1, <4>2, <4>3
    <3>8. QED
      BY <3>6, <3>7
  <2> HIDE DEF b, f
  <2>3. /\ e \in Clients /\ Untouched(b, e) /\ e.closing
        /\ e.heartbeat = None /\ ~e.status /\ e.audio = <<>> /\ ~e.video
        /\ e.pingQueued = b.pingQueued
        /\ \/ b.out = None /\ e.out = f /\ ~e.begun /\ e.control = None
           \/ /\ b.out # None /\ e.out = b.out /\ e.begun
              /\ e.control = f
    <3>1. CASE b.out = None
      <4> DEFINE g == Activate(b, f)
                 p == g.pingQueued \/ f.kind = "ping"
      <4>1. e = [g EXCEPT !.pingQueued = p]
        BY <3>1 DEF Enqueue
      <4>2. /\ g \in Clients /\ Untouched(b, g) /\ g.closing = b.closing
            /\ g.out = f /\ g.begun = FALSE /\ g.pingQueued = b.pingQueued
            /\ g.control = b.control /\ g.heartbeat = b.heartbeat
            /\ g.status = b.status /\ g.audio = b.audio /\ g.video = b.video
        <5>1. b \in Clients /\ f \in Frames \cup {None}
          BY <2>1, <2>2
        <5> HIDE DEF e
        <5>2. QED
          BY <5>1, ActivateTyped, ActivateFields
      <4> HIDE DEF g
      <4>3. p = g.pingQueued
        BY <2>1, <4>2 DEF Clients
      <4>4. e = [g EXCEPT !.pingQueued = g.pingQueued]
        BY <4>1, <4>3
      <4>5. e = g
        BY <4>2, <4>4 DEF Clients
      <4>6. QED
        BY <2>2, <3>1, <4>2, <4>5
    <3>2. CASE b.out # None
      <4> DEFINE p == \/ f.kind = "ping"
                      \/ b.pingQueued /\ (b.control = None
                                           \/ b.control.kind # "ping")
      <4>1. e = [b EXCEPT !.control = f, !.pingQueued = p]
        BY <2>2, <3>2 DEF Enqueue
      <4>2. p = b.pingQueued
        BY <2>1, <2>2 DEF Clients
      <4>3. e = [b EXCEPT !.control = f, !.pingQueued = b.pingQueued]
        BY <4>1, <4>2
      <4>4. e \in Clients /\ Untouched(b, e)
        BY <2>1, <2>2, <4>3 DEF Clients, Untouched
      <4>5. /\ e.closing = b.closing /\ e.heartbeat = b.heartbeat
            /\ e.status = b.status /\ e.audio = b.audio /\ e.video = b.video
            /\ e.pingQueued = b.pingQueued /\ e.out = b.out
            /\ e.begun = b.begun /\ e.control = f
        BY <2>1, <2>2, <4>3 DEF Clients
      <4>6. QED
        BY <2>2, <3>2, <4>4, <4>5
    <3>3. QED
      BY <3>1, <3>2
  <2> HIDE DEF e
  <2>4. Untouched(d, e)
    BY <2>2, <2>3 DEF Untouched
  <2>5. b.out # None => b.out = d.out /\ d.out # None /\ d.begun /\ d.out.kind # "close"
    BY <1>2, <2>2 DEF QueueInv, Closes
  <2>6. Waiting(e)
    BY <2>1, <2>3 DEF Waiting
  <2>7. Closes(e, w)
    BY <1>2, <2>1, <2>3, <2>5 DEF QueueInv, Closes
  <2>8. Acks(e, w)
    BY <2>1, <2>3, <2>4 DEF QueueInv, Acks, Unsent, Untouched
  <2>9. Sound(e, w)
    <3>1. Len(e.audio) = 0
      BY <2>3, EmptySeq
    <3>2. QED
      BY <2>1, <2>3, <3>1, ClientAssumption DEF QueueInv, Sound, Unsent
  <2>10. Pings(e, w)
    BY <2>1, <2>2, <2>3, <2>4 DEF QueueInv, Pings, PingControl, Unsent, Untouched
  <2>11. Close(d) = e
    BY <1>2 DEF Close, e, b, f
  <2>12. QED
    BY <2>1, <2>3, <2>4, <2>6, <2>7, <2>8, <2>9, <2>10, <2>11
       DEF QueueInv, Flowing
<1>3. QED
  BY <1>1, <1>2

\* websocket_queue for a Ping or a Pong of a connection that is not closing;
\* a Ping only if none waits.
LEMMA EnqueueKeeps ==
    ASSUME NEW d \in Clients, NEW w \in Wires, QueueInv(d, w), ~d.closing,
           NEW f \in Frames, f.kind \in {"ping", "pong"},
           f.kind = "ping" => /\ f.n <= d.payload
                              /\ ~PingControl(d) /\ ~Unsent(d, {"ping"})
    PROVE  /\ Enqueue(d, f) \in Clients /\ QueueInv(Enqueue(d, f), w)
           /\ Untouched(d, Enqueue(d, f)) /\ Flowing(Enqueue(d, f))
           /\ Enqueue(d, f).closing = d.closing
<1> DEFINE e == Enqueue(d, f)
<1>1. f # None
  BY NoneAssumption
<1>2. CASE d.out = None
  <2> DEFINE g == Activate(d, f)
             p == g.pingQueued \/ f.kind = "ping"
  <2>1. e = [g EXCEPT !.pingQueued = p]
    BY <1>2 DEF Enqueue
  <2>2. /\ e \in Clients /\ Untouched(d, e) /\ e.closing = d.closing
        /\ e.out = f /\ ~e.begun /\ e.control = d.control
        /\ e.heartbeat = d.heartbeat /\ e.audio = d.audio
        /\ e.pingQueued <=> (d.pingQueued \/ f.kind = "ping")
    <3>1. /\ g \in Clients /\ Untouched(d, g) /\ g.closing = d.closing
          /\ g.out = f /\ g.begun = FALSE /\ g.pingQueued = d.pingQueued
          /\ g.control = d.control /\ g.heartbeat = d.heartbeat
          /\ g.audio = d.audio
      BY ActivateTyped, ActivateFields
    <3> HIDE DEF g
    <3>2. p \in BOOLEAN /\ (p <=> d.pingQueued \/ f.kind = "ping")
      BY <3>1
    <3> HIDE DEF p, e
    <3>3. /\ e \in Clients /\ Untouched(g, e) /\ e.closing = g.closing
          /\ e.out = g.out /\ e.begun = g.begun /\ e.control = g.control
          /\ e.heartbeat = g.heartbeat /\ e.audio = g.audio
          /\ e.pingQueued = p
      BY <2>1, <3>1, <3>2 DEF Clients, Untouched
    <3>4. QED
      BY <3>1, <3>2, <3>3 DEF Untouched
  <2> HIDE DEF e
  <2>3. Waiting(e) /\ Closes(e, w)
    BY <1>1, <2>2 DEF QueueInv, Waiting, Closes
  <2>4. Acks(e, w) /\ Sound(e, w)
    BY <2>2 DEF QueueInv, Acks, Sound, Unsent, Untouched
  <2>5. Pings(e, w)
    BY <1>1, <1>2, <2>2 DEF QueueInv, Pings, PingControl, Unsent, Untouched
  <2>6. QED
    BY <1>1, <2>2, <2>3, <2>4, <2>5 DEF QueueInv, Flowing, e
<1>3. CASE d.out # None /\ (d.control = None \/ f.kind = "pong")
  <2> DEFINE p == \/ f.kind = "ping"
                  \/ d.pingQueued /\ (d.control = None
                                       \/ d.control.kind # "ping")
  <2>1. e = [d EXCEPT !.control = f, !.pingQueued = p]
    BY <1>3 DEF Enqueue
  <2>2. /\ e \in Clients /\ Untouched(d, e) /\ e.closing = d.closing
        /\ e.out = d.out /\ e.begun = d.begun /\ e.control = f
        /\ e.heartbeat = d.heartbeat /\ e.audio = d.audio
        /\ e.pingQueued <=> (f.kind = "ping"
                            \/ (d.pingQueued /\ ~PingControl(d)))
    <3>1. /\ p \in BOOLEAN
          /\ p <=> (f.kind = "ping" \/ (d.pingQueued /\ ~PingControl(d)))
      BY DEF PingControl
    <3> HIDE DEF p, e
    <3>2. /\ e \in Clients /\ Untouched(d, e) /\ e.closing = d.closing
          /\ e.out = d.out /\ e.begun = d.begun /\ e.control = f
          /\ e.heartbeat = d.heartbeat /\ e.audio = d.audio
          /\ e.pingQueued = p
      BY <2>1, <3>1 DEF Clients, Untouched
    <3>3. QED
      BY <3>1, <3>2
  <2> HIDE DEF e
  <2>3. Waiting(e)
    BY <2>2 DEF QueueInv, Waiting
  <2>4. Closes(e, w)
    BY <1>1, <2>2 DEF QueueInv, Closes
  <2>5. Acks(e, w) /\ Sound(e, w)
    BY <2>2 DEF QueueInv, Acks, Sound, Unsent, Untouched
  <2>6. Pings(e, w)
    BY <1>1, <2>2 DEF QueueInv, Pings, PingControl, Unsent, Untouched
  <2>7. QED
    BY <1>3, <2>2, <2>3, <2>4, <2>5, <2>6 DEF QueueInv, Flowing, e
<1>4. CASE d.out # None /\ d.control # None /\ f.kind # "pong"
  BY <1>4 DEF Enqueue, Untouched, Flowing
<1>5. QED
  BY <1>2, <1>3, <1>4

\* websocket_queue for a status
LEMMA StatusKeeps ==
    ASSUME NEW d \in Clients, NEW w \in Wires, QueueInv(d, w), ~d.closing
    PROVE  /\ QueueStatus(d) \in Clients /\ QueueInv(QueueStatus(d), w)
           /\ Untouched(d, QueueStatus(d)) /\ Flowing(QueueStatus(d))
           /\ QueueStatus(d).closing = d.closing
<1> DEFINE e == QueueStatus(d)
           f == Frame("status", 0)
<1>1. f \in Frames /\ f # None /\ f.kind = "status"
  BY FrameFields, NumberFacts DEF Kinds
<1> HIDE DEF f
<1>2. /\ e \in Clients /\ Untouched(d, e) /\ e.closing = d.closing
      /\ e.control = d.control /\ e.heartbeat = d.heartbeat
      /\ e.audio = d.audio /\ e.pingQueued = d.pingQueued
      /\ \/ e.out = f /\ d.out = None
         \/ d.out # None /\ e.out = d.out /\ e.begun = d.begun
  <2>1. CASE d.out = None
    BY <1>1, <2>1, ActivateTyped, ActivateFields DEF QueueStatus, f
  <2>2. CASE d.out # None
    BY <2>2 DEF QueueStatus, Clients, Untouched
  <2>3. QED
    BY <2>1, <2>2
<1> HIDE DEF e
<1>3. Waiting(e) /\ Closes(e, w)
  BY <1>1, <1>2 DEF QueueInv, Waiting, Closes
<1>4. Acks(e, w) /\ Sound(e, w)
  BY <1>1, <1>2 DEF QueueInv, Acks, Sound, Unsent, Untouched
<1>5. Pings(e, w)
  BY <1>1, <1>2 DEF QueueInv, Pings, PingControl, Unsent, Untouched
<1>6. QED
  BY <1>1, <1>2, <1>3, <1>4, <1>5 DEF QueueInv, Flowing, e

\* websocket_queue_video
LEMMA VideoKeeps ==
    ASSUME NEW d \in Clients, NEW w \in Wires, QueueInv(d, w), ~d.closing
    PROVE  /\ QueueVideo(d) \in Clients /\ QueueInv(QueueVideo(d), w)
           /\ Untouched(d, QueueVideo(d)) /\ Flowing(QueueVideo(d))
           /\ QueueVideo(d).closing = d.closing
<1> DEFINE e == QueueVideo(d)
           f == Frame("video", 0)
<1>1. f \in Frames /\ f # None /\ f.kind = "video"
  BY FrameFields, NumberFacts DEF Kinds
<1> HIDE DEF f
<1>2. /\ e \in Clients /\ Untouched(d, e) /\ e.closing = d.closing
      /\ e.control = d.control /\ e.heartbeat = d.heartbeat
      /\ e.audio = d.audio /\ e.pingQueued = d.pingQueued
      /\ \/ e.out = f /\ d.out = None
         \/ d.out # None /\ e.out = d.out /\ e.begun = d.begun
  <2>1. CASE d.out = None
    BY <1>1, <2>1, ActivateTyped, ActivateFields DEF QueueVideo, f
  <2>2. CASE d.out # None /\ (d.out.kind = "video" \/ d.video)
    BY <2>2 DEF QueueVideo, Untouched
  <2>3. CASE d.out # None /\ ~(d.out.kind = "video" \/ d.video)
    BY <2>3 DEF QueueVideo, Clients, Untouched
  <2>4. QED
    BY <2>1, <2>2, <2>3
<1> HIDE DEF e
<1>3. Waiting(e) /\ Closes(e, w)
  BY <1>1, <1>2 DEF QueueInv, Waiting, Closes
<1>4. Acks(e, w) /\ Sound(e, w)
  BY <1>1, <1>2 DEF QueueInv, Acks, Sound, Unsent, Untouched
<1>5. Pings(e, w)
  BY <1>1, <1>2 DEF QueueInv, Pings, PingControl, Unsent, Untouched
<1>6. QED
  BY <1>1, <1>2, <1>3, <1>4, <1>5 DEF QueueInv, Flowing, e

\* What is not in the queue may change, and numbers may grow.
LEMMA SameQueue ==
    ASSUME NEW d \in Clients, NEW e \in Clients, NEW w \in Wires,
           QueueInv(d, w),
           e.out = d.out, e.begun = d.begun, e.control = d.control,
           e.heartbeat = d.heartbeat, e.status = d.status,
           e.audio = d.audio, e.video = d.video,
           e.pingQueued = d.pingQueued, e.closing = d.closing,
           d.payload <= e.payload, d.lastSeq <= e.lastSeq, d.dead => e.dead
    PROVE  QueueInv(e, w)
<1>1. Waiting(e) /\ Closes(e, w)
  BY DEF QueueInv, Waiting, Closes
<1>2. Sound(e, w)
  BY DEF QueueInv, Sound, Unsent
<1> DEFINE Num(f) == f # None => f.n \in Nat
<1>3. /\ d.lastSeq \in Nat /\ e.lastSeq \in Nat /\ w.acked \in Nat
      /\ d.payload \in Nat /\ e.payload \in Nat /\ w.pinged \in Nat
  BY ClientAssumption DEF Clients, Wires
<1>4. Num(d.out) /\ Num(d.control) /\ Num(d.heartbeat)
  BY ClientAssumption DEF Clients, Frames, Numbers
<1>5. Acks(e, w)
  BY <1>3, <1>4 DEF QueueInv, Acks, Unsent
<1>6. Pings(e, w)
  BY <1>3, <1>4 DEF QueueInv, Pings, PingControl, Unsent
<1>7. QED
  BY <1>1, <1>2, <1>5, <1>6 DEF QueueInv

\* websocket_queue_heartbeat: the newest acknowledgement is the only one.
LEMMA HeartbeatKeeps ==
    ASSUME NEW d \in Clients, NEW w \in Wires, QueueInv(d, w), ~d.closing,
           NEW s \in 1..MaxSeq, w.acked < s, s <= d.lastSeq
    PROVE  /\ QueueHeartbeat(d, s) \in Clients
           /\ QueueInv(QueueHeartbeat(d, s), w)
           /\ Untouched(d, QueueHeartbeat(d, s))
           /\ Flowing(QueueHeartbeat(d, s))
           /\ QueueHeartbeat(d, s).closing = d.closing
<1> DEFINE f == Frame("ack", s)
           e == QueueHeartbeat(d, s)
           bare == [d EXCEPT !.heartbeat = None]
<1>1. /\ f \in Frames /\ f # None /\ f.kind = "ack" /\ f.n = s
  BY ClientAssumption, FrameFields, NumberFacts DEF Kinds
<1>2. /\ bare \in Clients /\ Untouched(d, bare) /\ bare.closing = d.closing
      /\ bare.out = d.out /\ bare.begun = d.begun /\ bare.control = d.control
      /\ bare.heartbeat = None /\ bare.status = d.status
      /\ bare.audio = d.audio /\ bare.video = d.video
      /\ bare.pingQueued = d.pingQueued
  BY DEF Clients, Untouched
<1>3. CASE Unsent(d, {"ack"}) \/ d.out = None
  <2>1. \E g \in Clients :
          /\ e = Activate(g, f)
          /\ Untouched(d, g) /\ g.closing = d.closing
          /\ g.control = d.control /\ g.heartbeat = None
          /\ g.audio = d.audio /\ g.pingQueued = d.pingQueued
    <3>1. CASE Unsent(d, {"ack"})
      <4> DEFINE b == ClearActive(bare)
                 g == [b EXCEPT !.heartbeat = None]
      <4>1. e = Activate(g, f)
        <5>1. b.out = None
          BY <1>2, ActivateFields DEF ClearActive
        <5>2. QED
          BY <3>1, <5>1 DEF QueueHeartbeat
      <4>2. b \in Clients /\ Untouched(bare, b) /\ b.closing = bare.closing
            /\ b.control = bare.control /\ b.heartbeat = None
            /\ b.audio = bare.audio /\ b.pingQueued = bare.pingQueued
        <5> HIDE DEF bare, b, g
        <5>1. QED
          BY <1>2, ActivateTyped, ActivateFields DEF ClearActive, b
      <4> HIDE DEF bare, b
      <4>3. g \in Clients /\ Untouched(b, g) /\ g.closing = b.closing
            /\ g.control = b.control /\ g.heartbeat = None
            /\ g.audio = b.audio /\ g.pingQueued = b.pingQueued
        BY <4>2 DEF Clients, Untouched
      <4> HIDE DEF g
      <4>4. QED
        BY <1>2, <4>1, <4>2, <4>3 DEF Untouched
    <3>2. CASE ~Unsent(d, {"ack"}) /\ d.out = None
      <4>1. e = Activate(bare, f)
        BY <3>2 DEF QueueHeartbeat
      <4> HIDE DEF bare
      <4>2. QED
        BY <1>2, <4>1
    <3>3. QED
      BY <1>3, <3>1, <3>2
  <2>2. PICK g \in Clients :
          /\ e = Activate(g, f)
          /\ Untouched(d, g) /\ g.closing = d.closing
          /\ g.control = d.control /\ g.heartbeat = None
          /\ g.audio = d.audio /\ g.pingQueued = d.pingQueued
    BY <2>1
  <2> HIDE DEF e, f
  <2>3. /\ e \in Clients /\ Untouched(g, e) /\ e.closing = g.closing
        /\ e.out = f /\ ~e.begun /\ e.control = g.control
        /\ e.heartbeat = g.heartbeat
        /\ e.audio = g.audio /\ e.pingQueued = g.pingQueued
    BY <1>1, <2>2, ActivateTyped, ActivateFields
  <2>4. Waiting(e) /\ Closes(e, w)
    BY <1>1, <2>2, <2>3 DEF QueueInv, Waiting, Closes
  <2>5. Acks(e, w)
    BY <1>1, <2>2, <2>3 DEF QueueInv, Acks, Unsent, Untouched
  <2>6. Sound(e, w)
    BY <1>1, <2>2, <2>3 DEF QueueInv, Sound, Unsent
  <2>7. Pings(e, w)
    BY <1>1, <1>3, <2>2, <2>3
       DEF QueueInv, Pings, PingControl, Unsent, Untouched
  <2>8. QED
    BY <1>1, <2>2, <2>3, <2>4, <2>5, <2>6, <2>7
       DEF QueueInv, Untouched, Flowing, e, f
<1>4. CASE ~(Unsent(d, {"ack"}) \/ d.out = None)
  <2>1. e = [d EXCEPT !.heartbeat = f]
    BY <1>4 DEF QueueHeartbeat
  <2> HIDE DEF e, f
  <2>2. /\ e \in Clients /\ Untouched(d, e) /\ e.closing = d.closing
        /\ e.out = d.out /\ e.begun = d.begun /\ e.control = d.control
        /\ e.heartbeat = f /\ e.status = d.status
        /\ e.audio = d.audio /\ e.video = d.video
        /\ e.pingQueued = d.pingQueued
    BY <1>1, <2>1 DEF Clients, Untouched
  <2>3. Waiting(e) /\ Closes(e, w)
    BY <1>1, <2>2 DEF QueueInv, Waiting, Closes
  <2>4. Acks(e, w)
    BY <1>1, <1>4, <2>2 DEF QueueInv, Acks, Unsent, Untouched
  <2>5. Sound(e, w)
    BY <2>2 DEF QueueInv, Sound, Unsent
  <2>6. Pings(e, w)
    BY <2>2 DEF QueueInv, Pings, PingControl, Unsent, Untouched
  <2>7. QED
    BY <1>4, <2>2, <2>3, <2>4, <2>5, <2>6 DEF QueueInv, Flowing, e
<1>5. QED
  BY <1>3, <1>4

\* The end of websocket_flush for a frame other than a Close, and for a Close.
LEMMA SentKeeps ==
    ASSUME NEW d \in Clients, NEW w \in Wires, QueueInv(d, w),
           d.out # None, d.begun, NEW e \in Sent(d)
    PROVE  /\ e \in Clients /\ QueueInv(e, w)
           /\ Untouched(d, e) /\ e.closing = d.closing /\ Flowing(e)
<1> DEFINE b == ClearActive(d)
<1>1. /\ b \in Clients /\ Untouched(d, b) /\ b.closing = d.closing
      /\ b.out = None /\ b.begun = FALSE
      /\ b.control = d.control /\ b.heartbeat = d.heartbeat
      /\ b.status = d.status /\ b.audio = d.audio /\ b.video = d.video
      /\ b.pingQueued = d.pingQueued
  BY ActivateTyped, ActivateFields DEF ClearActive
<1>2. e \in IF d.out.kind = "close"
              THEN {[b EXCEPT !.closeSent = TRUE, !.closeLate = FALSE]}
              ELSE Promote(b)
  BY DEF Sent
<1> HIDE DEF b
<1>3. QueueInv(b, w)
  <2>1. Waiting(b) /\ Closes(b, w)
    BY <1>1 DEF QueueInv, Waiting, Closes
  <2>2. Acks(b, w) /\ Sound(b, w)
    BY <1>1 DEF QueueInv, Acks, Sound, Unsent, Untouched
  <2>3. Pings(b, w)
    BY <1>1 DEF QueueInv, Pings, PingControl, Unsent, Untouched
  <2>4. QED
    BY <2>1, <2>2, <2>3 DEF QueueInv
<1>4. CASE d.out.kind = "close"
  <2>1. e = [b EXCEPT !.closeSent = TRUE, !.closeLate = FALSE]
    BY <1>2, <1>4
  <2>2. /\ e \in Clients /\ Untouched(b, e) /\ e.closing = b.closing
        /\ e.out = b.out /\ e.begun = b.begun
        /\ e.control = b.control /\ e.heartbeat = b.heartbeat
        /\ e.status = b.status /\ e.audio = b.audio /\ e.video = b.video
        /\ e.pingQueued = b.pingQueued
    BY <1>1, <2>1 DEF Clients, Untouched
  <2>3. e.payload <= e.payload /\ e.lastSeq <= e.lastSeq
    BY <2>2, ClientAssumption DEF Clients
  <2>4. QueueInv(e, w)
    BY <1>1, <1>3, <2>2, <2>3, SameQueue DEF Untouched
  <2>5. Flowing(e)
    BY <1>1, <1>4, <2>2 DEF QueueInv, Closes, Flowing
  <2>6. QED
    BY <1>1, <2>2, <2>4, <2>5 DEF Untouched
<1>5. CASE d.out.kind # "close"
  <2>1. e \in Promote(b)
    BY <1>2, <1>5
  <2>2. QED
    BY <1>1, <1>3, <2>1, PromoteKeeps DEF Untouched
<1>6. QED
  BY <1>4, <1>5

\* websocket_discard_state_transition
LEMMA TransitionKeeps ==
    ASSUME NEW d \in Clients, NEW w \in Wires, QueueInv(d, w),
           NEW e \in Transition(d)
    PROVE  /\ e \in Clients /\ QueueInv(e, w) /\ e.closing = d.closing
           /\ e.dead = d.dead /\ ~e.joy /\ Flowing(e)
<1> DEFINE bare == [d EXCEPT !.joy = FALSE, !.audio = <<>>, !.video = FALSE,
                             !.status = FALSE]
           b == IF Unsent(d, {"audio", "video"}) THEN ClearActive(bare)
                                                 ELSE bare
<1>1. /\ d.audio \in Seq(Packets) /\ <<>> \in Seq(Packets)
      /\ Len(d.audio) + 1 \in 1..(Len(d.audio) + 1)
      /\ SubSeq(d.audio, Len(d.audio) + 1, Len(d.audio)) = <<>>
  <2>1. d.audio \in Seq(Packets) /\ Len(d.audio) \in Nat
    BY LenProperties DEF Clients
  <2>2. QED
    BY <2>1, EmptySeq, SubSeqEmpty
<1>2. bare \in Clients
  BY <1>1 DEF Clients
<1>3. /\ bare.audio = <<>> /\ ~bare.joy /\ ~bare.video /\ ~bare.status
      /\ bare.out = d.out /\ bare.begun = d.begun
      /\ bare.control = d.control /\ bare.heartbeat = d.heartbeat
      /\ bare.pingQueued = d.pingQueued /\ bare.closing = d.closing
      /\ bare.dead = d.dead /\ bare.lastSeq = d.lastSeq
      /\ bare.payload = d.payload
  BY DEF Clients
<1> HIDE DEF bare
<1>4. /\ b \in Clients
      /\ b.audio = <<>> /\ ~b.joy /\ ~b.video /\ ~b.status
      /\ b.control = d.control /\ b.heartbeat = d.heartbeat
      /\ b.pingQueued = d.pingQueued /\ b.closing = d.closing
      /\ b.dead = d.dead /\ b.lastSeq = d.lastSeq
      /\ b.payload = d.payload
      /\ \/ b.out = d.out /\ b.begun = d.begun
         \/ Unsent(d, {"audio", "video"}) /\ b.out = None
  <2>1. CASE Unsent(d, {"audio", "video"})
    BY <1>2, <1>3, <2>1, ActivateTyped, ActivateFields
       DEF ClearActive, Untouched
  <2>2. CASE ~Unsent(d, {"audio", "video"})
    BY <1>2, <1>3, <2>2
  <2>3. QED
    BY <2>1, <2>2
<1>5. e \in Promote(b)
  BY DEF Transition, bare
<1> HIDE DEF b
<1>6. QueueInv(b, w)
  BY <1>1, <1>4, DropKeeps
<1>7. /\ e \in Clients /\ QueueInv(e, w)
      /\ Untouched(b, e) /\ e.closing = b.closing /\ Flowing(e)
  BY <1>4, <1>5, <1>6, PromoteKeeps
<1>8. QED
  BY <1>4, <1>7 DEF Untouched

\* websocket_queue_audio: a packet that was just drawn goes behind the others,
\* for which old ones make room.
LEMMA AudioKeeps ==
    ASSUME NEW d \in Clients, NEW w \in Wires, NEW x \in Wires,
           QueueInv(d, w), Flowing(d), ~d.closing, ~d.dead,
           x.drawn = w.drawn + 1, x.played = w.played, x.acked = w.acked,
           x.pinged = w.pinged, x.closed = w.closed,
           NEW p \in Packets, p.n = x.drawn, NEW e \in QueueAudio(d, p)
    PROVE  /\ e \in Clients /\ QueueInv(e, x)
           /\ Untouched(d, e) /\ e.closing = d.closing /\ Flowing(e)
<1>1. /\ d.audio \in Seq(Packets) /\ Len(d.audio) \in Nat
      /\ \A k \in 1..Len(d.audio) : d.audio[k] \in Packets
  BY LenProperties, ElementOfSeq DEF Clients
<1>2. /\ w.drawn \in Nat /\ w.played \in Nat /\ AudioSlots \in Nat
      /\ \A q \in Packets : q.n \in Nat
  BY ClientAssumption DEF Wires, Packets
<1>3. QueueInv(d, x)
  <2>1. Waiting(d) /\ Closes(d, x) /\ Acks(d, x) /\ Pings(d, x)
    BY DEF QueueInv, Closes, Acks, Pings
  <2>2. Unsent(d, {"audio"}) => d.out.n \in Nat
    BY ClientAssumption DEF Clients, Frames, Numbers, Unsent
  <2>3. Sound(d, x)
    BY <1>1, <1>2, <2>2 DEF QueueInv, Sound
  <2>4. QED
    BY <2>1, <2>3 DEF QueueInv
<1>4. CASE p.duration > AudioLimit
  BY <1>3, <1>4 DEF QueueAudio, Untouched, Flowing
<1>5. CASE ~(p.duration > AudioLimit) /\ d.out = None
  <2> DEFINE f == Frame("audio", p.n)
  <2>1. /\ f \in Frames /\ f # None /\ f.kind = "audio" /\ f.n = p.n
    <3>1. p.n \in 0..MaxAudio
      BY ClientAssumption DEF Packets
    <3>2. QED
      BY <3>1, FrameFields, NumberFacts DEF Kinds
  <2>2. e = Activate(d, f)
    BY <1>5 DEF QueueAudio
  <2> HIDE DEF f
  <2>3. /\ e \in Clients /\ Untouched(d, e) /\ e.closing = d.closing
        /\ e.out = f /\ ~e.begun /\ e.control = d.control
        /\ e.heartbeat = d.heartbeat
        /\ e.audio = d.audio /\ e.pingQueued = d.pingQueued
    BY <2>1, <2>2, ActivateTyped, ActivateFields
  <2>4. e.audio = <<>> /\ Len(e.audio) = 0
    BY <1>5, <2>3, EmptySeq DEF Flowing
  <2>5. Waiting(e) /\ Closes(e, x)
    BY <1>3, <2>1, <2>3 DEF QueueInv, Waiting, Closes
  <2>6. Acks(e, x)
    BY <1>3, <2>1, <2>3 DEF QueueInv, Acks, Unsent, Untouched
  <2>7. Sound(e, x)
    <3>1. w.played <= w.drawn
      BY DEF QueueInv, Sound
    <3>2. x.played <= x.drawn /\ x.played < p.n /\ p.n <= x.drawn
      BY <1>2, <3>1
    <3>3. QED
      BY <1>2, <2>1, <2>3, <2>4, <3>2 DEF Sound
  <2>8. Pings(e, x)
    BY <1>3, <1>5, <2>1, <2>3
       DEF QueueInv, Pings, PingControl, Unsent, Untouched
  <2>9. QED
    BY <2>1, <2>3, <2>5, <2>6, <2>7, <2>8 DEF QueueInv, Flowing
<1>6. CASE ~(p.duration > AudioLimit) /\ d.out # None
  <2>1. PICK drop \in 0..Len(d.audio) :
          /\ Len(d.audio) - drop < AudioSlots
          /\ e = [d EXCEPT !.audio =
                    Append(SubSeq(d.audio, drop + 1, Len(d.audio)), p)]
    BY <1>6 DEF QueueAudio
  <2> DEFINE q == SubSeq(d.audio, drop + 1, Len(d.audio))
             a == Append(q, p)
  <2>2. drop + 1 \in 1..(Len(d.audio) + 1)
    BY <1>1
  <2>3. /\ q \in Seq(Packets) /\ Len(q) = Len(d.audio) - drop
        /\ \A k \in 1..Len(q) :
             w.played < q[k].n /\ q[k].n <= w.drawn
        /\ \A k, m \in 1..Len(q) : k < m => q[k].n < q[m].n
        /\ \A k \in 1..Len(q) : \E m \in 1..Len(d.audio) : q[k] = d.audio[m]
    <3>1. q \in Seq(Packets) /\ Len(q) = Len(d.audio) - drop
      BY <1>1, <2>2, SuffixFacts
    <3>2. Sound(d, w)
      BY DEF QueueInv
    <3>3. QED
      BY <2>2, <3>1, <3>2, SuffixKeeps
  <2> HIDE DEF q
  <2>4. /\ a \in Seq(Packets) /\ Len(a) = Len(q) + 1
        /\ \A k \in 1..Len(q) : a[k] = q[k]
        /\ a[Len(q) + 1] = p
    <3>1. q \in Seq(Packets)
      BY <2>3
    <3>2. a \in Seq(Packets) /\ Len(a) = Len(q) + 1 /\ a[Len(q) + 1] = p
      BY <3>1, AppendProperties
    <3>3. \A k \in 1..Len(q) : a[k] = q[k]
      BY <3>1, AppendProperties
    <3>4. QED
      BY <3>2, <3>3
  <2>5. e = [d EXCEPT !.audio = a]
    BY <2>1 DEF q
  <2> HIDE DEF a
  <2>6. /\ e \in Clients /\ Untouched(d, e) /\ e.closing = d.closing
        /\ e.out = d.out /\ e.begun = d.begun /\ e.control = d.control
        /\ e.heartbeat = d.heartbeat /\ e.status = d.status
        /\ e.audio = a /\ e.video = d.video
        /\ e.pingQueued = d.pingQueued
    BY <2>4, <2>5 DEF Clients, Untouched
  <2>7. Len(q) \in Nat /\ \A k \in 1..Len(a) : k \in 1..Len(q) \/ k = Len(q) + 1
    <3>1. q \in Seq(Packets)
      BY <2>3
    <3>2. Len(q) \in Nat
      BY <3>1, LenProperties
    <3>3. Len(a) = Len(q) + 1
      BY <2>4
    <3>4. QED
      BY <3>2, <3>3
  <2>8. Waiting(e) /\ Closes(e, x)
    BY <1>3, <2>6 DEF QueueInv, Waiting, Closes
  <2>9. Acks(e, x) /\ Pings(e, x)
    BY <1>3, <2>6 DEF QueueInv, Acks, Pings, PingControl, Unsent, Untouched
  <2>10. Sound(e, x)
    <3>1. Len(a) <= AudioSlots
      BY <1>1, <1>2, <2>1, <2>3, <2>4
    <3>2. x.played <= x.drawn /\ x.played < p.n /\ p.n <= x.drawn
      <4>1. w.played <= w.drawn
        BY DEF QueueInv, Sound
      <4>2. QED
        BY <1>2, <4>1
    <3>3. \A k \in 1..Len(q) : x.played < q[k].n /\ q[k].n < p.n /\ q[k].n \in Nat
      <4> TAKE k \in 1..Len(q)
      <4>1. w.played < q[k].n /\ q[k].n <= w.drawn /\ q[k] \in Packets
        BY <2>3, ElementOfSeq
      <4>2. q[k].n \in Nat
        BY <1>2, <4>1
      <4>3. QED
        BY <1>2, <4>1, <4>2
    <3>4. \A k \in 1..Len(a) : x.played < a[k].n /\ a[k].n <= x.drawn
      BY <1>2, <2>4, <2>7, <3>2, <3>3
    <3>5. \A k, m \in 1..Len(a) : k < m => a[k].n < a[m].n
      <4> SUFFICES ASSUME NEW k \in 1..Len(a), NEW m \in 1..Len(a), k < m
                   PROVE  a[k].n < a[m].n
        OBVIOUS
      <4>1. k \in 1..Len(q)
        BY <2>4, <2>7
      <4>2. QED
        BY <2>3, <2>4, <2>7, <3>3, <4>1
    <3>6. Unsent(d, {"audio"}) => \A k \in 1..Len(a) : d.out.n < a[k].n
      <4> SUFFICES ASSUME Unsent(d, {"audio"}), NEW k \in 1..Len(a)
                   PROVE  d.out.n < a[k].n
        OBVIOUS
      <4>1. /\ d.out.n <= w.drawn
            /\ \A m \in 1..Len(d.audio) : d.out.n < d.audio[m].n
        BY DEF QueueInv, Sound
      <4>2. d.out.n \in Nat
        BY ClientAssumption DEF Clients, Frames, Numbers, Unsent
      <4>3. CASE k \in 1..Len(q)
        BY <2>3, <2>4, <4>1, <4>3
      <4>4. CASE k = Len(q) + 1
        BY <1>2, <2>4, <4>1, <4>2, <4>4
      <4>5. QED
        BY <2>7, <4>3, <4>4
    <3>7. Unsent(d, {"audio"}) => x.played < d.out.n /\ d.out.n <= x.drawn
      BY <1>3 DEF QueueInv, Sound
    <3>8. QED
      BY <2>6, <3>1, <3>2, <3>4, <3>5, <3>6, <3>7 DEF Sound, Unsent
  <2>11. QED
    BY <1>6, <2>6, <2>8, <2>9, <2>10 DEF QueueInv, Flowing
<1>7. QED
  BY <1>4, <1>5, <1>6

-----------------------------------------------------------------------------
(* The inductive invariant *)

\* A connection whose queues are in order.
Sane(d, w) == d \in Clients /\ QueueInv(d, w) /\ Flowing(d)

\* Where in a pass a held button is known to be the client's.
Button ==
    /\ net \in {"lease", "broadcast"} /\ hostJoy => Live(c) /\ c.joy
    /\ net \in {"top", "poll"} /\ hostJoy => c.joy /\ c.silent = 0
    /\ net = "gone" => ~hostJoy
    /\ net \in {"lease", "top", "broadcast"} => ~c.dead

ConnInv == TypeOK /\ Sane(c, wire) /\ Button

-----------------------------------------------------------------------------
(* Handlers as functions of the connection *)

SameFrames(d, e) ==
    /\ e.out = d.out /\ e.begun = d.begun /\ e.control = d.control
    /\ e.heartbeat = d.heartbeat /\ e.status = d.status
    /\ e.audio = d.audio /\ e.video = d.video
    /\ e.pingQueued = d.pingQueued /\ e.closing = d.closing
    /\ e.payload = d.payload

\* Clocks, buttons and marks are not part of the queue.
LEMMA MarksKeep ==
    ASSUME NEW d, NEW w \in Wires, Sane(d, w),
           NEW e \in Clients, SameFrames(d, e),
           d.lastSeq <= e.lastSeq, d.dead => e.dead
    PROVE  Sane(e, w)
<1>1. d \in Clients /\ QueueInv(d, w) /\ Flowing(d)
  BY DEF Sane
<1>2. d.payload <= e.payload
  BY <1>1, ClientAssumption DEF Clients, SameFrames
<1>3. QueueInv(e, w)
  BY <1>1, <1>2, SameQueue DEF SameFrames
<1>4. Flowing(e)
  BY <1>1 DEF Flowing, SameFrames
<1>5. QED
  BY <1>3, <1>4 DEF Sane

\* read_websocket restarts the idle clock.
LEMMA HeardKeeps ==
    ASSUME NEW w \in Wires, Sane(c, w)
    PROVE  /\ Sane(heard, w) /\ SameFrames(c, heard) /\ Untouched(c, heard)
           /\ heard.closing = c.closing
<1>1. c \in Clients
  BY DEF Sane
<1>2. heard \in Clients /\ SameFrames(c, heard) /\ Untouched(c, heard)
  BY <1>1 DEF heard, Clients, SameFrames, Untouched
<1>3. c.lastSeq <= heard.lastSeq
  BY <1>1, <1>2, ClientAssumption DEF Clients, Untouched
<1>4. QED
  BY <1>2, <1>3, MarksKeep DEF SameFrames, Untouched

LEMMA CloseSane ==
    ASSUME NEW d, NEW w \in Wires, Sane(d, w)
    PROVE  Sane(Close(d), w) /\ Untouched(d, Close(d)) /\ Close(d).closing
BY CloseKeeps DEF Sane

LEMMA ProtocolErrorSane ==
    ASSUME NEW d, NEW w \in Wires, Sane(d, w)
    PROVE  Sane(ProtocolError(d), w)
<1>1. CASE d.closing
  <2> DEFINE e == [d EXCEPT !.dead = TRUE]
  <2>1. ProtocolError(d) = e
    BY <1>1 DEF ProtocolError
  <2>2. d \in Clients
    BY DEF Sane
  <2>3. e \in Clients /\ SameFrames(d, e) /\ e.lastSeq = d.lastSeq /\ e.dead
    BY <2>2 DEF Clients, SameFrames
  <2> HIDE DEF e
  <2>4. d.lastSeq <= e.lastSeq
    BY <2>2, <2>3, ClientAssumption DEF Clients
  <2>5. QED
    BY <2>1, <2>3, <2>4, MarksKeep
<1>2. CASE ~d.closing
  BY <1>2, CloseSane DEF ProtocolError
<1>3. QED
  BY <1>1, <1>2

\* websocket_receive_close
LEMMA ReceiveCloseSane ==
    ASSUME NEW d, NEW w \in Wires, Sane(d, w)
    PROVE  Sane(ReceiveClose(d), w)
<1> DEFINE e == [d EXCEPT !.closeReceived = TRUE]
<1>1. d \in Clients
  BY DEF Sane
<1>2. /\ e \in Clients /\ SameFrames(d, e) /\ e.lastSeq = d.lastSeq
      /\ e.dead = d.dead
  BY <1>1 DEF Clients, SameFrames
<1>3. ReceiveClose(d) = Close(e)
  BY DEF ReceiveClose
<1> HIDE DEF e
<1>4. d.lastSeq <= e.lastSeq
  BY <1>1, <1>2, ClientAssumption DEF Clients
<1>5. Sane(e, w)
  BY <1>2, <1>4, MarksKeep
<1>6. QED
  BY <1>3, <1>5, CloseSane

\* A Ping is queued only when none is waiting or unanswered.
LEMMA PingDueSane ==
    ASSUME NEW d, NEW w \in Wires, Sane(d, w), NEW e \in PingDue(d)
    PROVE  /\ Sane(e, w)
           /\ e.joy = d.joy /\ e.silent = d.silent /\ e.dead = d.dead
<1> DEFINE g == [d EXCEPT !.payload = @ + 1, !.pongLate = FALSE]
           f == Frame("ping", g.payload)
           due == /\ Live(d) /\ ~d.pingQueued /\ ~d.pingOutstanding
                  /\ d.payload < MaxPings
<1>1. d \in Clients /\ QueueInv(d, w)
  BY DEF Sane
<1>2. e = d \/ (due /\ e = Enqueue(g, f))
  BY DEF PingDue
<1>3. CASE e = d
  BY <1>3
<1>4. CASE due /\ e = Enqueue(g, f)
  <2>1. /\ d.payload \in Nat /\ d.payload + 1 \in 0..MaxPings
        /\ d.lastSeq \in Nat
    BY <1>1, <1>4, ClientAssumption DEF Clients
  <2>2. /\ g \in Clients /\ g.payload = d.payload + 1
        /\ g.out = d.out /\ g.begun = d.begun /\ g.control = d.control
        /\ g.heartbeat = d.heartbeat /\ g.status = d.status
        /\ g.audio = d.audio /\ g.video = d.video
        /\ g.pingQueued = d.pingQueued /\ g.closing = d.closing
        /\ g.lastSeq = d.lastSeq /\ g.dead = d.dead
        /\ g.joy = d.joy /\ g.silent = d.silent
    BY <1>1, <2>1 DEF Clients
  <2> HIDE DEF g
  <2>3. d.payload <= g.payload /\ d.lastSeq <= g.lastSeq
    BY <2>1, <2>2
  <2>4. QueueInv(g, w)
    BY <1>1, <2>2, <2>3, SameQueue
  <2>5. ~d.dead /\ ~d.closing /\ ~d.pingQueued
    BY <1>4 DEF Live
  <2>6. ~g.closing /\ ~PingControl(g) /\ ~Unsent(g, {"ping"})
    BY <2>2, <2>4, <2>5 DEF QueueInv, Pings
  <2>7. /\ f \in Frames /\ f.kind = "ping" /\ f.n = g.payload
        /\ g.payload \in Nat
    BY <2>1, <2>2, FrameFields, NumberFacts DEF Kinds
  <2> HIDE DEF f
  <2>8. f.n <= g.payload
    BY <2>7
  <2>9. /\ e \in Clients /\ QueueInv(e, w) /\ Untouched(g, e) /\ Flowing(e)
    BY <1>4, <2>2, <2>4, <2>6, <2>7, <2>8, EnqueueKeeps
  <2>10. QED
    BY <2>2, <2>9 DEF Sane, Untouched
<1>5. QED
  BY <1>2, <1>3, <1>4

-----------------------------------------------------------------------------
(* Each action keeps the invariant *)

LEMMA TypeFacts ==
    ASSUME ConnInv
    PROVE  /\ c \in Clients /\ Sane(c, wire) /\ wire \in Wires
           /\ hostJoy \in BOOLEAN /\ events \in Nat /\ events <= MaxEvents
           /\ c.lastSeq \in Nat /\ MaxEvents \in Nat /\ c.payload \in Nat
BY ClientAssumption DEF ConnInv, TypeOK, Wires, Clients

LEMMA QuietSteps ==
    ConnInv /\ (Poll \/ ReadDone \/ FlushDone \/ OthersDone \/ Gone
                  \/ UNCHANGED vars) => ConnInv'
<1> SUFFICES ASSUME ConnInv,
                    Poll \/ ReadDone \/ FlushDone \/ OthersDone \/ Gone
                      \/ UNCHANGED vars
             PROVE  ConnInv'
  OBVIOUS
<1>1. c' = c /\ wire' = wire /\ hostJoy' = hostJoy /\ events' = events
  BY DEF Poll, ReadDone, FlushDone, OthersDone, Gone, vars
<1>2. TypeOK'
  BY <1>1 DEF ConnInv, TypeOK, Poll, ReadDone, FlushDone, OthersDone, Gone, vars
<1>3. Button'
  BY <1>1 DEF ConnInv, TypeOK, Button, Live, Poll, ReadDone, FlushDone,
              OthersDone, Gone, vars
<1>4. Sane(c, wire)'
  BY <1>1 DEF ConnInv
<1>5. QED
  BY <1>2, <1>3, <1>4 DEF ConnInv

LEMMA ExpireInputKeeps == ConnInv /\ ExpireInput => ConnInv'
<1> SUFFICES ASSUME ConnInv, ExpireInput PROVE ConnInv'
  OBVIOUS
<1>1. net = "lease" /\ net' = "top" /\ wire' = wire /\ events' = events
  BY DEF ExpireInput
<1>2. CASE Live(c) /\ c.joy /\ c.silent >= 1
  <2>1. c' = [c EXCEPT !.joy = FALSE] /\ hostJoy' = FALSE
    BY <1>2 DEF ExpireInput
  <2>2. /\ c' \in Clients /\ SameFrames(c, c') /\ c'.lastSeq = c.lastSeq
        /\ c'.dead = c.dead
    BY <2>1, TypeFacts DEF Clients, SameFrames
  <2>3. c.lastSeq <= c'.lastSeq
    BY <2>2, TypeFacts
  <2>4. Sane(c', wire)
    BY <2>2, <2>3, TypeFacts, MarksKeep
  <2>5. QED
    BY <1>1, <2>1, <2>2, <2>4 DEF ConnInv, TypeOK, Button
<1>3. CASE ~(Live(c) /\ c.joy /\ c.silent >= 1)
  <2>1. c' = c /\ hostJoy' = hostJoy
    BY <1>3 DEF ExpireInput
  <2>2. hostJoy => c.joy /\ c.silent = 0
    BY <1>1, <1>3, TypeFacts DEF ConnInv, Button, Clients
  <2>3. QED
    BY <1>1, <2>1, <2>2 DEF ConnInv, TypeOK, Button
<1>4. QED
  BY <1>2, <1>3

LEMMA TopKeeps == ConnInv /\ Top => ConnInv'
<1> SUFFICES ASSUME ConnInv, Top PROVE ConnInv'
  OBVIOUS
<1>1. /\ net = "top" /\ net' = "poll" /\ wire' = wire /\ events' = events
      /\ hostJoy' = hostJoy
  BY DEF Top
<1>2. PICK d \in Stale(c) :
        \E e \in PingDue(IF LeaseOver(d) THEN Close(d) ELSE d) :
          c' = [e EXCEPT !.dead = Ended(e)]
  BY DEF Top
<1> DEFINE g == IF LeaseOver(d) THEN Close(d) ELSE d
<1>3. PICK e \in PingDue(g) : c' = [e EXCEPT !.dead = Ended(e)]
  BY <1>2
<1>4. Sane(d, wire) /\ Untouched(c, d)
  BY TypeFacts, StaleKeeps DEF Sane
<1>5. Sane(g, wire) /\ Untouched(d, g)
  BY <1>4, TypeFacts, CloseSane DEF Untouched
<1> HIDE DEF g
<1>6. /\ Sane(e, wire)
      /\ e.joy = g.joy /\ e.silent = g.silent /\ e.dead = g.dead
  BY <1>5, TypeFacts, PingDueSane
<1>7. e.joy = c.joy /\ e.silent = c.silent /\ ~e.dead
  BY <1>1, <1>4, <1>5, <1>6 DEF Untouched, ConnInv, Button
<1> DEFINE b == Ended(e)
<1>8. b \in BOOLEAN /\ c' = [e EXCEPT !.dead = b]
  BY <1>3 DEF Ended
<1> HIDE DEF b
<1>9. /\ c' \in Clients /\ SameFrames(e, c') /\ c'.lastSeq = e.lastSeq
      /\ c'.joy = e.joy /\ c'.silent = e.silent
  BY <1>6, <1>8 DEF Clients, SameFrames, Sane
<1>10. e.lastSeq <= c'.lastSeq
  BY <1>6, <1>9, ClientAssumption DEF Sane, Clients
<1>11. Sane(c', wire)
  BY <1>6, <1>7, <1>9, <1>10, TypeFacts, MarksKeep
<1>12. QED
  BY <1>1, <1>7, <1>9, <1>11 DEF ConnInv, TypeOK, Button

\* A message is handled while the connection is read, where nothing is said
\* of its buttons.
LEMMA ReceivedKeeps ==
    ASSUME ConnInv, Receiving, NEW d, Sane(d, wire), Parsed(d),
           hostJoy' \in BOOLEAN
    PROVE  ConnInv'
<1>1. /\ c' = IF c.jammed THEN ProtocolError(heard) ELSE d
      /\ events' = events + 1 /\ net' = net /\ wire' = wire
  BY DEF Parsed, Received
<1>2. net = "read" /\ events < MaxEvents
  BY DEF Receiving
<1>3. Sane(c', wire)
  BY <1>1, TypeFacts, HeardKeeps, ProtocolErrorSane
<1>4. c' \in Clients
  BY <1>3 DEF Sane
<1>5. events' \in 0..MaxEvents
  BY <1>1, <1>2, TypeFacts
<1>6. QED
  BY <1>1, <1>2, <1>3, <1>4, <1>5 DEF ConnInv, TypeOK, Button

LEMMA ReceiveHelloKeeps == ConnInv /\ ReceiveHello => ConnInv'
<1> SUFFICES ASSUME ConnInv, ReceiveHello PROVE ConnInv'
  OBVIOUS
<1> DEFINE g == [heard EXCEPT !.lease = TRUE, !.silent = 0]
           d == IF c.closing THEN heard ELSE QueueStatus(g)
<1>1. Receiving /\ Parsed(d) /\ hostJoy' = hostJoy
  BY DEF ReceiveHello
<1>2. Sane(heard, wire) /\ heard.closing = c.closing
  BY TypeFacts, HeardKeeps
<1>3. /\ g \in Clients /\ SameFrames(heard, g) /\ g.lastSeq = heard.lastSeq
      /\ g.dead = heard.dead
  <2>1. heard \in Clients /\ 0 \in 0..2
    BY <1>2 DEF Sane
  <2>2. g \in Clients
    BY <2>1 DEF Clients
  <2>3. QED
    BY <2>1, <2>2 DEF Clients, SameFrames
<1> HIDE DEF g
<1>4. heard.lastSeq <= g.lastSeq
  BY <1>2, <1>3, ClientAssumption DEF Sane, Clients
<1>5. Sane(g, wire)
  BY <1>2, <1>3, <1>4, TypeFacts, MarksKeep
<1>6. Sane(d, wire)
  BY <1>2, <1>3, <1>5, TypeFacts, StatusKeeps DEF Sane, SameFrames
<1> HIDE DEF d
<1>7. QED
  BY <1>1, <1>6, TypeFacts, ReceivedKeeps

LEMMA ReceiveInputKeeps == ConnInv /\ ReceiveInput => ConnInv'
<1> SUFFICES ASSUME ConnInv, ReceiveInput PROVE ConnInv'
  OBVIOUS
<1>1. PICK pressed \in BOOLEAN :
        /\ Parsed(IF c.closing THEN heard
                  ELSE [heard EXCEPT !.joy = pressed, !.silent = 0])
        /\ hostJoy' = IF c.jammed \/ c.closing THEN hostJoy ELSE pressed
  BY DEF ReceiveInput
<1> DEFINE g == [heard EXCEPT !.joy = pressed, !.silent = 0]
           d == IF c.closing THEN heard ELSE g
<1>2. Receiving /\ Parsed(d) /\ hostJoy' \in BOOLEAN
  BY <1>1, TypeFacts DEF ReceiveInput
<1>3. Sane(heard, wire) /\ heard.closing = c.closing
  BY TypeFacts, HeardKeeps
<1>4. /\ g \in Clients /\ SameFrames(heard, g) /\ g.lastSeq = heard.lastSeq
      /\ g.dead = heard.dead
  <2>1. heard \in Clients /\ pressed \in BOOLEAN /\ 0 \in 0..2
    BY <1>1, <1>3 DEF Sane
  <2>2. g \in Clients
    BY <2>1 DEF Clients
  <2>3. QED
    BY <2>1, <2>2 DEF Clients, SameFrames
<1> HIDE DEF g
<1>5. heard.lastSeq <= g.lastSeq
  BY <1>3, <1>4, ClientAssumption DEF Sane, Clients
<1>6. Sane(d, wire)
  BY <1>3, <1>4, <1>5, TypeFacts, MarksKeep
<1> HIDE DEF d
<1>7. QED
  BY <1>2, <1>6, ReceivedKeeps

LEMMA ReceiveHeartbeatKeeps == ConnInv /\ ReceiveHeartbeat => ConnInv'
<1> SUFFICES ASSUME ConnInv, ReceiveHeartbeat PROVE ConnInv'
  OBVIOUS
<1>1. PICK s \in 1..MaxSeq, pressed \in BOOLEAN :
         /\ Parsed(IF c.closing THEN heard
                   ELSE IF s <= c.lastSeq THEN Close(heard)
                   ELSE QueueHeartbeat([heard EXCEPT !.joy = pressed,
                                            !.silent = 0, !.lastSeq = s], s))
         /\ hostJoy' = IF c.jammed \/ c.closing \/ s <= c.lastSeq
                         THEN hostJoy ELSE pressed
  BY DEF ReceiveHeartbeat
<1> DEFINE g == [heard EXCEPT !.joy = pressed, !.silent = 0, !.lastSeq = s]
           d == IF c.closing THEN heard
                ELSE IF s <= c.lastSeq THEN Close(heard)
                ELSE QueueHeartbeat(g, s)
<1>2. Receiving /\ Parsed(d) /\ hostJoy' \in BOOLEAN
  BY <1>1, TypeFacts DEF ReceiveHeartbeat
<1>3. /\ Sane(heard, wire) /\ heard.closing = c.closing
      /\ heard.lastSeq = c.lastSeq
  BY TypeFacts, HeardKeeps DEF Untouched
<1>4. CASE c.closing
  BY <1>2, <1>3, <1>4, ReceivedKeeps
<1>5. CASE ~c.closing /\ s <= c.lastSeq
  <2>1. d = Close(heard) /\ Sane(Close(heard), wire)
    BY <1>3, <1>5, TypeFacts, CloseSane
  <2> HIDE DEF d
  <2>2. QED
    BY <1>2, <2>1, ReceivedKeeps
<1>6. CASE ~c.closing /\ ~(s <= c.lastSeq)
  <2>1. s \in 0..MaxSeq /\ c.lastSeq < s /\ s \in Nat
    BY <1>6, TypeFacts, ClientAssumption
  <2>2. /\ g \in Clients /\ SameFrames(heard, g) /\ g.lastSeq = s
        /\ g.dead = heard.dead
    <3>1. heard \in Clients /\ pressed \in BOOLEAN /\ 0 \in 0..2
      BY <1>1, <1>3 DEF Sane
    <3>2. g \in Clients
      BY <2>1, <3>1 DEF Clients
    <3>3. QED
      BY <2>1, <3>1, <3>2 DEF Clients, SameFrames
  <2> HIDE DEF g
  <2>3. heard.lastSeq <= g.lastSeq
    BY <1>3, <2>1, <2>2, TypeFacts
  <2>4. Sane(g, wire)
    BY <1>3, <2>2, <2>3, TypeFacts, MarksKeep
  <2>5. wire.acked < s /\ s <= g.lastSeq
    <3>1. wire.acked <= c.lastSeq /\ wire.acked \in Nat
      BY TypeFacts, ClientAssumption DEF Sane, QueueInv, Acks, Wires
    <3>2. QED
      BY <2>1, <2>2, <3>1, TypeFacts
  <2>6. ~g.closing
    BY <1>3, <1>6, <2>2 DEF SameFrames
  <2>7. Sane(QueueHeartbeat(g, s), wire)
    BY <2>4, <2>5, <2>6, TypeFacts, HeartbeatKeeps DEF Sane
  <2>8. d = QueueHeartbeat(g, s)
    BY <1>6
  <2> HIDE DEF d
  <2>9. QED
    BY <1>2, <2>7, <2>8, ReceivedKeeps
<1>7. QED
  BY <1>4, <1>5, <1>6

LEMMA ReceivePingKeeps == ConnInv /\ ReceivePing => ConnInv'
<1> SUFFICES ASSUME ConnInv, ReceivePing PROVE ConnInv'
  OBVIOUS
<1> DEFINE f == Frame("pong", 0)
           d == IF c.closing THEN heard ELSE Enqueue(heard, f)
<1>1. Receiving /\ Parsed(d) /\ hostJoy' = hostJoy
  BY DEF ReceivePing
<1>2. Sane(heard, wire) /\ heard.closing = c.closing
  BY TypeFacts, HeardKeeps
<1>3. f \in Frames /\ f.kind = "pong"
  BY FrameFields, NumberFacts DEF Kinds
<1> HIDE DEF f
<1>4. Sane(d, wire)
  BY <1>2, <1>3, TypeFacts, EnqueueKeeps DEF Sane
<1> HIDE DEF d
<1>5. QED
  BY <1>1, <1>4, TypeFacts, ReceivedKeeps

LEMMA ReceivePongKeeps == ConnInv /\ ReceivePong => ConnInv'
<1> SUFFICES ASSUME ConnInv, ReceivePong PROVE ConnInv'
  OBVIOUS
<1>1. PICK n \in 0..wire.pinged :
         Parsed(IF ~c.closing /\ c.pingOutstanding /\ n = c.payload
                  THEN [heard EXCEPT !.pingOutstanding = FALSE] ELSE heard)
  BY DEF ReceivePong
<1> DEFINE g == [heard EXCEPT !.pingOutstanding = FALSE]
           d == IF ~c.closing /\ c.pingOutstanding /\ n = c.payload
                  THEN g ELSE heard
<1>2. Receiving /\ Parsed(d) /\ hostJoy' = hostJoy
  BY <1>1 DEF ReceivePong
<1>3. Sane(heard, wire)
  BY TypeFacts, HeardKeeps
<1>4. /\ g \in Clients /\ SameFrames(heard, g) /\ g.lastSeq = heard.lastSeq
      /\ g.dead = heard.dead
  BY <1>3 DEF Clients, SameFrames, Sane
<1> HIDE DEF g
<1>5. heard.lastSeq <= g.lastSeq
  BY <1>3, <1>4, ClientAssumption DEF Sane, Clients
<1>6. Sane(d, wire)
  BY <1>3, <1>4, <1>5, TypeFacts, MarksKeep
<1> HIDE DEF d
<1>7. QED
  BY <1>2, <1>6, TypeFacts, ReceivedKeeps

LEMMA ReceiveCloseKeeps ==
    ConnInv /\ (ReceiveCloseFrame \/ ReceiveRefused) => ConnInv'
<1> SUFFICES ASSUME ConnInv, ReceiveCloseFrame \/ ReceiveRefused PROVE ConnInv'
  OBVIOUS
<1>1. Sane(heard, wire)
  BY TypeFacts, HeardKeeps
<1>2. CASE ReceiveCloseFrame
  <2>1. Receiving /\ Parsed(ReceiveClose(heard)) /\ hostJoy' = hostJoy
    BY <1>2 DEF ReceiveCloseFrame
  <2>2. Sane(ReceiveClose(heard), wire)
    BY <1>1, TypeFacts, ReceiveCloseSane
  <2>3. QED
    BY <2>1, <2>2, TypeFacts, ReceivedKeeps
<1>3. CASE ReceiveRefused
  <2>1. Receiving /\ Parsed(Close(heard)) /\ hostJoy' = hostJoy
    BY <1>3 DEF ReceiveRefused
  <2>2. Sane(Close(heard), wire)
    BY <1>1, TypeFacts, CloseSane
  <2>3. QED
    BY <2>1, <2>2, TypeFacts, ReceivedKeeps
<1>4. QED
  BY <1>2, <1>3

LEMMA ReceiveMalformedKeeps == ConnInv /\ ReceiveMalformed => ConnInv'
<1> SUFFICES ASSUME ConnInv, ReceiveMalformed PROVE ConnInv'
  OBVIOUS
<1> DEFINE b == ProtocolError(heard)
           g == [b EXCEPT !.jammed = TRUE]
<1>1. Receiving /\ Parsed(g) /\ hostJoy' = hostJoy
  BY DEF ReceiveMalformed
<1>2. Sane(b, wire)
  BY TypeFacts, HeardKeeps, ProtocolErrorSane
<1> HIDE DEF b
<1>3. /\ g \in Clients /\ SameFrames(b, g) /\ g.lastSeq = b.lastSeq
      /\ g.dead = b.dead
  BY <1>2 DEF Clients, SameFrames, Sane
<1> HIDE DEF g
<1>4. b.lastSeq <= g.lastSeq
  BY <1>2, <1>3, ClientAssumption DEF Sane, Clients
<1>5. Sane(g, wire)
  BY <1>2, <1>3, <1>4, TypeFacts, MarksKeep
<1>6. QED
  BY <1>1, <1>5, TypeFacts, ReceivedKeeps

LEMMA ReceiveEndKeeps == ConnInv /\ ReceiveEnd => ConnInv'
<1> SUFFICES ASSUME ConnInv, ReceiveEnd PROVE ConnInv'
  OBVIOUS
<1>1. /\ c' = [c EXCEPT !.dead = TRUE] /\ events' = events + 1
      /\ net' = net /\ wire' = wire /\ hostJoy' = hostJoy
      /\ net = "read" /\ events < MaxEvents
  BY DEF ReceiveEnd, Received, Receiving
<1>2. c' \in Clients /\ SameFrames(c, c') /\ c'.lastSeq = c.lastSeq /\ c'.dead
  BY <1>1, TypeFacts DEF Clients, SameFrames
<1>3. c.lastSeq <= c'.lastSeq
  BY <1>2, TypeFacts
<1>4. Sane(c', wire)
  BY <1>2, <1>3, TypeFacts, MarksKeep
<1>5. events' \in 0..MaxEvents
  BY <1>1, TypeFacts
<1>6. QED
  BY <1>1, <1>2, <1>4, <1>5 DEF ConnInv, TypeOK, Button

\* The first bytes of a frame leave: what was due to it becomes history.
LEMMA FlushFirstKeeps == ConnInv /\ FlushFirst => ConnInv'
<1> SUFFICES ASSUME ConnInv, FlushFirst PROVE ConnInv'
  OBVIOUS
<1> DEFINE f == c.out
<1>1. /\ c' = Begin(c) /\ wire' = Record(f) /\ f # None /\ ~c.begun
      /\ net = "flush" /\ net' = net /\ hostJoy' = hostJoy
      /\ events' = events
  BY DEF FlushFirst
<1>2. QueueInv(c, wire) /\ Flowing(c) /\ c \in Clients /\ wire \in Wires
  BY TypeFacts DEF Sane
<1>3. f \in Frames /\ f.kind \in Kinds /\ f.n \in Nat
  BY <1>1, <1>2, ClientAssumption DEF Clients, Frames, Numbers
<1> DEFINE p == c.pingQueued /\ f.kind # "ping"
<1>4. /\ c' \in Clients /\ c'.out = c.out /\ c'.begun
      /\ c'.control = c.control /\ c'.heartbeat = c.heartbeat
      /\ c'.status = c.status /\ c'.audio = c.audio /\ c'.video = c.video
      /\ c'.closing = c.closing /\ c'.payload = c.payload
      /\ c'.lastSeq = c.lastSeq /\ c'.dead = c.dead
      /\ c'.pingQueued = p
  <2>1. CASE f.kind = "ping" /\ c.pingQueued
    <3>1. c' = [c EXCEPT !.begun = TRUE, !.pingQueued = FALSE,
                         !.pingOutstanding = TRUE, !.pongLate = FALSE]
      BY <1>1, <2>1 DEF Begin
    <3>2. c' \in Clients
      BY <1>2, <3>1 DEF Clients
    <3>3. /\ c'.begun /\ c'.pingQueued = FALSE
          /\ c'.control = c.control /\ c'.heartbeat = c.heartbeat
          /\ c'.status = c.status /\ c'.audio = c.audio
          /\ c'.video = c.video /\ c'.out = c.out
      BY <1>2, <3>1 DEF Clients
    <3>4. /\ c'.closing = c.closing /\ c'.payload = c.payload
          /\ c'.lastSeq = c.lastSeq /\ c'.dead = c.dead
      BY <1>2, <3>1 DEF Clients
    <3>5. p = FALSE
      BY <2>1
    <3>6. QED
      BY <3>2, <3>3, <3>4, <3>5
  <2>2. CASE ~(f.kind = "ping" /\ c.pingQueued)
    <3>1. c' = [c EXCEPT !.begun = TRUE]
      BY <1>1, <2>2 DEF Begin
    <3>2. c.pingQueued = p
      BY <1>2, <2>2 DEF Clients
    <3>3. QED
      BY <1>2, <3>1, <3>2 DEF Clients
  <2>3. QED
    BY <2>1, <2>2
<1>5. /\ wire.acked \in Nat /\ wire.played \in Nat /\ wire.pinged \in Nat
      /\ wire.drawn \in Nat /\ c.payload \in Nat /\ c.lastSeq \in Nat
      /\ c.payload <= MaxPings /\ c.lastSeq <= MaxSeq
      /\ wire.drawn <= MaxAudio
  BY <1>2, ClientAssumption DEF Clients, Wires
<1>6. /\ f.kind = "ack" => /\ wire.acked < f.n /\ f.n <= c.lastSeq
                           /\ c.heartbeat = None
      /\ f.kind = "audio" =>
           /\ wire.played < f.n /\ f.n <= wire.drawn
           /\ \A i \in 1..Len(c.audio) : f.n < c.audio[i].n
      /\ f.kind = "ping" => f.n <= c.payload /\ ~PingControl(c)
  BY <1>1, <1>2 DEF QueueInv, Acks, Sound, Pings, Unsent
<1> DEFINE acked == IF f.kind = "ack" THEN f.n ELSE wire.acked
           played == IF f.kind = "audio" THEN f.n ELSE wire.played
           pinged == IF f.kind = "ping" THEN f.n ELSE wire.pinged
           closed == wire.closed \/ f.kind = "close"
<1>7. /\ acked \in 0..MaxSeq /\ played \in 0..MaxAudio
      /\ pinged \in 0..MaxPings /\ closed \in BOOLEAN
  <2>1. wire.acked \in 0..MaxSeq
    BY <1>2 DEF Wires
  <2>2. acked \in 0..MaxSeq
    BY <1>3, <1>5, <1>6, <2>1, ClientAssumption
  <2>3. wire.played \in 0..MaxAudio
    BY <1>2 DEF Wires
  <2>4. played \in 0..MaxAudio
    BY <1>3, <1>5, <1>6, <2>3, ClientAssumption
  <2>5. wire.pinged \in 0..MaxPings
    BY <1>2 DEF Wires
  <2>6. pinged \in 0..MaxPings
    BY <1>3, <1>5, <1>6, <2>5, ClientAssumption
  <2>7. QED
    BY <2>2, <2>4, <2>6
<1>8. wire' = [wire EXCEPT !.acked = acked, !.played = played,
                           !.pinged = pinged, !.closed = closed]
  BY <1>1, <1>2 DEF Record, Wires
<1> HIDE DEF acked, played, pinged, closed
<1>9. /\ wire' \in Wires /\ wire'.acked = acked /\ wire'.played = played
      /\ wire'.pinged = pinged /\ wire'.drawn = wire.drawn
      /\ wire'.closed = closed
  BY <1>2, <1>7, <1>8 DEF Wires
<1>10. Waiting(c') /\ Closes(c', wire')
  BY <1>1, <1>2, <1>4, <1>9 DEF QueueInv, Waiting, Closes, closed
<1>11. Acks(c', wire')
  BY <1>2, <1>4, <1>5, <1>6, <1>9 DEF QueueInv, Acks, Unsent, acked
<1>12. Sound(c', wire')
  BY <1>2, <1>4, <1>5, <1>6, <1>9 DEF QueueInv, Sound, Unsent, played
<1>13. Pings(c', wire')
  <2>1. wire'.pinged <= c'.payload
    BY <1>2, <1>4, <1>5, <1>6, <1>9 DEF QueueInv, Pings, pinged
  <2>2. PingControl(c') <=> PingControl(c)
    BY <1>4 DEF PingControl
  <2>3. /\ PingControl(c) => c.control.n <= c.payload
        /\ ~c.dead => (c.pingQueued <=> f.kind = "ping" \/ PingControl(c))
    BY <1>1, <1>2 DEF QueueInv, Pings, Unsent
  <2>4. ~Unsent(c', {"ping"})
    BY <1>4 DEF Unsent
  <2>5. QED
    BY <1>4, <1>6, <2>1, <2>2, <2>3, <2>4 DEF Pings, PingControl
<1>14. Flowing(c')
  BY <1>1, <1>4 DEF Flowing
<1>15. Sane(c', wire')
  BY <1>4, <1>10, <1>11, <1>12, <1>13, <1>14 DEF Sane, QueueInv
<1>16. QED
  BY <1>1, <1>4, <1>9, <1>15 DEF ConnInv, TypeOK, Button, Wires

LEMMA FlushRestKeeps == ConnInv /\ FlushRest => ConnInv'
<1> SUFFICES ASSUME ConnInv, FlushRest PROVE ConnInv'
  OBVIOUS
<1>1. /\ c' \in Sent(c) /\ c.out # None /\ c.begun /\ net = "flush"
      /\ net' = net /\ hostJoy' = hostJoy /\ wire' = wire /\ events' = events
  BY DEF FlushRest
<1>2. Sane(c', wire)
  BY <1>1, TypeFacts, SentKeeps DEF Sane
<1>3. c' \in Clients
  BY <1>2 DEF Sane
<1>4. QED
  BY <1>1, <1>2, <1>3 DEF ConnInv, TypeOK, Button

\* send failed: the connection is lost and what waits will never leave.
LEMMA FlushErrorKeeps == ConnInv /\ FlushError => ConnInv'
<1> SUFFICES ASSUME ConnInv, FlushError PROVE ConnInv'
  OBVIOUS
<1> DEFINE b == ClearActive(c)
<1>1. /\ c' = [b EXCEPT !.dead = TRUE] /\ events' = events + 1
      /\ events < MaxEvents /\ net = "flush"
      /\ net' = net /\ hostJoy' = hostJoy /\ wire' = wire
  BY DEF FlushError
<1>2. /\ b \in Clients /\ Untouched(c, b) /\ b.closing = c.closing
      /\ b.out = None
      /\ b.control = c.control /\ b.heartbeat = c.heartbeat
      /\ b.status = c.status /\ b.audio = c.audio /\ b.video = c.video
  BY TypeFacts, ActivateTyped, ActivateFields DEF ClearActive
<1> HIDE DEF b
<1>3. /\ c' \in Clients /\ c'.dead /\ c'.out = None
      /\ c'.control = c.control /\ c'.heartbeat = c.heartbeat
      /\ c'.status = c.status /\ c'.audio = c.audio /\ c'.video = c.video
      /\ c'.closing = c.closing
      /\ c'.payload = c.payload /\ c'.lastSeq = c.lastSeq
  BY <1>1, <1>2 DEF Clients, Untouched
<1>4. QueueInv(c, wire)
  BY TypeFacts DEF Sane
<1>5. Waiting(c') /\ Closes(c', wire)
  BY <1>3, <1>4 DEF QueueInv, Waiting, Closes
<1>6. Acks(c', wire) /\ Sound(c', wire)
  BY <1>3, <1>4 DEF QueueInv, Acks, Sound, Unsent
<1>7. Pings(c', wire)
  BY <1>3, <1>4 DEF QueueInv, Pings, PingControl, Unsent
<1>8. Sane(c', wire)
  BY <1>3, <1>5, <1>6, <1>7 DEF Sane, QueueInv, Flowing
<1>9. events' \in 0..MaxEvents
  BY <1>1, TypeFacts
<1>10. QED
  BY <1>1, <1>3, <1>8, <1>9 DEF ConnInv, TypeOK, Button

\* websocket_queue for a status, if the connection takes one.
LEMMA AnnouncedSane ==
    ASSUME NEW d, NEW w \in Wires, Sane(d, w)
    PROVE  Sane(IF Live(d) THEN QueueStatus(d) ELSE d, w)
BY StatusKeeps DEF Sane, Live

LEMMA CommandKeeps == ConnInv /\ Command => ConnInv'
<1> SUFFICES ASSUME ConnInv, Command PROVE ConnInv'
  OBVIOUS
<1>1. /\ net \in {"read", "others"} /\ net' = net /\ wire' = wire
      /\ events' = events + 1 /\ events < MaxEvents
  BY DEF Command
<1>2. Sane(c', wire) /\ hostJoy' \in BOOLEAN
  <2>1. CASE /\ c' = IF Live(c) THEN QueueStatus(c) ELSE c
             /\ UNCHANGED hostJoy
    BY <2>1, TypeFacts, AnnouncedSane
  <2>2. CASE \E d \in IF Live(c) THEN Transition(c) ELSE {c} :
               /\ c' = IF Live(d) THEN QueueStatus(d) ELSE d
               /\ hostJoy' = Contribution(d)
    <3>1. PICK d \in IF Live(c) THEN Transition(c) ELSE {c} :
               /\ c' = IF Live(d) THEN QueueStatus(d) ELSE d
               /\ hostJoy' = Contribution(d)
      BY <2>2
    <3>2. Sane(d, wire)
      BY <3>1, TypeFacts, TransitionKeeps DEF Sane
    <3>3. Contribution(d) \in BOOLEAN
      BY <3>2 DEF Contribution, Live, Sane, Clients
    <3>4. QED
      BY <3>1, <3>2, <3>3, TypeFacts, AnnouncedSane
  <2>3. QED
    BY <2>1, <2>2 DEF Command
<1>3. c' \in Clients
  BY <1>2 DEF Sane
<1>4. events' \in 0..MaxEvents
  BY <1>1, TypeFacts
<1>5. QED
  BY <1>1, <1>2, <1>3, <1>4 DEF ConnInv, TypeOK, Button

LEMMA RecomputeInputsKeeps == ConnInv /\ RecomputeInputs => ConnInv'
<1> SUFFICES ASSUME ConnInv, RecomputeInputs PROVE ConnInv'
  OBVIOUS
<1>1. /\ c' = c /\ wire' = wire /\ events' = events
      /\ hostJoy' = Contribution(c)
      /\ net' = IF c.dead THEN "gone" ELSE "broadcast"
  BY DEF RecomputeInputs
<1>2. hostJoy' \in BOOLEAN
  BY <1>1, TypeFacts DEF Contribution, Live, Clients
<1>3. TypeOK'
  BY <1>1, <1>2 DEF ConnInv, TypeOK
<1>4. Button'
  BY <1>1 DEF Button, Contribution, Live
<1>5. QED
  BY <1>1, <1>3, <1>4 DEF ConnInv

\* broadcast_av: a packet drawn for this connection is the newest one.
LEMMA BroadcastKeeps == ConnInv /\ Broadcast => ConnInv'
<1> SUFFICES ASSUME ConnInv, Broadcast PROVE ConnInv'
  OBVIOUS
<1> DEFINE Packet(k) == [n |-> wire.drawn + 1, duration |-> k]
<1>1. /\ net = "broadcast" /\ net' = "lease" /\ hostJoy' = hostJoy
      /\ events' = events
  BY DEF Broadcast
<1>2. PICK d \in IF Live(c) /\ wire.drawn < MaxAudio
                   THEN {c} \cup UNION {QueueAudio(c, Packet(k)) :
                                          k \in Durations}
                   ELSE {c} :
         /\ wire' = [wire EXCEPT !.drawn = IF d = c THEN @ ELSE @ + 1]
         /\ c' \in IF Live(d) THEN {d, QueueVideo(d)} ELSE {d}
  BY DEF Broadcast
<1>3. /\ c \in Clients /\ QueueInv(c, wire) /\ Flowing(c) /\ wire \in Wires
      /\ ~c.dead
  BY <1>1, TypeFacts DEF Sane, ConnInv, Button
<1>4. /\ Sane(d, wire') /\ Untouched(c, d) /\ d.closing = c.closing
      /\ wire' \in Wires
  <2>1. CASE d = c
    <3>1. wire' = wire
      BY <1>2, <1>3, <2>1 DEF Wires
    <3>2. QED
      BY <1>3, <2>1, <3>1 DEF Sane, Untouched
  <2>2. CASE d # c
    <3>1. PICK k \in Durations : d \in QueueAudio(c, Packet(k))
      BY <1>2, <2>2
    <3>2. Live(c) /\ wire.drawn < MaxAudio
      BY <1>2, <2>2
    <3>3. wire.drawn \in Nat /\ wire.drawn + 1 \in 1..MaxAudio
      BY <1>3, <3>2, ClientAssumption DEF Wires
    <3>4. Packet(k) \in Packets /\ Packet(k).n = wire.drawn + 1
      BY <3>3 DEF Packets
    <3>5. wire' = [wire EXCEPT !.drawn = @ + 1]
      BY <1>2, <2>2
    <3>6. wire.drawn + 1 \in 0..MaxAudio
      BY <3>3
    <3>7. /\ wire' \in Wires /\ wire'.drawn = wire.drawn + 1
          /\ wire'.played = wire.played /\ wire'.acked = wire.acked
          /\ wire'.pinged = wire.pinged /\ wire'.closed = wire.closed
      BY <1>3, <3>5, <3>6 DEF Wires
    <3> HIDE DEF Packet
    <3>8. ~c.closing
      BY <3>2 DEF Live
    <3>9. /\ d \in Clients /\ QueueInv(d, wire') /\ Untouched(c, d)
          /\ d.closing = c.closing /\ Flowing(d)
      BY <1>3, <3>1, <3>4, <3>7, <3>8, AudioKeeps
    <3>10. QED
      BY <3>7, <3>9 DEF Sane
  <2>3. QED
    BY <2>1, <2>2
<1>5. /\ Sane(c', wire') /\ c'.joy = c.joy /\ c'.dead = c.dead
      /\ c'.closing = c.closing
  <2>1. CASE c' = d
    BY <1>4, <2>1 DEF Untouched
  <2>2. CASE Live(d) /\ c' = QueueVideo(d)
    <3>1. d \in Clients /\ QueueInv(d, wire') /\ ~d.closing
      BY <1>4, <2>2 DEF Sane, Live
    <3>2. /\ c' \in Clients /\ QueueInv(c', wire') /\ Untouched(d, c')
          /\ Flowing(c') /\ c'.closing = d.closing
      BY <1>4, <2>2, <3>1, VideoKeeps
    <3>3. QED
      BY <1>4, <3>2 DEF Sane, Untouched
  <2>3. QED
    BY <1>2, <2>1, <2>2
<1>6. c' \in Clients
  BY <1>5 DEF Sane
<1>7. TypeOK'
  BY <1>1, <1>4, <1>6 DEF ConnInv, TypeOK, Wires
<1>8. Button'
  BY <1>1, <1>5 DEF ConnInv, Button, Live
<1>9. QED
  BY <1>5, <1>7, <1>8 DEF ConnInv

LEMMA TimeKeeps == ConnInv /\ Time => ConnInv'
<1> SUFFICES ASSUME ConnInv, Time PROVE ConnInv'
  OBVIOUS
<1>1. /\ net = "lease" /\ net' = net /\ wire' = wire /\ hostJoy' = hostJoy
      /\ events' = events
  BY DEF Time, AgeInput, AgeOutput, AgePeer, AgeClose
<1>2. /\ c' \in Clients /\ SameFrames(c, c') /\ c'.lastSeq = c.lastSeq
      /\ c'.dead = c.dead /\ c'.joy = c.joy
  <2>1. CASE AgeInput
    <3>1. c.silent + 1 \in 0..2 /\ c' = [c EXCEPT !.silent = @ + 1]
      BY <2>1, TypeFacts DEF AgeInput, Clients
    <3>2. QED
      BY <3>1, TypeFacts DEF Clients, SameFrames
  <2>2. CASE AgeOutput
    <3>1. c' = [c EXCEPT !.outOld = TRUE]
      BY <2>2 DEF AgeOutput
    <3>2. QED
      BY <3>1, TypeFacts DEF Clients, SameFrames
  <2>3. CASE AgePeer /\ c' = [c EXCEPT !.idle = TRUE]
    BY <2>3, TypeFacts DEF Clients, SameFrames
  <2>4. CASE AgePeer /\ c' = [c EXCEPT !.pongLate = TRUE]
    BY <2>4, TypeFacts DEF Clients, SameFrames
  <2>5. CASE AgeClose
    <3>1. c' = [c EXCEPT !.closeLate = TRUE]
      BY <2>5 DEF AgeClose
    <3>2. QED
      BY <3>1, TypeFacts DEF Clients, SameFrames
  <2>6. QED
    BY <2>1, <2>2, <2>3, <2>4, <2>5 DEF Time, AgePeer
<1>3. c.lastSeq <= c'.lastSeq
  BY <1>2, TypeFacts
<1>4. Sane(c', wire)
  BY <1>2, <1>3, TypeFacts, MarksKeep
<1>5. Button'
  BY <1>1, <1>2 DEF ConnInv, Button, Live, SameFrames
<1>6. QED
  BY <1>1, <1>2, <1>4, <1>5 DEF ConnInv, TypeOK

LEMMA ConnInit == Init => ConnInv
<1> SUFFICES ASSUME Init PROVE ConnInv
  OBVIOUS
<1>1. /\ c = Fresh /\ hostJoy = FALSE /\ net = "lease" /\ events = 0
      /\ wire = [acked |-> 0, played |-> 0, pinged |-> 0, drawn |-> 0,
                 closed |-> FALSE]
  BY DEF Init
<1>2. /\ 0 \in 0..MaxSeq /\ 0 \in 0..MaxPings /\ 0 \in 0..MaxAudio
      /\ 0 \in 0..MaxEvents /\ 0 \in 0..2 /\ <<>> \in Seq(Packets)
      /\ Len(<<>>) = 0 /\ 0 <= AudioSlots
  BY ClientAssumption, EmptySeq
<1>3. c \in Clients
  BY <1>1, <1>2 DEF Fresh, Clients
<1>4. /\ c.out = None /\ c.control = None /\ c.heartbeat = None
      /\ ~c.status /\ c.audio = <<>> /\ ~c.video /\ ~c.pingQueued
      /\ c.payload = 0 /\ ~c.closing /\ ~c.dead /\ c.lastSeq = 0
  BY <1>1 DEF Fresh
<1>5. /\ wire.acked = 0 /\ wire.played = 0 /\ wire.pinged = 0
      /\ wire.drawn = 0 /\ ~wire.closed /\ wire \in Wires
  BY <1>1, <1>2 DEF Wires
<1>6. Waiting(c) /\ Closes(c, wire)
  BY <1>4, <1>5 DEF Waiting, Closes
<1>7. Acks(c, wire)
  BY <1>4, <1>5 DEF Acks, Unsent
<1>8. Sound(c, wire)
  BY <1>2, <1>4, <1>5 DEF Sound, Unsent
<1>9. Pings(c, wire)
  BY <1>4, <1>5 DEF Pings, PingControl, Unsent
<1>10. Sane(c, wire)
  BY <1>3, <1>4, <1>6, <1>7, <1>8, <1>9 DEF Sane, QueueInv, Flowing
<1>11. QED
  BY <1>1, <1>2, <1>3, <1>4, <1>5, <1>10 DEF ConnInv, TypeOK, Button, Wires

LEMMA ConnStep == ConnInv /\ [Next]_vars => ConnInv'
<1> SUFFICES ASSUME ConnInv, [Next]_vars PROVE ConnInv'
  OBVIOUS
<1>1. CASE Loop
  BY <1>1, ExpireInputKeeps, TopKeeps, QuietSteps, RecomputeInputsKeeps,
     BroadcastKeeps DEF Loop
<1>2. CASE Receive
  BY <1>2, ReceiveHelloKeeps, ReceiveInputKeeps, ReceiveHeartbeatKeeps,
     ReceivePingKeeps, ReceivePongKeeps, ReceiveCloseKeeps,
     ReceiveMalformedKeeps, ReceiveEndKeeps DEF Receive
<1>3. CASE Flush
  BY <1>3, FlushFirstKeeps, FlushRestKeeps DEF Flush
<1>4. QED
  BY <1>1, <1>2, <1>3, FlushErrorKeeps, CommandKeeps, TimeKeeps, QuietSteps
     DEF Next

\* The queues of a connection are in order in every reachable state.
THEOREM Inductive == Spec => []ConnInv
BY ConnInit, ConnStep, PTL DEF Spec

-----------------------------------------------------------------------------
(* What the invariant is for *)

\* The frames, queues and marks of struct client keep their types.
THEOREM TypeCorrect == Spec => []TypeOK
<1>1. ConnInv => TypeOK
  BY DEF ConnInv
<1>2. QED
  BY <1>1, Inductive, PTL

\* Whatever the order of messages, commands, timers and partial writes, the
\* Close frame is the last one on the socket.
THEOREM CloseEndsTheStream == Spec => []CloseIsLast
<1>1. ConnInv => CloseIsLast
  BY DEF ConnInv, Sane, QueueInv, Closes, CloseIsLast
<1>2. QED
  BY <1>1, Inductive, PTL

\* No button is held for a client that has been silent, is lost or is gone,
\* when the loop goes to sleep.
THEOREM ButtonsJustified == Spec => []InputJustified
<1>1. ConnInv => InputJustified
  BY DEF ConnInv, Button, InputJustified
<1>2. QED
  BY <1>1, Inductive, PTL

\* What leaves is in order: acknowledgements increase and answer heartbeats
\* that arrived, audio packets keep the order they were drawn in.
THEOREM InOrder == Spec => SentInOrder
<1> DEFINE Good == FlushFirst =>
                     /\ (c.out.kind = "ack"
                           => wire.acked < c.out.n /\ c.out.n <= c.lastSeq)
                     /\ (c.out.kind = "audio" => wire.played < c.out.n)
<1>1. ConnInv /\ [Next]_vars => [Good]_vars
  BY DEF ConnInv, Sane, QueueInv, Acks, Sound, Unsent, FlushFirst
<1>2. QED
  BY <1>1, Inductive, PTL DEF Spec, SentInOrder

\* The FIFO of audio packets never grows beyond its slots, although packets
\* are queued by the encoder and dropped by age, by room and by a state load.
AudioBounded == Len(c.audio) <= AudioSlots

\* The array of WS_AUDIO_QUEUE_SLOTS entries is never overrun.
THEOREM AudioFits == Spec => []AudioBounded
<1>1. ConnInv => AudioBounded
  BY DEF ConnInv, Sane, QueueInv, Sound, AudioBounded
<1>2. QED
  BY <1>1, Inductive, PTL

\* ping_queued is the truth about a living connection: it is set exactly
\* while a Ping waits to be sent, and never do two of them wait.  (A mark
\* left behind would stop the pings, and with them the detection of a lost
\* peer.)
PingMarkTrue ==
    ~c.dead => /\ c.pingQueued <=> Unsent(c, {"ping"}) \/ PingControl(c)
               /\ ~(Unsent(c, {"ping"}) /\ PingControl(c))

\* Promotion, displacement by a Pong, preemption by a Close and the first
\* write each settle ping_queued.
THEOREM PingMarkKept == Spec => []PingMarkTrue
<1>1. ConnInv => PingMarkTrue
  BY DEF ConnInv, Sane, QueueInv, Pings, PingMarkTrue
<1>2. QED
  BY <1>1, Inductive, PTL

\* A frame waits only while another one is being sent: since POLLOUT is asked
\* for only when a frame is active, anything waiting behind an idle socket
\* would never leave.
THEOREM NothingStranded == Spec => []Flowing(c)
<1>1. ConnInv => Flowing(c)
  BY DEF ConnInv, Sane
<1>2. QED
  BY <1>1, Inductive, PTL

=============================================================================
