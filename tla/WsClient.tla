------------------------------ MODULE WsClient ------------------------------
(***************************************************************************)
(* One WebSocket connection of nesd, from the upgrade to its destruction   *)
(* (http.c: websocket_queue, websocket_queue_heartbeat, _video, _audio,    *)
(* websocket_promote_next, websocket_flush, websocket_process, the leases  *)
(* and deadlines of http_serve, recompute_inputs).  Frames share one       *)
(* socket: one frame is active and must finish before another begins;      *)
(* behind it wait one control frame, one heartbeat acknowledgement, one    *)
(* status, a short FIFO of audio packets and one picture.                  *)
(*                                                                         *)
(* c is the struct client.  The queue functions are operators on it, with  *)
(* a set of results where the age of queued media decides.  A frame is its *)
(* kind and a number: the heartbeat sequence, the ping payload, the place  *)
(* of an audio packet in the stream.  The clock is abstracted to marks     *)
(* that a timer has run out; one action is one handler of the event loop.  *)
(***************************************************************************)
EXTENDS Naturals, Sequences, SequencesExt

CONSTANTS
    None,           \* no frame
    AudioSlots,     \* WS_AUDIO_QUEUE_SLOTS
    AudioLimit,     \* WS_AUDIO_QUEUE_MAX_DURATION_US, in packets of 40 ms
    Durations,      \* durations of audio packets, in the same unit
    MaxSeq,         \* bound: heartbeat sequence numbers
    MaxPings,       \* bound: pings queued by the server
    MaxAudio,       \* bound: audio packets
    MaxEvents       \* bound: other messages and commands

ASSUME ClientAssumption ==
    /\ AudioSlots \in Nat \ {0} /\ AudioLimit \in Nat \ {0}
    /\ Durations \subseteq Nat \ {0}
    /\ {MaxSeq, MaxPings, MaxAudio, MaxEvents} \subseteq Nat

VARIABLES
    c,              \* struct client
    hostJoy,        \* is a button of the console held down?
    net,            \* where the pass of http_serve is
    wire,           \* history: what has left the socket
    events          \* messages and commands so far

vars == <<c, hostJoy, net, wire, events>>

Frame(k, n) == [kind |-> k, n |-> n]
Kinds  == {"close", "ping", "pong", "ack", "status", "audio", "video"}
Numbers == 0..MaxSeq \cup 0..MaxPings \cup 0..MaxAudio
Frames == [kind : Kinds, n : Numbers]

ASSUME NoneAssumption == None \notin Frames

Packets == [n : 1..MaxAudio, duration : Durations]

Clients ==
    [out : Frames \cup {None},          \* the active frame
     begun : BOOLEAN,                   \* out_off > 0
     outOld : BOOLEAN,                  \* it made no progress for too long
     control : Frames \cup {None}, heartbeat : Frames \cup {None},
     status : BOOLEAN, audio : Seq(Packets), video : BOOLEAN,
     pingQueued : BOOLEAN, pingOutstanding : BOOLEAN, pongLate : BOOLEAN,
     payload : 0..MaxPings,             \* ping_payload
     closing : BOOLEAN, closeSent : BOOLEAN, closeReceived : BOOLEAN,
     closeLate : BOOLEAN, dead : BOOLEAN,
     jammed : BOOLEAN,                  \* a malformed frame heads ws_in
     joy : BOOLEAN, lastSeq : 0..MaxSeq,
     lease : BOOLEAN,                   \* application_heartbeat_required
     silent : 0..2,                     \* age of last_input_ms, in leases
     idle : BOOLEAN]                    \* last_rx_ms is too old

\* websocket_handshake
Fresh ==
    [out |-> None, begun |-> FALSE, outOld |-> FALSE,
     control |-> None, heartbeat |-> None, status |-> FALSE, audio |-> <<>>,
     video |-> FALSE, pingQueued |-> FALSE, pingOutstanding |-> FALSE,
     pongLate |-> FALSE, payload |-> 0, closing |-> FALSE,
     closeSent |-> FALSE, closeReceived |-> FALSE, closeLate |-> FALSE,
     dead |-> FALSE, jammed |-> FALSE, joy |-> FALSE, lastSeq |-> 0,
     lease |-> FALSE, silent |-> 0, idle |-> FALSE]

-----------------------------------------------------------------------------
(* The output queue *)

Activate(d, f) == [d EXCEPT !.out = f, !.begun = FALSE, !.outOld = FALSE]
ClearActive(d) == Activate(d, None)

Unsent(d, kinds) == d.out # None /\ ~d.begun /\ d.out.kind \in kinds

Total(packets) == FoldSeq(LAMBDA p, sum : p.duration + sum, 0, packets)

\* websocket_promote_next: audio too old to play is dropped from the front.
Promote(d) ==
    IF d.out # None THEN {d}
    ELSE IF d.control # None
      THEN {Activate([d EXCEPT !.control = None], d.control)}
    ELSE IF d.heartbeat # None
      THEN {Activate([d EXCEPT !.heartbeat = None], d.heartbeat)}
    ELSE IF d.status
      THEN {Activate([d EXCEPT !.status = FALSE], Frame("status", 0))}
    ELSE {Activate([d EXCEPT !.audio = SubSeq(d.audio, i + 1, Len(d.audio))],
                   Frame("audio", d.audio[i].n)) : i \in 1..Len(d.audio)}
         \cup LET quiet == [d EXCEPT !.audio = <<>>, !.video = FALSE] IN
              {quiet} \cup IF d.video THEN {Activate(quiet, Frame("video", 0))}
                                      ELSE {}

\* websocket_expire_stale_media
Stale(d) ==
    LET Late(v) == {[d EXCEPT !.audio = SubSeq(d.audio, i, Len(d.audio)),
                              !.video = v] : i \in 1..(Len(d.audio) + 1)}
        kept == Late(d.video) \cup Late(FALSE)
    IN kept \cup IF Unsent(d, {"audio", "video"})
                   THEN UNION {Promote(ClearActive(k)) : k \in kept}
                   ELSE {}

\* Fault: a waiting acknowledgement survives the Close.
PreemptMedia(d) ==
    LET bare == [d EXCEPT !.audio = <<>>, !.video = FALSE, !.status = FALSE,
                          !.control = None, !.pingQueued = FALSE]
    IN IF d.out # None /\ ~d.begun THEN ClearActive(bare) ELSE bare

\* The beginning of websocket_queue for a Close.
Preempt(d) ==
    LET bare == [d EXCEPT !.audio = <<>>, !.video = FALSE, !.status = FALSE,
                          !.heartbeat = None, !.control = None,
                          !.pingQueued = @ /\ (d.control = None
                                                \/ d.control.kind # "ping")]
    IN IF d.out # None /\ ~d.begun
         THEN ClearActive([bare EXCEPT !.pingQueued =
                                          @ /\ d.out.kind # "ping"])
         ELSE bare

\* websocket_queue for a control frame.  A Pong may displace a waiting frame.
Enqueue(d, f) ==
    IF d.out = None
      THEN [Activate(d, f) EXCEPT !.pingQueued = @ \/ f.kind = "ping"]
    ELSE IF d.control = None \/ f.kind = "pong"
      THEN [d EXCEPT !.control = f,
                     !.pingQueued = \/ f.kind = "ping"
                                    \/ @ /\ (d.control = None
                                              \/ d.control.kind # "ping")]
    ELSE d

\* websocket_queue for a status: the latest one wins.
QueueStatus(d) ==
    IF d.out = None THEN Activate(d, Frame("status", 0))
                    ELSE [d EXCEPT !.status = TRUE]

\* Fault: no acknowledgement while the link is busy.
QueueHeartbeatIfIdle(d, s) ==
    IF d.out = None THEN Activate(d, Frame("ack", s)) ELSE d

\* websocket_queue_heartbeat: an older unsent acknowledgement never follows.
QueueHeartbeat(d, s) ==
    LET bare == IF Unsent(d, {"ack"})
                  THEN ClearActive([d EXCEPT !.heartbeat = None]) ELSE d
    IN IF bare.out = None
         THEN Activate([bare EXCEPT !.heartbeat = None], Frame("ack", s))
         ELSE [bare EXCEPT !.heartbeat = Frame("ack", s)]

\* websocket_queue_audio: whole packets are dropped, the oldest first and no
\* more than it takes.
QueueAudio(d, p) ==
    IF p.duration > AudioLimit THEN {d}
    ELSE IF d.out = None THEN {Activate(d, Frame("audio", p.n))}
    ELSE LET Room(i) == /\ Len(d.audio) - i < AudioSlots
                        /\ Total(SubSeq(d.audio, i + 1, Len(d.audio)))
                             <= AudioLimit - p.duration
         IN {[d EXCEPT !.audio =
                 Append(SubSeq(d.audio, drop + 1, Len(d.audio)), p)] :
               drop \in {i \in 0..Len(d.audio) :
                           Room(i) /\ \A j \in 0..(i - 1) : ~Room(j)}}

\* websocket_queue_video
QueueVideo(d) ==
    IF d.out = None THEN Activate(d, Frame("video", 0))
    ELSE IF d.out.kind = "video" \/ d.video THEN d
    ELSE [d EXCEPT !.video = TRUE]

\* websocket_close
Close(d) ==
    IF d.closing THEN d
    ELSE Enqueue(Preempt([d EXCEPT !.closing = TRUE]), Frame("close", 0))

\* websocket_protocol_error
ProtocolError(d) == IF d.closing THEN [d EXCEPT !.dead = TRUE] ELSE Close(d)

\* websocket_receive_close
ReceiveClose(d) == Close([d EXCEPT !.closeReceived = TRUE])

Live(d) == ~d.dead /\ ~d.closing

\* recompute_inputs with this client as the only viewer
Contribution(d) == Live(d) /\ d.joy

-----------------------------------------------------------------------------
(* One pass of http_serve *)

\* Fault: the lease ends and the console is not told.
ExpireInputQuietly ==
    /\ net = "lease"
    /\ net' = "top"
    /\ c' = IF Live(c) /\ c.silent >= 1 THEN [c EXCEPT !.joy = FALSE] ELSE c
    /\ UNCHANGED <<hostJoy, wire, events>>

\* expire_input_leases and the recompute_inputs after it
ExpireInput ==
    /\ net = "lease"
    /\ net' = "top"
    /\ IF Live(c) /\ c.joy /\ c.silent >= 1
         THEN c' = [c EXCEPT !.joy = FALSE] /\ hostJoy' = FALSE
         ELSE UNCHANGED <<c, hostJoy>>
    /\ UNCHANGED <<wire, events>>

LeaseOver(d) ==
    \/ d.lease /\ d.silent = 2
    \/ d.idle
    \/ d.pingOutstanding /\ d.pongLate

\* A ping falls due at any time the last one is settled.
PingDue(d) ==
    LET next == [d EXCEPT !.payload = @ + 1, !.pongLate = FALSE]
    IN IF Live(d) /\ ~d.pingQueued /\ ~d.pingOutstanding
            /\ d.payload < MaxPings
         THEN {d, Enqueue(next, Frame("ping", next.payload))}
         ELSE {d}

\* Fault: the answer to a Close is waited for without a limit.
EndedByPeer(d) ==
    \/ d.out # None /\ d.outOld
    \/ d.closing /\ d.closeSent /\ d.closeReceived

Ended(d) ==
    \/ d.out # None /\ d.outOld
    \/ d.closing /\ d.closeSent /\ (d.closeReceived \/ d.closeLate)

\* Deadlines of the connection, before poll.
Top ==
    /\ net = "top"
    /\ \E d \in Stale(c) :
         \E e \in PingDue(IF LeaseOver(d) THEN Close(d) ELSE d) :
           c' = [e EXCEPT !.dead = Ended(e)]
    /\ net' = "poll"
    /\ UNCHANGED <<hostJoy, wire, events>>

Poll ==
    /\ net = "poll"
    /\ net' = IF c.dead THEN "recompute" ELSE "read"
    /\ UNCHANGED <<c, hostJoy, wire, events>>

\* Everything a message of the peer starts from (read_websocket).
heard == [c EXCEPT !.idle = FALSE]

Receiving == net = "read" /\ ~c.dead /\ events < MaxEvents

Received(d) ==
    /\ c' = d
    /\ events' = events + 1
    /\ UNCHANGED <<net, wire>>

\* While a malformed frame heads the buffer, whatever follows is never seen.
Parsed(handled) == Received(IF c.jammed THEN ProtocolError(heard) ELSE handled)

ReceiveHello ==
    /\ Receiving
    /\ Parsed(IF c.closing THEN heard ELSE
               QueueStatus([heard EXCEPT !.lease = TRUE, !.silent = 0]))
    /\ UNCHANGED hostJoy

\* apply_input_json; it recomputes the masks of the console.
ReceiveInput ==
    /\ Receiving
    /\ \E pressed \in BOOLEAN :
         /\ Parsed(IF c.closing THEN heard
                   ELSE [heard EXCEPT !.joy = pressed, !.silent = 0])
         /\ hostJoy' = IF c.jammed \/ c.closing THEN hostJoy ELSE pressed

\* Fault: a repeated sequence number is acknowledged again.
ReceiveHeartbeatTwice ==
    /\ Receiving
    /\ \E s \in 1..MaxSeq, pressed \in BOOLEAN :
         /\ Parsed(IF c.closing THEN heard
                   ELSE IF s < c.lastSeq THEN Close(heard)
                   ELSE QueueHeartbeat([heard EXCEPT !.joy = pressed,
                                            !.silent = 0, !.lastSeq = s], s))
         /\ hostJoy' = IF c.jammed \/ c.closing \/ s < c.lastSeq
                         THEN hostJoy ELSE pressed

\* Only a sequence number above the last one is acknowledged.
ReceiveHeartbeat ==
    /\ Receiving
    /\ \E s \in 1..MaxSeq, pressed \in BOOLEAN :
         /\ Parsed(IF c.closing THEN heard
                   ELSE IF s <= c.lastSeq THEN Close(heard)
                   ELSE QueueHeartbeat([heard EXCEPT !.joy = pressed,
                                            !.silent = 0, !.lastSeq = s], s))
         /\ hostJoy' = IF c.jammed \/ c.closing \/ s <= c.lastSeq
                         THEN hostJoy ELSE pressed

ReceivePing ==
    /\ Receiving
    /\ Parsed(IF c.closing THEN heard ELSE Enqueue(heard, Frame("pong", 0)))
    /\ UNCHANGED hostJoy

\* A peer can only send back a payload it has seen.
ReceivePong ==
    /\ Receiving
    /\ \E n \in 0..wire.pinged :
         Parsed(IF ~c.closing /\ c.pingOutstanding /\ n = c.payload
                  THEN [heard EXCEPT !.pingOutstanding = FALSE] ELSE heard)
    /\ UNCHANGED hostJoy

ReceiveCloseFrame ==
    /\ Receiving
    /\ Parsed(ReceiveClose(heard))
    /\ UNCHANGED hostJoy

\* Binary data, a bad message or a bad fragment; the frame is consumed.
ReceiveRefused ==
    /\ Receiving
    /\ Parsed(Close(heard))
    /\ UNCHANGED hostJoy

\* A bad header is not consumed.
ReceiveMalformed ==
    /\ Receiving
    /\ Parsed([ProtocolError(heard) EXCEPT !.jammed = TRUE])
    /\ UNCHANGED hostJoy

ReceiveEnd ==
    /\ Receiving
    /\ Received([c EXCEPT !.dead = TRUE])
    /\ UNCHANGED hostJoy

ReadDone ==
    /\ net = "read"
    /\ net' = "flush"
    /\ UNCHANGED <<c, hostJoy, wire, events>>

\* websocket_flush: send accepts the first or the remaining bytes.
Sent(d) ==
    IF d.out.kind = "close"
      THEN {[ClearActive(d) EXCEPT !.closeSent = TRUE, !.closeLate = FALSE]}
      ELSE Promote(ClearActive(d))

Begin(d) ==
    IF d.out.kind = "ping" /\ d.pingQueued
      THEN [d EXCEPT !.begun = TRUE, !.pingQueued = FALSE,
                     !.pingOutstanding = TRUE, !.pongLate = FALSE]
      ELSE [d EXCEPT !.begun = TRUE]

Record(f) ==
    [wire EXCEPT !.acked = IF f.kind = "ack" THEN f.n ELSE @,
                 !.played = IF f.kind = "audio" THEN f.n ELSE @,
                 !.pinged = IF f.kind = "ping" THEN f.n ELSE @,
                 !.closed = @ \/ f.kind = "close"]

FlushFirst ==
    /\ net = "flush" /\ ~c.dead
    /\ c.out # None /\ ~c.begun
    /\ c' = Begin(c)
    /\ wire' = Record(c.out)
    /\ UNCHANGED <<hostJoy, net, events>>

FlushRest ==
    /\ net = "flush" /\ ~c.dead
    /\ c.out # None /\ c.begun
    /\ c' \in Sent(c)
    /\ UNCHANGED <<hostJoy, net, wire, events>>

FlushError ==
    /\ net = "flush" /\ ~c.dead /\ events < MaxEvents
    /\ c' = [ClearActive(c) EXCEPT !.dead = TRUE]
    /\ events' = events + 1
    /\ UNCHANGED <<hostJoy, net, wire>>

FlushDone ==
    /\ net = "flush"
    /\ net' = "others"
    /\ UNCHANGED <<c, hostJoy, wire, events>>

\* A command of another connection ends with broadcast_status; a state or
\* ROM load first discards media and input
\* (websocket_discard_state_transition).
Transition(d) ==
    LET bare == [d EXCEPT !.joy = FALSE, !.audio = <<>>, !.video = FALSE,
                          !.status = FALSE]
    IN Promote(IF Unsent(d, {"audio", "video"}) THEN ClearActive(bare)
                                                ELSE bare)

Command ==
    /\ net \in {"read", "others"} /\ events < MaxEvents
    /\ events' = events + 1
    /\ \/ /\ c' = IF Live(c) THEN QueueStatus(c) ELSE c
          /\ UNCHANGED hostJoy
       \/ \E d \in IF Live(c) THEN Transition(c) ELSE {c} :
            /\ c' = IF Live(d) THEN QueueStatus(d) ELSE d
            /\ hostJoy' = Contribution(d)
    /\ UNCHANGED <<net, wire>>

OthersDone ==
    /\ net = "others"
    /\ net' = "recompute"
    /\ UNCHANGED <<c, hostJoy, wire, events>>

RecomputeInputs ==
    /\ net = "recompute"
    /\ hostJoy' = Contribution(c)
    /\ net' = IF c.dead THEN "gone" ELSE "broadcast"
    /\ UNCHANGED <<c, wire, events>>

\* broadcast_av
Broadcast ==
    /\ net = "broadcast"
    /\ \E d \in IF Live(c) /\ wire.drawn < MaxAudio
                  THEN {c} \cup UNION {QueueAudio(c, [n |-> wire.drawn + 1,
                                                       duration |-> k]) :
                                         k \in Durations}
                  ELSE {c} :
         /\ wire' = [wire EXCEPT !.drawn = IF d = c THEN @ ELSE @ + 1]
         /\ c' \in IF Live(d) THEN {d, QueueVideo(d)} ELSE {d}
    /\ net' = "lease"
    /\ UNCHANGED <<hostJoy, events>>

-----------------------------------------------------------------------------
(* Time: the clock is read once, at the beginning of a pass *)

AgeOutput ==
    /\ net = "lease" /\ c.out # None /\ ~c.outOld
    /\ c' = [c EXCEPT !.outOld = TRUE]
    /\ UNCHANGED <<hostJoy, net, wire, events>>

AgeInput ==
    /\ net = "lease" /\ c.silent < 2
    /\ c' = [c EXCEPT !.silent = @ + 1]
    /\ UNCHANGED <<hostJoy, net, wire, events>>

AgePeer ==
    /\ net = "lease"
    /\ \/ ~c.idle /\ c' = [c EXCEPT !.idle = TRUE]
       \/ /\ c.pingOutstanding /\ ~c.pongLate
          /\ c' = [c EXCEPT !.pongLate = TRUE]
    /\ UNCHANGED <<hostJoy, net, wire, events>>

AgeClose ==
    /\ net = "lease" /\ c.closeSent /\ ~c.closeLate
    /\ c' = [c EXCEPT !.closeLate = TRUE]
    /\ UNCHANGED <<hostJoy, net, wire, events>>

-----------------------------------------------------------------------------

Init ==
    /\ c = Fresh
    /\ hostJoy = FALSE
    /\ net = "lease"
    /\ wire = [acked |-> 0, played |-> 0, pinged |-> 0, drawn |-> 0,
               closed |-> FALSE]
    /\ events = 0

Receive == ReceiveHello \/ ReceiveInput \/ ReceiveHeartbeat \/ ReceivePing
              \/ ReceivePong \/ ReceiveCloseFrame \/ ReceiveRefused
              \/ ReceiveMalformed \/ ReceiveEnd

Flush == FlushFirst \/ FlushRest

Loop == ExpireInput \/ Top \/ Poll \/ ReadDone \/ FlushDone \/ OthersDone
           \/ RecomputeInputs \/ Broadcast

Time == AgeInput \/ AgeOutput \/ AgePeer \/ AgeClose

Gone == net = "gone" /\ UNCHANGED vars

Next == Loop \/ Receive \/ Flush \/ FlushError \/ Command \/ Time \/ Gone

\* The loop keeps running and time passes.
Fairness ==
    /\ WF_vars(Loop)
    /\ SF_vars(AgeInput)
    /\ SF_vars(AgeOutput)
    /\ SF_vars(AgeClose)

Spec == Init /\ [][Next]_vars /\ Fairness

-----------------------------------------------------------------------------
(* Properties *)

\* The queues, the active frame and the marks of the timers hold values of
\* their kind.
TypeOK ==
    /\ c \in Clients
    /\ hostJoy \in BOOLEAN
    /\ net \in {"lease", "top", "poll", "read", "flush", "others",
                "recompute", "broadcast", "gone"}
    /\ wire \in [acked : 0..MaxSeq, played : 0..MaxAudio,
                 pinged : 0..MaxPings, drawn : 0..MaxAudio,
                 closed : BOOLEAN]
    /\ events \in 0..MaxEvents

\* Once the Close frame has begun to leave, nothing is behind it: no frame
\* queued before, at the same time or later can follow it on the socket.
CloseIsLast ==
    wire.closed =>
        /\ c.closing
        /\ c.out = None \/ c.out.kind = "close"
        /\ c.control = None /\ c.heartbeat = None /\ ~c.status
        /\ c.audio = <<>> /\ ~c.video

\* Acknowledgements leave in increasing order, and only for heartbeats that
\* arrived; audio packets are never reordered or repeated.
SentInOrder ==
    [][FlushFirst =>
         /\ (c.out.kind = "ack"
               => wire.acked < c.out.n /\ c.out.n <= c.lastSeq)
         /\ (c.out.kind = "audio" => wire.played < c.out.n)]_vars

\* The console holds a button for a client only while the last message of
\* that client is younger than the lease: whenever the loop goes to sleep, on
\* every way a connection can end, and for ever after it is gone.  (A
\* connection found dead or closing before poll may keep its button for that
\* one sleep; RecomputeInputs then releases it.)
InputJustified ==
    hostJoy /\ net \in {"poll", "gone"} =>
        net = "poll" /\ c.joy /\ c.silent = 0

\* A connection that is being closed is destroyed, whether or not the peer
\* reads or answers.
ClosingEnds == c.closing ~> net = "gone"

\* The last heartbeat is acknowledged, however much media and status traffic
\* is queued, if the peer reads (its socket is found writable again and
\* again): or else the connection ends.
HeartbeatAcked ==
    SF_vars(FlushFirst) /\ SF_vars(FlushRest) =>
        \A s \in 1..MaxSeq :
            c.lastSeq = s ~> wire.acked >= s \/ c.closing \/ c.dead

=============================================================================
