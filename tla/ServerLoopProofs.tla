-------------------------- MODULE ServerLoopProofs --------------------------
(***************************************************************************)
(* Proofs about the client table, for every number of slots: at most one   *)
(* connection watches and at most one uploads, and the daemon does not     *)
(* exit under anybody it serves.  That slots are freed is liveness and     *)
(* stays with TLC; what it rests on is proved: a client only moves on.     *)
(***************************************************************************)
EXTENDS ServerLoop, FiniteSetTheorems, TLAPS

\* What websocket_client_count and active_upload_count count.
Watching(c)  == conn[c].phase = "ws" /\ ~conn[c].dead /\ ~conn[c].closing
Uploading(c) == conn[c].phase = "upload" /\ ~conn[c].dead

\* Nobody upgrades while somebody watches: the second viewer gets a 409.
OneViewer == \A c, e \in Slots : Watching(c) /\ Watching(e) => c = e

\* Nor does a second upload of this daemon begin.
OneUpload == \A c, e \in Slots : Uploading(c) /\ Uploading(e) => c = e

\* The idle clock has run out only for a daemon that was not used since.
QuietMeansUnused ==
    LongIdle /\ Serving /\ quiet =>
        ~gameLoaded /\ \A c \in Slots : conn[c].phase = "free"

ServerInv == TypeOK /\ OneViewer /\ OneUpload /\ QuietMeansUnused

-----------------------------------------------------------------------------
(* Handlers and deadlines of one slot *)

LEMMA Counts ==
    /\ WebsocketClientCount = 0 => \A c \in Slots : ~Watching(c)
    /\ ActiveUploadCount = 0 => \A c \in Slots : ~Uploading(c)
<1> DEFINE W == {c \in Slots : Watching(c)}
           U == {c \in Slots : Uploading(c)}
<1>1. IsFiniteSet(W) /\ IsFiniteSet(U)
  BY ServerAssumption, FS_Subset
<1>2. (Cardinality(W) = 0 => W = {}) /\ (Cardinality(U) = 0 => U = {})
  BY <1>1, FS_EmptySet
<1>3. WebsocketClientCount = Cardinality(W) /\ ActiveUploadCount = Cardinality(U)
  BY DEF WebsocketClientCount, ActiveUploadCount, Watching, Uploading
<1>4. QED
  BY <1>2, <1>3

\* A record that has the marks of a client is one.
LEMMA FreeTyped == Free \in Clients /\ Free.phase = "free"
BY DEF Free, Clients

LEMMA ExpiredFacts ==
    ASSUME NEW k \in Clients
    PROVE  /\ Expired(k) \in Clients
           /\ Expired(k).phase = "ws" /\ ~Expired(k).dead /\ ~Expired(k).closing
                => k.phase = "ws" /\ ~k.dead /\ ~k.closing
           /\ Expired(k).phase = "upload" /\ ~Expired(k).dead
                => k.phase = "upload" /\ ~k.dead
           /\ k.phase = "free" => Expired(k) = k
BY DEF Expired, GivenUp, TimedOut, Discarding, Clients

\* A step of one slot that makes it neither a viewer nor an upload.
LEMMA OneSlot ==
    ASSUME ServerInv, NEW c \in Slots, NEW k \in Clients, Become(c, k),
           k.phase = "ws" /\ ~k.dead /\ ~k.closing
             => Watching(c) \/ \A e \in Slots : ~Watching(e),
           k.phase = "upload" /\ ~k.dead
             => Uploading(c) \/ \A e \in Slots : ~Uploading(e)
    PROVE  /\ conn' \in [Slots -> Clients] /\ OneViewer' /\ OneUpload'
           /\ \A e \in Slots : conn'[e] = IF e = c THEN k ELSE conn[e]
<1>1. /\ conn \in [Slots -> Clients] /\ conn' = [conn EXCEPT ![c] = k]
  BY DEF ServerInv, TypeOK, Become
<1>2. /\ conn' \in [Slots -> Clients]
      /\ \A e \in Slots : conn'[e] = IF e = c THEN k ELSE conn[e]
  BY <1>1
<1>3. OneViewer'
  BY <1>2 DEF ServerInv, OneViewer, Watching
<1>4. OneUpload'
  BY <1>2 DEF ServerInv, OneUpload, Uploading
<1>5. QED
  BY <1>2, <1>3, <1>4

\* A connection that is being served keeps the daemon awake.
LEMMA Awake ==
    ASSUME ServerInv, LongIdle, Serving, NEW c \in Slots,
           conn[c].phase # "free"
    PROVE  ~quiet
BY DEF ServerInv, QuietMeansUnused

-----------------------------------------------------------------------------
(* Each action keeps the invariant *)

\* A request is being read: whatever becomes of it is one slot's matter, and
\* it may upgrade or upload only if nobody else does.
LEMMA RequestKeeps ==
    ASSUME ServerInv, NEW c \in Slots, StartHttpRequest(c) \/ ReadHttpBody(c)
    PROVE  ServerInv'
<1> DEFINE k == conn[c]
<1>1. /\ Serving /\ k \in Clients /\ k.phase \in {"headers", "body"} /\ ~k.dead
      /\ gameLoaded' \in BOOLEAN /\ quiet' = quiet /\ state' = state
  BY DEF ServerInv, TypeOK, StartHttpRequest, ReadHttpBody, DispatchHttp,
         Reading
<1>2. \E m \in Clients :
        /\ Become(c, m)
        /\ m.phase = "ws" /\ ~m.dead => \A e \in Slots : ~Watching(e)
        /\ m.phase = "upload" /\ ~m.dead => \A e \in Slots : ~Uploading(e)
  <2>1. CASE Answer(c)
    <3> DEFINE m == [k EXCEPT !.out = TRUE, !.outMark = "no", !.dead = TRUE]
    <3>1. m \in Clients /\ m.dead /\ Become(c, m)
      BY <1>1, <2>1 DEF Answer, Clients
    <3>2. QED
      BY <3>1
  <2>2. CASE Become(c, Discarding(k))
    <3>1. Discarding(k) \in Clients /\ Discarding(k).phase = "discard"
      BY <1>1 DEF Discarding, Clients
    <3>2. QED
      BY <2>2, <3>1
  <2>3. CASE WebsocketClientCount = 0
             /\ Become(c, [k EXCEPT !.phase = "ws", !.mark = "no"])
    <3> DEFINE m == [k EXCEPT !.phase = "ws", !.mark = "no"]
    <3>1. m \in Clients /\ m.phase = "ws" /\ Become(c, m)
      BY <1>1, <2>3 DEF Clients
    <3>2. QED
      BY <2>3, <3>1, Counts
  <2>4. CASE Die(c)
    <3> DEFINE m == [k EXCEPT !.dead = TRUE]
    <3>1. m \in Clients /\ m.dead /\ Become(c, m)
      BY <1>1, <2>4 DEF Die, Clients
    <3>2. QED
      BY <3>1
  <2>5. CASE Become(c, [k EXCEPT !.phase = "body", !.mark = "no"])
    <3> DEFINE m == [k EXCEPT !.phase = "body", !.mark = "no"]
    <3>1. m \in Clients /\ m.phase = "body" /\ Become(c, m)
      BY <1>1, <2>5 DEF Clients
    <3>2. QED
      BY <3>1
  <2>6. CASE ActiveUploadCount = 0
             /\ Become(c, [k EXCEPT !.phase = "upload", !.mark = "no"])
    <3> DEFINE m == [k EXCEPT !.phase = "upload", !.mark = "no"]
    <3>1. m \in Clients /\ m.phase = "upload" /\ Become(c, m)
      BY <1>1, <2>6 DEF Clients
    <3>2. QED
      BY <2>6, <3>1, Counts
  <2>7. QED
    BY <2>1, <2>2, <2>3, <2>4, <2>5, <2>6
       DEF StartHttpRequest, ReadHttpBody, DispatchHttp, Reject, Upgrade
<1>3. conn' \in [Slots -> Clients] /\ OneViewer' /\ OneUpload'
  BY <1>2, OneSlot
<1>4. LongIdle => ~quiet
  BY <1>1, Awake
<1>5. QED
  BY <1>1, <1>3, <1>4
     DEF ServerInv, TypeOK, QuietMeansUnused, Serving

\* The other handlers and the clock move one slot on; nothing in them makes
\* a viewer or an upload of a client that was none.
LEMMA ClientKeeps ==
    ASSUME ServerInv, NEW c \in Slots,
           \/ ReadUpload(c) \/ ReadHttpDiscard(c) \/ ReadWebsocket(c)
           \/ PeerGone(c) \/ Flush(c) \/ Time(c)
    PROVE  ServerInv'
<1> DEFINE k == conn[c]
           Alike(m) == m.phase = k.phase /\ m.dead = k.dead
                         /\ m.closing = k.closing
<1>1. k \in Clients /\ Kept /\ Serving
  BY DEF ServerInv, TypeOK, ReadUpload, ReadHttpDiscard, ReadWebsocket, Reading,
         PeerGone, Flush, Time, Late, Inactive, Stalled, Old
<1> DEFINE Moved == \E m \in Clients :
                      /\ Become(c, m)
                      /\ m.phase = k.phase \/ m.phase = "discard" \/ m.dead
                      /\ k.phase = "free" => m.phase = "free"
                      /\ m.dead \/ ~k.dead
                      /\ m.closing \/ ~k.closing
<1>2. Moved
  <2>1. CASE ReadUpload(c)
    <3>1. CASE Become(c, [k EXCEPT !.mark = MarkAfterRead(@)])
      <4> DEFINE x == MarkAfterRead(k.mark)
                 m == [k EXCEPT !.mark = x]
      <4>1. x \in {"no", "late"} /\ Become(c, m)
        BY <3>1 DEF MarkAfterRead
      <4> HIDE DEF x
      <4>2. m \in Clients /\ m.phase = k.phase /\ m.dead = k.dead
            /\ m.closing = k.closing
        BY <1>1, <4>1 DEF Clients
      <4>3. QED
        BY <4>1, <4>2
    <3>2. CASE Answer(c)
      <4> DEFINE m == [k EXCEPT !.out = TRUE, !.outMark = "no", !.dead = TRUE]
      <4>1. m \in Clients /\ m.dead /\ m.phase = k.phase
            /\ m.closing = k.closing /\ Become(c, m)
        BY <1>1, <3>2 DEF Answer, Clients
      <4>2. QED
        BY <4>1
    <3>3. CASE Become(c, Discarding(k))
      <4>1. /\ Discarding(k) \in Clients /\ Discarding(k).phase = "discard"
            /\ Discarding(k).dead = k.dead /\ Discarding(k).closing = k.closing
        BY <1>1 DEF Discarding, Clients
      <4>2. k.phase # "free"
        BY <2>1 DEF ReadUpload, Reading
      <4>3. QED
        BY <3>3, <4>1, <4>2
    <3>4. QED
      BY <2>1, <3>1, <3>2, <3>3 DEF ReadUpload
  <2>2. CASE ReadHttpDiscard(c) \/ (PeerGone(c) /\ Die(c))
    <3> DEFINE m == [k EXCEPT !.dead = TRUE]
    <3>1. m \in Clients /\ m.dead /\ m.phase = k.phase
          /\ m.closing = k.closing /\ Become(c, m)
      BY <1>1, <2>2 DEF ReadHttpDiscard, Die, Clients
    <3>2. QED
      BY <3>1
  <2>3. CASE ReadWebsocket(c)
    <3>1. CASE Become(c, [k EXCEPT !.mark = IF k.closing THEN @ ELSE "no"])
      <4> DEFINE x == IF k.closing THEN k.mark ELSE "no"
                 m == [k EXCEPT !.mark = x]
      <4>1. x \in {"no", "inactive", "late"} /\ Become(c, m)
        BY <1>1, <3>1 DEF Clients
      <4> HIDE DEF x
      <4>2. m \in Clients /\ m.phase = k.phase /\ m.dead = k.dead
            /\ m.closing = k.closing
        BY <1>1, <4>1 DEF Clients
      <4>3. QED
        BY <4>1, <4>2
    <3>2. CASE Become(c, [k EXCEPT !.closing = TRUE, !.mark = "no"])
      <4> DEFINE m == [k EXCEPT !.closing = TRUE, !.mark = "no"]
      <4>1. m \in Clients /\ m.phase = k.phase /\ m.dead = k.dead
            /\ m.closing /\ Become(c, m)
        BY <1>1, <3>2 DEF Clients
      <4>2. QED
        BY <4>1
    <3>3. QED
      BY <2>3, <3>1, <3>2 DEF ReadWebsocket
  <2>4. CASE Become(c, [k EXCEPT !.dead = TRUE, !.out = FALSE,
                                 !.outMark = "no"])
    <3> DEFINE m == [k EXCEPT !.dead = TRUE, !.out = FALSE, !.outMark = "no"]
    <3>1. m \in Clients /\ m.dead /\ m.phase = k.phase
          /\ m.closing = k.closing /\ Become(c, m)
      BY <1>1, <2>4 DEF Clients
    <3>2. QED
      BY <3>1
  <2>5. CASE \/ Become(c, [k EXCEPT !.out = FALSE, !.outMark = "no"])
             \/ \E x \in {"no", "inactive", "late"} :
                  Become(c, [k EXCEPT !.mark = x])
             \/ \E x \in {"no", "stalled", "old"} :
                  Become(c, [k EXCEPT !.outMark = x])
    <3>1. ASSUME NEW x \in {"no", "inactive", "late"},
                 Become(c, [k EXCEPT !.mark = x])
          PROVE  \E m \in Clients : Become(c, m) /\ Alike(m)
      <4> DEFINE m == [k EXCEPT !.mark = x]
      <4>1. m \in Clients /\ Alike(m) /\ Become(c, m)
        BY <1>1, <3>1 DEF Clients
      <4>2. QED
        BY <4>1
    <3>2. ASSUME NEW x \in {"no", "stalled", "old"},
                 Become(c, [k EXCEPT !.outMark = x])
          PROVE  \E m \in Clients : Become(c, m) /\ Alike(m)
      <4> DEFINE m == [k EXCEPT !.outMark = x]
      <4>1. m \in Clients /\ Alike(m) /\ Become(c, m)
        BY <1>1, <3>2 DEF Clients
      <4>2. QED
        BY <4>1
    <3>3. ASSUME Become(c, [k EXCEPT !.out = FALSE, !.outMark = "no"])
          PROVE  \E m \in Clients : Become(c, m) /\ Alike(m)
      <4> DEFINE m == [k EXCEPT !.out = FALSE, !.outMark = "no"]
      <4>1. m \in Clients /\ Alike(m) /\ Become(c, m)
        BY <1>1, <3>3 DEF Clients
      <4>2. QED
        BY <4>1
    <3>4. \E m \in Clients : Become(c, m) /\ Alike(m)
      BY <2>5, <3>1, <3>2, <3>3
    <3>5. QED
      BY <3>4
  <2>6. CASE Flush(c)
    BY <2>5, <2>6 DEF Flush
  <2>7. CASE Time(c)
    BY <2>5, <2>7 DEF Time, Late, Inactive, Stalled, Old
  <2>8. CASE PeerGone(c)
    BY <2>2, <2>4, <2>8 DEF PeerGone
  <2> HIDE DEF Moved
  <2>9. QED
    BY <2>1, <2>2, <2>3, <2>6, <2>7, <2>8
<1>3. PICK m \in Clients :
        /\ Become(c, m)
        /\ m.phase = k.phase \/ m.phase = "discard" \/ m.dead
        /\ k.phase = "free" => m.phase = "free"
        /\ m.dead \/ ~k.dead
        /\ m.closing \/ ~k.closing
  BY <1>2
<1>4. /\ conn' \in [Slots -> Clients] /\ OneViewer' /\ OneUpload'
      /\ \A e \in Slots : conn'[e] = IF e = c THEN m ELSE conn[e]
  BY <1>3, OneSlot DEF Watching, Uploading
<1>5. QuietMeansUnused'
  BY <1>1, <1>3, <1>4
     DEF ServerInv, QuietMeansUnused, Serving, Kept
<1>6. QED
  BY <1>1, <1>4, <1>5 DEF ServerInv, TypeOK, Kept, Serving

LEMMA AcceptKeeps ==
    ASSUME ServerInv, NEW c \in Slots, Accept(c)
    PROVE  ServerInv'
<1> DEFINE m == [Free EXCEPT !.phase = "headers"]
<1>1. m \in Clients /\ m.phase = "headers" /\ Become(c, m)
  BY DEF Accept, Free, Clients
<1> HIDE DEF m
<1>2. conn' \in [Slots -> Clients] /\ OneViewer' /\ OneUpload'
  BY <1>1, OneSlot
<1>3. QED
  BY <1>2 DEF ServerInv, TypeOK, QuietMeansUnused, Accept

\* The idle limit is longer than an answer may take: when it has passed, no
\* client is left at all.
LEMMA QuietKeeps == ServerInv /\ Quiet => ServerInv'
<1> SUFFICES ASSUME ServerInv, Quiet PROVE ServerInv'
  OBVIOUS
<1>1. conn' = conn /\ gameLoaded' = gameLoaded /\ state' = state /\ quiet'
  BY DEF Quiet
<1>2. LongIdle => ~gameLoaded /\ \A c \in Slots : conn[c].phase = "free"
  BY DEF Quiet, Busy, Done
<1>3. QuietMeansUnused'
  BY <1>1, <1>2 DEF QuietMeansUnused
<1>4. quiet' \in BOOLEAN
  BY DEF Quiet
<1>5. QED
  BY <1>1, <1>3, <1>4
     DEF ServerInv, TypeOK, OneViewer, OneUpload, Watching, Uploading

LEMMA EndPassKeeps == ServerInv /\ EndPass => ServerInv'
<1> SUFFICES ASSUME ServerInv, EndPass PROVE ServerInv'
  OBVIOUS
<1>1. /\ conn' = [c \in Slots |-> IF Done(conn[c]) THEN Free
                                                   ELSE Expired(conn[c])]
      /\ quiet' = (quiet /\ ~Busy) /\ gameLoaded' = gameLoaded
      /\ state' = state
  BY DEF EndPass
<1>2. \A c \in Slots : conn[c] \in Clients
  BY DEF ServerInv, TypeOK
<1>3. \A c \in Slots :
        /\ conn'[c] \in Clients
        /\ Watching(c)' => Watching(c)
        /\ Uploading(c)' => Uploading(c)
        /\ conn[c].phase = "free" => conn'[c].phase = "free"
  <2> SUFFICES ASSUME NEW c \in Slots
               PROVE  /\ conn'[c] \in Clients
                      /\ Watching(c)' => Watching(c)
                      /\ Uploading(c)' => Uploading(c)
                      /\ conn[c].phase = "free" => conn'[c].phase = "free"
    OBVIOUS
  <2>1. CASE Done(conn[c])
    <3>1. conn'[c] = Free
      BY <1>1, <2>1
    <3>2. QED
      BY <3>1, FreeTyped DEF Watching, Uploading
  <2>2. CASE ~Done(conn[c])
    <3>1. conn'[c] = Expired(conn[c])
      BY <1>1, <2>2
    <3>2. QED
      BY <1>2, <3>1, ExpiredFacts DEF Watching, Uploading
  <2>3. QED
    BY <2>1, <2>2
<1>4. conn' \in [Slots -> Clients]
  BY <1>1, <1>3
<1>5. OneViewer' /\ OneUpload'
  BY <1>3 DEF ServerInv, OneViewer, OneUpload
<1>6. QuietMeansUnused'
  BY <1>1, <1>3 DEF ServerInv, QuietMeansUnused, Serving
<1>7. quiet' \in BOOLEAN
  BY <1>1
<1>8. QED
  BY <1>1, <1>4, <1>5, <1>6, <1>7 DEF ServerInv, TypeOK

LEMMA ProcessKeeps ==
    ServerInv /\ (TurnAway \/ IdleExit \/ Stop \/ Restart) => ServerInv'
<1> SUFFICES ASSUME ServerInv, TurnAway \/ IdleExit \/ Stop \/ Restart
             PROVE  ServerInv'
  OBVIOUS
<1>1. CASE TurnAway \/ Restart
  <2>1. conn' = conn /\ quiet' = FALSE
    BY <1>1 DEF TurnAway, Restart
  <2>2. TypeOK' /\ QuietMeansUnused'
    BY <1>1, <2>1
       DEF ServerInv, TypeOK, QuietMeansUnused, TurnAway, Restart
  <2>3. QED
    BY <2>1, <2>2
       DEF ServerInv, OneViewer, OneUpload, Watching, Uploading
<1>2. CASE IdleExit \/ Stop
  <2>1. /\ conn' = [c \in Slots |-> Free] /\ state' # "serving"
        /\ state' \in {"idle-exit", "stopped", "failed"}
        /\ quiet' = quiet /\ gameLoaded' = gameLoaded
    BY <1>2 DEF IdleExit, Stop
  <2>2. TypeOK' /\ QuietMeansUnused'
    BY <2>1, FreeTyped DEF ServerInv, TypeOK, QuietMeansUnused, Serving
  <2>3. OneViewer' /\ OneUpload'
    BY <2>1, FreeTyped DEF OneViewer, OneUpload, Watching, Uploading
  <2>4. QED
    BY <2>2, <2>3 DEF ServerInv
<1>3. QED
  BY <1>1, <1>2

-----------------------------------------------------------------------------
(* The theorems *)

LEMMA ServerInit == Init => ServerInv
<1> SUFFICES ASSUME Init PROVE ServerInv
  OBVIOUS
<1>1. TypeOK /\ QuietMeansUnused
  BY FreeTyped DEF Init, TypeOK, QuietMeansUnused
<1>2. OneViewer /\ OneUpload
  BY FreeTyped DEF Init, OneViewer, OneUpload, Watching, Uploading
<1>3. QED
  BY <1>1, <1>2 DEF ServerInv

LEMMA ServerStep == ServerInv /\ [Next]_vars => ServerInv'
<1> SUFFICES ASSUME ServerInv, [Next]_vars PROVE ServerInv'
  OBVIOUS
<1>1. CASE \E c \in Slots : Peer(c) \/ Time(c)
  BY <1>1, RequestKeeps, ClientKeeps, AcceptKeeps DEF Peer
<1>2. CASE UNCHANGED vars
  BY <1>2 DEF vars, ServerInv, TypeOK, OneViewer, OneUpload, Watching,
              Uploading, QuietMeansUnused, Serving
<1>3. QED
  BY <1>1, <1>2, QuietKeeps, EndPassKeeps, ProcessKeeps DEF Next

\* The table is in order in every reachable state.
THEOREM ServerInvariant == Spec => []ServerInv
BY ServerInit, ServerStep, PTL DEF Spec

\* Slots, idle clock and loop keep their types.
THEOREM ServerTyped == Spec => []TypeOK
<1>1. ServerInv => TypeOK
  BY DEF ServerInv
<1>2. QED
  BY <1>1, ServerInvariant, PTL

\* However requests, deadlines and closes interleave, no two connections
\* watch at the same time.
THEOREM SingleViewer == Spec => []OneViewer
<1>1. ServerInv => OneViewer
  BY DEF ServerInv
<1>2. QED
  BY <1>1, ServerInvariant, PTL

\* Nor do two clients of one daemon upload at the same time.
THEOREM SingleUpload == Spec => []OneUpload
<1>1. ServerInv => OneUpload
  BY DEF ServerInv
<1>2. QED
  BY <1>1, ServerInvariant, PTL

\* If the idle limit exceeds the time an answer may take (the init script's
\* 120 s against HTTP_OUTPUT_MAX_AGE_MS), the daemon never exits for idleness
\* under a connection or a loaded game.
THEOREM ExitsUnused == LongIdle /\ Spec => UnusedWhenIdle
<1> DEFINE Good == state # "idle-exit" /\ state' = "idle-exit" =>
                     ~gameLoaded /\ \A c \in Slots : conn[c].phase = "free"
<1> SUFFICES ASSUME LongIdle PROVE Spec => UnusedWhenIdle
  OBVIOUS
<1>1. ServerInv /\ [Next]_vars => [Good]_vars
  <2> SUFFICES ASSUME ServerInv, [Next]_vars PROVE [Good]_vars
    OBVIOUS
  <2>1. CASE IdleExit
    BY <2>1 DEF IdleExit, ServerInv, QuietMeansUnused
  <2>2. CASE ~IdleExit /\ Next
    <3>1. state' = state \/ state' # "idle-exit"
      BY <2>2 DEF Next, Peer, Time, TurnAway, Quiet, EndPass, Stop, Restart,
         Accept, StartHttpRequest, ReadHttpBody, ReadUpload, ReadHttpDiscard,
         ReadWebsocket, PeerGone, Flush, Late, Inactive, Stalled, Old, Kept
    <3>2. QED
      BY <3>1
  <2>3. CASE UNCHANGED vars
    BY <2>3
  <2>4. QED
    BY <2>1, <2>2, <2>3
<1>2. QED
  BY <1>1, ServerInvariant, PTL DEF Spec, UnusedWhenIdle


-----------------------------------------------------------------------------
(* What SlotFreed rests on: a client only moves on, no peer wins back a     *)
(* fixed deadline, and a pass moves every client on whose deadline is past. *)

\* How far a client is from its slot's next owner.
Stage(k) ==
    IF k.dead THEN (IF k.out THEN 5 ELSE 6)
    ELSE IF k.phase = "headers" THEN 1
    ELSE IF k.phase \in {"body", "upload"} THEN 2
    ELSE IF k.phase = "ws" /\ ~k.closing THEN 3
    ELSE 4

\* The deadlines that no progress of the peer moves
Pressed(k) == ~k.dead /\ k.mark = "late"
Overdue(k) == Pressed(k) \/ Done(k) \/ (k.out /\ k.outMark = "old")

\* From k a client comes to n.
MovesOn(k, n) ==
    \/ n = Free
    \/ Stage(n) > Stage(k)
    \/ /\ Stage(n) = Stage(k)
       /\ Pressed(k) => Pressed(n)
       /\ k.out /\ k.outMark = "old" /\ n.out => n.outMark = "old"

\* Handlers, clock and passes never take a client back: not to an earlier
\* stage, and not to before a fixed deadline of its stage or of its answer.
ClientsMoveOn ==
    [][\A c \in Slots : conn[c].phase # "free" => MovesOn(conn[c], conn'[c])]_vars

\* The deadlines at the beginning of a pass leave no client where it was whose
\* time is up.
PassMovesOn ==
    [][EndPass => \A c \in Slots : conn[c].phase # "free" /\ Overdue(conn[c]) =>
          conn'[c] = Free \/ Stage(conn'[c]) > Stage(conn[c])]_vars

\* Only a closing WebSocket has a fixed deadline.
ViewersUnpressed ==
    \A c \in Slots : conn[c].phase = "ws" /\ ~conn[c].closing => ~Pressed(conn[c])

Answered(k)      == [k EXCEPT !.out = TRUE, !.outMark = "no", !.dead = TRUE]
Entered(k, p)    == [k EXCEPT !.phase = p, !.mark = "no"]
Marked(k, m)     == [k EXCEPT !.mark = m]
OutMarked(k, m)  == [k EXCEPT !.outMark = m]
Dead(k)          == [k EXCEPT !.dead = TRUE]
Flushed(k)       == [k EXCEPT !.out = FALSE, !.outMark = "no"]
Closing(k)       == [k EXCEPT !.closing = TRUE, !.mark = "no"]

\* Every record a handler or the clock may leave of the client k
Outcome(k, n) ==
    \/ n = k
    \/ ~k.dead /\ n = Answered(k)
    \/ n = Dead(k)
    \/ n = GivenUp(k)
    \/ n = Flushed(k)
    \/ ~k.dead /\ k.phase \in {"headers", "upload"} /\ n = Discarding(k)
    \/ ~k.dead /\ k.phase = "headers" /\ \E p \in {"ws", "body", "upload"} : n = Entered(k, p)
    \/ ~k.dead /\ k.phase = "ws" /\ ~k.closing /\ (n = Closing(k) \/ n = Marked(k, "no"))
    \/ k.phase = "upload" /\ k.mark # "late" /\ n = Marked(k, "no")
    \/ k.mark = "no" /\ ~(k.phase = "ws" /\ k.closing) /\ n = Marked(k, "inactive")
    \/ ~(k.phase = "ws" /\ ~k.closing) /\ n = Marked(k, "late")
    \/ k.outMark = "stalled" /\ n = OutMarked(k, "no")
    \/ k.outMark = "no" /\ n = OutMarked(k, "stalled")
    \/ n = OutMarked(k, "old")

LEMMA OutcomesMoveOn ==
    ASSUME NEW k \in Clients, k.phase # "free", NEW n, Outcome(k, n),
           k.phase = "ws" /\ ~k.closing => ~Pressed(k)
    PROVE  MovesOn(k, n)
<1>1. CASE n = k
  BY <1>1 DEF MovesOn, Stage
<1>2. CASE ~k.dead /\ n = Answered(k)
  BY <1>2 DEF MovesOn, Stage, Answered, Clients
<1>3. CASE n = Dead(k)
  BY <1>3 DEF MovesOn, Stage, Dead, Pressed, Clients
<1>4. CASE n = GivenUp(k)
  BY <1>4 DEF MovesOn, Stage, GivenUp, Pressed, Clients
<1>5. CASE n = Flushed(k)
  BY <1>5 DEF MovesOn, Stage, Flushed, Pressed, Clients
<1>6. CASE ~k.dead /\ k.phase \in {"headers", "upload"} /\ n = Discarding(k)
  BY <1>6 DEF MovesOn, Stage, Discarding, Clients
<1>7. ASSUME NEW p \in {"ws", "body", "upload"}, n = Entered(k, p), ~k.dead,
             k.phase = "headers"
      PROVE  MovesOn(k, n)
  BY <1>7 DEF MovesOn, Stage, Entered, Clients
<1>8. CASE ~k.dead /\ k.phase = "ws" /\ ~k.closing
             /\ (n = Closing(k) \/ n = Marked(k, "no"))
  <2>1. CASE n = Closing(k)
    BY <1>8, <2>1 DEF MovesOn, Stage, Closing, Clients
  <2>2. CASE n = Marked(k, "no")
    <3>1. /\ n.phase = k.phase /\ n.dead = k.dead /\ n.closing = k.closing
          /\ n.out = k.out /\ n.outMark = k.outMark
      BY <2>2 DEF Marked, Clients
    <3>. QED BY <1>8, <3>1 DEF MovesOn, Stage, Pressed
  <2>. QED BY <1>8, <2>1, <2>2
<1>9. CASE k.phase = "upload" /\ k.mark # "late" /\ n = Marked(k, "no")
  BY <1>9 DEF MovesOn, Stage, Marked, Pressed, Clients
<1>10. CASE \/ k.mark = "no" /\ n = Marked(k, "inactive")
            \/ n = Marked(k, "late")
  BY <1>10 DEF MovesOn, Stage, Marked, Pressed, Clients
<1>11. CASE \/ k.outMark = "stalled" /\ n = OutMarked(k, "no")
            \/ k.outMark = "no" /\ n = OutMarked(k, "stalled")
            \/ n = OutMarked(k, "old")
  BY <1>11 DEF MovesOn, Stage, OutMarked, Pressed, Clients
<1>. QED
  BY <1>1, <1>2, <1>3, <1>4, <1>5, <1>6, <1>7, <1>8, <1>9, <1>10, <1>11
     DEF Outcome

LEMMA OutcomesUnpressed ==
    ASSUME NEW k \in Clients, k.phase # "free", NEW n, Outcome(k, n),
           k.phase = "ws" /\ ~k.closing => ~Pressed(k)
    PROVE  n.phase = "ws" /\ ~n.closing => ~Pressed(n)
<1>1. CASE \/ n = k \/ n = Answered(k) \/ n = Dead(k) \/ n = GivenUp(k)
           \/ n = Flushed(k) \/ n = Discarding(k)
           \/ \E m \in {"no", "stalled", "old"} : n = OutMarked(k, m)
  BY <1>1 DEF Answered, Dead, GivenUp, Flushed, Discarding, OutMarked, Pressed, Clients
<1>2. CASE \/ \E p \in {"ws", "body", "upload"} : n = Entered(k, p)
           \/ n = Closing(k) \/ n = Marked(k, "no") \/ n = Marked(k, "inactive")
           \/ ~(k.phase = "ws" /\ ~k.closing) /\ n = Marked(k, "late")
  BY <1>2 DEF Entered, Closing, Marked, Pressed, Clients
<1>. QED
  BY <1>1, <1>2 DEF Outcome

\* A pass: an outcome, and one that moves on if a fixed deadline is past.
LEMMA ExpiredMovesOn ==
    ASSUME NEW k \in Clients, k.phase # "free", ~Done(k),
           k.phase = "ws" /\ ~k.closing => ~Pressed(k)
    PROVE  /\ MovesOn(k, Expired(k))
           /\ Expired(k).phase = "ws" /\ ~Expired(k).closing => ~Pressed(Expired(k))
           /\ Overdue(k) => Stage(Expired(k)) > Stage(k)
<1>1. CASE Expired(k) = k /\ ~Overdue(k)
  BY <1>1 DEF MovesOn, Stage
<1>2. CASE k.out /\ k.outMark # "no"
  <2>1. Expired(k) = GivenUp(k)
    BY <1>2 DEF Expired
  <2>2. GivenUp(k).dead /\ ~GivenUp(k).out
    BY DEF GivenUp, Clients
  <2>. QED BY <1>2, <2>1, <2>2 DEF MovesOn, Stage, Pressed, Clients
<1>3. CASE ~(k.out /\ k.outMark # "no") /\ ~k.dead /\ k.mark # "no"
  <2>1. Expired(k) = TimedOut(k)
    BY <1>3 DEF Expired
  <2>2. CASE k.phase = "discard" \/ k.closing
    <3>1. TimedOut(k) = Dead(k) /\ Dead(k).dead
      BY <2>2 DEF TimedOut, Dead, Clients
    <3>. QED BY <1>3, <2>1, <3>1 DEF MovesOn, Stage, Pressed, Clients
  <2>3. CASE k.phase = "ws" /\ ~k.closing
    <3>1. TimedOut(k) = Closing(k)
      BY <2>3 DEF TimedOut, Closing
    <3>2. /\ Closing(k).phase = "ws" /\ Closing(k).closing
          /\ ~Closing(k).dead /\ Closing(k).mark = "no"
      BY <1>3, <2>3 DEF Closing, Clients
    <3>. QED BY <1>3, <2>1, <2>3, <3>1, <3>2 DEF MovesOn, Stage, Pressed
  <2>4. CASE k.phase \in {"headers", "body", "upload"} /\ ~k.closing
    <3>1. TimedOut(k) = Discarding(k)
      BY <2>4 DEF TimedOut
    <3>2. Discarding(k).phase = "discard" /\ ~Discarding(k).dead
      BY <1>3 DEF Discarding, Clients
    <3>. QED BY <1>3, <2>1, <2>4, <3>1, <3>2 DEF MovesOn, Stage, Pressed
  <2>. QED BY <2>2, <2>3, <2>4 DEF Clients
<1>. QED
  BY <1>1, <1>2, <1>3 DEF Expired, Overdue, Pressed

\* What a step makes of the client c
LEMMA ClientSteps ==
    ASSUME ServerInv, ViewersUnpressed, NEW c \in Slots, conn[c].phase # "free", Next
    PROVE  \/ conn'[c] = Free
           \/ Outcome(conn[c], conn'[c])
           \/ EndPass /\ conn'[c] = Expired(conn[c]) /\ ~Done(conn[c])
<1>1. conn \in [Slots -> Clients] /\ conn[c] \in Clients
  BY DEF ServerInv, TypeOK
<1>2. CASE TurnAway \/ Quiet \/ Restart
  BY <1>2 DEF TurnAway, Quiet, Restart, Outcome
<1>3. CASE IdleExit \/ Stop
  BY <1>3 DEF IdleExit, Stop
<1>4. CASE EndPass
  BY <1>4 DEF EndPass
<1>5. ASSUME NEW e \in Slots, Peer(e) \/ Time(e)
      PROVE  \E n : conn' = [conn EXCEPT ![e] = n]
                      /\ (conn[e].phase # "free" => Outcome(conn[e], n))
  <2> DEFINE k == conn[e]
  <2>0. k \in Clients
    BY <1>1
  <2>1. CASE Accept(e)
    BY <2>1 DEF Accept, Become
  <2>2. CASE StartHttpRequest(e) \/ ReadHttpBody(e)
    <3>1. \/ Become(e, Answered(k)) \/ Become(e, Dead(k))
          \/ k.phase = "headers" /\ Become(e, Discarding(k))
          \/ k.phase = "headers" /\ \E p \in {"ws", "body", "upload"} : Become(e, Entered(k, p))
      BY <2>2 DEF StartHttpRequest, ReadHttpBody, DispatchHttp, Reject, Upgrade,
                  Answer, Die, Reading, Answered, Dead, Entered
    <3>2. ~k.dead
      BY <2>2 DEF StartHttpRequest, ReadHttpBody, Reading
    <3>. QED BY <3>1, <3>2 DEF Become, Outcome
  <2>3. CASE ReadUpload(e)
    <3>1. /\ k.phase = "upload" /\ ~k.dead
          /\ \/ Become(e, Marked(k, MarkAfterRead(k.mark)))
             \/ Become(e, Answered(k)) \/ Become(e, Discarding(k))
      BY <2>3 DEF ReadUpload, Reading, Answer, Answered, Marked
    <3>2. CASE Become(e, Marked(k, MarkAfterRead(k.mark)))
      <4>1. CASE k.mark = "late"
        <5>1. Marked(k, MarkAfterRead(k.mark)) = k
          BY <4>1, <2>0 DEF MarkAfterRead, Marked, Clients
        <5>. QED BY <3>2, <5>1 DEF Become, Outcome
      <4>2. CASE k.mark # "late"
        BY <3>1, <3>2, <4>2 DEF MarkAfterRead, Become, Outcome
      <4>. QED BY <4>1, <4>2
    <3>. QED BY <3>1, <3>2 DEF Become, Outcome
  <2>4. CASE ReadHttpDiscard(e)
    BY <2>4 DEF ReadHttpDiscard, Die, Become, Outcome, Dead
  <2>5. CASE ReadWebsocket(e)
    <3>1. /\ k.phase = "ws" /\ ~k.dead
          /\ \/ k.closing /\ Become(e, Marked(k, k.mark))
             \/ ~k.closing /\ (Become(e, Marked(k, "no")) \/ Become(e, Closing(k)))
      BY <2>5 DEF ReadWebsocket, Reading, Marked, Closing
    <3>2. Marked(k, k.mark) = k
      BY <2>0 DEF Marked, Clients
    <3>. QED BY <3>1, <3>2 DEF Become, Outcome
  <2>6. CASE PeerGone(e)
    <3>1. Become(e, Dead(k)) \/ Become(e, GivenUp(k))
      <4>1. [k EXCEPT !.dead = TRUE, !.out = FALSE, !.outMark = "no"] = GivenUp(k)
        BY <2>0 DEF GivenUp, Clients
      <4>. QED BY <2>6, <4>1 DEF PeerGone, Die, Dead
    <3>. QED BY <3>1 DEF Become, Outcome
  <2>7. CASE Flush(e)
    BY <2>7 DEF Flush, Become, Outcome, Flushed, OutMarked
  <2>8. CASE Time(e)
    <3>1. CASE Late(e)
      <4>1. k.phase = "ws" => k.closing
        BY <3>1 DEF Late
      <4>. QED BY <3>1, <4>1 DEF Late, Become, Outcome, Marked
    <3>2. CASE Inactive(e)
      BY <3>2 DEF Inactive, Become, Outcome, Marked
    <3>3. CASE Stalled(e) \/ Old(e)
      BY <3>3 DEF Stalled, Old, Become, Outcome, OutMarked
    <3>. QED BY <2>8, <3>1, <3>2, <3>3 DEF Time
  <2>. QED BY <1>5, <2>1, <2>2, <2>3, <2>4, <2>5, <2>6, <2>7, <2>8 DEF Peer
<1>6. CASE \E e \in Slots : Peer(e) \/ Time(e)
  <2>1. PICK e \in Slots : Peer(e) \/ Time(e)
    BY <1>6
  <2>2. PICK n : conn' = [conn EXCEPT ![e] = n]
                   /\ (conn[e].phase # "free" => Outcome(conn[e], n))
    BY <2>1, <1>5
  <2>3. CASE e = c
    BY <2>2, <2>3, <1>1
  <2>4. CASE e # c
    BY <2>2, <2>4, <1>1 DEF Outcome
  <2>. QED BY <2>3, <2>4
<1>. QED
  BY <1>2, <1>3, <1>4, <1>6 DEF Next

\* A free slot is only accepted into.
LEMMA FreeSlots ==
    ASSUME ServerInv, NEW c \in Slots, conn[c].phase = "free", Next
    PROVE  conn'[c].phase # "ws"
<1>1. conn \in [Slots -> Clients] /\ conn[c] \in Clients
  BY DEF ServerInv, TypeOK
<1>2. CASE \/ TurnAway \/ Quiet \/ Restart \/ IdleExit \/ Stop \/ EndPass
  BY <1>2, FreeTyped DEF TurnAway, Quiet, Restart, IdleExit, Stop, EndPass, Expired
<1>3. ASSUME NEW e \in Slots, Peer(e) \/ Time(e), e # c
      PROVE  conn'[c] = conn[c]
  BY <1>1, <1>3 DEF Peer, Time, Accept, StartHttpRequest, ReadHttpBody, ReadUpload,
       ReadHttpDiscard, ReadWebsocket, PeerGone, Flush, Late, Inactive, Stalled, Old,
       DispatchHttp, Reject, Upgrade, Answer, Die, Become
<1>4. CASE Peer(c)
  <2>1. Accept(c) \/ Flush(c)
    BY <1>4 DEF Peer, StartHttpRequest, ReadHttpBody, ReadUpload, ReadHttpDiscard,
                ReadWebsocket, PeerGone, Reading
  <2>2. CASE Accept(c)
    BY <2>2, <1>1 DEF Accept, Become, Free
  <2>3. CASE Flush(c)
    BY <2>3, <1>1 DEF Flush, Become, Clients
  <2>. QED BY <2>1, <2>2, <2>3
<1>5. CASE Time(c)
  BY <1>1, <1>5 DEF Time, Late, Inactive, Stalled, Old, Become, Clients
<1>. QED
  BY <1>2, <1>3, <1>4, <1>5 DEF Next

LEMMA UnpressedStays ==
    ASSUME ServerInv, ViewersUnpressed, [Next]_vars
    PROVE  ViewersUnpressed'
<1> SUFFICES ASSUME NEW c \in Slots, conn'[c].phase = "ws", ~conn'[c].closing
             PROVE  ~Pressed(conn'[c])
  BY DEF ViewersUnpressed
<1>1. conn[c] \in Clients
  BY DEF ServerInv, TypeOK
<1>2. conn[c].phase = "ws" /\ ~conn[c].closing => ~Pressed(conn[c])
  BY DEF ViewersUnpressed
<1>3. CASE UNCHANGED vars
  BY <1>2, <1>3 DEF vars
<1>4. CASE Next /\ conn[c].phase # "free"
  BY <1>1, <1>2, <1>4, ClientSteps, OutcomesUnpressed, ExpiredMovesOn, FreeTyped
<1>5. CASE Next /\ conn[c].phase = "free"
  BY <1>5, FreeSlots
<1>. QED BY <1>3, <1>4, <1>5

LEMMA UnpressedHolds == Spec => [](ServerInv /\ ViewersUnpressed)
<1>1. Init => ViewersUnpressed
  BY DEF Init, ViewersUnpressed, Free
<1>2. ServerInv /\ ViewersUnpressed /\ [Next]_vars => ViewersUnpressed'
  BY UnpressedStays
<1>. QED BY <1>1, <1>2, ServerInit, ServerStep, PTL DEF Spec

\* Whatever a peer sends, reads or leaves out, it cannot bring its slot back
\* to an earlier stage or win back the fixed deadline of the present one.
THEOREM PeersCannotStall == Spec => ClientsMoveOn
<1>1. ServerInv /\ ViewersUnpressed /\ [Next]_vars =>
        [\A c \in Slots : conn[c].phase # "free" => MovesOn(conn[c], conn'[c])]_vars
  <2> SUFFICES ASSUME ServerInv, ViewersUnpressed, Next, NEW c \in Slots,
                      conn[c].phase # "free"
               PROVE  MovesOn(conn[c], conn'[c])
    OBVIOUS
  <2>1. conn[c] \in Clients
    BY DEF ServerInv, TypeOK
  <2>2. conn[c].phase = "ws" /\ ~conn[c].closing => ~Pressed(conn[c])
    BY DEF ViewersUnpressed
  <2>3. conn'[c] = Free => MovesOn(conn[c], conn'[c])
    BY DEF MovesOn
  <2>. QED BY <2>1, <2>2, <2>3, ClientSteps, OutcomesMoveOn, ExpiredMovesOn
<1>. QED BY <1>1, UnpressedHolds, PTL DEF Spec, ClientsMoveOn

\* A pass of the loop takes every client on whose fixed deadline is past, so
\* that a slot is free after at most one deadline for each of its stages.
THEOREM PassesFreeSlots == Spec => PassMovesOn
<1>1. ServerInv /\ ViewersUnpressed /\ [Next]_vars =>
        [EndPass => \A c \in Slots : conn[c].phase # "free" /\ Overdue(conn[c]) =>
           conn'[c] = Free \/ Stage(conn'[c]) > Stage(conn[c])]_vars
  <2> SUFFICES ASSUME ServerInv, ViewersUnpressed, EndPass, NEW c \in Slots,
                      conn[c].phase # "free", Overdue(conn[c]), conn'[c] # Free
               PROVE  Stage(conn'[c]) > Stage(conn[c])
    OBVIOUS
  <2>1. conn[c] \in Clients
    BY DEF ServerInv, TypeOK
  <2>2. conn[c].phase = "ws" /\ ~conn[c].closing => ~Pressed(conn[c])
    BY DEF ViewersUnpressed
  <2>3. conn'[c] = Expired(conn[c]) /\ ~Done(conn[c])
    BY DEF EndPass
  <2>. QED BY <2>1, <2>2, <2>3, ExpiredMovesOn
<1>. QED BY <1>1, UnpressedHolds, PTL DEF Spec, PassMovesOn
=============================================================================
