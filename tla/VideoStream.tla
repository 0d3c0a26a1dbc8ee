---------------------------- MODULE VideoStream ----------------------------
(***************************************************************************)
(* The way of a picture from the console to the browser (http.c: the       *)
(* jpeg_worker functions, broadcast_av, the video pacer, http_serve and    *)
(* websocket_discard_state_transition).  Three threads take part: the      *)
(* emulation thread publishes pictures, the network thread runs one pass   *)
(* after the other of the http_serve loop, and a low-priority worker       *)
(* encodes.  worker->mu protects one latest-only pending picture and one   *)
(* completed packet; the worker encodes into that packet without the lock  *)
(* and then rings a pipe.                                                  *)
(*                                                                         *)
(* One action is one critical section of worker->mu, or one step of a      *)
(* thread between two of them.  Audio, control frames and the bytes of a   *)
(* picture are left out: the link may hold a queued picture back.          *)
(***************************************************************************)
EXTENDS Naturals

CONSTANTS
    None,           \* no picture
    Rates,          \* frame rates that effective_stream_fps may return
    MaxPictures,    \* bound: pictures the console draws
    MaxSessions,    \* bound: WebSocket viewers, one after the other
    MaxChanges      \* bound: host commands that replace the picture

VARIABLES
    frameId,        \* h->frame_id
    drawn,          \* frame_w > 0: there is a picture
    stamp,          \* history: pictures drawn so far
    loads,          \* history: ROMs and states loaded so far
    shows,          \* history: loads when the picture in the frame was drawn
    epoch,          \* history: loads and resets so far
    changes,        \* host commands executed so far
    fps,            \* what effective_stream_fps would return
    net,            \* where the network thread is
    rung,           \* poll reported the pipe readable
    viewer,         \* stream_session_id of the live WebSocket, 0: none
    nextSession,
    loopFps,        \* stream_fps of this pass
    pacerFps,       \* pacer.stream_fps, 0: the pacer is not active
    lastId,         \* pacer.last_video_id, 0: none
    slot, begun,    \* the viewer's video frame, and whether bytes have left
    session,        \* worker->viewer_session
    generation,
    pending,        \* pending_pixels with their generation
    completed,      \* completed_ready
    stop,
    bell,           \* a byte is in the wake pipe
    worker,         \* where the encoder is, "none": raw video only
    active,         \* the picture it encodes, with its generation
    packet,         \* worker->packet
    shown,          \* history: stamp of the last picture sent to the viewer
    greeted,        \* history: a pass has looked for a picture for the viewer
    looked          \* history: collect has run since the last publication

hostVars   == <<frameId, drawn, stamp, loads, shows, epoch, changes, fps>>
pacerVars  == <<loopFps, pacerFps, lastId>>
linkVars   == <<viewer, nextSession, slot, begun, shown, greeted>>
boxVars    == <<session, generation, pending, completed, stop>>
workerVars == <<worker, active, packet>>
vars == <<hostVars, net, rung, pacerVars, linkVars, boxVars, workerVars,
          bell, looked>>

Pictures == [stamp : 1..MaxPictures, id : 1..MaxPictures,
             shows : 0..MaxChanges, epoch : 0..MaxChanges,
             viewer : 1..MaxSessions]
Jobs == [picture : Pictures, generation : Nat]

ASSUME StreamAssumption ==
    /\ Rates # {} /\ Rates \subseteq Nat \ {0}
    /\ MaxPictures \in Nat \ {0} /\ MaxSessions \in Nat \ {0}
    /\ MaxChanges \in Nat
    /\ None \notin Pictures /\ None \notin Jobs

NetStates == {"top", "poll", "drain", "clients", "reset", "session",
              "expire", "collect", "submit", "leaving", "joining", "done"}
WorkerStates == {"none", "wait", "encode", "finish", "notify", "exited"}

\* jpeg_worker_enable_optional started the encoder thread.
HasWorker == worker # "none"

-----------------------------------------------------------------------------
(* Emulation thread *)

\* The core, or the demo, draws the next picture.
DrawPicture ==
    /\ stamp < MaxPictures
    /\ stamp' = stamp + 1
    /\ frameId' = frameId + 1
    /\ drawn' = TRUE
    /\ shows' = loads
    /\ UNCHANGED <<loads, epoch, changes, fps, net, rung, pacerVars, linkVars,
                   boxVars, workerVars, bell, looked>>

-----------------------------------------------------------------------------
(* Network thread: one pass of http_serve *)

\* An unsent picture older than WS_VIDEO_MAX_AGE_MS is dropped.
AfterExpiry == IF begun THEN {slot} ELSE {slot, None}

\* The viewer that closes, dies or is timed out stops counting at once.
DropViewer ==
    /\ viewer' = 0
    /\ slot' = None
    /\ begun' = FALSE
    /\ shown' = 0
    /\ UNCHANGED <<nextSession, greeted>>

Top ==
    /\ net = "top"
    /\ net' = "poll"
    /\ loopFps' = fps
    /\ \/ /\ slot' \in AfterExpiry
          /\ UNCHANGED <<viewer, nextSession, begun, shown, greeted>>
       \/ viewer # 0 /\ DropViewer
    /\ UNCHANGED <<hostVars, rung, pacerFps, lastId, boxVars, workerVars,
                   bell, looked>>

\* poll ends because of the pipe, of a socket, of a deadline or its timeout.
Poll ==
    /\ net = "poll"
    /\ rung' = bell
    /\ net' = "drain"
    /\ UNCHANGED <<hostVars, pacerVars, linkVars, boxVars, workerVars, bell,
                   looked>>

DrainWake ==
    /\ net = "drain"
    /\ bell' = (bell /\ ~rung)
    /\ net' = "clients"
    /\ UNCHANGED <<hostVars, rung, pacerVars, linkVars, boxVars, workerVars,
                   looked>>

Leave ==
    /\ net = "clients" /\ viewer # 0
    /\ DropViewer
    /\ UNCHANGED <<hostVars, net, rung, pacerVars, boxVars, workerVars, bell,
                   looked>>

\* A WebSocket upgrade finds the stream free (MAX_STREAM_CLIENTS is 1).
Join ==
    /\ net = "clients" /\ viewer = 0 /\ nextSession < MaxSessions
    /\ nextSession' = nextSession + 1
    /\ viewer' = nextSession + 1
    /\ greeted' = FALSE
    /\ UNCHANGED <<hostVars, net, rung, pacerVars, slot, begun, shown,
                   boxVars, workerVars, bell, looked>>

\* websocket_flush: the first bytes of a picture leave, then the last.
SendFirst ==
    /\ net = "clients" /\ slot # None /\ ~begun
    /\ begun' = TRUE
    /\ shown' = slot.stamp
    /\ UNCHANGED <<hostVars, net, rung, pacerVars, viewer, nextSession, slot,
                   greeted, boxVars, workerVars, bell, looked>>

SendLast ==
    /\ net = "clients" /\ begun
    /\ slot' = None
    /\ begun' = FALSE
    /\ UNCHANGED <<hostVars, net, rung, pacerVars, viewer, nextSession, shown,
                   greeted, boxVars, workerVars, bell, looked>>

\* A ROM load clears the frame, a state load installs the saved one.
ChangeScene ==
    /\ net = "clients" /\ changes < MaxChanges
    /\ changes' = changes + 1
    /\ epoch' = epoch + 1
    /\ loads' = loads + 1 /\ shows' = loads'
    /\ \/ frameId' = 0 /\ drawn' = FALSE /\ fps' \in Rates /\ UNCHANGED stamp
       \/ /\ stamp < MaxPictures
          /\ stamp' = stamp + 1 /\ frameId' = frameId + 1
          /\ drawn' \in BOOLEAN       \* a state may come without a picture
          /\ UNCHANGED fps
    /\ net' = "reset"
    /\ UNCHANGED <<rung, pacerVars, linkVars, boxVars, workerVars, bell,
                   looked>>

\* HOST_CMD_RESET: the console starts anew, the frame stays as it is.
ResetConsole ==
    /\ net = "clients" /\ changes < MaxChanges
    /\ changes' = changes + 1
    /\ epoch' = epoch + 1
    /\ net' = "reset"
    /\ UNCHANGED <<frameId, drawn, stamp, loads, shows, fps, rung, pacerVars,
                   linkVars, boxVars, workerVars, bell, looked>>

\* The old game was unloaded, the new one refused: nothing is discarded.
FailLoad ==
    /\ net = "clients" /\ changes < MaxChanges
    /\ changes' = changes + 1
    /\ frameId' = 0 /\ drawn' = FALSE
    /\ fps' \in Rates
    /\ UNCHANGED <<stamp, loads, shows, epoch, net, rung, pacerVars, linkVars,
                   boxVars, workerVars, bell, looked>>

\* Fault: the picture being encoded survives a load or a reset.
DiscardWaiting ==
    /\ net = "reset"
    /\ pending' = None
    /\ completed' = FALSE
    /\ slot' = IF begun THEN slot ELSE None
    /\ net' = "clients"
    /\ UNCHANGED <<hostVars, rung, pacerVars, viewer, nextSession, begun,
                   shown, greeted, session, generation, stop, workerVars, bell,
                   looked>>

\* jpeg_worker_reset and the rest of websocket_discard_state_transition.
Discard ==
    /\ net = "reset"
    /\ generation' = generation + 1
    /\ pending' = None
    /\ completed' = FALSE
    /\ slot' = IF begun THEN slot ELSE None
    /\ net' = "clients"
    /\ UNCHANGED <<hostVars, rung, pacerVars, viewer, nextSession, begun,
                   shown, greeted, session, stop, workerVars, bell, looked>>

ClientsDone ==
    /\ net = "clients"
    /\ net' = "session"
    /\ UNCHANGED <<hostVars, rung, pacerVars, linkVars, boxVars, workerVars,
                   bell, looked>>

\* jpeg_worker_set_session
Install(s) ==
    /\ session' = IF HasWorker THEN s ELSE session
    /\ IF s = session \/ ~HasWorker
         THEN UNCHANGED <<generation, pending, completed>>
         ELSE /\ generation' = generation + 1
              /\ pending' = None
              /\ completed' = FALSE
    /\ UNCHANGED stop

SetSession ==
    /\ net = "session"
    /\ Install(viewer)
    /\ net' = "expire"
    /\ UNCHANGED <<hostVars, rung, pacerVars, linkVars, workerVars, bell,
                   looked>>

\* jpeg_worker_expire; without a viewer the pacer forgets everything.
ExpireCompleted ==
    /\ net = "expire"
    /\ completed' \in {completed, FALSE}
    /\ IF viewer = 0
         THEN pacerFps' = 0 /\ lastId' = 0 /\ net' = "top"
         ELSE net' = "collect" /\ UNCHANGED <<pacerFps, lastId>>
    /\ UNCHANGED <<hostVars, rung, loopFps, linkVars, session, generation,
                   pending, stop, workerVars, bell, looked>>

\* websocket_video_wanted, jpeg_worker_collect, websocket_queue_video
Collect ==
    /\ net = "collect"
    /\ looked' = TRUE
    /\ net' = "submit"
    /\ \E s \in AfterExpiry :
         IF /\ HasWorker /\ s = None
            /\ completed /\ session # 0 /\ active.generation = generation
           THEN slot' = packet /\ completed' = FALSE
           ELSE slot' = s /\ UNCHANGED completed
    /\ UNCHANGED <<hostVars, rung, pacerVars, viewer, nextSession, begun,
                   shown, greeted, session, generation, pending, stop, workerVars,
                   bell>>

\* The picture as host_copy_frame hands it out, whenever it was drawn, now
\* and for the present viewer.
Current == [stamp |-> stamp, id |-> frameId, shows |-> shows,
            epoch |-> epoch, viewer |-> viewer]

\* video_pacer_due: at once for a new viewer or rate, else at its deadline.
Fresh(last) == drawn /\ frameId # last

\* Fault: a picture the busy encoder cannot take is sent as it is.
AcceptAround ==
    IF HasWorker /\ pending = None /\ session # 0 /\ ~stop
      THEN /\ pending' = [picture |-> Current, generation |-> generation]
           /\ slot' = None
      ELSE /\ slot' = Current
           /\ UNCHANGED pending

\* To the encoder; without one, straight to the link.
Accept ==
    IF HasWorker /\ session # 0 /\ ~stop
      THEN /\ pending' = [picture |-> Current, generation |-> generation]
           /\ slot' = None
      ELSE /\ slot' = Current
           /\ UNCHANGED pending

SubmitDue(last) ==
    \E s \in AfterExpiry :
        IF s = None /\ Fresh(last)
          THEN lastId' = frameId /\ Accept
          ELSE lastId' = last /\ slot' = s /\ UNCHANGED pending

\* Fault: the pipe is drained at the end of the pass.
SubmitAndDrain ==
    /\ net = "submit"
    /\ pacerFps' = loopFps
    /\ greeted' = TRUE
    /\ IF pacerFps # loopFps
         THEN SubmitDue(0)
         ELSE SubmitDue(lastId) \/ UNCHANGED <<lastId, slot, pending>>
    /\ bell' = FALSE
    /\ net' = "top"
    /\ UNCHANGED <<hostVars, rung, loopFps, viewer, nextSession, begun, shown,
                   session, generation, completed, stop, workerVars, looked>>

Submit ==
    /\ net = "submit"
    /\ pacerFps' = loopFps
    /\ greeted' = TRUE
    /\ IF pacerFps # loopFps
         THEN SubmitDue(0)
         ELSE SubmitDue(lastId) \/ UNCHANGED <<lastId, slot, pending>>
    /\ net' = "top"
    /\ UNCHANGED <<hostVars, rung, loopFps, viewer, nextSession, begun, shown,
                   session, generation, completed, stop, workerVars, bell,
                   looked>>

\* The loop ends: every client is destroyed, then the worker.
BeginShutdown ==
    /\ net = "top"
    /\ DropViewer
    /\ net' = "leaving"
    /\ UNCHANGED <<hostVars, rung, pacerVars, boxVars, workerVars, bell,
                   looked>>

EndSession ==
    /\ net = "leaving"
    /\ Install(0)
    /\ net' = "joining"
    /\ UNCHANGED <<hostVars, rung, pacerVars, linkVars, workerVars, bell,
                   looked>>

StopWorker ==
    /\ net = "joining" /\ ~stop
    /\ stop' = TRUE
    /\ UNCHANGED <<hostVars, net, rung, pacerVars, linkVars, session,
                   generation, pending, completed, workerVars, bell, looked>>

JoinWorker ==
    /\ net = "joining" /\ stop /\ worker \in {"exited", "none"}
    /\ net' = "done"
    /\ UNCHANGED <<hostVars, rung, pacerVars, linkVars, boxVars, workerVars,
                   bell, looked>>

-----------------------------------------------------------------------------
(* jpeg_worker_thread *)

\* Fault: the next picture is encoded over a packet nobody has fetched.
TakeAtOnce ==
    /\ worker = "wait"
    /\ ~stop /\ pending # None
    /\ active' = pending
    /\ pending' = None
    /\ packet' = None
    /\ worker' = "encode"
    /\ UNCHANGED <<hostVars, net, rung, pacerVars, linkVars, session,
                   generation, completed, stop, bell, looked>>

Take ==
    /\ worker = "wait"
    /\ ~stop /\ pending # None /\ ~completed
    /\ active' = pending
    /\ pending' = None
    /\ packet' = None
    /\ worker' = "encode"
    /\ UNCHANGED <<hostVars, net, rung, pacerVars, linkVars, session,
                   generation, completed, stop, bell, looked>>

\* Outside the lock: the packet is overwritten piece by piece.
Encode ==
    /\ worker = "encode"
    /\ packet' \in {active.picture, None}
    /\ worker' = "finish"
    /\ UNCHANGED <<hostVars, net, rung, pacerVars, linkVars, boxVars, active,
                   bell, looked>>

\* Fault: a result is published although nobody asks for it any more.
PublishableAlways == ~stop /\ packet # None

\* Publish, unless the result is no longer asked for.
Publishable ==
    ~stop /\ packet # None /\ session # 0 /\ active.generation = generation

Finish ==
    /\ worker = "finish"
    /\ completed' = (completed \/ Publishable)
    /\ looked' = (looked /\ ~Publishable)
    /\ worker' = IF Publishable THEN "notify" ELSE "wait"
    /\ UNCHANGED <<hostVars, net, rung, pacerVars, linkVars, session,
                   generation, pending, stop, active, packet, bell>>

Notify ==
    /\ worker = "notify"
    /\ bell' = TRUE
    /\ worker' = "wait"
    /\ UNCHANGED <<hostVars, net, rung, pacerVars, linkVars, boxVars, active,
                   packet, looked>>

Exit ==
    /\ worker = "wait" /\ stop
    /\ worker' = "exited"
    /\ UNCHANGED <<hostVars, net, rung, pacerVars, linkVars, boxVars, active,
                   packet, bell, looked>>

-----------------------------------------------------------------------------

Init ==
    /\ frameId = 0 /\ drawn = FALSE /\ stamp = 0 /\ changes = 0
    /\ loads = 0 /\ shows = 0 /\ epoch = 0
    /\ fps \in Rates /\ loopFps = fps
    /\ net = "top" /\ rung = FALSE
    /\ viewer = 0 /\ nextSession = 0
    /\ pacerFps = 0 /\ lastId = 0
    /\ slot = None /\ begun = FALSE /\ shown = 0 /\ greeted = TRUE
    /\ session = 0 /\ generation = 1 /\ pending = None /\ completed = FALSE
    /\ stop = FALSE /\ bell = FALSE
    /\ worker \in {"wait", "none"}
    /\ active = None /\ packet = None
    /\ looked = TRUE

Transfer == SendFirst \/ SendLast

Pass == Poll \/ DrainWake \/ Discard \/ ClientsDone \/ SetSession
            \/ ExpireCompleted \/ Collect \/ Submit

Network == Top \/ Pass \/ Leave \/ Join \/ Transfer \/ ChangeScene
               \/ ResetConsole \/ FailLoad \/ BeginShutdown \/ EndSession
               \/ StopWorker \/ JoinWorker

Worker == Take \/ Encode \/ Finish \/ Notify \/ Exit

Done == net = "done" /\ UNCHANGED vars

Next == DrawPicture \/ Network \/ Worker \/ Done

\* The scheduler runs both threads of the service; the viewer reads, so that
\* the passes of the loop that find its socket writable do not end.
Fairness ==
    /\ WF_vars(Worker)
    /\ SF_vars(Transfer)
    /\ WF_vars(Top \/ Pass \/ EndSession \/ StopWorker \/ JoinWorker)

Spec == Init /\ [][Next]_vars /\ Fairness

-----------------------------------------------------------------------------
(* Properties *)

\* Pictures, jobs, ids and thread positions hold values of their kind.
TypeOK ==
    /\ frameId \in 0..MaxPictures /\ drawn \in BOOLEAN /\ stamp \in 0..MaxPictures
    /\ loads \in 0..MaxChanges /\ shows \in 0..MaxChanges
    /\ epoch \in 0..MaxChanges /\ changes \in 0..MaxChanges
    /\ fps \in Rates /\ loopFps \in Rates /\ pacerFps \in Rates \cup {0}
    /\ net \in NetStates /\ rung \in BOOLEAN
    /\ viewer \in 0..MaxSessions /\ nextSession \in 0..MaxSessions
    /\ lastId \in 0..MaxPictures
    /\ slot \in Pictures \cup {None} /\ begun \in BOOLEAN
    /\ shown \in 0..MaxPictures /\ greeted \in BOOLEAN
    /\ session \in 0..MaxSessions /\ generation \in Nat
    /\ pending \in Jobs \cup {None} /\ completed \in BOOLEAN
    /\ stop \in BOOLEAN /\ bell \in BOOLEAN
    /\ worker \in WorkerStates
    /\ active \in Jobs \cup {None} /\ packet \in Pictures \cup {None}
    /\ looked \in BOOLEAN

\* Everything published is whole: while a packet is ready the worker is not
\* writing into it, although it writes without the lock.
PacketStable ==
    completed => packet # None /\ worker \notin {"encode", "finish"}

\* A picture waiting to be sent belongs to the viewer it is sent to, shows
\* the ROM or the state that was loaded last, and was copied from the frame
\* after the last load or reset: encodes that were in flight across such a
\* command, or across a change of viewer, do not surface.  It need not have
\* been drawn after the last reset: a reset keeps the frame, and the pacer may
\* copy it once more.
NothingStale ==
    slot # None /\ ~begun =>
        /\ slot.viewer = viewer
        /\ net # "reset" => slot.shows = loads /\ slot.epoch = epoch

\* A published packet that no pass has looked at keeps poll from sleeping:
\* the pipe is drained before the packet is collected, never after.
NoLostWake ==
    completed /\ ~looked /\ net = "poll" => bell \/ worker = "notify"

\* A viewer never goes back in time: pictures replace each other in the
\* pending slot, in the packet and on the link in the order they were drawn.
PicturesInOrder == [][SendFirst => slot.stamp >= shown]_vars

\* "A new viewer and an FPS change both get the current frame immediately":
\* the first pass with room on the link for a viewer's picture submits the
\* one there is.
NewViewerServed ==
    [][Submit /\ ~greeted /\ drawn /\ slot = None
         => pending' # None \/ slot' # None]_vars

\* While the viewer reads, a picture handed to the encoder does not wait for
\* ever behind a packet nobody fetches: it is encoded, or given up.
PendingTaken == pending # None ~> pending = None

=============================================================================
