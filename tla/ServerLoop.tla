----------------------------- MODULE ServerLoop -----------------------------
(***************************************************************************)
(* The client table and the event loop of nesd (http.c: http_serve,        *)
(* accept_clients, client_init, client_destroy, start_http_request, the    *)
(* read_ functions, http_response and the discarding of rejected bodies).  *)
(*                                                                         *)
(* Handlers run one after the other in a pass of the loop; the end of a    *)
(* pass destroys clients and looks at the idle clock, and the next pass    *)
(* begins with the deadlines: all of that is EndPass.  A handler that may  *)
(* run once in a pass may run several times between two EndPass here,      *)
(* which stands for passes in which nothing else happened.                 *)
(*                                                                         *)
(* What requests contain is left to the peer: every branch of the handlers *)
(* may be taken.  The clock is abstracted to marks that a time has passed. *)
(* A WebSocket is reduced to living or closing; WsClient has the rest.     *)
(***************************************************************************)
EXTENDS Naturals, FiniteSets

CONSTANTS
    Slots,          \* 1..MAX_CLIENTS
    LongIdle        \* is the idle limit longer than an answer may take
                    \* (120 s of the init script; HTTP_OUTPUT_MAX_AGE_MS 30 s)?

ASSUME ServerAssumption == IsFiniteSet(Slots) /\ LongIdle \in BOOLEAN

VARIABLES
    conn,           \* struct client
    gameLoaded,     \* host->game_loaded
    quiet,          \* idle_exit_seconds have passed since last_activity_ms
    state           \* "serving", or how http_serve ended

vars == <<conn, gameLoaded, quiet, state>>

Clients ==
    [phase : {"free", "headers", "body", "upload", "discard", "ws"},
     dead : BOOLEAN,
     out : BOOLEAN,                         \* an HTTP answer is not yet flushed
     mark : {"no", "inactive", "late"},     \* the deadline of the phase
     outMark : {"no", "stalled", "old"},    \* the deadlines of the answer
     closing : BOOLEAN]                     \* a Close is queued or was sent

Free == [phase |-> "free", dead |-> FALSE, out |-> FALSE, mark |-> "no",
         outMark |-> "no", closing |-> FALSE]

Serving    == state = "serving"
\* A handler of slot c may run: its client is not marked for destruction.
Reading(c, phase) == Serving /\ conn[c].phase = phase /\ ~conn[c].dead
Become(c, k) == conn' = [conn EXCEPT ![c] = k]
Kept == UNCHANGED <<gameLoaded, quiet, state>>

-----------------------------------------------------------------------------
(* Accepting *)

Accept(c) ==
    /\ Serving /\ conn[c].phase = "free"
    /\ Become(c, [Free EXCEPT !.phase = "headers"])
    /\ quiet' = FALSE
    /\ UNCHANGED <<gameLoaded, state>>

\* A full table: 503 and close, which counts as activity all the same.
TurnAway ==
    /\ Serving /\ \A c \in Slots : conn[c].phase # "free"
    /\ quiet' = FALSE
    /\ UNCHANGED <<conn, gameLoaded, state>>

-----------------------------------------------------------------------------
(* Outcomes of a handler *)

\* http_response and dead: the answer is flushed before client_destroy.  The
\* answer of a malformed or a refused request and that of dispatch_http differ
\* in nothing the loop looks at.
Answer(c) == Become(c, [conn[c] EXCEPT !.out = TRUE, !.outMark = "no",
                                       !.dead = TRUE])

\* begin_http_discard_lengths behind an error: the rest of the body is read,
\* for two seconds at most.
Discarding(k) == [k EXCEPT !.out = TRUE, !.outMark = "no",
                           !.phase = "discard", !.mark = "no"]

\* reject_http_request: there may be nothing left to read.
Reject(c) == Answer(c) \/ Become(c, Discarding(conn[c]))

Die(c) == Become(c, [conn[c] EXCEPT !.dead = TRUE])

\* websocket_client_count counts neither dead nor closing connections.
WebsocketClientCount ==
    Cardinality({c \in Slots : /\ conn[c].phase = "ws"
                               /\ ~conn[c].dead /\ ~conn[c].closing})

ActiveUploadCount ==
    Cardinality({c \in Slots : conn[c].phase = "upload" /\ ~conn[c].dead})

-----------------------------------------------------------------------------
(* Handlers *)

\* Fault: the handshake is not refused while somebody else is watching.
UpgradeAlways(c) ==
    \/ Become(c, [conn[c] EXCEPT !.phase = "ws", !.mark = "no"])
    \/ Die(c)

\* The WebSocket branch of start_http_request; its handshake may fail.
Upgrade(c) ==
    /\ WebsocketClientCount = 0
    /\ \/ Become(c, [conn[c] EXCEPT !.phase = "ws", !.mark = "no"])
       \/ Die(c)

\* dispatch_http answers, and may load or unload a game.
DispatchHttp(c) == Answer(c) /\ gameLoaded' \in BOOLEAN

\* read_http_headers with the end of the header: start_http_request
StartHttpRequest(c) ==
    /\ Reading(c, "headers")
    /\ \/ DispatchHttp(c)
       \/ /\ \/ Reject(c)                \* malformed, not allowed, too large
             \/ Upgrade(c)
             \/ Become(c, [conn[c] EXCEPT !.phase = "body", !.mark = "no"])
             \/ /\ ActiveUploadCount = 0
                /\ Become(c, [conn[c] EXCEPT !.phase = "upload", !.mark = "no"])
          /\ UNCHANGED gameLoaded
    /\ UNCHANGED <<quiet, state>>

\* read_http_body with the last byte
ReadHttpBody(c) ==
    /\ Reading(c, "body")
    /\ DispatchHttp(c)
    /\ UNCHANGED <<quiet, state>>

\* read_upload moves the deadline of inactivity, not the absolute one.
MarkAfterRead(mark) == IF mark = "late" THEN "late" ELSE "no"

ReadUpload(c) ==
    /\ Reading(c, "upload")
    /\ \/ Become(c, [conn[c] EXCEPT !.mark = MarkAfterRead(@)])
       \/ Answer(c)                             \* finish_upload
       \/ Become(c, Discarding(conn[c]))        \* the write failed
    /\ Kept

\* read_http_discard with the last byte of the body
ReadHttpDiscard(c) ==
    /\ Reading(c, "discard")
    /\ Die(c)
    /\ Kept

\* read_websocket: input, or something after which a Close is queued
ReadWebsocket(c) ==
    /\ Reading(c, "ws")
    /\ \/ Become(c, [conn[c] EXCEPT !.mark = IF conn[c].closing THEN @ ELSE "no"])
       \/ ~conn[c].closing /\ Become(c, [conn[c] EXCEPT !.closing = TRUE,
                                                        !.mark = "no"])
    /\ Kept

\* End of file, an error, POLLERR or POLLHUP; an error drops the answer.
PeerGone(c) ==
    /\ Serving /\ conn[c].phase # "free"
    /\ \/ ~conn[c].dead /\ Die(c)
       \/ Become(c, [conn[c] EXCEPT !.dead = TRUE, !.out = FALSE,
                                    !.outMark = "no"])
    /\ Kept

\* websocket_flush, for the answer of an HTTP client, dead or not
Flush(c) ==
    /\ Serving /\ conn[c].out
    /\ \/ Become(c, [conn[c] EXCEPT !.out = FALSE, !.outMark = "no"])
       \/ /\ conn[c].outMark = "stalled"        \* some of it
          /\ Become(c, [conn[c] EXCEPT !.outMark = "no"])
    /\ Kept

-----------------------------------------------------------------------------
(* Time *)

\* The fixed deadlines: of the header, the body, an upload as a whole, the
\* draining of a body, a WebSocket that is closing.
Late(c) ==
    /\ Serving /\ ~conn[c].dead /\ conn[c].mark # "late"
    /\ conn[c].phase \in {"headers", "body", "upload", "discard"}
         \/ conn[c].closing
    /\ Become(c, [conn[c] EXCEPT !.mark = "late"])
    /\ Kept

\* An upload without progress; a WebSocket without heartbeat, input or pong.
Inactive(c) ==
    /\ Serving /\ ~conn[c].dead /\ conn[c].mark = "no"
    /\ conn[c].phase \in {"upload", "ws"} /\ ~conn[c].closing
    /\ Become(c, [conn[c] EXCEPT !.mark = "inactive"])
    /\ Kept

\* HTTP_OUTPUT_STALL_TIMEOUT_MS without progress
Stalled(c) ==
    /\ Serving /\ conn[c].out /\ conn[c].outMark = "no"
    /\ Become(c, [conn[c] EXCEPT !.outMark = "stalled"])
    /\ Kept

\* HTTP_OUTPUT_MAX_AGE_MS
Old(c) ==
    /\ Serving /\ conn[c].out /\ conn[c].outMark # "old"
    /\ Become(c, [conn[c] EXCEPT !.outMark = "old"])
    /\ Kept

-----------------------------------------------------------------------------
(* The loop *)

GivenUp(k) == [k EXCEPT !.out = FALSE, !.outMark = "no", !.dead = TRUE]

\* A WebSocket gets a Close, a request a 408; a second delay is the last.
TimedOut(k) ==
    IF k.phase = "discard" \/ k.closing THEN [k EXCEPT !.dead = TRUE]
    ELSE IF k.phase = "ws" THEN [k EXCEPT !.closing = TRUE, !.mark = "no"]
    ELSE Discarding(k)

\* Fault: a dead client is passed over before its answer is looked at.
ExpiredIfAlive(k) ==
    IF k.phase = "free" \/ k.dead THEN k
    ELSE IF k.out /\ k.outMark # "no" THEN GivenUp(k)
    ELSE IF k.mark = "no" THEN k
    ELSE TimedOut(k)

\* The deadlines at the beginning of a pass: an answer nobody reads is given
\* up, a request that takes too long gets a 408 and is drained.
Expired(k) ==
    IF k.phase = "free" THEN k
    ELSE IF k.out /\ k.outMark # "no" THEN GivenUp(k)
    ELSE IF k.dead \/ k.mark = "no" THEN k
    ELSE TimedOut(k)

\* A dead client is destroyed when its answer is out.
Done(k) == k.dead /\ ~k.out

\* Fault: a loaded game does not count.
BusyWithClients ==
    \/ \E c \in Slots : conn[c].phase # "free" /\ ~conn[c].dead
    \/ \E c \in Slots : Done(conn[c])

\* What refreshes last_activity_ms at the end of a pass.
Busy ==
    \/ \E c \in Slots : conn[c].phase # "free" /\ ~conn[c].dead
    \/ gameLoaded
    \/ \E c \in Slots : Done(conn[c])           \* clients_destroyed

\* idle_exit_seconds since last_activity_ms, which every pass at whose end
\* the daemon is busy refreshes.  If the limit is the longer one, all answers
\* were flushed or given up and their clients destroyed in that time.
Quiet ==
    /\ Serving /\ ~Busy /\ ~quiet
    /\ LongIdle => \A c \in Slots : ~conn[c].out
    /\ quiet' = TRUE
    /\ UNCHANGED <<conn, gameLoaded, state>>

\* The end of a pass and the deadlines of the next one.
EndPass ==
    /\ Serving /\ (Busy \/ ~quiet)
    /\ conn' = [c \in Slots |-> IF Done(conn[c]) THEN Free
                                                 ELSE Expired(conn[c])]
    /\ quiet' = (quiet /\ ~Busy)
    /\ UNCHANGED <<gameLoaded, state>>

\* The end of a pass leaves the loop, and everything is closed.
IdleExit ==
    /\ Serving /\ ~Busy /\ quiet
    /\ state' = "idle-exit"
    /\ conn' = [c \in Slots |-> Free]
    /\ UNCHANGED <<gameLoaded, quiet>>

\* http_stop, from a signal, or an error of poll other than EINTR
Stop ==
    /\ Serving
    /\ state' \in {"stopped", "failed"}
    /\ conn' = [c \in Slots |-> Free]
    /\ UNCHANGED <<gameLoaded, quiet>>

\* The service starts the daemon again; it may load a startup ROM.
Restart ==
    /\ ~Serving
    /\ state' = "serving"
    /\ gameLoaded' \in BOOLEAN
    /\ quiet' = FALSE
    /\ UNCHANGED conn

Init ==
    /\ conn = [c \in Slots |-> Free]
    /\ gameLoaded \in BOOLEAN
    /\ quiet = FALSE
    /\ state = "serving"

Peer(c) ==
    \/ Accept(c)
    \/ StartHttpRequest(c)
    \/ ReadHttpBody(c)
    \/ ReadUpload(c)
    \/ ReadHttpDiscard(c)
    \/ ReadWebsocket(c)
    \/ PeerGone(c)
    \/ Flush(c)

Time(c) == Late(c) \/ Inactive(c) \/ Stalled(c) \/ Old(c)

Next ==
    \/ \E c \in Slots : Peer(c) \/ Time(c)
    \/ TurnAway
    \/ Quiet
    \/ EndPass
    \/ IdleExit
    \/ Stop
    \/ Restart

\* The loop runs (poll has a limit of 250 ms) and time passes.  Nothing is
\* assumed of peers.
Fairness ==
    /\ WF_vars(EndPass \/ IdleExit)
    /\ \A c \in Slots : WF_vars(Late(c)) /\ WF_vars(Old(c))

Spec == Init /\ [][Next]_vars /\ Fairness

-----------------------------------------------------------------------------
(* Properties *)

\* Table, idle clock and loop hold values of their kind.
TypeOK ==
    /\ conn \in [Slots -> Clients]
    /\ gameLoaded \in BOOLEAN
    /\ quiet \in BOOLEAN
    /\ state \in {"serving", "idle-exit", "stopped", "failed"}

\* A peer that sends slowly, stops sending, stops reading or does not answer
\* a Close cannot keep its slot: whatever it does, an HTTP client or a closing
\* WebSocket is destroyed, or its slot becomes the viewer's.
SlotFreed ==
    \A c \in Slots :
        conn[c].phase \notin {"free", "ws"} \/ conn[c].closing \/ conn[c].dead
            ~> conn[c].phase = "free" \/ (conn[c].phase = "ws" /\ ~conn[c].closing)

\* The table is never full for good, because at most one WebSocket may stay:
\* there is always a next time at which a connection finds a slot.
TableNeverStuck == []<>(~Serving \/ \E c \in Slots : conn[c].phase = "free")

\* The daemon exits for idleness only when it is truly unused and no game is
\* loaded: no slot holds a connection, not even one that is being answered.
UnusedWhenIdle ==
    [][state # "idle-exit" /\ state' = "idle-exit" =>
         ~gameLoaded /\ \A c \in Slots : conn[c].phase = "free"]_vars
=============================================================================
