------------------------------- MODULE Browser -------------------------------
(***************************************************************************)
(* The connection of the embedded page (play.html) to nesd: who is the     *)
(* current WebSocket, which timers are pending, what happens when the tab  *)
(* is hidden, the network is lost or a handshake is refused; composed with *)
(* the one viewer's slot of the server and with the network between them.  *)
(*                                                                         *)
(* A handler of the page runs to its end before any other, so each is one  *)
(* step, and the functions it calls are operators from page to page.       *)
(*                                                                         *)
(* Data left out: delays (a timer may fire at any time), the numbers of    *)
(* heartbeats (silence is the absence of an acceptable one), everything    *)
(* drawn or played.  Buttons are one button.                               *)
(***************************************************************************)
EXTENDS Naturals, FiniteSets

CONSTANTS
    Sockets,        \* names for connections of which an end is still alive: a
                    \* bound on the attempts that overlap
    None            \* no socket, or no timer

ASSUME BrowserAssumption == Sockets \subseteq Nat /\ None \notin Sockets

VARIABLES
    page,           \* the variables of play.html
    link,           \* the server's end of each connection, and the way there
    rival,          \* does somebody else's page hold the viewer's slot?
    calm            \* from here on network, server and browser are sound

vars == <<page, link, rival, calm>>

Timers  == {"connect", "heartbeat"} \X Sockets
Masks   == {"none", "released", "pressed"}      \* "none": sentMask is -1
Handles == Sockets \cup {None}

Pages ==
    [active : BOOLEAN,                  \* pageActive
     hidden : BOOLEAN,                  \* document.hidden
     requested : BOOLEAN,               \* streamRequested
     held : {"released", "pressed"},    \* inputMask()
     sent : Masks,                      \* sentMask
     told : Masks,                      \* the last mask the server was sent
     socket : Handles,
     ready : [Sockets -> {"unused", "connecting", "open", "closing", "closed"}],
     reconnect : BOOLEAN,               \* reconnectTimer
     connectTimer : Handles,            \* whose time-out this handle cancels
     heartbeatTimer : Handles,
     timers : SUBSET Timers]            \* callbacks that are going to run

Links ==
    [server : {"unasked", "viewer", "refused", "ended"},
     opened : BOOLEAN,                  \* the browser has fired its open event
     lost : BOOLEAN]                    \* nothing arrives any more

FreshLink == [server |-> "unasked", opened |-> FALSE, lost |-> FALSE]

\* May the page stream?  The condition nearly every handler begins with.
Wanted(p) == p.active /\ ~p.hidden /\ p.requested

CurrentIs(p, states) == p.socket # None /\ p.ready[p.socket] \in states

-----------------------------------------------------------------------------
(* The page's functions *)

CloseSocket(p, s) ==
    IF s # None /\ p.ready[s] \in {"connecting", "open"}
    THEN [p EXCEPT !.ready[s] = "closing"] ELSE p

ClearTransportTimers(p) ==
    [p EXCEPT !.timers = @ \ {<<"connect", p.connectTimer>>,
                              <<"heartbeat", p.heartbeatTimer>>},
              !.connectTimer = None,
              !.heartbeatTimer = None]

ScheduleReconnect(p) == [p EXCEPT !.reconnect = Wanted(p)]

\* Fault: any socket's end is taken for the current one's.
AbandonTransportAny(p, s, close) ==
    LET left == [ClearTransportTimers(p) EXCEPT !.socket = None, !.sent = "none"]
        done == IF close THEN CloseSocket(left, s) ELSE left
    IN  ScheduleReconnect(done)

\* abandonTransport; every caller wants a retry.  What an old socket reports
\* concerns nobody.
AbandonTransport(p, s, close) ==
    LET left == [ClearTransportTimers(p) EXCEPT !.socket = None, !.sent = "none"]
        done == IF p.socket = s THEN left ELSE p
        shut == IF close THEN CloseSocket(done, s) ELSE done
    IN  IF p.socket = s THEN ScheduleReconnect(shut) ELSE shut

SuspendStream(p) ==
    CloseSocket([ClearTransportTimers(p) EXCEPT !.reconnect = FALSE,
                                                !.socket = None,
                                                !.sent = "none"],
                p.socket)

\* sendSocketJson succeeds, or finds the output congested or broken.
Sends == {ok \in BOOLEAN : ok \/ ~calm}

SendInput(p, force, ok) ==
    IF (p.held = p.sent /\ ~force) \/ ~CurrentIs(p, {"open"}) THEN p
    ELSE IF ok THEN [p EXCEPT !.sent = p.held, !.told = p.held]
    ELSE AbandonTransport(p, p.socket, TRUE)

\* Fault: it is looked whether a button is held after they were released.
ReleaseWhenPressed(p, ok) ==
    LET p2 == [p EXCEPT !.held = "released"]
    IN  IF p2.held = "pressed" THEN SendInput(p2, TRUE, ok) ELSE p2

\* releaseAllControls; what was sent may differ from what is held.
ReleaseAllControls(p, ok) ==
    LET p2 == [p EXCEPT !.held = "released"]
    IN  IF p.held = "released" /\ p.sent = "released" THEN p
        ELSE SendInput(p2, TRUE, ok)

\* The next WebSocket object; None: its constructor throws.
NewSockets ==
    {s \in Sockets : /\ page.ready[s] = "unused"
                     /\ \A t \in Sockets : page.ready[t] = "unused" => s <= t}
        \cup (IF calm THEN {} ELSE {None})

Opening(p, s) ==
    [p EXCEPT !.reconnect = FALSE,
              !.socket = s,
              !.ready[s] = "connecting",
              !.told = "none",
              !.connectTimer = s,
              !.timers = @ \cup {<<"connect", s>>}]

\* connect: the pages it may leave behind
Connect(p) ==
    IF ~Wanted(p) \/ CurrentIs(p, {"open", "connecting"}) THEN {p}
    ELSE {IF s = None THEN ScheduleReconnect(p) ELSE Opening(p, s) : s \in NewSockets}

\* connect, or scheduleReconnect if the browser says that it is offline
Resume(p) == Connect(p) \cup {ScheduleReconnect(p)}

-----------------------------------------------------------------------------
(* Events of the page *)

Others == UNCHANGED <<link, rival, calm>>

\* startStream, when a game was started
StartStream ==
    LET p == [page EXCEPT !.requested = TRUE]
    IN  /\ \/ page' \in Connect(p)
           \/ ~CurrentIs(p, {"open"}) /\ Wanted(p) /\ page' = ScheduleReconnect(p)
        /\ Others

\* visibilitychange
Hide ==
    /\ ~page.hidden
    /\ \E ok \in Sends :
         page' = SuspendStream(ReleaseAllControls([page EXCEPT !.hidden = TRUE], ok))
    /\ Others

Show ==
    LET p == [page EXCEPT !.hidden = FALSE]
    IN  /\ page.hidden
        /\ IF Wanted(p) THEN page' \in Resume(p) ELSE page' = p
        /\ Others

\* pagehide: what the release of the buttons schedules is cancelled again.
PageHide ==
    /\ page.active
    /\ \E ok \in Sends :
         page' = SuspendStream([ReleaseAllControls(page, ok) EXCEPT !.active = FALSE])
    /\ Others

\* pageshow, from the back-forward cache
PageShow ==
    LET p == [page EXCEPT !.active = TRUE]
    IN  /\ ~page.active
        /\ IF Wanted(p) THEN page' \in Resume(p) ELSE page' = p
        /\ Others

\* The browser's opinion of the network does not end a connection.
Offline ==
    /\ ~CurrentIs(page, {"open", "connecting"})
    /\ page' = ScheduleReconnect(SuspendStream(ReleaseAllControls(page, TRUE)))
    /\ Others

Online ==
    /\ Wanted(page)
    /\ page' = ScheduleReconnect(page)
    /\ Others

\* setControl
SetControl ==
    /\ \E ok \in Sends, mask \in {"released", "pressed"} :
         page' = SendInput([page EXCEPT !.held = mask], FALSE, ok)
    /\ Others

Blur ==
    /\ \E ok \in Sends : page' = ReleaseAllControls(page, ok)
    /\ Others

\* A status message tells that a state was loaded.
StateLoaded(s) ==
    /\ page.active /\ ~page.hidden /\ page.socket = s /\ page.ready[s] = "open"
    /\ link[s].server = "viewer" /\ ~link[s].lost
    /\ \E ok \in Sends : page' = ReleaseAllControls(page, ok)
    /\ Others

\* drainJpegQueue: a picture has been in the decoder for too long.
DecoderStalled ==
    /\ ~calm /\ CurrentIs(page, {"open", "closing"})
    /\ page' = AbandonTransport(page, page.socket, TRUE)
    /\ Others

-----------------------------------------------------------------------------
(* Timers of the page *)

ReconnectTimer ==
    /\ page.reconnect
    /\ page' \in Connect([page EXCEPT !.reconnect = FALSE])
    /\ Others

\* In calm times an answer takes less than CONNECT_TIMEOUT_MS.
ConnectTimeout(s) ==
    LET p == [page EXCEPT !.timers = @ \ {<<"connect", s>>}, !.connectTimer = None]
    IN  /\ <<"connect", s>> \in page.timers
        /\ ~calm \/ link[s].lost
        /\ page' = IF p.socket = s /\ p.ready[s] = "connecting"
                   THEN AbandonTransport(p, s, TRUE) ELSE p
        /\ Others

\* The callback of heartbeat(s) runs.
Ticked(s) ==
    [page EXCEPT !.timers = @ \ {<<"heartbeat", s>>}, !.heartbeatTimer = None]

Beating(s) == page.socket = s /\ page.ready[s] = "open" /\ Wanted(page)

HeartbeatEnds(s) ==
    /\ <<"heartbeat", s>> \in page.timers /\ ~Beating(s)
    /\ page' = Ticked(s)
    /\ Others

\* Fault: only a connection known to be closed is taken for silent.
SilentIfClosed(s) == link[s].server = "ended" /\ ~link[s].lost

\* No heartbeat was acknowledged for SERVER_SILENCE_TIMEOUT_MS.
Silent(s) == ~calm \/ link[s].lost \/ link[s].server = "ended"

HeartbeatSilent(s) ==
    /\ <<"heartbeat", s>> \in page.timers /\ Beating(s) /\ Silent(s)
    /\ page' = AbandonTransport(Ticked(s), s, TRUE)
    /\ Others

HeartbeatSent(s) ==
    /\ <<"heartbeat", s>> \in page.timers /\ Beating(s)
    /\ \E ok \in Sends :
         page' = IF ok THEN [page EXCEPT !.told = page.held]
                       ELSE AbandonTransport(Ticked(s), s, TRUE)
    /\ Others

-----------------------------------------------------------------------------
(* Events of a WebSocket *)

\* onopen: clear the timer, hello, the buttons, the first heartbeat.
Opened(p, s, ok) ==
    LET up   == [p EXCEPT !.timers = @ \ {<<"connect", p.connectTimer>>},
                          !.connectTimer = None]
        sent == SendInput(up, TRUE, ok)
    IN  IF sent.socket # s THEN sent
        ELSE [sent EXCEPT !.timers = (@ \ {<<"heartbeat", sent.heartbeatTimer>>})
                                        \cup {<<"heartbeat", s>>},
                          !.heartbeatTimer = s]

\* The event may have been queued before close() was called, so it can find
\* that the page wants another connection or none.
OnOpen(s) ==
    LET p == [page EXCEPT !.ready[s] = "open"]
    IN  /\ page.ready[s] \in {"connecting", "closing"}
        /\ link[s].server \in {"viewer", "ended"}
        /\ ~link[s].opened /\ ~link[s].lost
        /\ link' = [link EXCEPT ![s].opened = TRUE]
        /\ \E ok \in Sends :
             page' = IF ~Wanted(p) \/ p.socket # s THEN CloseSocket(p, s)
                                                   ELSE Opened(p, s, ok)
        /\ UNCHANGED <<rival, calm>>

\* A connection both ends have forgotten is no more.
Settle(p, l, s) ==
    IF p.ready[s] = "closed" /\ l.server \in {"refused", "ended"}
    THEN /\ page' = [p EXCEPT !.ready[s] = "unused"]
         /\ link' = [link EXCEPT ![s] = FreshLink]
    ELSE /\ page' = p
         /\ link' = [link EXCEPT ![s] = l]

\* onerror and the onclose that follows it, which finds nothing to do
OnError(s) ==
    /\ page.ready[s] = "connecting"
    /\ ~calm \/ link[s].lost \/ link[s].server \in {"refused", "ended"}
    /\ Settle(AbandonTransport([page EXCEPT !.ready[s] = "closed"], s, TRUE),
              link[s], s)
    /\ UNCHANGED <<rival, calm>>

\* The Close of the server has arrived; the end has not been reported yet.
PeerCloses(s) ==
    /\ page.ready[s] = "open" /\ link[s].server = "ended" /\ ~link[s].lost
    /\ page' = [page EXCEPT !.ready[s] = "closing"]
    /\ Others

\* onclose: after a closing handshake, or when the browser gives up.
OnClose(s) ==
    /\ \/ page.ready[s] = "closing"
       \/ page.ready[s] = "open" /\ (link[s].lost \/ link[s].server = "ended")
    /\ Settle(AbandonTransport([page EXCEPT !.ready[s] = "closed"], s, FALSE),
              link[s], s)
    /\ UNCHANGED <<rival, calm>>

-----------------------------------------------------------------------------
(* The server and the network *)

SlotTaken == rival \/ \E s \in Sockets : link[s].server = "viewer"

\* start_http_request: 503 if there is a viewer.  The request may be served
\* after the page has given up.
ServerAnswers(s) ==
    /\ page.ready[s] # "unused"
    /\ link[s].server = "unasked" /\ ~link[s].lost
    /\ Settle(page, [link[s] EXCEPT !.server =
                        IF SlotTaken THEN "refused" ELSE "viewer"], s)
    /\ UNCHANGED <<rival, calm>>

\* The server sees the end of the connection, a Close, or no heartbeat; or it
\* ends a sound connection, which includes that the daemon is restarted.
ServerEnds(s) ==
    /\ \/ link[s].server = "unasked" /\ page.ready[s] = "closed"
       \/ /\ link[s].server = "viewer"
          /\ page.ready[s] \in {"closing", "closed"} \/ link[s].lost \/ ~calm
    /\ Settle(page, [link[s] EXCEPT !.server = "ended"], s)
    /\ UNCHANGED <<rival, calm>>

Lose(s) ==
    /\ ~calm /\ page.ready[s] # "unused" /\ ~link[s].lost
    /\ link' = [link EXCEPT ![s].lost = TRUE]
    /\ UNCHANGED <<page, rival, calm>>

RivalComes ==
    /\ ~calm /\ ~SlotTaken
    /\ rival' = TRUE
    /\ UNCHANGED <<page, link, calm>>

RivalLeaves ==
    /\ rival
    /\ rival' = FALSE
    /\ UNCHANGED <<page, link, calm>>

CalmDown ==
    /\ ~calm /\ ~rival
    /\ calm' = TRUE
    /\ UNCHANGED <<page, link, rival>>

-----------------------------------------------------------------------------

Init ==
    /\ page = [active |-> TRUE, hidden |-> FALSE, requested |-> FALSE,
               held |-> "released", sent |-> "none", told |-> "none",
               socket |-> None, ready |-> [s \in Sockets |-> "unused"],
               reconnect |-> FALSE, connectTimer |-> None,
               heartbeatTimer |-> None, timers |-> {}]
    /\ link = [s \in Sockets |-> FreshLink]
    /\ rival = FALSE
    /\ calm = FALSE

UserEvent ==
    \/ StartStream \/ Hide \/ Show \/ PageHide \/ PageShow
    \/ Offline \/ Online \/ SetControl \/ Blur \/ DecoderStalled

SocketEvent(s) ==
    \/ StateLoaded(s)
    \/ ConnectTimeout(s)
    \/ HeartbeatEnds(s) \/ HeartbeatSilent(s) \/ HeartbeatSent(s)
    \/ OnOpen(s) \/ OnError(s) \/ PeerCloses(s) \/ OnClose(s)

ServerEvent(s) == ServerAnswers(s) \/ ServerEnds(s) \/ Lose(s)

Next ==
    \/ UserEvent
    \/ ReconnectTimer
    \/ \E s \in Sockets : SocketEvent(s) \/ ServerEvent(s)
    \/ RivalComes \/ RivalLeaves \/ CalmDown

\* Timers fire, the server's loop runs, and events are delivered; but that a
\* peer has vanished is not one: the page has to find out by itself.
Fairness ==
    /\ WF_vars(ReconnectTimer)
    /\ WF_vars(\E s \in Sockets : ConnectTimeout(s))
    /\ WF_vars(\E s \in Sockets : HeartbeatSilent(s))
    /\ WF_vars(\E s \in Sockets : OnOpen(s))
    /\ WF_vars(\E s \in Sockets : ~link[s].lost /\ OnError(s))
    /\ WF_vars(\E s \in Sockets :
                  (link[s].lost => page.ready[s] = "closing") /\ OnClose(s))
    /\ WF_vars(\E s \in Sockets : ServerAnswers(s))
    /\ WF_vars(\E s \in Sockets : ServerEnds(s))

Spec == Init /\ [][Next]_vars /\ Fairness

-----------------------------------------------------------------------------
(* Properties *)

\* Page, connections and environment hold values of their kind.
TypeOK ==
    /\ page \in Pages
    /\ link \in [Sockets -> Links]
    /\ rival \in BOOLEAN
    /\ calm \in BOOLEAN

\* No handler leaves a connection behind: a socket other than the current one
\* is closed or closing, and a page that is hidden, inactive or was never
\* started holds no connection and no timer.  A forgotten one would hold the
\* only viewer's slot of the server, for ever.
OneConnection ==
    /\ \A s \in Sockets :
         page.ready[s] \in {"connecting", "open"} => s = page.socket
    /\ ~Wanted(page) => /\ page.socket = None
                        /\ ~page.reconnect
                        /\ page.timers = {}

\* Every pending callback can still be cancelled: its handle was not
\* overwritten.
NoStrayTimer ==
    page.timers \subseteq {<<"connect", page.connectTimer>>,
                           <<"heartbeat", page.heartbeatTimer>>}

\* A page that should be streaming has a next step of its own: a reconnect,
\* a time-out or a heartbeat is pending, or the end of the socket is going to
\* be reported.
NeverStuck ==
    Wanted(page) =>
        \/ page.reconnect
        \/ /\ page.socket # None
           /\ \/ /\ page.ready[page.socket] = "connecting"
                 /\ <<"connect", page.socket>> \in page.timers
              \/ /\ page.ready[page.socket] = "open"
                 /\ <<"heartbeat", page.socket>> \in page.timers
              \/ page.ready[page.socket] = "closing"

\* On an open connection the server was told of the buttons as they are, also
\* if they were pressed or released while there was no connection.
ButtonsKnown == CurrentIs(page, {"open"}) => page.told = page.held

Streaming ==
    /\ CurrentIs(page, {"open"})
    /\ link[page.socket].server = "viewer" /\ ~link[page.socket].lost

\* The page gets its connection back, whatever happened before: once network
\* and server are sound, nobody else watches and the tab stays visible, it
\* ends up as the viewer and remains so.  In particular its own old
\* connection, whose end the server has not noticed, cannot lock it out.
Reconnects == <>[](calm /\ Wanted(page)) => <>[]Streaming
=============================================================================
