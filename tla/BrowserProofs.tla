---------------------------- MODULE BrowserProofs ----------------------------
(***************************************************************************)
(* The page keeps one connection and can cancel every timer, for any       *)
(* number of connections that overlap.  All of it is about the page alone: *)
(* whatever the server, the network and a rival do, a handler that finds a *)
(* sound page leaves a sound page.                                         *)
(***************************************************************************)
EXTENDS Browser, TLAPS

\* What even the functions called in the middle of a handler may rely on.
Base(p) ==
    /\ p \in Pages
    /\ \A s \in Sockets : p.ready[s] \in {"connecting", "open"} => s = p.socket
    /\ p.timers \subseteq {<<"connect", p.connectTimer>>,
                           <<"heartbeat", p.heartbeatTimer>>}

\* The timers follow the state of the current socket.
Timed(p) ==
    /\ p.socket = None => p.timers = {}
    /\ p.socket # None =>
         \/ /\ p.ready[p.socket] = "connecting"
            /\ <<"connect", p.socket>> \in p.timers
         \/ /\ p.ready[p.socket] = "open"
            /\ <<"heartbeat", p.socket>> \in p.timers
         \/ p.ready[p.socket] = "closing"
    /\ \A s \in Sockets : <<"connect", s>> \in p.timers =>
         s = p.socket /\ p.ready[s] = "connecting"

Pending(p) == IF Wanted(p) THEN p.reconnect \/ p.socket # None
              ELSE ~p.reconnect /\ p.socket = None

\* The page between two calls of a handler that is not suspending it.
Whole(p) == Base(p) /\ Timed(p) /\ Pending(p)

Known(p) == CurrentIs(p, {"open"}) => p.told = p.held /\ p.sent = p.held

Sound(p) == Whole(p) /\ Known(p)

\* The inductive invariant
PageInv == Sound(page)

-----------------------------------------------------------------------------
(* The page's functions *)

LEMMA CloseSocketPage ==
    ASSUME NEW p \in Pages, NEW s \in Handles
    PROVE  LET r == CloseSocket(p, s) IN
           /\ r \in Pages
           /\ \A t \in Sockets : t # s => r.ready[t] = p.ready[t]
           /\ s # None => r.ready[s] \notin {"connecting", "open"}
           /\ r.socket = p.socket /\ r.timers = p.timers /\ r.reconnect = p.reconnect
           /\ r.connectTimer = p.connectTimer /\ r.heartbeatTimer = p.heartbeatTimer
           /\ r.active = p.active /\ r.hidden = p.hidden /\ r.requested = p.requested
           /\ r.held = p.held /\ r.sent = p.sent /\ r.told = p.told
  BY BrowserAssumption DEF CloseSocket, Pages, Handles

\* clearTransportTimers
LEMMA ClearPage ==
    ASSUME NEW p, Base(p)
    PROVE  LET r == ClearTransportTimers(p) IN
           /\ r \in Pages /\ r.timers = {}
           /\ r.ready = p.ready /\ r.socket = p.socket
           /\ r.active = p.active /\ r.hidden = p.hidden /\ r.requested = p.requested
  BY BrowserAssumption DEF ClearTransportTimers, Base, Pages, Handles

\* suspendStream leaves nothing behind.
LEMMA SuspendPage ==
    ASSUME NEW p, Base(p)
    PROVE  LET r == SuspendStream(p) IN
           /\ Base(r) /\ Timed(r) /\ Known(r)
           /\ r.socket = None /\ ~r.reconnect
           /\ r.active = p.active /\ r.hidden = p.hidden /\ r.requested = p.requested
<1> DEFINE c == ClearTransportTimers(p)
           q == [c EXCEPT !.reconnect = FALSE, !.socket = None, !.sent = "none"]
           r == SuspendStream(p)
<1>0. /\ c \in Pages /\ c.timers = {} /\ c.ready = p.ready
      /\ c.active = p.active /\ c.hidden = p.hidden /\ c.requested = p.requested
  BY ClearPage
<1>1. /\ q \in Pages /\ q.timers = {} /\ q.socket = None /\ ~q.reconnect
      /\ q.ready = p.ready
      /\ q.active = p.active /\ q.hidden = p.hidden /\ q.requested = p.requested
  <2>. HIDE DEF c
  <2>. QED BY <1>0 DEF Pages, Handles, Masks
<1>2. r = CloseSocket(q, p.socket) /\ p.socket \in Handles
  BY DEF SuspendStream, Base, Pages
<1>. HIDE DEF q, r
<1>3. ASSUME NEW s \in Sockets PROVE r.ready[s] \notin {"connecting", "open"}
  <2>1. CASE s = p.socket
    BY <2>1, <1>1, <1>2, CloseSocketPage, BrowserAssumption DEF Handles
  <2>2. CASE s # p.socket
    <3>1. r.ready[s] = q.ready[s]
      BY <2>2, <1>1, <1>2, CloseSocketPage
    <3>. QED BY <2>2, <3>1, <1>1 DEF Base
  <2>. QED BY <2>1, <2>2
<1>4. r.socket = None /\ r.timers = {} /\ ~r.reconnect /\ r \in Pages
  BY <1>1, <1>2, CloseSocketPage
<1>5. r.active = p.active /\ r.hidden = p.hidden /\ r.requested = p.requested
  BY <1>1, <1>2, CloseSocketPage
<1>. QED BY <1>3, <1>4, <1>5 DEF Base, Timed, Known, CurrentIs, r

\* scheduleReconnect
LEMMA SchedulePage ==
    ASSUME NEW p, Base(p), Timed(p), Known(p), ~Wanted(p) => p.socket = None
    PROVE  Sound(ScheduleReconnect(p))
  BY BrowserAssumption
  DEF ScheduleReconnect, Sound, Whole, Base, Timed, Pending, Known, Wanted,
      CurrentIs, Pages, Handles

\* abandonTransport of the current socket, closed or about to be
LEMMA AbandonPage ==
    ASSUME NEW p, Base(p), NEW s \in Sockets, p.socket = s, NEW close \in BOOLEAN,
           close \/ p.ready[s] \notin {"connecting", "open"}
    PROVE  /\ Sound(AbandonTransport(p, s, close))
           /\ AbandonTransport(p, s, close).socket = None
<1> DEFINE c == ClearTransportTimers(p)
           q == [c EXCEPT !.socket = None, !.sent = "none"]
           r == IF close THEN CloseSocket(q, s) ELSE q
<1>1. /\ q \in Pages /\ q.timers = {} /\ q.socket = None
      /\ q.ready = p.ready
  <2>1. c \in Pages /\ c.timers = {} /\ c.ready = p.ready
    BY ClearPage
  <2>. HIDE DEF c
  <2>. QED BY <2>1 DEF Pages, Handles, Masks
<1>2. AbandonTransport(p, s, close) = ScheduleReconnect(r)
  BY DEF AbandonTransport
<1>. HIDE DEF q
<1>3. r \in Pages /\ r.socket = None /\ r.timers = {}
  BY <1>1, CloseSocketPage DEF Handles
<1>4. \A t \in Sockets : r.ready[t] \notin {"connecting", "open"}
  BY <1>1, CloseSocketPage, BrowserAssumption DEF Base, Handles
<1>5. ScheduleReconnect(r).socket = None
  BY <1>3 DEF ScheduleReconnect, Pages
<1>. QED BY <1>2, <1>3, <1>4, <1>5, SchedulePage DEF Base, Timed, Known, CurrentIs

\* abandonTransport of another one, as far as it can still be open
LEMMA AbandonOther ==
    ASSUME NEW p, Base(p), NEW s \in Sockets, p.socket # s, NEW close \in BOOLEAN
    PROVE  AbandonTransport(p, s, close) = p
  BY DEF AbandonTransport, CloseSocket, Base

\* sendInput in the middle of a handler
LEMMA SendBase ==
    ASSUME NEW p, Base(p), NEW force \in BOOLEAN, NEW ok \in BOOLEAN
    PROVE  /\ Base(SendInput(p, force, ok))
           /\ SendInput(p, force, ok).hidden = p.hidden
<1> DEFINE r == SendInput(p, force, ok)
<1>1. CASE r = p
  BY <1>1
<1>2. CASE r = [p EXCEPT !.sent = p.held, !.told = p.held]
  BY <1>2 DEF Base, Pages, Masks
<1>3. CASE CurrentIs(p, {"open"}) /\ r = AbandonTransport(p, p.socket, TRUE)
  <2>1. p.socket \in Sockets
    BY <1>3 DEF CurrentIs, Base, Pages, Handles
  <2>2. r.hidden = p.hidden
    BY <1>3 DEF AbandonTransport, ClearTransportTimers, CloseSocket,
                ScheduleReconnect, Base, Pages
  <2>. QED BY <1>3, <2>1, <2>2, AbandonPage DEF Sound, Whole
<1>. QED BY <1>1, <1>2, <1>3 DEF SendInput

\* sendInput of a page whose buttons may have changed
LEMMA SendPage ==
    ASSUME NEW p, Whole(p), NEW force \in BOOLEAN, NEW ok \in BOOLEAN,
           force \/ (CurrentIs(p, {"open"}) => p.told = p.sent)
    PROVE  Sound(SendInput(p, force, ok))
<1> DEFINE r == SendInput(p, force, ok)
<1>1. CASE (p.held = p.sent /\ ~force) \/ ~CurrentIs(p, {"open"})
  BY <1>1 DEF SendInput, Sound, Known
<1>2. CASE r = [p EXCEPT !.sent = p.held, !.told = p.held]
  <2>1. /\ r \in Pages /\ r.told = p.held /\ r.sent = p.held /\ r.held = p.held
        /\ r.active = p.active /\ r.hidden = p.hidden /\ r.requested = p.requested
        /\ r.socket = p.socket /\ r.ready = p.ready /\ r.timers = p.timers
        /\ r.reconnect = p.reconnect /\ r.connectTimer = p.connectTimer
        /\ r.heartbeatTimer = p.heartbeatTimer
    BY <1>2 DEF Whole, Base, Pages, Masks
  <2>. HIDE DEF r
  <2>2. Base(r)
    BY <2>1 DEF Whole, Base
  <2>3. Timed(r)
    BY <2>1 DEF Whole, Timed
  <2>4. Pending(r)
    BY <2>1 DEF Whole, Base, Pending, Wanted, Pages
  <2>5. Known(r)
    BY <2>1 DEF Known
  <2>. QED BY <2>2, <2>3, <2>4, <2>5 DEF Sound, Whole, r
<1>3. CASE CurrentIs(p, {"open"}) /\ r = AbandonTransport(p, p.socket, TRUE)
  <2>1. p.socket \in Sockets
    BY <1>3 DEF CurrentIs, Whole, Base, Pages, Handles
  <2>. QED BY <1>3, <2>1, AbandonPage DEF Whole
<1>. QED BY <1>1, <1>2, <1>3 DEF SendInput

\* The buttons change in a sound page.
LEMMA HoldPage ==
    ASSUME NEW p, Sound(p), NEW mask \in {"released", "pressed"}
    PROVE  LET r == [p EXCEPT !.held = mask] IN
           Whole(r) /\ (CurrentIs(r, {"open"}) => r.told = r.sent)
  BY DEF Sound, Whole, Base, Timed, Pending, Known, Wanted, CurrentIs, Pages

\* releaseAllControls
LEMMA ReleasePage ==
    ASSUME NEW p, Sound(p), NEW ok \in BOOLEAN
    PROVE  Sound(ReleaseAllControls(p, ok))
  BY HoldPage, SendPage DEF ReleaseAllControls

LEMMA ReleaseBase ==
    ASSUME NEW p, Base(p), NEW ok \in BOOLEAN
    PROVE  /\ Base(ReleaseAllControls(p, ok))
           /\ ReleaseAllControls(p, ok).hidden = p.hidden
<1>1. LET q == [p EXCEPT !.held = "released"] IN Base(q) /\ q.hidden = p.hidden
  BY DEF Base, Pages
<1>. QED BY <1>1, SendBase DEF ReleaseAllControls

\* connect, as the first call of a handler
LEMMA ConnectPage ==
    ASSUME NEW p, Base(p), Timed(p), Known(p), p.ready = page.ready,
           ~Wanted(p) => ~p.reconnect /\ p.socket = None,
           NEW r \in Connect(p)
    PROVE  Sound(r)
<1>1. CASE r = p /\ (~Wanted(p) \/ p.socket # None)
  BY <1>1 DEF Sound, Whole, Pending
<1>2. CASE Wanted(p) /\ r = ScheduleReconnect(p)
  BY <1>2, SchedulePage
<1>3. ASSUME Wanted(p), ~CurrentIs(p, {"open", "connecting"}),
             NEW s \in Sockets, p.ready[s] = "unused", r = Opening(p, s)
      PROVE  Sound(r)
  <2>1. /\ r \in Pages /\ Wanted(r) /\ r.socket = s /\ r.connectTimer = s
        /\ r.heartbeatTimer = p.heartbeatTimer
        /\ r.ready = [p.ready EXCEPT ![s] = "connecting"]
        /\ r.timers = p.timers \cup {<<"connect", s>>}
    <3>1. p \in Pages
      BY DEF Base
    <3>2. <<"connect", s>> \in Timers
      BY DEF Timers
    <3>3. p.timers \cup {<<"connect", s>>} \in SUBSET Timers
      BY <3>1, <3>2 DEF Pages
    <3>. QED BY <1>3, <3>1, <3>3 DEF Opening, Pages, Handles, Masks, Wanted
  <2>2. s # None /\ p.ready \in [Sockets -> {"unused", "connecting", "open",
                                            "closing", "closed"}]
    BY BrowserAssumption DEF Base, Pages
  <2>3. \A t \in Sockets : p.ready[t] \notin {"connecting", "open"}
    BY <1>3, BrowserAssumption DEF CurrentIs, Base
  <2>4. p.timers \subseteq {<<"heartbeat", p.heartbeatTimer>>}
    <3>1. \A t \in Sockets : <<"connect", t>> \notin p.timers
      BY <2>3 DEF Timed
    <3>. QED BY <3>1 DEF Base, Pages, Timers
  <2>. QED BY <2>1, <2>2, <2>3, <2>4
           DEF Sound, Whole, Base, Timed, Pending, Known, CurrentIs
<1>. QED BY <1>1, <1>2, <1>3, BrowserAssumption DEF Connect, NewSockets, CurrentIs

LEMMA ResumePage ==
    ASSUME NEW p, Base(p), Timed(p), Known(p), p.ready = page.ready, Wanted(p),
           NEW r \in Resume(p)
    PROVE  Sound(r)
  BY ConnectPage, SchedulePage DEF Resume

-----------------------------------------------------------------------------
(* The handlers *)

LEMMA UserStep == ASSUME PageInv, UserEvent PROVE PageInv'
<1>1. CASE StartStream
  <2> DEFINE p == [page EXCEPT !.requested = TRUE]
  <2>1. /\ Base(p) /\ Timed(p) /\ Known(p) /\ p.ready = page.ready
        /\ ~Wanted(p) => ~p.reconnect /\ p.socket = None
    BY DEF PageInv, Sound, Whole, Base, Timed, Known, Pending, Wanted, CurrentIs,
           Pages
  <2>2. page' \in Connect(p) \/ page' = ScheduleReconnect(p)
    BY <1>1 DEF StartStream
  <2>. HIDE DEF p
  <2>. QED BY <2>1, <2>2, ConnectPage, SchedulePage DEF PageInv
<1>2. CASE Hide
  <2> DEFINE p == [page EXCEPT !.hidden = TRUE]
  <2>1. Base(p) /\ p.hidden
    BY DEF PageInv, Sound, Whole, Base, Pages
  <2>. HIDE DEF p
  <2>2. PICK ok \in Sends : page' = SuspendStream(ReleaseAllControls(p, ok))
    BY <1>2 DEF Hide, p
  <2>3. ok \in BOOLEAN
    BY DEF Sends
  <2> DEFINE q == ReleaseAllControls(p, ok)
  <2>4. Base(q) /\ q.hidden
    BY <2>1, <2>3, ReleaseBase
  <2>. HIDE DEF q
  <2>5. page' = SuspendStream(q)
    BY <2>2 DEF q
  <2>. QED BY <2>4, <2>5, SuspendPage DEF PageInv, Sound, Whole, Pending, Wanted
<1>3. CASE Show
  <2> DEFINE p == [page EXCEPT !.hidden = FALSE]
  <2>1. /\ Base(p) /\ Timed(p) /\ Known(p) /\ p.ready = page.ready
        /\ ~p.reconnect /\ p.socket = None
    BY <1>3 DEF Show, PageInv, Sound, Whole, Base, Timed, Known, Pending, Wanted,
                CurrentIs, Pages
  <2>2. IF Wanted(p) THEN page' \in Resume(p) ELSE page' = p
    BY <1>3 DEF Show
  <2>. HIDE DEF p
  <2>. QED BY <2>1, <2>2, ResumePage DEF PageInv, Sound, Whole, Pending
<1>4. CASE PageHide
  <2>1. PICK ok \in Sends :
          page' = SuspendStream([ReleaseAllControls(page, ok) EXCEPT !.active = FALSE])
    BY <1>4 DEF PageHide
  <2>2. ok \in BOOLEAN
    BY DEF Sends
  <2> DEFINE q == [ReleaseAllControls(page, ok) EXCEPT !.active = FALSE]
  <2>3. Base(ReleaseAllControls(page, ok))
    BY <2>2, ReleaseBase DEF PageInv, Sound, Whole
  <2>4. Base(q) /\ ~q.active
    BY <2>3 DEF Base, Pages
  <2>5. page' = SuspendStream(q)
    BY <2>1
  <2>. HIDE DEF q
  <2>. QED BY <2>4, <2>5, SuspendPage DEF PageInv, Sound, Whole, Pending, Wanted
<1>5. CASE PageShow
  <2> DEFINE p == [page EXCEPT !.active = TRUE]
  <2>1. /\ Base(p) /\ Timed(p) /\ Known(p) /\ p.ready = page.ready
        /\ ~p.reconnect /\ p.socket = None
    BY <1>5 DEF PageShow, PageInv, Sound, Whole, Base, Timed, Known, Pending,
                Wanted, CurrentIs, Pages
  <2>2. IF Wanted(p) THEN page' \in Resume(p) ELSE page' = p
    BY <1>5 DEF PageShow
  <2>. HIDE DEF p
  <2>. QED BY <2>1, <2>2, ResumePage DEF PageInv, Sound, Whole, Pending
<1>6. CASE Offline
  <2> DEFINE q == ReleaseAllControls(page, TRUE)
  <2>1. Base(q)
    BY ReleaseBase DEF PageInv, Sound, Whole
  <2>2. page' = ScheduleReconnect(SuspendStream(q))
    BY <1>6 DEF Offline
  <2>. HIDE DEF q
  <2>. QED BY <2>1, <2>2, SuspendPage, SchedulePage DEF PageInv
<1>7. CASE Online
  BY <1>7, SchedulePage DEF Online, PageInv, Sound, Whole
<1>8. CASE SetControl
  <2>1. PICK ok \in Sends, mask \in {"released", "pressed"} :
          page' = SendInput([page EXCEPT !.held = mask], FALSE, ok)
    BY <1>8 DEF SetControl
  <2>. QED BY <2>1, HoldPage, SendPage DEF PageInv, Sends
<1>9. CASE Blur
  BY <1>9, ReleasePage DEF Blur, PageInv, Sends
<1>10. CASE DecoderStalled
  <2>1. page.socket \in Sockets
    BY <1>10 DEF DecoderStalled, CurrentIs, PageInv, Sound, Whole, Base, Pages,
                 Handles
  <2>. QED BY <1>10, <2>1, AbandonPage DEF DecoderStalled, PageInv, Sound, Whole
<1>. QED BY <1>1, <1>2, <1>3, <1>4, <1>5, <1>6, <1>7, <1>8, <1>9, <1>10
         DEF UserEvent

LEMMA ReconnectStep == ASSUME PageInv, ReconnectTimer PROVE PageInv'
<1> DEFINE p == [page EXCEPT !.reconnect = FALSE]
<1>1. /\ Base(p) /\ Timed(p) /\ Known(p) /\ p.ready = page.ready
      /\ ~p.reconnect /\ (~Wanted(p) => p.socket = None)
  BY DEF PageInv, Sound, Whole, Base, Timed, Known, Pending, Wanted, CurrentIs,
         Pages
<1>2. page' \in Connect(p)
  BY DEF ReconnectTimer
<1>. HIDE DEF p
<1>. QED BY <1>1, <1>2, ConnectPage DEF PageInv

LEMMA TimerStep ==
    ASSUME PageInv,
           NEW s \in Sockets,
           \/ StateLoaded(s) \/ ConnectTimeout(s)
           \/ HeartbeatEnds(s) \/ HeartbeatSilent(s) \/ HeartbeatSent(s)
    PROVE  PageInv'
<1>. USE DEF PageInv
<1>0. s # None
  BY BrowserAssumption
<1>2. CASE StateLoaded(s)
  BY <1>2, ReleasePage DEF StateLoaded, Sends
<1>3. CASE ConnectTimeout(s)
  \* The timer is the current socket's, which is still connecting.
  <2> DEFINE p == [page EXCEPT !.timers = @ \ {<<"connect", s>>},
                               !.connectTimer = None]
  <2>1. page.socket = s /\ page.ready[s] = "connecting"
    BY <1>3 DEF ConnectTimeout, Sound, Whole, Timed
  <2>2. p \in Pages /\ p.ready = page.ready /\ p.socket = page.socket
    BY DEF Sound, Whole, Base, Pages, Handles
  <2>3. p.timers \subseteq {<<"heartbeat", p.heartbeatTimer>>}
    BY <1>3 DEF ConnectTimeout, Sound, Whole, Base, Pages
  <2>4. Base(p)
    BY <2>2, <2>3 DEF Sound, Whole, Base
  <2>5. page' = AbandonTransport(p, s, TRUE)
    BY <1>3, <2>1, <2>2 DEF ConnectTimeout
  <2>. HIDE DEF p
  <2>. QED BY <2>1, <2>2, <2>4, <2>5, AbandonPage
<1>4. ASSUME <<"heartbeat", s>> \in page.timers
      PROVE  /\ Base(Ticked(s)) /\ Ticked(s).socket = page.socket
             /\ Ticked(s).ready = page.ready
  BY <1>4 DEF Ticked, Sound, Whole, Base, Pages, Handles
<1>5. CASE HeartbeatEnds(s)
  \* The current socket's heartbeat is pending only if it is open.
  <2>1. <<"heartbeat", s>> \in page.timers /\ ~Beating(s) /\ page' = Ticked(s)
    BY <1>5 DEF HeartbeatEnds
  <2>2. page.heartbeatTimer = s
    BY <2>1, <1>0 DEF Sound, Whole, Base, Pages
  <2>3. page.socket # None => page.ready[page.socket] # "open"
    BY <2>1, <2>2 DEF Beating, Sound, Whole, Base, Timed, Pending, Pages
  <2>4. /\ Ticked(s).timers = page.timers \ {<<"heartbeat", s>>}
        /\ Ticked(s).reconnect = page.reconnect
        /\ Wanted(Ticked(s)) = Wanted(page)
    BY DEF Ticked, Wanted, Sound, Whole, Base, Pages
  <2>5. Timed(Ticked(s))
    BY <2>1, <2>3, <2>4, <1>4 DEF Sound, Whole, Timed
  <2>6. Pending(Ticked(s)) /\ Known(Ticked(s))
    BY <2>1, <2>3, <2>4, <1>4 DEF Sound, Whole, Pending, Known, CurrentIs
  <2>. QED BY <2>1, <2>5, <2>6, <1>4 DEF Sound, Whole
<1>6. CASE HeartbeatSilent(s)
  BY <1>6, <1>4, AbandonPage DEF HeartbeatSilent, Beating
<1>7. CASE HeartbeatSent(s)
  <2>1. CASE page' = AbandonTransport(Ticked(s), s, TRUE)
    BY <2>1, <1>7, <1>4, AbandonPage DEF HeartbeatSent, Beating
  <2>2. CASE page' = [page EXCEPT !.told = page.held]
    BY <2>2 DEF Sound, Whole, Base, Timed, Pending, Known, Wanted, CurrentIs,
                Pages, Masks
  <2>. QED BY <2>1, <2>2, <1>7 DEF HeartbeatSent
<1>. QED BY <1>2, <1>3, <1>5, <1>6, <1>7

\* A socket that has nothing to do with the page changes between states the
\* page does not look at.
LEMMA Elsewhere ==
    ASSUME PageInv, NEW s \in Sockets, page.socket # s,
           NEW to \in {"closing", "closed", "unused"},
           page' = [page EXCEPT !.ready[s] = to]
    PROVE  PageInv'
  BY DEF PageInv, Sound, Whole, Base, Timed, Pending, Known, Wanted, CurrentIs,
         Pages

LEMMA SocketStep ==
    ASSUME PageInv, NEW s \in Sockets,
           OnOpen(s) \/ OnError(s) \/ PeerCloses(s) \/ OnClose(s)
    PROVE  PageInv'
<1>0. s # None /\ page \in Pages /\ Base(page)
  BY BrowserAssumption DEF PageInv, Sound, Whole, Base
<1> DEFINE Ends(to) == [page EXCEPT !.ready[s] = to]
\* An end that is reported leaves nothing to close.
<1>1. ASSUME NEW close \in BOOLEAN, NEW r,
             r = AbandonTransport(Ends("closed"), s, close),
             page' \in {r, [r EXCEPT !.ready[s] = "unused"]}
      PROVE  PageInv'
  <2>1. /\ Base(Ends("closed")) /\ Ends("closed").ready[s] = "closed"
        /\ Ends("closed").socket = page.socket
    BY <1>0 DEF Base, Pages
  <2>2. CASE page.socket = s
    <3>1. Sound(r) /\ r.socket # s
      <4> DEFINE e == Ends("closed")
      <4>1. /\ Base(e) /\ e.socket = s /\ e.ready[s] \notin {"connecting", "open"}
            /\ r = AbandonTransport(e, s, close)
        BY <1>1, <2>1, <2>2
      <4>. HIDE DEF e
      <4>. QED BY <1>0, <1>1, <4>1, AbandonPage
    <3>2. CASE page' = r
      BY <3>1, <3>2 DEF PageInv
    <3>3. CASE page' = [r EXCEPT !.ready[s] = "unused"]
      BY <3>1, <3>3, <1>0
      DEF PageInv, Sound, Whole, Base, Timed, Pending, Known, Wanted, CurrentIs,
          Pages
    <3>. QED BY <3>2, <3>3, <1>1
  <2>3. CASE page.socket # s
    <3>1. r = Ends("closed")
      BY <1>1, <2>1, <2>3, AbandonOther
    <3>2. page' \in {Ends("closed"), Ends("unused")}
      BY <1>1, <3>1, <1>0 DEF Pages
    <3>. QED BY <2>3, <3>2, Elsewhere
  <2>. QED BY <2>2, <2>3
<1>2. CASE OnError(s)
  BY <1>1, <1>2 DEF OnError, Settle
<1>3. CASE OnClose(s)
  BY <1>1, <1>3 DEF OnClose, Settle
<1>4. CASE PeerCloses(s)
  <2>1. page.socket = s /\ page' = Ends("closing") /\ page.ready[s] = "open"
    BY <1>4, <1>0 DEF PeerCloses, Base
  <2>. QED BY <2>1, <1>0
           DEF PageInv, Sound, Whole, Base, Timed, Pending, Known, Wanted,
               CurrentIs, Pages
<1>5. CASE OnOpen(s)
  <2> DEFINE p == Ends("open")
  <2>1. p \in Pages /\ p.ready[s] = "open" /\ p.socket = page.socket
    BY <1>0 DEF Pages
  <2>2. CASE page.socket # s
    <3>1. page' = CloseSocket(p, s)
      BY <1>5, <2>1, <2>2 DEF OnOpen
    <3>2. page' = Ends("closing")
      BY <3>1, <2>1, <1>0 DEF CloseSocket, Pages
    <3>. QED BY <2>2, <3>2, Elsewhere
  <2>3. CASE page.socket = s
    <3>1. Wanted(page) /\ Wanted(p)
      BY <2>3, <1>0 DEF PageInv, Sound, Whole, Pending, Wanted, Pages
    <3>2. PICK ok \in Sends : page' = Opened(p, s, ok)
      BY <1>5, <2>1, <2>3, <3>1 DEF OnOpen
    <3>3. ok \in BOOLEAN
      BY DEF Sends
    <3> DEFINE up == [p EXCEPT !.timers = @ \ {<<"connect", p.connectTimer>>},
                               !.connectTimer = None]
               sent == SendInput(up, TRUE, ok)
    <3>4. /\ up \in Pages /\ up.socket = s /\ up.ready = p.ready
          /\ up.reconnect = page.reconnect /\ Wanted(up)
          /\ up.timers \subseteq {<<"heartbeat", up.heartbeatTimer>>}
      BY <2>1, <2>3, <3>1, <1>0 DEF Base, Pages, Handles, Wanted
    <3>5. \A t \in Sockets : up.ready[t] \in {"connecting", "open"} => t = s
      BY <3>4, <2>3, <1>0 DEF Base, Pages
    <3>6. SendInput(up, TRUE, ok) =
            IF ok THEN [up EXCEPT !.sent = up.held, !.told = up.held]
                  ELSE AbandonTransport(up, s, TRUE)
      <4>1. CurrentIs(up, {"open"})
        BY <3>4, <2>1, <1>0 DEF CurrentIs
      <4>2. up.socket = s
        BY <3>4
      <4>. HIDE DEF up
      <4>. QED BY <4>1, <4>2 DEF SendInput
    <3>7. Opened(p, s, ok) =
            IF sent.socket # s THEN sent
            ELSE [sent EXCEPT !.timers = (@ \ {<<"heartbeat", sent.heartbeatTimer>>})
                                            \cup {<<"heartbeat", s>>},
                              !.heartbeatTimer = s]
      BY DEF Opened
    <3>. HIDE DEF up
    <3>8. CASE ~ok
      <4>1. Base(up)
        BY <3>4, <3>5 DEF Base
      <4>2. Sound(sent) /\ sent.socket = None
        BY <3>4, <3>6, <3>8, <4>1, AbandonPage
      <4>. HIDE DEF sent
      <4>3. Opened(p, s, ok) = sent
        BY <3>7, <4>2, <1>0
      <4>. QED BY <3>2, <4>2, <4>3 DEF PageInv
    <3>9. CASE ok
      <4> DEFINE r == Opened(p, s, ok)
      <4>1. /\ sent \in Pages /\ sent.socket = s /\ sent.ready = p.ready
            /\ sent.told = sent.held /\ sent.sent = sent.held
            /\ Wanted(sent) /\ sent.heartbeatTimer = up.heartbeatTimer
            /\ sent.timers = up.timers
        <5>1. sent = [up EXCEPT !.sent = up.held, !.told = up.held]
          BY <3>6, <3>9
        <5>. HIDE DEF sent
        <5>. QED BY <5>1, <3>4 DEF Pages, Masks, Wanted
      <4>. HIDE DEF sent
      <4>2. <<"heartbeat", s>> \in Timers
        BY DEF Timers
      <4>3. (sent.timers \ {<<"heartbeat", sent.heartbeatTimer>>})
               \cup {<<"heartbeat", s>>} = {<<"heartbeat", s>>}
        BY <4>1, <3>4
      <4>4. /\ r \in Pages /\ r.socket = s /\ r.ready = p.ready
            /\ r.told = r.held /\ r.sent = r.held /\ Wanted(r)
            /\ r.timers = {<<"heartbeat", s>>} /\ r.heartbeatTimer = s
        <5>1. r = [sent EXCEPT !.timers = {<<"heartbeat", s>>},
                               !.heartbeatTimer = s]
          BY <4>1, <4>3, <3>7
        <5>. HIDE DEF r
        <5>. QED BY <5>1, <4>1, <4>2 DEF Pages, Handles, Wanted
      <4>. HIDE DEF r
      <4>5. Base(r) /\ Timed(r) /\ Pending(r) /\ Known(r)
        BY <4>4, <3>4, <3>5, <2>1, <1>0 DEF Base, Timed, Pending, Known
      <4>. QED BY <4>5, <3>2 DEF PageInv, Sound, Whole, r
    <3>. QED BY <3>3, <3>8, <3>9
  <2>. QED BY <2>2, <2>3
<1>. QED BY <1>2, <1>3, <1>4, <1>5

-----------------------------------------------------------------------------
(* Theorems *)

LEMMA PageInitially == Init => PageInv
  BY BrowserAssumption
  DEF Init, PageInv, Sound, Whole, Base, Timed, Pending, Known, Wanted, CurrentIs,
      Pages, Handles, Timers, Masks

\* A server event leaves the page alone, except that it lets go of a socket
\* whose end it had reported.
LEMMA ServerStep ==
    ASSUME PageInv, NEW s \in Sockets, ServerEvent(s)
    PROVE  PageInv'
<1>1. page' = page \/ (page.ready[s] = "closed" /\ page' = [page EXCEPT !.ready[s] = "unused"])
  BY DEF ServerEvent, ServerAnswers, ServerEnds, Lose, Settle
<1>2. CASE page' = page
  BY <1>2 DEF PageInv
<1>3. CASE page.ready[s] = "closed" /\ page' = [page EXCEPT !.ready[s] = "unused"]
  <2>1. page.socket # s
    BY <1>3, BrowserAssumption DEF PageInv, Sound, Whole, Timed
  <2>. QED BY <1>3, <2>1, Elsewhere
<1>. QED BY <1>1, <1>2, <1>3

LEMMA PageInvariant == Spec => []PageInv
<1>1. PageInv /\ [Next]_vars => PageInv'
  <2> SUFFICES ASSUME PageInv, [Next]_vars PROVE PageInv'
    OBVIOUS
  <2>1. CASE UserEvent
    BY <2>1, UserStep
  <2>2. ASSUME NEW s \in Sockets, SocketEvent(s) PROVE PageInv'
    BY <2>2, TimerStep, SocketStep DEF SocketEvent
  <2>3. ASSUME NEW s \in Sockets, ServerEvent(s) PROVE PageInv'
    BY <2>3, ServerStep
  <2>4. CASE ReconnectTimer
    BY <2>4, ReconnectStep
  <2>5. CASE RivalComes \/ RivalLeaves \/ CalmDown \/ UNCHANGED vars
    BY <2>5 DEF RivalComes, RivalLeaves, CalmDown, vars, PageInv
  <2>. QED BY <2>1, <2>2, <2>3, <2>4, <2>5 DEF Next
<1>. QED BY <1>1, PageInitially, PTL DEF Spec

\* The model of page, network and server is type correct, for any sockets.
THEOREM BrowserTyped == Spec => []TypeOK
<1>1. Init => TypeOK
  <2>1. Init => page \in Pages
    BY PageInitially DEF PageInv, Sound, Whole, Base
  <2>2. FreshLink \in Links
    BY DEF FreshLink, Links
  <2>3. Init => link \in [Sockets -> Links] /\ rival \in BOOLEAN /\ calm \in BOOLEAN
    BY <2>2 DEF Init
  <2>. QED BY <2>1, <2>3 DEF TypeOK
<1>2. TypeOK /\ PageInv' /\ [Next]_vars => TypeOK'
  <2> SUFFICES ASSUME TypeOK, PageInv', [Next]_vars PROVE TypeOK'
    OBVIOUS
  <2>1. (page \in Pages)'
    BY DEF PageInv, Sound, Whole, Base
  <2>2. CASE UserEvent \/ ReconnectTimer \/ RivalComes \/ RivalLeaves
             \/ CalmDown \/ UNCHANGED vars
    BY <2>1, <2>2
    DEF TypeOK, UserEvent, StartStream, Hide, Show, PageHide, PageShow, Offline,
        Online, SetControl, Blur, DecoderStalled, ReconnectTimer, RivalComes,
        RivalLeaves, CalmDown, Others, vars
  <2>3. ASSUME NEW s \in Sockets, NEW p, NEW l \in Links, Settle(p, l, s)
        PROVE  (link \in [Sockets -> Links])'
    <3>1. FreshLink \in Links
      BY DEF FreshLink, Links
    <3>. QED BY <2>3, <3>1 DEF Settle, TypeOK
  <2>4. ASSUME NEW s \in Sockets, SocketEvent(s) PROVE TypeOK'
    <3>1. CASE StateLoaded(s) \/ ConnectTimeout(s) \/ HeartbeatEnds(s)
               \/ HeartbeatSilent(s) \/ HeartbeatSent(s) \/ PeerCloses(s)
      BY <2>1, <3>1 DEF TypeOK, StateLoaded, ConnectTimeout, HeartbeatEnds,
                        HeartbeatSilent, HeartbeatSent, PeerCloses, Others
    <3>2. CASE OnOpen(s)
      BY <2>1, <3>2 DEF TypeOK, OnOpen, Links
    <3>3. CASE OnError(s)
      BY <2>1, <2>3, <3>3 DEF TypeOK, OnError
    <3>4. CASE OnClose(s)
      BY <2>1, <2>3, <3>4 DEF TypeOK, OnClose
    <3>. QED BY <2>4, <3>1, <3>2, <3>3, <3>4 DEF SocketEvent
  <2>5. ASSUME NEW s \in Sockets, ServerEvent(s) PROVE TypeOK'
    <3>1. CASE ServerAnswers(s)
      <4>1. [link[s] EXCEPT !.server = IF SlotTaken THEN "refused" ELSE "viewer"]
              \in Links
        BY DEF TypeOK, Links
      <4>. QED BY <2>1, <2>3, <3>1, <4>1 DEF TypeOK, ServerAnswers
    <3>2. CASE ServerEnds(s)
      <4>1. [link[s] EXCEPT !.server = "ended"] \in Links
        BY DEF TypeOK, Links
      <4>. QED BY <2>1, <2>3, <3>2, <4>1 DEF TypeOK, ServerEnds
    <3>3. CASE Lose(s)
      BY <2>1, <3>3 DEF TypeOK, Lose, Links
    <3>. QED BY <2>5, <3>1, <3>2, <3>3 DEF ServerEvent
  <2>. QED BY <2>2, <2>4, <2>5 DEF Next
<1>. QED BY <1>1, <1>2, PageInvariant, PTL DEF Spec

\* The page holds at most one connection, and none with a pending timer while
\* it is hidden, inactive or not started, for any number of sockets that
\* overlap (play.html: connect, abandonTransport, suspendStream).
THEOREM OneConnectionHeld == Spec => []OneConnection
<1>1. PageInv => OneConnection
  BY DEF PageInv, Sound, Whole, Base, Timed, Pending, OneConnection
<1>. QED BY <1>1, PageInvariant, PTL

\* Every pending timer can be cancelled through its handle: none was ever
\* overwritten by that of a later socket.
THEOREM TimersCancellable == Spec => []NoStrayTimer
<1>1. PageInv => NoStrayTimer
  BY DEF PageInv, Sound, Whole, Base, NoStrayTimer
<1>. QED BY <1>1, PageInvariant, PTL

\* A page that should be streaming always has a next step of its own.
THEOREM PageNeverStuck == Spec => []NeverStuck
<1>1. PageInv => NeverStuck
  BY DEF PageInv, Sound, Whole, Timed, Pending, NeverStuck
<1>. QED BY <1>1, PageInvariant, PTL

\* On an open connection the server was told of the buttons as they are
\* (sendInput, releaseAllControls, heartbeat, onopen).
THEOREM ButtonsAreKnown == Spec => []ButtonsKnown
<1>1. PageInv => ButtonsKnown
  BY DEF PageInv, Sound, Known, ButtonsKnown
<1>. QED BY <1>1, PageInvariant, PTL
=============================================================================
