------------------------------ MODULE TrapClient ------------------------------
(***************************************************************************)
(* The life of a Trap connection: Trap.ClientEndpoint, which keeps one of  *)
(* several transports connected, and the transports themselves             *)
(* (trap-full.js).  Events of the browser (sockets, requests, timers) and  *)
(* the server's messages come in any order.                                *)
(*                                                                         *)
(* A state change of a transport calls the endpoint, which may disconnect  *)
(* other transports and change its own state before the call returns.  The *)
(* operators below therefore map a pair of states, [e: endpoint, t:        *)
(* transports], to the pair after the call; every action applies one.      *)
(***************************************************************************)
EXTENDS Integers, FiniteSets, SequencesExt

CONSTANTS
    Kind,        \* the kinds of the transports, the most preferred first
    MaxFaults,   \* bound: what the network, the server and the user do to it
    MaxPosts     \* bound: unanswered POSTs of a transport

ASSUME ClientAssumption ==
    /\ Kind \in Seq({"websocket", "http"})
    /\ MaxFaults \in Nat /\ MaxPosts \in Nat

(* A transport is its place in the order of getTransportPriority. *)
Transports == 1..Len(Kind)

VARIABLES
    endpoint,    \* the endpoint: state, lists of transports, its timers
    transport,   \* for every transport its state and what the browser does for it
    faults       \* counts faults, for MaxFaults

vars == <<endpoint, transport, faults>>

NewEndpoint ==
    [state |-> "CLOSED",
     starting |-> TRUE,        \* the timer of the constructor
     toConnect |-> {},         \* transportsToConnect, a Set
     active |-> {},            \* activeTransports
     avail |-> <<>>,           \* availableTransports
     recovering |-> FALSE,     \* recovering is set
     recoverTimer |-> FALSE,   \* ... and its timer has not fired yet
     reopens |-> 0,            \* timers of ttStateChanged that call doOpen
     cycling |-> FALSE,        \* _cycling is set; it is never reset
     cycleTimer |-> FALSE,     \* ... and its timer has not fired yet
     periodic |-> FALSE,       \* the timer of recoveryFun
     endQueued |-> FALSE]      \* an END message waits for a transport

NewTransport ==
    [st |-> "DISCONNECTED",
     hooked |-> TRUE,          \* the endpoint hears of its events
     sock |-> "none",          \* ws: the socket whose events it handles
     stray |-> 0,              \* sockets that are open and handled by nobody
     gets |-> 0,               \* the connecting GETs of an HTTP transport
     polls |-> 0,              \* its long polls whose answers it handles
     running |-> FALSE,        \* running: to poll again after an answer
     posts |-> 0,              \* its unanswered POSTs
     buffered |-> FALSE,       \* _buf is not empty
     sendQueued |-> FALSE,     \* _sendQueued
     flushes |-> 0,            \* timers that flush the transport
     quit |-> FALSE,           \* internalDisconnect waits, or posts the end
     owes |-> FALSE]           \* the server has to answer an OPEN

Now == [e |-> endpoint, t |-> transport]

Apply(s) == endpoint' = s.e /\ transport' = s.t

Ended(e) == e.state \in {"CLOSED", "CLOSING", "ERROR"}

Down(x) == x.st \in {"ERROR", "DISCONNECTED"}

IsWs(k) == Kind[k] = "websocket"

Without(seq, k) == RemoveFirst(seq, k)

Init ==
    /\ endpoint = NewEndpoint
    /\ transport = [k \in Transports |-> NewTransport]
    /\ faults = 0
-----------------------------------------------------------------------------
(* setState of a transport, without its listeners.  HTTP also stops        *)
(* polling when it leaves DISCONNECTED or ERROR, and is flushed a moment   *)
(* after its POST was answered.                                            *)
Changed(s, k, new) ==
    LET x     == s.t[k]
        flush == ~IsWs(k) /\ new = "AVAILABLE" /\ x.st = "UNAVAILABLE"
    IN  [s EXCEPT !.t[k] =
            [x EXCEPT !.st = new, !.running = x.running /\ ~Down(x),
                      !.flushes = IF flush THEN x.flushes + 1 ELSE x.flushes]]

(* A state in which a transport is neither available nor down: the         *)
(* endpoint only takes it off the list of the available ones.              *)
Quiet(s, k, new) ==
    LET c == Changed(s, k, new)
    IN  IF s.t[k].hooked THEN [c EXCEPT !.e.avail = Without(@, k)] ELSE c

(* internalSend of HTTP, with something to send. *)
Post(s, k) ==
    LET x == s.t[k]
        p == [s EXCEPT !.t[k] = [x EXCEPT !.posts = x.posts + 1, !.sendQueued = TRUE,
                                          !.buffered = TRUE]]
    IN  IF s.t[k].st \in {"AVAILABLE", "CONNECTED"}
        THEN Quiet(p, k, "UNAVAILABLE") ELSE p

InternalDisconnect(s, k) ==
    IF ~IsWs(k) THEN [s EXCEPT !.t[k].quit = TRUE]
    ELSE LET d == IF Down(s.t[k]) THEN s ELSE Quiet(s, k, "DISCONNECTING")
         IN  [d EXCEPT !.t[k].sock = IF @ = "none" THEN @ ELSE "closing"]

Disconnect(s, k) ==
    LET d == Quiet(s, k, "DISCONNECTING")
    IN  CASE Down(s.t[k]) \/ s.t[k].st = "DISCONNECTING" -> s
          [] s.t[k].st = "CONNECTING" -> InternalDisconnect(s, k)
          [] OTHER -> InternalDisconnect(IF IsWs(k) THEN d ELSE Post(d, k), k)

DisconnectAll(s) ==
    LET run[k \in 0..Len(Kind)] == IF k = 0 THEN s ELSE Disconnect(run[k - 1], k)
    IN  run[Len(Kind)]

(* setState(ERROR) of the endpoint. *)
Fail(s) == DisconnectAll([s EXCEPT !.e.state = "ERROR"])

(* kickRecoveryThread *)
Kick(s) ==
    IF s.e.recovering THEN s
    ELSE [s EXCEPT !.e = [@ EXCEPT !.recovering = TRUE, !.recoverTimer = TRUE]]

DoOpen(s) ==
    Kick([s EXCEPT !.e = [@ EXCEPT !.active = {}, !.avail = <<>>, !.toConnect = Transports]])

(* cycleTransport: the endpoint does not hear of the transport any more,   *)
(* until it connects it again.                                             *)
Cycle(s, k) ==
    LET c == [Disconnect([s EXCEPT !.t[k].hooked = FALSE], k) EXCEPT !.e.active = @ \ {k}]
    IN  CASE c.e.toConnect # {}                         -> Kick(c)
          [] c.e.toConnect = {} /\ c.e.active # {}      -> c
          [] c.e.toConnect = {} /\ c.e.active = {} /\ c.e.state = "OPENING" -> Fail(c)
          [] OTHER -> IF c.e.cycling THEN c
                      ELSE [c EXCEPT !.e = [@ EXCEPT !.cycling = TRUE, !.cycleTimer = TRUE]]

(* A transport that was in use is down.  inTime: canReconnectUntil has not *)
(* passed.                                                                 *)
Lost(s, k, inTime) ==
    LET a == [s EXCEPT !.e.active = @ \ {k}]
    IN  CASE a.e.active # {}          -> Kick([a EXCEPT !.e.toConnect = @ \union {k}])
          [] a.e.active = {} /\ a.e.state = "OPENING" -> Kick(a)
          [] a.e.active = {} /\ a.e.state = "OPEN" ->
                [a EXCEPT !.e = [@ EXCEPT !.state = "SLEEPING", !.reopens = a.e.reopens + 1]]
          [] OTHER -> IF inTime THEN [a EXCEPT !.e.reopens = @ + 1] ELSE a

(* Variant: nothing is disconnected. *)
BecomeAvailableToo(s, k) == [s EXCEPT !.e.avail = Append(@, k)]

(* addTransportToAvailable: a transport is listed before the first one     *)
(* that is less preferred, and the last one is disconnected when there are *)
(* more than maxActiveTransports, 1.                                       *)
Inserted(seq, k) ==
    LET after == {i \in DOMAIN seq : seq[i] > k}
        pos   == IF after = {} THEN Len(seq) + 1
                 ELSE CHOOSE i \in after : \A j \in after : i <= j
    IN  InsertAt(seq, pos, k)

BecomeAvailable(s, k) ==
    LET list == Inserted(s.e.avail, k)
        b    == [s EXCEPT !.e.avail = list]
    IN  IF Len(list) > 1 THEN Disconnect(b, list[Len(list)]) ELSE b

(* sendOpen *)
SendOpen(s, k) ==
    LET o == [s EXCEPT !.t[k].owes = TRUE] IN IF IsWs(k) THEN o ELSE Post(o, k)

(* ttStateChanged of Endpoint: with its last transport a closing endpoint  *)
(* is closed.                                                              *)
BaseDown(s, k) ==
    LET r == [s EXCEPT !.e.avail = Without(@, k)]
    IN  IF r.e.state = "CLOSING" /\ \A j \in Transports : Down(r.t[j])
        THEN [r EXCEPT !.e.state = "CLOSED"] ELSE r

(* setState of a transport, with ttStateChanged of ClientEndpoint. *)
SetState(s, k, new, inTime) ==
    LET old == s.t[k].st
        c   == Changed(s, k, new)
        q   == Quiet(s, k, new)
        b   == BaseDown(c, k)
    IN  CASE new = old                -> c
          [] new # old /\ ~c.t[k].hooked -> c
          [] new # old /\ c.t[k].hooked /\ new = "AVAILABLE" -> BecomeAvailable(c, k)
          [] new # old /\ c.t[k].hooked /\ new = "CONNECTED" ->
                CASE Ended(q.e) -> q
                  [] ~Ended(q.e) /\ old = "CONNECTING" -> SendOpen(q, k)
                  [] ~Ended(q.e) /\ old = "DISCONNECTING" -> [q EXCEPT !.e.active = @ \ {k}]
                  [] OTHER -> q
          [] OTHER ->
                CASE Ended(b.e) -> b
                  [] ~Ended(b.e) /\ old \in {"AVAILABLE", "UNAVAILABLE", "CONNECTED"} ->
                        Lost(b, k, inTime)
                  [] ~Ended(b.e) /\ old = "CONNECTING" ->
                        Cycle([b EXCEPT !.e.active = @ \ {k}], k)
                  [] OTHER -> [b EXCEPT !.e.active = @ \ {k}]
-----------------------------------------------------------------------------
(* onEnd of the endpoint: the peer ends the session, or answers our END. *)
OnEnd(s) ==
    IF s.e.state = "CLOSING" THEN [DisconnectAll(s) EXCEPT !.e.state = "CLOSED"]
    ELSE [s EXCEPT !.e = [@ EXCEPT !.state = "CLOSING", !.endQueued = TRUE]]

(* onOpened: new configuration from the server makes every transport that  *)
(* is not active be tried again.                                           *)
OnOpened(s, withConfig) ==
    LET o == IF Ended(s.e) THEN s ELSE [s EXCEPT !.e.state = "OPEN"]
    IN  IF withConfig
        THEN Kick([o EXCEPT !.e.toConnect = @ \union (Transports \ o.e.active)])
        ELSE o

(* init and connect of a transport, for the recovery; making the socket or *)
(* the request may throw.  The socket that the transport had is not        *)
(* closed, only its handlers are removed, and of its polls only those of   *)
(* the last one.                                                           *)
Connect(s, k, throws) ==
    LET x == [s.t[k] EXCEPT
                !.st = "DISCONNECTED", !.hooked = TRUE, !.owes = FALSE,
                !.stray = IF s.t[k].sock \in {"opening", "open"} THEN @ + 1 ELSE @,
                !.sock = "none", !.buffered = FALSE,
                !.polls = IF @ > 0 THEN @ - 1 ELSE 0]
        i == [s EXCEPT !.e.active = @ \union {k}, !.t[k] = x]
        c == Quiet(i, k, "CONNECTING")
    IN  CASE throws /\ IsWs(k)   -> [c EXCEPT !.e.active = @ \ {k}]
          [] throws /\ ~IsWs(k)  -> SetState(c, k, "ERROR", TRUE)
          [] ~throws /\ IsWs(k)  -> [c EXCEPT !.t[k].sock = "opening"]
          [] ~throws /\ ~IsWs(k) -> [c EXCEPT !.t[k].gets = @ + 1]

DownPrioritised(s, k) == \E i \in DOMAIN s.e.avail : s.e.avail[i] < k

(* Variant: the flag stays set. *)
ConnectAllKeepingFlag(s, throwing) ==
    LET run[k \in 0..Len(Kind)] ==
            IF k = 0 THEN s
            ELSE IF k \notin s.e.toConnect THEN run[k - 1]
            ELSE Connect([run[k - 1] EXCEPT !.e.toConnect = @ \ {k}], k, k \in throwing)
    IN  run[Len(Kind)]

(* The loop of the recovery: transports are connected in the order of      *)
(* their priority, up to one that is less preferred than an available one. *)
ConnectAll(s, throwing) ==
    LET run[k \in 0..Len(Kind)] ==
            IF k = 0 THEN s
            ELSE IF k \notin s.e.toConnect \/ DownPrioritised(run[k - 1], k) THEN run[k - 1]
            ELSE Connect([run[k - 1] EXCEPT !.e.toConnect = @ \ {k}], k, k \in throwing)
    IN  [run[Len(Kind)] EXCEPT !.e.recovering = FALSE]
-----------------------------------------------------------------------------
(* What the network, the server or the user may do a number of times. *)
Fault(n) == faults + n <= MaxFaults /\ faults' = faults + n

Sane == UNCHANGED faults

(* The timer of the constructor. *)
Start ==
    /\ endpoint.starting
    /\ Apply(DoOpen([Now EXCEPT !.e = [@ EXCEPT !.starting = FALSE, !.state = "OPENING",
                                                !.periodic = TRUE]]))
    /\ Sane

(* Variant: it connects the transports of an ended endpoint too. *)
RecoverAnyway ==
    /\ endpoint.recoverTimer
    /\ Apply(ConnectAll([Now EXCEPT !.e.recoverTimer = FALSE], {}))
    /\ Sane

(* The timer of kickRecoveryThread.  When the endpoint has ended it        *)
(* returns with recovering set.                                            *)
Recover ==
    /\ endpoint.recoverTimer
    /\ LET s == [Now EXCEPT !.e.recoverTimer = FALSE]
       IN  IF Ended(endpoint) THEN Apply(s) /\ Sane
           ELSE \E throwing \in SUBSET endpoint.toConnect :
                    /\ Fault(Cardinality(throwing))
                    /\ Apply(ConnectAll(s, throwing))

(* The timers that call doOpen, whatever has happened since. *)
Reopen ==
    /\ endpoint.reopens > 0
    /\ Apply(DoOpen([Now EXCEPT !.e.reopens = @ - 1]))
    /\ Sane

CycleAgain ==
    /\ endpoint.cycleTimer
    /\ Apply(DoOpen([Now EXCEPT !.e.cycleTimer = FALSE]))
    /\ Sane

(* recoveryFun, every 15 minutes until it finds the endpoint closed. *)
Periodic ==
    /\ endpoint.periodic
    /\ IF endpoint.state \in {"CLOSING", "CLOSED"}
       THEN Apply([Now EXCEPT !.e.periodic = FALSE])
       ELSE Apply(Kick([Now EXCEPT !.e.toConnect = @ \union (Transports \ endpoint.active)]))
    /\ Sane

(* close, by the application. *)
Close ==
    /\ endpoint.state \in {"OPENING", "OPEN", "SLEEPING"}
    /\ Fault(1)
    /\ LET s == [Now EXCEPT !.e.state = "CLOSING"]
           d == IF endpoint.state = "SLEEPING" THEN OnEnd(s) ELSE s
       IN  Apply([d EXCEPT !.e = [@ EXCEPT !.state = "CLOSING", !.endQueued = TRUE]])

(* The END message goes to the first available transport, and is answered. *)
EndAnswered ==
    /\ endpoint.endQueued /\ endpoint.avail # <<>>
    /\ Apply(OnEnd([Now EXCEPT !.e.endQueued = FALSE]))
    /\ Sane
-----------------------------------------------------------------------------
(* The handlers of a WebSocket. *)
WsOpen(k) ==
    /\ transport[k].sock = "opening"
    /\ Apply(SetState([Now EXCEPT !.t[k].sock = "open"], k, "CONNECTED", TRUE))
    /\ Sane

WsError(k) ==
    /\ transport[k].sock \in {"opening", "open"}
    /\ Fault(1)
    /\ \E inTime \in BOOLEAN :
           Apply(SetState([Now EXCEPT !.t[k].sock = "none"], k, "ERROR", inTime))

WsClose(k) ==
    /\ \/ transport[k].sock = "closing" /\ Sane
       \/ transport[k].sock = "open" /\ Fault(1)
    /\ LET s == [Now EXCEPT !.t[k].sock = "none"]
       IN  IF transport[k].st = "ERROR" THEN Apply(s)
           ELSE \E inTime \in BOOLEAN : Apply(SetState(s, k, "DISCONNECTED", inTime))

(* openConnection: how a request ends.  A timer aborts it while it is being *)
(* opened or uploaded or, if the transport is running, when the body stops *)
(* coming; or when no body has come behind the headers.                    *)
Outcomes(k) ==
    {"answer", "error", "abort"}
        \union (IF transport[k].running THEN {"abort without body"} ELSE {})

(* The ends of the requests of an HTTP transport: the GET that connects    *)
(* it, a POST, the long poll, and the POST that ends it.                   *)
GotUrl(k) ==
    /\ transport[k].gets > 0
    /\ LET x == transport[k]
           s == [Now EXCEPT !.t[k].gets = @ - 1]
           g == [Now EXCEPT !.t[k] = [x EXCEPT !.gets = x.gets - 1, !.running = TRUE,
                                               !.polls = x.polls + 1]]
       IN  \/ /\ Apply(SetState(g, k, "CONNECTED", TRUE))
              /\ Sane
           \/ /\ Fault(1)
              /\ \E outcome \in Outcomes(k) \ {"answer"}, inTime \in BOOLEAN :
                    Apply(SetState(s, k, "ERROR", inTime))

(* hasError is set after the last readystatechange, and the status is not  *)
(* looked at: a POST that failed counts as answered, and is no fault here. *)
Posted(k) ==
    /\ transport[k].posts > 0
    /\ LET x == transport[k]
           s == [Now EXCEPT !.t[k] = [x EXCEPT !.posts = x.posts - 1, !.sendQueued = FALSE]]
           a == [s EXCEPT !.t[k].buffered = FALSE]
       IN  \/ /\ Apply(IF transport[k].st \in {"UNAVAILABLE", "CONNECTED"}
                       THEN SetState(a, k, "AVAILABLE", TRUE) ELSE a)
              /\ Sane
           \/ /\ Fault(1)
              /\ \E outcome \in Outcomes(k) \ {"answer", "error"}, inTime \in BOOLEAN :
                    Apply(SetState(s, k, "ERROR", inTime))

(* The timer of setState: without anything to send internalSend returns    *)
(* early, with _sendQueued set.                                            *)
Flush(k) ==
    /\ transport[k].flushes > 0
    /\ LET s == [Now EXCEPT !.t[k].flushes = @ - 1]
       IN  Apply(IF transport[k].buffered THEN Post(s, k)
                 ELSE [s EXCEPT !.t[k].sendQueued = TRUE])
    /\ Sane

(* After an answer, or when no body came, a running transport polls again, *)
(* which changes nothing here and is no step.                              *)
Polled(k) ==
    /\ transport[k].polls > 0
    /\ LET s == [Now EXCEPT !.t[k].polls = @ - 1]
           ending == transport[k].st \in {"DISCONNECTING", "DISCONNECTED"}
       IN  \/ ~transport[k].running /\ Apply(s) /\ Sane
           \/ /\ Fault(1)
              /\ \E outcome \in Outcomes(k) \ {"answer", "abort without body"},
                    inTime \in BOOLEAN :
                    Apply(IF outcome = "error" /\ ending THEN s
                          ELSE SetState(s, k, "ERROR", inTime))

Quit(k) ==
    /\ transport[k].quit /\ ~transport[k].sendQueued
    /\ LET s == [Now EXCEPT !.t[k] = [@ EXCEPT !.quit = FALSE, !.running = FALSE]]
       IN  Apply(IF transport[k].st = "DISCONNECTING"
                 THEN SetState(s, k, "DISCONNECTED", TRUE) ELSE s)
    /\ Sane

(* The endpoint sends a message by POST. *)
Message(k) ==
    /\ ~IsWs(k) /\ endpoint.avail # <<>> /\ endpoint.avail[1] = k
    /\ transport[k].posts < MaxPosts
    /\ Fault(1)
    /\ Apply(Post(Now, k))

(* connectionTimeoutTask *)
ConnectTimeout(k) ==
    /\ transport[k].st = "CONNECTING"
    /\ Fault(1)
    /\ Apply(InternalDisconnect(SetState(Now, k, "ERROR", TRUE), k))

(* predictedKeepaliveExpired: nothing was heard of the peer. *)
KeepaliveExpired(k) ==
    /\ transport[k].st \in {"CONNECTED", "AVAILABLE", "UNAVAILABLE"}
    /\ Fault(1)
    /\ \E inTime \in BOOLEAN : Apply(SetState(Now, k, "DISCONNECTED", inTime))
-----------------------------------------------------------------------------
(* The server's messages come by an open socket or a long poll. *)
Hears(k) == transport[k].sock = "open" \/ transport[k].polls > 0

(* OPENED, the answer to OPEN: the transport becomes available. *)
Opened(k) ==
    /\ transport[k].owes /\ Hears(k)
    /\ \E withConfig \in BOOLEAN :
        LET s == [Now EXCEPT !.t[k].owes = FALSE]
            a == IF transport[k].st \in {"UNAVAILABLE", "CONNECTED"}
                 THEN SetState(s, k, "AVAILABLE", TRUE) ELSE s
        IN  Apply(IF transport[k].hooked THEN OnOpened(a, withConfig) ELSE a)
    /\ Sane

(* CLOSE: the server does not want this transport any more. *)
ServerCloses(k) ==
    /\ Hears(k) /\ Fault(1)
    /\ Apply(SetState(InternalDisconnect(Disconnect(Now, k), k), k, "DISCONNECTED", TRUE))

(* END and ERROR of the session. *)
ServerEnds(k) ==
    /\ Hears(k) /\ transport[k].hooked /\ Fault(1)
    /\ \/ Apply(OnEnd(Now))
       \/ endpoint.state # "ERROR" /\ Apply(Fail(Now))

(* A socket without handlers is closed by the server in the end. *)
StrayCloses(k) ==
    /\ transport[k].stray > 0
    /\ Apply([Now EXCEPT !.t[k].stray = @ - 1])
    /\ Fault(1)
-----------------------------------------------------------------------------
(* What happens by itself. *)
TimerStep == Start \/ Recover \/ Reopen \/ CycleAgain \/ EndAnswered

TransportStep(k) ==
    WsOpen(k) \/ WsClose(k) \/ GotUrl(k) \/ Posted(k) \/ Flush(k) \/ Polled(k) \/ Quit(k) \/ Opened(k)

FaultStep(k) ==
    WsError(k) \/ Message(k) \/ ConnectTimeout(k) \/ KeepaliveExpired(k)
        \/ ServerCloses(k) \/ ServerEnds(k) \/ StrayCloses(k)

Next ==
    \/ TimerStep \/ Periodic \/ Close
    \/ \E k \in Transports : TransportStep(k) \/ FaultStep(k)

Spec == Init /\ [][Next]_vars
-----------------------------------------------------------------------------
TransportStates ==
    {"DISCONNECTED", "CONNECTING", "CONNECTED", "AVAILABLE", "UNAVAILABLE",
     "DISCONNECTING", "ERROR"}

EndpointType ==
    [state : {"CLOSED", "OPENING", "OPEN", "SLEEPING", "CLOSING", "ERROR"},
     starting : BOOLEAN,
     toConnect : SUBSET Transports, active : SUBSET Transports,
     avail : Seq(Transports),
     recovering : BOOLEAN, recoverTimer : BOOLEAN, reopens : Nat,
     cycling : BOOLEAN, cycleTimer : BOOLEAN, periodic : BOOLEAN, endQueued : BOOLEAN]

TransportType ==
    [st : TransportStates, hooked : BOOLEAN,
     sock : {"none", "opening", "open", "closing"}, stray : Nat,
     gets : Nat, polls : Nat, running : BOOLEAN, posts : Nat,
     buffered : BOOLEAN, sendQueued : BOOLEAN, flushes : Nat,
     quit : BOOLEAN, owes : BOOLEAN]

(* The fields of the endpoint and of every transport have their types. *)
TypeOK ==
    /\ endpoint \in EndpointType
    /\ transport \in [Transports -> TransportType]
    /\ faults \in 0..MaxFaults

(* Messages are only handed to a transport that can send them and whose    *)
(* failures the endpoint hears of, whatever late answers and stale timers  *)
(* have done to it; and there is one such transport, maxActiveTransports.  *)
AvailableCanSend ==
    /\ Len(endpoint.avail) <= 1
    /\ \A k \in ToSet(endpoint.avail) :
           transport[k].st = "AVAILABLE" /\ transport[k].hooked

(* While the endpoint lives a lost connection can be noticed and made      *)
(* again: recoveryFun is armed, and the flag that keeps kickRecoveryThread *)
(* from arming its timer is only set while that timer is armed.            *)
CanRecover ==
    ~Ended(endpoint) => endpoint.periodic /\ endpoint.recovering = endpoint.recoverTimer

(* An endpoint that has ended stays so: no timer, late answer or message   *)
(* that was under way makes it live again or connects a transport.         *)
EndedIsFinal ==
    [][Ended(endpoint) /\ ~endpoint.starting =>
         /\ Ended(endpoint')
         /\ \A k \in Transports :
               transport[k].st # "CONNECTING" => transport'[k].st # "CONNECTING"]_vars
=============================================================================
