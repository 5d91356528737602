------------------------------ MODULE PageBus -------------------------------
(***************************************************************************)
(* The message bus of a web page: the tree of resources of rmb-amb.js over *)
(* the named peer of amb-tmb.js and tmb.js, and the two pages that use it, *)
(* displayGraph.js ("webclient") and nc.js ("nc").  The Trap endpoint      *)
(* below is the stream it promises: frames arrive in order, until it ends. *)
(* The broker and the Master's side are external.                          *)
(***************************************************************************)
EXTENDS TmbMessage, FiniteSets

CONSTANTS
    IdOf,         \* [pages -> text]: the id a page asks for
    OtherNames,   \* names the broker gives when the id is taken
    Master,       \* the name of the Master, "mdnsim"
    Uids,         \* the ids that new resources get, of Trap._uid
    MaxRequests,  \* bound: requests of the page
    MaxUpdates    \* bound: updates of the Master

Pages == DOMAIN IdOf
Names == Range(IdOf) \cup OtherNames \cup {Master}

\* Names are texts, of fewer than the 2^31 bytes a frame can say.  An id, of a
\* random number and a counter, is never the same twice, and no word of the pages.
ASSUME BusAssumption ==
    /\ MaxRequests \in Nat /\ MaxUpdates \in Nat
    /\ \A n \in Names : n \in Seq(Char) /\ Len(n) < 64 * 256 * 256 * 256
    /\ 1..(MaxRequests + 1) \subseteq DOMAIN Uids
    /\ \A j, k \in 1..(MaxRequests + 1) : Uids[j] = Uids[k] => j = k
    /\ \A k \in 1..(MaxRequests + 1) : Uids[k] \notin {"start", "create", "update"}

\* What a frame is after it was made into bytes and read from them; that of the
\* first frames is computed once.
Received(m) == Deserialize(Serialize(m))
FirstTexts == 2 * (MaxRequests + 1) + MaxUpdates + 2
FirstFrames == {Message(HELLO, n, <<>>, <<>>) : n \in Names}
                  \cup {Message(SEND, n, <<>>, <<t>>) : n \in Names, t \in 1..FirstTexts}
FirstReceived == [m \in FirstFrames |-> Received(m)]
Read(m) == IF m \in FirstFrames THEN FirstReceived[m] ELSE Received(m)

VARIABLES
    page,      \* which page it is
    ready,     \* the script of the page has installed its listeners
    link,      \* the endpoint: "none", "opening", "open", "closed"
    name,      \* tmb.name
    id,        \* rmb._id, <<>> before the bus is open
    children,  \* the paths of the resources below the root
    toBroker, toPage,   \* the frames under way
    texts,     \* every JSON text that was made, in order
    requests,  \* of each request: its resource, and whether the bus was open
    called,    \* of each request: the requests its callback got answers to
    lost,      \* messages that came to the page and found no resource
    shown,     \* the updates that refreshGraph got
    webClientURI,  \* the Master's: the page's path, <<>> before it registers
    peer,      \* the broker's: the name it gave, <<>> before
    pending    \* the Master's: texts of the requests it has not answered

pageVars == <<page, ready, link, name, id, children, requests, called, lost, shown>>
masterVars == <<webClientURI, peer, pending>>
vars == <<pageVars, toBroker, toPage, texts, masterVars>>

Init ==
    /\ page \in Pages
    /\ name = IdOf[page]
    /\ ready = FALSE /\ link = "none" /\ id = <<>> /\ children = {}
    /\ toBroker = <<>> /\ toPage = <<>> /\ texts = <<>>
    /\ requests = <<>> /\ called = <<>> /\ lost = {} /\ shown = 0
    /\ webClientURI = <<>> /\ peer = <<>> /\ pending = {}
-----------------------------------------------------------------------------
(* The bus below the page. *)
Root == <<name>>        \* rmb.id(): "/" and the name; a path is its parts
IsOpen == link = "open"

\* A JSON text, and the frame that carries the latest one.
Text(to, from, method, data) == [to |-> to, from |-> from, method |-> method, data |-> data]
Stringify(text) == texts' = Append(texts, text)
Carry(to) == Message(SEND, to, <<>>, <<Len(texts')>>)

(* A Trap endpoint that is not open throws; the bus has no other guard. *)
Send(text) ==
    /\ Stringify(text)
    /\ toBroker' = IF IsOpen THEN Append(toBroker, Carry(text.to[1])) ELSE toBroker

(* message().to(...).send() at the root. *)
SendMessage(resource, method, data) == Send(Text(<<Master, resource>>, Root, method, data))

\* Variant: the callback is set on the resource that asks.
RequestAtSource(src, resource, method) ==
    LET k == Len(requests) + 1 IN
    /\ requests' = Append(requests, [path |-> src, open |-> id # <<>> /\ IsOpen])
    /\ children' = children \cup ({src} \ {<<>>})
    /\ called' = Append(called, {})
    /\ Send(Text(<<Master, resource>>, Root \o src, method, k))

(* request().execute(cb): a new child of the resource that asks waits for the
   answer; it stays for ever, and also if the send throws. *)
Request(src, resource, method) ==
    LET k == Len(requests) + 1
        res == Append(src, Uids[k])
    IN /\ requests' = Append(requests, [path |-> res, open |-> id # <<>> /\ IsOpen])
       /\ children' = children \cup ({src, res} \ {<<>>})
       /\ called' = Append(called, {})
       /\ Send(Text(<<Master, resource>>, Root \o res, method, k))

(* dispatchFun, from the root down: the resource a path leads to, if any.  The
   callback of a resource is that of the last request that set it. *)
Finds(path) == path[1] = id /\ Tail(path) \in children
Listener(path) == {k \in DOMAIN requests : requests[k].path = Tail(path)}
Callback(path) == CHOOSE k \in Listener(path) : \A j \in Listener(path) : j <= k
-----------------------------------------------------------------------------
(* The page. *)

\* new TMB.Client: connect() runs from a timer.
Connect ==
    /\ link = "none" /\ link' = "opening"
    /\ UNCHANGED <<page, ready, name, id, children, requests, called, lost, shown,
                   toBroker, toPage, texts, masterVars>>

EndpointOpens ==
    /\ link = "opening" /\ link' = "open"
    /\ toBroker' = Append(toBroker, Message(HELLO, name, <<>>, <<>>))
    /\ UNCHANGED <<page, ready, name, id, children, requests, called, lost, shown,
                   toPage, texts, masterVars>>

(* The stream ends; nobody listens to it, and nothing connects again. *)
EndpointCloses ==
    /\ link = "open" /\ link' = "closed"
    /\ toBroker' = <<>> /\ toPage' = <<>>
    /\ UNCHANGED <<page, ready, name, id, children, requests, called, lost, shown,
                   texts, masterVars>>

(* initWarp, or the end of the script nc.js: the listener of "open" and the
   resources that the Master calls. *)
Ready ==
    /\ ~ready /\ ready' = TRUE
    /\ children' = children \cup (IF page = "webclient" THEN {<<"create">>, <<"update">>} ELSE {})
    /\ UNCHANGED <<page, link, name, id, requests, called, lost, shown,
                   toBroker, toPage, texts, masterVars>>

TakeName(m) ==
    /\ name' = m.to
    /\ id' = m.to

(* HELLO: the name is known, the bus is open.  The page registers with the
   Master, or asks it for the containers. *)
ReceiveHello ==
    /\ toPage # <<>>
    /\ LET m == Read(Head(toPage)) IN
       /\ m.op = HELLO
       /\ TakeName(m)
       /\ toPage' = Tail(toPage)
       /\ IF ready /\ page = "webclient"
          THEN /\ Stringify(Text(<<Master, "register_webclient">>, <<m.to>>, "POST", m.to))
               /\ toBroker' = Append(toBroker, Carry(Master))
               /\ UNCHANGED <<children, requests, called>>
          ELSE IF ready
          THEN LET k == Len(requests) + 1 IN
               /\ requests' = Append(requests, [path |-> <<Uids[k]>>, open |-> TRUE])
               /\ children' = children \cup {<<Uids[k]>>}
               /\ called' = Append(called, {})
               /\ Stringify(Text(<<Master, "nodes">>, <<m.to, Uids[k]>>, "GET", k))
               /\ toBroker' = Append(toBroker, Carry(Master))
          ELSE UNCHANGED <<children, requests, called, texts, toBroker>>
    /\ UNCHANGED <<page, ready, link, lost, shown, masterVars>>

(* SEND: an answer calls the callback of its resource, an update refreshGraph. *)
ReceiveMessage ==
    /\ toPage # <<>>
    /\ LET m == Read(Head(toPage)) IN m.op = SEND /\
       LET msg == texts[m.payload[1]] IN
          /\ toPage' = Tail(toPage)
          /\ IF ~Finds(msg.to)
             THEN lost' = lost \cup {msg} /\ UNCHANGED <<called, shown>>
             ELSE IF Listener(msg.to) # {}
             THEN /\ called' = [called EXCEPT ![Callback(msg.to)] = @ \cup {msg.data}]
                  /\ UNCHANGED <<lost, shown>>
             ELSE /\ shown' = IF msg.method = "POST" /\ Tail(msg.to) = <<"update">>
                              THEN shown + 1 ELSE shown
                  /\ UNCHANGED <<lost, called>>
    /\ UNCHANGED <<page, ready, link, name, id, children, requests,
                   toBroker, texts, masterVars>>

(* The user: a file of flows to start, or the button of nc.html. *)
Ask ==
    /\ ready /\ Len(requests) < MaxRequests
    /\ IF page = "webclient" THEN Request(<<"start">>, "work_config", "POST")
                             ELSE Request(<<>>, "nodes", "GET")
    /\ UNCHANGED <<page, ready, link, name, id, lost, shown, toPage, masterVars>>

(* The user: the reset button, or a file of flows to stop. *)
Tell ==
    /\ ready /\ page = "webclient"
    /\ \A i \in DOMAIN texts : texts[i].method # "DELETE"
    /\ \E resource \in {"simulations", "work_config"} : SendMessage(resource, "DELETE", 0)
    /\ UNCHANGED <<pageVars, toPage, masterVars>>
-----------------------------------------------------------------------------
(* The broker and the Master. *)
BrokerHello ==
    /\ toBroker # <<>> /\ IsOpen
    /\ LET m == Read(Head(toBroker)) IN
       /\ m.op = HELLO
       /\ peer' \in {m.to} \cup OtherNames
    /\ toBroker' = Tail(toBroker)
    /\ toPage' = Append(toPage, Message(HELLO, peer', <<>>, <<>>))
    /\ UNCHANGED <<pageVars, texts, webClientURI, pending>>

MasterReceives ==
    /\ toBroker # <<>> /\ IsOpen
    /\ LET m == Read(Head(toBroker)) IN m.op = SEND /\
       LET msg == texts[m.payload[1]] IN
          /\ webClientURI' = IF msg.to[2] = "register_webclient" THEN <<msg.data>> ELSE webClientURI
          /\ pending' = IF Len(msg.from) > 1 THEN pending \cup {m.payload[1]} ELSE pending
    /\ toBroker' = Tail(toBroker)
    /\ UNCHANGED <<pageVars, toPage, texts, peer>>

(* The broker brings to the page what is addressed to its name. *)
ToPage(text) ==
    /\ Stringify(text)
    /\ toPage' = IF IsOpen /\ text.to[1] = peer THEN Append(toPage, Carry(peer)) ELSE toPage

MasterAnswers ==
    \E t \in pending :
        /\ ToPage(Text(texts[t].from, <<Master>>, "none", texts[t].data))
        /\ pending' = pending \ {t}
        /\ UNCHANGED <<pageVars, toBroker, webClientURI, peer>>

Updates == {i \in DOMAIN texts : texts[i].to[Len(texts[i].to)] = "update"}

MasterUpdates ==
    /\ webClientURI # <<>> /\ Cardinality(Updates) < MaxUpdates
    /\ ToPage(Text(Append(webClientURI, "update"), <<Master>>, "POST", 0))
    /\ UNCHANGED <<pageVars, toBroker, masterVars>>
-----------------------------------------------------------------------------
UserStep == Ask \/ Tell
PageStep == Connect \/ EndpointOpens \/ Ready \/ ReceiveHello \/ ReceiveMessage
MasterStep == BrokerHello \/ MasterReceives \/ MasterAnswers
Next == UserStep \/ PageStep \/ MasterStep \/ MasterUpdates \/ EndpointCloses

Spec == Init /\ [][Next]_vars

(***************************************************************************)
(* Fairness: timers fire, the endpoint opens and delivers, the broker and  *)
(* the Master answer.  Nobody has to ask, update or close.                 *)
(***************************************************************************)
FairSpec == Spec /\ WF_vars(PageStep) /\ WF_vars(MasterStep)
-----------------------------------------------------------------------------
(* An answer calls the callback of the request it answers and no other, in
   whatever order the Master answers (rmb-amb.js, request and dispatchFun). *)
AnswerReachesItsAsker == \A k \in DOMAIN called : called[k] \subseteq {k}

(* Whatever name the broker gives the page, and whenever its script is ready,
   a message that comes to the page finds the resource it is for. *)
NothingArrivesInVain == lost = {}

(* Every request that is made while the bus is open gets its answer, and every
   update the Master sends to a page is shown, unless the connection ends. *)
AskersAreAnswered ==
    <>[](link = "closed" \/
         /\ \A k \in DOMAIN requests : requests[k].open => called[k] = {k}
         /\ shown = Cardinality(Updates))
=============================================================================
