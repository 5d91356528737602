----------------------------- MODULE MessageBus -----------------------------
(***************************************************************************)
(* The control-plane message bus of the Media Delivery Network simulator   *)
(* (the external RMB library behind MessageBusServer / MessageBusClient),  *)
(* with the vocabulary of the messages the Master and the NodeContainers   *)
(* exchange.                                                               *)
(*                                                                         *)
(* A send is asynchronous: the call returns and the handler runs later.    *)
(* Handlers of different messages may run in any order and overlap, which  *)
(* is what the `synchronized' methods and the ConcurrentHashMaps of the    *)
(* callers are written for.  The bus neither loses nor duplicates a        *)
(* message it accepted; a message to a resource without a listener is      *)
(* dropped.  The messages that were addressed to the null URI are          *)
(* remembered in deadLetters.                                              *)
(***************************************************************************)
EXTENDS Naturals

CONSTANTS
    Nodes,       \* node ids; the part before ":" is the label of a container
    Containers,  \* node containers, identified by their URI
    Labels,      \* labels under which containers register
    Flows,       \* flow ids: the node ids on a sink-to-source path, plus the stream
    NodeLabel,   \* [Nodes -> Labels]       CreateNodeRequest.getNcLabel
    NcLabel,     \* [Containers -> Labels]  the label a container was started with
    FlowNodes,   \* [Flows -> SUBSET Nodes] the nodes on the path of a flow
    FlowSink,    \* [Flows -> Nodes]        the first node of the path
    NoURI,       \* the null URI of a container that has not registered
    MaxUploads   \* bound on the uploads of a work config

Gen == 1 .. MaxUploads

\* Every upload deserialises new Flow objects: <<f, u>> is the object that
\* upload u made for the flow id f.
FlowObject == Flows \X Gen

ASSUME TopologyAssumption ==
    /\ MaxUploads \in Nat \ {0}
    /\ NodeLabel \in [Nodes -> Labels]
    /\ NcLabel \in [Containers -> Labels]
    /\ FlowNodes \in [Flows -> SUBSET Nodes]
    /\ FlowSink \in [Flows -> Nodes]
    /\ \A f \in Flows : FlowSink[f] \in FlowNodes[f]
    /\ NoURI \notin Containers
-----------------------------------------------------------------------------
Host == Containers \cup {NoURI}

\* PUT /node_containers, to the Master
RegisterContainerMsg(c) == [type |-> "registerContainer", from |-> c]
\* PUT <container>/nodes/<node>
CreateMsg(n, c) == [type |-> "create", node |-> n, to |-> c]
\* PUT /nodes, to the Master
RegisterMsg(n, c) == [type |-> "register", node |-> n, from |-> c]
\* DELETE <container>/nodes
DeleteNodesMsg(c) == [type |-> "deleteNodes", to |-> c]
\* PUT <sink>/tasks: the payload is the stream, of which the receiver uses the
\* flow; complete says that every node of that flow carries its URI.  obj tells
\* which Flow object made the Master send it.
StartMsg(o, c, complete) ==
    [type |-> "start", obj |-> o, to |-> c, complete |-> complete]
\* POST <sink>/tasks: the payload is the Flow object of the running flow
StopMsg(f, c, complete) ==
    [type |-> "stop", flow |-> f, to |-> c, complete |-> complete]

Message ==
    [type : {"registerContainer"}, from : Containers]
        \cup [type : {"create"}, node : Nodes, to : Host]
        \cup [type : {"register"}, node : Nodes, from : Containers]
        \cup [type : {"deleteNodes"}, to : Containers]
        \cup [type : {"start"}, obj : FlowObject, to : Host, complete : BOOLEAN]
        \cup [type : {"stop"}, flow : Flows, to : Host, complete : BOOLEAN]
-----------------------------------------------------------------------------
VARIABLES
    bus,         \* [Message -> Nat]: copies of a message accepted, not yet handled
    deadLetters  \* messages that were addressed to the null URI

busVars == <<bus, deadLetters>>

BusTypeOK ==
    /\ bus \in [Message -> Nat]
    /\ deadLetters \subseteq Message

BusInit ==
    /\ bus = [m \in Message |-> 0]
    /\ deadLetters = {}

InFlight(m) == bus[m] > 0

\* A message addressed to the null URI goes nowhere.
Undeliverable(S) == {m \in S : "to" \in DOMAIN m /\ m.to = NoURI}

\* A handler consumes the messages of In (at most one) and sends those of Out;
\* a message whose resource has no listener is consumed by nobody in the same way.
\* (TLC evaluates a bound value once, and a definition at every use.)
Exchange(In, Out) ==
    \E lost \in {Undeliverable(Out)} : \E accepted \in {Out \ lost} :
        /\ bus' = [m \in Message |->
                     (bus[m] + (IF m \in accepted THEN 1 ELSE 0))
                         - (IF m \in In THEN 1 ELSE 0)]
        /\ deadLetters' = deadLetters \cup lost

=============================================================================
